\* Late answers and bytes nobody sent, before a board that answers in time.
SPECIFICATION LiveSpec
CONSTANTS
  FrameBytes = 4
  Retries = 3
  MaxNoise = 3
  MaxBytes = 12
CHECK_DEADLOCK FALSE
INVARIANTS
  OwnAnswer
  PromptRequestSucceeds
PROPERTIES
  SteadyBoardConnects
