\* Two paths, three contents, two parameters of three ticks.
SPECIFICATION Spec
CONSTANTS
  a = a
  b = b
  Addresses = {0, 1}
  Base = 2
  MaxTick = 2
  Paths = {a, b}
  Contents <- SomeFiles
  First <- TwoPaths
  Inputs = {2}
  OtherTicks <- OtherBoard
  MaxRuns = 2
  MaxEdits = 1
  MaxChanges = 1
CHECK_DEADLOCK FALSE
INVARIANTS
  ValuesOfOwnPath
  WrittenAsConfirmed
  RefusedOnlyIfChanged
PROPERTIES
  ChangesListed
  ReadbackShown
