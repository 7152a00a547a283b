\* Two API callers: every interleaving of the locks, the queue and the worker.
SPECIFICATION Spec
CONSTANTS
  c1 = c1
  c2 = c2
  Callers = {c1, c2}
  Worker = Worker
  Nobody = Nobody
  QueueLen = 2
  MaxId = 2
  DumpSize = 3
  FrameBytes = 2
  ReportBytes = 2
SYMMETRY CallerSymmetry
INVARIANTS
  NoStartDropped
  AnswerConsistent
PROPERTIES
  ImplementsService
  CancelHonoured
