\* The firmware: the HTTP server task is the only caller.  The board may stay
\* silent for ever.
SPECIFICATION FairSpec
CONSTANTS
  Callers = {httpd}
  Worker = Worker
  Nobody = Nobody
  QueueLen = 3
  MaxId = 2
  DumpSize = 3
  FrameBytes = 2
  ReportBytes = 3
INVARIANTS
  CancelIsForThisOp
PROPERTIES
  CancelTakesEffect
  EventuallyFree
