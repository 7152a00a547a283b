\* Two pages; requests, answers and cancels may be lost, the ESP32 may restart
\* and the board may never answer.
SPECIFICATION LiveSpec
CONSTANTS
  p1 = p1
  p2 = p2
  Pages = {p1, p2}
  StylesOf <- AdminAndUser
  RunsOf <- Once
  MaxRestarts = 1
  Lossy = TRUE
CHECK_DEADLOCK FALSE
INVARIANTS
  ToldOfItsOwn
  Attended
PROPERTIES
  OnTheService
  CancelEnds
  CanceledReturns
