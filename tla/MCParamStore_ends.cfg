\* The worker is fair; the board may stay silent for ever.
SPECIFICATION FairSpec
CONSTANTS
  NumStores = 1
  a = a
  b = b
  Blocks = {a}
  Erased = Erased
  Junk = Junk
  Payload = Payload
  Retries = 3
  MaxLine = 2
PROPERTIES
  ConnectedEnds
