\* Does a read that is reported done return what the board held?
SPECIFICATION Spec
CONSTANTS
  NumStores = 2
  a = a
  b = b
  Blocks = {a}
  Erased = Erased
  Junk = Junk
  Payload = Payload
  Retries = 2
  MaxLine = 2
CONSTRAINT Promised
INVARIANTS
  ReadbackReads
