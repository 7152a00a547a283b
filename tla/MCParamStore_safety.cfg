\* Every operation, fault and restart on a board with two stores.
SPECIFICATION Spec
CONSTANTS
  NumStores = 2
  a = a
  b = b
  Blocks = {a, b}
  Erased = Erased
  Junk = Junk
  Payload = Payload
  Retries = 2
  MaxLine = 2
SYMMETRY BlockSymmetry
INVARIANTS
  NeverOverprogrammed
  WriteDoneStored
  ReadDoneWhole
  DumpDoneExact
  CalmSucceeds
PROPERTIES
  ReadLeavesFlash
CONSTRAINT Promised
