\* Is "canceled" reported only for operations that were cancelled?
SPECIFICATION Spec
CONSTANTS
  NumStores = 1
  a = a
  b = b
  Blocks = {a}
  Erased = Erased
  Junk = Junk
  Payload = Payload
  Retries = 3
  MaxLine = 2
INVARIANTS
  CanceledMeansAsked
