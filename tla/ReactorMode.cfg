SPECIFICATION Spec
CONSTANTS
  a = a
  b = b
  j1 = j1
  j2 = j2
  Jobs = {j1, j2}
  Actors = {a, b}
  Owner <- MCOwner
  Plans <- MCPlans
  MaxCame = 2
  Delims = {1}
  MaxRoom = 1
  TlsRoom = 1
  None = None
INVARIANT ReactorNeverBlocks
