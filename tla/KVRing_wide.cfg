SPECIFICATION Spec
CONSTANTS
  a = a
  b = b
  Zero = Zero
  Value <- MCValue
  Pmax = 5
  ring_W = 4
  SW = 2
  Jmax = 2
INVARIANTS WindowAgrees
PROPERTY ImplementsCache
