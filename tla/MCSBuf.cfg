\* Two producers and two consumers on a ring of two slots; rear runs to 4, so
\* every slot is reused.  Safety only.  The model stops at IntMax.
CONSTANTS
  p1 = p1
  p2 = p2
  c1 = c1
  c2 = c2
  x = x
  y = y
  None = None
  Producers <- TwoProducers
  Consumers <- TwoConsumers
  Items <- TwoItems
  N = 2
  IntMax = 4
SPECIFICATION Spec
INVARIANTS
  MutualExclusion
  IInv
PROPERTIES
  IsBoundedQueue
CHECK_DEADLOCK FALSE
