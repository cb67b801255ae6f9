SPECIFICATION FairSpec
CONSTANTS
  Qh = {q1, q2, q3}
  Anchor = anchor
  Junk = junk
INVARIANTS
  HcHoldsNoOwnedQh
  ListIsRing
PROPERTIES
  RemovalCompletes
  AddedIsVisited
  ImplementsOwnership
