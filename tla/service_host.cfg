CONSTANTS
  s1 = s1
  s2 = s2
  c1 = c1
  c2 = c2
  Server <- MCServer
  Call <- MCCall
  OpOf <- MCOpOf
SPECIFICATION FairSpec
INVARIANTS
  TypeOK
  PolicyDecides
  StopsInOrder
  RefusalsToldApart
PROPERTY
  ServeEnds
CHECK_DEADLOCK FALSE
