SPECIFICATION FairSpec
CONSTANTS
  u1 = u1
  u2 = u2
  u3 = u3
  User <- MCUser
  Nobody = nobody
  MaxLeft <- MCMaxLeft
INVARIANTS TypeOK Collected
PROPERTIES NextServed
CHECK_DEADLOCK FALSE
