SPECIFICATION FairSpec
CONSTANTS
  p = p
  k = k
  o = o
  Conn <- MCConn
  Kind <- MCKind
  Long <- MCLong
  Size = 2
INVARIANTS TypeOK WholeAnswer NoMutualHold
PROPERTIES PageEnds
CHECK_DEADLOCK FALSE
