SPECIFICATION FairSpec
CONSTANTS
  Id <- MCId
  Name = {amy}
  NoName = noname
  Blank = blank
  Lines <- MCLines
  Far = {31}
  Cap = 1
  Together = {"talk"}
  MaxSessions = 3
  MaxLines = 4
INVARIANTS TypeOK RowIsOwn PipesAsFlagged Delivered LastHeard
PROPERTIES ImplementsRegistry Returns
CHECK_DEADLOCK FALSE
