SPECIFICATION Spec
CONSTANTS
  Id <- MCId
  Name = {amy}
  NoName = noname
  Blank = blank
  Lines <- MCLines
  Far = {}
  Cap = 1
  Together = {"connect"}
  MaxSessions = 2
  MaxLines = 1
CHECK_DEADLOCK FALSE
INVARIANT RowIsOwn
