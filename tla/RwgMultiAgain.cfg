SPECIFICATION FairSpec
CONSTANTS
  Id <- MCId
  Name = {amy}
  NoName = noname
  Blank = blank
  Lines <- AgainLines
  Far = {}
  Cap = 1
  Together = {}
  MaxSessions = 2
  MaxLines = 3
CHECK_DEADLOCK FALSE
PROPERTY HandlerReturns
