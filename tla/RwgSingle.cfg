SPECIFICATION FairSpec
CONSTANTS
  Pid <- MCPid
  Pipe <- MCPipe
  Cap = 1
  Prog <- MCProg
  Emit <- MCEmit
  Filter = {"cat"}
  Missing = {"ctt"}
  Lines <- MCLines
  Id <- MCId
  Fd <- MCFd
  Name = {amy}
  NoName = noname
  Var = {X}
  Val = {one}
  Unset = unset
  InitEnv <- MCInitEnv
  MaxLines = 3
  MaxSessions = 3
INVARIANTS TypeOK Registered NamesUnique EnvIsOwn RoutedAsMeant EofIsReachable
PROPERTIES ImplementsRegistry ServerReturns
CHECK_DEADLOCK FALSE
