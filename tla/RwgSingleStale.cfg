SPECIFICATION Spec
CONSTANTS
  Pid <- MCPid
  Pipe <- MCPipe
  Cap = 3
  Prog <- MCProg
  Emit <- MCEmit
  Filter = {"cat"}
  Missing = {"ctt"}
  Lines <- StaleLines
  Id <- MCId
  Fd <- MCFd
  Name = {amy}
  NoName = noname
  Var = {X}
  Val = {one}
  Unset = unset
  InitEnv <- MCInitEnv
  MaxLines = 3
  MaxSessions = 3
INVARIANT UserPipesClosed
