SPECIFICATION FairSpec
CONSTANTS
  Pid <- MCPid
  Pipe <- MCPipe
  Cap = 1
  Prog <- MCProg
  Emit <- MCEmit
  Filter = {"cat"}
  Missing = {"ctt"}
  Lines <- LargeLines
  MaxLines = 3
PROPERTY PromptReturns
CHECK_DEADLOCK FALSE
