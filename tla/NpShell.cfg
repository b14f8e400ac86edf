SPECIFICATION FairSpec
CONSTANTS
  Pid <- MCPid
  Pipe <- MCPipe
  Cap = 3
  Prog <- MCProg
  Emit <- MCEmit
  Filter = {"cat"}
  Missing = {"ctt"}
  Lines <- MCLines
  MaxLines = 3
INVARIANTS TypeOK RoutedAsWritten NoMissedPipe EofIsReachable PromptAfterOutput
PROPERTY PromptReturns
