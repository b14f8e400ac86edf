SPECIFICATION FairSpec
CONSTANTS
  s1 = s1
  s2 = s2
  Shell <- MCShell
  Lines <- MCLines
  Exit <- MCExit
  Chats <- MCChats
  MaxChat <- MCMaxChat
  MaxTyped <- MCMaxTyped
  MaxWeb = 1
INVARIANTS TypeOK LinesInOrder OneLinePerPrompt EchoBeforeResult
PROPERTIES ScriptSent
CHECK_DEADLOCK FALSE
