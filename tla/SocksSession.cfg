SPECIFICATION FairSpec
CONSTANTS
  a4 = a4
  b4 = b4
  a6 = a6
  Addr <- MCAddr
  V4 <- MCV4
  Port = port
  Answers <- MCAnswers
  Rules <- MCRules
  Cap = 2
  MaxSent <- MCSent
  MaxEdits = 1
INVARIANTS TypeOK Protocol Truthful EndsByReset
PROPERTIES ImplementsStreams Relayed Answered
CHECK_DEADLOCK FALSE
