SPECIFICATION FairSpec
CONSTANTS
  a4 = a4
  b4 = b4
  a6 = a6
  Addr <- MCAddr
  V4 <- MCV4
  Port = port
  Answers <- DownloadAnswers
  Rules <- MCRules
  Cap = 2
  MaxSent <- DownloadSent
  MaxEdits = 0
PROPERTY DownloadEnds
CHECK_DEADLOCK FALSE
