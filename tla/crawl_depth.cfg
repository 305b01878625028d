SPECIFICATION FairSpec
CONSTANTS
  Workers = {w1, w2}
  Main = main
  NoJob = none
  URL <- MCURL
  Norm <- MCNorm
  InScope <- MCInScope
  SeedLists <- TwoSeeds
  Links <- Shortcut
  Response <- AllHtml
  Verdict <- AllAllowed
  RespectRobots = FALSE
  MaxDepth = 2
  QueueSize = 5
INVARIANTS FullCoverage
CHECK_DEADLOCK FALSE
