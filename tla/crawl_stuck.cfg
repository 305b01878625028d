SPECIFICATION FairSpec
CONSTANTS
  Workers = {w1, w2}
  Main = main
  NoJob = none
  URL <- MCURL
  Norm <- MCNorm
  InScope <- MCInScope
  SeedLists <- OneSeed
  Links <- MCLinks
  Response <- AllHtml
  Verdict <- AllAllowed
  RespectRobots = FALSE
  MaxDepth = 2
  QueueSize = 2
PROPERTIES EveryCrawlReturns
CHECK_DEADLOCK FALSE
