SPECIFICATION FairSpec
CONSTANTS
  Workers = {w1, w2}
  Main = main
  NoJob = none
  URL <- MCURL
  Norm <- MCNorm
  InScope <- MCInScope
  SeedLists <- MCSeedLists
  Links <- MCLinks
  Response <- MCResponse
  Verdict <- MCVerdict
  RespectRobots = TRUE
  MaxDepth = 2
  QueueSize = 2
INVARIANTS TypeOK JobAccounting OneJobPerWorker DepthSound NoPageForgotten NilMeansDone
PROPERTIES WaitGroupNotRevived QuietAfterNil Promised ReturnsUnlessStuck CancelReleasesAll BreadthFirstAlone FullCoverageAlone
CHECK_DEADLOCK FALSE
