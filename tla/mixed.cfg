SPECIFICATION Spec
CONSTANTS
  Steps <- MCSteps
  ThreadOf <- MCThreadOf
  StringRank <- MCStringRank
  EnableDrop = TRUE
  EnableDelay = TRUE
  PhaseOrder = "delay_first"
  HeadSteps = {"b1"}
  Statuses = {200, 404}
  ArtifactOk = 200
  Treat404 = FALSE
  Treat408 = FALSE
  Threads <- ThreeThreads
  Workloads <- BothKinds
INVARIANTS
  ExplorationClosed
  EveryOrderIsTried
  NoRunSticks
PROPERTY PrefixesAreFeasible
