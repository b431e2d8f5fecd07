SPECIFICATION Spec
CONSTANTS
  Steps <- MCSteps
  ThreadOf <- MCThreadOf
  StringRank <- MCStringRank
  EnableDrop = TRUE
  EnableDelay = TRUE
  PhaseOrder = "drop_first"
  HeadSteps = {}
  Statuses = {200, 404}
  ArtifactOk = 200
  Treat404 = FALSE
  Treat408 = FALSE
  Threads <- ThreeThreads
  Workloads <- Shortest
INVARIANT ExplorationComplete
