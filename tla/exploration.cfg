SPECIFICATION Spec
CONSTANTS
  Steps <- MCSteps
  ThreadOf <- MCThreadOf
  StringRank <- MCStringRank
  EnableDrop = TRUE
  EnableDelay = FALSE
  PhaseOrder = "drop_first"
  HeadSteps = {}
  Statuses = {200, 404}
  ArtifactOk = 200
  Treat404 = FALSE
  Treat408 = FALSE
  Threads <- ThreeThreads
  Workloads <- SingleKind
INVARIANTS
  TypeOK
  EveryRunIsNew
  TracesAreInterleavings
  EveryOrderIsTried
  RunsAreBounded
  CompleteInTime
