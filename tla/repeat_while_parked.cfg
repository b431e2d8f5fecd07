SPECIFICATION Spec
CONSTANTS
  Steps <- MCSteps
  ThreadOf <- MCThreadOf
  StringRank <- MCStringRank
  EnableDrop = TRUE
  EnableDelay = FALSE
  PhaseOrder = "drop_first"
  HeadSteps = {}
  Statuses = {200}
  ArtifactOk = 200
  Treat404 = FALSE
  Treat408 = FALSE
  Threads <- TwoThreads
  ClientOf <- OwnClient
  Program <- OneEach
  ContinueOn = {200}
  QuietOn = {404}
  RetryOn = {503}
  MaxTries = 2
  NotifyAttempts = 4
  MaxLaunches = 4
  Faults = {"giveup"}
  MaxFaults = 1
INVARIANT DroppedNeverReachesBackend
