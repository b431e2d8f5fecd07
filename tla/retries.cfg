SPECIFICATION Spec
CONSTANTS
  Steps <- MCSteps
  ThreadOf <- MCThreadOf
  StringRank <- MCStringRank
  EnableDrop = TRUE
  EnableDelay = FALSE
  PhaseOrder = "drop_first"
  HeadSteps = {}
  Statuses = {200, 408, 503}
  ArtifactOk = 200
  Treat404 = FALSE
  Treat408 = FALSE
  Threads <- TwoThreads
  ClientOf <- OwnClient
  Program <- TwoAndOne
  ContinueOn = {200}
  QuietOn = {404}
  RetryOn = {408, 503}
  MaxTries = 2
  NotifyAttempts = 4
  MaxLaunches = 6
  Faults = {}
  MaxFaults = 0
INVARIANTS
  EachRequestIsAStep
  OneTurnPerStep
  DroppedNeverReachesBackend
PROPERTY CleanBaseline
