SPECIFICATION FairSpec
CONSTANTS
  Steps <- MCSteps
  ThreadOf <- MCThreadOf
  StringRank <- MCStringRank
  EnableDrop = FALSE
  EnableDelay = FALSE
  PhaseOrder = "drop_first"
  HeadSteps = {}
  Statuses = {200, 404}
  ArtifactOk = 200
  Treat404 = FALSE
  Treat408 = FALSE
  Threads <- TwoThreads
  ClientOf <- OwnClient
  Program <- TwoAndOne
  ContinueOn = {200}
  QuietOn = {404}
  RetryOn = {503}
  MaxTries = 1
  NotifyAttempts = 4
  MaxLaunches = 4
  Faults = {"forward", "crash"}
  MaxFaults = 1
PROPERTIES
  RunsEnd
  SessionEnds
