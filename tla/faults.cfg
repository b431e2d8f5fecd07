SPECIFICATION Spec
CONSTANTS
  Steps <- MCSteps
  ThreadOf <- MCThreadOf
  StringRank <- MCStringRank
  EnableDrop = TRUE
  EnableDelay = TRUE
  PhaseOrder = "drop_first"
  HeadSteps = {}
  Statuses = {200}
  ArtifactOk = 200
  Treat404 = FALSE
  Treat408 = FALSE
  Threads <- TwoThreads
  ClientOf <- OneClient
  Program <- OneEach
  ContinueOn = {200}
  QuietOn = {404}
  RetryOn = {503}
  MaxTries = 2
  NotifyAttempts = 2
  MaxLaunches = 4
  Faults = {"forward", "late", "giveup", "crash", "post", "poll", "watchdog"}
  MaxFaults = 2
INVARIANTS
  TypeOK
  HonoursPrefix
  NoNestedWrapper
  NoGhostContender
  FreeRunsGoOn
  ResultsAreDistinctTraces
  NoPrefixTwice
  NoMutationForgotten
PROPERTY ReplaysSchedules
