SPECIFICATION Spec
CONSTANTS
  r1 = r1
  r2 = r2
  r3 = r3
  NoMatch = NoMatch
  Steps <- TwoSteps
  ThreadOf <- MCThreadOf
  StringRank <- MCStringRank
  EnableDrop = TRUE
  EnableDelay = TRUE
  PhaseOrder = "delay_first"
  HeadSteps = {}
  Statuses = {200}
  ArtifactOk = 200
  Treat404 = FALSE
  Treat408 = FALSE
  Slots = {r1, r2, r3}
  StepOf <- MCStepOf
  Reports = {"crash"}
  MaxRuns = 2
INVARIANTS
  TypeOK
  FlagsStayUnderLock
PROPERTIES
  DelayIsStrict
  HandlersAreAtomic
