SPECIFICATION Spec
CONSTANTS
  EnableDelay = TRUE
  DelaySeconds = 5
  BaseTimeout = 6
  Margin = 3
  CallTime = 1
  ClientTime = 2
  ResetTime = 4
  Period = 1
  PrefixLen = 3
INVARIANTS
  TypeOK
  NoFalseTimeout
  GivenUpInTime
