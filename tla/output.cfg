SPECIFICATION Spec
CONSTANTS
  Treat404 = FALSE
  Treat408 = FALSE
  Threads <- MCThreads
  Processes <- MCProcesses
  ProcessOf <- MCProcessOf
  Window = 5
  MaxLines = 4
INVARIANTS
  TypeOK
  VerdictFollowsErrors
  ReportsAreGrounded
