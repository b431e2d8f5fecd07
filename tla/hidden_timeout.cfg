SPECIFICATION Spec
CONSTANTS
  Treat404 = FALSE
  Treat408 = FALSE
  Threads <- MCThreads
  Processes <- MCProcesses
  ProcessOf <- MCProcessOf
  Window = 80
  MaxLines = 4
INVARIANT TimeoutsAreReported
