--------------------------- MODULE MCClientOutput ---------------------------
(* Values of the constants for model checking ClientOutput: a process of   *)
(* two threads and one of one thread.                                      *)
EXTENDS ClientOutput

MCThreads == {"t1", "t2", "t3"}
MCProcesses == {"A", "B"}
MCProcessOf == [t \in MCThreads |-> IF t = "t3" THEN "B" ELSE "A"]
=============================================================================
