---------------------------- MODULE ForcedReplay ----------------------------
(***************************************************************************)
(* What the simulator promises of an exploration, without scheduling,      *)
(* requests, clients or faults: a sequence of runs, each of which replays  *)
(* a schedule and then continues freely, no schedule being started again   *)
(* once a run of it has ended, until the exploration is declared done.     *)
(***************************************************************************)
EXTENDS StepTokens

VARIABLES
  prefix,     \* the schedule this run replays
  trace,      \* what it has executed
  explored,   \* the schedules of the runs that have ended
  done

vars == <<prefix, trace, explored, done>>

Init == prefix = <<>> /\ trace = <<>> /\ explored = {} /\ done = FALSE

\* The step s is executed, as the schedule says as long as it says anything.
Execute(s) ==
  /\ trace' = Append(trace, IF Len(trace) < Len(prefix) THEN prefix[Len(trace) + 1] ELSE Base(s))
  /\ trace'[Len(trace) + 1].step = s
  /\ UNCHANGED <<prefix, explored, done>>

\* A run ends, at any point.  The next one replays a new schedule; when the
\* exploration is done, there is no schedule to follow.
EndRun ==
  /\ explored' = explored \cup {prefix}
  /\ trace' = <<>>
  /\ \/ prefix' \in Schedules \ explored' /\ UNCHANGED done
     \/ prefix' = <<>> /\ done' = TRUE

Next == EndRun \/ \E s \in Steps : Execute(s)

Spec == Init /\ [][Next]_vars
=============================================================================
