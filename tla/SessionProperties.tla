------------------------- MODULE SessionProperties -------------------------
(***************************************************************************)
(* What a session of the simulator must get right: first what holds in     *)
(* spite of every fault, then what holds in sessions without some of them, *)
(* then what must happen in the end.  What holds wherever the requests     *)
(* come from is at the end of SimulatorHandlers; what a whole exploration  *)
(* finds is in Exploration.                                                *)
(***************************************************************************)
EXTENDS Session

(* In a free run every step the scheduler may find to be the smallest belongs
   to a request that is asleep and will see that it is.  Otherwise all would
   wait for it, and the watchdog does not look at free runs. _free_waiting. *)
NoGhostContender ==
  current_result = "SUCCESS" =>
    \A s \in free_waiting : \E r \in parked : StepOf(r) = s

(* When the gather window of a free run has passed, one of the sleeping requests
   may take the turn, whatever was left over, repeated or lost: no free run is
   stuck with everyone asleep.  The window is opened and the contenders emptied
   in different branches of wait_for_turn. *)
FreeRunsGoOn ==
  current_result = "SUCCESS" /\ ~enforcing /\ free_deadline = "passed" =>
    \E r \in parked : CanTakeTurn(StepOf(r))

(* The summary counts one execution per distinct trace, whatever is reported
   twice, cut short or repeated.  The trace dedupe of execution_done. *)
ResultsAreDistinctTraces == Len(results) = Cardinality(seen_traces)

(* The exploration queues a prefix at most once, and never the prefix of a run
   that is under way or over.  seen_prefixes, pick_next_prefix_or_done. *)
NoPrefixTwice ==
  /\ \A x, y \in pending_prefixes : x.prefix = y.prefix => x = y
  /\ \A x \in pending_prefixes : x.prefix \notin Explored

\* The runs whose end main.py has seen answered, and how often the proxy has
\* ended a run beyond those.
RunsReported == IF main_pc \in {"poll", "exit"} THEN launch_no ELSE launch_no - 1

RepeatedEnds == run_index - RunsReported

\* The mutations of executed traces that no run was started for, that do not
\* begin an executed trace, and that are neither queued nor of the run to come.
Forgotten ==
  {p \in UNION {Mutations(tr) : tr \in seen_traces} :
     /\ p \notin launched \cup explored_trace_prefixes
     /\ \A e \in pending_prefixes : e.prefix # p
     /\ p = run_prefix => p \in explored_prefixes}

(* Nothing that can be derived from an executed trace is forgotten, whatever is
   skipped or cut short: for each mutation main.py starts a run, or it begins an
   executed trace, or it is next or queued.  Only a post of /__execution_done__
   that is repeated although the first one is served has its price: it ends a
   run main.py did not start, whose prefix then counts as explored without a
   client having run it, against dpor.py:149.  The price is at most one mutation
   for each such end, besides a run that was started and is cut short by it.
   execution_done, seen_prefixes, pick_next_prefix_or_done. *)
NoMutationForgotten == Cardinality(Forgotten) <= RepeatedEnds
----------------------------------------------------------------------------
(* Every step of a run is executed once: a repeated request is answered from
   the caches.  Clients may repeat a request they have an answer to, but not
   one that is still being served.  The retry branch of proxy. *)
OneTurnPerStep ==
  \A i, j \in 1..Len(trace) : trace[i].step = trace[j].step => i = j

(* LocalStack never executes a step that this run has dropped, also when the
   client repeats it.  The DROP and the retry branch of proxy. *)
DroppedNeverReachesBackend ==
  \A i \in 1..Len(trace) : is_drop(trace[i]) =>
    \A k \in 1..Len(effects) : effects[k] # trace[i].step

\* The requests of a thread that have been answered in this run, the one it
\* repeats after an answer included.
Answered(t) ==
  1..(IF client[t].phase = "ended" \/ client[t].try > 1 THEN client[t].pc ELSE client[t].pc - 1)

(* Each request is a step of its own, whatever a client repeats: as long as
   the run is a success, a step occurs in the trace as often as the clients
   have got first answers to it.  Steps remembered from an earlier run would be
   missing, and repeated ones would be there twice.  The whole of proxy. *)
EachRequestIsAStep ==
  main_pc = "running" /\ current_result = "SUCCESS" =>
    \A s \in Steps :
      Cardinality({i \in 1..Len(trace) : trace[i].step = s})
        = Cardinality({q \in UNION {{t} \X Answered(t) : t \in Threads} : Program[q[1]][q[2]] = s})

(* README section 18: each execution begins from a clean baseline, not from the
   leftover effects of a previous run.  While a run is under way, LocalStack is
   changed for requests of that run only.  A request whose client dies or stops
   waiting breaks this: it stays asleep, takes a turn in the next run, and changes
   LocalStack there.  run_client_streaming, cond.wait in wait_for_turn. *)
CleanBaseline ==
  [][\A r \in (arrived \cup parked) \ (arrived' \cup parked') :
       Len(effects') > Len(effects) => r.run = launch_no]_vars
----------------------------------------------------------------------------
FR == INSTANCE ForcedReplay WITH prefix <- forced_prefix, explored <- explored_prefixes

(* The session as a whole does what ForcedReplay says: whatever handlers,
   clients and faults do, a step taken extends the trace as the schedule has
   it, and a run that ends makes way for a schedule never tried.  Every action
   that writes trace, forced_prefix, explored_prefixes or done. *)
ReplaysSchedules == FR!Spec
----------------------------------------------------------------------------
(* A run that has started comes to its end: free choices are made, and a
   forced prefix that turns out infeasible is given up.  wait_for_turn,
   watchdog_tick, run_client_streaming. *)
RunsEnd == main_pc = "running" ~> main_pc # "running"

(* The session ends: the proxy says DONE, and main.py returns.  main's loop,
   pick_next_prefix_or_done. *)
SessionEnds == <>(main_pc = "exit")
=============================================================================
