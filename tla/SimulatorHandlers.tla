------------------------- MODULE SimulatorHandlers -------------------------
(***************************************************************************)
(* The proxy process: SimState (src/simcore/simulator_state.py), the       *)
(* handlers of simulator_handlers.py, the queue of prefixes                *)
(* (simulator_prefixes.py) and the artificial answers (simulator_cache.py).*)
(*                                                                         *)
(* A handler holds state.cond from its first to its last statement, except *)
(* while it waits inside wait_for_turn.  Hence one action per way through  *)
(* a handler: the choice of the step, the call to LocalStack, the trace    *)
(* entry and the caches change together.  delay_active and                 *)
(* inflight_steps_this_run are set and cleared within one such action, so  *)
(* nobody who holds the lock ever sees them set; they are no variables,    *)
(* and neither are the counters that only feed log lines.                  *)
(***************************************************************************)
EXTENDS PrefixScheduler, PrefixGenerator, Outcomes

CONSTANTS
  HeadSteps,      \* the steps whose method is HEAD
  Statuses,       \* the HTTP statuses LocalStack may answer with
  ArtifactOk      \* SIM_ARTIFACT_OK_STATUS

ASSUME HandlersAssumption ==
  /\ HeadSteps \subseteq Steps
  /\ Statuses \subseteq Nat \ {0}
  /\ ArtifactOk \in Nat \ {0}

VARIABLES
  trace,                   \* the tokens executed in this run
  run_prefix,              \* state.forced_prefix, what this run explores
  pending_prefixes,        \* the queue: records [batch, prefix]
  seen_prefixes,           \* every prefix ever generated
  explored_prefixes,       \* the prefixes of the runs reported done
  seen_traces,             \* the traces of those runs
  explored_trace_prefixes, \* and all prefixes of those traces
  results,                 \* the classification of each counted run
  done,
  run_index,
  seen_base_steps,         \* seen_base_steps_this_run
  response_cache,          \* response_cache_this_run: step -> status
  stable_response_cache    \* step -> status, kept across runs

exploreVars == <<pending_prefixes, seen_prefixes, explored_prefixes, seen_traces,
                 explored_trace_prefixes, results, done, run_index, run_prefix>>
cacheVars == <<seen_base_steps, response_cache, stable_response_cache>>
simVars == <<schedVars, exploreVars, cacheVars, trace>>

NoStatus == 0

\* The statuses an answer of the proxy can carry.
Answers == Statuses \cup {ArtifactOk, 404, 408, 503}

Caches == [Steps -> Answers \cup {NoStatus}]

SimTypeOK ==
  /\ SchedTypeOK
  /\ trace \in Schedules
  /\ run_prefix \in Schedules
  /\ pending_prefixes \subseteq [batch : Nat, prefix : Schedules]
  /\ seen_prefixes \subseteq Schedules
  /\ explored_prefixes \subseteq Schedules
  /\ seen_traces \subseteq Schedules
  /\ explored_trace_prefixes \subseteq Schedules
  /\ results \in Seq(Results)
  /\ done \in BOOLEAN
  /\ run_index \in Nat
  /\ seen_base_steps \subseteq Steps
  /\ response_cache \in Caches
  /\ stable_response_cache \in Caches

EmptyCache == [s \in Steps |-> NoStatus]

\* The module body of simulator.py: the empty prefix is queued and picked.
SimInit ==
  /\ SchedInit
  /\ trace = <<>>
  /\ run_prefix = <<>>
  /\ pending_prefixes = {}
  /\ seen_prefixes = {<<>>}
  /\ explored_prefixes = {}
  /\ seen_traces = {}
  /\ explored_trace_prefixes = {}
  /\ results = <<>>
  /\ done = FALSE
  /\ run_index = 0
  /\ seen_base_steps = {}
  /\ response_cache = EmptyCache
  /\ stable_response_cache = EmptyCache
----------------------------------------------------------------------------
(* Answers and caches *)

SetDefault(cache, s, status) ==
  IF cache[s] = NoStatus THEN [cache EXCEPT ![s] = status] ELSE cache

\* The answer to a step that is dropped, or repeated with nothing cached.
artifact_response_for(s) ==
  IF s \in HeadSteps THEN 404
  ELSE IF stable_response_cache[s] # NoStatus THEN stable_response_cache[s]
  ELSE ArtifactOk

RetryAnswer(s) ==
  IF response_cache[s] # NoStatus THEN response_cache[s] ELSE artifact_response_for(s)

\* The first thing that goes wrong in a run decides its result.
Classified(verdict) == IF current_result = "SUCCESS" THEN verdict ELSE current_result
----------------------------------------------------------------------------
(* proxy: the ways a request for step s leaves the handler.  Which requests *)
(* may take them is the concern of the module that has the requests.        *)

\* Mutant of IsRetry: repeated requests are steps like any other.
NothingIsARetry(s) == FALSE

\* A step this run has executed already.
IsRetry(s) == s \in seen_base_steps

\* wait_for_turn returned False: the run has a result that is not SUCCESS.
Refuse(s) ==
  /\ current_result # "SUCCESS"
  /\ response_cache' = [response_cache EXCEPT ![s] = 503]
  /\ stable_response_cache' = SetDefault(stable_response_cache, s, 503)
  /\ UNCHANGED <<schedVars, exploreVars, trace, seen_base_steps>>

\* The turn was granted with a DROP token: recorded, not forwarded.
DropStep(s) ==
  /\ CanTakeTurn(s)
  /\ is_drop(Granted(s))
  /\ TakeTurn(s, TRUE)
  /\ trace' = Append(trace, Granted(s))
  /\ seen_base_steps' = seen_base_steps \cup {s}
  /\ UNCHANGED <<exploreVars, response_cache, stable_response_cache, current_result>>

\* LocalStack answered with this status.
Forward(s, status) ==
  /\ CanTakeTurn(s)
  /\ ~is_drop(Granted(s))
  /\ TakeTurn(s, TRUE)
  /\ current_result' = Classified(classify_http_failure(status))
  /\ trace' = Append(trace, Granted(s))
  /\ seen_base_steps' = seen_base_steps \cup {s}
  /\ response_cache' = [response_cache EXCEPT ![s] = status]
  /\ stable_response_cache' = SetDefault(stable_response_cache, s, status)
  /\ UNCHANGED exploreVars

\* The call to LocalStack raised.  This path caches nothing and does not call
\* maybe_stop_enforcing; the client is answered 408.
ForwardFails(s) ==
  /\ CanTakeTurn(s)
  /\ ~is_drop(Granted(s))
  /\ TakeTurn(s, FALSE)
  /\ current_result' = IF Treat408 THEN Classified("TIMEOUT") ELSE current_result
  /\ trace' = Append(trace, Granted(s))
  /\ seen_base_steps' = seen_base_steps \cup {s}
  /\ UNCHANGED <<exploreVars, response_cache, stable_response_cache>>

\* The request stays, or goes, to sleep in wait_for_turn.
WaitTurn(s) == Wait(s) /\ UNCHANGED <<exploreVars, cacheVars, trace>>
----------------------------------------------------------------------------
(* execution_done *)

\* Mutant of FinalResult: a crash is a result of its own.
CrashIsAResult(kind) == Classified(IF kind = "ok" THEN "SUCCESS" ELSE kind)

\* The result of the finished run: the simulator's, or what main.py reports
\* of the clients.  A crash counts as a timeout.
FinalResult(kind) ==
  Classified(IF kind = "crash" THEN "TIMEOUT" ELSE IF kind = "ok" THEN "SUCCESS" ELSE kind)

PrefixesOf(t) == {SubSeq(t, 1, k) : k \in 1..Len(t)}

\* Mutant of ExplorationEnds: the flag is not set.
QueueRunsDry ==
  /\ UNCHANGED done
  /\ pending_prefixes' = {}
  /\ start_run(<<>>)
  /\ UNCHANGED run_prefix

\* No prefix is left: the scheduler keeps the free run it was given by
\* start_run([]), and state.forced_prefix its old value.
ExplorationEnds ==
  /\ done' = TRUE
  /\ pending_prefixes' = {}
  /\ start_run(<<>>)
  /\ UNCHANGED run_prefix

\* Mutant of pick_next_prefix_or_done: what is left of the queue is discarded.
pick_and_discard(pending, explored, walked) ==
  LET viable == {e \in pending : e.prefix \notin explored /\ e.prefix \notin walked}
  IN \/ viable = {} /\ ExplorationEnds
     \/ \E e \in viable :
          /\ \A x \in viable \ {e} : Before(e, x)
          /\ run_prefix' = e.prefix
          /\ start_run(e.prefix)
          /\ pending_prefixes' = {}
          /\ UNCHANGED done

\* The next run explores the first queued prefix that is neither explored nor
\* a prefix of an explored trace.  The prefixes skipped on the way leave the
\* queue too.
pick_next_prefix_or_done(pending, explored, walked) ==
  LET viable == {e \in pending : e.prefix \notin explored /\ e.prefix \notin walked}
  IN \/ viable = {} /\ ExplorationEnds
     \/ \E e \in viable :
          /\ \A x \in viable \ {e} : Before(e, x)
          /\ run_prefix' = e.prefix
          /\ start_run(e.prefix)
          /\ pending_prefixes' = {x \in pending : Before(e, x)}
          /\ UNCHANGED done

\* Mutant of _reset_for_next_run: the steps executed are remembered.
ResetButStepsSeen ==
  /\ trace' = <<>>
  /\ response_cache' = EmptyCache
  /\ UNCHANGED <<seen_base_steps, stable_response_cache>>

_reset_for_next_run ==
  /\ trace' = <<>>
  /\ seen_base_steps' = {}
  /\ response_cache' = EmptyCache
  /\ UNCHANGED stable_response_cache

\* Mutant of Explored: the prefix of the run is not marked.
ExploredBefore == explored_prefixes

Explored == explored_prefixes \cup {run_prefix}

\* Mutant of KnownTrace: the wrong set is consulted.
TraceIsExploredPrefix == trace \in explored_prefixes

\* A trace met before is not counted and yields no prefixes.
KnownTrace == trace \in seen_traces

\* Mutant of Walked: the trace of the run is not entered.
WalkedBefore == explored_trace_prefixes

Walked == explored_trace_prefixes \cup PrefixesOf(trace)

Generated == generate_forced_prefixes(trace, seen_prefixes, Explored)

Queued(prefixes) == {[batch |-> run_index + 1, prefix |-> p] : p \in prefixes}

\* kind: "ok", "crash", "TIMEOUT" or "FAILURE", what main.py posts.
execution_done(kind) ==
  /\ run_index' = run_index + 1
  /\ explored_prefixes' = Explored
  /\ _reset_for_next_run
  /\ \/ /\ KnownTrace
        /\ pick_next_prefix_or_done(pending_prefixes, Explored, explored_trace_prefixes)
        /\ UNCHANGED <<results, seen_traces, explored_trace_prefixes, seen_prefixes>>
     \/ /\ ~KnownTrace
        /\ results' = Append(results, FinalResult(kind))
        /\ seen_traces' = seen_traces \cup {trace}
        /\ explored_trace_prefixes' = Walked
        /\ seen_prefixes' = seen_prefixes \cup Generated
        /\ pick_next_prefix_or_done(pending_prefixes \cup Queued(Generated \ (Explored \cup Walked)),
                                    Explored, Walked)

\* The watchdog's thread ends once the exploration is done.
WatchdogFires == ~done /\ watchdog_tick /\ UNCHANGED <<exploreVars, cacheVars, trace>>

GatherWindowCloses == GatherExpires /\ UNCHANGED <<exploreVars, cacheVars, trace>>
----------------------------------------------------------------------------
(* What every module that sends requests to these handlers may rely on *)

(* A run replays its forced prefix token by token, in spite of timeouts,
   refusals, crashed clients and requests left over from earlier runs: the
   trace begins with what has been matched, holds nothing else while the run
   is enforced, and what comes after the prefix carries no marker.
   wait_for_turn, maybe_stop_enforcing, the appends to the trace in proxy. *)
HonoursPrefix ==
  /\ forced_pos <= Len(trace)
  /\ \A i \in 1..forced_pos : trace[i] = forced_prefix[i]
  /\ enforcing => Len(trace) = forced_pos
  /\ ~enforcing => forced_pos = Len(forced_prefix)
  /\ \A i \in (forced_pos + 1)..Len(trace) : trace[i].wrap = <<>>

(* No step is both dropped and delayed, whatever mutations are put on traces
   that hold mutations already: the scheduler would never match such a token,
   and the run would time out.  generate_forced_prefixes, _is_nested_wrapper. *)
NoNestedWrapper ==
  \A p \in {forced_prefix} \cup {e.prefix : e \in pending_prefixes} :
    \A i \in 1..Len(p) : ~ _is_nested_wrapper(p[i])
=============================================================================
