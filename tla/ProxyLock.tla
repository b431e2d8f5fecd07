----------------------------- MODULE ProxyLock -----------------------------
(***************************************************************************)
(* proxy of simulator_handlers.py statement by statement, under the lock   *)
(* of state.cond.  SimulatorHandlers takes each way through the handler as *)
(* one step; here a handler takes the lock, releases it in the three waits *)
(* of the code (on delay_active, on inflight_steps_this_run, and inside    *)
(* wait_for_turn), and at its return.  The flags that coordinate the       *)
(* handlers are variables, and so is what wait_for_turn leaves for         *)
(* consume_last_match.                                                     *)
(*                                                                         *)
(* Requests are slots, each with the step it presents; a slot whose        *)
(* request has been answered may be used again.  Several slots may present *)
(* the same step: repeated requests, and requests left over by a client    *)
(* that has gone.  execution_done and the watchdog hold the lock from      *)
(* their first to their last statement and are one step each.              *)
(***************************************************************************)
EXTENDS SimulatorHandlers

CONSTANTS
  Slots,       \* requests in flight at one time
  StepOf,      \* the step a slot presents
  NoMatch,     \* None, in the place of a token
  Reports,     \* what main.py reports of the clients
  MaxRuns      \* bound: runs ended in one behaviour

ASSUME LockAssumption ==
  /\ "free" \notin Slots
  /\ StepOf \in [Slots -> Steps]
  /\ NoMatch \notin Tokens
  /\ Reports \subseteq Kinds
  /\ MaxRuns \in Nat

VARIABLES
  lock,          \* the slot whose handler holds state.cond, or "free"
  pc,            \* of each slot: where its handler is
  last_match,    \* _last_matched_step and its three companions
  presented,     \* of each slot: the local variable
  delay_active,
  inflight,      \* inflight_steps_this_run
  parked,        \* slots that have been asleep in wait_for_turn
  answer,        \* the last answer to each slot
  committed      \* history: what the proxy may write, at the last release

handlerVars == <<pc, presented, parked, answer>>
flagVars == <<last_match, delay_active, inflight>>
vars == <<simVars, lock, handlerVars, flagVars, committed>>

Asleep == {"delay wait", "retry wait", "turn wait"}

Outside == {"away"} \cup Asleep

Inside == {"check delay", "check retry", "retry loop", "turn", "granted", "drop",
           "delay", "sleep", "call", "answered", "raised"}

\* What a handler may write while it holds the lock.
Snapshot ==
  [enforcing |-> enforcing, forced_pos |-> forced_pos, free_waiting |-> free_waiting,
   free_deadline |-> free_deadline, current_result |-> current_result, trace |-> trace,
   seen_base_steps |-> seen_base_steps, response_cache |-> response_cache,
   stable_response_cache |-> stable_response_cache]

TypeOK ==
  /\ SimTypeOK
  /\ lock \in Slots \cup {"free"}
  /\ pc \in [Slots -> Inside \cup Outside]
  /\ last_match \in Tokens \cup {NoMatch}
  /\ presented \in [Slots -> Tokens \cup {NoMatch}]
  /\ delay_active \in BOOLEAN
  /\ inflight \subseteq Steps
  /\ parked \subseteq Slots
  /\ answer \in [Slots -> Answers \cup {NoStatus}]

Init ==
  /\ SimInit
  /\ lock = "free"
  /\ pc = [r \in Slots |-> "away"]
  /\ last_match = NoMatch
  /\ presented = [r \in Slots |-> NoMatch]
  /\ delay_active = FALSE
  /\ inflight = {}
  /\ parked = {}
  /\ answer = [r \in Slots |-> NoStatus]
  /\ committed = Snapshot

\* The handler of r holds the lock and is at this place.
At(r, place) == lock = r /\ pc[r] = place

Goto(r, place) == pc' = [pc EXCEPT ![r] = place] /\ UNCHANGED <<lock, committed>>

ReleaseLock == lock' = "free" /\ committed' = Snapshot'

\* cond.wait
Sleep(r, place) == pc' = [pc EXCEPT ![r] = place] /\ ReleaseLock

\* The handler returns a response, and so leaves the with statement.
Return(r, status) ==
  /\ pc' = [pc EXCEPT ![r] = "away"]
  /\ answer' = [answer EXCEPT ![r] = status]
  /\ presented' = [presented EXCEPT ![r] = NoMatch]
  /\ parked' = parked \ {r}
  /\ ReleaseLock
----------------------------------------------------------------------------
\* with state.cond: a client, or what is left of one, has sent the step, and its
\* handler gets the lock.  How long it wanted the lock does not matter.
Acquire(r) ==
  /\ lock = "free"
  /\ pc[r] = "away"
  /\ lock' = r
  /\ pc' = [pc EXCEPT ![r] = "check delay"]
  /\ answer' = [answer EXCEPT ![r] = NoStatus]
  /\ UNCHANGED <<simVars, presented, parked, flagVars, committed>>

\* Where a handler goes on after cond.wait.
Resumed(place) ==
  CASE place = "delay wait" -> "check delay"
    [] place = "retry wait" -> "retry loop"
    [] place = "turn wait" -> "turn"

\* Notified, or after the time it wanted to wait: cond.wait does not tell.
Wake(r) ==
  /\ lock = "free"
  /\ pc[r] \in Asleep
  /\ lock' = r
  /\ pc' = [pc EXCEPT ![r] = Resumed(@)]
  /\ UNCHANGED <<simVars, presented, parked, answer, flagVars, committed>>

\* while state.delay_active
CheckDelay(r) ==
  /\ At(r, "check delay")
  /\ UNCHANGED <<simVars, presented, parked, answer, flagVars>>
  /\ IF delay_active THEN Sleep(r, "delay wait") ELSE Goto(r, "check retry")

CheckRetry(r) ==
  /\ At(r, "check retry")
  /\ Goto(r, IF IsRetry(StepOf[r]) THEN "retry loop" ELSE "turn")
  /\ UNCHANGED <<simVars, presented, parked, answer, flagVars>>

\* The first copy of the request is still being served.
BeingServed(s) == s \in inflight /\ response_cache[s] = NoStatus

RetryLoop(r) ==
  /\ At(r, "retry loop")
  /\ UNCHANGED <<simVars, flagVars>>
  /\ IF BeingServed(StepOf[r])
       THEN Sleep(r, "retry wait") /\ UNCHANGED <<presented, parked, answer>>
       ELSE Return(r, RetryAnswer(StepOf[r]))
----------------------------------------------------------------------------
(* wait_for_turn, one pass of its loop *)

RefuseTurn(r) ==
  /\ At(r, "turn")
  /\ Refuse(StepOf[r])
  /\ Return(r, 503)
  /\ UNCHANGED flagVars

WaitForTurn(r) ==
  /\ At(r, "turn")
  /\ WaitTurn(StepOf[r])
  /\ Sleep(r, "turn wait")
  /\ parked' = parked \cup {r}
  /\ UNCHANGED <<presented, answer, flagVars>>

\* The branch that "should not happen" leaves the last match as it is.
GrantTurn(r) ==
  /\ At(r, "turn")
  /\ TakeTurn(StepOf[r], FALSE)
  /\ last_match' = IF MayGoUnexpected(StepOf[r]) THEN last_match ELSE Granted(StepOf[r])
  /\ Goto(r, "granted")
  /\ UNCHANGED <<current_result, exploreVars, cacheVars, trace, presented, parked, answer,
                 delay_active, inflight>>
----------------------------------------------------------------------------
(* The rest of proxy, for a request that has its turn *)

\* Mutant of consume_last_match: the match is left behind.
peek_last_match == UNCHANGED last_match

consume_last_match == last_match' = NoMatch

\* Mutant of PresentedBy: None is not replaced by the step itself.
MatchedOnly(r) == last_match

PresentedBy(r) == IF last_match = NoMatch THEN Base(StepOf[r]) ELSE last_match

\* The step owns the execution slot.
OwnSlot(r) ==
  /\ At(r, "granted")
  /\ presented' = [presented EXCEPT ![r] = PresentedBy(r)]
  /\ consume_last_match
  /\ seen_base_steps' = seen_base_steps \cup {StepOf[r]}
  /\ inflight' = inflight \cup {StepOf[r]}
  /\ Goto(r, IF last_match # NoMatch /\ is_drop(last_match) THEN "drop" ELSE "delay")
  /\ UNCHANGED <<schedVars, exploreVars, trace, response_cache, stable_response_cache,
                 parked, answer, delay_active>>

maybe_stop_enforcing ==
  /\ enforcing' = (enforcing /\ StillEnforcing(forced_pos))
  /\ UNCHANGED <<forced_prefix, forced_pos, free_waiting, free_deadline>>

Discard(r) == inflight' = inflight \ {StepOf[r]}

Drop(r) ==
  /\ At(r, "drop")
  /\ UNCHANGED <<current_result, exploreVars, cacheVars, last_match, delay_active>>
  /\ trace' = Append(trace, presented[r])
  /\ maybe_stop_enforcing
  /\ Discard(r)
  /\ Return(r, artifact_response_for(StepOf[r]))

Delayed(r) == Outer(presented[r]) = "DELAY"

StartDelay(r) ==
  /\ At(r, "delay")
  /\ delay_active' = (delay_active \/ Delayed(r))
  /\ Goto(r, IF Delayed(r) THEN "sleep" ELSE "call")
  /\ UNCHANGED <<simVars, presented, parked, answer, last_match, inflight>>

\* Mutant of DelayOver: the delay is a cond.wait, so that others may go on.
DelayLetsGo(r) ==
  /\ pc[r] = "sleep"
  /\ lock \in {r, "free"}
  /\ UNCHANGED <<simVars, presented, parked, answer, flagVars>>
  /\ IF lock = r THEN ReleaseLock /\ UNCHANGED pc
     ELSE lock' = r /\ pc' = [pc EXCEPT ![r] = "call"] /\ UNCHANGED committed

\* time.sleep is over.
DelayOver(r) ==
  /\ At(r, "sleep")
  /\ Goto(r, "call")
  /\ UNCHANGED <<simVars, presented, parked, answer, flagVars>>

\* LocalStack answers: the result, the trace and the caches follow.
CallReturns(r, status) ==
  /\ At(r, "call")
  /\ current_result' = Classified(classify_http_failure(status))
  /\ trace' = Append(trace, presented[r])
  /\ response_cache' = [response_cache EXCEPT ![StepOf[r]] = status]
  /\ stable_response_cache' = SetDefault(stable_response_cache, StepOf[r], status)
  /\ Goto(r, "answered")
  /\ UNCHANGED <<forced_prefix, enforcing, forced_pos, free_waiting, free_deadline, exploreVars,
                 seen_base_steps, presented, parked, answer, flagVars>>

CallRaises(r) ==
  /\ At(r, "call")
  /\ current_result' = IF Treat408 THEN Classified("TIMEOUT") ELSE current_result
  /\ trace' = Append(trace, presented[r])
  /\ Goto(r, "raised")
  /\ UNCHANGED <<forced_prefix, enforcing, forced_pos, free_waiting, free_deadline, exploreVars,
                 cacheVars, presented, parked, answer, flagVars>>

\* Mutant of ClearFlag: the flag is not cleared.
FlagForgotten(r) == UNCHANGED delay_active

\* Only a handler that set the flag clears it.
ClearFlag(r) == delay_active' = (delay_active /\ ~Delayed(r))

Answer(r) ==
  /\ At(r, "answered")
  /\ UNCHANGED <<current_result, exploreVars, cacheVars, trace, last_match>>
  /\ maybe_stop_enforcing
  /\ Discard(r)
  /\ ClearFlag(r)
  /\ Return(r, response_cache[StepOf[r]])

AnswerTimeout(r) ==
  /\ At(r, "raised")
  /\ UNCHANGED <<simVars, last_match>>
  /\ Discard(r)
  /\ ClearFlag(r)
  /\ Return(r, 408)
----------------------------------------------------------------------------
(* The others that take the lock *)

ServePost ==
  /\ lock = "free"
  /\ run_index < MaxRuns
  /\ \E kind \in Reports : execution_done(kind)
  /\ last_match' = NoMatch        \* start_run
  /\ delay_active' = FALSE        \* _reset_for_next_run
  /\ inflight' = {}
  /\ ReleaseLock
  /\ UNCHANGED handlerVars

\* The deadlock timeout may have passed whenever the lock is free.
WatchdogTick ==
  /\ lock = "free"
  /\ WatchdogFires
  /\ ReleaseLock
  /\ UNCHANGED <<handlerVars, flagVars>>

\* Time does not need the lock.
GatherWindowEnds ==
  /\ GatherWindowCloses
  /\ committed' = [committed EXCEPT !.free_deadline = free_deadline']
  /\ UNCHANGED <<lock, handlerVars, flagVars>>

Handler(r) ==
  \/ Acquire(r) \/ Wake(r)
  \/ CheckDelay(r) \/ CheckRetry(r) \/ RetryLoop(r)
  \/ RefuseTurn(r) \/ WaitForTurn(r) \/ GrantTurn(r)
  \/ OwnSlot(r) \/ Drop(r)
  \/ StartDelay(r) \/ DelayOver(r)
  \/ CallRaises(r) \/ \E status \in Statuses : CallReturns(r, status)
  \/ Answer(r) \/ AnswerTimeout(r)

Next ==
  \/ \E r \in Slots : Handler(r)
  \/ ServePost \/ WatchdogTick \/ GatherWindowEnds

Spec == Init /\ [][Next]_vars
----------------------------------------------------------------------------
(* The lock protects what it should: nobody is between acquiring and releasing
   it but its holder, and whoever takes it finds no step in flight, no delay
   running and no match unread.  The waits on delay_active and on
   inflight_steps_this_run are therefore never entered: time.sleep under the
   lock makes them superfluous.  The whole of proxy, both its ends. *)
FlagsStayUnderLock ==
  /\ \A r \in Slots : pc[r] \in Inside => lock = r
  /\ lock = "free" => ~delay_active /\ inflight = {} /\ last_match = NoMatch

\* The requests that have been granted a turn and have not recorded it.
Granting == {r \in Slots : pc[r] \in {"granted", "drop", "delay", "sleep", "call"}}

(* Steps enter the trace in the order in which they were granted: from the
   match of a step to its entry in the trace, over its delay and its call to
   LocalStack, no other step is granted a turn and no run ends.
   wait_for_turn, the strict pause and the forwarding in proxy. *)
DelayIsStrict ==
  [][\A r \in Granting \cap Granting' :
       Granting' = Granting /\ trace' = trace /\ run_index' = run_index]_vars

AH == INSTANCE SimulatorHandlers WITH
  enforcing <- committed.enforcing,
  forced_pos <- committed.forced_pos,
  free_waiting <- committed.free_waiting,
  free_deadline <- committed.free_deadline,
  current_result <- committed.current_result,
  trace <- committed.trace,
  seen_base_steps <- committed.seen_base_steps,
  response_cache <- committed.response_cache,
  stable_response_cache <- committed.stable_response_cache

\* The ways a handler that was given the step s is served, in one step each.
AtomicService(r, s, status) ==
  \/ AH!IsRetry(s) /\ status = AH!RetryAnswer(s) /\ UNCHANGED AH!simVars
  \/ /\ r \in parked \/ ~AH!IsRetry(s)
     /\ \/ AH!Refuse(s) /\ status = 503
        \/ AH!DropStep(s) /\ status = AH!artifact_response_for(s)
        \/ AH!Forward(s, status)
        \/ AH!ForwardFails(s) /\ status = 408

AtomicStep ==
  \/ \E r \in Slots, status \in Answers :
       /\ AtomicService(r, StepOf[r], status)
       /\ answer' = [answer EXCEPT ![r] = status]
  \/ \E r \in Slots : AH!WaitTurn(StepOf[r]) /\ UNCHANGED answer
  \/ \E r \in Slots : answer' = [answer EXCEPT ![r] = NoStatus] /\ UNCHANGED AH!simVars
  \/ \E kind \in Reports : AH!execution_done(kind) /\ UNCHANGED answer
  \/ (AH!WatchdogFires \/ AH!GatherWindowCloses) /\ UNCHANGED answer

(* A handler that runs statement by statement, and lets others in while it
   waits, does what the one-step handlers of SimulatorHandlers do: as the rest
   of the program sees it, a request changes the simulator at one moment, and
   its answer is the one of that moment.  proxy against Refuse, DropStep,
   Forward, ForwardFails, WaitTurn and RetryAnswer. *)
HandlersAreAtomic == AH!SimInit /\ [][AtomicStep]_<<AH!simVars, answer>>
=============================================================================
