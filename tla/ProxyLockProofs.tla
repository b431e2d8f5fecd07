-------------------------- MODULE ProxyLockProofs --------------------------
(***************************************************************************)
(* For all workloads and any number of requests: what the lock of the      *)
(* proxy protects, that nothing overtakes a step that has its turn, and    *)
(* that the handlers, statement by statement, do what SimulatorHandlers    *)
(* has them do in one step.                                                *)
(***************************************************************************)
EXTENDS ProxyLock, HandlerProofs

\* Where a handler has its step in flight, and where a delay may be running.
Serving == {"drop", "delay", "sleep", "call", "answered", "raised"}
Delaying == {"sleep", "call", "answered", "raised"}

HolderIsInside ==
  /\ lock \in Slots \cup {"free"}
  /\ pc \in [Slots -> Inside \cup Outside]
  /\ \A r \in Slots : pc[r] \in Inside <=> lock = r

\* Whatever is not as start_run and _reset_for_next_run leave it belongs to
\* the holder of the lock.
FlagsAreTheHolders ==
  /\ inflight # {} => lock \in Slots /\ pc[lock] \in Serving /\ inflight = {StepOf[lock]}
  /\ last_match # NoMatch => lock \in Slots /\ pc[lock] = "granted"
  /\ delay_active => lock \in Slots /\ pc[lock] \in Delaying /\ Delayed(lock)

PresentedIsAFunction == presented = [r \in Slots |-> presented[r]]

LockInv == HolderIsInside /\ FlagsAreTheHolders /\ PresentedIsAFunction

LEMMA InitialLock == Init => LockInv
  BY LockAssumption
     DEF Init, LockInv, HolderIsInside, FlagsAreTheHolders, PresentedIsAFunction, Inside, Outside, Asleep

LEMMA HandlersKeepLock == \A r \in Slots : LockInv /\ Handler(r) => LockInv'
  <1> SUFFICES ASSUME NEW r \in Slots, LockInv, Handler(r) PROVE LockInv'
    OBVIOUS
  <1> USE LockAssumption
      DEF LockInv, HolderIsInside, FlagsAreTheHolders, PresentedIsAFunction, Inside, Outside, Asleep, Serving, Delaying
  <1>1. CASE Acquire(r)
    BY <1>1 DEF Acquire, flagVars, Delayed
  <1>2. CASE Wake(r)
    BY <1>2 DEF Wake, Resumed, flagVars, Delayed
  <1>3. CASE CheckDelay(r)
    BY <1>3 DEF CheckDelay, At, Goto, Sleep, ReleaseLock, flagVars, Delayed
  <1>4. CASE CheckRetry(r)
    BY <1>4 DEF CheckRetry, At, Goto, flagVars, Delayed
  <1>5. CASE RetryLoop(r)
    BY <1>5 DEF RetryLoop, At, Sleep, Return, ReleaseLock, flagVars, Delayed
  <1>6. CASE RefuseTurn(r)
    BY <1>6 DEF RefuseTurn, At, Return, ReleaseLock, flagVars, Delayed
  <1>7. CASE WaitForTurn(r)
    BY <1>7 DEF WaitForTurn, At, Sleep, ReleaseLock, flagVars, Delayed
  <1>8. CASE GrantTurn(r)
    BY <1>8 DEF GrantTurn, At, Goto, Delayed
  <1>9. CASE OwnSlot(r)
    BY <1>9 DEF OwnSlot, At, Goto, consume_last_match, Delayed
  <1>10. CASE Drop(r)
    BY <1>10 DEF Drop, At, Return, ReleaseLock, Discard, Delayed
  <1>11. CASE StartDelay(r)
    BY <1>11 DEF StartDelay, At, Goto, Delayed
  <1>12. CASE DelayOver(r)
    BY <1>12 DEF DelayOver, At, Goto, flagVars, Delayed
  <1>13. CASE CallRaises(r)
    BY <1>13 DEF CallRaises, At, Goto, flagVars, Delayed
  <1>14. ASSUME NEW status \in Statuses, CallReturns(r, status) PROVE LockInv'
    BY <1>14 DEF CallReturns, At, Goto, flagVars, Delayed
  <1>15. CASE Answer(r)
    BY <1>15 DEF Answer, At, Return, ReleaseLock, Discard, ClearFlag, Delayed
  <1>16. CASE AnswerTimeout(r)
    BY <1>16 DEF AnswerTimeout, At, Return, ReleaseLock, Discard, ClearFlag, Delayed
  <1>17. QED
    BY <1>1, <1>2, <1>3, <1>4, <1>5, <1>6, <1>7, <1>8, <1>9, <1>10, <1>11, <1>12, <1>13,
       <1>14, <1>15, <1>16 DEF Handler

LEMMA LockStep == LockInv /\ [Next]_vars => LockInv'
  <1> SUFFICES ASSUME LockInv, [Next]_vars PROVE LockInv'
    OBVIOUS
  <1> USE LockAssumption
      DEF LockInv, HolderIsInside, FlagsAreTheHolders, PresentedIsAFunction, Inside, Outside, Asleep, Serving, Delaying
  <1>1. ASSUME NEW r \in Slots, Handler(r) PROVE LockInv'
    BY <1>1, HandlersKeepLock
  <1>2. CASE ServePost
    BY <1>2 DEF ServePost, ReleaseLock, handlerVars, Delayed
  <1>3. CASE WatchdogTick
    BY <1>3 DEF WatchdogTick, ReleaseLock, handlerVars, flagVars, Delayed
  <1>4. CASE GatherWindowEnds
    BY <1>4 DEF GatherWindowEnds, handlerVars, flagVars, Delayed
  <1>5. CASE UNCHANGED vars
    BY <1>5 DEF vars, handlerVars, flagVars, Delayed
  <1>6. QED
    BY <1>1, <1>2, <1>3, <1>4, <1>5 DEF Next

LEMMA LockKept == Spec => []LockInv
  BY InitialLock, LockStep, PTL DEF Spec

(* Whoever gets the lock finds no step in flight, no delay and no match: the
   waits of proxy on delay_active and inflight_steps_this_run are never
   entered, whatever the requests are. *)
THEOREM WaitsAreNeverEntered == Spec => []FlagsStayUnderLock
  <1>1. LockInv => FlagsStayUnderLock
    BY LockAssumption DEF LockInv, HolderIsInside, FlagsAreTheHolders, FlagsStayUnderLock, Inside
  <1>2. QED
    BY <1>1, LockKept, PTL

\* At most the holder of the lock has a turn and has not recorded it.
LEMMA OnlyTheHolderIsGranted == LockInv => Granting \subseteq {lock}
  BY DEF LockInv, HolderIsInside, Granting, Inside

\* A handler that is still busy with its turn after a step of its own or of
\* another has left trace and runs alone.
LEMMA GrantedStepsAreQuiet ==
  ASSUME LockInv, [Next]_vars, NEW r \in Slots, r \in Granting, r \in Granting'
  PROVE trace' = trace /\ run_index' = run_index
  <1>1. lock = r /\ r # "free"
    BY OnlyTheHolderIsGranted, LockAssumption
  <1>2. pc[r] \in {"granted", "drop", "delay", "sleep", "call"} /\ pc \in [Slots -> Inside \cup Outside]
    BY DEF Granting, LockInv, HolderIsInside
  <1>3. pc'[r] \in {"granted", "drop", "delay", "sleep", "call"}
    BY DEF Granting
  <1>4. ASSUME NEW q \in Slots, Handler(q) PROVE trace' = trace /\ run_index' = run_index
    <2> USE <1>1, <1>2, <1>3, <1>4
    <2>1. CASE Acquire(q) \/ Wake(q)
      BY <2>1 DEF Acquire, Wake
    <2>2. CASE CheckDelay(q) \/ CheckRetry(q) \/ RetryLoop(q)
      BY <2>2 DEF CheckDelay, CheckRetry, RetryLoop, simVars, exploreVars
    <2>3. CASE RefuseTurn(q) \/ WaitForTurn(q) \/ GrantTurn(q)
      BY <2>3 DEF RefuseTurn, WaitForTurn, GrantTurn, At
    <2>4. CASE OwnSlot(q)
      BY <2>4 DEF OwnSlot, exploreVars
    <2>5. CASE StartDelay(q) \/ DelayOver(q)
      BY <2>5 DEF StartDelay, DelayOver, simVars, exploreVars
    <2>6. CASE Drop(q)
      BY <2>6 DEF Drop, At, Return
    <2>7. CASE CallRaises(q) \/ \E status \in Statuses : CallReturns(q, status)
      BY <2>7 DEF CallRaises, CallReturns, At, Goto
    <2>8. CASE Answer(q) \/ AnswerTimeout(q)
      BY <2>8 DEF Answer, AnswerTimeout, At
    <2>9. QED
      BY <2>1, <2>2, <2>3, <2>4, <2>5, <2>6, <2>7, <2>8 DEF Handler
  <1>5. CASE ServePost \/ WatchdogTick
    BY <1>1, <1>5 DEF ServePost, WatchdogTick
  <1>6. CASE GatherWindowEnds
    BY <1>6 DEF GatherWindowEnds, GatherWindowCloses, exploreVars
  <1>7. CASE UNCHANGED vars
    BY <1>7 DEF vars, simVars, exploreVars
  <1>8. QED
    BY <1>4, <1>5, <1>6, <1>7 DEF Next

(* Between the match of a step and its entry in the trace nothing overtakes
   it, for delays and calls of any length: other requests, the end of the run
   and the watchdog want the lock. *)
THEOREM NothingOvertakes == Spec => DelayIsStrict
  <1>1. ASSUME LockInv, LockInv', [Next]_vars, NEW r \in Slots, r \in Granting \cap Granting'
        PROVE Granting' = Granting /\ trace' = trace /\ run_index' = run_index
    <2>1. Granting = {lock} /\ lock = r
      BY <1>1, OnlyTheHolderIsGranted
    <2>2. Granting' = {r}
      BY <1>1 DEF LockInv, HolderIsInside, Granting, Inside
    <2>3. QED
      BY <1>1, <2>1, <2>2, GrantedStepsAreQuiet
  <1>2. LockInv /\ LockInv' /\ [Next]_vars
          => [\A r \in Granting \cap Granting' :
                Granting' = Granting /\ trace' = trace /\ run_index' = run_index]_vars
    BY <1>1 DEF Granting
  <1>3. QED
    BY <1>2, LockKept, PTL DEF Spec, DelayIsStrict
----------------------------------------------------------------------------
(* Types *)

\* A handler that is about to execute its step has got a token for it.
TypeInv ==
  /\ TypeOK
  /\ \A r \in Slots : pc[r] \in {"drop", "delay", "sleep", "call"} => presented[r] \in Tokens

LEMMA AnswersAreAnswers ==
  ASSUME SimTypeOK, NEW s \in Steps
  PROVE  artifact_response_for(s) \in Answers /\ RetryAnswer(s) \in Answers
<1>1. /\ response_cache[s] \in Answers \cup {NoStatus}
      /\ stable_response_cache[s] \in Answers \cup {NoStatus}
  BY DEF SimTypeOK, Caches
<1>2. {404, ArtifactOk} \subseteq Answers
  BY DEF Answers
<1>3. artifact_response_for(s) \in Answers
  BY <1>1, <1>2 DEF artifact_response_for
<1> QED
  BY <1>1, <1>3 DEF RetryAnswer

\* The control of the handlers, and their answers.
LEMMA GotoTypes ==
  ASSUME TypeInv, NEW r \in Slots, NEW place \in Inside \cup Outside,
         pc' = [pc EXCEPT ![r] = place], UNCHANGED presented,
         place \in {"drop", "delay", "sleep", "call"} => presented[r] \in Tokens
  PROVE  /\ pc' \in [Slots -> Inside \cup Outside]
         /\ \A q \in Slots : pc'[q] \in {"drop", "delay", "sleep", "call"} => presented'[q] \in Tokens
BY DEF TypeInv, TypeOK

LEMMA ReturnTypes ==
  ASSUME TypeInv, NEW r \in Slots, NEW status \in Answers \cup {NoStatus}, Return(r, status)
  PROVE  /\ pc' \in [Slots -> Inside \cup Outside]
         /\ \A q \in Slots : pc'[q] \in {"drop", "delay", "sleep", "call"} => presented'[q] \in Tokens
         /\ presented' \in [Slots -> Tokens \cup {NoMatch}]
         /\ answer' \in [Slots -> Answers \cup {NoStatus}]
         /\ parked' \subseteq Slots
         /\ lock' = "free"
BY DEF TypeInv, TypeOK, Return, ReleaseLock, Outside

\* The scheduler may stop enforcing whenever a handler is done.
LEMMA StopTypes ==
  ASSUME SchedTypeOK, maybe_stop_enforcing, UNCHANGED current_result
  PROVE  SchedTypeOK'
BY DEF SchedTypeOK, maybe_stop_enforcing

LEMMA AppendTypes ==
  ASSUME TypeInv, NEW r \in Slots, pc[r] \in {"drop", "call"}
  PROVE  Append(trace, presented[r]) \in Schedules
BY DEF TypeInv, TypeOK, SimTypeOK, Schedules

LEMMA HandlersKeepTypes ==
  ASSUME TypeInv, NEW r \in Slots, Handler(r)
  PROVE  TypeInv'
<1> USE DEF TypeInv, TypeOK
<1>0. StepOf[r] \in Steps /\ StepOf[r] \in Steps
  BY LockAssumption
<1>1. CASE Acquire(r) \/ Wake(r)
  <2>1. SimTypeOK'
    BY <1>1, SimUnchangedTypes DEF Acquire, Wake
  <2>2. pc' \in [Slots -> Inside \cup Outside]
        /\ pc'[r] \in {"check delay", "retry loop", "turn"} /\ \A q \in Slots \ {r} : pc'[q] = pc[q]
    BY <1>1 DEF Acquire, Wake, Resumed, Asleep, Inside
  <2> QED
    BY <1>1, <2>1, <2>2 DEF Acquire, Wake, flagVars
<1>2. CASE CheckDelay(r) \/ CheckRetry(r)
  <2>1. SimTypeOK'
    BY <1>2, SimUnchangedTypes DEF CheckDelay, CheckRetry
  <2>2. \E place \in {"delay wait", "check retry", "retry loop", "turn"} : pc' = [pc EXCEPT ![r] = place]
    BY <1>2 DEF CheckDelay, CheckRetry, Sleep, Goto
  <2>3. {"delay wait", "check retry", "retry loop", "turn"} \subseteq Inside \cup Outside
    BY DEF Inside, Outside, Asleep
  <2>4. lock' \in Slots \cup {"free"} /\ UNCHANGED <<presented, parked, answer, flagVars>>
    BY <1>2 DEF CheckDelay, CheckRetry, Sleep, Goto, ReleaseLock
  <2> QED
    BY <2>1, <2>2, <2>3, <2>4, GotoTypes DEF flagVars
<1>3. CASE RetryLoop(r)
  <2>1. SimTypeOK'
    BY <1>3, SimUnchangedTypes DEF RetryLoop
  <2>2. CASE Sleep(r, "retry wait") /\ UNCHANGED <<presented, parked, answer>>
    BY <1>3, <2>1, <2>2, GotoTypes DEF RetryLoop, Sleep, ReleaseLock, flagVars, Outside, Asleep
  <2>3. CASE Return(r, RetryAnswer(StepOf[r]))
    <3>1. RetryAnswer(StepOf[r]) \in Answers
      BY <1>0, AnswersAreAnswers
    <3> QED
      BY <1>3, <2>1, <2>3, <3>1, ReturnTypes DEF RetryLoop, flagVars
  <2> QED
    BY <1>3, <2>2, <2>3 DEF RetryLoop
<1>4. CASE RefuseTurn(r)
  <2>1. SimTypeOK'
    BY <1>0, <1>4, HandlerTypes DEF RefuseTurn
  <2>2. 503 \in Answers
    BY DEF Answers
  <2> QED
    BY <1>4, <2>1, <2>2, ReturnTypes DEF RefuseTurn, flagVars
<1>5. CASE WaitForTurn(r)
  <2>1. SimTypeOK'
    BY <1>0, <1>5, HandlerTypes DEF WaitForTurn
  <2>2. "turn wait" \in Inside \cup Outside
    BY DEF Outside, Asleep
  <2> QED
    BY <1>5, <2>1, <2>2, GotoTypes DEF WaitForTurn, Sleep, ReleaseLock, flagVars
<1>6. CASE GrantTurn(r)
  <2>1. SchedTypeOK'
    BY <1>0, <1>6, TakeTurnTypes DEF GrantTurn, SimTypeOK, SchedTypeOK
  <2>2. SimTypeOK'
    BY <1>6, <2>1 DEF GrantTurn, SimTypeOK, exploreVars, cacheVars
  <2>3. Granted(StepOf[r]) \in Tokens
    BY <1>0, GrantedIsToken DEF SimTypeOK
  <2>4. "granted" \in Inside \cup Outside
    BY DEF Inside
  <2> QED
    BY <1>6, <2>2, <2>3, <2>4, GotoTypes DEF GrantTurn, Goto
<1>7. CASE OwnSlot(r)
  <2>1. SimTypeOK'
    <3>1. SchedTypeOK'
      BY <1>7, OtherSchedulerStepsTypes DEF OwnSlot, SimTypeOK
    <3> QED
      BY <1>0, <1>7, <3>1 DEF OwnSlot, SimTypeOK, exploreVars
  <2>2. PresentedBy(r) \in Tokens
    BY <1>0, BaseIsToken DEF PresentedBy
  <2>3. "drop" \in Inside \cup Outside /\ "delay" \in Inside \cup Outside
    BY DEF Inside
  <2> QED
    BY <1>0, <1>7, <2>1, <2>2, <2>3 DEF OwnSlot, Goto, consume_last_match
<1>8. CASE Drop(r)
  <2>1. SchedTypeOK'
    BY <1>8, StopTypes DEF Drop, SimTypeOK
  <2>2. trace' \in Schedules
    BY <1>8, AppendTypes DEF Drop, At
  <2>3. SimTypeOK'
    BY <1>8, <2>1, <2>2 DEF Drop, SimTypeOK, exploreVars, cacheVars
  <2>4. artifact_response_for(StepOf[r]) \in Answers
    BY <1>0, AnswersAreAnswers
  <2> QED
    BY <1>8, <2>3, <2>4, ReturnTypes DEF Drop, Discard
<1>9. CASE StartDelay(r) \/ DelayOver(r)
  <2>1. SimTypeOK'
    BY <1>9, SimUnchangedTypes DEF StartDelay, DelayOver
  <2>2. pc[r] \in {"delay", "sleep"} /\ \E place \in {"sleep", "call"} : pc' = [pc EXCEPT ![r] = place]
    BY <1>9 DEF StartDelay, DelayOver, Goto, At
  <2>3. {"sleep", "call"} \subseteq Inside \cup Outside
    BY DEF Inside
  <2>4. /\ UNCHANGED <<lock, presented, parked, answer, last_match, inflight>>
        /\ delay_active' \in BOOLEAN
    BY <1>9 DEF StartDelay, DelayOver, Goto, flagVars, Delayed
  <2> QED
    BY <2>1, <2>2, <2>3, <2>4, GotoTypes
<1>10. CASE CallRaises(r)
  <2>1. trace' \in Schedules
    BY <1>10, AppendTypes DEF CallRaises, At
  <2>2. current_result' \in Results
    BY <1>10, ClassifiedTypes DEF CallRaises, SimTypeOK, SchedTypeOK, Results
  <2>3. SimTypeOK'
    BY <1>10, <2>1, <2>2 DEF CallRaises, SimTypeOK, SchedTypeOK, exploreVars, cacheVars
  <2>4. "raised" \in Inside \cup Outside
    BY DEF Inside
  <2> QED
    BY <1>10, <2>3, <2>4, GotoTypes DEF CallRaises, Goto, flagVars
<1>11. ASSUME NEW status \in Statuses, CallReturns(r, status)
       PROVE  TypeInv'
  <2>1. trace' \in Schedules
    BY <1>11, AppendTypes DEF CallReturns, At
  <2>2. current_result' \in Results
    BY <1>11, HttpVerdictTypes, ClassifiedTypes, HandlersAssumption DEF CallReturns, SimTypeOK
  <2>3. response_cache' \in Caches /\ stable_response_cache' \in Caches
    BY <1>0, <1>11, CacheTypes DEF CallReturns, SimTypeOK, Answers
  <2>4. SimTypeOK'
    BY <1>11, <2>1, <2>2, <2>3 DEF CallReturns, SimTypeOK, SchedTypeOK, exploreVars
  <2>5. "answered" \in Inside \cup Outside
    BY DEF Inside
  <2> QED
    BY <1>11, <2>4, <2>5, GotoTypes DEF CallReturns, Goto, flagVars
<1>12. CASE Answer(r)
  <2>1. SchedTypeOK'
    BY <1>12, StopTypes DEF Answer, SimTypeOK
  <2>2. SimTypeOK'
    BY <1>12, <2>1 DEF Answer, SimTypeOK, exploreVars, cacheVars
  <2>3. response_cache[StepOf[r]] \in Answers \cup {NoStatus}
    BY <1>0 DEF SimTypeOK, Caches
  <2> QED
    BY <1>12, <2>2, <2>3, ReturnTypes DEF Answer, Discard, ClearFlag
<1>13. CASE AnswerTimeout(r)
  <2>1. SimTypeOK'
    BY <1>13, SimUnchangedTypes DEF AnswerTimeout
  <2>2. 408 \in Answers
    BY DEF Answers
  <2> QED
    BY <1>13, <2>1, <2>2, ReturnTypes DEF AnswerTimeout, Discard, ClearFlag
<1> QED
  BY <1>1, <1>2, <1>3, <1>4, <1>5, <1>6, <1>7, <1>8, <1>9, <1>10, <1>11, <1>12, <1>13 DEF Handler

LEMMA OthersKeepTypes ==
  ASSUME TypeInv, ServePost \/ WatchdogTick \/ GatherWindowEnds \/ UNCHANGED vars
  PROVE  TypeInv'
<1> USE DEF TypeInv, TypeOK
<1>1. CASE ServePost
  <2>1. SimTypeOK'
    BY <1>1, ExecutionDoneTypes, LockAssumption DEF ServePost
  <2> QED
    BY <1>1, <2>1 DEF ServePost, ReleaseLock, handlerVars
<1>2. CASE WatchdogTick
  <2>1. SchedTypeOK'
    BY <1>2, OtherSchedulerStepsTypes DEF WatchdogTick, WatchdogFires, SimTypeOK
  <2>2. SimTypeOK'
    BY <1>2, <2>1 DEF WatchdogTick, WatchdogFires, SimTypeOK, exploreVars, cacheVars
  <2> QED
    BY <1>2, <2>2 DEF WatchdogTick, ReleaseLock, handlerVars, flagVars
<1>3. CASE GatherWindowEnds
  <2>1. SchedTypeOK'
    BY <1>3, OtherSchedulerStepsTypes DEF GatherWindowEnds, GatherWindowCloses, SimTypeOK
  <2>2. SimTypeOK'
    BY <1>3, <2>1 DEF GatherWindowEnds, GatherWindowCloses, SimTypeOK, exploreVars, cacheVars
  <2> QED
    BY <1>3, <2>2 DEF GatherWindowEnds, handlerVars, flagVars
<1>4. CASE UNCHANGED vars
  BY <1>4, SimUnchangedTypes DEF vars, handlerVars, flagVars
<1> QED
  BY <1>1, <1>2, <1>3, <1>4

LEMMA TypesKept == Spec => []TypeInv
<1>1. Init => TypeInv
  BY SimInitTypes DEF Init, TypeInv, TypeOK, Outside
<1>2. TypeInv /\ [Next]_vars => TypeInv'
  BY HandlersKeepTypes, OthersKeepTypes DEF Next
<1> QED
  BY <1>1, <1>2, PTL DEF Spec

(* The statements of the handlers keep every variable to its type: what is
   appended to the trace is a token, never the None that stands for no match.
   last_match in proxy and consume_last_match. *)
THEOREM TypeCorrect == Spec => []TypeOK
<1>1. TypeInv => TypeOK
  BY DEF TypeInv
<1> QED
  BY <1>1, TypesKept, PTL
----------------------------------------------------------------------------
(* The one-step handlers compute with what was published at the last release *)
(* of the lock; what they compute is the same.                               *)

LEMMA SameTokens ==
  ASSUME NEW x, NEW s
  PROVE  /\ AH!Base(x) = Base(x)
         /\ AH!is_drop(x) <=> is_drop(x)
         /\ AH!Matches(x, s) <=> Matches(x, s)
BY DEF AH!Base, Base, AH!is_drop, is_drop, AH!Outer, Outer, AH!Matches, Matches,
       AH!_is_nested_wrapper, _is_nested_wrapper, AH!undrop, undrop, AH!undelay, undelay,
       AH!is_delay, is_delay, AH!Strip, Strip

LEMMA SameMutations ==
  ASSUME NEW t
  PROVE  AH!Mutations(t) = Mutations(t)
BY DEF AH!Mutations, Mutations, AH!SwapPrefixes, SwapPrefixes, AH!DropPrefixes, DropPrefixes,
       AH!DelayPrefixes, DelayPrefixes, AH!MixedPrefixes, MixedPrefixes, AH!mixed_prefix, mixed_prefix,
       AH!Mutable, Mutable, AH!_is_mutated, _is_mutated, AH!Later, Later,
       AH!minimal_prefix_for_swap, minimal_prefix_for_swap, AH!Swappable, Swappable,
       AH!thread, thread, AH!drop, drop, AH!delay, delay, AH!is_drop, is_drop, AH!Outer, Outer,
       AH!undrop, undrop, AH!is_delay, is_delay, AH!Strip, Strip

LEMMA SameOrder ==
  ASSUME NEW x, NEW y
  PROVE  AH!Before(x, y) <=> Before(x, y)
BY DEF AH!Before, Before, AH!SortsBefore, SortsBefore, AH!prefix_phase_rank, prefix_phase_rank,
       AH!has_drop, has_drop, AH!has_delay, has_delay, AH!LexLess, LexLess,
       AH!is_drop, is_drop, AH!Outer, Outer, AH!undrop, undrop, AH!is_delay, is_delay,
       AH!Strip, Strip

LEMMA SameVerdict ==
  ASSUME NEW status, NEW cache, NEW s
  PROVE  /\ AH!classify_http_failure(status) = classify_http_failure(status)
         /\ AH!SetDefault(cache, s, status) = SetDefault(cache, s, status)
BY DEF AH!classify_http_failure, classify_http_failure, AH!SetDefault, SetDefault, AH!NoStatus, NoStatus

\* With everything published, an atomic step is the step itself.
Published == committed = Snapshot

PublishedValues ==
  /\ committed.enforcing = enforcing
  /\ committed.forced_pos = forced_pos
  /\ committed.free_waiting = free_waiting
  /\ committed.free_deadline = free_deadline
  /\ committed.current_result = current_result
  /\ committed.trace = trace
  /\ committed.seen_base_steps = seen_base_steps
  /\ committed.response_cache = response_cache
  /\ committed.stable_response_cache = stable_response_cache

LEMMA PublishedFields == Published => PublishedValues
BY DEF Published, PublishedValues, Snapshot

LEMMA PublishedScheduler ==
  ASSUME Published, NEW s
  PROVE  /\ AH!IsRetry(s) <=> IsRetry(s)
         /\ AH!RetryAnswer(s) = RetryAnswer(s)
         /\ AH!CanTakeTurn(s) <=> CanTakeTurn(s)
         /\ AH!MayGoForced(s) <=> MayGoForced(s)
         /\ AH!MayGoFree(s) <=> MayGoFree(s)
         /\ AH!MayGoUnexpected(s) <=> MayGoUnexpected(s)
         /\ AH!Contenders(s) = Contenders(s)
         /\ AH!Granted(s) = Granted(s)
<1>1. /\ AH!IsRetry(s) <=> IsRetry(s)
      /\ AH!RetryAnswer(s) = RetryAnswer(s)
  BY PublishedFields
  DEF PublishedValues, AH!IsRetry, IsRetry, AH!RetryAnswer, RetryAnswer, AH!artifact_response_for, artifact_response_for,
      AH!NoStatus, NoStatus
<1>2. /\ AH!Expecting <=> Expecting
      /\ AH!expected_now = expected_now
  BY PublishedFields DEF PublishedValues, AH!Expecting, Expecting, AH!expected_now, expected_now
<1>3. AH!Contenders(s) = Contenders(s)
  BY PublishedFields DEF PublishedValues, AH!Contenders, Contenders
<1>4. AH!MayGoForced(s) <=> MayGoForced(s)
  BY <1>2, SameTokens DEF AH!MayGoForced, MayGoForced
<1>5. AH!MayGoFree(s) <=> MayGoFree(s)
  BY <1>3, PublishedFields, SameTokens DEF PublishedValues, AH!MayGoFree, MayGoFree, AH!Smallest, Smallest
<1>6. AH!MayGoUnexpected(s) <=> MayGoUnexpected(s)
  BY <1>2, PublishedFields DEF PublishedValues, AH!MayGoUnexpected, MayGoUnexpected
<1>7. AH!CanTakeTurn(s) <=> CanTakeTurn(s)
  BY <1>4, <1>5, <1>6, PublishedFields DEF PublishedValues, AH!CanTakeTurn, CanTakeTurn
<1>8. AH!Granted(s) = Granted(s)
  BY <1>2, SameTokens DEF AH!Granted, Granted
<1> QED
  BY <1>1, <1>3, <1>4, <1>5, <1>6, <1>7, <1>8

LEMMA PublishedEnd ==
  ASSUME Published, Published', NEW kind, execution_done(kind)
  PROVE  AH!execution_done(kind)
<1>0. PublishedValues /\ PublishedValues'
  BY PublishedFields DEF Published, PublishedValues, Snapshot
<1> USE <1>0 DEF PublishedValues
<1>1. AH!Explored = Explored /\ AH!Walked = Walked /\ AH!Generated = Generated
      /\ (AH!KnownTrace <=> KnownTrace) /\ AH!FinalResult(kind) = FinalResult(kind)
  BY SameMutations
  DEF AH!Explored, Explored, AH!Walked, Walked, AH!PrefixesOf, PrefixesOf, AH!Generated, Generated,
      AH!generate_forced_prefixes, generate_forced_prefixes, AH!KnownTrace, KnownTrace,
      AH!FinalResult, FinalResult, AH!Classified, Classified
<1>2. \A fresh : AH!Queued(fresh) = Queued(fresh)
  BY DEF AH!Queued, Queued
<1>3. _reset_for_next_run => AH!_reset_for_next_run
  BY DEF AH!_reset_for_next_run, _reset_for_next_run, AH!EmptyCache, EmptyCache,
                         AH!NoStatus, NoStatus
<1>4. \A p : start_run(p) => AH!start_run(p)
  BY DEF AH!start_run, start_run
<1>5. ExplorationEnds => AH!ExplorationEnds
  BY <1>4 DEF AH!ExplorationEnds, ExplorationEnds
<1>6. \A pending, explored, walked :
        pick_next_prefix_or_done(pending, explored, walked)
          => AH!pick_next_prefix_or_done(pending, explored, walked)
  BY <1>4, <1>5, SameOrder DEF AH!pick_next_prefix_or_done, pick_next_prefix_or_done
<1> QED
  BY <1>1, <1>2, <1>3, <1>6 DEF AH!execution_done, execution_done
----------------------------------------------------------------------------
(* What the holder of the lock has done to the simulator since the others    *)
(* last saw it                                                               *)

PublishedIsARecord ==
  committed =
    [enforcing |-> committed.enforcing, forced_pos |-> committed.forced_pos,
     free_waiting |-> committed.free_waiting, free_deadline |-> committed.free_deadline,
     current_result |-> committed.current_result, trace |-> committed.trace,
     seen_base_steps |-> committed.seen_base_steps, response_cache |-> committed.response_cache,
     stable_response_cache |-> committed.stable_response_cache]

\* The scheduler has given the step its turn, and still enforces if it did.
TurnTaken(s) ==
  /\ AH!CanTakeTurn(s)
  /\ \/ /\ AH!MayGoForced(s)
        /\ forced_pos = committed.forced_pos + 1 /\ enforcing = TRUE
        /\ free_waiting = committed.free_waiting /\ free_deadline = committed.free_deadline
     \/ /\ AH!MayGoFree(s)
        /\ forced_pos = committed.forced_pos /\ enforcing = committed.enforcing
        /\ free_waiting = AH!Contenders(s) \ {s} /\ free_deadline = "none"
     \/ /\ AH!MayGoUnexpected(s)
        /\ forced_pos = committed.forced_pos /\ enforcing = FALSE
        /\ free_waiting = committed.free_waiting /\ free_deadline = committed.free_deadline

\* Nothing has been recorded yet, but perhaps that the step has been seen.
NotRecorded ==
  /\ current_result = committed.current_result
  /\ trace = committed.trace
  /\ response_cache = committed.response_cache
  /\ stable_response_cache = committed.stable_response_cache

Recorded(r, result) ==
  /\ current_result = result
  /\ trace = Append(committed.trace, presented[r])

ServedBy(r, status) ==
  /\ Recorded(r, AH!Classified(classify_http_failure(status)))
  /\ response_cache = [committed.response_cache EXCEPT ![StepOf[r]] = status]
  /\ response_cache[StepOf[r]] = status
  /\ stable_response_cache = SetDefault(committed.stable_response_cache, StepOf[r], status)

TimedOut(r) ==
  /\ Recorded(r, IF Treat408 THEN AH!Classified("TIMEOUT") ELSE committed.current_result)
  /\ response_cache = committed.response_cache
  /\ stable_response_cache = committed.stable_response_cache

\* Where the handler of r is, and what it has done on the way.
Progress(r) ==
  /\ pc[r] \in {"check delay", "check retry", "retry loop", "turn"} => Published
  /\ pc[r] = "retry loop" => IsRetry(StepOf[r])
  /\ pc[r] = "turn" => r \in parked \/ ~IsRetry(StepOf[r])
  /\ pc[r] \in {"granted"} \cup Serving =>
       TurnTaken(StepOf[r]) /\ (r \in parked \/ ~AH!IsRetry(StepOf[r]))
  /\ pc[r] = "granted" =>
       /\ PresentedBy(r) = AH!Granted(StepOf[r])
       /\ NotRecorded /\ seen_base_steps = committed.seen_base_steps
  /\ pc[r] \in Serving =>
       /\ presented[r] = AH!Granted(StepOf[r])
       /\ pc[r] = "drop" <=> is_drop(presented[r])
       /\ seen_base_steps = committed.seen_base_steps \cup {StepOf[r]}
  /\ pc[r] \in {"drop", "delay", "sleep", "call"} => NotRecorded
  /\ pc[r] = "answered" => \E status \in Statuses : ServedBy(r, status)
  /\ pc[r] = "raised" => TimedOut(r)

CommitInv ==
  /\ PublishedIsARecord
  /\ \A r \in Slots : pc[r] \notin {"delay wait", "retry wait"}
  /\ \A r \in Slots : pc[r] = "turn wait" => r \in parked
  /\ lock = "free" => Published
  /\ \A r \in Slots : lock = r => Progress(r)

\* The two ways a step of a handler ends.
LEMMA Released ==
  ASSUME LockInv, CommitInv, NEW r \in Slots, ReleaseLock,
         \/ pc' = [pc EXCEPT ![r] = "away"] /\ parked' = parked \ {r}
         \/ pc' = [pc EXCEPT ![r] = "turn wait"] /\ parked' = parked \cup {r}
  PROVE  CommitInv'
<1>1. Published' /\ PublishedIsARecord'
  BY DEF ReleaseLock, Published, PublishedIsARecord, Snapshot
<1>2. \A q \in Slots : pc'[q] \notin {"delay wait", "retry wait"}
                       /\ (pc'[q] = "turn wait" => q \in parked')
  BY DEF CommitInv, LockInv, HolderIsInside
<1> QED
  BY <1>1, <1>2, LockAssumption DEF CommitInv, ReleaseLock

LEMMA WentOn ==
  ASSUME LockInv, CommitInv, NEW r \in Slots, NEW place \in Inside,
         pc' = [pc EXCEPT ![r] = place], lock' = r, UNCHANGED <<parked, committed>>,
         Progress(r)'
  PROVE  CommitInv'
<1>1. PublishedIsARecord'
  BY DEF CommitInv, PublishedIsARecord
<1>2. \A q \in Slots : pc'[q] \notin {"delay wait", "retry wait"}
                       /\ (pc'[q] = "turn wait" => q \in parked')
  BY DEF CommitInv, LockInv, HolderIsInside, Inside
<1> QED
  BY <1>1, <1>2, LockAssumption DEF CommitInv

\* Up to its turn a handler changes nothing.
LEMMA ApproachKeepsCommit ==
  ASSUME LockInv, TypeInv, CommitInv, NEW r \in Slots,
         Acquire(r) \/ Wake(r) \/ CheckDelay(r) \/ CheckRetry(r) \/ RetryLoop(r)
           \/ RefuseTurn(r) \/ WaitForTurn(r)
  PROVE  CommitInv'
<1>1. r # "free" /\ pc \in [Slots -> Inside \cup Outside]
  BY LockAssumption DEF LockInv, HolderIsInside
<1>2. {"check delay", "check retry", "retry loop", "turn"} \subseteq Inside
  BY DEF Inside
<1>3. CASE Acquire(r)
  <2>1. Published /\ UNCHANGED <<simVars, committed, parked>>
    BY <1>3 DEF Acquire, CommitInv
  <2>2. Published'
    BY <2>1 DEF Published, Snapshot, simVars, schedVars, cacheVars
  <2>3. pc'[r] = "check delay"
    BY <1>1, <1>3 DEF Acquire
  <2>4. Progress(r)'
    BY <2>2, <2>3 DEF Progress, Serving
  <2> QED
    BY <1>2, <1>3, <2>1, <2>4, WentOn DEF Acquire
<1>4. CASE Wake(r)
  <2>1. Published /\ UNCHANGED <<simVars, committed, parked>>
    BY <1>4 DEF Wake, CommitInv
  <2>2. Published'
    BY <2>1 DEF Published, Snapshot, simVars, schedVars, cacheVars
  <2>3. pc[r] = "turn wait" /\ r \in parked
    BY <1>4 DEF Wake, CommitInv, Asleep
  <2>4. pc' = [pc EXCEPT ![r] = "turn"] /\ pc'[r] = "turn"
    BY <1>1, <1>4, <2>3 DEF Wake, Resumed
  <2>5. Progress(r)'
    BY <2>1, <2>2, <2>3, <2>4 DEF Progress, Serving
  <2> QED
    BY <1>2, <1>4, <2>1, <2>4, <2>5, WentOn DEF Wake
<1>5. CASE CheckDelay(r)
  <2>1. lock = r /\ pc[r] = "check delay" /\ ~delay_active
    BY <1>1, <1>5 DEF CheckDelay, At, LockInv, FlagsAreTheHolders, Delaying
  <2>2. Published /\ UNCHANGED <<simVars, committed, parked>>
    BY <1>5, <2>1 DEF CheckDelay, Goto, CommitInv, Progress
  <2>3. Published'
    BY <2>2 DEF Published, Snapshot, simVars, schedVars, cacheVars
  <2>4. pc' = [pc EXCEPT ![r] = "check retry"] /\ pc'[r] = "check retry" /\ lock' = r
    BY <1>1, <1>5, <2>1 DEF CheckDelay, Goto
  <2>5. Progress(r)'
    BY <2>3, <2>4 DEF Progress, Serving
  <2> QED
    BY <1>2, <2>2, <2>4, <2>5, WentOn
<1>6. CASE CheckRetry(r)
  <2>1. lock = r /\ pc[r] = "check retry"
    BY <1>6 DEF CheckRetry, At
  <2>2. Published /\ UNCHANGED <<simVars, committed, parked>>
    BY <1>6, <2>1 DEF CheckRetry, Goto, CommitInv, Progress
  <2>3. Published' /\ (IsRetry(StepOf[r])' <=> IsRetry(StepOf[r]))
    BY <2>2 DEF Published, Snapshot, simVars, schedVars, cacheVars, IsRetry
  <2>4. lock' = r /\ \/ pc' = [pc EXCEPT ![r] = "retry loop"] /\ IsRetry(StepOf[r])
                     \/ pc' = [pc EXCEPT ![r] = "turn"] /\ ~IsRetry(StepOf[r])
    BY <1>6, <2>1 DEF CheckRetry, Goto
  <2>5. Progress(r)'
    BY <1>1, <2>3, <2>4 DEF Progress, Serving
  <2> QED
    BY <1>2, <2>2, <2>4, <2>5, WentOn
<1>7. CASE RetryLoop(r)
  <2>1. lock = r /\ pc[r] = "retry loop" /\ inflight = {}
    BY <1>1, <1>7 DEF RetryLoop, At, LockInv, FlagsAreTheHolders, Serving
  <2>2. Return(r, RetryAnswer(StepOf[r]))
    BY <1>7, <2>1 DEF RetryLoop, BeingServed
  <2> QED
    BY <2>2, Released DEF Return
<1>8. CASE RefuseTurn(r)
  BY <1>8, Released DEF RefuseTurn, Return
<1>9. CASE WaitForTurn(r)
  BY <1>9, Released DEF WaitForTurn, Sleep
<1> QED
  BY <1>3, <1>4, <1>5, <1>6, <1>7, <1>8, <1>9

\* The turn, and the slot it is executed in.
LEMMA GrantKeepsCommit ==
  ASSUME LockInv, TypeInv, CommitInv, NEW r \in Slots, GrantTurn(r)
  PROVE  CommitInv'
<1> DEFINE s == StepOf[r]
<1>1. r # "free" /\ pc \in [Slots -> Inside \cup Outside] /\ s \in Steps
  BY LockAssumption DEF LockInv, HolderIsInside
<1>2. lock = r /\ pc[r] = "turn" /\ Published
  BY DEF GrantTurn, At, CommitInv, Progress
<1>3. pc' = [pc EXCEPT ![r] = "granted"] /\ lock' = r /\ pc'[r] = "granted"
      /\ UNCHANGED <<parked, committed, cacheVars, trace, current_result, forced_prefix>>
  BY <1>1, <1>2 DEF GrantTurn, Goto, TakeTurn
<1>4. last_match = NoMatch /\ Granted(s) \in Tokens
  BY <1>1, <1>2, GrantedIsToken DEF LockInv, FlagsAreTheHolders, TypeInv, TypeOK, SimTypeOK
<1>5. AH!Granted(s) = Granted(s) /\ (AH!IsRetry(s) <=> IsRetry(s))
  BY <1>2, PublishedScheduler
<1>6. TurnTaken(s)'
  <2>1. (AH!CanTakeTurn(s))'
    BY <1>2, <1>3, PublishedScheduler
    DEF GrantTurn, TakeTurn, AH!CanTakeTurn, AH!MayGoForced, AH!MayGoFree, AH!MayGoUnexpected,
        AH!Expecting, AH!expected_now, AH!Smallest, AH!Contenders
  <2>2. /\ AH!MayGoForced(s)' <=> AH!MayGoForced(s)
        /\ AH!MayGoFree(s)' <=> AH!MayGoFree(s)
        /\ AH!MayGoUnexpected(s)' <=> AH!MayGoUnexpected(s)
        /\ AH!Contenders(s)' = AH!Contenders(s)
    BY <1>3 DEF AH!MayGoForced, AH!MayGoFree, AH!MayGoUnexpected,
                AH!Expecting, AH!expected_now, AH!Smallest, AH!Contenders
  <2>3. TakeForced(s, FALSE) \/ TakeFree(s) \/ TakeUnexpected(s)
    BY DEF GrantTurn, TakeTurn
  <2>4. PublishedValues
    BY <1>2, PublishedFields
  <2>5. enforcing \in BOOLEAN
    BY DEF TypeInv, TypeOK, SimTypeOK, SchedTypeOK
  <2>6. CASE TakeForced(s, FALSE)
    BY <1>2, <1>3, <2>1, <2>2, <2>4, <2>6, PublishedScheduler
    DEF TakeForced, TurnTaken, PublishedValues
  <2>7. CASE TakeFree(s)
    BY <1>2, <1>3, <2>1, <2>2, <2>4, <2>5, <2>7, PublishedScheduler
    DEF TakeFree, TurnTaken, PublishedValues, MayGoFree
  <2>8. CASE TakeUnexpected(s)
    BY <1>2, <1>3, <2>1, <2>2, <2>4, <2>8, PublishedScheduler
    DEF TakeUnexpected, TurnTaken, PublishedValues
  <2> QED
    BY <2>3, <2>6, <2>7, <2>8
<1>7. NotRecorded' /\ (seen_base_steps = committed.seen_base_steps)'
  BY <1>2, <1>3, PublishedFields DEF PublishedValues, NotRecorded, cacheVars
<1>8. (r \in parked \/ ~AH!IsRetry(s))'
  BY <1>2, <1>3, <1>5 DEF CommitInv, Progress, AH!IsRetry
<1>9. PresentedBy(r)' = AH!Granted(s)'
  <2>1. AH!Granted(s)' = Granted(s)
    BY <1>3, <1>5 DEF AH!Granted, AH!Expecting, AH!expected_now
  <2>2. last_match' = IF MayGoUnexpected(s) THEN NoMatch ELSE Granted(s)
    BY <1>4 DEF GrantTurn
  <2>3. MayGoUnexpected(s) => Granted(s) = Base(s)
    BY DEF MayGoUnexpected, Granted
  <2> QED
    BY <1>4, <2>1, <2>2, <2>3, LockAssumption DEF PresentedBy
<1>10. Progress(r)'
  BY <1>3, <1>6, <1>7, <1>8, <1>9 DEF Progress, Serving
<1> QED
  BY <1>3, <1>10, WentOn DEF Inside

\* Nobody else turns the scheduler while a handler is busy with its turn.
LEMMA TurnStaysTaken ==
  ASSUME NEW s, TurnTaken(s),
         UNCHANGED <<committed, forced_prefix, enforcing, forced_pos, free_waiting, free_deadline>>
  PROVE  TurnTaken(s)' /\ AH!Granted(s)' = AH!Granted(s)
BY DEF TurnTaken, AH!CanTakeTurn, AH!MayGoForced, AH!MayGoFree, AH!MayGoUnexpected,
       AH!Expecting, AH!expected_now, AH!Smallest, AH!Contenders, AH!Granted

LEMMA ExecutionKeepsCommit ==
  ASSUME LockInv, TypeInv, CommitInv, NEW r \in Slots,
         OwnSlot(r) \/ StartDelay(r) \/ DelayOver(r) \/ CallRaises(r)
           \/ \E status \in Statuses : CallReturns(r, status)
  PROVE  CommitInv'
<1> DEFINE s == StepOf[r]
<1>1. r # "free" /\ pc \in [Slots -> Inside \cup Outside] /\ s \in Steps
  BY LockAssumption DEF LockInv, HolderIsInside
<1>2. lock = r /\ pc[r] \in {"granted", "delay", "sleep", "call"} /\ Progress(r)
      /\ TurnTaken(s) /\ (r \in parked \/ ~AH!IsRetry(s))
  BY DEF OwnSlot, StartDelay, DelayOver, CallRaises, CallReturns, At, CommitInv, Progress, Serving
<1>3. UNCHANGED <<committed, forced_prefix, enforcing, forced_pos, free_waiting, free_deadline>>
      /\ lock' = r /\ UNCHANGED parked
  BY <1>2 DEF OwnSlot, StartDelay, DelayOver, CallRaises, CallReturns, Goto, simVars, schedVars
<1>4. TurnTaken(s)' /\ AH!Granted(s)' = AH!Granted(s) /\ (r \in parked \/ ~AH!IsRetry(s))'
  BY <1>2, <1>3, TurnStaysTaken DEF AH!IsRetry
<1>5. CASE OwnSlot(r)
  <2>1. pc[r] = "granted" /\ PresentedBy(r) = AH!Granted(s) /\ NotRecorded
        /\ seen_base_steps = committed.seen_base_steps
    BY <1>2, <1>5 DEF OwnSlot, At, Progress
  <2>2. presented'[r] = PresentedBy(r) /\ seen_base_steps' = seen_base_steps \cup {s}
    BY <1>5 DEF OwnSlot, TypeInv, TypeOK
  <2>3. \/ pc' = [pc EXCEPT ![r] = "drop"] /\ is_drop(PresentedBy(r))
        \/ pc' = [pc EXCEPT ![r] = "delay"] /\ ~is_drop(PresentedBy(r))
    <3>1. ~is_drop(Base(s))
      BY DEF is_drop, Outer, Base
    <3> QED
      BY <1>5, <3>1 DEF OwnSlot, Goto, PresentedBy
  <2>4. NotRecorded'
    BY <1>3, <1>5, <2>1 DEF OwnSlot, NotRecorded, schedVars
  <2>5. pc'[r] \in {"drop", "delay"} /\ (pc'[r] = "drop" <=> is_drop(PresentedBy(r)))
    BY <1>1, <2>3
  <2>6. Progress(r)'
    BY <1>3, <1>4, <2>1, <2>2, <2>4, <2>5 DEF Progress, Serving
  <2> QED
    BY <1>3, <2>3, <2>6, WentOn DEF Inside
<1>6. CASE StartDelay(r) \/ DelayOver(r)
  <2>1. pc[r] \in {"delay", "sleep"} /\ NotRecorded /\ presented[r] = AH!Granted(s) /\ ~is_drop(presented[r])
        /\ seen_base_steps = committed.seen_base_steps \cup {s}
    BY <1>2, <1>6 DEF StartDelay, DelayOver, At, Progress, Serving
  <2>2. NotRecorded' /\ UNCHANGED <<presented, seen_base_steps>>
    BY <1>3, <1>6, <2>1 DEF StartDelay, DelayOver, NotRecorded, simVars, schedVars, cacheVars
  <2>3. \E place \in {"sleep", "call"} : pc' = [pc EXCEPT ![r] = place]
    BY <1>6 DEF StartDelay, DelayOver, Goto
  <2>4. pc'[r] \in {"sleep", "call"}
    BY <1>1, <2>3
  <2>5. Progress(r)'
    BY <1>3, <1>4, <2>1, <2>2, <2>4 DEF Progress, Serving
  <2> QED
    BY <1>3, <2>3, <2>5, WentOn DEF Inside
<1>7. CASE CallRaises(r)
  <2>1. pc[r] = "call" /\ NotRecorded /\ presented[r] = AH!Granted(s) /\ ~is_drop(presented[r])
        /\ seen_base_steps = committed.seen_base_steps \cup {s}
    BY <1>2, <1>7 DEF CallRaises, At, Progress, Serving
  <2>2. pc' = [pc EXCEPT ![r] = "raised"] /\ pc'[r] = "raised" /\ UNCHANGED <<presented, cacheVars>>
    BY <1>1, <1>7 DEF CallRaises, Goto
  <2>3. TimedOut(r)'
    BY <1>3, <1>7, <2>1, <2>2
    DEF CallRaises, TimedOut, Recorded, NotRecorded, Classified, AH!Classified, cacheVars
  <2>4. Progress(r)'
    BY <1>3, <1>4, <2>1, <2>2, <2>3 DEF Progress, Serving, cacheVars
  <2> QED
    BY <1>3, <2>2, <2>4, WentOn DEF Inside
<1>8. ASSUME NEW status \in Statuses, CallReturns(r, status)
      PROVE  CommitInv'
  <2>1. pc[r] = "call" /\ NotRecorded /\ presented[r] = AH!Granted(s) /\ ~is_drop(presented[r])
        /\ seen_base_steps = committed.seen_base_steps \cup {s}
    BY <1>2, <1>8 DEF CallReturns, At, Progress, Serving
  <2>2. pc' = [pc EXCEPT ![r] = "answered"] /\ pc'[r] = "answered" /\ UNCHANGED <<presented, seen_base_steps>>
    BY <1>1, <1>8 DEF CallReturns, Goto
  <2>3. response_cache'[s] = status
    BY <1>1, <1>8 DEF CallReturns, TypeInv, TypeOK, SimTypeOK, Caches
  <2>4. ServedBy(r, status)'
    BY <1>3, <1>8, <2>1, <2>2, <2>3
    DEF CallReturns, ServedBy, Recorded, NotRecorded, Classified, AH!Classified
  <2>5. Progress(r)'
    BY <1>3, <1>4, <2>1, <2>2, <2>4 DEF Progress, Serving
  <2> QED
    BY <1>3, <2>2, <2>5, WentOn DEF Inside
<1> QED
  BY <1>5, <1>6, <1>7, <1>8

LEMMA HandlersKeepCommit ==
  ASSUME LockInv, TypeInv, CommitInv, NEW r \in Slots, Handler(r)
  PROVE  CommitInv'
<1>1. CASE Drop(r) \/ Answer(r) \/ AnswerTimeout(r)
  BY <1>1, Released DEF Drop, Answer, AnswerTimeout, Return
<1> QED
  BY <1>1, ApproachKeepsCommit, GrantKeepsCommit, ExecutionKeepsCommit DEF Handler

\* The gather window closes for the scheduler and for what the others know of it.
LEMMA WindowIsCommon ==
  ASSUME LockInv, CommitInv, free_deadline = "open"
  PROVE  committed.free_deadline = "open"
<1>1. CASE Published
  BY <1>1, PublishedFields DEF PublishedValues
<1>2. CASE ~Published
  <2>1. lock \in Slots /\ Progress(lock) /\ pc[lock] \in Inside
    BY <1>2 DEF CommitInv, LockInv, HolderIsInside
  <2>2. TurnTaken(StepOf[lock])
    BY <1>2, <2>1 DEF Progress, Inside, Serving
  <2> QED
    BY <2>2 DEF TurnTaken
<1> QED
  BY <1>1, <1>2

LEMMA WindowKeepsCommit ==
  ASSUME LockInv, CommitInv, GatherWindowEnds
  PROVE  CommitInv'
<1>1. /\ free_deadline = "open" /\ free_deadline' = "passed"
      /\ committed' = [committed EXCEPT !.free_deadline = "passed"]
      /\ UNCHANGED <<forced_prefix, enforcing, forced_pos, free_waiting, current_result, trace,
                     seen_base_steps, response_cache, stable_response_cache, lock, pc, presented, parked, last_match>>
  BY DEF GatherWindowEnds, GatherWindowCloses, GatherExpires, cacheVars, handlerVars, flagVars
<1>2. /\ PublishedIsARecord'
      /\ UNCHANGED <<committed.enforcing, committed.forced_pos, committed.free_waiting,
                     committed.current_result, committed.trace, committed.seen_base_steps,
                     committed.response_cache, committed.stable_response_cache>>
      /\ committed.free_deadline' = "passed"
  BY <1>1 DEF CommitInv, PublishedIsARecord
<1>3. Published => Published'
  BY <1>1 DEF Published, Snapshot
<1>4. ASSUME NEW s, TurnTaken(s)
      PROVE  TurnTaken(s)' /\ AH!Granted(s)' = AH!Granted(s)
  BY <1>1, <1>2, <1>4
  DEF TurnTaken, AH!CanTakeTurn, AH!MayGoForced, AH!MayGoUnexpected,
      AH!Expecting, AH!expected_now, AH!Granted
<1>5. ASSUME NEW r \in Slots, Progress(r)
      PROVE  Progress(r)'
  <2>1. \A status : ServedBy(r, status) => ServedBy(r, status)'
    BY <1>1, <1>2 DEF ServedBy, Recorded, AH!Classified
  <2>2. TimedOut(r) => TimedOut(r)'
    BY <1>1, <1>2 DEF TimedOut, Recorded, AH!Classified
  <2>3. NotRecorded => NotRecorded'
    BY <1>1, <1>2 DEF NotRecorded
  <2>4. /\ (IsRetry(StepOf[r])' <=> IsRetry(StepOf[r])) /\ (AH!IsRetry(StepOf[r])' <=> AH!IsRetry(StepOf[r]))
        /\ PresentedBy(r)' = PresentedBy(r)
    BY <1>1, <1>2 DEF IsRetry, AH!IsRetry, PresentedBy
  <2> QED
    BY <1>1, <1>2, <1>3, <1>4, <1>5, <2>1, <2>2, <2>3, <2>4 DEF Progress, Serving
<1> QED
  BY <1>1, <1>2, <1>3, <1>5 DEF CommitInv

LEMMA StepKeepsCommit ==
  ASSUME LockInv, TypeInv, CommitInv, [Next]_vars
  PROVE  CommitInv'
<1>1. CASE ServePost \/ WatchdogTick
  <2>1. Published' /\ PublishedIsARecord'
    BY <1>1 DEF ServePost, WatchdogTick, ReleaseLock, Published, PublishedIsARecord, Snapshot
  <2>2. UNCHANGED <<pc, parked>> /\ lock' = "free"
    BY <1>1 DEF ServePost, WatchdogTick, ReleaseLock, handlerVars
  <2> QED
    BY <2>1, <2>2, LockAssumption DEF CommitInv
<1>2. CASE UNCHANGED vars
  <2>1. UNCHANGED <<pc, parked, lock, committed, presented, last_match, Snapshot, forced_prefix, enforcing,
                    forced_pos, free_waiting, free_deadline, current_result, trace, seen_base_steps,
                    response_cache, stable_response_cache>>
    BY <1>2 DEF vars, simVars, schedVars, cacheVars, handlerVars, flagVars, Snapshot
  <2>2. PublishedIsARecord' /\ (Published' <=> Published)
    BY <2>1 DEF CommitInv, PublishedIsARecord, Published
  <2>3. ASSUME NEW r \in Slots, Progress(r) PROVE Progress(r)'
    <3>1. \A status : ServedBy(r, status) => ServedBy(r, status)'
      BY <2>1 DEF ServedBy, Recorded, AH!Classified
    <3>2. TimedOut(r) => TimedOut(r)'
      BY <2>1 DEF TimedOut, Recorded, AH!Classified
    <3>3. TurnTaken(StepOf[r]) => TurnTaken(StepOf[r])' /\ AH!Granted(StepOf[r])' = AH!Granted(StepOf[r])
      BY <2>1, TurnStaysTaken
    <3>4. /\ (IsRetry(StepOf[r])' <=> IsRetry(StepOf[r])) /\ (AH!IsRetry(StepOf[r])' <=> AH!IsRetry(StepOf[r]))
          /\ PresentedBy(r)' = PresentedBy(r) /\ (NotRecorded => NotRecorded')
      BY <2>1 DEF IsRetry, AH!IsRetry, PresentedBy, NotRecorded
    <3> QED
      BY <2>1, <2>2, <2>3, <3>1, <3>2, <3>3, <3>4 DEF Progress, Serving
  <2> QED
    BY <2>1, <2>2, <2>3 DEF CommitInv
<1> QED
  BY <1>1, <1>2, HandlersKeepCommit, WindowKeepsCommit DEF Next
----------------------------------------------------------------------------
(* What the others see is one step *)

\* What is published with the lock.
LEMMA ReleasedFields ==
  ASSUME ReleaseLock
  PROVE  Published' /\ PublishedValues'
BY DEF ReleaseLock, Published, PublishedValues, Snapshot

\* A step of a handler that keeps the lock shows nothing.
LEMMA HeldLockShowsNothing ==
  ASSUME LockInv, CommitInv, NEW r \in Slots,
         Wake(r) \/ CheckDelay(r) \/ CheckRetry(r) \/ GrantTurn(r) \/ OwnSlot(r) \/ StartDelay(r)
           \/ DelayOver(r) \/ CallRaises(r) \/ \E status \in Statuses : CallReturns(r, status)
  PROVE  UNCHANGED <<AH!simVars, answer>>
<1>1. CheckDelay(r) => UNCHANGED committed
  <2>1. CheckDelay(r) => ~delay_active
    BY LockAssumption DEF CheckDelay, At, LockInv, FlagsAreTheHolders, Delaying
  <2> QED
    BY <2>1 DEF CheckDelay, Goto
<1>2. UNCHANGED <<committed, forced_prefix, exploreVars, answer>>
  BY <1>1 DEF Wake, CheckDelay, CheckRetry, GrantTurn, OwnSlot, StartDelay, DelayOver, CallRaises,
              CallReturns, Goto, TakeTurn, simVars, schedVars
<1> QED
  BY <1>2 DEF AH!simVars, AH!schedVars, AH!exploreVars, AH!cacheVars, exploreVars

\* The turn of a served request, as the others see it.
LEMMA TurnIsAtomic ==
  ASSUME PublishedValues', enforcing \in BOOLEAN, NEW s, TurnTaken(s), NEW stops \in BOOLEAN,
         UNCHANGED <<forced_prefix, forced_pos, free_waiting, free_deadline>>,
         enforcing' = (enforcing /\ (stops => StillEnforcing(forced_pos)))
  PROVE  AH!TakeTurn(s, stops)
<1>1. \A pos : AH!StillEnforcing(pos) <=> StillEnforcing(pos)
  BY DEF AH!StillEnforcing, StillEnforcing
<1>2. CASE AH!MayGoForced(s) /\ forced_pos = committed.forced_pos + 1 /\ enforcing = TRUE
             /\ free_waiting = committed.free_waiting /\ free_deadline = committed.free_deadline
  BY <1>1, <1>2 DEF TurnTaken, PublishedValues, AH!TakeTurn, AH!TakeForced
<1>3. CASE AH!MayGoFree(s) /\ forced_pos = committed.forced_pos /\ enforcing = committed.enforcing
             /\ free_waiting = AH!Contenders(s) \ {s} /\ free_deadline = "none"
  BY <1>3 DEF TurnTaken, PublishedValues, AH!TakeTurn, AH!TakeFree, AH!MayGoFree
<1>4. CASE AH!MayGoUnexpected(s) /\ forced_pos = committed.forced_pos /\ enforcing = FALSE
             /\ free_waiting = committed.free_waiting /\ free_deadline = committed.free_deadline
  BY <1>4 DEF TurnTaken, PublishedValues, AH!TakeTurn, AH!TakeUnexpected
<1> QED
  BY <1>2, <1>3, <1>4 DEF TurnTaken

\* An answer that another handler might have given at once.
LEMMA ServiceIsAtomic ==
  ASSUME NEW r \in Slots, NEW status \in Answers,
         answer' = [answer EXCEPT ![r] = status], AtomicService(r, StepOf[r], status)
  PROVE  AtomicStep
BY DEF AtomicStep

LEMMA AnswersAreAtomic ==
  ASSUME LockInv, TypeInv, CommitInv, NEW r \in Slots,
         Acquire(r) \/ RetryLoop(r) \/ RefuseTurn(r) \/ WaitForTurn(r)
           \/ Drop(r) \/ Answer(r) \/ AnswerTimeout(r)
  PROVE  AtomicStep
<1> DEFINE s == StepOf[r]
<1>1. r # "free" /\ s \in Steps
  BY LockAssumption
<1>2. SimTypeOK /\ enforcing \in BOOLEAN
  BY DEF TypeInv, TypeOK, SimTypeOK, SchedTypeOK
<1>3. CASE Acquire(r)
  <2>1. UNCHANGED AH!simVars /\ answer' = [answer EXCEPT ![r] = NoStatus]
    BY <1>3 DEF Acquire, simVars, AH!simVars, AH!schedVars, AH!exploreVars, AH!cacheVars,
                schedVars, exploreVars
  <2> QED
    BY <2>1 DEF AtomicStep
<1>4. CASE RetryLoop(r)
  <2>1. lock = r /\ pc[r] = "retry loop" /\ inflight = {} /\ Published /\ IsRetry(s)
    BY <1>1, <1>4 DEF RetryLoop, At, LockInv, FlagsAreTheHolders, Serving, CommitInv, Progress
  <2>2. Return(r, RetryAnswer(s)) /\ UNCHANGED simVars
    BY <1>4, <2>1 DEF RetryLoop, BeingServed
  <2>3. UNCHANGED committed
    BY <2>1, <2>2 DEF Return, ReleaseLock, Published, Snapshot, simVars, schedVars, cacheVars
  <2>4. UNCHANGED AH!simVars
    BY <2>2, <2>3 DEF simVars, AH!simVars, AH!schedVars, AH!exploreVars, AH!cacheVars, schedVars, exploreVars
  <2>5. AtomicService(r, s, RetryAnswer(s))
    BY <2>1, <2>4, PublishedScheduler DEF AtomicService
  <2>6. RetryAnswer(s) \in Answers
    BY <1>1, <1>2, AnswersAreAnswers
  <2> QED
    BY <2>2, <2>5, <2>6, ServiceIsAtomic DEF Return
<1>5. CASE RefuseTurn(r)
  <2>1. Published /\ PublishedValues /\ (r \in parked \/ ~AH!IsRetry(s))
    BY <1>5, PublishedFields, PublishedScheduler DEF RefuseTurn, At, CommitInv, Progress
  <2>2. PublishedValues'
    BY <1>5, ReleasedFields DEF RefuseTurn, Return
  <2>3. AH!Refuse(s)
    BY <1>5, <2>1, <2>2, SameVerdict
    DEF RefuseTurn, Refuse, PublishedValues, AH!Refuse, schedVars, AH!schedVars, exploreVars, AH!exploreVars
  <2>4. 503 \in Answers
    BY DEF Answers
  <2>5. AtomicService(r, s, 503)
    BY <2>1, <2>3 DEF AtomicService
  <2> QED
    BY <1>5, <2>4, <2>5, ServiceIsAtomic DEF RefuseTurn, Return
<1>6. CASE WaitForTurn(r)
  <2>1. Published /\ PublishedValues
    BY <1>6, PublishedFields DEF WaitForTurn, At, CommitInv, Progress
  <2>2. PublishedValues'
    BY <1>6, ReleasedFields DEF WaitForTurn, Sleep
  <2>3. AH!WaitTurn(s)
    BY <1>6, <2>1, <2>2, PublishedScheduler
    DEF WaitForTurn, WaitTurn, Wait, PublishedValues, AH!WaitTurn, AH!Wait,
        exploreVars, AH!exploreVars, cacheVars, AH!cacheVars
  <2> QED
    BY <1>6, <2>3 DEF AtomicStep, WaitForTurn
<1>7. CASE Drop(r)
  <2>1. Progress(r) /\ pc[r] = "drop"
    BY <1>7 DEF Drop, At, CommitInv
  <2>2. /\ TurnTaken(s) /\ (r \in parked \/ ~AH!IsRetry(s)) /\ NotRecorded
        /\ presented[r] = AH!Granted(s) /\ is_drop(presented[r])
        /\ seen_base_steps = committed.seen_base_steps \cup {s}
    BY <2>1 DEF Progress, Serving
  <2>3. PublishedValues'
    BY <1>7, ReleasedFields DEF Drop, Return
  <2>4. AH!TakeTurn(s, TRUE)
    BY <1>2, <1>7, <2>2, <2>3, TurnIsAtomic DEF Drop, maybe_stop_enforcing
  <2>5. AH!DropStep(s)
    BY <1>7, <2>2, <2>3, <2>4, SameTokens
    DEF Drop, NotRecorded, PublishedValues, AH!DropStep, AH!TakeTurn, cacheVars, exploreVars, AH!exploreVars
  <2>6. AH!artifact_response_for(s) = artifact_response_for(s)
    BY <2>2 DEF NotRecorded, AH!artifact_response_for, artifact_response_for, AH!NoStatus, NoStatus
  <2>7. AtomicService(r, s, artifact_response_for(s)) /\ artifact_response_for(s) \in Answers
    BY <1>1, <1>2, <2>2, <2>5, <2>6, AnswersAreAnswers DEF AtomicService
  <2> QED
    BY <1>7, <2>7, ServiceIsAtomic DEF Drop, Return
<1>8. CASE Answer(r)
  <2>1. Progress(r) /\ pc[r] = "answered"
    BY <1>8 DEF Answer, At, CommitInv
  <2>2. /\ TurnTaken(s) /\ (r \in parked \/ ~AH!IsRetry(s))
        /\ presented[r] = AH!Granted(s) /\ ~is_drop(presented[r])
        /\ seen_base_steps = committed.seen_base_steps \cup {s}
    BY <2>1 DEF Progress, Serving
  <2> PICK status \in Statuses : ServedBy(r, status)
    BY <2>1 DEF Progress
  <2>3. PublishedValues'
    BY <1>8, ReleasedFields DEF Answer, Return
  <2>4. AH!TakeTurn(s, TRUE)
    BY <1>2, <1>8, <2>2, <2>3, TurnIsAtomic DEF Answer, maybe_stop_enforcing
  <2>5. AH!Forward(s, status)
    BY <1>8, <2>2, <2>3, <2>4, SameTokens, SameVerdict
    DEF Answer, ServedBy, Recorded, PublishedValues, AH!Forward, AH!TakeTurn, cacheVars, exploreVars,
        AH!exploreVars
  <2>6. status \in Answers /\ response_cache[s] = status
    BY DEF Answers, ServedBy
  <2>7. AtomicService(r, s, status)
    BY <2>2, <2>5 DEF AtomicService
  <2> QED
    BY <1>8, <2>6, <2>7, ServiceIsAtomic DEF Answer, Return
<1>9. CASE AnswerTimeout(r)
  <2>1. Progress(r) /\ pc[r] = "raised"
    BY <1>9 DEF AnswerTimeout, At, CommitInv
  <2>2. /\ TurnTaken(s) /\ (r \in parked \/ ~AH!IsRetry(s)) /\ TimedOut(r)
        /\ presented[r] = AH!Granted(s) /\ ~is_drop(presented[r])
        /\ seen_base_steps = committed.seen_base_steps \cup {s}
    BY <2>1 DEF Progress, Serving
  <2>3. PublishedValues'
    BY <1>9, ReleasedFields DEF AnswerTimeout, Return
  <2>4. AH!TakeTurn(s, FALSE)
    BY <1>2, <1>9, <2>2, <2>3, TurnIsAtomic DEF AnswerTimeout, simVars, schedVars
  <2>5. AH!ForwardFails(s)
    BY <1>9, <2>2, <2>3, <2>4, SameTokens
    DEF AnswerTimeout, TimedOut, Recorded, PublishedValues, AH!ForwardFails, AH!TakeTurn,
        simVars, schedVars, cacheVars, exploreVars, AH!exploreVars
  <2>6. 408 \in Answers
    BY DEF Answers
  <2>7. AtomicService(r, s, 408)
    BY <2>2, <2>5 DEF AtomicService
  <2> QED
    BY <1>9, <2>6, <2>7, ServiceIsAtomic DEF AnswerTimeout, Return
<1> QED
  BY <1>3, <1>4, <1>5, <1>6, <1>7, <1>8, <1>9

LEMMA StepsAreAtomic ==
  ASSUME LockInv, TypeInv, CommitInv, [Next]_vars
  PROVE  [AtomicStep]_<<AH!simVars, answer>>
<1>1. ASSUME NEW r \in Slots, Handler(r)
      PROVE  AtomicStep \/ UNCHANGED <<AH!simVars, answer>>
  BY <1>1, HeldLockShowsNothing, AnswersAreAtomic DEF Handler
<1>2. CASE ServePost
  <2>1. Published /\ Published' /\ UNCHANGED answer
    BY <1>2, ReleasedFields DEF ServePost, CommitInv, handlerVars
  <2>2. \E kind \in Reports : AH!execution_done(kind)
    BY <1>2, <2>1, PublishedEnd DEF ServePost
  <2> QED
    BY <2>1, <2>2 DEF AtomicStep
<1>3. CASE WatchdogTick
  <2>1. PublishedValues /\ PublishedValues' /\ UNCHANGED answer
    BY <1>3, ReleasedFields, PublishedFields DEF WatchdogTick, CommitInv, handlerVars
  <2>2. AH!WatchdogFires
    BY <1>3, <2>1
    DEF WatchdogTick, WatchdogFires, watchdog_tick, is_prefix_complete, PublishedValues,
        AH!WatchdogFires, AH!watchdog_tick, AH!is_prefix_complete,
        exploreVars, AH!exploreVars, cacheVars, AH!cacheVars
  <2> QED
    BY <2>1, <2>2 DEF AtomicStep
<1>4. CASE GatherWindowEnds
  <2>1. /\ free_deadline = "open" /\ UNCHANGED <<answer, forced_prefix, exploreVars>>
        /\ committed' = [committed EXCEPT !.free_deadline = "passed"]
    BY <1>4 DEF GatherWindowEnds, GatherWindowCloses, GatherExpires, handlerVars
  <2>2. committed.free_deadline = "open"
    BY <2>1, WindowIsCommon
  <2>3. /\ UNCHANGED <<committed.enforcing, committed.forced_pos, committed.free_waiting,
                       committed.current_result, committed.trace, committed.seen_base_steps,
                       committed.response_cache, committed.stable_response_cache>>
        /\ committed.free_deadline' = "passed"
    BY <2>1 DEF CommitInv, PublishedIsARecord
  <2>4. AH!GatherWindowCloses
    BY <2>1, <2>2, <2>3
    DEF AH!GatherWindowCloses, AH!GatherExpires, exploreVars, AH!exploreVars, AH!cacheVars
  <2> QED
    BY <2>1, <2>4 DEF AtomicStep
<1>5. CASE UNCHANGED vars
  BY <1>5 DEF vars, simVars, schedVars, exploreVars, cacheVars, handlerVars,
              AH!simVars, AH!schedVars, AH!exploreVars, AH!cacheVars
<1> QED
  BY <1>1, <1>2, <1>3, <1>4, <1>5 DEF Next

LEMMA InitialCommit == Init => CommitInv /\ AH!SimInit
<1> SUFFICES ASSUME Init PROVE CommitInv /\ AH!SimInit
  OBVIOUS
<1>1. Published /\ PublishedIsARecord
  BY DEF Init, Published, PublishedIsARecord, Snapshot
<1>2. CommitInv
  BY <1>1, LockAssumption DEF Init, CommitInv
<1>3. AH!SimInit
  BY <1>1, PublishedFields
  DEF Init, SimInit, SchedInit, PublishedValues, AH!SimInit, AH!SchedInit,
      EmptyCache, AH!EmptyCache, NoStatus, AH!NoStatus
<1> QED
  BY <1>2, <1>3

(* The handlers as they are written, with the lock, the waits and the flags,
   implement the handlers of SimulatorHandlers, for any number of requests and
   any workload: what holds of the one-step handlers in a session holds of
   proxy.  with state.cond in proxy, cond.wait in wait_for_turn. *)
THEOREM ProxyIsAtomic == Spec => HandlersAreAtomic
<1>1. Init => CommitInv /\ AH!SimInit
  BY InitialCommit
<1>2. LockInv /\ TypeInv /\ CommitInv /\ [Next]_vars => CommitInv'
  BY StepKeepsCommit
<1>3. LockInv /\ TypeInv /\ CommitInv /\ [Next]_vars => [AtomicStep]_<<AH!simVars, answer>>
  BY StepsAreAtomic
<1> QED
  BY <1>1, <1>2, <1>3, LockKept, TypesKept, PTL DEF Spec, HandlersAreAtomic
=============================================================================
