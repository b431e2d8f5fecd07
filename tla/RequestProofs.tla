----------------------------- MODULE RequestProofs -----------------------------
(***************************************************************************)
(* What the requests of a session do to a run, for every value of the      *)
(* constants: that no one waits for a contender that is not there, and no  *)
(* free run is stuck with everyone asleep (NoGhostContender, FreeRunsGoOn, *)
(* whatever goes wrong), and that a run executes every step once           *)
(* (OneTurnPerStep, DroppedNeverReachesBackend and EachRequestIsAStep, as  *)
(* far as the clients allow).                                              *)
(***************************************************************************)
EXTENDS SessionProofs

----------------------------------------------------------------------------
(* What a pass of a handler does *)

Answered_by(r) == \E status \in Nat : Reply(r, status)

\* It executes the step, unless the step is dropped.
TurnPass(r) ==
  /\ AtScheduler(r)
  /\ \E stops \in BOOLEAN : TakeTurn(StepOf(r), stops)
  /\ trace' = Append(trace, Granted(StepOf(r)))
  /\ seen_base_steps' = seen_base_steps \cup {StepOf(r)}
  /\ Answered_by(r)
  /\ \/ UNCHANGED effects
     \/ ~is_drop(Granted(StepOf(r))) /\ effects' = Append(effects, StepOf(r))
  /\ late' = late \/ "late" \in Faults

\* It answers a repeated step.
RetryPass(r) ==
  /\ r \in arrived
  /\ StepOf(r) \in seen_base_steps
  /\ Answered_by(r)
  /\ UNCHANGED <<simVars, backendVars>>

\* It turns a step of a failed run away.
RefusePass(r) ==
  /\ current_result # "SUCCESS"
  /\ Answered_by(r)
  /\ UNCHANGED <<schedVars, trace, seen_base_steps, backendVars>>

LEMMA PassCases ==
  ASSUME TypeOK, NEW r \in arrived \cup parked, HandlerPass(r)
  PROVE  /\ TurnPass(r) \/ RetryPass(r) \/ RefusePass(r) \/ KeepWaiting(r)
         /\ UNCHANGED <<mainVars, posts>>
<1> DEFINE s == StepOf(r)
<1>1. s \in Steps
  BY StepOfIsStep DEF TypeOK
<1>2. artifact_response_for(s) \in Nat /\ RetryAnswer(s) \in Nat
  BY <1>1, AnswerTypes DEF TypeOK
<1>3. Statuses \subseteq Nat /\ 503 \in Nat /\ 408 \in Nat
  BY HandlersAssumption
<1>4. ServeRetry(r) => RetryPass(r)
  BY <1>2 DEF ServeRetry, IsRetry, RetryPass, Answered_by
<1>5. RefuseRequest(r) => RefusePass(r)
  BY <1>3 DEF RefuseRequest, Refuse, RefusePass, Answered_by
<1>6. DropRequest(r) => TurnPass(r)
  BY <1>2 DEF DropRequest, DropStep, TurnPass, Answered_by, backendVars
<1>7. ForwardRequest(r) => TurnPass(r)
  BY <1>3 DEF ForwardRequest, Forward, TurnPass, Answered_by
<1>8. ForwardTimesOut(r) => TurnPass(r)
  BY <1>3 DEF ForwardTimesOut, ForwardFails, TurnPass, Answered_by
<1> QED
  BY <1>4, <1>5, <1>6, <1>7, <1>8 DEF HandlerPass

\* An answer moves the thread that hears it on, or ends it.
LEMMA AfterAdvances ==
  ASSUME NEW t \in Threads, NEW c \in ClientStates, c.phase = "waiting", NEW status \in Nat
  PROVE  LET next == After(t, c, status) IN
         \/ next.phase = "ended" /\ next.pc = c.pc /\ next.try = c.try
         \/ next.phase = "waiting" /\ next.pc = c.pc /\ next.try = c.try + 1
         \/ next.phase = "waiting" /\ next.pc = c.pc + 1 /\ next.try = 1
<1>1. CASE status \in ContinueOn
  BY <1>1 DEF After, ClientStates
<1>2. CASE status \notin ContinueOn
  BY <1>2 DEF After, ClientStates
<1> QED
  BY <1>1, <1>2
----------------------------------------------------------------------------
(* No ghosts among the contenders *)

\* No request is newer than the thread that sent it, and a request that has
\* been put to sleep is not also on its way.
NotAhead(r) ==
  /\ r.run <= launch_no
  /\ r.run = launch_no => \/ r.pc < client[r.thread].pc
                          \/ r.pc = client[r.thread].pc /\ r.try <= client[r.thread].try

OrderInv ==
  /\ arrived \cap parked = {}
  /\ \A r \in arrived \cup parked : NotAhead(r)

GhostInv ==
  /\ OrderInv
  /\ enforcing => free_waiting = {}
  /\ NoGhostContender

LEMMA ReplyKeepsOrder ==
  ASSUME TypeOK, OrderInv, NEW r \in arrived \cup parked, Answered_by(r),
         UNCHANGED <<launch_no, main_pc>>
  PROVE  OrderInv' /\ parked' = parked \ {r}
<1> DEFINE t == r.thread
<1> PICK status \in Nat : Reply(r, status)
  BY DEF Answered_by
<1> DEFINE next == After(t, client[t], status)
<1>1. parked' = parked \ {r}
  BY DEF Reply
<1>2. CASE Waiting(t) /\ r = Current(t)
  <2>1. t \in Threads /\ client \in [Threads -> ClientStates]
    BY DEF TypeOK, RequestTypeOK, Requests
  <2>2. /\ client' = [client EXCEPT ![t] = next]
        /\ arrived' = IF next.phase = "waiting"
                        THEN (arrived \ {r}) \cup {RequestAt(launch_no, t, next)} ELSE arrived \ {r}
    BY <1>2 DEF Reply
  <2>3. client[t] \in ClientStates /\ client[t].phase = "waiting"
    BY <1>2, <2>1 DEF Waiting
  <2>4. \/ next.phase = "ended" /\ next.pc = client[t].pc /\ next.try = client[t].try
        \/ next.phase = "waiting" /\ next.pc = client[t].pc /\ next.try = client[t].try + 1
        \/ next.phase = "waiting" /\ next.pc = client[t].pc + 1 /\ next.try = 1
    BY <2>1, <2>3, AfterAdvances
  <2> HIDE DEF next
  <2>5. client'[t] = next /\ \A u \in Threads \ {t} : client'[u] = client[u]
    BY <2>1, <2>2
  <2>6. client[t].pc \in Nat /\ client[t].try \in Nat
    BY <2>3 DEF ClientStates
  <2>7. \A q \in arrived \cup parked : q.thread \in Threads /\ q.pc \in Nat /\ q.try \in Nat
    BY DEF TypeOK, RequestTypeOK, Requests
  <2>8. \A q \in arrived \cup parked : NotAhead(q)'
    <3> SUFFICES ASSUME NEW q \in arrived \cup parked PROVE NotAhead(q)'
      OBVIOUS
    <3>1. CASE q.thread = t
      BY <2>4, <2>5, <2>6, <2>7, <3>1 DEF OrderInv, NotAhead
    <3>2. CASE q.thread # t
      BY <2>5, <2>7, <3>2 DEF OrderInv, NotAhead
    <3> QED
      BY <3>1, <3>2
  <2>9. \A q : next.phase = "waiting" /\ q = RequestAt(launch_no, t, next)
                 => q \notin arrived \cup parked /\ NotAhead(q)'
    <3> SUFFICES ASSUME NEW q, next.phase = "waiting", q = RequestAt(launch_no, t, next)
                 PROVE  q \notin arrived \cup parked /\ NotAhead(q)'
      OBVIOUS
    <3>1. q.run = launch_no /\ q.thread = t /\ q.pc = next.pc /\ q.try = next.try
      BY DEF RequestAt
    <3>2. ~NotAhead(q)
      BY <2>4, <2>6, <3>1 DEF NotAhead
    <3>3. NotAhead(q)'
      BY <2>4, <2>5, <2>6, <3>1 DEF NotAhead, TypeOK
    <3> QED
      BY <3>2, <3>3 DEF OrderInv
  <2> QED
    BY <1>1, <2>2, <2>8, <2>9 DEF OrderInv
<1>3. CASE ~(Waiting(t) /\ r = Current(t))
  BY <1>1, <1>3 DEF Reply, OrderInv, NotAhead
<1> QED
  BY <1>1, <1>2, <1>3

\* A turn in free mode takes the step out of the contenders, and nothing else.
LEMMA PassKeepsContenders ==
  ASSUME TypeOK, GhostInv, NEW r \in arrived \cup parked, HandlerPass(r)
  PROVE  GhostInv'
<1> USE DEF GhostInv
<1>1. UNCHANGED <<launch_no, main_pc>>
  BY PassCases DEF mainVars
<1>2. CASE TurnPass(r)
  <2>1. OrderInv' /\ parked' = parked \ {r}
    BY <1>1, <1>2, ReplyKeepsOrder DEF TurnPass
  <2> PICK stops \in BOOLEAN : TakeTurn(StepOf(r), stops)
    BY <1>2 DEF TurnPass
  <2>2. CASE enforcing
    <3>1. free_waiting' = free_waiting
      BY <2>2 DEF TakeTurn, TakeForced, TakeFree, TakeUnexpected, MayGoFree
    <3> QED
      BY <2>1, <2>2, <3>1 DEF NoGhostContender
  <2>3. CASE ~enforcing
    <3>1. /\ free_waiting' = (free_waiting \cup {StepOf(r)}) \ {StepOf(r)}
          /\ enforcing' = enforcing
          /\ current_result = "SUCCESS"
      BY <2>3 DEF TakeTurn, TakeForced, TakeFree, TakeUnexpected, MayGoForced, MayGoUnexpected,
                  Expecting, Contenders, CanTakeTurn
    <3>2. \A s \in free_waiting' : \E q \in parked \ {r} : StepOf(q) = s
      BY <3>1 DEF NoGhostContender
    <3> QED
      BY <2>1, <2>3, <3>1, <3>2 DEF NoGhostContender, StepOf
  <2> QED
    BY <2>2, <2>3
<1>3. CASE RetryPass(r)
  <2>1. OrderInv' /\ parked' = parked
    BY <1>1, <1>3, ReplyKeepsOrder DEF RetryPass, OrderInv
  <2> QED
    BY <1>3, <2>1 DEF RetryPass, simVars, schedVars, NoGhostContender, StepOf
<1>4. CASE RefusePass(r)
  BY <1>1, <1>4, ReplyKeepsOrder DEF RefusePass, schedVars, NoGhostContender
<1>5. CASE KeepWaiting(r)
  <2>1. OrderInv'
    BY <1>1, <1>5 DEF KeepWaiting, OrderInv, NotAhead
  <2>2. /\ free_waiting' = IF enforcing THEN free_waiting ELSE free_waiting \cup {StepOf(r)}
        /\ UNCHANGED <<enforcing, current_result>>
        /\ parked' = parked \cup {r}
    BY <1>5 DEF KeepWaiting, WaitTurn, Wait, Contenders
  <2> QED
    BY <2>1, <2>2 DEF NoGhostContender, StepOf
<1> QED
  BY <1>2, <1>3, <1>4, <1>5, PassCases

\* A thread that sends again, or ends, has overtaken its old request.
LEMMA ClientStepKeepsOrder ==
  ASSUME TypeOK, OrderInv, NEW t \in Threads, GiveUp(t) \/ ClientCrash(t)
  PROVE  OrderInv'
<1>1. /\ client \in [Threads -> ClientStates]
      /\ \A u \in Threads : client[u].pc \in Nat /\ client[u].try \in Nat
      /\ \A q \in arrived \cup parked : q.thread \in Threads /\ q.pc \in Nat /\ q.try \in Nat
      /\ launch_no \in Nat
  BY DEF TypeOK, RequestTypeOK, Requests, ClientStates
<1>2. CASE GiveUp(t)
  <2> DEFINE c == client[t]
  <2> DEFINE next == IF c.try < MaxTries THEN [c EXCEPT !.try = c.try + 1]
                     ELSE [c EXCEPT !.phase = "ended", !.err = "TIMEOUT"]
  <2>1. /\ client' = [client EXCEPT ![t] = next]
        /\ arrived' = IF c.try < MaxTries THEN arrived \cup {RequestAt(launch_no, t, next)} ELSE arrived
        /\ UNCHANGED <<parked, launch_no>>
    BY <1>2 DEF GiveUp, mainVars
  <2>2. /\ next.pc = c.pc
        /\ next.try = IF c.try < MaxTries THEN c.try + 1 ELSE c.try
    <3>1. c \in ClientStates
      BY <1>1
    <3> HIDE DEF c
    <3> QED
      BY <3>1 DEF ClientStates
  <2> HIDE DEF next
  <2>3. client'[t] = next /\ \A u \in Threads \ {t} : client'[u] = client[u]
    BY <1>1, <2>1
  <2>4. \A q \in arrived \cup parked : NotAhead(q)'
    <3> SUFFICES ASSUME NEW q \in arrived \cup parked PROVE NotAhead(q)'
      OBVIOUS
    <3>1. CASE q.thread = t
      BY <1>1, <2>1, <2>2, <2>3, <3>1 DEF OrderInv, NotAhead
    <3>2. CASE q.thread # t
      BY <1>1, <2>1, <2>3, <3>2 DEF OrderInv, NotAhead
    <3> QED
      BY <3>1, <3>2
  <2>5. \A q : c.try < MaxTries /\ q = RequestAt(launch_no, t, next)
                 => q \notin arrived \cup parked /\ NotAhead(q)'
    <3> SUFFICES ASSUME NEW q, c.try < MaxTries, q = RequestAt(launch_no, t, next)
                 PROVE  q \notin arrived \cup parked /\ NotAhead(q)'
      OBVIOUS
    <3>1. q.run = launch_no /\ q.thread = t /\ q.pc = next.pc /\ q.try = next.try
      BY DEF RequestAt
    <3>2. ~NotAhead(q)
      BY <1>1, <2>2, <3>1 DEF NotAhead
    <3>3. NotAhead(q)'
      BY <1>1, <2>1, <2>2, <2>3, <3>1 DEF NotAhead
    <3> QED
      BY <3>2, <3>3 DEF OrderInv
  <2> HIDE DEF c
  <2> QED
    BY <2>1, <2>4, <2>5 DEF OrderInv
<1>3. CASE ClientCrash(t)
  <2>1. UNCHANGED <<arrived, parked, launch_no>>
    BY <1>3 DEF ClientCrash, mainVars
  <2>2. \A u \in Threads : client'[u].pc = client[u].pc /\ client'[u].try = client[u].try
    BY <1>1, <1>3 DEF ClientCrash, ClientStates
  <2> QED
    BY <1>1, <2>1, <2>2 DEF OrderInv, NotAhead
<1> QED
  BY <1>2, <1>3

LEMMA LaunchKeepsOrder ==
  ASSUME TypeOK, OrderInv, LaunchClients
  PROVE  OrderInv'
<1>1. /\ \A q \in arrived \cup parked : q.run \in Nat /\ q.run < launch_no'
      /\ launch_no' = launch_no + 1 /\ launch_no \in Nat
      /\ UNCHANGED parked
  BY DEF TypeOK, RequestTypeOK, Requests, OrderInv, NotAhead, LaunchClients
<1>2. \A q \in arrived' \ arrived : \E t \in Threads :
        q.run = launch_no' /\ q.thread = t /\ q.pc = 1 /\ q.try = 1
  BY DEF LaunchClients, RequestAt, Idle
<1>3. \A t \in Threads : client'[t].pc = 1 /\ client'[t].try = 1
  BY DEF LaunchClients, Idle
<1>4. \A q \in arrived' \cup parked' : NotAhead(q)'
  BY <1>1, <1>2, <1>3 DEF NotAhead
<1> QED
  BY <1>1, <1>2, <1>4 DEF OrderInv

LEMMA StepKeepsContenders ==
  ASSUME TypeOK, GhostInv, [Next]_vars
  PROVE  GhostInv'
<1>1. CASE LaunchClients
  BY <1>1, LaunchKeepsOrder DEF GhostInv, LaunchClients, simVars, schedVars, NoGhostContender, StepOf
<1>2. CASE ClientStep
  <2>1. OrderInv'
    BY <1>2, ClientStepKeepsOrder DEF ClientStep, GhostInv
  <2>2. UNCHANGED <<free_waiting, enforcing, current_result, parked>>
    BY <1>2 DEF ClientStep, GiveUp, ClientCrash, simVars, schedVars
  <2> QED
    BY <2>1, <2>2 DEF GhostInv, NoGhostContender, StepOf
<1>3. CASE \E p \in posts : ServePost(p)
  <2> PICK p \in posts : ServePost(p)
    BY <1>3
  <2>1. OrderInv'
    BY DEF ServePost, requestVars, GhostInv, OrderInv, NotAhead
  <2>2. \E q : start_run(q)
    BY Zenon DEF ServePost, execution_done, pick_next_prefix_or_done, ExplorationEnds
  <2>3. free_waiting' = {}
    BY <2>2 DEF start_run
  <2> QED
    BY <2>1, <2>3 DEF GhostInv, NoGhostContender
<1>4. CASE \E r \in arrived \cup parked : HandlerPass(r)
  BY <1>4, PassKeepsContenders
<1>5. CASE /\ UNCHANGED <<free_waiting, enforcing, requestVars, launch_no>>
           /\ current_result' = "SUCCESS" => current_result = "SUCCESS"
  BY <1>5 DEF GhostInv, OrderInv, NotAhead, NoGhostContender, StepOf, requestVars
<1>6. PollDone \/ ClientsExit \/ PostTimesOut \/ GatherWindowEnds \/ WatchdogTick
        \/ (\E s \in late : LateEffect(s)) \/ Finished \/ UNCHANGED vars
        => /\ UNCHANGED <<free_waiting, enforcing, requestVars, launch_no>>
           /\ current_result' = "SUCCESS" => current_result = "SUCCESS"
  BY DEF PollDone, ClientsExit, PostTimesOut, GatherWindowEnds, GatherWindowCloses, GatherExpires,
         WatchdogTick, WatchdogFires, watchdog_tick, LateEffect, Finished,
         vars, simVars, schedVars, mainVars
<1> QED
  BY <1>1, <1>2, <1>3, <1>4, <1>5, <1>6 DEF Next, MainStep

(* In a free run nobody waits for a step whose request is not asleep in the
   proxy, whatever times out, is repeated, crashes or is left over from an
   earlier run.  _free_waiting in wait_for_turn and start_run. *)
THEOREM NoGhosts == Spec => []NoGhostContender
<1>1. Init => GhostInv
  BY DEF Init, SimInit, SchedInit, GhostInv, OrderInv, NoGhostContender
<1>2. TypeOK /\ GhostInv /\ [Next]_vars => GhostInv'
  BY StepKeepsContenders
<1>3. GhostInv => NoGhostContender
  BY DEF GhostInv
<1> QED
  BY <1>1, <1>2, <1>3, TypeCorrect, PTL DEF Spec
----------------------------------------------------------------------------
(* Free runs go on *)

\* A window is there for a contender.
LEMMA WindowHasContender ==
  ASSUME TypeOK, free_deadline # "none" => free_waiting # {}, [Next]_vars
  PROVE  free_deadline' # "none" => free_waiting' # {}
<1>1. CASE \E p \in posts : ServePost(p)
  <2>1. \E q : start_run(q)
    BY <1>1, Zenon DEF ServePost, execution_done, pick_next_prefix_or_done, ExplorationEnds
  <2> QED
    BY <2>1 DEF start_run
<1>2. CASE \E r \in arrived \cup parked : HandlerPass(r)
  <2> PICK r \in arrived \cup parked : HandlerPass(r)
    BY <1>2
  <2>1. CASE TurnPass(r)
    BY <2>1 DEF TurnPass, TakeTurn, TakeForced, TakeFree, TakeUnexpected
  <2>2. CASE RetryPass(r) \/ RefusePass(r)
    BY <2>2 DEF RetryPass, RefusePass, simVars, schedVars
  <2>3. CASE KeepWaiting(r)
    BY <2>3 DEF KeepWaiting, WaitTurn, Wait, Contenders
  <2> QED
    BY <2>1, <2>2, <2>3, PassCases
<1>3. CASE GatherWindowEnds
  BY <1>3 DEF GatherWindowEnds, GatherWindowCloses, GatherExpires
<1>4. CASE UNCHANGED <<free_waiting, free_deadline>>
  BY <1>4
<1>5. LaunchClients \/ ClientStep \/ PollDone \/ ClientsExit \/ PostTimesOut \/ WatchdogTick
        \/ (\E s \in late : LateEffect(s)) \/ Finished \/ UNCHANGED vars
        => UNCHANGED <<free_waiting, free_deadline>>
  BY DEF LaunchClients, ClientStep, GiveUp, ClientCrash, PollDone, ClientsExit, PostTimesOut,
         WatchdogTick, WatchdogFires, watchdog_tick, LateEffect, Finished, vars, simVars, schedVars
<1> QED
  BY <1>1, <1>2, <1>3, <1>4, <1>5 DEF Next, MainStep

\* The smallest contender is asleep, and may go.
LEMMA SmallestMayGo ==
  ASSUME TypeOK, NoGhostContender, free_waiting # {},
         current_result = "SUCCESS", ~enforcing, free_deadline = "passed"
  PROVE  \E r \in parked : CanTakeTurn(StepOf(r))
<1>1. PICK s \in free_waiting : Smallest(s, Contenders(s))
  BY SmallestContender DEF TypeOK, SimTypeOK
<1>2. PICK r \in parked : StepOf(r) = s
  BY DEF NoGhostContender
<1> QED
  BY <1>1, <1>2 DEF CanTakeTurn, MayGoFree

(* No free run is stuck with everyone asleep, whatever goes wrong: when the
   gather window has passed, the smallest contender is there to take the turn.
   wait_for_turn, start_run. *)
THEOREM FreeRunsNeverStick == Spec => []FreeRunsGoOn
<1> DEFINE Inv == free_deadline # "none" => free_waiting # {}
<1>1. Init => Inv
  BY DEF Init, SimInit, SchedInit
<1>2. TypeOK /\ Inv /\ [Next]_vars => Inv'
  BY WindowHasContender
<1>3. TypeOK /\ NoGhostContender /\ Inv => FreeRunsGoOn
  BY SmallestMayGo DEF FreeRunsGoOn
<1> QED
  BY <1>1, <1>2, <1>3, TypeCorrect, NoGhosts, PTL DEF Spec
----------------------------------------------------------------------------
(* One turn per step *)

\* No client gives up on a request or dies while one is being served.
PatientClients == Faults \cap {"giveup", "crash"} = {}

\* No two threads send the same step: it names its client and thread
\* (X-Client-Id, X-Thread-Id), and names are not shared.
OwnSteps ==
  \A t, u \in Threads : \A i \in 1..Len(Program[t]), j \in 1..Len(Program[u]) :
    Program[t][i] = Program[u][j] => t = u

\* And no thread sends a step at two places of its program.
DistinctSteps ==
  \A t, u \in Threads : \A i \in 1..Len(Program[t]), j \in 1..Len(Program[u]) :
    Program[t][i] = Program[u][j] => t = u /\ i = j

\* The only requests there are, on their way or asleep, are those that some
\* thread waits for.
CurrentOnly == \A r \in arrived \cup parked : Waiting(r.thread) /\ r = Current(r.thread)

\* The steps remembered are those of the trace, each once, and those asleep
\* are not among them.
TurnInv ==
  /\ CurrentOnly
  /\ seen_base_steps = {trace[i].step : i \in 1..Len(trace)}
  /\ OneTurnPerStep
  /\ \A r \in parked : StepOf(r) \notin seen_base_steps

LEMMA ReplyKeepsCurrent ==
  ASSUME TypeOK, CurrentOnly, NEW r \in arrived \cup parked, Answered_by(r),
         UNCHANGED <<launch_no, main_pc>>
  PROVE  /\ CurrentOnly'
         /\ parked' = parked \ {r}
         /\ \A q \in parked' : q.thread # r.thread
<1> DEFINE t == r.thread
<1> PICK status \in Nat : Reply(r, status)
  BY DEF Answered_by
<1> DEFINE next == After(t, client[t], status)
<1>1. Waiting(t) /\ r = Current(t)
  BY DEF CurrentOnly
<1>2. t \in Threads /\ client \in [Threads -> ClientStates]
  BY DEF TypeOK, RequestTypeOK, Requests
<1>3. /\ parked' = parked \ {r}
      /\ client' = [client EXCEPT ![t] = next]
      /\ arrived' = IF next.phase = "waiting"
                      THEN (arrived \ {r}) \cup {RequestAt(launch_no, t, next)} ELSE arrived \ {r}
  BY <1>1 DEF Reply
<1> HIDE DEF next
<1>4. client'[t] = next /\ \A u \in Threads \ {t} : client'[u] = client[u]
  BY <1>2, <1>3
<1>5. \A q \in (arrived \cup parked) \ {r} : q.thread \in Threads \ {t}
  BY <1>1 DEF CurrentOnly, TypeOK, RequestTypeOK, Requests
<1>6. \A q \in (arrived \cup parked) \ {r} : Waiting(q.thread)' /\ q = Current(q.thread)'
  BY <1>4, <1>5 DEF CurrentOnly, Waiting, Current, RequestAt
<1>7. \A q : next.phase = "waiting" /\ q = RequestAt(launch_no, t, next)
               => Waiting(q.thread)' /\ q = Current(q.thread)'
  BY <1>1, <1>4 DEF Waiting, Current, RequestAt
<1>8. CurrentOnly'
  BY <1>3, <1>6, <1>7 DEF CurrentOnly
<1> QED
  BY <1>3, <1>5, <1>8

LEMMA PassKeepsTurns ==
  ASSUME OwnSteps, TypeOK, TurnInv, NEW r \in arrived \cup parked, HandlerPass(r)
  PROVE  TurnInv'
<1> USE DEF TurnInv
<1>1. UNCHANGED <<launch_no, main_pc>>
  BY PassCases DEF mainVars
<1>2. CASE TurnPass(r)
  <2> DEFINE s == StepOf(r)
  <2>1. CurrentOnly' /\ parked' = parked \ {r} /\ \A q \in parked' : q.thread # r.thread
    BY <1>1, <1>2, ReplyKeepsCurrent DEF TurnPass
  <2>2. s \in Steps /\ s \notin seen_base_steps
    BY <1>2, StepOfIsStep DEF TurnPass, AtScheduler, IsRetry, TypeOK
  <2>3. Granted(s) \in Tokens /\ Granted(s).step = s
    BY <1>2, <2>2, GrantedIsToken, GrantedStep DEF TurnPass, TakeTurn, TypeOK, SimTypeOK
  <2>4. /\ trace \in Seq(Tokens)
        /\ trace' = Append(trace, Granted(s))
        /\ seen_base_steps' = seen_base_steps \cup {s}
    BY <1>2 DEF TurnPass, TypeOK, SimTypeOK, Schedules
  <2>5. \A q \in parked' : StepOf(q) # s
    <3> SUFFICES ASSUME NEW q \in parked' PROVE StepOf(q) # s
      OBVIOUS
    <3>1. q \in Requests /\ r \in Requests /\ q.thread # r.thread
      BY <2>1 DEF TypeOK, RequestTypeOK
    <3> QED
      BY <3>1 DEF Requests, StepOf, OwnSteps
  <2> HIDE DEF s
  <2>6. /\ Len(trace') = Len(trace) + 1 /\ Len(trace) \in Nat
        /\ \A i \in 1..Len(trace) : trace'[i] = trace[i]
        /\ trace'[Len(trace) + 1].step = s
    BY <2>3, <2>4
  <2>7. seen_base_steps' = {trace'[i].step : i \in 1..Len(trace')}
    BY <2>4, <2>6
  <2>8. OneTurnPerStep'
    BY <2>2, <2>6 DEF OneTurnPerStep
  <2>9. \A q \in parked' : StepOf(q) \notin seen_base_steps'
    BY <2>1, <2>4, <2>5
  <2> QED
    BY <2>1, <2>7, <2>8, <2>9 DEF StepOf
<1>3. CASE RetryPass(r) \/ RefusePass(r)
  <2>1. CurrentOnly' /\ parked' \subseteq parked
    BY <1>1, <1>3, ReplyKeepsCurrent DEF RetryPass, RefusePass
  <2>2. UNCHANGED <<trace, seen_base_steps>>
    BY <1>3 DEF RetryPass, RefusePass, simVars, cacheVars
  <2> QED
    BY <2>1, <2>2 DEF OneTurnPerStep, StepOf
<1>4. CASE KeepWaiting(r)
  <2>1. /\ UNCHANGED <<trace, seen_base_steps, client>>
        /\ arrived' \cup parked' = arrived \cup parked
        /\ parked' = parked \cup {r}
        /\ StepOf(r) \notin seen_base_steps
    BY <1>4 DEF KeepWaiting, WaitTurn, cacheVars, AtScheduler, IsRetry
  <2> QED
    BY <1>1, <2>1 DEF CurrentOnly, Waiting, Current, OneTurnPerStep, StepOf
<1> QED
  BY <1>2, <1>3, <1>4, PassCases

LEMMA StepKeepsTurns ==
  ASSUME PatientClients, OwnSteps, TypeOK, TurnInv, [Next]_vars
  PROVE  TurnInv'
<1> USE DEF TurnInv
<1>1. CASE \E r \in arrived \cup parked : HandlerPass(r)
  BY <1>1, PassKeepsTurns
<1>2. CASE LaunchClients
  <2>1. main_pc = "poll" /\ arrived = {} /\ parked = {}
    BY <1>2 DEF LaunchClients, CurrentOnly, Waiting
  <2>2. CurrentOnly'
    BY <1>2, <2>1 DEF LaunchClients, CurrentOnly, Waiting, Current, RequestAt, Idle
  <2> QED
    BY <1>2, <2>1, <2>2 DEF LaunchClients, simVars, cacheVars, OneTurnPerStep
<1>3. CASE ClientsExit
  <2>1. arrived = {} /\ parked = {}
    BY <1>3 DEF ClientsExit, AllEnded, CurrentOnly, Waiting, TypeOK, RequestTypeOK, Requests
  <2> QED
    BY <1>3, <2>1 DEF ClientsExit, requestVars, simVars, cacheVars, OneTurnPerStep, CurrentOnly
<1>4. CASE \E p \in posts : ServePost(p)
  <2> PICK p \in posts : ServePost(p)
    BY <1>4
  <2>1. trace' = <<>> /\ seen_base_steps' = {}
    BY DEF ServePost, execution_done, _reset_for_next_run
  <2>2. CurrentOnly'
    BY DEF ServePost, requestVars, CurrentOnly, Waiting, Current
  <2> QED
    BY <2>1, <2>2 DEF OneTurnPerStep
<1>5. CASE /\ UNCHANGED <<trace, seen_base_steps, requestVars, launch_no>>
           /\ main_pc = "running" => UNCHANGED main_pc
  BY <1>5 DEF CurrentOnly, Waiting, Current, OneTurnPerStep, StepOf, requestVars
<1>6. ~ClientStep
  BY DEF PatientClients, ClientStep, GiveUp, ClientCrash, Fault
<1>7. PollDone \/ PostTimesOut \/ GatherWindowEnds \/ WatchdogTick
        \/ (\E s \in late : LateEffect(s)) \/ Finished \/ UNCHANGED vars
        => /\ UNCHANGED <<trace, seen_base_steps, requestVars, launch_no>>
           /\ main_pc = "running" => UNCHANGED main_pc
  BY DEF PollDone, PostTimesOut, GatherWindowEnds, GatherWindowCloses, GatherExpires,
         WatchdogTick, WatchdogFires, watchdog_tick, LateEffect, Finished,
         vars, simVars, schedVars, cacheVars, mainVars
<1> QED
  BY <1>1, <1>2, <1>3, <1>4, <1>5, <1>6, <1>7 DEF Next, MainStep

LEMMA TurnsKept ==
  ASSUME PatientClients, OwnSteps
  PROVE  Spec => []TurnInv
<1>1. Init => TurnInv
  BY DEF Init, SimInit, TurnInv, CurrentOnly, OneTurnPerStep
<1>2. TypeOK /\ TurnInv /\ [Next]_vars => TurnInv'
  BY StepKeepsTurns
<1> QED
  BY <1>1, <1>2, TypeCorrect, PTL DEF Spec

(* A run executes every step once, however often its client repeats the request
   after an answer: as long as clients wait for their answers, and do not share
   steps.  The retry branch of proxy; posts and polls may fail, LocalStack may be
   out of reach, and the watchdog may fire early. *)
THEOREM StepsHaveOneTurn ==
  ASSUME PatientClients, OwnSteps
  PROVE  Spec => []OneTurnPerStep
<1>1. TurnInv => OneTurnPerStep
  BY DEF TurnInv
<1> QED
  BY <1>1, TurnsKept, PTL
----------------------------------------------------------------------------
(* What LocalStack executes *)

(* As long as clients wait for their answers, LocalStack is changed for no request
   of an earlier run, since main.py waits for all clients and each of them has
   had its answers by then.  run_client_streaming, and the whole of proxy. *)
THEOREM RunsBeginClean ==
  ASSUME PatientClients, OwnSteps
  PROVE  Spec => CleanBaseline
<1> DEFINE Clean == \A r \in (arrived \cup parked) \ (arrived' \cup parked') :
                      Len(effects') > Len(effects) => r.run = launch_no
<1>1. TurnInv => \A r \in arrived \cup parked : r.run = launch_no
  BY DEF TurnInv, CurrentOnly, Current, RequestAt
<1>2. TurnInv => Clean
  BY <1>1
<1>3. Spec => [][Clean]_vars
  BY <1>2, TurnsKept, PTL DEF Spec
<1> QED
  BY <1>3 DEF CleanBaseline

\* Every effect is that of a step the trace has without a DROP marker.
EffectInv ==
  /\ late = {}
  /\ \A k \in 1..Len(effects) :
       \E i \in 1..Len(trace) : trace[i].step = effects[k] /\ ~is_drop(trace[i])

LEMMA StepKeepsEffects ==
  ASSUME "late" \notin Faults, TypeOK, EffectInv, [Next]_vars
  PROVE  EffectInv'
<1> USE DEF EffectInv
<1>1. CASE \E r \in arrived \cup parked : TurnPass(r)
  <2> PICK r \in arrived \cup parked : TurnPass(r)
    BY <1>1
  <2> DEFINE s == StepOf(r)
  <2>1. s \in Steps
    BY StepOfIsStep DEF TypeOK
  <2>2. Granted(s) \in Tokens /\ Granted(s).step = s
    BY <2>1, GrantedIsToken, GrantedStep DEF TurnPass, TakeTurn, TypeOK, SimTypeOK
  <2>3. /\ trace \in Seq(Tokens) /\ effects \in Seq(Steps)
        /\ trace' = Append(trace, Granted(s))
        /\ effects' = effects \/ (~is_drop(Granted(s)) /\ effects' = Append(effects, s))
        /\ late' = {}
    BY DEF TurnPass, TypeOK, SimTypeOK, Schedules
  <2> HIDE DEF s
  <2>4. /\ Len(trace') = Len(trace) + 1 /\ Len(trace) \in Nat
        /\ trace'[Len(trace) + 1] = Granted(s)
        /\ \A i \in 1..Len(trace) : trace'[i] = trace[i]
    BY <2>2, <2>3
  <2>5. \A k \in 1..Len(effects) :
          \E i \in 1..Len(trace') : trace'[i].step = effects[k] /\ ~is_drop(trace'[i])
    BY <2>4 DEF is_drop
  <2>6. CASE effects' = effects
    BY <2>3, <2>5, <2>6
  <2>7. CASE ~is_drop(Granted(s)) /\ effects' = Append(effects, s)
    <3>1. /\ Len(effects') = Len(effects) + 1 /\ Len(effects) \in Nat
          /\ effects'[Len(effects) + 1] = s
          /\ \A k \in 1..Len(effects) : effects'[k] = effects[k]
      BY <2>1, <2>3, <2>7
    <3>2. /\ Len(trace) + 1 \in 1..Len(trace')
          /\ trace'[Len(trace) + 1].step = s /\ ~is_drop(trace'[Len(trace) + 1])
      BY <2>2, <2>4, <2>7
    <3>3. \A k \in 1..Len(effects') : k \in 1..Len(effects) \/ k = Len(effects) + 1
      BY <3>1
    <3>4. ASSUME NEW k \in 1..Len(effects')
          PROVE  \E i \in 1..Len(trace') : trace'[i].step = effects'[k] /\ ~is_drop(trace'[i])
      <4>1. CASE k \in 1..Len(effects)
        <5>1. effects'[k] = effects[k]
          BY <3>1, <4>1
        <5>2. PICK i \in 1..Len(trace') : trace'[i].step = effects[k] /\ ~is_drop(trace'[i])
          BY <2>5, <4>1
        <5> QED
          BY <5>1, <5>2
      <4>2. CASE k = Len(effects) + 1
        BY <3>1, <3>2, <4>2
      <4> QED
        BY <3>3, <4>1, <4>2
    <3> QED
      BY <2>3, <3>4 DEF is_drop
  <2> QED
    BY <2>3, <2>6, <2>7
<1>2. CASE UNCHANGED <<trace, effects, late>>
  BY <1>2
<1>3. CASE \E p \in posts : ServePost(p)
  BY <1>3 DEF ServePost
<1>4. CASE \E r \in arrived \cup parked : HandlerPass(r)
  <2> PICK r \in arrived \cup parked : HandlerPass(r)
    BY <1>4
  <2>1. RetryPass(r) \/ RefusePass(r) \/ KeepWaiting(r) => UNCHANGED <<trace, effects, late>>
    BY DEF RetryPass, RefusePass, KeepWaiting, WaitTurn, backendVars, simVars
  <2> QED
    BY <1>1, <1>2, <2>1, PassCases
<1>5. MainStep \/ PostTimesOut \/ ClientStep \/ GatherWindowEnds \/ WatchdogTick \/ Finished
        \/ UNCHANGED vars => UNCHANGED <<trace, effects, late>>
  BY DEF MainStep, PollDone, LaunchClients, ClientsExit, PostTimesOut, ClientStep, GiveUp, ClientCrash,
         GatherWindowEnds, GatherWindowCloses, WatchdogTick, WatchdogFires, Finished,
         vars, simVars, backendVars
<1> QED
  BY <1>2, <1>3, <1>4, <1>5 DEF Next

(* A step that a run drops is not executed by LocalStack in that run, neither
   then nor when its client repeats the request.  Besides what the last theorem
   assumes, LocalStack must not execute a request after the proxy has given up
   on it.  The DROP and the retry branch of proxy, reset_localstack_quiet. *)
THEOREM DroppedStaysDropped ==
  ASSUME PatientClients, OwnSteps, "late" \notin Faults
  PROVE  Spec => []DroppedNeverReachesBackend
<1>1. Init => EffectInv
  BY DEF Init, EffectInv
<1>2. TypeOK /\ EffectInv /\ [Next]_vars => EffectInv'
  BY StepKeepsEffects
<1>3. TurnInv /\ EffectInv => DroppedNeverReachesBackend
  BY DEF TurnInv, OneTurnPerStep, EffectInv, DroppedNeverReachesBackend
<1> QED
  BY <1>1, <1>2, <1>3, TurnsKept, TypeCorrect, PTL DEF Spec
----------------------------------------------------------------------------
(* What the clients have been answered *)

\* The steps of the requests that have been answered in this run.
AnsweredSteps == {s \in Steps : \E t \in Threads : \E i \in Answered(t) : Program[t][i] = s}

\* While the clients run, no post is on its way, and as long as the run is a
\* success the trace is what the clients know of it; between two runs nothing
\* is left of the old one.
AnswerInv ==
  /\ main_pc = "running" =>
       posts = {} /\ (current_result = "SUCCESS" => seen_base_steps = AnsweredSteps)
  /\ main_pc = "notify" => \A p, q \in posts : p = q /\ p = Post(attempt, p.kind)
  /\ main_pc \in {"poll", "exit"} => posts = {} /\ seen_base_steps = {}
  /\ main_pc # "aborted"
  /\ \A t \in Threads : client[t].try > 0

\* Once a request has an answer, its step counts as answered.
LEMMA ReplyAnswers ==
  ASSUME TypeOK, NEW t \in Threads, client[t].phase = "waiting", client[t].try > 0,
         NEW status \in Nat, client' = [client EXCEPT ![t] = After(t, client[t], status)]
  PROVE  /\ Answered(t)' = 1..client[t].pc
         /\ Answered(t) \cup {client[t].pc} = 1..client[t].pc
         /\ \A u \in Threads \ {t} : Answered(u)' = Answered(u)
         /\ client'[t].try > 0
<1>1. client \in [Threads -> ClientStates] /\ client[t] \in ClientStates
      /\ client[t].pc \in 1..Len(Program[t])
  BY DEF TypeOK, RequestTypeOK
<1>2. client[t].pc \in Nat \ {0} /\ client[t].try \in Nat
  BY <1>1, SessionAssumption DEF ClientStates
<1> DEFINE next == After(t, client[t], status)
<1>3. \/ next.phase = "ended" /\ next.pc = client[t].pc /\ next.try = client[t].try
      \/ next.phase = "waiting" /\ next.pc = client[t].pc /\ next.try = client[t].try + 1
      \/ next.phase = "waiting" /\ next.pc = client[t].pc + 1 /\ next.try = 1
  BY <1>1, AfterAdvances
<1>4. client'[t] = next /\ \A u \in Threads \ {t} : client'[u] = client[u]
  BY <1>1
<1> HIDE DEF next
<1>5. Answered(t)' = 1..client[t].pc
  BY <1>2, <1>3, <1>4 DEF Answered
<1>6. Answered(t) \cup {client[t].pc} = 1..client[t].pc
  <2>1. Answered(t) = 1..client[t].pc \/ Answered(t) = 1..(client[t].pc - 1)
    BY DEF Answered
  <2>2. (1..(client[t].pc - 1)) \cup {client[t].pc} = 1..client[t].pc
    BY <1>2
  <2>3. client[t].pc \in 1..client[t].pc
    BY <1>2
  <2> QED
    BY <2>1, <2>2, <2>3
<1>7. client'[t].try > 0 /\ \A u \in Threads \ {t} : Answered(u)' = Answered(u)
  BY <1>2, <1>3, <1>4 DEF Answered
<1> QED
  BY <1>5, <1>6, <1>7

LEMMA PassKeepsAnswers ==
  ASSUME TypeOK, TurnInv, AnswerInv, NEW r \in arrived \cup parked, HandlerPass(r)
  PROVE  AnswerInv'
<1> DEFINE t == r.thread
<1> DEFINE s == StepOf(r)
<1>1. UNCHANGED <<main_pc, attempt, launch_no, posts>>
  BY PassCases DEF mainVars
<1>2. /\ main_pc = "running" /\ t \in Threads /\ client[t].phase = "waiting"
      /\ r.pc = client[t].pc /\ r = Current(t)
      /\ client \in [Threads -> ClientStates]
  BY DEF TurnInv, CurrentOnly, Waiting, Current, RequestAt, TypeOK, RequestTypeOK, Requests
<1>3. s \in Steps /\ s = Program[t][client[t].pc]
  BY <1>2, StepOfIsStep DEF StepOf, TypeOK
<1>4. SUFFICES /\ \A u \in Threads : client'[u].try > 0
               /\ current_result' = "SUCCESS" => seen_base_steps' = AnsweredSteps'
  BY <1>1, <1>2 DEF AnswerInv
<1>5. CASE KeepWaiting(r)
  BY <1>2, <1>5
  DEF KeepWaiting, WaitTurn, Wait, cacheVars, AnswerInv, AnsweredSteps, Answered
<1>6. CASE Answered_by(r)
  <2> PICK status \in Nat : Reply(r, status)
    BY <1>6 DEF Answered_by
  <2>1. client' = [client EXCEPT ![t] = After(t, client[t], status)]
    BY <1>2 DEF Reply, Waiting
  <2>2. /\ Answered(t)' = 1..client[t].pc
        /\ Answered(t) \cup {client[t].pc} = 1..client[t].pc
        /\ \A u \in Threads \ {t} : Answered(u)' = Answered(u)
        /\ client'[t].try > 0
    BY <1>2, <2>1, ReplyAnswers DEF AnswerInv
  <2>3. \A u \in Threads : client'[u].try > 0
    BY <1>2, <2>1, <2>2 DEF AnswerInv
  <2>4. AnsweredSteps' = AnsweredSteps \cup {s}
    <3> HIDE DEF s, t
    <3>1. \A u \in Threads, x \in Steps :
            (\E i \in Answered(u)' : Program[u][i] = x)
              <=> (\E i \in Answered(u) : Program[u][i] = x) \/ (u = t /\ x = s)
      BY <1>2, <1>3, <2>2
    <3> QED
      BY <1>2, <1>3, <3>1 DEF AnsweredSteps
  <2>5. CASE TurnPass(r)
    BY <1>2, <2>3, <2>4, <2>5 DEF TurnPass, TakeTurn, CanTakeTurn, AnswerInv
  <2>6. CASE RetryPass(r)
    BY <1>2, <2>3, <2>4, <2>6 DEF RetryPass, simVars, schedVars, cacheVars, AnswerInv
  <2>7. CASE RefusePass(r)
    BY <2>3, <2>7 DEF RefusePass, schedVars
  <2> QED
    BY <1>5, <2>5, <2>6, <2>7, PassCases
<1> QED
  BY <1>5, <1>6, PassCases DEF TurnPass, RetryPass, RefusePass

LEMMA StepKeepsAnswers ==
  ASSUME PatientClients, "post" \notin Faults, TypeOK, TurnInv, AnswerInv, [Next]_vars
  PROVE  AnswerInv'
<1> USE DEF AnswerInv
<1>1. CASE LaunchClients
  <2>1. /\ main_pc = "poll" /\ main_pc' = "running"
        /\ UNCHANGED <<posts, seen_base_steps>>
        /\ client' = [t \in Threads |-> [Idle EXCEPT !.phase = "waiting"]]
    BY <1>1 DEF LaunchClients, simVars, cacheVars
  <2>2. \A t \in Threads : client'[t].pc = 1 /\ client'[t].try = 1 /\ client'[t].phase = "waiting"
    BY <2>1 DEF Idle
  <2>3. \A t \in Threads : Answered(t)' = {}
    BY <2>2 DEF Answered
  <2>4. AnsweredSteps' = {}
    BY <2>3 DEF AnsweredSteps
  <2> QED
    BY <2>1, <2>2, <2>4
<1>2. CASE ClientsExit
  BY <1>2 DEF ClientsExit, Post, requestVars
<1>3. CASE \E p \in posts : ServePost(p)
  <2> PICK p \in posts : ServePost(p)
    BY <1>3
  <2>1. main_pc = "notify" /\ p = Post(attempt, p.kind) /\ posts = {p}
    BY DEF ServePost, SimulatorUp, TypeOK
  <2>2. main_pc' = "poll" /\ posts' = {} /\ UNCHANGED client
    BY <2>1 DEF ServePost, requestVars
  <2>3. seen_base_steps' = {}
    BY DEF ServePost, execution_done, _reset_for_next_run
  <2> QED
    BY <2>2, <2>3
<1>4. CASE \E r \in arrived \cup parked : HandlerPass(r)
  BY <1>4, PassKeepsAnswers
<1>5. CASE PollDone
  BY <1>5 DEF PollDone, simVars, cacheVars, requestVars
<1>6. CASE /\ UNCHANGED <<main_pc, posts, attempt, launch_no, client, seen_base_steps>>
           /\ current_result' = "SUCCESS" => current_result = "SUCCESS"
  BY <1>6 DEF AnsweredSteps, Answered, Post
<1>7. ~ClientStep /\ ~PostTimesOut
  BY DEF PatientClients, ClientStep, GiveUp, ClientCrash, PostTimesOut, Fault
<1>8. GatherWindowEnds \/ WatchdogTick \/ (\E s \in late : LateEffect(s)) \/ Finished \/ UNCHANGED vars
        => /\ UNCHANGED <<main_pc, posts, attempt, launch_no, client, seen_base_steps>>
           /\ current_result' = "SUCCESS" => current_result = "SUCCESS"
  BY DEF GatherWindowEnds, GatherWindowCloses, GatherExpires,
         WatchdogTick, WatchdogFires, watchdog_tick, LateEffect, Finished,
         vars, simVars, schedVars, cacheVars, mainVars, requestVars
<1> QED
  BY <1>1, <1>2, <1>3, <1>4, <1>5, <1>6, <1>7, <1>8 DEF Next, MainStep

\* Two sets of at most one element, which are empty together, are of one size.
LEMMA SameSizeUpToOne ==
  ASSUME NEW A, NEW B, \A x, y \in A : x = y, \A x, y \in B : x = y, A = {} <=> B = {}
  PROVE  Cardinality(A) = Cardinality(B)
<1>1. CASE A = {}
  BY <1>1
<1>2. CASE A # {}
  <2> PICK a \in A, b \in B : TRUE
    BY <1>2
  <2>1. A = {a} /\ B = {b}
    OBVIOUS
  <2> QED
    BY <2>1, FS_Singleton
<1> QED
  BY <1>1, <1>2

LEMMA AnswersCount ==
  ASSUME DistinctSteps, TypeOK, TurnInv, AnswerInv
  PROVE  EachRequestIsAStep
<1> SUFFICES ASSUME main_pc = "running", current_result = "SUCCESS", NEW s \in Steps
             PROVE  Cardinality({i \in 1..Len(trace) : trace[i].step = s})
                      = Cardinality({q \in UNION {{t} \X Answered(t) : t \in Threads} :
                                       Program[q[1]][q[2]] = s})
  BY DEF EachRequestIsAStep
<1> DEFINE A == {i \in 1..Len(trace) : trace[i].step = s}
<1> DEFINE B == {q \in UNION {{t} \X Answered(t) : t \in Threads} : Program[q[1]][q[2]] = s}
<1>1. \A x, y \in A : x = y
  BY DEF TurnInv, OneTurnPerStep
<1>2. \A q \in B : /\ q = <<q[1], q[2]>> /\ q[1] \in Threads /\ q[2] \in Answered(q[1])
                   /\ Program[q[1]][q[2]] = s
  OBVIOUS
<1>3. \A t \in Threads : Answered(t) \subseteq 1..Len(Program[t])
  <2> SUFFICES ASSUME NEW t \in Threads, NEW i \in Answered(t) PROVE i \in 1..Len(Program[t])
    OBVIOUS
  <2>1. client[t].pc \in 1..Len(Program[t]) /\ Len(Program[t]) \in Nat
    BY SessionAssumption DEF TypeOK, RequestTypeOK
  <2> QED
    BY <2>1 DEF Answered
<1>4. \A x, y \in B : x = y
  <2> SUFFICES ASSUME NEW x \in B, NEW y \in B PROVE x = y
    OBVIOUS
  <2>1. x[1] = y[1] /\ x[2] = y[2]
    BY <1>2, <1>3 DEF DistinctSteps
  <2> QED
    BY <1>2, <2>1
<1>5. A # {} <=> s \in AnsweredSteps
  BY DEF TurnInv, AnswerInv
<1>6. B # {} <=> s \in AnsweredSteps
  <2>1. ASSUME NEW t \in Threads, NEW i \in Answered(t), Program[t][i] = s
        PROVE  <<t, i>> \in B
    BY <2>1
  <2> HIDE DEF B
  <2> QED
    BY <1>2, <2>1 DEF AnsweredSteps
<1> HIDE DEF A, B
<1>7. Cardinality(A) = Cardinality(B)
  BY <1>1, <1>4, <1>5, <1>6, SameSizeUpToOne
<1> QED
  BY <1>7 DEF A, B

(* As long as a run is a success, its trace is what its clients have been
   answered: nothing they have an answer to is missing, nothing is there twice,
   and nothing is there they do not know of.  Nobody gives up waiting here,
   neither for a request nor for a post, and every request is a step of its own.
   The whole of proxy, _reset_for_next_run. *)
THEOREM TraceIsWhatClientsSaw ==
  ASSUME PatientClients, "post" \notin Faults, DistinctSteps
  PROVE  Spec => []EachRequestIsAStep
<1>1. OwnSteps
  BY DEF DistinctSteps, OwnSteps
<1>2. Init => AnswerInv
  BY DEF Init, SimInit, AnswerInv, Idle
<1>3. TypeOK /\ TurnInv /\ AnswerInv /\ [Next]_vars => AnswerInv'
  BY StepKeepsAnswers
<1>4. TypeOK /\ TurnInv /\ AnswerInv => EachRequestIsAStep
  BY AnswersCount
<1>5. Spec => []TurnInv
  BY <1>1, TurnsKept
<1> QED
  BY <1>2, <1>3, <1>4, <1>5, TypeCorrect, PTL DEF Spec
=============================================================================
