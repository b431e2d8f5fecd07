---------------------------- MODULE SessionProofs ----------------------------
(***************************************************************************)
(* Proofs about sessions, for every value of the constants: types, what an *)
(* exploration tries and counts, and that whatever happens to a session,   *)
(* it replays the schedules it set out to.                                 *)
(***************************************************************************)
EXTENDS SessionProperties, HandlerProofs

----------------------------------------------------------------------------
(* Types: requests *)

LEMMA StepOfIsStep ==
  ASSUME RequestTypeOK, NEW r \in arrived \cup parked
  PROVE  StepOf(r) \in Steps
BY SessionAssumption DEF RequestTypeOK, Requests, StepOf

LEMMA AfterTypes ==
  ASSUME NEW t \in Threads, NEW c \in ClientStates, c.pc \in 1..Len(Program[t]), NEW status \in Nat
  PROVE  /\ After(t, c, status) \in ClientStates
         /\ After(t, c, status).pc \in 1..Len(Program[t])
<1>1. Len(Program[t]) \in Nat
  BY SessionAssumption
<1>2. ErrorOf(c, status) \in Errors
  BY DEF ErrorOf, Errors, ClientStates
<1>3. CASE status \in ContinueOn /\ c.pc < Len(Program[t])
  <2>1. After(t, c, status) = [c EXCEPT !.pc = c.pc + 1, !.try = 1]
    BY <1>3 DEF After
  <2>2. c.pc + 1 \in 1..Len(Program[t]) /\ c.pc + 1 \in Nat
    BY <1>1, <1>3 DEF ClientStates
  <2>3. [c EXCEPT !.pc = c.pc + 1, !.try = 1] \in ClientStates
    BY <2>2 DEF ClientStates
  <2>4. After(t, c, status).pc = c.pc + 1
    BY <2>1 DEF ClientStates
  <2> QED
    BY <2>1, <2>2, <2>3, <2>4
<1>4. CASE status \in ContinueOn /\ ~(c.pc < Len(Program[t]))
  <2>1. After(t, c, status) = [c EXCEPT !.phase = "ended"]
    BY <1>4 DEF After
  <2> QED
    BY <2>1 DEF ClientStates
<1>5. CASE status \notin ContinueOn /\ status \in RetryOn /\ c.try < MaxTries
  <2>1. After(t, c, status) = [c EXCEPT !.try = c.try + 1]
    BY <1>5 DEF After
  <2> QED
    BY <2>1 DEF ClientStates
<1>6. CASE status \notin ContinueOn /\ ~(status \in RetryOn /\ c.try < MaxTries)
  <2>1. After(t, c, status) = [c EXCEPT !.phase = "ended", !.err = ErrorOf(c, status)]
    BY <1>6 DEF After
  <2> QED
    BY <1>2, <2>1 DEF ClientStates
<1> QED
  BY <1>3, <1>4, <1>5, <1>6

LEMMA RequestAtTypes ==
  ASSUME NEW n \in Nat, NEW t \in Threads, NEW c \in ClientStates, c.pc \in 1..Len(Program[t])
  PROVE  RequestAt(n, t, c) \in Requests
BY DEF RequestAt, Requests, ClientStates

LEMMA ReplyTypes ==
  ASSUME RequestTypeOK, launch_no \in Nat,
         NEW r \in arrived \cup parked, NEW status \in Nat, Reply(r, status)
  PROVE  RequestTypeOK'
<1> DEFINE t == r.thread
<1> DEFINE next == After(t, client[t], status)
<1>1. t \in Threads /\ client[t] \in ClientStates /\ client[t].pc \in 1..Len(Program[t])
  BY DEF RequestTypeOK, Requests
<1>2. next \in ClientStates /\ next.pc \in 1..Len(Program[t])
  BY <1>1, AfterTypes
<1>3. RequestAt(launch_no, t, next) \in Requests
  BY <1>1, <1>2, RequestAtTypes
<1>4. parked' = parked \ {r}
  BY DEF Reply
<1>5. CASE Waiting(t) /\ r = Current(t)
  <2>1. client' = [client EXCEPT ![t] = next]
    BY <1>5 DEF Reply
  <2>2. arrived' \subseteq arrived \cup {RequestAt(launch_no, t, next)}
    BY <1>5 DEF Reply
  <2> HIDE DEF next
  <2> QED
    BY <1>1, <1>2, <1>3, <1>4, <2>1, <2>2 DEF RequestTypeOK
<1>6. CASE ~(Waiting(t) /\ r = Current(t))
  BY <1>4, <1>6 DEF Reply, RequestTypeOK
<1> QED
  BY <1>5, <1>6

LEMMA InitTypes == Init => TypeOK
<1> SUFFICES ASSUME Init PROVE TypeOK
  OBVIOUS
<1>1. SimTypeOK
  BY SimInitTypes DEF Init
<1>2. RequestTypeOK
  BY SessionAssumption DEF Init, RequestTypeOK, Idle, ClientStates, Errors
<1> QED
  BY <1>1, <1>2, SessionAssumption DEF Init, TypeOK
----------------------------------------------------------------------------
(* Types: the steps of a session *)

LEMMA FaultTypes ==
  ASSUME faults_left \in Nat, NoFault \/ \E k : Fault(k)
  PROVE  faults_left' \in Nat
BY DEF NoFault, Fault

LEMMA MainStepTypes ==
  ASSUME TypeOK, MainStep
  PROVE  TypeOK'
<1> USE DEF TypeOK
<1>1. CASE PollDone
  <2>1. SimTypeOK'
    BY <1>1, SimUnchangedTypes DEF PollDone
  <2> QED
    BY <1>1, <2>1 DEF PollDone, RequestTypeOK, requestVars, backendVars, NoFault
<1>2. CASE LaunchClients
  <2>1. SimTypeOK'
    BY <1>2, SimUnchangedTypes DEF LaunchClients
  <2>2. faults_left' \in Nat
    BY <1>2, FaultTypes DEF LaunchClients
  <2>3. RequestTypeOK'
    <3>1. \A t \in Threads : RequestAt(launch_no + 1, t, Idle) \in Requests
      BY SessionAssumption DEF RequestAt, Requests, Idle
    <3>2. client' \in [Threads -> ClientStates] /\ \A t \in Threads : client'[t].pc = 1
      BY <1>2 DEF LaunchClients, Idle, ClientStates, Errors
    <3>3. \A t \in Threads : 1 \in 1..Len(Program[t])
      BY SessionAssumption
    <3> QED
      BY <1>2, <3>1, <3>2, <3>3 DEF LaunchClients, RequestTypeOK
  <2> QED
    BY <1>2, <2>1, <2>2, <2>3 DEF LaunchClients, backendVars, SimTypeOK
<1>3. CASE ClientsExit
  <2>1. SimTypeOK'
    BY <1>3, SimUnchangedTypes DEF ClientsExit
  <2>2. posts' \subseteq [run : Nat, no : Nat, kind : Kinds]
    <3>1. {client[t].err : t \in Threads} \subseteq Errors
      BY DEF RequestTypeOK, ClientStates
    <3>2. Verdicts({client[t].err : t \in Threads}) \subseteq Kinds
      BY <3>1 DEF Verdicts, Errors, Kinds
    <3>3. \A kind \in Kinds : Post(1, kind) \in [run : Nat, no : Nat, kind : Kinds]
      BY DEF Post
    <3> QED
      BY <1>3, <3>2, <3>3 DEF ClientsExit
  <2> QED
    BY <1>3, <2>1, <2>2 DEF ClientsExit, RequestTypeOK, requestVars, backendVars, NoFault
<1> QED
  BY <1>1, <1>2, <1>3 DEF MainStep

LEMMA PostTimesOutTypes ==
  ASSUME TypeOK, PostTimesOut
  PROVE  TypeOK'
<1> USE DEF TypeOK
<1>1. SimTypeOK'
  BY SimUnchangedTypes DEF PostTimesOut
<1>2. /\ main_pc' \in {"notify", "aborted"}
      /\ attempt' \in Nat
      /\ posts' \subseteq [run : Nat, no : Nat, kind : Kinds]
  BY DEF PostTimesOut, Post
<1>3. faults_left' \in Nat
  BY FaultTypes DEF PostTimesOut
<1> QED
  BY <1>1, <1>2, <1>3 DEF PostTimesOut, RequestTypeOK, requestVars, backendVars

LEMMA ServePostTypes ==
  ASSUME TypeOK, NEW p \in posts, ServePost(p)
  PROVE  TypeOK'
<1> USE DEF TypeOK
<1>1. SimTypeOK'
  BY ExecutionDoneTypes DEF ServePost
<1>2. main_pc' \in {"poll", "running", "notify", "exit", "aborted"}
  BY DEF ServePost
<1>3. effects' \in Seq(Steps)
  BY DEF ServePost
<1> QED
  BY <1>1, <1>2, <1>3 DEF ServePost, RequestTypeOK, requestVars, NoFault

LEMMA HandlerPassTypes ==
  ASSUME TypeOK, NEW r \in arrived \cup parked, HandlerPass(r)
  PROVE  TypeOK'
<1> USE DEF TypeOK
<1> DEFINE s == StepOf(r)
<1>1. s \in Steps
  BY StepOfIsStep
<1>2. SimTypeOK'
  <2>1. CASE ServeRetry(r)
    BY <2>1, SimUnchangedTypes DEF ServeRetry
  <2>2. CASE RefuseRequest(r)
    BY <1>1, <2>2, HandlerTypes DEF RefuseRequest
  <2>3. CASE DropRequest(r)
    BY <1>1, <2>3, HandlerTypes DEF DropRequest
  <2>4. CASE ForwardRequest(r)
    BY <1>1, <2>4, HandlerTypes DEF ForwardRequest
  <2>5. CASE ForwardTimesOut(r)
    BY <1>1, <2>5, HandlerTypes DEF ForwardTimesOut
  <2>6. CASE KeepWaiting(r)
    BY <1>1, <2>6, HandlerTypes DEF KeepWaiting
  <2> QED
    BY <2>1, <2>2, <2>3, <2>4, <2>5, <2>6 DEF HandlerPass
<1>3. RequestTypeOK'
  <2>1. CASE \E status \in Nat : Reply(r, status)
    BY <2>1, ReplyTypes
  <2>2. CASE KeepWaiting(r)
    BY <2>2 DEF KeepWaiting, RequestTypeOK
  <2>3. artifact_response_for(s) \in Nat /\ RetryAnswer(s) \in Nat
    BY <1>1, AnswerTypes
  <2>4. Statuses \subseteq Nat /\ 503 \in Nat /\ 408 \in Nat
    BY HandlersAssumption
  <2>5. KeepWaiting(r) \/ \E status \in Nat : Reply(r, status)
    BY <2>3, <2>4
    DEF HandlerPass, ServeRetry, RefuseRequest, DropRequest, ForwardRequest, ForwardTimesOut
  <2> QED
    BY <2>1, <2>2, <2>5
<1>4. effects' \in Seq(Steps) /\ late' \subseteq Steps
  BY <1>1 DEF HandlerPass, ServeRetry, RefuseRequest, DropRequest, ForwardRequest,
              ForwardTimesOut, KeepWaiting, backendVars
<1>5. faults_left' \in Nat
  BY FaultTypes DEF HandlerPass, ServeRetry, RefuseRequest, DropRequest, ForwardRequest,
                    ForwardTimesOut, KeepWaiting
<1> QED
  BY <1>2, <1>3, <1>4, <1>5 DEF HandlerPass, mainVars

LEMMA ClientStepTypes ==
  ASSUME TypeOK, NEW t \in Threads, GiveUp(t) \/ ClientCrash(t)
  PROVE  TypeOK'
<1> USE DEF TypeOK
<1>1. SimTypeOK'
  BY SimUnchangedTypes DEF GiveUp, ClientCrash
<1>2. faults_left' \in Nat
  BY FaultTypes DEF GiveUp, ClientCrash
<1>3. client[t] \in ClientStates /\ client[t].pc \in 1..Len(Program[t])
  BY DEF RequestTypeOK
<1>4. RequestTypeOK'
  <2>1. CASE GiveUp(t)
    <3> DEFINE c == client[t]
    <3> DEFINE next == IF c.try < MaxTries THEN [c EXCEPT !.try = c.try + 1]
                       ELSE [c EXCEPT !.phase = "ended", !.err = "TIMEOUT"]
    <3>1. next \in ClientStates /\ next.pc = c.pc
      <4>1. CASE c.try < MaxTries
        <5>1. next = [c EXCEPT !.try = c.try + 1]
          BY <4>1
        <5> QED
          BY <1>3, <5>1 DEF ClientStates
      <4>2. CASE ~(c.try < MaxTries)
        <5>1. next = [c EXCEPT !.phase = "ended", !.err = "TIMEOUT"]
          BY <4>2
        <5> QED
          BY <1>3, <5>1 DEF ClientStates, Errors
      <4> QED
        BY <4>1, <4>2
    <3>2. RequestAt(launch_no, t, next) \in Requests
      BY <1>3, <3>1, RequestAtTypes
    <3>3. /\ client' = [client EXCEPT ![t] = next]
          /\ arrived' \subseteq arrived \cup {RequestAt(launch_no, t, next)}
          /\ UNCHANGED parked
      BY <2>1 DEF GiveUp
    <3> HIDE DEF next
    <3> QED
      BY <1>3, <3>1, <3>2, <3>3 DEF RequestTypeOK
  <2>2. CASE ClientCrash(t)
    <3>1. \A u \in Threads : /\ [client[u] EXCEPT !.phase = "ended", !.err = "crash"] \in ClientStates
                             /\ [client[u] EXCEPT !.phase = "ended", !.err = "crash"].pc = client[u].pc
      BY DEF RequestTypeOK, ClientStates, Errors
    <3> QED
      BY <2>2, <3>1 DEF ClientCrash, RequestTypeOK
  <2> QED
    BY <2>1, <2>2
<1> QED
  BY <1>1, <1>2, <1>4 DEF GiveUp, ClientCrash, mainVars, backendVars

LEMMA EnvironmentTypes ==
  ASSUME TypeOK, \/ GatherWindowEnds
                 \/ WatchdogTick
                 \/ \E s \in late : LateEffect(s)
                 \/ UNCHANGED vars
  PROVE  TypeOK'
<1> USE DEF TypeOK
<1>1. CASE GatherWindowEnds
  <2>1. SchedTypeOK'
    BY <1>1, OtherSchedulerStepsTypes DEF GatherWindowEnds, GatherWindowCloses, SimTypeOK
  <2>2. SimTypeOK'
    BY <1>1, <2>1 DEF GatherWindowEnds, GatherWindowCloses, SimTypeOK, exploreVars, cacheVars
  <2> QED
    BY <1>1, <2>2
    DEF GatherWindowEnds, NoFault, mainVars, requestVars, backendVars, RequestTypeOK
<1>2. CASE WatchdogTick
  <2>1. SchedTypeOK'
    BY <1>2, OtherSchedulerStepsTypes DEF WatchdogTick, WatchdogFires, SimTypeOK
  <2>2. SimTypeOK'
    BY <1>2, <2>1 DEF WatchdogTick, WatchdogFires, SimTypeOK, exploreVars, cacheVars
  <2>3. faults_left' \in Nat
    BY <1>2, FaultTypes DEF WatchdogTick
  <2> QED
    BY <1>2, <2>2, <2>3 DEF WatchdogTick, mainVars, requestVars, backendVars, RequestTypeOK
<1>3. CASE \E s \in late : LateEffect(s)
  <2>1. SimTypeOK'
    BY <1>3, SimUnchangedTypes DEF LateEffect
  <2> QED
    BY <1>3, <2>1 DEF LateEffect, NoFault, mainVars, requestVars, RequestTypeOK
<1>4. CASE UNCHANGED vars
  <2>1. SimTypeOK'
    BY <1>4, SimUnchangedTypes DEF vars
  <2> QED
    BY <1>4, <2>1 DEF vars, mainVars, requestVars, backendVars, RequestTypeOK
<1> QED
  BY <1>1, <1>2, <1>3, <1>4

LEMMA StepTypes ==
  ASSUME TypeOK, [Next]_vars
  PROVE  TypeOK'
<1>1. \A p \in posts : ServePost(p) => TypeOK'
  BY ServePostTypes
<1>2. \A r \in arrived \cup parked : HandlerPass(r) => TypeOK'
  BY HandlerPassTypes
<1>3. ClientStep => TypeOK'
  BY ClientStepTypes DEF ClientStep
<1>4. Finished => TypeOK'
  BY EnvironmentTypes DEF Finished
<1> QED
  BY <1>1, <1>2, <1>3, <1>4, MainStepTypes, PostTimesOutTypes, EnvironmentTypes DEF Next

(* Every variable keeps to its type in every session: a token never carries a
   marker the generator does not write, a step that is taken never runs past
   the end of its prefix, no client past the end of its program.  All of the
   modelled code. *)
THEOREM TypeCorrect == Spec => []TypeOK
<1>1. TypeOK /\ [Next]_vars => TypeOK'
  BY StepTypes
<1> QED
  BY InitTypes, <1>1, PTL DEF Spec
----------------------------------------------------------------------------
(* The exploration *)

\* Only the end of a run touches the exploration.
LEMMA ExplorationSteps ==
  ASSUME TypeOK, [Next]_vars
  PROVE  (\E kind \in Kinds : execution_done(kind)) \/ UNCHANGED exploreVars
<1>1. CASE \E p \in posts : ServePost(p)
  BY <1>1 DEF ServePost, TypeOK
<1>2. CASE \E r \in arrived \cup parked : HandlerPass(r)
  BY <1>2 DEF HandlerPass, ServeRetry, RefuseRequest, DropRequest, ForwardRequest, ForwardTimesOut,
              KeepWaiting, Refuse, DropStep, Forward, ForwardFails, WaitTurn, simVars
<1>3. CASE GatherWindowEnds \/ WatchdogTick
  BY <1>3 DEF GatherWindowEnds, GatherWindowCloses, WatchdogTick, WatchdogFires
<1>4. MainStep \/ PostTimesOut \/ ClientStep \/ (\E s \in late : LateEffect(s))
        \/ Finished \/ UNCHANGED vars => UNCHANGED exploreVars
  BY DEF MainStep, PollDone, LaunchClients, ClientsExit, PostTimesOut, ClientStep, GiveUp,
         ClientCrash, LateEffect, Finished, vars, simVars
<1> QED
  BY <1>1, <1>2, <1>3, <1>4 DEF Next

LEMMA ExplorationKept == Spec => [](QueueInv /\ ResultsInv)
<1>1. Init => QueueInv /\ ResultsInv
  BY InitialQueue DEF Init
<1>2. TypeOK /\ QueueInv /\ ResultsInv /\ [Next]_vars => (QueueInv /\ ResultsInv)'
  BY ExplorationSteps, EndKeepsQueue, EndCountsTrace, QueueUnchanged DEF TypeOK
<1> QED
  BY <1>1, <1>2, TypeCorrect, PTL DEF Spec

(* No schedule is tried twice and none is queued twice, in any session: also
   when a run is reported twice, or finds a trace that is known already.
   seen_prefixes and explored_prefixes of simulator_state.py. *)
THEOREM SchedulesTriedOnce == Spec => []NoPrefixTwice
<1>1. QueueInv => NoPrefixTwice
  BY DEF QueueInv, NoPrefixTwice, PendingPrefixes
<1> QED
  BY <1>1, ExplorationKept, PTL

\* The prefixes that count as explored and that no run was started for; and
\* whether the run that is under way in the proxy may add one to them.
Unlaunched == explored_prefixes \ launched

Doomed ==
  main_pc \in {"running", "notify"} /\ run_prefix \notin launched \cup explored_prefixes

\* Each of them, and the one to come, is paid for by a repeated end.
RepeatsInv ==
  /\ IsFiniteSet(explored_prefixes)
  /\ Cardinality(Unlaunched) + (IF Doomed THEN 1 ELSE 0) <= RepeatedEnds

\* The end of a run adds at most the prefix of that run.
LEMMA EndAddsOne ==
  ASSUME IsFiniteSet(explored_prefixes), NEW kind, execution_done(kind), UNCHANGED launched
  PROVE  /\ IsFiniteSet(explored_prefixes')
         /\ Cardinality(Unlaunched') \in Nat /\ Cardinality(Unlaunched) \in Nat
         /\ Cardinality(Unlaunched') <= Cardinality(Unlaunched) + 1
         /\ run_prefix \in launched \cup explored_prefixes
              => Cardinality(Unlaunched') = Cardinality(Unlaunched)
<1>1. explored_prefixes' = explored_prefixes \cup {run_prefix}
  BY DEF execution_done, Explored
<1>2. IsFiniteSet(explored_prefixes')
  BY <1>1, FS_AddElement
<1>3. IsFiniteSet(Unlaunched) /\ Cardinality(Unlaunched) \in Nat
  BY FS_Difference, FS_CardinalityType DEF Unlaunched
<1>4. CASE run_prefix \in launched \cup explored_prefixes
  <2>1. Unlaunched' = Unlaunched
    BY <1>1, <1>4 DEF Unlaunched
  <2> QED
    BY <1>2, <1>3, <1>4, <2>1
<1>5. CASE run_prefix \notin launched \cup explored_prefixes
  <2>1. Unlaunched' = Unlaunched \cup {run_prefix} /\ run_prefix \notin Unlaunched
    BY <1>1, <1>5 DEF Unlaunched
  <2>2. Cardinality(Unlaunched') = Cardinality(Unlaunched) + 1
    BY <1>3, <2>1, FS_AddElement
  <2> QED
    BY <1>2, <1>3, <1>5, <2>2
<1> QED
  BY <1>4, <1>5

LEMMA EndIsPaid ==
  ASSUME TypeOK, RepeatsInv, NEW p \in posts, ServePost(p)
  PROVE  RepeatsInv'
<1>1. /\ execution_done(p.kind) /\ UNCHANGED launched /\ launch_no' = launch_no
      /\ main_pc \in {"poll", "running", "notify"}
      /\ main_pc' = main_pc \/ (main_pc = "notify" /\ main_pc' = "poll")
  BY DEF ServePost, SimulatorUp, TypeOK
<1>2. run_index' = run_index + 1 /\ run_index \in Nat /\ launch_no \in Nat
  BY <1>1 DEF execution_done, TypeOK, SimTypeOK
<1>3. /\ IsFiniteSet(explored_prefixes')
      /\ Cardinality(Unlaunched') \in Nat /\ Cardinality(Unlaunched) \in Nat
      /\ Cardinality(Unlaunched') <= Cardinality(Unlaunched) + 1
      /\ run_prefix \in launched \cup explored_prefixes
           => Cardinality(Unlaunched') = Cardinality(Unlaunched)
  BY <1>1, EndAddsOne DEF RepeatsInv
<1>4. CASE main_pc = "poll"
  <2>1. ~Doomed /\ ~Doomed' /\ main_pc' = "poll"
    BY <1>1, <1>4 DEF Doomed
  <2>2. RepeatedEnds = run_index - launch_no /\ RepeatedEnds' = run_index + 1 - launch_no
    BY <1>1, <1>2, <1>4, <2>1 DEF RepeatedEnds, RunsReported
  <2> QED
    BY <1>2, <1>3, <2>1, <2>2 DEF RepeatsInv
<1>5. CASE main_pc \in {"running", "notify"} /\ main_pc' = main_pc
  <2>1. Doomed <=> run_prefix \notin launched \cup explored_prefixes
    BY <1>5 DEF Doomed
  <2>2. /\ RepeatedEnds = run_index - (launch_no - 1)
        /\ RepeatedEnds' = run_index + 1 - (launch_no - 1)
    BY <1>1, <1>2, <1>5 DEF RepeatedEnds, RunsReported
  <2>3. Cardinality(Unlaunched') <= Cardinality(Unlaunched) + (IF Doomed THEN 1 ELSE 0)
    BY <1>3, <2>1
  <2> QED
    BY <1>2, <1>3, <2>2, <2>3 DEF RepeatsInv
<1>6. CASE main_pc = "notify" /\ main_pc' = "poll"
  <2>1. (Doomed <=> run_prefix \notin launched \cup explored_prefixes) /\ ~Doomed'
    BY <1>6 DEF Doomed
  <2>2. RepeatedEnds = run_index - (launch_no - 1) /\ RepeatedEnds' = run_index + 1 - launch_no
    BY <1>1, <1>2, <1>6 DEF RepeatedEnds, RunsReported
  <2> QED
    BY <1>2, <1>3, <2>1, <2>2 DEF RepeatsInv
<1> QED
  BY <1>1, <1>4, <1>5, <1>6

\* The start of a run gives one back, and nothing else changes the account.
LEMMA LaunchIsPaid ==
  ASSUME TypeOK, RepeatsInv, LaunchClients
  PROVE  RepeatsInv'
<1>1. /\ main_pc = "poll" /\ main_pc' = "running" /\ launch_no' = launch_no + 1
      /\ launched' = launched \cup {run_prefix}
      /\ UNCHANGED <<explored_prefixes, run_prefix, run_index>>
  BY DEF LaunchClients, simVars, exploreVars
<1>2. run_index \in Nat /\ launch_no \in Nat
  BY DEF TypeOK, SimTypeOK
<1>3. /\ Cardinality(Unlaunched') \in Nat /\ Cardinality(Unlaunched) \in Nat
      /\ Cardinality(Unlaunched') <= Cardinality(Unlaunched)
  <2>1. IsFiniteSet(Unlaunched) /\ Unlaunched' \subseteq Unlaunched
    BY <1>1, FS_Difference DEF Unlaunched, RepeatsInv
  <2> QED
    BY <2>1, FS_Subset, FS_CardinalityType
<1>4. ~Doomed /\ ~Doomed'
  BY <1>1 DEF Doomed
<1>5. RepeatedEnds' = RepeatedEnds /\ RepeatedEnds = run_index - launch_no
  BY <1>1, <1>2 DEF RepeatedEnds, RunsReported
<1> QED
  BY <1>1, <1>2, <1>3, <1>4, <1>5 DEF RepeatsInv

LEMMA StepIsPaid ==
  ASSUME TypeOK, RepeatsInv, [Next]_vars
  PROVE  RepeatsInv'
<1>1. ASSUME UNCHANGED <<explored_prefixes, launched, run_prefix, run_index, launch_no>>,
             \/ main_pc' = main_pc
             \/ main_pc = "poll" /\ main_pc' = "exit"
             \/ main_pc = "running" /\ main_pc' = "notify"
             \/ main_pc = "notify" /\ main_pc' = "aborted"
      PROVE  RepeatsInv'
  <2>1. Unlaunched' = Unlaunched /\ RepeatedEnds' = RepeatedEnds /\ (Doomed' => Doomed)
    BY <1>1 DEF Unlaunched, RepeatedEnds, RunsReported, Doomed
  <2>2. Cardinality(Unlaunched) \in Nat
    BY FS_Difference, FS_CardinalityType DEF Unlaunched, RepeatsInv
  <2>3. run_index \in Nat /\ launch_no \in Nat /\ RepeatedEnds \in Int
    BY DEF TypeOK, SimTypeOK, RepeatedEnds, RunsReported
  <2> QED
    BY <1>1, <2>1, <2>2, <2>3 DEF RepeatsInv
<1>2. CASE MainStep
  <2>1. CASE PollDone
    BY <1>1, <2>1 DEF PollDone, simVars, exploreVars
  <2>2. CASE ClientsExit
    BY <1>1, <2>2 DEF ClientsExit, simVars, exploreVars
  <2> QED
    BY <1>2, <2>1, <2>2, LaunchIsPaid DEF MainStep
<1>3. CASE PostTimesOut
  BY <1>1, <1>3 DEF PostTimesOut, simVars, exploreVars
<1>4. CASE \E p \in posts : ServePost(p)
  BY <1>4, EndIsPaid
<1>5. CASE \E r \in arrived \cup parked : HandlerPass(r)
  <2>1. UNCHANGED <<exploreVars, mainVars>>
    BY <1>5 DEF HandlerPass, ServeRetry, RefuseRequest, DropRequest, ForwardRequest, ForwardTimesOut,
                KeepWaiting, Refuse, DropStep, Forward, ForwardFails, WaitTurn, simVars
  <2> QED
    BY <1>1, <2>1 DEF exploreVars, mainVars
<1>6. CASE GatherWindowEnds \/ WatchdogTick
  <2>1. UNCHANGED <<exploreVars, mainVars>>
    BY <1>6 DEF GatherWindowEnds, GatherWindowCloses, WatchdogTick, WatchdogFires
  <2> QED
    BY <1>1, <2>1 DEF exploreVars, mainVars
<1>7. CASE ClientStep \/ (\E s \in late : LateEffect(s)) \/ Finished \/ UNCHANGED vars
  <2>1. UNCHANGED <<exploreVars, mainVars>>
    BY <1>7 DEF ClientStep, GiveUp, ClientCrash, LateEffect, Finished, vars, simVars
  <2> QED
    BY <1>1, <2>1 DEF exploreVars, mainVars
<1> QED
  BY <1>2, <1>3, <1>4, <1>5, <1>6, <1>7 DEF Next

LEMMA EndsArePaid == Spec => []RepeatsInv
<1>1. Init => RepeatsInv
  <2> SUFFICES ASSUME Init PROVE RepeatsInv
    OBVIOUS
  <2>1. explored_prefixes = {} /\ main_pc = "poll" /\ run_index = 0 /\ launch_no = 0
    BY DEF Init, SimInit
  <2>2. Unlaunched = {} /\ ~Doomed
    BY <2>1 DEF Unlaunched, Doomed
  <2>3. RunsReported = 0
    BY <2>1 DEF RunsReported
  <2>4. RepeatedEnds = 0
    BY <2>1, <2>3 DEF RepeatedEnds
  <2> QED
    BY <2>1, <2>2, <2>4, FS_EmptySet DEF RepeatsInv
<1>2. TypeOK /\ RepeatsInv /\ [Next]_vars => RepeatsInv'
  BY StepIsPaid
<1> QED
  BY <1>1, <1>2, TypeCorrect, PTL DEF Spec

\* What is forgotten counts as explored, and no run was started for it.
LEMMA ForgottenIsUnlaunched ==
  ASSUME QueueInv
  PROVE  Forgotten \subseteq Unlaunched
<1>1. \A p \in Forgotten : /\ \E tr \in seen_traces : p \in Mutations(tr)
                           /\ p \notin launched \cup explored_trace_prefixes \cup PendingPrefixes
                           /\ p = run_prefix => p \in explored_prefixes
  BY DEF Forgotten, PendingPrefixes
<1> QED
  BY <1>1 DEF QueueInv, Unlaunched, Explored

(* Whatever goes wrong in a session, at most one mutation of an executed trace
   gets lost for each time the proxy ends a run that main.py did not; all the
   others are queued until main.py starts a run for them, or begin a trace.
   execution_done, pick_next_prefix_or_done and the main loop. *)
THEOREM MutationsAreKept == Spec => []NoMutationForgotten
<1>1. TypeOK /\ QueueInv /\ RepeatsInv => NoMutationForgotten
  <2> SUFFICES ASSUME TypeOK, QueueInv, RepeatsInv PROVE NoMutationForgotten
    OBVIOUS
  <2>1. IsFiniteSet(Unlaunched) /\ Cardinality(Unlaunched) \in Nat
    BY FS_Difference, FS_CardinalityType DEF Unlaunched, RepeatsInv
  <2>2. Cardinality(Forgotten) \in Nat /\ Cardinality(Forgotten) <= Cardinality(Unlaunched)
    BY <2>1, ForgottenIsUnlaunched, FS_Subset, FS_CardinalityType
  <2>3. run_index \in Nat /\ launch_no \in Nat /\ RepeatedEnds \in Int
    BY DEF TypeOK, SimTypeOK, RepeatedEnds, RunsReported
  <2> QED
    BY <2>1, <2>2, <2>3 DEF RepeatsInv, NoMutationForgotten
<1> QED
  BY <1>1, EndsArePaid, ExplorationKept, TypeCorrect, PTL

\* Without repeated posts there is one post for each run, and main.py waits for it.
OnePost ==
  /\ RepeatedEnds = 0
  /\ main_pc # "notify" => posts = {}
  /\ main_pc = "notify" => attempt = 1 /\ \E kind \in Kinds : posts = {Post(1, kind)}
  /\ main_pc # "aborted"

LEMMA StepKeepsOnePost ==
  ASSUME TypeOK, OnePost, "post" \notin Faults, [Next]_vars
  PROVE  OnePost'
<1>1. ASSUME UNCHANGED <<main_pc, run_index, launch_no, attempt, posts>>
      PROVE  OnePost'
  BY <1>1 DEF OnePost, RepeatedEnds, RunsReported, Post
<1>2. run_index \in Nat /\ launch_no \in Nat
  BY DEF TypeOK, SimTypeOK
<1>3. CASE PollDone
  BY <1>3 DEF PollDone, simVars, exploreVars, OnePost, RepeatedEnds, RunsReported
<1>4. CASE LaunchClients
  <2>1. /\ main_pc = "poll" /\ main_pc' = "running" /\ launch_no' = launch_no + 1
        /\ UNCHANGED <<run_index, posts>>
    BY <1>4 DEF LaunchClients, simVars, exploreVars
  <2>2. RepeatedEnds' = RepeatedEnds
    BY <1>2, <2>1 DEF RepeatedEnds, RunsReported
  <2> QED
    BY <2>1, <2>2 DEF OnePost
<1>5. CASE ClientsExit
  <2>1. /\ main_pc = "running" /\ main_pc' = "notify" /\ attempt' = 1
        /\ UNCHANGED <<run_index, launch_no>>
    BY <1>5 DEF ClientsExit, simVars, exploreVars
  <2>2. RepeatedEnds' = RepeatedEnds
    BY <2>1 DEF RepeatedEnds, RunsReported
  <2>3. PICK kind \in Kinds : posts' = {Post(1, kind)}
    <3>1. {client[t].err : t \in Threads} \subseteq Errors
      BY DEF TypeOK, RequestTypeOK, ClientStates
    <3>2. Verdicts({client[t].err : t \in Threads}) \subseteq Kinds
      BY <3>1 DEF Verdicts, Errors, Kinds
    <3> QED
      BY <1>5, <2>1, <3>2 DEF ClientsExit, OnePost
  <2>4. Post(1, kind)' = Post(1, kind)
    BY <2>1 DEF Post
  <2> QED
    BY <2>1, <2>2, <2>3, <2>4 DEF OnePost
<1>6. CASE PostTimesOut
  BY <1>6 DEF PostTimesOut, Fault
<1>7. ASSUME NEW p \in posts, ServePost(p)
      PROVE  OnePost'
  <2>1. main_pc = "notify" /\ attempt = 1
    BY <1>7 DEF OnePost
  <2>2. PICK kind \in Kinds : posts = {Post(1, kind)}
    BY <2>1 DEF OnePost
  <2>3. p = Post(1, kind) /\ p.kind = kind
    BY <1>7, <2>2 DEF Post
  <2>4. main_pc' = "poll" /\ posts' = {} /\ launch_no' = launch_no /\ run_index' = run_index + 1
    BY <1>7, <2>1, <2>2, <2>3 DEF ServePost, execution_done
  <2>5. RepeatedEnds' = RepeatedEnds
    BY <1>2, <2>1, <2>4 DEF RepeatedEnds, RunsReported
  <2> QED
    BY <2>4, <2>5 DEF OnePost
<1>8. CASE \E r \in arrived \cup parked : HandlerPass(r)
  <2>1. UNCHANGED <<exploreVars, mainVars, posts>>
    BY <1>8 DEF HandlerPass, ServeRetry, RefuseRequest, DropRequest, ForwardRequest, ForwardTimesOut,
                KeepWaiting, Refuse, DropStep, Forward, ForwardFails, WaitTurn, simVars
  <2> QED
    BY <1>1, <2>1 DEF exploreVars, mainVars
<1>9. CASE GatherWindowEnds \/ WatchdogTick
  <2>1. UNCHANGED <<exploreVars, mainVars, posts>>
    BY <1>9 DEF GatherWindowEnds, GatherWindowCloses, WatchdogTick, WatchdogFires
  <2> QED
    BY <1>1, <2>1 DEF exploreVars, mainVars
<1>10. CASE ClientStep \/ (\E s \in late : LateEffect(s)) \/ Finished \/ UNCHANGED vars
  <2>1. UNCHANGED <<exploreVars, mainVars, posts>>
    BY <1>10 DEF ClientStep, GiveUp, ClientCrash, LateEffect, Finished, vars, simVars
  <2> QED
    BY <1>1, <2>1 DEF exploreVars, mainVars
<1> QED
  BY <1>3, <1>4, <1>5, <1>6, <1>7, <1>8, <1>9, <1>10 DEF Next, MainStep

(* As long as every post of /__execution_done__ is answered in time, nothing
   that can be derived from an executed trace is forgotten, whatever else goes
   wrong.  notify_done, execution_done and pick_next_prefix_or_done. *)
THEOREM NothingForgotten == "post" \notin Faults => (Spec => [](Forgotten = {}))
<1> SUFFICES ASSUME "post" \notin Faults PROVE Spec => [](Forgotten = {})
  OBVIOUS
<1>1. Init => OnePost
  <2> SUFFICES ASSUME Init PROVE OnePost
    OBVIOUS
  <2>1. main_pc = "poll" /\ run_index = 0 /\ launch_no = 0 /\ posts = {}
    BY DEF Init, SimInit
  <2>2. RunsReported = 0
    BY <2>1 DEF RunsReported
  <2>3. RepeatedEnds = 0
    BY <2>1, <2>2 DEF RepeatedEnds
  <2> QED
    BY <2>1, <2>3 DEF OnePost
<1>2. TypeOK /\ OnePost /\ [Next]_vars => OnePost'
  BY StepKeepsOnePost
<1>3. TypeOK /\ QueueInv /\ RepeatsInv /\ OnePost => Forgotten = {}
  <2> SUFFICES ASSUME TypeOK, QueueInv, RepeatsInv, OnePost PROVE Forgotten = {}
    OBVIOUS
  <2>1. IsFiniteSet(Unlaunched) /\ Cardinality(Unlaunched) \in Nat
    BY FS_Difference, FS_CardinalityType DEF Unlaunched, RepeatsInv
  <2>2. Cardinality(Unlaunched) = 0
    BY <2>1 DEF RepeatsInv, OnePost
  <2> QED
    BY <2>1, <2>2, ForgottenIsUnlaunched, FS_EmptySet
<1> QED
  BY <1>1, <1>2, <1>3, EndsArePaid, ExplorationKept, TypeCorrect, PTL DEF Spec

(* The summary counts distinct traces, however many of them there are and
   however often one is found.  seen_traces in execution_done. *)
THEOREM TracesCountedOnce == Spec => []ResultsAreDistinctTraces
<1>1. ResultsInv => ResultsAreDistinctTraces
  BY DEF ResultsInv, ResultsAreDistinctTraces
<1> QED
  BY <1>1, ExplorationKept, PTL
----------------------------------------------------------------------------
(* The trace follows the forced prefix *)

\* The variables the replay is about.
replayVars == <<forced_prefix, enforcing, forced_pos, trace, explored_prefixes, done>>

\* Every step of a session executes one step of the run, ends the run, or
\* leaves the replay alone.
LEMMA ReplaySteps ==
  ASSUME TypeOK, [Next]_vars
  PROVE  \/ \E s \in Steps, stops \in BOOLEAN :
              /\ TakeTurn(s, stops) /\ trace' = Append(trace, Granted(s))
              /\ UNCHANGED <<explored_prefixes, done, run_prefix, pending_prefixes>>
         \/ \E kind \in Kinds : execution_done(kind)
         \/ UNCHANGED <<replayVars, run_prefix, pending_prefixes>>
<1>1. CASE \E p \in posts : ServePost(p)
  BY <1>1 DEF ServePost, TypeOK
<1>2. CASE \E r \in arrived \cup parked : HandlerPass(r)
  <2> PICK r \in arrived \cup parked : HandlerPass(r)
    BY <1>2
  <2>1. StepOf(r) \in Steps
    BY StepOfIsStep DEF TypeOK
  <2>2. CASE DropRequest(r)
    BY <2>1, <2>2 DEF DropRequest, DropStep, exploreVars
  <2>3. CASE ForwardRequest(r)
    BY <2>1, <2>3 DEF ForwardRequest, Forward, exploreVars
  <2>4. CASE ForwardTimesOut(r)
    BY <2>1, <2>4 DEF ForwardTimesOut, ForwardFails, exploreVars
  <2>5. CASE ServeRetry(r)
    BY <2>5 DEF ServeRetry, simVars, schedVars, exploreVars, replayVars
  <2>6. CASE RefuseRequest(r)
    BY <2>6 DEF RefuseRequest, Refuse, schedVars, exploreVars, replayVars
  <2>7. CASE KeepWaiting(r)
    BY <2>7 DEF KeepWaiting, WaitTurn, Wait, exploreVars, replayVars
  <2> QED
    BY <2>2, <2>3, <2>4, <2>5, <2>6, <2>7 DEF HandlerPass
<1>3. CASE GatherWindowEnds
  BY <1>3 DEF GatherWindowEnds, GatherWindowCloses, GatherExpires, exploreVars, replayVars
<1>4. CASE WatchdogTick
  BY <1>4 DEF WatchdogTick, WatchdogFires, watchdog_tick, exploreVars, replayVars
<1>5. CASE UNCHANGED simVars
  BY <1>5 DEF simVars, schedVars, exploreVars, replayVars
<1>6. MainStep \/ PostTimesOut \/ ClientStep \/ (\E s \in late : LateEffect(s))
        \/ Finished \/ UNCHANGED vars => UNCHANGED simVars
  BY DEF MainStep, PollDone, LaunchClients, ClientsExit, PostTimesOut, ClientStep, GiveUp,
         ClientCrash, LateEffect, Finished, vars
<1> QED
  BY <1>1, <1>2, <1>3, <1>4, <1>5, <1>6 DEF Next
LEMMA InitReplays == Init => ReplayInv /\ NoNestedWrapper
BY InitialReplay DEF Init

LEMMA StepReplays ==
  ASSUME TypeOK, ReplayInv, [Next]_vars
  PROVE  ReplayInv'
<1>1. ASSUME NEW s \in Steps, NEW stops \in BOOLEAN,
             TakeTurn(s, stops), trace' = Append(trace, Granted(s)),
             UNCHANGED <<explored_prefixes, done, run_prefix, pending_prefixes>>
      PROVE  ReplayInv'
  <2>1. HonoursPrefix'
    BY <1>1, TurnHonoursPrefix DEF TypeOK, ReplayInv
  <2>2. UNCHANGED forced_prefix
    BY <1>1 DEF TakeTurn
  <2> QED
    BY <1>1, <2>1, <2>2 DEF ReplayInv
<1>2. ASSUME NEW kind \in Kinds, execution_done(kind)
      PROVE  ReplayInv'
  BY <1>2, RunEnds DEF TypeOK
<1>3. CASE UNCHANGED <<replayVars, run_prefix, pending_prefixes>>
  BY <1>3, ReplayUnchanged DEF replayVars, ReplayInv
<1> QED
  BY <1>1, <1>2, <1>3, ReplaySteps

(* A run replays its forced prefix token by token, for every workload, number
   of threads and faults.  wait_for_turn, maybe_stop_enforcing, start_run and
   the appends to the trace in proxy. *)
THEOREM PrefixHonoured == Spec => []HonoursPrefix
<1>1. TypeOK /\ ReplayInv /\ [Next]_vars => (TypeOK /\ ReplayInv)'
  BY StepTypes, StepReplays
<1>2. ReplayInv => HonoursPrefix
  BY DEF ReplayInv
<1> QED
  BY InitTypes, InitReplays, <1>1, <1>2, PTL DEF Spec
----------------------------------------------------------------------------
(* Refinement *)

LEMMA SchedulesAgree == FR!Schedules = Schedules
BY DEF FR!Schedules, FR!Tokens, FR!Wraps, Schedules, Tokens, Wraps

LEMMA StepRefines ==
  ASSUME TypeOK, ReplayInv, [Next]_vars
  PROVE  [FR!Next]_(FR!vars)
<1>1. ASSUME NEW s \in Steps, NEW stops \in BOOLEAN,
             TakeTurn(s, stops), trace' = Append(trace, Granted(s)),
             UNCHANGED <<explored_prefixes, done, run_prefix, pending_prefixes>>
      PROVE  FR!Next
  <2>1. /\ Granted(s) = IF Len(trace) < Len(forced_prefix)
                          THEN forced_prefix[Len(trace) + 1] ELSE FR!Base(s)
        /\ Granted(s).step = s
    BY <1>1, TurnHonoursPrefix DEF TypeOK, ReplayInv, Base, FR!Base
  <2>2. trace'[Len(trace) + 1] = Granted(s)
    BY <1>1, GrantedIsToken DEF TypeOK, SimTypeOK, Schedules
  <2>3. UNCHANGED forced_prefix
    BY <1>1 DEF TakeTurn
  <2> QED
    BY <1>1, <2>1, <2>2, <2>3 DEF FR!Next, FR!Execute
<1>2. ASSUME NEW kind \in Kinds, execution_done(kind)
      PROVE  FR!Next
  BY <1>2, RunEnds, SchedulesAgree DEF TypeOK, FR!Next, FR!EndRun
<1>3. CASE UNCHANGED <<replayVars, run_prefix, pending_prefixes>>
  BY <1>3 DEF replayVars, FR!vars
<1> QED
  BY <1>1, <1>2, <1>3, ReplaySteps

(* A session implements ForcedReplay: every step it makes extends the trace as
   the schedule of the run has it, or ends the run and takes up a schedule
   never tried, or is none of the exploration's business.  PrefixScheduler and
   the handlers of SimState together. *)
THEOREM SessionReplaysSchedules == Spec => ReplaysSchedules
<1>1. TypeOK /\ ReplayInv /\ [Next]_vars => (TypeOK /\ ReplayInv)'
  BY StepTypes, StepReplays
<1>2. Init => FR!Init
  BY DEF Init, SimInit, SchedInit, FR!Init
<1>3. TypeOK /\ ReplayInv /\ [Next]_vars => [FR!Next]_(FR!vars)
  BY StepRefines
<1> QED
  BY InitTypes, InitReplays, <1>1, <1>2, <1>3, PTL DEF Spec, ReplaysSchedules, FR!Spec
----------------------------------------------------------------------------
(* No nested markers *)

LEMMA StepStaysFlat ==
  ASSUME TypeOK, ReplayInv, NoNestedWrapper, [Next]_vars
  PROVE  NoNestedWrapper'
<1>1. ASSUME UNCHANGED <<forced_prefix, pending_prefixes>>
      PROVE  NoNestedWrapper'
  BY <1>1 DEF NoNestedWrapper
<1>2. ASSUME NEW s \in Steps, NEW stops \in BOOLEAN, TakeTurn(s, stops)
      PROVE  UNCHANGED forced_prefix
  BY <1>2 DEF TakeTurn
<1>3. ASSUME NEW kind \in Kinds, execution_done(kind)
      PROVE  NoNestedWrapper'
  BY <1>3, RunEndsFlat DEF TypeOK, ReplayInv
<1> QED
  BY <1>1, <1>2, <1>3, ReplaySteps DEF replayVars

(* No prefix of any exploration holds a token the scheduler could never match,
   however many runs the mutations are generated from.  _is_mutated in
   generate_forced_prefixes, against _is_nested_wrapper in wait_for_turn. *)
THEOREM NeverNested == Spec => []NoNestedWrapper
<1>1. TypeOK /\ ReplayInv /\ NoNestedWrapper /\ [Next]_vars
        => (TypeOK /\ ReplayInv /\ NoNestedWrapper)'
  BY StepTypes, StepReplays, StepStaysFlat
<1> QED
  BY InitTypes, InitReplays, <1>1, PTL DEF Spec
=============================================================================
