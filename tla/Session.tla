------------------------------ MODULE Session ------------------------------
(***************************************************************************)
(* A whole session of `python main.py <client> ...`: the loop of main.py,  *)
(* the client processes it starts for every run, the requests on their way *)
(* to the proxy or parked in it, the proxy (SimulatorHandlers), and what   *)
(* LocalStack has executed.                                                *)
(*                                                                         *)
(* main.py runs the clients, waits until all have exited, posts            *)
(* /__execution_done__ and polls /__ready__, until that says DONE.  The    *)
(* proxy runs in the same process, in daemon threads: it lives as long as  *)
(* main() does.  A request or a post whose caller has gone is still        *)
(* served, since the threads of the proxy do not notice.                   *)
(*                                                                         *)
(* Client threads are external: they send one request at a time, follow    *)
(* their program while the answers allow it, retry some answers, and may   *)
(* give up waiting or crash when Faults says so.                           *)
(***************************************************************************)
EXTENDS SimulatorHandlers, FiniteSets

CONSTANTS
  Threads,        \* the client threads
  ClientOf,       \* the client process of a thread
  Program,        \* the steps of a thread, in order
  ContinueOn,     \* answers after which a thread sends its next step
  QuietOn,        \* answers after which it ends without reporting an error
  RetryOn,        \* answers after which it sends the same step again
  MaxTries,       \* how often it sends one step
  NotifyAttempts, \* how often notify_done posts (4 in the code)
  MaxLaunches,    \* bound: runs started in one behaviour
  Faults,         \* which of FaultKinds may happen
  MaxFaults       \* bound: faults in one behaviour

FaultKinds ==
  {"forward",     \* LocalStack is unreachable or does not answer in time
   "late",        \* and may execute the request after the proxy gave up
   "giveup",      \* a client stops waiting for an answer and sends again
   "crash",       \* a client process dies
   "post",        \* the answer to /__execution_done__ takes longer than 30 s
   "poll",        \* a poll of /__ready__ fails
   "watchdog"}    \* the deadlock timeout passes although a step is coming

ASSUME SessionAssumption ==
  /\ Program \in [Threads -> Seq(Steps)]
  /\ \A t \in Threads : Program[t] # <<>>
  /\ ContinueOn \subseteq Nat /\ QuietOn \subseteq Nat /\ RetryOn \subseteq Nat
  /\ MaxTries \in Nat \ {0} /\ NotifyAttempts \in Nat \ {0}
  /\ MaxLaunches \in Nat /\ MaxFaults \in Nat
  /\ Faults \subseteq FaultKinds

VARIABLES
  main_pc,     \* "poll", "running", "notify", "exit" or "aborted"
  launch_no,   \* run_no - 1: how many runs main has started
  attempt,     \* the current post of notify_done
  posts,       \* posts the proxy has not served: records [run, no, kind]
  client,      \* of each thread: where it is, which try, waiting or ended, its error
  arrived,     \* requests whose handler has not run yet
  parked,      \* requests asleep in wait_for_turn
  launched,    \* history: the prefixes some run was started for
  effects,     \* what LocalStack executed since its last reset
  late,        \* steps LocalStack may yet execute
  faults_left  \* how many faults may still happen

mainVars == <<main_pc, launch_no, attempt, launched>>
requestVars == <<client, arrived, parked>>
backendVars == <<effects, late>>
vars == <<simVars, mainVars, posts, requestVars, backendVars, faults_left>>

Requests ==
  {r \in [run : Nat, thread : Threads, pc : Nat, try : Nat] : r.pc \in 1..Len(Program[r.thread])}

StepOf(r) == Program[r.thread][r.pc]

ClientStates == [pc : Nat, try : Nat, phase : {"waiting", "ended"}, err : Errors]

RequestTypeOK ==
  /\ client \in [Threads -> ClientStates]
  /\ \A t \in Threads : client[t].pc \in 1..Len(Program[t])
  /\ arrived \subseteq Requests
  /\ parked \subseteq Requests

TypeOK ==
  /\ SimTypeOK
  /\ main_pc \in {"poll", "running", "notify", "exit", "aborted"}
  /\ launch_no \in Nat
  /\ attempt \in Nat
  /\ posts \subseteq [run : Nat, no : Nat, kind : Kinds]
  /\ RequestTypeOK
  /\ launched \subseteq Schedules
  /\ effects \in Seq(Steps)
  /\ late \subseteq Steps
  /\ faults_left \in Nat

Idle == [pc |-> 1, try |-> 1, phase |-> "ended", err |-> "none"]

Init ==
  /\ SimInit
  /\ main_pc = "poll"
  /\ launch_no = 0
  /\ attempt = 0
  /\ posts = {}
  /\ client = [t \in Threads |-> Idle]
  /\ arrived = {}
  /\ parked = {}
  /\ launched = {}
  /\ effects = <<>>
  /\ late = {}
  /\ faults_left = MaxFaults

Fault(kind) ==
  /\ kind \in Faults
  /\ faults_left > 0
  /\ faults_left' = faults_left - 1

NoFault == UNCHANGED faults_left

SimulatorUp == main_pc \notin {"exit", "aborted"}

RequestAt(run, t, c) == [run |-> run, thread |-> t, pc |-> c.pc, try |-> c.try]

\* The request a thread waits for.
Current(t) == RequestAt(launch_no, t, client[t])

Waiting(t) == main_pc = "running" /\ client[t].phase = "waiting"
----------------------------------------------------------------------------
(* main.py *)

PollDone ==
  /\ main_pc = "poll"
  /\ done
  /\ main_pc' = "exit"
  /\ NoFault
  /\ UNCHANGED <<simVars, launch_no, attempt, launched, posts, requestVars, backendVars>>

\* A failed poll is ignored, so it starts a run even when all is done.
LaunchClients ==
  /\ main_pc = "poll"
  /\ IF done THEN Fault("poll") ELSE NoFault
  /\ launch_no < MaxLaunches
  /\ main_pc' = "running"
  /\ launch_no' = launch_no + 1
  /\ launched' = launched \cup {run_prefix}
  /\ client' = [t \in Threads |-> [Idle EXCEPT !.phase = "waiting"]]
  /\ arrived' = arrived \cup {RequestAt(launch_no + 1, t, Idle) : t \in Threads}
  /\ UNCHANGED <<simVars, attempt, posts, parked, backendVars>>

Post(n, kind) == [run |-> launch_no, no |-> n, kind |-> kind]

\* Mutant of AllEnded: the run is over when the first thread is.
SomeEnded == \E t \in Threads : client[t].phase = "ended"

\* p.wait() for every client.
AllEnded == \A t \in Threads : client[t].phase = "ended"

\* run_client_streaming returns, and notify_done posts.
ClientsExit ==
  /\ main_pc = "running"
  /\ AllEnded
  /\ main_pc' = "notify"
  /\ attempt' = 1
  /\ \E kind \in Verdicts({client[t].err : t \in Threads}) : posts' = posts \cup {Post(1, kind)}
  /\ NoFault
  /\ UNCHANGED <<simVars, launch_no, launched, requestVars, backendVars>>

\* notify_done stops waiting for the answer and posts again.  Its last post is
\* not guarded: when that one times out, main() dies.
PostTimesOut ==
  /\ Fault("post")
  /\ main_pc = "notify"
  /\ \E p \in posts :
       /\ p = Post(attempt, p.kind)
       /\ IF attempt < NotifyAttempts
            THEN /\ attempt' = attempt + 1
                 /\ posts' = posts \cup {Post(attempt + 1, p.kind)}
                 /\ UNCHANGED main_pc
            ELSE /\ main_pc' = "aborted"
                 /\ UNCHANGED <<attempt, posts>>
  /\ UNCHANGED <<simVars, launch_no, launched, requestVars, backendVars>>

\* The proxy serves a post; main goes on if that is the one it waits for.
ServePost(p) ==
  /\ SimulatorUp
  /\ execution_done(p.kind)
  /\ posts' = posts \ {p}
  /\ main_pc' = IF main_pc = "notify" /\ p = Post(attempt, p.kind) THEN "poll" ELSE main_pc
  /\ effects' = <<>>      \* reset_localstack_quiet
  /\ NoFault
  /\ UNCHANGED <<launch_no, attempt, launched, requestVars, late>>
----------------------------------------------------------------------------
(* Clients *)

\* Where a thread is after an answer: it sends the step again, goes on to the
\* next one, or ends, with an error unless the answer was a quiet one.
ErrorOf(c, status) ==
  IF status \in QuietOn THEN c.err ELSE IF status = 408 THEN "408" ELSE "FAILURE"

After(t, c, status) ==
  IF status \in ContinueOn
    THEN IF c.pc < Len(Program[t]) THEN [c EXCEPT !.pc = @ + 1, !.try = 1]
         ELSE [c EXCEPT !.phase = "ended"]
    ELSE IF status \in RetryOn /\ c.try < MaxTries
           THEN [c EXCEPT !.try = @ + 1]
           ELSE [c EXCEPT !.phase = "ended", !.err = ErrorOf(c, status)]

\* The handler of r answers.  Only a thread that still waits for r hears it,
\* and what it sends next is on its way at once.
Reply(r, status) ==
  LET t == r.thread
      next == After(t, client[t], status)
      rest == arrived \ {r}
  IN /\ parked' = parked \ {r}
     /\ IF Waiting(t) /\ r = Current(t)
          THEN /\ client' = [client EXCEPT ![t] = next]
               /\ arrived' = IF next.phase = "waiting"
                               THEN rest \cup {RequestAt(launch_no, t, next)} ELSE rest
          ELSE arrived' = rest /\ UNCHANGED client

\* The HTTP library of the client times out: it sends the step again, or the
\* thread ends with a timeout.  The old request stays where it is.
GiveUp(t) ==
  /\ Fault("giveup")
  /\ Waiting(t)
  /\ LET c == client[t]
         retry == c.try < MaxTries
         next == IF retry THEN [c EXCEPT !.try = @ + 1]
                 ELSE [c EXCEPT !.phase = "ended", !.err = "TIMEOUT"]
     IN /\ client' = [client EXCEPT ![t] = next]
        /\ arrived' = IF retry THEN arrived \cup {RequestAt(launch_no, t, next)} ELSE arrived
  /\ UNCHANGED <<simVars, mainVars, posts, parked, backendVars>>

\* A client process dies, with all its threads.
ClientCrash(t) ==
  /\ Fault("crash")
  /\ Waiting(t)
  /\ client' = [u \in Threads |-> IF ClientOf[u] = ClientOf[t]
                                    THEN [client[u] EXCEPT !.phase = "ended", !.err = "crash"]
                                    ELSE client[u]]
  /\ UNCHANGED <<simVars, mainVars, posts, arrived, parked, backendVars>>
----------------------------------------------------------------------------
(* One uninterrupted stretch of proxy for the request r *)

\* r is about to make a pass through the loop of wait_for_turn: it sleeps
\* there, or it has just arrived and is no retry.
AtScheduler(r) == r \in parked \/ (r \in arrived /\ ~IsRetry(StepOf(r)))

ServeRetry(r) ==
  /\ r \in arrived
  /\ IsRetry(StepOf(r))
  /\ Reply(r, RetryAnswer(StepOf(r)))
  /\ NoFault
  /\ UNCHANGED <<simVars, backendVars>>

RefuseRequest(r) ==
  /\ AtScheduler(r)
  /\ Refuse(StepOf(r))
  /\ Reply(r, 503)
  /\ NoFault
  /\ UNCHANGED backendVars

\* Mutant of DropRequest: the answer is dropped, not the request.
DropAnswer(r) ==
  /\ AtScheduler(r)
  /\ DropStep(StepOf(r))
  /\ Reply(r, artifact_response_for(StepOf(r)))
  /\ effects' = Append(effects, StepOf(r))
  /\ NoFault
  /\ UNCHANGED late

DropRequest(r) ==
  /\ AtScheduler(r)
  /\ DropStep(StepOf(r))
  /\ Reply(r, artifact_response_for(StepOf(r)))
  /\ NoFault
  /\ UNCHANGED backendVars

ForwardRequest(r) ==
  /\ AtScheduler(r)
  /\ \E status \in Statuses : Forward(StepOf(r), status) /\ Reply(r, status)
  /\ effects' = Append(effects, StepOf(r))
  /\ NoFault
  /\ UNCHANGED late

ForwardTimesOut(r) ==
  /\ Fault("forward")
  /\ AtScheduler(r)
  /\ ForwardFails(StepOf(r))
  /\ Reply(r, 408)
  /\ late' = IF "late" \in Faults THEN late \cup {StepOf(r)} ELSE late
  /\ UNCHANGED effects

\* A pass that changes something before it goes back to sleep.
KeepWaiting(r) ==
  /\ AtScheduler(r)
  /\ WaitTurn(StepOf(r))
  /\ parked' = parked \cup {r}
  /\ arrived' = arrived \ {r}
  /\ <<parked', free_waiting', free_deadline'>> # <<parked, free_waiting, free_deadline>>
  /\ NoFault
  /\ UNCHANGED <<client, backendVars>>

HandlerPass(r) ==
  /\ SimulatorUp
  /\ \/ ServeRetry(r)
     \/ RefuseRequest(r)
     \/ DropRequest(r)
     \/ ForwardRequest(r)
     \/ ForwardTimesOut(r)
     \/ KeepWaiting(r)
  /\ UNCHANGED <<mainVars, posts>>
----------------------------------------------------------------------------
(* Time, and LocalStack *)

GatherWindowEnds ==
  /\ SimulatorUp
  /\ GatherWindowCloses
  /\ NoFault
  /\ UNCHANGED <<mainVars, posts, requestVars, backendVars>>

\* Every thread that still runs waits for a turn it cannot get.
Stuck ==
  /\ \E t \in Threads : Waiting(t)
  /\ arrived = {}
  /\ \A r \in parked : ~CanTakeTurn(StepOf(r))

\* The deadlock timeout is long (60 s, or the delay and 30 s more), so it
\* passes when the run is stuck; the fault is that it passes before.
WatchdogTick ==
  /\ SimulatorUp
  /\ IF Stuck THEN NoFault ELSE Fault("watchdog")
  /\ WatchdogFires
  /\ UNCHANGED <<mainVars, posts, requestVars, backendVars>>

\* LocalStack executes a request whose sender had given up on it.
LateEffect(s) ==
  /\ SimulatorUp
  /\ effects' = Append(effects, s)
  /\ late' = late \ {s}
  /\ NoFault
  /\ UNCHANGED <<simVars, mainVars, posts, requestVars>>

\* main() has returned or died, or the bound on the runs is reached.
Finished ==
  /\ \/ ~SimulatorUp
     \/ main_pc = "poll" /\ launch_no = MaxLaunches
  /\ UNCHANGED vars

ClientStep == \E t \in Threads : GiveUp(t) \/ ClientCrash(t)

MainStep == PollDone \/ LaunchClients \/ ClientsExit

Next ==
  \/ MainStep
  \/ PostTimesOut
  \/ \E p \in posts : ServePost(p)
  \/ ClientStep
  \/ \E r \in arrived \cup parked : HandlerPass(r)
  \/ GatherWindowEnds
  \/ WatchdogTick
  \/ \E s \in late : LateEffect(s)
  \/ Finished

Spec == Init /\ [][Next]_vars

\* What the program does of its own accord: main goes on, every handler that
\* can make progress gets the lock, windows close, and the watchdog ticks.
\* Faults are never forced to happen.
Fairness ==
  /\ WF_vars(MainStep)
  /\ WF_vars(\E p \in posts : ServePost(p))
  /\ WF_vars(\E r \in arrived \cup parked : HandlerPass(r))
  /\ WF_vars(GatherWindowEnds)
  /\ WF_vars(WatchdogTick)

FairSpec == Spec /\ Fairness
=============================================================================
