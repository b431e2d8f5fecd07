---------------------------- MODULE Exploration ----------------------------
(***************************************************************************)
(* A whole exploration without faults, to its end: SimulatorHandlers, and  *)
(* clients whose threads follow a program and branch on the answers, which *)
(* depend on what LocalStack has executed before.  Session has everything  *)
(* that can go wrong with a few short runs; here nothing goes wrong, and   *)
(* the question is what the runs of one exploration amount to.             *)
(*                                                                         *)
(* What is left out of Session for that: no request is late, repeated or   *)
(* left over, so a thread that has not ended always has one request parked *)
(* in the proxy, and main.py starts the next run as soon as one is over.   *)
(***************************************************************************)
EXTENDS SimulatorHandlers, FiniteSets

CONSTANTS
  Threads,     \* the client threads
  Workloads    \* what they may do, one workload for a whole exploration

(* A workload has for each thread a program, for each step the steps without
   which LocalStack answers it with 404 instead of 200, and how far a thread
   moves on in its program after either answer.  prompt says whether all
   threads reach the scheduler within its gather window. *)
WorkloadShape ==
  [program : [Threads -> Seq(Steps)],
   needs : [Steps -> SUBSET Steps],
   moves : [Steps -> [{200, 404} -> Nat \ {0}]],
   prompt : BOOLEAN]

\* A step says which client and thread it comes from, and no thread makes one
\* twice: the proxy would take the second for a repetition.
OwnSteps(w) ==
  \A t, u \in Threads : \A i \in 1..Len(w.program[t]), j \in 1..Len(w.program[u]) :
    /\ w.program[t][i] = w.program[u][j] => t = u /\ i = j
    /\ t = u => ThreadOf[w.program[t][i]] = ThreadOf[w.program[u][j]]

ASSUME ExplorationAssumption ==
  /\ Workloads \subseteq WorkloadShape
  /\ \A w \in Workloads : OwnSteps(w)
  /\ {200, 404} \subseteq Statuses
  /\ ArtifactOk = 200 /\ ~Treat404

VARIABLES
  workload,
  at,         \* of each thread: its place in its program
  executed    \* the steps LocalStack has executed since its reset

vars == <<simVars, workload, at, executed>>

TypeOK ==
  /\ SimTypeOK
  /\ workload \in Workloads
  /\ at \in [Threads -> Nat \ {0}]
  /\ executed \subseteq Steps

Start == [t \in Threads |-> 1]

Init ==
  /\ SimInit
  /\ workload \in Workloads
  /\ at = Start
  /\ executed = {}

Waiting(t) == at[t] <= Len(workload.program[t])

\* The step a thread waits with.
StepOf(t) == workload.program[t][at[t]]

AnswerTo(s) == IF workload.needs[s] \subseteq executed THEN 200 ELSE 404

\* Where a thread goes from a place when it hears the answer: to the step it has
\* for it, or, refused, to its end.
Onward(t, place, status) ==
  IF status = 503 THEN Len(workload.program[t]) + 1
  ELSE place + workload.moves[workload.program[t][place]][status]

MoveOn(t, status) == at' = [at EXCEPT ![t] = Onward(t, @, status)]

DropRequest(t) ==
  /\ DropStep(StepOf(t))
  /\ MoveOn(t, artifact_response_for(StepOf(t)))
  /\ UNCHANGED executed

ForwardRequest(t) ==
  LET s == StepOf(t)
  IN /\ Forward(s, AnswerTo(s))
     /\ MoveOn(t, AnswerTo(s))
     /\ executed' = executed \cup {s}

\* The run has been given up: the thread ends.
RefuseRequest(t) ==
  /\ Refuse(StepOf(t))
  /\ MoveOn(t, 503)
  /\ UNCHANGED executed

KeepWaiting(t) ==
  /\ WaitTurn(StepOf(t))
  /\ <<free_waiting', free_deadline'>> # <<free_waiting, free_deadline>>
  /\ UNCHANGED <<at, executed>>

HandlerPass(t) ==
  /\ ~done
  /\ Waiting(t)
  /\ DropRequest(t) \/ ForwardRequest(t) \/ RefuseRequest(t) \/ KeepWaiting(t)
  /\ UNCHANGED workload

GatherWindowEnds ==
  /\ ~done
  /\ workload.prompt => \A t \in Threads : Waiting(t) => StepOf(t) \in free_waiting
  /\ GatherWindowCloses
  /\ UNCHANGED <<workload, at, executed>>

\* Everyone waits for a turn nobody can get.
WatchdogTick ==
  /\ \E t \in Threads : Waiting(t)
  /\ \A t \in Threads : Waiting(t) => ~CanTakeTurn(StepOf(t))
  /\ WatchdogFires
  /\ UNCHANGED <<workload, at, executed>>

\* The clients have exited and main.py says so.  They report no error, unless
\* they were refused, and then the run has its result.  LocalStack is reset,
\* and the clients of the next run start.
EndRun ==
  /\ ~done
  /\ \A t \in Threads : ~Waiting(t)
  /\ execution_done("ok")
  /\ at' = Start
  /\ executed' = {}
  /\ UNCHANGED workload

Finished == done /\ UNCHANGED vars

Next ==
  \/ \E t \in Threads : HandlerPass(t)
  \/ GatherWindowEnds
  \/ WatchdogTick
  \/ EndRun
  \/ Finished

Spec == Init /\ [][Next]_vars
----------------------------------------------------------------------------
(* With one kind of mutation every run finds a trace that no run before it
   found: its prefix was no prefix of an explored trace when it was picked, and
   the run followed it to its end.  pick_next_prefix_or_done, wait_for_turn. *)
EveryRunIsNew == Len(results) = run_index

\* A step dropped early may take a thread away from a step delayed later.
Mixed(p) == has_drop(p) /\ has_delay(p)

\* Threads that do not branch go on to their next step, whatever they are answered.
Straight ==
  \A s \in Steps : workload.needs[s] = {} /\ \A a \in {200, 404} : workload.moves[s][a] = 1

(* A forced prefix with one kind of mutation can always be followed, and one of
   threads that do not branch with any mutations: a swap takes two steps that
   waited together, a dropped step was executed at that place, and the answer to
   a dropped step is the same in every run, though threads branch on it.
   generate_forced_prefixes, artifact_response_for. *)
PrefixesAreFeasible ==
  [][run_index' # run_index /\ (~Mixed(forced_prefix) \/ Straight)
       => forced_pos = Len(forced_prefix)]_vars

(* When the exploration is done, there is nothing left that it could have
   derived: every mutation of an explored trace begins an explored trace, also
   those of prefixes that were skipped on the way, unless its run was given up,
   and that takes threads that branch and both kinds of mutation.
   generate_forced_prefixes, its filters in execution_done and
   pick_next_prefix_or_done. *)
ExplorationClosed ==
  done => \A tr \in seen_traces : \A p \in Mutations(tr) :
            \/ p \in explored_trace_prefixes
            \/ Mixed(p) /\ ~Straight /\ p \in explored_prefixes

(* As long as a thread waits, the run goes on: somebody may take a turn, or the
   gather window has yet to pass.  Only a forced prefix with both kinds of
   mutation, of threads that branch, leaves it to the watchdog, who does not look
   at free runs.  wait_for_turn, _free_waiting, watchdog_tick. *)
NoRunSticks ==
  (\E t \in Threads : Waiting(t)) /\ current_result = "SUCCESS" =>
    \/ \E t \in Threads : Waiting(t) /\ CanTakeTurn(StepOf(t))
    \/ ~enforcing /\ free_deadline # "passed"
    \/ enforcing /\ Mixed(forced_prefix) /\ ~Straight
----------------------------------------------------------------------------
(* The schedules of threads that do not branch: every interleaving, with every *)
(* choice of steps to drop or to delay.                                        *)

Lengths == [t \in Threads |-> Len(workload.program[t])]

TotalSteps == Cardinality(UNION {{t} \X (1..Lengths[t]) : t \in Threads})

\* In an interleaving every thread has as many turns as steps.
Interleavings ==
  {o \in [1..TotalSteps -> Threads] :
     \A t \in Threads : Cardinality({i \in 1..TotalSteps : o[i] = t}) = Lengths[t]}

\* How many turns thread o[i] has had with the i-th, and the step it takes then.
TurnsOf(o, i) == Cardinality({j \in 1..i : o[j] = o[i]})

Turn(o, i) == workload.program[o[i]][TurnsOf(o, i)]

Markings ==
  [1..TotalSteps -> {<<>>} \cup (IF EnableDrop THEN {<<"DROP">>} ELSE {})
                           \cup (IF EnableDelay THEN {<<"DELAY">>} ELSE {})]

Schedule(o, m) == [i \in 1..TotalSteps |-> [wrap |-> m[i], step |-> Turn(o, i)]]

\* The trace has the steps of interleaving o, under whatever markers.
InOrder(tr, o) == Len(tr) = TotalSteps /\ \A i \in 1..TotalSteps : tr[i].step = Turn(o, i)

(* A run of threads that do not branch executes all their steps, each once and
   those of a thread in their order: no run is cut short, whatever it drops,
   delays and reorders.  wait_for_turn, execution_done. *)
TracesAreInterleavings ==
  Straight => \A tr \in seen_traces : \E o \in Interleavings : InOrder(tr, o)

(* When the exploration is done, the steps of threads that do not branch have
   been executed in every order there is, and in that order with whatever steps
   one would have dropped or delayed dropped or delayed, though maybe others too.
   generate_forced_prefixes and its filters, pick_next_prefix_or_done. *)
EveryOrderIsTried ==
  done /\ Straight =>
    \A o \in Interleavings, m \in Markings : \E tr \in seen_traces :
      /\ InOrder(tr, o)
      /\ \A i \in 1..TotalSteps : m[i] # <<>> => tr[i].wrap # <<>>

AllSchedules == {Schedule(o, m) : o \in Interleavings, m \in Markings}

(* An exploration of threads that do not branch ends: it has no more runs than
   there are schedules, though every trace yields new prefixes.
   pick_next_prefix_or_done, generate_forced_prefixes, wait_for_turn. *)
RunsAreBounded == Straight => run_index <= Cardinality(AllSchedules)

(* When it ends, all schedules have been executed.  The same code. *)
ExplorationComplete == done /\ Straight => AllSchedules \subseteq seen_traces

(* With one kind of mutation that is so when the threads are always in time for
   the gather window.  When some may be late, it may be false: the timing of the
   free choices decides in which order traces are found, and with that which
   prefixes are skipped.  pick_next_prefix_or_done. *)
CompleteInTime == ~(EnableDrop /\ EnableDelay) /\ workload.prompt => ExplorationComplete
=============================================================================
