-------------------------- MODULE ExplorationProofs --------------------------
(***************************************************************************)
(* What all runs of an exploration amount to, for every workload: which    *)
(* prefixes can be followed to their end, hence that no run is wasted,     *)
(* that at the end the exploration is closed, and that with threads that   *)
(* do not branch every order has been tried.                               *)
(*                                                                         *)
(* A sequence of tokens can be followed when there is a walk along it: the *)
(* places of all threads, and what LocalStack has executed, before and     *)
(* after each of its steps.  A run walks along its trace; what a mutation  *)
(* makes of a trace has a walk that begins with the one of the trace.      *)
(*                                                                         *)
(* Every order: what a run is derived from, it repeats and then exchanges  *)
(* two neighbours or marks one turn.  From any run, one comes to any order *)
(* by such steps, the turns that are right already never touched.          *)
(***************************************************************************)
EXTENDS Exploration, HandlerProofs

Places == [at : [Threads -> Nat \ {0}], executed : SUBSET Steps]

StartPlace == [at |-> Start, executed |-> {}]

Here == [at |-> at, executed |-> executed]

\* What thread t is answered when it takes its turn with token x.
Told(here, x) ==
  IF is_drop(x) THEN artifact_response_for(x.step)
  ELSE IF workload.needs[x.step] \subseteq here.executed THEN 200 ELSE 404

\* Thread t waits with the step of token x.
Presents(t, here, x) ==
  /\ here.at[t] <= Len(workload.program[t])
  /\ workload.program[t][here.at[t]] = x.step

\* Where thread t takes everyone when it takes its turn with token x.
There(t, here, x) ==
  [at |-> [here.at EXCEPT ![t] = Onward(t, here.at[t], Told(here, x))],
   executed |-> IF is_drop(x) THEN here.executed ELSE here.executed \cup {x.step}]

Walk(h, p) ==
  /\ h \in [0..Len(p) -> Places]
  /\ h[0] = StartPlace
  /\ \A i \in 1..Len(p) : \E t \in Threads :
       Presents(t, h[i - 1], p[i]) /\ h[i] = There(t, h[i - 1], p[i])

\* The answer to each step is known: dropped in another run, it is the same.
Remembered(p) == \A i \in 1..Len(p) : stable_response_cache[p[i].step] # NoStatus

\* The markers are those that have been asked for, one on a token at most.
Allowed(x) ==
  \/ x.wrap = <<>>
  \/ EnableDrop /\ x.wrap = <<"DROP">>
  \/ EnableDelay /\ x.wrap = <<"DELAY">>

AllAllowed(p) == \A i \in 1..Len(p) : Allowed(p[i])

\* The proxy has nothing else to answer with, and to threads that do not branch
\* LocalStack gives one answer.
AnswersKnown ==
  /\ stable_response_cache \in [Steps -> {NoStatus, 200, 404, 503}]
  /\ Straight => \A s \in Steps : stable_response_cache[s] \in {NoStatus, 200}

\* What is derived from a trace that has been executed can be followed, unless it
\* has both kinds of markers and threads branch.
Followable(p) == ~Mixed(p) \/ Straight

\* The run has walked along its trace, and a run with a prefix that can be
\* followed will follow it to the end.
RunInv ==
  /\ Remembered(trace) /\ AllAllowed(trace)
  /\ \E h : Walk(h, trace) /\ (current_result = "SUCCESS" => h[Len(trace)] = Here)
  /\ Remembered(forced_prefix) /\ AllAllowed(forced_prefix)
  /\ Followable(forced_prefix) =>
       /\ current_result = "SUCCESS"
       /\ \E h : /\ Walk(h, forced_prefix)
                 /\ forced_pos < Len(forced_prefix) => h[forced_pos] = Here

\* So will every other run that is planned.
PlannedInv ==
  \A e \in pending_prefixes :
    /\ Remembered(e.prefix) /\ AllAllowed(e.prefix)
    /\ Followable(e.prefix) => \E h : Walk(h, e.prefix)

\* What has been followed is known to have been walked, and the run under way
\* is to find something new.
KnownInv ==
  /\ \A tr \in seen_traces : PrefixesOf(tr) \subseteq explored_trace_prefixes
  /\ \A p \in explored_prefixes :
       p = <<>> \/ ~Followable(p) \/ p \in explored_trace_prefixes
  /\ ~done => /\ run_prefix = forced_prefix
              /\ forced_prefix \notin explored_trace_prefixes
              /\ forced_prefix = <<>> => seen_traces = {}
  /\ done => pending_prefixes = {} /\ run_prefix \in explored_prefixes

ExplorationInv ==
  /\ TypeOK /\ AnswersKnown /\ ReplayInv /\ QueueInv /\ ResultsInv
  /\ RunInv /\ PlannedInv /\ KnownInv
----------------------------------------------------------------------------
(* What mutations are made of *)

LEMMA SwapShape ==
  ASSUME NEW t \in Schedules, NEW i \in 1..(Len(t) - 1)
  PROVE  /\ Len(minimal_prefix_for_swap(t, i, i + 1)) = i + 1
         /\ \A n \in 1..(i + 1) : minimal_prefix_for_swap(t, i, i + 1)[n] = t[Origin(i, n)]
<1> DEFINE p == minimal_prefix_for_swap(t, i, i + 1)
<1> DEFINE q == SubSeq(t, 1, i + 1)
<1>1. q \in Schedules /\ Len(q) = i + 1 /\ \A n \in 1..(i + 1) : q[n] = t[n]
  <2>1. i + 1 \in 0..Len(t)
    BY DEF Schedules
  <2> QED
    BY <2>1, SubSeqIsSchedule
<1>2. DOMAIN q = 1..(i + 1)
  BY <1>1 DEF Schedules
<1>3. p = [q EXCEPT ![i] = t[i + 1], ![i + 1] = t[i]]
  BY <1>1 DEF minimal_prefix_for_swap
<1>4. \A n \in 1..(i + 1) :
        p[n] = IF n = i + 1 THEN t[i] ELSE IF n = i THEN t[i + 1] ELSE q[n]
  BY <1>2, <1>3
<1>5. DOMAIN p = 1..(i + 1) /\ p \in Schedules
  BY <1>2, <1>3, SwapIsSchedule
<1>6. Len(p) = i + 1
  BY <1>5 DEF Schedules
<1> QED
  BY <1>1, <1>4, <1>6 DEF Origin

\* The first i tokens of a trace, the last of them replaced.
BeginsWith(t, i, x) == [SubSeq(t, 1, i) EXCEPT ![i] = x]

LEMMA LastReplaced ==
  ASSUME NEW t \in Schedules, NEW i \in 1..Len(t), NEW x \in Tokens
  PROVE  /\ BeginsWith(t, i, x) \in Schedules
         /\ Len(BeginsWith(t, i, x)) = i
         /\ BeginsWith(t, i, x)[i] = x
         /\ \A n \in 1..(i - 1) : BeginsWith(t, i, x)[n] = t[n]
<1>1. i \in 0..Len(t) /\ i \in Nat
  BY DEF Schedules
<1> DEFINE q == SubSeq(t, 1, i)
<1>2. q \in Schedules /\ Len(q) = i /\ \A n \in 1..i : q[n] = t[n]
  BY <1>1, SubSeqIsSchedule
<1>3. DOMAIN q = 1..i
  BY <1>2 DEF Schedules
<1> HIDE DEF q
<1> DEFINE p == [q EXCEPT ![i] = x]
<1>4. DOMAIN p = 1..i /\ p[i] = x /\ \A n \in 1..(i - 1) : p[n] = t[n]
  BY <1>1, <1>2, <1>3
<1>5. p \in Schedules
  BY <1>1, <1>2, <1>3 DEF Schedules
<1>6. BeginsWith(t, i, x) = p
  BY DEF BeginsWith, q
<1> HIDE DEF p
<1>7. Len(p) = i
  BY <1>1, <1>4, <1>5 DEF Schedules
<1> QED
  BY <1>4, <1>5, <1>6, <1>7

LEMMA DropShape ==
  ASSUME NEW t \in Schedules, NEW p \in DropPrefixes(t)
  PROVE  \E i \in 1..Len(t) :
           /\ p \in Schedules /\ Len(p) = i
           /\ \A n \in 1..(i - 1) : p[n] = t[n]
           /\ t[i].wrap = <<>> /\ p[i].wrap = <<"DROP">> /\ p[i].step = t[i].step
<1>0. PICK i \in Mutable(t) : p = [SubSeq(t, 1, i) EXCEPT ![i] = drop(SubSeq(t, 1, i)[i])]
  BY DEF DropPrefixes
<1>1. i \in 1..Len(t) /\ t[i] \in Tokens /\ t[i].wrap = <<>>
  BY MutableIsBare
<1>2. SubSeq(t, 1, i)[i] = t[i]
  BY <1>1, SubSeqIsSchedule DEF Schedules
<1>3. drop(t[i]) \in Tokens /\ drop(t[i]).step = t[i].step /\ drop(t[i]).wrap = <<"DROP">>
  BY <1>1, DropOfBare
<1>4. p = BeginsWith(t, i, drop(t[i]))
  BY <1>0, <1>2, Zenon DEF BeginsWith
<1>5. /\ p \in Schedules /\ Len(p) = i /\ p[i] = drop(t[i])
      /\ \A n \in 1..(i - 1) : p[n] = t[n]
  BY <1>1, <1>3, <1>4, LastReplaced
<1> QED
  BY <1>1, <1>3, <1>5

LEMMA DelayShape ==
  ASSUME NEW t \in Schedules, NEW p \in DelayPrefixes(t)
  PROVE  \E i \in 1..Len(t) :
           /\ p \in Schedules /\ Len(p) = i
           /\ \A n \in 1..(i - 1) : p[n] = t[n]
           /\ t[i].wrap = <<>> /\ p[i].wrap = <<"DELAY">> /\ p[i].step = t[i].step
<1>0. PICK i \in Mutable(t) : p = [SubSeq(t, 1, i) EXCEPT ![i] = delay(SubSeq(t, 1, i)[i])]
  BY DEF DelayPrefixes
<1>1. i \in 1..Len(t) /\ t[i] \in Tokens /\ t[i].wrap = <<>>
  BY MutableIsBare
<1>2. SubSeq(t, 1, i)[i] = t[i]
  BY <1>1, SubSeqIsSchedule DEF Schedules
<1>3. delay(t[i]) \in Tokens /\ delay(t[i]).step = t[i].step /\ delay(t[i]).wrap = <<"DELAY">>
  BY <1>1, DelayOfBare
<1>4. p = BeginsWith(t, i, delay(t[i]))
  BY <1>0, <1>2, Zenon DEF BeginsWith
<1>5. /\ p \in Schedules /\ Len(p) = i /\ p[i] = delay(t[i])
      /\ \A n \in 1..(i - 1) : p[n] = t[n]
  BY <1>1, <1>3, <1>4, LastReplaced
<1> QED
  BY <1>1, <1>3, <1>5

LEMMA MixedShape ==
  ASSUME NEW t \in Schedules, NEW p \in MixedPrefixes(t)
  PROVE  \E i \in 1..Len(t), j \in 1..Len(t) :
           /\ i # j
           /\ p \in Schedules /\ Len(p) = Later(i, j)
           /\ p[i].wrap = <<"DROP">> /\ p[i].step = t[i].step
           /\ p[j].wrap = <<"DELAY">> /\ p[j].step = t[j].step
           /\ \A n \in 1..Len(p) : n \notin {i, j} => p[n] = t[n]
<1> PICK i \in Mutable(t), j \in Mutable(t) : i # j /\ p = mixed_prefix(t, i, j)
  BY DEF MixedPrefixes
<1>1. /\ i \in 1..Len(t) /\ t[i] \in Tokens /\ t[i].wrap = <<>>
      /\ j \in 1..Len(t) /\ t[j] \in Tokens /\ t[j].wrap = <<>>
  BY MutableIsBare
<1> DEFINE k == Later(i, j)
<1> DEFINE q == SubSeq(t, 1, k)
<1>2. k \in 1..Len(t) /\ i \in 1..k /\ j \in 1..k
  BY <1>1 DEF Later, Schedules
<1>3. q \in Schedules /\ Len(q) = k /\ \A n \in 1..k : q[n] = t[n]
  <2>1. k \in 0..Len(t)
    BY <1>2 DEF Schedules
  <2> QED
    BY <2>1, SubSeqIsSchedule
<1>4. DOMAIN q = 1..k
  BY <1>2, <1>3 DEF Schedules
<1>5. /\ drop(t[i]) \in Tokens /\ drop(t[i]).step = t[i].step /\ drop(t[i]).wrap = <<"DROP">>
      /\ delay(t[j]) \in Tokens /\ delay(t[j]).step = t[j].step /\ delay(t[j]).wrap = <<"DELAY">>
  BY <1>1, DropOfBare, DelayOfBare
<1>6. p = [q EXCEPT ![i] = drop(t[i]), ![j] = delay(t[j])]
  BY <1>2, <1>3 DEF mixed_prefix
<1>7. p \in Schedules
  BY <1>2, <1>3, <1>4, <1>5, <1>6 DEF Schedules
<1> HIDE DEF q, k
<1>8. DOMAIN p = 1..k /\ p[i] = drop(t[i]) /\ p[j] = delay(t[j])
      /\ \A n \in 1..k : n \notin {i, j} => p[n] = t[n]
  BY <1>2, <1>3, <1>4, <1>6
<1>9. Len(p) = k
  BY <1>2, <1>7, <1>8 DEF Schedules
<1> QED
  BY <1>1, <1>5, <1>7, <1>8, <1>9 DEF k

\* Every token of a mutation is one of the trace, or one that has got a marker.
LEMMA MutationTokens ==
  ASSUME NEW t \in Schedules, NEW p \in Mutations(t)
  PROVE  /\ p \in Schedules /\ Len(p) \in Nat \ {0}
         /\ \A n \in 1..Len(p) : \E k \in 1..Len(t) :
              /\ p[n].step = t[k].step
              /\ \/ p[n] = t[k]
                 \/ EnableDrop /\ p[n].wrap = <<"DROP">>
                 \/ EnableDelay /\ p[n].wrap = <<"DELAY">>
<1>1. p \in Schedules
  BY MutationsAreSchedules
<1>2. Len(t) \in Nat
  BY DEF Schedules
<1>3. CASE p \in SwapPrefixes(t)
  <2> PICK i \in 1..(Len(t) - 1) : p = minimal_prefix_for_swap(t, i, i + 1)
    BY <1>3 DEF SwapPrefixes
  <2>1. Len(p) = i + 1 /\ \A n \in 1..(i + 1) : p[n] = t[Origin(i, n)]
    BY SwapShape
  <2>2. \A n \in 1..(i + 1) : Origin(i, n) \in 1..Len(t)
    BY <1>2 DEF Origin
  <2> QED
    BY <1>1, <1>2, <2>1, <2>2
<1>4. CASE EnableDrop /\ p \in DropPrefixes(t)
  <2> PICK i \in 1..Len(t) :
           /\ p \in Schedules /\ Len(p) = i
           /\ \A n \in 1..(i - 1) : p[n] = t[n]
           /\ t[i].wrap = <<>> /\ p[i].wrap = <<"DROP">> /\ p[i].step = t[i].step
    BY <1>4, DropShape
  <2>1. \A n \in 1..i : n = i \/ n \in 1..(i - 1)
    BY <1>2
  <2> QED
    BY <1>1, <1>2, <1>4, <2>1
<1>5. CASE EnableDelay /\ p \in DelayPrefixes(t)
  <2> PICK i \in 1..Len(t) :
           /\ p \in Schedules /\ Len(p) = i
           /\ \A n \in 1..(i - 1) : p[n] = t[n]
           /\ t[i].wrap = <<>> /\ p[i].wrap = <<"DELAY">> /\ p[i].step = t[i].step
    BY <1>5, DelayShape
  <2>1. \A n \in 1..i : n = i \/ n \in 1..(i - 1)
    BY <1>2
  <2> QED
    BY <1>1, <1>2, <1>5, <2>1
<1>6. CASE EnableDrop /\ EnableDelay /\ p \in MixedPrefixes(t)
  <2> PICK i \in 1..Len(t), j \in 1..Len(t) :
           /\ i # j
           /\ p \in Schedules /\ Len(p) = Later(i, j)
           /\ p[i].wrap = <<"DROP">> /\ p[i].step = t[i].step
           /\ p[j].wrap = <<"DELAY">> /\ p[j].step = t[j].step
           /\ \A n \in 1..Len(p) : n \notin {i, j} => p[n] = t[n]
    BY <1>6, MixedShape
  <2>1. Later(i, j) \in 1..Len(t)
    BY DEF Later
  <2>2. \A n \in 1..Len(p) : n \in 1..Len(t)
    BY <1>2, <2>1
  <2>3. Len(p) \in Nat \ {0}
    BY <1>2, <2>1
  <2>4. ASSUME NEW n \in 1..Len(p)
        PROVE  /\ p[n].step = t[n].step
               /\ \/ p[n] = t[n]
                  \/ EnableDrop /\ p[n].wrap = <<"DROP">>
                  \/ EnableDelay /\ p[n].wrap = <<"DELAY">>
    <3>1. CASE n = i
      BY <1>6, <3>1
    <3>2. CASE n = j
      BY <1>6, <3>2
    <3>3. CASE n \notin {i, j}
      BY <3>3
    <3> QED
      BY <3>1, <3>2, <3>3
  <2> QED
    BY <1>1, <2>2, <2>3, <2>4
<1> QED
  BY <1>3, <1>4, <1>5, <1>6, Zenon DEF Mutations

LEMMA MutationsAreAllowed ==
  ASSUME NEW t \in Schedules, NEW p \in Mutations(t)
  PROVE  /\ AllAllowed(t) => AllAllowed(p)
         /\ Remembered(t) => Remembered(p)
<1>1. ASSUME NEW n \in 1..Len(p)
      PROVE  \E k \in 1..Len(t) :
               /\ p[n].step = t[k].step
               /\ \/ p[n] = t[k]
                  \/ EnableDrop /\ p[n].wrap = <<"DROP">>
                  \/ EnableDelay /\ p[n].wrap = <<"DELAY">>
  BY MutationTokens
<1>2. ASSUME AllAllowed(t), NEW n \in 1..Len(p)
      PROVE  Allowed(p[n])
  <2> PICK k \in 1..Len(t) : \/ p[n] = t[k]
                             \/ EnableDrop /\ p[n].wrap = <<"DROP">>
                             \/ EnableDelay /\ p[n].wrap = <<"DELAY">>
    BY <1>1
  <2>1. Allowed(t[k])
    BY <1>2 DEF AllAllowed
  <2> QED
    BY <2>1, Zenon DEF Allowed
<1>3. ASSUME Remembered(t), NEW n \in 1..Len(p)
      PROVE  stable_response_cache[p[n].step] # NoStatus
  <2> PICK k \in 1..Len(t) : p[n].step = t[k].step
    BY <1>1
  <2> QED
    BY <1>3 DEF Remembered
<1> QED
  BY <1>2, <1>3 DEF AllAllowed, Remembered

LEMMA MarkerKinds ==
  ASSUME NEW x \in Tokens
  PROVE  /\ x.wrap = <<"DROP">> => is_drop(x) /\ ~is_delay(x)
         /\ x.wrap = <<"DELAY">> => is_delay(x) /\ ~is_drop(x)
         /\ x.wrap = <<>> => ~is_drop(x) /\ ~is_delay(x)
<1>1. CASE x.wrap = <<"DROP">>
  BY <1>1 DEF is_drop, is_delay, Outer, undrop, Strip, Tokens
<1>2. CASE x.wrap = <<"DELAY">>
  BY <1>2 DEF is_drop, is_delay, Outer, undrop, Strip, Tokens
<1>3. CASE x.wrap = <<>>
  BY <1>3 DEF is_drop, is_delay, Outer, undrop, Strip, Tokens
<1>4. <<"DROP">> # <<"DELAY">> /\ <<>> # <<"DROP">> /\ <<>> # <<"DELAY">>
  OBVIOUS
<1> QED
  BY <1>1, <1>2, <1>3, <1>4

LEMMA MixedPrefixesAreMixed ==
  ASSUME NEW t \in Schedules, NEW p \in MixedPrefixes(t)
  PROVE  Mixed(p)
<1> PICK i \in 1..Len(t), j \in 1..Len(t) :
         /\ p \in Schedules /\ Len(p) = Later(i, j)
         /\ p[i].wrap = <<"DROP">> /\ p[j].wrap = <<"DELAY">>
  BY MixedShape
<1>1. i \in 1..Len(p) /\ j \in 1..Len(p) /\ p[i] \in Tokens /\ p[j] \in Tokens
  BY DEF Later, Schedules
<1> QED
  BY <1>1, MarkerKinds DEF Mixed, has_drop, has_delay

\* With one kind of mutation there are no mixed prefixes.
LEMMA AllowedIsUnmixed ==
  ASSUME NEW p \in Schedules, AllAllowed(p), ~(EnableDrop /\ EnableDelay)
  PROVE  ~Mixed(p)
<1>1. \A i \in 1..Len(p) : p[i] \in Tokens
  BY DEF Schedules
<1>2. \A i \in 1..Len(p) : /\ is_drop(p[i]) => EnableDrop
                           /\ is_delay(p[i]) => EnableDelay
  BY <1>1, MarkerKinds DEF AllAllowed, Allowed
<1> QED
  BY <1>2 DEF Mixed, has_drop, has_delay

LEMMA AllowedMatches ==
  ASSUME NEW x \in Tokens, Allowed(x)
  PROVE  Matches(x, x.step)
<1>1. ~ _is_nested_wrapper(x)
  <2>1. x.wrap \in {<<>>, <<"DROP">>, <<"DELAY">>}
    BY DEF Allowed
  <2> QED
    BY <2>1, OneMarkerIsNotNested
<1>2. CASE x.wrap = <<>>
  BY <1>1, <1>2 DEF Matches, Base, Tokens
<1>3. CASE x.wrap = <<"DROP">>
  BY <1>1, <1>3 DEF Matches, Base, Tokens, is_drop, undrop, Outer, Strip
<1>4. CASE x.wrap = <<"DELAY">>
  BY <1>1, <1>4 DEF Matches, Base, Tokens, is_drop, undrop, is_delay, undelay, Outer, Strip
<1> QED
  BY <1>2, <1>3, <1>4 DEF Allowed
----------------------------------------------------------------------------
(* Walks *)

LEMMA WorkloadTypes ==
  ASSUME workload \in Workloads
  PROVE  /\ workload.program \in [Threads -> Seq(Steps)]
         /\ workload.moves \in [Steps -> [{200, 404} -> Nat \ {0}]]
         /\ OwnSteps(workload)
BY ExplorationAssumption DEF WorkloadShape

LEMMA StepsAreOwn ==
  ASSUME workload \in Workloads, NEW t \in Threads, NEW i \in 1..Len(workload.program[t])
  PROVE  /\ \A u \in Threads : \A j \in 1..Len(workload.program[u]) :
              workload.program[t][i] = workload.program[u][j] => t = u /\ i = j
         /\ \A j \in 1..Len(workload.program[t]) :
              ThreadOf[workload.program[t][i]] = ThreadOf[workload.program[t][j]]
<1> DEFINE w == workload
<1>1. OwnSteps(w)
  BY ExplorationAssumption
<1> HIDE DEF w
<1>2. /\ \A u \in Threads : \A j \in 1..Len(w.program[u]) :
              w.program[t][i] = w.program[u][j] => t = u /\ i = j
      /\ \A j \in 1..Len(w.program[t]) :
              ThreadOf[w.program[t][i]] = ThreadOf[w.program[t][j]]
  <2>1. i \in 1..Len(w.program[t])
    BY DEF w
  <2> QED
    BY <1>1, <2>1 DEF OwnSteps
<1> QED
  BY <1>2 DEF w

LEMMA ToldTypes ==
  ASSUME AnswersKnown, NEW here, NEW x \in Tokens
  PROVE  Told(here, x) \in {200, 404, 503}
<1>1. x.step \in Steps
  BY DEF Tokens
<1>2. stable_response_cache[x.step] \in {NoStatus, 200, 404, 503}
  BY <1>1 DEF AnswersKnown
<1>3. ArtifactOk = 200
  BY ExplorationAssumption
<1> QED
  BY <1>2, <1>3 DEF Told, artifact_response_for

\* A thread that does not branch takes one step with every turn.
LEMMA StraightTurns ==
  ASSUME workload \in Workloads, AnswersKnown, Straight,
         NEW here \in Places, NEW x \in Tokens, NEW t \in Threads, Presents(t, here, x)
  PROVE  There(t, here, x).at = [here.at EXCEPT ![t] = @ + 1]
<1>1. x.step \in Steps
  BY DEF Tokens
<1>2. Told(here, x) \in {200, 404}
  <2>1. stable_response_cache[x.step] \in {NoStatus, 200}
    BY <1>1 DEF AnswersKnown
  <2>2. ArtifactOk = 200
    BY ExplorationAssumption
  <2> QED
    BY <2>1, <2>2 DEF Told, artifact_response_for
<1>3. workload.moves[x.step][Told(here, x)] = 1
  BY <1>1, <1>2 DEF Straight
<1>4. Onward(t, here.at[t], Told(here, x)) = here.at[t] + 1
  BY <1>2, <1>3 DEF Onward, Presents
<1> QED
  BY <1>4 DEF There

\* A turn leads from a place to a place.
LEMMA TurnsLeadSomewhere ==
  ASSUME workload \in Workloads, AnswersKnown,
         NEW here \in Places, NEW x \in Tokens, NEW t \in Threads, Presents(t, here, x)
  PROVE  There(t, here, x) \in Places
<1>1. /\ workload.program[t] \in Seq(Steps)
      /\ Len(workload.program[t]) \in Nat
      /\ here.at \in [Threads -> Nat \ {0}] /\ here.executed \subseteq Steps
      /\ x.step \in Steps
  BY WorkloadTypes DEF Places, Tokens
<1>2. Onward(t, here.at[t], Told(here, x)) \in Nat \ {0}
  <2>1. CASE Told(here, x) = 503
    BY <1>1, <2>1 DEF Onward
  <2>2. CASE Told(here, x) \in {200, 404} /\ Told(here, x) # 503
    <3>1. workload.moves[x.step][Told(here, x)] \in Nat \ {0}
      BY <1>1, <2>2, WorkloadTypes
    <3>2. Onward(t, here.at[t], Told(here, x)) = here.at[t] + workload.moves[x.step][Told(here, x)]
      BY <2>2 DEF Onward, Presents
    <3>3. here.at[t] \in Nat \ {0}
      BY <1>1
    <3> QED
      BY <3>1, <3>2, <3>3
  <2> QED
    BY <2>1, <2>2, ToldTypes
<1> QED
  BY <1>1, <1>2 DEF There, Places

LEMMA NoStepsWalked ==
  ASSUME NEW p, p = <<>>
  PROVE  \E h : Walk(h, p) /\ h[0] = StartPlace
<1> DEFINE h == [i \in 0..0 |-> StartPlace]
<1>1. StartPlace \in Places
  BY DEF StartPlace, Places, Start
<1>2. Walk(h, p) /\ h[0] = StartPlace
  BY <1>1 DEF Walk
<1> QED
  BY <1>2

\* A walk along the first tokens of a sequence can take another turn there.
LEMMA WalkTurns ==
  ASSUME NEW t \in Schedules, NEW h, Walk(h, t),
         NEW i \in 1..(Len(t) + 1), NEW q \in Schedules, Len(q) = i,
         \A n \in 1..(i - 1) : q[n] = t[n],
         NEW u \in Threads, Presents(u, h[i - 1], q[i]), There(u, h[i - 1], q[i]) \in Places
  PROVE  \E g : Walk(g, q) /\ g[i - 1] = h[i - 1] /\ g[i] = There(u, h[i - 1], q[i])
<1>1. Len(t) \in Nat /\ i \in Nat
  BY DEF Schedules
<1> DEFINE there == There(u, h[i - 1], q[i])
<1> DEFINE g == [n \in 0..i |-> IF n = i THEN there ELSE h[n]]
<1>2. \A n \in 0..(i - 1) : g[n] = h[n] /\ h[n] \in Places
  <2>1. \A n \in 0..(i - 1) : n \in 0..i /\ n # i /\ n \in 0..Len(t)
    BY <1>1
  <2>2. \A n \in 0..Len(t) : h[n] \in Places
    BY DEF Walk
  <2> HIDE DEF there
  <2> QED
    BY <2>1, <2>2
<1>3. g[i] = there /\ i - 1 \in 0..(i - 1)
  BY <1>1
<1>4. g \in [0..Len(q) -> Places]
  <2>1. \A n \in 0..i : n = i \/ n \in 0..(i - 1)
    BY <1>1
  <2> QED
    BY <1>2, <1>3, <2>1
<1>5. g[0] = StartPlace
  BY <1>1, <1>2 DEF Walk
<1> HIDE DEF g
<1>6. ASSUME NEW n \in 1..Len(q)
      PROVE  \E v \in Threads : Presents(v, g[n - 1], q[n]) /\ g[n] = There(v, g[n - 1], q[n])
  <2>1. CASE n = i
    BY <1>2, <1>3, <2>1
  <2>2. CASE n # i
    <3>1. n \in 1..(i - 1) /\ n \in 1..Len(t) /\ n - 1 \in 0..(i - 1) /\ n \in 0..(i - 1)
      BY <1>1, <2>2
    <3>2. g[n - 1] = h[n - 1] /\ g[n] = h[n] /\ q[n] = t[n]
      BY <1>2, <3>1
    <3> QED
      BY <3>1, <3>2 DEF Walk
  <2> QED
    BY <2>1, <2>2
<1>7. Walk(g, q)
  BY <1>4, <1>5, <1>6 DEF Walk
<1> QED
  BY <1>2, <1>3, <1>7

\* The same step can be taken with another marker.
LEMMA WalkWithAnotherMarker ==
  ASSUME workload \in Workloads, AnswersKnown,
         NEW t \in Schedules, NEW h, Walk(h, t),
         NEW i \in 1..Len(t), NEW q \in Schedules, Len(q) = i,
         \A n \in 1..(i - 1) : q[n] = t[n], q[i].step = t[i].step
  PROVE  \E g : Walk(g, q)
<1>1. i \in 1..(Len(t) + 1) /\ i - 1 \in 0..Len(t) /\ q[i] \in Tokens
  BY DEF Schedules
<1>2. h[i - 1] \in Places
  BY <1>1 DEF Walk
<1> PICK u \in Threads : Presents(u, h[i - 1], t[i])
  BY DEF Walk
<1>3. Presents(u, h[i - 1], q[i])
  BY DEF Presents
<1>4. There(u, h[i - 1], q[i]) \in Places
  BY <1>1, <1>2, <1>3, TurnsLeadSomewhere
<1> QED
  BY <1>1, <1>3, <1>4, WalkTurns

\* Two threads that wait together may go in either order.
LEMMA SwapWalks ==
  ASSUME workload \in Workloads, AnswersKnown,
         NEW t \in Schedules, NEW h, Walk(h, t), NEW i \in 1..(Len(t) - 1), Swappable(t, i)
  PROVE  \E g : Walk(g, minimal_prefix_for_swap(t, i, i + 1))
<1> DEFINE q == minimal_prefix_for_swap(t, i, i + 1)
<1> DEFINE here == h[i - 1]
<1>1. /\ Len(t) \in Nat /\ i \in 1..Len(t) /\ i + 1 \in 1..Len(t)
      /\ i - 1 \in 0..Len(t) /\ (i + 1) - 1 = i /\ i \in Nat
      /\ t[i] \in Tokens /\ t[i + 1] \in Tokens
  BY DEF Schedules
<1>2. here \in Places
  BY <1>1 DEF Walk
<1>3. PICK u \in Threads : Presents(u, here, t[i]) /\ h[i] = There(u, here, t[i])
  BY <1>1 DEF Walk
<1>4. PICK v \in Threads : Presents(v, h[i], t[i + 1])
  BY <1>1 DEF Walk
<1> HIDE DEF here
<1>5. u # v
  <2> SUFFICES ASSUME u = v PROVE FALSE
    OBVIOUS
  <2>1. h[i] \in Places
    BY <1>1 DEF Walk
  <2>2. here.at[u] \in 1..Len(workload.program[u]) /\ h[i].at[u] \in 1..Len(workload.program[u])
    <3>1. Len(workload.program[u]) \in Nat
      BY WorkloadTypes
    <3> QED
      BY <1>2, <1>3, <1>4, <2>1, <3>1 DEF Places, Presents
  <2>3. ThreadOf[t[i].step] = ThreadOf[t[i + 1].step]
    <3>1. t[i].step = workload.program[u][here.at[u]] /\ t[i + 1].step = workload.program[u][h[i].at[u]]
      BY <1>3, <1>4 DEF Presents
    <3>2. \A a, b \in 1..Len(workload.program[u]) :
            ThreadOf[workload.program[u][a]] = ThreadOf[workload.program[u][b]]
      BY StepsAreOwn
    <3> QED
      <4>1. PICK a \in 1..Len(workload.program[u]) : a = here.at[u]
        BY <2>2
      <4>2. PICK b \in 1..Len(workload.program[u]) : b = h[i].at[u]
        BY <2>2
      <4>3. ThreadOf[workload.program[u][a]] = ThreadOf[workload.program[u][b]]
        BY <3>2
      <4>4. t[i].step = workload.program[u][a] /\ t[i + 1].step = workload.program[u][b]
        BY <3>1, <4>1, <4>2
      <4> QED
        BY <4>3, <4>4, Zenon
  <2> QED
    BY <2>3 DEF Swappable, thread
<1>6. Presents(v, here, t[i + 1])
  <2>1. h[i].at[v] = here.at[v]
    BY <1>2, <1>3, <1>5 DEF There, Places
  <2> QED
    BY <1>4, <2>1 DEF Presents
<1>7. /\ q \in Schedules /\ Len(q) = i + 1
      /\ q[i] = t[i + 1] /\ q[i + 1] = t[i]
      /\ \A n \in 1..(i - 1) : q[n] = t[n]
  <2>1. Len(q) = i + 1 /\ \A n \in 1..(i + 1) : q[n] = t[Origin(i, n)]
    BY SwapShape
  <2>2. i \in 1..(i + 1) /\ i + 1 \in 1..(i + 1) /\ Origin(i, i) = i + 1 /\ Origin(i, i + 1) = i
    BY <1>1 DEF Origin
  <2>3. \A n \in 1..(i - 1) : n \in 1..(i + 1) /\ Origin(i, n) = n
    BY <1>1 DEF Origin
  <2> QED
    BY <2>1, <2>2, <2>3, SwapIsSchedule
<1> HIDE DEF q
<1> DEFINE q1 == SubSeq(q, 1, i)
<1>8. /\ q1 \in Schedules /\ Len(q1) = i
      /\ \A n \in 1..i : q1[n] = q[n]
  BY <1>1, <1>7, SubSeqIsSchedule
<1> HIDE DEF q1
<1>9. q1[i] = t[i + 1] /\ \A n \in 1..(i - 1) : q1[n] = t[n]
  BY <1>1, <1>7, <1>8
<1>10. PICK g : Walk(g, q1) /\ g[i] = There(v, here, t[i + 1])
  <2>1. There(v, h[i - 1], q1[i]) \in Places
    BY <1>1, <1>2, <1>6, <1>9, TurnsLeadSomewhere DEF here
  <2>2. i \in 1..(Len(t) + 1)
    BY <1>1
  <2> QED
    BY <1>6, <1>8, <1>9, <2>1, <2>2, WalkTurns DEF here
<1>11. g[i] \in Places
  BY <1>1, <1>2, <1>6, <1>10, TurnsLeadSomewhere
<1>12. Presents(u, g[i], t[i])
  <2>1. g[i].at[u] = here.at[u]
    BY <1>2, <1>5, <1>10 DEF There, Places
  <2> QED
    BY <1>3, <2>1 DEF Presents
<1>13. There(u, g[(i + 1) - 1], q[i + 1]) \in Places
  BY <1>1, <1>7, <1>11, <1>12, TurnsLeadSomewhere
<1>14. i + 1 \in 1..(Len(q1) + 1) /\ \A n \in 1..((i + 1) - 1) : q[n] = q1[n]
  BY <1>1, <1>8
<1>15. Presents(u, g[(i + 1) - 1], q[i + 1])
  BY <1>1, <1>7, <1>12
<1> QED
  BY <1>7, <1>8, <1>10, <1>13, <1>14, <1>15, WalkTurns DEF q

\* Threads that do not branch take the same steps under whatever markers.
LEMMA StraightWalks ==
  ASSUME workload \in Workloads, AnswersKnown, Straight,
         NEW t \in Schedules, NEW h, Walk(h, t),
         NEW q \in Schedules, Len(q) <= Len(t), \A n \in 1..Len(q) : q[n].step = t[n].step
  PROVE  \E g : Walk(g, q)
<1>1. /\ Len(t) \in Nat /\ Len(q) \in Nat
      /\ \A n \in 1..Len(q) : q[n] \in Tokens
      /\ \A n \in 1..Len(t) : t[n] \in Tokens
  BY DEF Schedules
<1> DEFINE Done(n) == {q[k].step : k \in {i \in 1..n : ~is_drop(q[i])}}
<1> DEFINE g == [n \in 0..Len(q) |-> [at |-> h[n].at, executed |-> Done(n)]]
<1>2. \A n \in 0..Len(q) : n \in 0..Len(t) /\ h[n] \in Places
  BY <1>1 DEF Walk
<1>3. ASSUME NEW n \in 0..Len(q)
      PROVE  g[n] \in Places /\ g[n].at = h[n].at /\ g[n].executed = Done(n)
  <2>1. Done(n) \subseteq Steps
    <3>1. \A k \in 1..n : q[k].step \in Steps
      BY <1>1 DEF Tokens
    <3> QED
      BY <3>1
  <2> HIDE DEF Done
  <2> QED
    BY <1>2, <2>1 DEF Places
<1>4. g \in [0..Len(q) -> Places]
  <2> HIDE DEF Done
  <2> QED
    BY <1>3
<1>5. g[0] = StartPlace
  <2>1. Done(0) = {}
    OBVIOUS
  <2>2. h[0] = StartPlace /\ 0 \in 0..Len(q)
    BY <1>1 DEF Walk
  <2>3. g[0] = [at |-> h[0].at, executed |-> Done(0)]
    <3> HIDE DEF Done
    <3> QED
      BY <2>2
  <2>4. h[0].at = Start
    BY <2>2 DEF StartPlace
  <2> QED
    BY <2>1, <2>3, <2>4, Zenon DEF StartPlace
<1>6. ASSUME NEW n \in 1..Len(q)
      PROVE  \E v \in Threads : Presents(v, g[n - 1], q[n]) /\ g[n] = There(v, g[n - 1], q[n])
  <2>1. /\ n \in 1..Len(t) /\ n - 1 \in 0..Len(q) /\ n \in 0..Len(q)
        /\ q[n] \in Tokens /\ t[n] \in Tokens /\ q[n].step = t[n].step
    BY <1>1
  <2>2. PICK v \in Threads : Presents(v, h[n - 1], t[n]) /\ h[n] = There(v, h[n - 1], t[n])
    BY <2>1 DEF Walk
  <2>3. /\ h[n - 1] \in Places /\ g[n - 1] \in Places /\ g[n - 1].at = h[n - 1].at
        /\ g[n].at = h[n].at /\ g[n].executed = Done(n) /\ g[n - 1].executed = Done(n - 1)
    BY <1>2, <1>3, <2>1
  <2>4. g[n] = [at |-> h[n].at, executed |-> Done(n)]
    <3> HIDE DEF Done
    <3> QED
      BY <2>1
  <2>5. Done(n) = IF is_drop(q[n]) THEN Done(n - 1) ELSE Done(n - 1) \cup {q[n].step}
    <3>1. \A k \in 1..n : k = n \/ k \in 1..(n - 1)
      BY <2>1
    <3>2. \A k \in 1..(n - 1) : k \in 1..n /\ k # n
      BY <2>1
    <3> QED
      BY <2>1, <3>1, <3>2
  <2> HIDE DEF g, Done
  <2>6. Presents(v, g[n - 1], q[n])
    BY <2>1, <2>2, <2>3 DEF Presents
  <2>7. /\ There(v, h[n - 1], t[n]).at = [h[n - 1].at EXCEPT ![v] = @ + 1]
        /\ There(v, g[n - 1], q[n]).at = [g[n - 1].at EXCEPT ![v] = @ + 1]
    <3>1. PICK a \in Places, b \in Places, x \in Tokens, y \in Tokens :
            a = h[n - 1] /\ b = g[n - 1] /\ x = t[n] /\ y = q[n]
      BY <2>1, <2>3
    <3>2. Presents(v, a, x) /\ Presents(v, b, y)
      BY <2>2, <2>6, <3>1
    <3>3. /\ There(v, a, x).at = [a.at EXCEPT ![v] = @ + 1]
          /\ There(v, b, y).at = [b.at EXCEPT ![v] = @ + 1]
      BY <3>2, StraightTurns
    <3> QED
      BY <3>1, <3>3
  <2>8. There(v, g[n - 1], q[n]).at = h[n].at
    BY <2>2, <2>3, <2>7
  <2>9. There(v, g[n - 1], q[n]).executed = Done(n)
    BY <2>3, <2>5 DEF There
  <2>10. There(v, g[n - 1], q[n]) = [at |-> h[n].at, executed |-> Done(n)]
    BY <2>8, <2>9, Zenon DEF There
  <2> QED
    BY <2>4, <2>6, <2>10
<1>7. Walk(g, q)
  <2> HIDE DEF g
  <2> QED
    BY <1>4, <1>5, <1>6 DEF Walk
<1> QED
  BY <1>7

(* What is derived from a trace that can be followed can be followed, unless it
   both drops a step and delays another, and threads branch. *)
LEMMA MutationsCanBeFollowed ==
  ASSUME workload \in Workloads, AnswersKnown,
         NEW t \in Schedules, NEW h, Walk(h, t), NEW p \in Mutations(t), Followable(p)
  PROVE  \E g : Walk(g, p)
<1>1. CASE p \in SwapPrefixes(t)
  BY <1>1, SwapWalks DEF SwapPrefixes
<1>2. CASE p \in DropPrefixes(t)
  <2> PICK i \in 1..Len(t) : /\ p \in Schedules /\ Len(p) = i
                             /\ \A n \in 1..(i - 1) : p[n] = t[n]
                             /\ p[i].step = t[i].step
    BY <1>2, DropShape
  <2> QED
    BY WalkWithAnotherMarker
<1>3. CASE p \in DelayPrefixes(t)
  <2> PICK i \in 1..Len(t) : /\ p \in Schedules /\ Len(p) = i
                             /\ \A n \in 1..(i - 1) : p[n] = t[n]
                             /\ p[i].step = t[i].step
    BY <1>3, DelayShape
  <2> QED
    BY WalkWithAnotherMarker
<1>4. CASE p \in MixedPrefixes(t)
  <2>1. Straight
    BY <1>4, MixedPrefixesAreMixed DEF Followable
  <2> PICK i \in 1..Len(t), j \in 1..Len(t) :
           /\ p \in Schedules /\ Len(p) = Later(i, j)
           /\ p[i].step = t[i].step /\ p[j].step = t[j].step
           /\ \A n \in 1..Len(p) : n \notin {i, j} => p[n] = t[n]
    BY <1>4, MixedShape
  <2>2. Len(p) <= Len(t)
    BY DEF Later, Schedules
  <2>3. \A n \in 1..Len(p) : p[n].step = t[n].step
    OBVIOUS
  <2> QED
    BY <2>1, <2>2, <2>3, StraightWalks
<1> QED
  BY <1>1, <1>2, <1>3, <1>4, Zenon DEF Mutations

\* What is remembered stays remembered.
CacheGrows ==
  \A s \in Steps : stable_response_cache[s] # NoStatus =>
    stable_response_cache'[s] = stable_response_cache[s]

LEMMA ScheduleSteps ==
  ASSUME NEW p \in Schedules
  PROVE  \A i \in 1..Len(p) : p[i] \in Tokens /\ p[i].step \in Steps
<1>1. \A i \in 1..Len(p) : p[i] \in Tokens
  BY DEF Schedules
<1>2. \A x \in Tokens : x.step \in Steps
  BY DEF Tokens
<1> QED
  BY <1>1, <1>2

LEMMA RememberedStays ==
  ASSUME CacheGrows, NEW p \in Schedules, Remembered(p)
  PROVE  Remembered(p)'
<1>1. \A i \in 1..Len(p) : p[i].step \in Steps
  BY ScheduleSteps
<1> QED
  BY <1>1 DEF Remembered, CacheGrows

\* What the answers along a walk depend on, of the caches.
DropsRemembered(p) ==
  \A i \in 1..Len(p) : is_drop(p[i]) => stable_response_cache[p[i].step] # NoStatus

LEMMA WalkStays ==
  ASSUME CacheGrows, UNCHANGED workload, NEW p \in Schedules, DropsRemembered(p), NEW h, Walk(h, p)
  PROVE  Walk(h, p)'
<1>1. \A i \in 1..Len(p) : p[i].step \in Steps
  BY ScheduleSteps
<1>2. ASSUME NEW i \in 1..Len(p), NEW here
      PROVE  Told(here, p[i])' = Told(here, p[i])
  BY <1>1 DEF DropsRemembered, CacheGrows, Told, artifact_response_for
<1>3. ASSUME NEW i \in 1..Len(p), NEW here, NEW t
      PROVE  /\ Presents(t, here, p[i])' <=> Presents(t, here, p[i])
             /\ There(t, here, p[i])' = There(t, here, p[i])
  <2>1. PICK c : c = Told(here, p[i])
    OBVIOUS
  <2>2. Told(here, p[i])' = c
    BY <1>2, <2>1
  <2>3. Presents(t, here, p[i])' <=> Presents(t, here, p[i])
    BY DEF Presents
  <2>4. There(t, here, p[i])' = There(t, here, p[i])
    BY <2>1, <2>2, Zenon DEF There, Onward
  <2> QED
    BY <2>3, <2>4
<1> QED
  BY <1>3 DEF Walk
----------------------------------------------------------------------------
(* A thread takes its turn *)

LEMMA WaitingStep ==
  ASSUME TypeOK, NEW t \in Threads, Waiting(t)
  PROVE  StepOf(t) \in Steps /\ at[t] \in 1..Len(workload.program[t])
<1>1. workload.program[t] \in Seq(Steps) /\ Len(workload.program[t]) \in Nat /\ at[t] \in Nat \ {0}
  BY WorkloadTypes DEF TypeOK
<1>2. at[t] \in 1..Len(workload.program[t])
  BY <1>1 DEF Waiting
<1> QED
  BY <1>1, <1>2 DEF StepOf

LEMMA CacheIsExtended ==
  ASSUME AnswersKnown, UNCHANGED workload,
         NEW s \in Steps, NEW status \in {200, 404, 503}, Straight => status = 200,
         stable_response_cache' = SetDefault(stable_response_cache, s, status)
  PROVE  AnswersKnown' /\ CacheGrows /\ stable_response_cache'[s] # NoStatus
<1>1. Straight' <=> Straight
  BY DEF Straight
<1> QED
  BY <1>1 DEF AnswersKnown, CacheGrows, SetDefault, NoStatus

LEMMA SameAnswers ==
  ASSUME UNCHANGED <<workload, stable_response_cache>>
  PROVE  /\ Straight' <=> Straight
         /\ AnswersKnown' <=> AnswersKnown
         /\ CacheGrows
<1>1. Straight' <=> Straight
  BY DEF Straight
<1> QED
  BY <1>1 DEF AnswersKnown, CacheGrows

\* What changes when thread t takes its turn: it executes its step, under the
\* marker the schedule has for it.
LEMMA TurnMoves ==
  ASSUME ExplorationInv, NEW t \in Threads, Waiting(t), DropRequest(t) \/ ForwardRequest(t),
         UNCHANGED workload
  PROVE  /\ Granted(StepOf(t)) \in Tokens /\ Granted(StepOf(t)).step = StepOf(t)
         /\ Presents(t, Here, Granted(StepOf(t)))
         /\ Here' = There(t, Here, Granted(StepOf(t)))
         /\ TakeTurn(StepOf(t), TRUE) /\ trace' = Append(trace, Granted(StepOf(t)))
         /\ UNCHANGED exploreVars
         /\ current_result = "SUCCESS" /\ current_result' = "SUCCESS"
         /\ AnswersKnown' /\ CacheGrows
         /\ is_drop(Granted(StepOf(t))) \/ stable_response_cache'[StepOf(t)] # NoStatus
         /\ TypeOK'
<1> DEFINE s == StepOf(t)
<1> DEFINE x == Granted(s)
<1>1. s \in Steps /\ at[t] \in 1..Len(workload.program[t])
  BY WaitingStep DEF ExplorationInv
<1>2. CanTakeTurn(s)
  BY DEF DropRequest, ForwardRequest, DropStep, Forward
<1>3. x \in Tokens /\ x.step = s
  BY <1>1, <1>2, GrantedIsToken, GrantedStep DEF ExplorationInv, TypeOK, SimTypeOK
<1>4. Here \in Places /\ Presents(t, Here, x)
  BY <1>1, <1>3 DEF Places, Here, Presents, Waiting, StepOf, ExplorationInv, TypeOK
<1>5. current_result = "SUCCESS"
  BY <1>2 DEF CanTakeTurn
<1>6. AnswerTo(s) \in {200, 404}
  BY DEF AnswerTo
<1>7. /\ Here' = There(t, Here, x)
      /\ TakeTurn(s, TRUE) /\ trace' = Append(trace, x)
      /\ UNCHANGED exploreVars
      /\ current_result' = "SUCCESS"
      /\ AnswersKnown' /\ CacheGrows
      /\ is_drop(x) \/ stable_response_cache'[s] # NoStatus
      /\ SimTypeOK'
  <2>1. CASE DropRequest(t)
    <3>1. DropStep(s) /\ MoveOn(t, artifact_response_for(s)) /\ executed' = executed
      BY <2>1 DEF DropRequest
    <3>2. is_drop(x)
      BY <3>1 DEF DropStep
    <3>3. Told(Here, x) = artifact_response_for(s)
      BY <1>3, <3>2 DEF Told
    <3>4. Here' = There(t, Here, x)
      BY <3>1, <3>2, <3>3 DEF There, Here, MoveOn
    <3>5. SimTypeOK'
      BY <1>1, <3>1, HandlerTypes DEF ExplorationInv, TypeOK
    <3>6. UNCHANGED stable_response_cache
      BY <3>1 DEF DropStep
    <3>7. AnswersKnown' /\ CacheGrows
      BY <3>6, SameAnswers DEF ExplorationInv
    <3> QED
      BY <1>5, <3>1, <3>2, <3>4, <3>5, <3>7 DEF DropStep
  <2>2. CASE ForwardRequest(t)
    <3> DEFINE status == AnswerTo(s)
    <3>1. Forward(s, status) /\ MoveOn(t, status) /\ executed' = executed \cup {s}
      BY <2>2 DEF ForwardRequest
    <3>2. ~is_drop(x)
      BY <3>1 DEF Forward
    <3>3. Told(Here, x) = status
      BY <1>3, <3>2 DEF Told, Here, AnswerTo
    <3>4. Here' = There(t, Here, x)
      BY <1>3, <3>1, <3>2, <3>3 DEF There, Here, MoveOn
    <3>5. status \in Statuses
      BY <1>6, ExplorationAssumption
    <3>6. SimTypeOK'
      BY <1>1, <3>1, <3>5, HandlerTypes DEF ExplorationInv, TypeOK
    <3> HIDE DEF status
    <3>7. stable_response_cache' = SetDefault(stable_response_cache, s, status)
      BY <3>1 DEF Forward
    <3>8. status \in {200, 404, 503} /\ (Straight => status = 200)
      BY <1>1, <1>6 DEF status, AnswerTo, Straight
    <3>9. AnswersKnown' /\ CacheGrows /\ stable_response_cache'[s] # NoStatus
      BY <1>1, <3>7, <3>8, CacheIsExtended DEF ExplorationInv
    <3>10. classify_http_failure(status) = "SUCCESS"
      BY <1>6, ExplorationAssumption DEF classify_http_failure, status
    <3>11. current_result' = "SUCCESS"
      BY <1>5, <3>1, <3>10 DEF Forward, Classified
    <3> QED
      BY <3>1, <3>4, <3>6, <3>9, <3>11 DEF Forward
  <2> QED
    BY <2>1, <2>2
<1>8. Here' \in Places
  BY <1>3, <1>4, <1>7, TurnsLeadSomewhere DEF ExplorationInv, TypeOK
<1>9. TypeOK'
  BY <1>7, <1>8 DEF TypeOK, Here, Places, ExplorationInv
<1> QED
  BY <1>3, <1>4, <1>5, <1>7, <1>9

LEMMA SameFollowable ==
  ASSUME UNCHANGED workload, NEW p
  PROVE  Followable(p)' <=> Followable(p)
BY DEF Followable, Mixed, Straight

LEMMA PlannedStays ==
  ASSUME PlannedInv, CacheGrows, UNCHANGED <<workload, pending_prefixes>>,
         \A e \in pending_prefixes : e.prefix \in Schedules
  PROVE  PlannedInv'
<1> SUFFICES ASSUME NEW e \in pending_prefixes
             PROVE  /\ Remembered(e.prefix)' /\ AllAllowed(e.prefix)
                    /\ Followable(e.prefix) => \E h : Walk(h, e.prefix)'
  BY SameFollowable DEF PlannedInv, AllAllowed
<1>1. Remembered(e.prefix) /\ AllAllowed(e.prefix) /\ e.prefix \in Schedules
  BY DEF PlannedInv
<1>2. DropsRemembered(e.prefix)
  BY <1>1 DEF Remembered, DropsRemembered
<1>3. ASSUME Followable(e.prefix)
      PROVE  \E h : Walk(h, e.prefix)'
  <2> PICK h : Walk(h, e.prefix)
    BY <1>3 DEF PlannedInv
  <2>1. Walk(h, e.prefix)'
    BY <1>1, <1>2, WalkStays
  <2> QED
    BY <2>1
<1> QED
  BY <1>1, <1>3, RememberedStays

\* The run walks on along its trace, and along its prefix where it has one left.
LEMMA TurnKeepsRun ==
  ASSUME ExplorationInv, NEW t \in Threads, Waiting(t), DropRequest(t) \/ ForwardRequest(t),
         UNCHANGED workload
  PROVE  RunInv' /\ HonoursPrefix'
<1> DEFINE s == StepOf(t)
<1>0. SimTypeOK /\ SchedTypeOK /\ HonoursPrefix /\ RunInv /\ AnswersKnown /\ workload \in Workloads
  BY DEF ExplorationInv, TypeOK, SimTypeOK, ReplayInv
<1>1. PICK x \in Tokens : x = Granted(s)
  BY TurnMoves
<1>2. /\ x.step = s /\ s \in Steps
      /\ Presents(t, Here, x) /\ Here' = There(t, Here, x)
      /\ TakeTurn(s, TRUE) /\ trace' = Append(trace, x)
      /\ UNCHANGED exploreVars
      /\ current_result = "SUCCESS" /\ current_result' = "SUCCESS"
      /\ AnswersKnown' /\ CacheGrows
      /\ is_drop(x) \/ stable_response_cache'[s] # NoStatus
      /\ Here \in Places /\ Here' \in Places
  <2>1. Here \in Places
    BY DEF Here, Places, ExplorationInv, TypeOK
  <2>2. Here' \in Places
    BY TurnMoves DEF Here, Places, TypeOK
  <2> QED
    BY <1>1, <2>1, <2>2, TurnMoves, WaitingStep DEF ExplorationInv
<1> HIDE DEF s
<1>3. HonoursPrefix' /\ x = IF Len(trace) < Len(forced_prefix)
                              THEN forced_prefix[Len(trace) + 1] ELSE Base(s)
  BY <1>0, <1>1, <1>2, TurnHonoursPrefix
<1>4. PICK p \in Schedules : p = forced_prefix
  BY <1>0 DEF SchedTypeOK
<1>5. PICK q \in Schedules : q = trace
  BY <1>0 DEF SimTypeOK
<1> DEFINE r == Append(q, x)
<1>6. /\ Len(q) \in Nat /\ Len(p) \in Nat
      /\ r \in Schedules /\ Len(r) = Len(q) + 1 /\ r[Len(q) + 1] = x
      /\ \A i \in 1..Len(q) : r[i] = q[i]
      /\ trace' = r /\ forced_prefix' = p
  <2>1. trace' = r /\ forced_prefix' = p
    BY <1>2, <1>4, <1>5 DEF TakeTurn
  <2> QED
    BY <2>1 DEF Schedules
<1> HIDE DEF r
<1>7. \A i \in 1..Len(r) : i = Len(q) + 1 \/ i \in 1..Len(q)
  BY <1>6
<1>8. Remembered(p) /\ AllAllowed(p) /\ Remembered(q) /\ AllAllowed(q)
  BY <1>0, <1>4, <1>5 DEF RunInv
<1>9. Allowed(x) /\ (is_drop(x) => stable_response_cache[x.step] # NoStatus)
  <2>1. CASE Len(q) < Len(p)
    <3>1. Len(q) + 1 \in 1..Len(p) /\ x = p[Len(q) + 1]
      BY <1>3, <1>4, <1>5, <1>6, <2>1
    <3> QED
      BY <1>8, <3>1 DEF AllAllowed, Remembered
  <2>2. CASE ~(Len(q) < Len(p))
    <3>1. x.wrap = <<>>
      BY <1>3, <1>4, <1>5, <2>2 DEF Base
    <3> QED
      BY <3>1, MarkerKinds DEF Allowed
  <2> QED
    BY <2>1, <2>2
<1>10. AllAllowed(r)
  BY <1>6, <1>7, <1>8, <1>9 DEF AllAllowed
<1>11. Remembered(r)'
  <2>1. stable_response_cache'[x.step] # NoStatus
    BY <1>2, <1>9 DEF CacheGrows
  <2>2. Remembered(q)'
    BY <1>2, <1>8, RememberedStays
  <2> QED
    BY <1>6, <1>7, <2>1, <2>2 DEF Remembered
<1>12. DropsRemembered(r) /\ DropsRemembered(p)
  BY <1>6, <1>7, <1>8, <1>9 DEF DropsRemembered, Remembered
<1>13. \E g : Walk(g, r)' /\ g[Len(r)] = Here'
  <2>1. PICK h : Walk(h, q) /\ h[Len(q)] = Here
    BY <1>0, <1>2, <1>5 DEF RunInv
  <2>2. (Len(q) + 1) - 1 = Len(q) /\ Len(q) + 1 \in 1..(Len(q) + 1)
    BY <1>6
  <2>3. \E g : Walk(g, r) /\ g[Len(q) + 1] = There(t, Here, x)
    BY <1>2, <1>6, <2>1, <2>2, WalkTurns
  <2> PICK g : Walk(g, r) /\ g[Len(q) + 1] = There(t, Here, x)
    BY <2>3
  <2>4. Walk(g, r)'
    BY <1>2, <1>6, <1>12, WalkStays
  <2> QED
    BY <1>2, <1>6, <2>4
<1>14. Remembered(p)'
  BY <1>2, <1>8, RememberedStays
<1>15. ASSUME Followable(p)
       PROVE  \E h : Walk(h, p)' /\ (forced_pos' < Len(p) => h[forced_pos'] = Here')
  <2> PICK h : Walk(h, p) /\ (forced_pos < Len(p) => h[forced_pos] = Here)
    BY <1>0, <1>4, <1>15 DEF RunInv
  <2>1. Walk(h, p)'
    BY <1>2, <1>12, WalkStays
  <2>2. ASSUME forced_pos' < Len(p)
        PROVE  h[forced_pos'] = Here'
    <3>1. /\ forced_pos' = Len(q) + 1 /\ forced_pos = Len(q) /\ Len(q) < Len(p)
          /\ x = p[Len(q) + 1] /\ Len(q) + 1 \in 1..Len(p) /\ (Len(q) + 1) - 1 = Len(q)
      <4>1. forced_pos \in Nat
        BY <1>0 DEF SchedTypeOK
      <4>2. Len(trace') = forced_pos'
        BY <1>3, <1>6, <2>2 DEF HonoursPrefix
      <4>3. forced_pos' = Len(q) + 1
        BY <1>6, <4>2
      <4>4. Len(q) < Len(p)
        BY <1>6, <2>2, <4>3
      <4>5. forced_pos = Len(q)
        BY <1>0, <1>4, <1>5, <1>6, <4>1, <4>4 DEF HonoursPrefix
      <4> QED
        BY <1>3, <1>4, <1>5, <1>6, <4>3, <4>4, <4>5
    <3>2. h[Len(q)] = Here
      BY <3>1
    <3>3. PICK u \in Threads : Presents(u, Here, x) /\ h[Len(q) + 1] = There(u, Here, x)
      BY <3>1, <3>2 DEF Walk
    <3>4. u = t
      <4>1. at[t] \in 1..Len(workload.program[t]) /\ at[u] \in 1..Len(workload.program[u])
        <5>1. at[t] \in Nat \ {0} /\ at[u] \in Nat \ {0}
          BY DEF ExplorationInv, TypeOK
        <5>2. Len(workload.program[t]) \in Nat /\ Len(workload.program[u]) \in Nat
          BY <1>0, WorkloadTypes
        <5> QED
          BY <1>2, <3>3, <5>1, <5>2 DEF Presents, Here
      <4>2. workload.program[t][at[t]] = workload.program[u][at[u]]
        BY <1>2, <3>3 DEF Presents, Here
      <4> QED
        BY <1>0, <4>1, <4>2, StepsAreOwn
    <3> QED
      BY <1>2, <3>1, <3>3, <3>4
  <2> QED
    BY <2>1, <2>2
<1>16. RunInv'
  <2>1. Followable(forced_prefix)' => Followable(p)
    BY <1>6 DEF Followable, Mixed, Straight
  <2>2. Followable(forced_prefix)' =>
          /\ current_result' = "SUCCESS"
          /\ \E h : /\ Walk(h, forced_prefix)'
                    /\ forced_pos' < Len(forced_prefix') => h[forced_pos'] = Here'
    BY <1>2, <1>6, <1>15, <2>1
  <2>3. Remembered(trace)' /\ AllAllowed(trace)' /\ Remembered(forced_prefix)' /\ AllAllowed(forced_prefix)'
    BY <1>6, <1>8, <1>10, <1>11, <1>14 DEF AllAllowed
  <2>4. \E g : Walk(g, trace)' /\ (current_result' = "SUCCESS" => g[Len(trace')] = Here')
    BY <1>6, <1>13
  <2> QED
    BY <2>2, <2>3, <2>4 DEF RunInv
<1> QED
  BY <1>3, <1>16
----------------------------------------------------------------------------
(* The other steps of a run *)

\* Steps that leave trace and prefix alone: they leave everyone where they are,
\* or they have to do with a run that has been given up.
LEMMA RunStays ==
  ASSUME SimTypeOK, RunInv, CacheGrows,
         UNCHANGED <<workload, trace, forced_prefix, forced_pos>>,
         \/ UNCHANGED <<at, executed, current_result>>
         \/ current_result' # "SUCCESS" /\ ~Followable(forced_prefix)
  PROVE  RunInv'
<1>1. PICK p \in Schedules : p = forced_prefix
  BY DEF SimTypeOK, SchedTypeOK
<1>2. PICK q \in Schedules : q = trace
  BY DEF SimTypeOK
<1>3. Remembered(p) /\ AllAllowed(p) /\ Remembered(q) /\ AllAllowed(q)
  BY <1>1, <1>2 DEF RunInv
<1>4. Remembered(p)' /\ Remembered(q)' /\ DropsRemembered(p) /\ DropsRemembered(q)
  BY <1>3, RememberedStays DEF Remembered, DropsRemembered
<1>5. \E h : Walk(h, q)' /\ (current_result' = "SUCCESS" => h[Len(q)] = Here')
  <2> PICK h : Walk(h, q) /\ (current_result = "SUCCESS" => h[Len(q)] = Here)
    BY <1>2 DEF RunInv
  <2>1. Walk(h, q)'
    BY <1>4, WalkStays
  <2> QED
    BY <2>1 DEF Here
<1>6. ASSUME Followable(p)
      PROVE  /\ current_result' = "SUCCESS"
             /\ \E h : Walk(h, p)' /\ (forced_pos' < Len(p) => h[forced_pos'] = Here')
  <2>1. UNCHANGED <<at, executed, current_result>>
    BY <1>1, <1>6
  <2> PICK h : Walk(h, p) /\ (forced_pos < Len(p) => h[forced_pos] = Here)
    BY <1>1, <1>6 DEF RunInv
  <2>2. Walk(h, p)'
    BY <1>4, WalkStays
  <2> QED
    BY <1>1, <1>6, <2>1, <2>2 DEF Here, RunInv
<1> QED
  <2>1. Followable(forced_prefix)' => Followable(p)
    BY <1>1 DEF Followable, Mixed, Straight
  <2>2. Followable(forced_prefix)' =>
          /\ current_result' = "SUCCESS"
          /\ \E h : /\ Walk(h, forced_prefix)'
                    /\ forced_pos' < Len(forced_prefix') => h[forced_pos'] = Here'
    BY <1>1, <1>6, <2>1
  <2>3. Remembered(trace)' /\ AllAllowed(trace)' /\ Remembered(forced_prefix)' /\ AllAllowed(forced_prefix)'
    BY <1>1, <1>2, <1>3, <1>4 DEF AllAllowed
  <2>4. \E g : Walk(g, trace)' /\ (current_result' = "SUCCESS" => g[Len(trace')] = Here')
    BY <1>2, <1>5
  <2> QED
    BY <2>2, <2>3, <2>4 DEF RunInv

\* The thread a run is waiting for with a prefix that can be followed is there,
\* and may go.
LEMMA ExpectedIsThere ==
  ASSUME ExplorationInv, Followable(forced_prefix), forced_pos < Len(forced_prefix)
  PROVE  \E t \in Threads : Waiting(t) /\ (enforcing => CanTakeTurn(StepOf(t)))
<1>1. PICK p \in Schedules : p = forced_prefix
  BY DEF ExplorationInv, TypeOK, SimTypeOK, SchedTypeOK
<1>2. PICK k \in 1..Len(p) : k = forced_pos + 1 /\ k - 1 = forced_pos
  <2>1. forced_pos \in Nat /\ Len(p) \in Nat
    BY <1>1 DEF ExplorationInv, TypeOK, SimTypeOK, SchedTypeOK, Schedules
  <2> QED
    BY <1>1, <2>1
<1>3. PICK h : Walk(h, p) /\ h[k - 1] = Here
  BY <1>1, <1>2 DEF ExplorationInv, RunInv
<1>4. PICK t \in Threads : Presents(t, Here, p[k])
  BY <1>3 DEF Walk
<1>5. p[k] \in Tokens /\ Allowed(p[k])
  BY <1>1 DEF ExplorationInv, RunInv, AllAllowed, Schedules
<1>6. Waiting(t) /\ StepOf(t) = p[k].step
  BY <1>4 DEF Presents, Here, Waiting, StepOf
<1>7. Matches(p[k], p[k].step)
  BY <1>5, AllowedMatches
<1>8. enforcing => CanTakeTurn(StepOf(t))
  BY <1>1, <1>2, <1>6, <1>7
  DEF CanTakeTurn, MayGoForced, Expecting, expected_now, ExplorationInv, RunInv
<1> QED
  BY <1>6, <1>8

\* What the steps of a run that are no turns have in common.
LEMMA QuietSteps ==
  ASSUME ExplorationInv,
         \/ \E t \in Threads : Waiting(t) /\ (RefuseRequest(t) \/ KeepWaiting(t)) /\ UNCHANGED workload
         \/ GatherWindowEnds
         \/ WatchdogTick
         \/ UNCHANGED vars
  PROVE  /\ TypeOK' /\ AnswersKnown' /\ CacheGrows
         /\ UNCHANGED <<workload, trace, forced_prefix, forced_pos>>
         /\ UNCHANGED exploreVars
         /\ \/ UNCHANGED <<at, executed, current_result>>
            \/ current_result' # "SUCCESS" /\ ~Followable(forced_prefix)
         /\ UNCHANGED enforcing
<1> USE DEF ExplorationInv, TypeOK
<1>1. ASSUME NEW t \in Threads, Waiting(t), RefuseRequest(t), UNCHANGED workload
      PROVE  /\ TypeOK' /\ AnswersKnown' /\ CacheGrows
             /\ UNCHANGED <<trace, forced_prefix, forced_pos, enforcing>>
             /\ UNCHANGED exploreVars
             /\ current_result' # "SUCCESS" /\ ~Followable(forced_prefix)
  <2>1. Refuse(StepOf(t)) /\ MoveOn(t, 503) /\ UNCHANGED executed
    BY <1>1 DEF RefuseRequest
  <2>2. StepOf(t) \in Steps
    BY <1>1, WaitingStep
  <2>3. SimTypeOK'
    BY <2>1, <2>2, HandlerTypes
  <2>4. at' \in [Threads -> Nat \ {0}]
    <3>1. Len(workload.program[t]) \in Nat
      BY WorkloadTypes
    <3> QED
      BY <2>1, <3>1 DEF MoveOn, Onward
  <2>5. stable_response_cache' = SetDefault(stable_response_cache, StepOf(t), 503)
    BY <2>1 DEF Refuse
  <2>6. current_result' # "SUCCESS" /\ ~Followable(forced_prefix)
    BY <2>1 DEF Refuse, schedVars, RunInv
  <2>7. AnswersKnown' /\ CacheGrows
    <3>1. ~Straight
      BY <2>6 DEF Followable
    <3> QED
      BY <1>1, <2>2, <2>5, <3>1, CacheIsExtended
  <2> QED
    BY <1>1, <2>1, <2>3, <2>4, <2>6, <2>7 DEF Refuse, schedVars
<1>2. ASSUME NEW t \in Threads, Waiting(t), KeepWaiting(t), UNCHANGED workload
      PROVE  /\ TypeOK' /\ AnswersKnown' /\ CacheGrows
             /\ UNCHANGED <<trace, forced_prefix, forced_pos, enforcing>>
             /\ UNCHANGED exploreVars
             /\ UNCHANGED <<at, executed, current_result>>
  <2>1. WaitTurn(StepOf(t)) /\ UNCHANGED <<at, executed>>
    BY <1>2 DEF KeepWaiting
  <2>2. SimTypeOK'
    BY <1>2, <2>1, WaitingStep, HandlerTypes
  <2> QED
    BY <1>2, <2>1, <2>2, SameAnswers DEF WaitTurn, Wait, cacheVars
<1>3. CASE GatherWindowEnds
  <2>1. SchedTypeOK'
    BY <1>3, OtherSchedulerStepsTypes DEF GatherWindowEnds, GatherWindowCloses, SimTypeOK
  <2>2. SimTypeOK'
    BY <1>3, <2>1 DEF GatherWindowEnds, GatherWindowCloses, SimTypeOK, exploreVars, cacheVars
  <2> QED
    BY <1>3, <2>2, SameAnswers
    DEF GatherWindowEnds, GatherWindowCloses, GatherExpires, cacheVars
<1>4. CASE WatchdogTick
  <2>1. SchedTypeOK'
    BY <1>4, OtherSchedulerStepsTypes DEF WatchdogTick, WatchdogFires, SimTypeOK
  <2>2. SimTypeOK'
    BY <1>4, <2>1 DEF WatchdogTick, WatchdogFires, SimTypeOK, exploreVars, cacheVars
  <2>3. ~Followable(forced_prefix)
    <3>1. enforcing /\ forced_pos < Len(forced_prefix)
      <4>1. forced_pos \in Nat /\ Len(forced_prefix) \in Nat
        BY DEF SimTypeOK, SchedTypeOK, Schedules
      <4> QED
        BY <1>4, <4>1 DEF WatchdogTick, WatchdogFires, watchdog_tick, is_prefix_complete
    <3>2. \A t \in Threads : Waiting(t) => ~CanTakeTurn(StepOf(t))
      BY <1>4 DEF WatchdogTick
    <3> QED
      BY <3>1, <3>2, ExpectedIsThere
  <2> QED
    BY <1>4, <2>2, <2>3, SameAnswers
    DEF WatchdogTick, WatchdogFires, watchdog_tick, cacheVars
<1>5. CASE UNCHANGED vars
  <2>1. SimTypeOK'
    BY <1>5, SimUnchangedTypes DEF vars
  <2> QED
    BY <1>5, <2>1, SameAnswers DEF vars, simVars, schedVars, cacheVars
<1> QED
  BY <1>1, <1>2, <1>3, <1>4, <1>5

\* Steps of a run leave alone what is planned and what is known.
LEMMA StepsInRun ==
  ASSUME ExplorationInv, UNCHANGED <<workload, forced_prefix>>, UNCHANGED exploreVars,
         TypeOK', AnswersKnown', CacheGrows, RunInv', HonoursPrefix'
  PROVE  ExplorationInv'
<1>1. QueueInv' /\ ResultsInv'
  BY QueueUnchanged DEF ExplorationInv
<1>2. ReplayInv'
  BY DEF ExplorationInv, ReplayInv, exploreVars
<1>3. KnownInv'
  BY SameFollowable DEF ExplorationInv, KnownInv, PrefixesOf, exploreVars
<1>4. PlannedInv'
  <2>1. \A e \in pending_prefixes : e.prefix \in Schedules
    BY DEF ExplorationInv, TypeOK, SimTypeOK
  <2> QED
    BY <2>1, PlannedStays DEF ExplorationInv, exploreVars
<1> QED
  BY <1>1, <1>2, <1>3, <1>4 DEF ExplorationInv
----------------------------------------------------------------------------
(* The end of a run *)

\* What execution_done leaves behind: the trace is entered, and either nothing
\* is left to do or the next run explores something planned and not yet walked.
LEMMA EndPicks ==
  ASSUME NEW kind, execution_done(kind)
  PROVE  /\ explored_prefixes' = Explored /\ trace' = <<>> /\ run_index' = run_index + 1
         /\ UNCHANGED stable_response_cache
         /\ current_result' = "SUCCESS" /\ forced_pos' = 0
         /\ \/ trace \in seen_traces /\ UNCHANGED <<results, seen_traces, explored_trace_prefixes>>
            \/ /\ trace \notin seen_traces
               /\ results' = Append(results, FinalResult(kind))
               /\ seen_traces' = seen_traces \cup {trace}
               /\ explored_trace_prefixes' = explored_trace_prefixes \cup PrefixesOf(trace)
         /\ \A e \in pending_prefixes' : e \in pending_prefixes \/ e.prefix \in Mutations(trace)
         /\ \/ /\ done' = TRUE /\ pending_prefixes' = {}
               /\ forced_prefix' = <<>> /\ run_prefix' = run_prefix
            \/ /\ UNCHANGED done
               /\ run_prefix' = forced_prefix'
               /\ forced_prefix' \notin explored_trace_prefixes'
               /\ \/ \E e \in pending_prefixes : e.prefix = forced_prefix'
                  \/ forced_prefix' \in Mutations(trace)
<1> DEFINE new == Queued(Generated \ (Explored \cup Walked))
<1>1. ASSUME NEW pending, NEW walked, pick_next_prefix_or_done(pending, Explored, walked)
      PROVE  /\ current_result' = "SUCCESS" /\ forced_pos' = 0
             /\ pending_prefixes' \subseteq pending
             /\ \/ /\ done' = TRUE /\ pending_prefixes' = {}
                   /\ forced_prefix' = <<>> /\ run_prefix' = run_prefix
                \/ /\ UNCHANGED done /\ run_prefix' = forced_prefix' /\ forced_prefix' \notin walked
                   /\ \E e \in pending : e.prefix = forced_prefix'
  <2>1. \/ ExplorationEnds
        \/ \E e \in pending : /\ e.prefix \notin walked
                              /\ run_prefix' = e.prefix /\ start_run(e.prefix)
                              /\ pending_prefixes' = {x \in pending : Before(e, x)}
                              /\ UNCHANGED done
    BY <1>1, Zenon DEF pick_next_prefix_or_done
  <2>2. CASE ExplorationEnds
    BY <2>2 DEF ExplorationEnds, start_run
  <2>3. CASE \E e \in pending : /\ e.prefix \notin walked
                                /\ run_prefix' = e.prefix /\ start_run(e.prefix)
                                /\ pending_prefixes' = {x \in pending : Before(e, x)}
                                /\ UNCHANGED done
    <3> PICK e \in pending : /\ e.prefix \notin walked
                             /\ run_prefix' = e.prefix /\ start_run(e.prefix)
                             /\ pending_prefixes' = {x \in pending : Before(e, x)}
                             /\ UNCHANGED done
      BY <2>3
    <3>1. current_result' = "SUCCESS" /\ forced_pos' = 0 /\ forced_prefix' = e.prefix
      BY DEF start_run
    <3> QED
      BY <3>1, Zenon
  <2> QED
    BY <2>1, <2>2, <2>3
<1>2. \A e \in new : e.prefix \in Mutations(trace)
  BY DEF Queued, Generated, generate_forced_prefixes
<1> HIDE DEF new
<1>3. \/ /\ trace \in seen_traces /\ UNCHANGED <<results, seen_traces, explored_trace_prefixes>>
         /\ pick_next_prefix_or_done(pending_prefixes, Explored, explored_trace_prefixes)
      \/ /\ trace \notin seen_traces
         /\ results' = Append(results, FinalResult(kind))
         /\ seen_traces' = seen_traces \cup {trace}
         /\ explored_trace_prefixes' = Walked
         /\ pick_next_prefix_or_done(pending_prefixes \cup new, Explored, Walked)
  BY Zenon DEF execution_done, KnownTrace, new
<1>4. /\ explored_prefixes' = Explored /\ trace' = <<>> /\ run_index' = run_index + 1
      /\ UNCHANGED stable_response_cache
  BY DEF execution_done, _reset_for_next_run
<1>5. CASE /\ trace \in seen_traces /\ UNCHANGED <<results, seen_traces, explored_trace_prefixes>>
           /\ pick_next_prefix_or_done(pending_prefixes, Explored, explored_trace_prefixes)
  <2>1. /\ current_result' = "SUCCESS" /\ forced_pos' = 0
        /\ pending_prefixes' \subseteq pending_prefixes
        /\ \/ /\ done' = TRUE /\ pending_prefixes' = {}
              /\ forced_prefix' = <<>> /\ run_prefix' = run_prefix
           \/ /\ UNCHANGED done /\ run_prefix' = forced_prefix'
              /\ forced_prefix' \notin explored_trace_prefixes
              /\ \E e \in pending_prefixes : e.prefix = forced_prefix'
    BY <1>1, <1>5
  <2> QED
    BY <1>4, <1>5, <2>1, Zenon
<1>6. CASE /\ trace \notin seen_traces
           /\ results' = Append(results, FinalResult(kind))
           /\ seen_traces' = seen_traces \cup {trace}
           /\ explored_trace_prefixes' = Walked
           /\ pick_next_prefix_or_done(pending_prefixes \cup new, Explored, Walked)
  <2>1. /\ current_result' = "SUCCESS" /\ forced_pos' = 0
        /\ pending_prefixes' \subseteq pending_prefixes \cup new
        /\ \/ /\ done' = TRUE /\ pending_prefixes' = {}
              /\ forced_prefix' = <<>> /\ run_prefix' = run_prefix
           \/ /\ UNCHANGED done /\ run_prefix' = forced_prefix'
              /\ forced_prefix' \notin Walked
              /\ \E e \in pending_prefixes \cup new : e.prefix = forced_prefix'
    BY <1>1, <1>6
  <2>2. \A e \in pending_prefixes \cup new : e \in pending_prefixes \/ e.prefix \in Mutations(trace)
    BY <1>2
  <2>3. \/ UNCHANGED done => \/ \E e \in pending_prefixes : e.prefix = forced_prefix'
                             \/ forced_prefix' \in Mutations(trace)
        \/ /\ done' = TRUE /\ pending_prefixes' = {}
           /\ forced_prefix' = <<>> /\ run_prefix' = run_prefix
    BY <2>1, <2>2
  <2> QED
    BY <1>4, <1>6, <2>1, <2>2, <2>3 DEF Walked
<1> QED
  BY <1>3, <1>5, <1>6

\* When all threads have ended, a prefix that can be followed has been.
LEMMA PrefixFollowed ==
  ASSUME ExplorationInv, Followable(forced_prefix), \A t \in Threads : ~Waiting(t)
  PROVE  /\ forced_pos = Len(forced_prefix)
         /\ forced_prefix = <<>> \/ forced_prefix \in PrefixesOf(trace)
<1>1. /\ forced_prefix \in Schedules /\ trace \in Schedules
      /\ forced_pos \in 0..Len(forced_prefix)
      /\ Len(forced_prefix) \in Nat /\ Len(trace) \in Nat
  BY DEF ExplorationInv, TypeOK, SimTypeOK, SchedTypeOK, Schedules
<1>2. forced_pos = Len(forced_prefix)
  BY <1>1, ExpectedIsThere
<1>3. forced_pos <= Len(trace) /\ \A i \in 1..forced_pos : trace[i] = forced_prefix[i]
  BY DEF ExplorationInv, ReplayInv, HonoursPrefix
<1>4. CASE Len(forced_prefix) = 0
  <2>1. forced_prefix = <<>>
    BY <1>1, <1>4 DEF Schedules
  <2> QED
    BY <1>2, <2>1
<1>5. CASE Len(forced_prefix) # 0
  <2>1. Len(forced_prefix) \in 1..Len(trace) /\ Len(forced_prefix) \in 0..Len(trace)
    BY <1>1, <1>2, <1>3, <1>5
  <2> DEFINE begin == SubSeq(trace, 1, Len(forced_prefix))
  <2>2. begin \in Schedules /\ Len(begin) = Len(forced_prefix)
        /\ \A i \in 1..Len(forced_prefix) : begin[i] = trace[i]
    BY <1>1, <2>1, SubSeqIsSchedule
  <2>3. begin \in PrefixesOf(trace)
    BY <2>1 DEF PrefixesOf
  <2> HIDE DEF begin
  <2>4. begin = forced_prefix
    BY <1>1, <1>2, <1>3, <2>2 DEF Schedules
  <2> QED
    BY <1>2, <2>3, <2>4
<1> QED
  BY <1>4, <1>5

\* The next run begins where the threads do, and can be followed if it should.
LEMMA EndKeepsRun ==
  ASSUME ExplorationInv, EndRun
  PROVE  RunInv' /\ PlannedInv'
<1>1. execution_done("ok") /\ at' = Start /\ executed' = {} /\ UNCHANGED workload
  BY DEF EndRun
<1>2. /\ trace' = <<>> /\ UNCHANGED stable_response_cache
      /\ current_result' = "SUCCESS" /\ forced_pos' = 0
      /\ \A e \in pending_prefixes' : e \in pending_prefixes \/ e.prefix \in Mutations(trace)
      /\ \/ forced_prefix' = <<>>
         \/ \E e \in pending_prefixes : e.prefix = forced_prefix'
         \/ forced_prefix' \in Mutations(trace)
  BY <1>1, EndPicks, Zenon
<1>3. CacheGrows
  BY <1>2 DEF CacheGrows
<1>4. PICK q \in Schedules : q = trace
  BY DEF ExplorationInv, TypeOK, SimTypeOK
<1>5. PICK h : Walk(h, q)
  BY <1>4 DEF ExplorationInv, RunInv
<1>6. Remembered(q) /\ AllAllowed(q) /\ AnswersKnown /\ workload \in Workloads
  BY <1>4 DEF ExplorationInv, RunInv, TypeOK
<1>7. ASSUME NEW p, \/ p = <<>>
                    \/ \E e \in pending_prefixes : e.prefix = p
                    \/ p \in Mutations(q)
      PROVE  /\ p \in Schedules
             /\ Remembered(p)' /\ AllAllowed(p)
             /\ Followable(p) => \E g : Walk(g, p)' /\ g[0] = StartPlace
  <2>1. p \in Schedules /\ Remembered(p) /\ AllAllowed(p) /\ (Followable(p) => \E g : Walk(g, p))
    <3>1. CASE p = <<>>
      <4>1. p \in Schedules /\ Len(p) = 0
        BY <3>1 DEF Schedules
      <4> QED
        BY <3>1, <4>1, NoStepsWalked DEF Remembered, AllAllowed
    <3>2. CASE \E e \in pending_prefixes : e.prefix = p
      BY <3>2 DEF ExplorationInv, PlannedInv, TypeOK, SimTypeOK
    <3>3. CASE p \in Mutations(q)
      BY <1>5, <1>6, <3>3, MutationTokens, MutationsAreAllowed, MutationsCanBeFollowed
    <3> QED
      BY <1>7, <3>1, <3>2, <3>3
  <2>2. DropsRemembered(p)
    BY <2>1 DEF Remembered, DropsRemembered
  <2>3. ASSUME Followable(p)
        PROVE  \E g : Walk(g, p)' /\ g[0] = StartPlace
    <3> PICK g : Walk(g, p)
      BY <2>1, <2>3
    <3>1. Walk(g, p)'
      BY <1>1, <1>3, <2>1, <2>2, WalkStays
    <3> QED
      BY <3>1 DEF Walk
  <2> QED
    BY <1>3, <2>1, <2>3, RememberedStays
<1>8. Here' = StartPlace
  BY <1>1 DEF Here, StartPlace
<1>9. /\ Remembered(<<>>)' /\ AllAllowed(<<>>)
      /\ \E g : Walk(g, <<>>)' /\ g[0] = StartPlace
  <2>1. Followable(<<>>)
    BY DEF Followable, Mixed, has_drop
  <2> QED
    BY <1>7, <2>1
<1>10. PICK p : p = forced_prefix'
  OBVIOUS
<1>11. /\ Remembered(p)' /\ AllAllowed(p)
       /\ Followable(p) => \E g : Walk(g, p)' /\ g[0] = StartPlace
  BY <1>2, <1>4, <1>7, <1>10
<1>12. RunInv'
  <2>1. Len(<<>>) = 0
    OBVIOUS
  <2>2. Remembered(trace)' /\ AllAllowed(trace)'
    BY <1>2, <1>9 DEF Remembered, AllAllowed, Allowed
  <2>3. \E g : Walk(g, trace)' /\ (current_result' = "SUCCESS" => g[Len(trace')] = Here')
    BY <1>2, <1>8, <1>9, <2>1
  <2>4. Remembered(forced_prefix)' /\ AllAllowed(forced_prefix)'
    BY <1>10, <1>11 DEF Remembered, AllAllowed, Allowed
  <2>5. Followable(forced_prefix)' => Followable(p)
    BY <1>1, <1>10 DEF Followable, Mixed, Straight
  <2>6. ASSUME Followable(p)
        PROVE  \E g : /\ Walk(g, forced_prefix)'
                      /\ forced_pos' < Len(forced_prefix') => g[forced_pos'] = Here'
    BY <1>2, <1>8, <1>10, <1>11, <2>6
  <2> QED
    BY <1>2, <2>2, <2>3, <2>4, <2>5, <2>6 DEF RunInv
<1>13. PlannedInv'
  <2> SUFFICES ASSUME NEW e \in pending_prefixes'
               PROVE  /\ Remembered(e.prefix)' /\ AllAllowed(e.prefix)
                      /\ Followable(e.prefix) => \E g : Walk(g, e.prefix)'
    BY <1>1, SameFollowable DEF PlannedInv, AllAllowed
  <2> QED
    BY <1>2, <1>4, <1>7
<1> QED
  BY <1>12, <1>13

LEMMA EndKeepsKnown ==
  ASSUME ExplorationInv, EndRun
  PROVE  KnownInv'
<1>1. execution_done("ok") /\ ~done /\ \A t \in Threads : ~Waiting(t)
  BY DEF EndRun
<1>2. /\ explored_prefixes' = Explored
      /\ \/ trace \in seen_traces /\ UNCHANGED <<seen_traces, explored_trace_prefixes>>
         \/ /\ seen_traces' = seen_traces \cup {trace}
            /\ explored_trace_prefixes' = explored_trace_prefixes \cup PrefixesOf(trace)
      /\ \/ /\ done' = TRUE /\ pending_prefixes' = {} /\ run_prefix' = run_prefix
         \/ /\ UNCHANGED done
            /\ run_prefix' = forced_prefix'
            /\ forced_prefix' \notin explored_trace_prefixes'
  BY <1>1, EndPicks, Zenon
<1>3. KnownInv /\ ReplayInv /\ SimTypeOK
  BY DEF ExplorationInv, TypeOK
<1>4. run_prefix = forced_prefix /\ Explored = explored_prefixes \cup {forced_prefix}
  BY <1>1, <1>3 DEF KnownInv, Explored
<1>5. explored_trace_prefixes \cup PrefixesOf(trace) \subseteq explored_trace_prefixes'
  BY <1>2, <1>3 DEF KnownInv
<1>6. \A tr \in seen_traces' : PrefixesOf(tr) \subseteq explored_trace_prefixes'
  BY <1>2, <1>3, <1>5 DEF KnownInv
<1>7. forced_prefix = <<>> \/ ~Followable(forced_prefix) \/ forced_prefix \in PrefixesOf(trace)
  BY <1>1, PrefixFollowed
<1>8. \A p \in explored_prefixes' : p = <<>> \/ ~Followable(p) \/ p \in explored_trace_prefixes'
  BY <1>2, <1>3, <1>4, <1>5, <1>7 DEF KnownInv
<1>9. ASSUME ~done'
      PROVE  /\ run_prefix' = forced_prefix'
             /\ forced_prefix' \notin explored_trace_prefixes'
             /\ forced_prefix' # <<>>
  <2>1. run_prefix' = forced_prefix' /\ forced_prefix' \notin explored_trace_prefixes'
    BY <1>2, <1>9
  <2>2. forced_prefix' \notin explored_prefixes'
    <3>1. "ok" \in Kinds
      BY DEF Kinds
    <3>2. \/ forced_prefix' \in Schedules \ explored_prefixes' /\ UNCHANGED done
          \/ forced_prefix' = <<>> /\ done' = TRUE
      BY <1>1, <1>3, <3>1, RunEnds
    <3> QED
      BY <1>9, <3>2
  <2>3. <<>> \in explored_prefixes'
    BY <1>2, <1>3, <1>4 DEF ReplayInv
  <2> QED
    BY <2>1, <2>2, <2>3
<1>10. done' => pending_prefixes' = {} /\ run_prefix' \in explored_prefixes'
  BY <1>1, <1>2, <1>4
<1> QED
  <2>1. \A p : Followable(p)' <=> Followable(p)
    BY SameFollowable DEF EndRun
  <2> QED
    BY <1>6, <1>8, <1>9, <1>10, <2>1 DEF KnownInv, PrefixesOf

LEMMA EndKeepsInv ==
  ASSUME ExplorationInv, EndRun
  PROVE  ExplorationInv'
<1>1. execution_done("ok") /\ at' = Start /\ executed' = {} /\ UNCHANGED workload
  BY DEF EndRun
<1>2. "ok" \in Kinds
  BY DEF Kinds
<1>3. SimTypeOK /\ ReplayInv /\ QueueInv /\ ResultsInv
  BY DEF ExplorationInv, TypeOK
<1>4. TypeOK'
  <2>1. SimTypeOK'
    BY <1>1, <1>2, <1>3, ExecutionDoneTypes
  <2> QED
    BY <1>1, <2>1 DEF TypeOK, Start, ExplorationInv
<1>5. AnswersKnown'
  <2>1. UNCHANGED stable_response_cache
    BY <1>1, EndPicks
  <2> QED
    BY <1>1, <2>1, SameAnswers DEF ExplorationInv
<1>6. ReplayInv' /\ QueueInv' /\ ResultsInv'
  BY <1>1, <1>2, <1>3, RunEnds, EndKeepsQueue, EndCountsTrace
<1> QED
  BY <1>4, <1>5, <1>6, EndKeepsRun, EndKeepsKnown DEF ExplorationInv
----------------------------------------------------------------------------
(* The invariant *)

LEMMA InitialExploration == Init => ExplorationInv
<1> SUFFICES ASSUME Init PROVE ExplorationInv
  OBVIOUS
<1>1. SimInit /\ workload \in Workloads /\ at = Start /\ executed = {}
  BY DEF Init
<1>2. TypeOK
  BY <1>1, SimInitTypes DEF TypeOK, Start
<1>3. /\ trace = <<>> /\ forced_prefix = <<>> /\ run_prefix = <<>> /\ forced_pos = 0
      /\ current_result = "SUCCESS" /\ done = FALSE
      /\ pending_prefixes = {} /\ seen_traces = {} /\ explored_prefixes = {}
      /\ explored_trace_prefixes = {} /\ stable_response_cache = EmptyCache
  BY <1>1 DEF SimInit, SchedInit
<1>4. AnswersKnown
  BY <1>3 DEF AnswersKnown, EmptyCache
<1>5. ReplayInv /\ QueueInv /\ ResultsInv
  BY <1>1, InitialReplay, InitialQueue
<1>6. PlannedInv /\ KnownInv
  BY <1>3 DEF PlannedInv, KnownInv
<1>7. RunInv
  <2>1. Len(trace) = 0 /\ Len(forced_prefix) = 0
    BY <1>3
  <2>2. Remembered(trace) /\ AllAllowed(trace) /\ Remembered(forced_prefix) /\ AllAllowed(forced_prefix)
    BY <2>1 DEF Remembered, AllAllowed
  <2>3. PICK h : Walk(h, trace) /\ h[0] = StartPlace
    BY <1>3, NoStepsWalked
  <2>4. h[Len(trace)] = Here
    BY <1>1, <2>1, <2>3 DEF Here, StartPlace
  <2>5. Walk(h, forced_prefix) /\ ~(forced_pos < Len(forced_prefix))
    BY <1>3, <2>1, <2>3
  <2> QED
    BY <1>3, <2>2, <2>3, <2>4, <2>5 DEF RunInv
<1> QED
  BY <1>2, <1>4, <1>5, <1>6, <1>7 DEF ExplorationInv

LEMMA StepKeepsExploration ==
  ASSUME ExplorationInv, [Next]_vars
  PROVE  ExplorationInv'
<1>1. ASSUME NEW t \in Threads, HandlerPass(t), DropRequest(t) \/ ForwardRequest(t)
      PROVE  ExplorationInv'
  <2>1. Waiting(t) /\ UNCHANGED workload
    BY <1>1 DEF HandlerPass
  <2>2. /\ TypeOK' /\ AnswersKnown' /\ CacheGrows /\ UNCHANGED exploreVars
        /\ TakeTurn(StepOf(t), TRUE)
    BY <1>1, <2>1, TurnMoves
  <2>3. RunInv' /\ HonoursPrefix'
    BY <1>1, <2>1, TurnKeepsRun
  <2>4. UNCHANGED forced_prefix
    BY <2>2 DEF TakeTurn
  <2> QED
    BY <2>1, <2>2, <2>3, <2>4, StepsInRun
<1>2. ASSUME \/ \E t \in Threads : Waiting(t) /\ (RefuseRequest(t) \/ KeepWaiting(t)) /\ UNCHANGED workload
             \/ GatherWindowEnds
             \/ WatchdogTick
             \/ UNCHANGED vars
      PROVE  ExplorationInv'
  <2>1. /\ TypeOK' /\ AnswersKnown' /\ CacheGrows
        /\ UNCHANGED <<workload, trace, forced_prefix, forced_pos>>
        /\ UNCHANGED exploreVars
        /\ \/ UNCHANGED <<at, executed, current_result>>
           \/ current_result' # "SUCCESS" /\ ~Followable(forced_prefix)
        /\ UNCHANGED enforcing
    BY <1>2, QuietSteps
  <2>2. RunInv'
    BY <2>1, RunStays DEF ExplorationInv, TypeOK
  <2>3. HonoursPrefix'
    BY <2>1, ReplayUnchanged DEF ExplorationInv, ReplayInv
  <2> QED
    BY <2>1, <2>2, <2>3, StepsInRun
<1>3. CASE \E t \in Threads : HandlerPass(t)
  BY <1>1, <1>2, <1>3 DEF HandlerPass
<1>4. CASE EndRun
  BY <1>4, EndKeepsInv
<1> QED
  BY <1>2, <1>3, <1>4 DEF Next, Finished

LEMMA ExplorationKept == Spec => []ExplorationInv
<1>1. ExplorationInv /\ [Next]_vars => ExplorationInv'
  BY StepKeepsExploration
<1> QED
  BY InitialExploration, <1>1, PTL DEF Spec

(* Every variable keeps to its type: no thread is told anything it has no step
   for, whatever is dropped and answered from the cache.  artifact_response_for. *)
THEOREM TypeCorrect == Spec => []TypeOK
<1>1. ExplorationInv => TypeOK
  BY DEF ExplorationInv
<1> QED
  BY ExplorationKept, <1>1, PTL

(* For every workload, also of threads that branch, a prefix with swaps and one
   kind of mutation is followed to its end, and one with both when they do not
   branch: what is derived from a trace never waits for a step that is not coming,
   and the watchdog is not needed.
   generate_forced_prefixes, artifact_response_for, wait_for_turn. *)
THEOREM UnmixedPrefixesAreFollowed == Spec => PrefixesAreFeasible
<1>1. ASSUME ExplorationInv, [Next]_vars, run_index' # run_index, Followable(forced_prefix)
      PROVE  forced_pos = Len(forced_prefix)
  <2>1. CASE EndRun
    BY <1>1, <2>1, PrefixFollowed DEF EndRun
  <2>2. CASE \E t \in Threads : HandlerPass(t)
    <3> PICK t \in Threads : HandlerPass(t)
      BY <2>2
    <3>1. CASE DropRequest(t) \/ ForwardRequest(t)
      BY <1>1, <3>1, TurnMoves DEF HandlerPass, exploreVars
    <3>2. CASE RefuseRequest(t) \/ KeepWaiting(t)
      BY <1>1, <3>2, QuietSteps DEF HandlerPass, exploreVars
    <3> QED
      BY <3>1, <3>2 DEF HandlerPass
  <2>3. CASE GatherWindowEnds \/ WatchdogTick \/ UNCHANGED vars
    BY <1>1, <2>3, QuietSteps DEF exploreVars
  <2> QED
    BY <1>1, <2>1, <2>2, <2>3 DEF Next, Finished
<1>2. ExplorationInv /\ [Next]_vars
        => [run_index' # run_index /\ (~Mixed(forced_prefix) \/ Straight)
              => forced_pos = Len(forced_prefix)]_vars
  BY <1>1 DEF Followable
<1> QED
  BY ExplorationKept, <1>2, PTL DEF Spec, PrefixesAreFeasible

(* When an exploration says that it is done, no mutation of an executed trace
   begins a trace it has not executed, unless it both drops and delays and the
   threads branch: for every workload, nothing derivable is skipped, filtered or lost by mistake.
   execution_done, generate_forced_prefixes, pick_next_prefix_or_done. *)
THEOREM ExplorationsEndClosed == Spec => []ExplorationClosed
<1>1. ExplorationInv => ExplorationClosed
  <2> SUFFICES ASSUME ExplorationInv, done, NEW tr \in seen_traces, NEW p \in Mutations(tr)
               PROVE  \/ p \in explored_trace_prefixes
                      \/ Mixed(p) /\ ~Straight /\ p \in explored_prefixes
    BY DEF ExplorationClosed
  <2>1. pending_prefixes = {} /\ run_prefix \in explored_prefixes
    BY DEF ExplorationInv, KnownInv
  <2>2. p \in Explored \cup explored_trace_prefixes \cup PendingPrefixes
    BY DEF ExplorationInv, QueueInv, Explored
  <2>3. p \in explored_prefixes \cup explored_trace_prefixes
    BY <2>1, <2>2 DEF PendingPrefixes, Explored
  <2>4. p # <<>>
    <3>1. tr \in Schedules
      BY DEF ExplorationInv, TypeOK, SimTypeOK
    <3>2. Len(p) # 0
      BY <3>1, MutationTokens
    <3> QED
      BY <3>2
  <2> QED
    BY <2>3, <2>4 DEF ExplorationInv, KnownInv, Followable
<1> QED
  BY ExplorationKept, <1>1, PTL

\* All prefixes of an exploration can be followed.
AllFollowable == ~(EnableDrop /\ EnableDelay) \/ Straight

LEMMA EndFindsSomethingNew ==
  ASSUME AllFollowable, ExplorationInv, EveryRunIsNew, EndRun
  PROVE  EveryRunIsNew'
<1>1. execution_done("ok") /\ ~done /\ \A t \in Threads : ~Waiting(t)
  BY DEF EndRun
<1>2. forced_prefix \in Schedules /\ AllAllowed(forced_prefix)
  BY DEF ExplorationInv, RunInv, TypeOK, SimTypeOK, SchedTypeOK
<1>3. Followable(forced_prefix)
  <2>1. PICK p \in Schedules : p = forced_prefix
    BY <1>2
  <2> QED
    BY <1>2, <2>1, AllowedIsUnmixed DEF AllFollowable, Followable
<1>4. forced_prefix = <<>> \/ forced_prefix \in PrefixesOf(trace)
  BY <1>1, <1>3, PrefixFollowed
<1>5. trace \notin seen_traces
  BY <1>1, <1>4 DEF ExplorationInv, KnownInv
<1>6. run_index' = run_index + 1 /\ results' = Append(results, FinalResult("ok"))
  BY <1>1, <1>5, EndPicks, Zenon
<1>7. results \in Seq(Results) /\ run_index \in Nat
  BY DEF ExplorationInv, TypeOK, SimTypeOK
<1>8. Len(results') = Len(results) + 1
  BY <1>6, <1>7
<1> QED
  BY <1>6, <1>8 DEF EveryRunIsNew

LEMMA WorkloadIsFixed == [Next]_vars => UNCHANGED workload
BY DEF Next, HandlerPass, GatherWindowEnds, WatchdogTick, EndRun, Finished, vars

(* With one kind of mutation, or threads that do not branch, no run is wasted:
   each run of an exploration ends with a trace no run before it had.
   pick_next_prefix_or_done, wait_for_turn. *)
THEOREM NoRunIsWasted ==
  Spec => [](~(EnableDrop /\ EnableDelay) \/ Straight => EveryRunIsNew)
<1>1. Init => (AllFollowable => EveryRunIsNew)
  BY DEF Init, SimInit, EveryRunIsNew
<1>2. ASSUME ExplorationInv, AllFollowable, EveryRunIsNew, [Next]_vars
      PROVE  EveryRunIsNew'
  <2>1. CASE EndRun
    BY <1>2, <2>1, EndFindsSomethingNew
  <2>2. CASE \E t \in Threads : HandlerPass(t)
    <3> PICK t \in Threads : HandlerPass(t)
      BY <2>2
    <3>1. CASE DropRequest(t) \/ ForwardRequest(t)
      BY <1>2, <3>1, TurnMoves DEF HandlerPass, exploreVars, EveryRunIsNew
    <3>2. CASE RefuseRequest(t) \/ KeepWaiting(t)
      BY <1>2, <3>2, QuietSteps DEF HandlerPass, exploreVars, EveryRunIsNew
    <3> QED
      BY <3>1, <3>2 DEF HandlerPass
  <2>3. CASE GatherWindowEnds \/ WatchdogTick \/ UNCHANGED vars
    BY <1>2, <2>3, QuietSteps DEF exploreVars, EveryRunIsNew
  <2> QED
    BY <1>2, <2>1, <2>2, <2>3 DEF Next, Finished
<1>3. [Next]_vars => (AllFollowable' <=> AllFollowable)
  BY WorkloadIsFixed DEF AllFollowable, Straight
<1>4. ExplorationInv /\ (AllFollowable => EveryRunIsNew) /\ [Next]_vars
        => (AllFollowable => EveryRunIsNew)'
  BY <1>2, <1>3
<1>5. (AllFollowable => EveryRunIsNew)
        => (~(EnableDrop /\ EnableDelay) \/ Straight => EveryRunIsNew)
  BY DEF AllFollowable
<1> QED
  BY <1>1, <1>4, <1>5, ExplorationKept, PTL DEF Spec
----------------------------------------------------------------------------
(* Orders of turns: neighbours may be exchanged *)

\* A number below n that has a property while its successor has not, or n has it.
LEMMA LastNumber ==
  ASSUME NEW n \in Nat, NEW I \in SUBSET (0..n), 0 \in I
  PROVE  \E i \in I : i = n \/ i + 1 \notin I
<1> DEFINE J == {i \in 1..n : i \notin I}
<1>1. CASE J = {}
  <2>1. n \in I
    BY <1>1
  <2> QED
    BY <2>1
<1>2. CASE J # {}
  <2>1. PICK j \in J : \A i \in J : j <= i
    <3>1. J \in SUBSET Nat
      OBVIOUS
    <3> QED
      BY <1>2, <3>1, SmallestNumber
  <2>2. j - 1 \in 0..n /\ j - 1 \notin J /\ (j - 1) + 1 = j
    BY <2>1
  <2>3. j - 1 \in I
    BY <2>2
  <2> QED
    BY <2>1, <2>2, <2>3
<1> QED
  BY <1>1, <1>2

Agree(c, o, k) == \A n \in 1..k : c[n] = o[n]

\* Orders o of n turns in which thread t has as many as in d
SameTurns(c, o, n) ==
  \A t : Cardinality({i \in 1..n : c[i] = t}) = Cardinality({i \in 1..n : o[i] = t})

\* Where two such orders part, the thread that goes in one comes later in the other.
LEMMA ComesLater ==
  ASSUME NEW n \in Nat, NEW c, NEW o, NEW k \in 0..(n - 1), Agree(c, o, k), c[k + 1] # o[k + 1],
         Cardinality({i \in 1..n : c[i] = o[k + 1]}) = Cardinality({i \in 1..n : o[i] = o[k + 1]})
  PROVE  \E j \in (k + 2)..n : c[j] = o[k + 1]
<1> SUFFICES ASSUME \A j \in (k + 2)..n : c[j] # o[k + 1] PROVE FALSE
  OBVIOUS
<1> DEFINE S == {i \in 1..n : o[i] = o[k + 1]}
<1> DEFINE T == {i \in 1..n : c[i] = o[k + 1]}
<1>1. k + 1 \in 1..n /\ \A i \in 1..n : i \in 1..k \/ i = k + 1 \/ i \in (k + 2)..n
  OBVIOUS
<1>2. T \subseteq S
  BY <1>1 DEF Agree
<1>3. k + 1 \in S /\ k + 1 \notin T
  BY <1>1
<1>4. IsFiniteSet(S)
  <2>1. IsFiniteSet(1..n)
    BY FS_Interval
  <2>2. S \in SUBSET (1..n)
    OBVIOUS
  <2> QED
    BY <2>1, <2>2, FS_Subset
<1>5. Cardinality(S) = Cardinality(T)
  OBVIOUS
<1> HIDE DEF S, T
<1>6. S = T
  BY <1>2, <1>4, <1>5, FS_Subset
<1> QED
  BY <1>3, <1>6

\* How a run went: who took each turn, and which of the turns were marked.  The
\* first k turns went as in o, and were marked where m wants it.
Reaches(c, o, m, k) == \A n \in 1..k : c.who[n] = o[n] /\ (n \in m => n \in c.marked)

(* Runs from which one can go on by exchanging neighbours, and by marking a turn,
   without touching what went before, lead to every order, with marks at least
   wherever they are wanted: the turn that is wanted next comes forward in as many
   exchanges as it takes, and is marked when it is there. *)
LEMMA SwapsReachAll ==
  ASSUME NEW n \in Nat, NEW C, C # {}, NEW o, NEW m,
         \A c \in C : SameTurns(c.who, o, n),
         \A c \in C : \A i \in 1..(n - 1) : c.who[i] # c.who[i + 1] =>
           \E d \in C : \A j \in 1..(i + 1) :
             d.who[j] = c.who[Origin(i, j)] /\ (j \in d.marked <=> Origin(i, j) \in c.marked),
         \A c \in C : \A i \in 1..n : i \in m \ c.marked =>
           \E d \in C : /\ d.who[i] = c.who[i] /\ i \in d.marked
                        /\ \A j \in 1..(i - 1) : d.who[j] = c.who[j] /\ (j \in d.marked <=> j \in c.marked)
  PROVE  \E c \in C : Reaches(c, o, m, n)
<1> DEFINE K == {k \in 0..n : \E c \in C : Reaches(c, o, m, k)}
<1>1. 0 \in K
  BY DEF Reaches
<1>2. PICK k \in K : k = n \/ k + 1 \notin K
  BY <1>1, LastNumber
<1>3. CASE k = n
  BY <1>3
<1>4. CASE k # n
  <2>1. k \in 0..(n - 1) /\ k + 1 \in 0..n /\ k + 1 \in 1..n
    BY <1>4
  <2>2. ~ \E c \in C : Reaches(c, o, m, k + 1)
    BY <1>2, <1>4, <2>1
  <2> DEFINE J == {j \in (k + 2)..n : \E c \in C : Reaches(c, o, m, k) /\ c.who[j] = o[k + 1]}
  \* Who is wanted next is not next, or could be marked now.
  <2>3. ASSUME NEW c \in C, Reaches(c, o, m, k)
        PROVE  c.who[k + 1] # o[k + 1]
    <3> SUFFICES ASSUME c.who[k + 1] = o[k + 1] PROVE FALSE
      OBVIOUS
    <3>1. \A i \in 1..(k + 1) : i \in 1..k \/ i = k + 1
      BY <2>1
    <3>2. k + 1 \in m /\ k + 1 \notin c.marked
      BY <2>2, <2>3, <3>1 DEF Reaches
    <3>3. PICK d \in C :
            /\ d.who[k + 1] = c.who[k + 1] /\ k + 1 \in d.marked
            /\ \A j \in 1..((k + 1) - 1) : d.who[j] = c.who[j] /\ (j \in d.marked <=> j \in c.marked)
      BY <2>1, <3>2
    <3>4. (k + 1) - 1 = k
      BY <2>1
    <3>5. Reaches(d, o, m, k + 1)
      BY <2>3, <3>1, <3>3, <3>4 DEF Reaches
    <3> QED
      BY <2>2, <3>5
  <2>4. J # {}
    <3>1. PICK c \in C : Reaches(c, o, m, k)
      OBVIOUS
    <3>2. Cardinality({i \in 1..n : c.who[i] = o[k + 1]}) = Cardinality({i \in 1..n : o[i] = o[k + 1]})
      <4>1. SameTurns(c.who, o, n)
        OBVIOUS
      <4> QED
        BY <4>1, Zenon DEF SameTurns
    <3>3. Agree(c.who, o, k)
      BY <3>1 DEF Reaches, Agree
    <3>4. \E j \in (k + 2)..n : c.who[j] = o[k + 1]
      BY <2>1, <2>3, <3>1, <3>2, <3>3, ComesLater
    <3> QED
      BY <3>1, <3>4
  <2>5. PICK j \in J : \A i \in J : j <= i
    <3>1. J \in SUBSET Nat
      BY <2>1
    <3> QED
      BY <2>4, <3>1, SmallestNumber
  <2>6. PICK c \in C : Reaches(c, o, m, k) /\ c.who[j] = o[k + 1]
    OBVIOUS
  <2>7. j \in (k + 2)..n
    OBVIOUS
  <2>8. PICK i \in 1..(n - 1) : j = i + 1 /\ i >= k + 1
    BY <2>1, <2>7
  <2>9. c.who[i] # o[k + 1]
    <3>1. CASE i = k + 1
      BY <2>3, <2>6, <3>1
    <3>2. CASE i # k + 1
      <4>1. i \in (k + 2)..n /\ ~(j <= i)
        BY <2>1, <2>8, <3>2
      <4> QED
        BY <2>5, <2>6, <4>1
    <3> QED
      BY <3>1, <3>2
  <2>10. PICK d \in C : \A l \in 1..(i + 1) :
           d.who[l] = c.who[Origin(i, l)] /\ (l \in d.marked <=> Origin(i, l) \in c.marked)
    BY <2>6, <2>8, <2>9
  <2>11. /\ d.who[i] = o[k + 1]
         /\ \A l \in 1..(i - 1) : d.who[l] = c.who[l] /\ (l \in d.marked <=> l \in c.marked)
    <3>1. i \in 1..(i + 1) /\ Origin(i, i) = i + 1
      BY DEF Origin
    <3>2. \A l \in 1..(i - 1) : l \in 1..(i + 1) /\ Origin(i, l) = l
      BY DEF Origin
    <3> QED
      BY <2>6, <2>8, <2>10, <3>1, <3>2
  <2>12. Reaches(d, o, m, k)
    <3>1. \A l \in 1..k : l \in 1..(i - 1)
      BY <2>1, <2>8
    <3> QED
      BY <2>6, <2>11, <3>1 DEF Reaches
  <2>13. i # k + 1
    BY <2>3, <2>11, <2>12
  <2>14. i \in (k + 2)..n /\ ~(j <= i)
    BY <2>1, <2>8, <2>13
  <2>15. i \in J
    BY <2>11, <2>12, <2>14
  <2> QED
    BY <2>5, <2>14, <2>15
<1> QED
  BY <1>3, <1>4
----------------------------------------------------------------------------
(* The order a trace was executed in *)

\* The turns of thread u among the first n.
TurnsTaken(c, n, u) == {j \in 1..n : c[j] = u}

LEMMA TurnsAreCounted ==
  ASSUME NEW c, NEW n \in Nat, NEW u
  PROVE  /\ IsFiniteSet(TurnsTaken(c, n, u)) /\ Cardinality(TurnsTaken(c, n, u)) \in Nat
         /\ \A m \in 0..n : Cardinality(TurnsTaken(c, m, u)) <= Cardinality(TurnsTaken(c, n, u))
<1>1. IsFiniteSet(TurnsTaken(c, n, u)) /\ Cardinality(TurnsTaken(c, n, u)) \in Nat
  <2>1. IsFiniteSet(1..n)
    BY FS_Interval
  <2>2. TurnsTaken(c, n, u) \in SUBSET (1..n)
    BY DEF TurnsTaken
  <2> QED
    BY <2>1, <2>2, FS_Subset, FS_CardinalityType
<1>2. ASSUME NEW m \in 0..n
      PROVE  Cardinality(TurnsTaken(c, m, u)) <= Cardinality(TurnsTaken(c, n, u))
  <2>1. TurnsTaken(c, m, u) \in SUBSET TurnsTaken(c, n, u)
    BY DEF TurnsTaken
  <2> QED
    BY <1>1, <2>1, FS_Subset
<1> QED
  BY <1>1, <1>2

LEMMA TurnsAreNumbered ==
  ASSUME NEW c, NEW n \in Nat, NEW i \in 1..n
  PROVE  /\ TurnsOf(c, i) = Cardinality(TurnsTaken(c, i, c[i]))
         /\ TurnsOf(c, i) \in 1..Cardinality(TurnsTaken(c, n, c[i]))
         /\ \A j \in 1..(i - 1) : c[j] = c[i] => TurnsOf(c, j) < TurnsOf(c, i)
<1>1. \A m \in 1..n : TurnsOf(c, m) = Cardinality(TurnsTaken(c, m, c[m]))
  BY Zenon DEF TurnsOf, TurnsTaken
<1>2. i \in Nat /\ i - 1 \in Nat /\ i \in 0..n
  OBVIOUS
<1>3. TurnsTaken(c, i, c[i]) = TurnsTaken(c, i - 1, c[i]) \cup {i} /\ i \notin TurnsTaken(c, i - 1, c[i])
  BY DEF TurnsTaken
<1>4. /\ Cardinality(TurnsTaken(c, i, c[i])) = Cardinality(TurnsTaken(c, i - 1, c[i])) + 1
      /\ Cardinality(TurnsTaken(c, i - 1, c[i])) \in Nat
  BY <1>2, <1>3, TurnsAreCounted, FS_AddElement
<1>5. /\ Cardinality(TurnsTaken(c, i, c[i])) <= Cardinality(TurnsTaken(c, n, c[i]))
      /\ Cardinality(TurnsTaken(c, n, c[i])) \in Nat
  BY <1>2, TurnsAreCounted
<1>6. ASSUME NEW j \in 1..(i - 1), c[j] = c[i]
      PROVE  TurnsOf(c, j) < TurnsOf(c, i)
  <2>1. j \in 0..(i - 1) /\ j \in 1..n
    BY <1>2
  <2>2. Cardinality(TurnsTaken(c, j, c[i])) <= Cardinality(TurnsTaken(c, i - 1, c[i]))
    BY <1>2, <2>1, TurnsAreCounted
  <2>3. Cardinality(TurnsTaken(c, j, c[i])) \in Nat
    BY <2>1, TurnsAreCounted
  <2> QED
    BY <1>1, <1>4, <1>6, <2>1, <2>2, <2>3
<1> QED
  BY <1>1, <1>4, <1>5, <1>6

\* A run follows an order of turns: everyone is as far as it has had turns.
Follows(c) ==
  /\ c \in [1..Len(trace) -> Threads]
  /\ \A t \in Threads :
       /\ at[t] = Cardinality(TurnsTaken(c, Len(trace), t)) + 1
       /\ at[t] <= Lengths[t] + 1
       /\ \A k \in 1..(at[t] - 1) : \E i \in 1..Len(trace) : c[i] = t /\ TurnsOf(c, i) = k
  /\ \A i \in 1..Len(trace) : trace[i].step = Turn(c, i)

OrderInv == Straight => \E c : Follows(c)

(* What is known of the traces. *)
SeenInv ==
  /\ \A p \in explored_trace_prefixes : \E tr \in seen_traces : p \in PrefixesOf(tr)
  /\ \A tr \in seen_traces : AllAllowed(tr)
  /\ done => seen_traces # {}

OrdersInv == OrderInv /\ SeenInv /\ TracesAreInterleavings

\* One more turn, of thread u, after the turns of c.
LEMMA OneMoreTurn ==
  ASSUME NEW n \in Nat, NEW c \in [1..n -> Threads], NEW u \in Threads
  PROVE  \E d \in [1..(n + 1) -> Threads] :
           /\ d[n + 1] = u /\ \A i \in 1..n : d[i] = c[i] /\ TurnsOf(d, i) = TurnsOf(c, i)
           /\ TurnsOf(d, n + 1) = Cardinality(TurnsTaken(c, n, u)) + 1
           /\ \A t : Cardinality(TurnsTaken(d, n + 1, t)) =
                       IF t = u THEN Cardinality(TurnsTaken(c, n, t)) + 1
                       ELSE Cardinality(TurnsTaken(c, n, t))
<1> DEFINE d == [i \in 1..(n + 1) |-> IF i = n + 1 THEN u ELSE c[i]]
<1>1. /\ d \in [1..(n + 1) -> Threads] /\ d[n + 1] = u
      /\ \A i \in 1..n : d[i] = c[i] /\ i \in 1..(n + 1)
      /\ \A i \in 1..(n + 1) : i \in 1..n \/ i = n + 1
      /\ n + 1 \notin 1..n
  OBVIOUS
<1> HIDE DEF d
<1>2. ASSUME NEW i \in 1..n, NEW t
      PROVE  TurnsTaken(d, i, t) = TurnsTaken(c, i, t)
  <2>1. \A j \in 1..i : j \in 1..n
    OBVIOUS
  <2> QED
    BY <1>1, <2>1 DEF TurnsTaken
<1>3. ASSUME NEW i \in 1..n
      PROVE  TurnsOf(d, i) = TurnsOf(c, i)
  <2>1. /\ TurnsOf(d, i) = Cardinality(TurnsTaken(d, i, d[i]))
        /\ TurnsOf(c, i) = Cardinality(TurnsTaken(c, i, c[i]))
    BY Zenon DEF TurnsOf, TurnsTaken
  <2>2. TurnsTaken(d, i, d[i]) = TurnsTaken(c, i, c[i])
    BY <1>1, <1>2
  <2> QED
    BY <2>1, <2>2
<1>4. ASSUME NEW t
      PROVE  Cardinality(TurnsTaken(d, n + 1, t)) =
               IF t = u THEN Cardinality(TurnsTaken(c, n, t)) + 1
               ELSE Cardinality(TurnsTaken(c, n, t))
  <2>1. CASE t = u
    <3>1. TurnsTaken(d, n + 1, t) = TurnsTaken(c, n, t) \cup {n + 1}
      BY <1>1, <2>1 DEF TurnsTaken
    <3>2. n + 1 \notin TurnsTaken(c, n, t)
      BY <1>1 DEF TurnsTaken
    <3> QED
      BY <2>1, <3>1, <3>2, TurnsAreCounted, FS_AddElement
  <2>2. CASE t # u
    <3>1. TurnsTaken(d, n + 1, t) = TurnsTaken(c, n, t)
      BY <1>1, <2>2 DEF TurnsTaken
    <3> QED
      BY <2>2, <3>1
  <2> QED
    BY <2>1, <2>2
<1>5. TurnsOf(d, n + 1) = Cardinality(TurnsTaken(c, n, u)) + 1
  <2>1. TurnsOf(d, n + 1) = Cardinality(TurnsTaken(d, n + 1, u))
    BY <1>1, Zenon DEF TurnsOf, TurnsTaken
  <2> QED
    BY <1>4, <2>1
<1> QED
  BY <1>1, <1>3, <1>4, <1>5

LEMMA LengthsAreNumbers ==
  ASSUME workload \in Workloads
  PROVE  \A t \in Threads : Lengths[t] = Len(workload.program[t]) /\ Lengths[t] \in Nat
BY WorkloadTypes DEF Lengths

LEMMA TurnKeepsOrder ==
  ASSUME ExplorationInv, OrderInv, NEW u \in Threads, Waiting(u),
         DropRequest(u) \/ ForwardRequest(u), UNCHANGED workload
  PROVE  OrderInv'
<1> SUFFICES ASSUME Straight'
             PROVE  (\E c : Follows(c))'
  BY DEF OrderInv
<1>1. Straight /\ AnswersKnown /\ workload \in Workloads /\ TypeOK
  BY DEF Straight, ExplorationInv, TypeOK
<1>2. PICK c : Follows(c)
  BY <1>1 DEF OrderInv
<1>3. PICK x \in Tokens : x = Granted(StepOf(u))
  BY TurnMoves
<1>4. /\ x.step = StepOf(u) /\ Presents(u, Here, x) /\ Here' = There(u, Here, x)
      /\ trace' = Append(trace, x)
  BY <1>3, TurnMoves
<1>5. Here \in Places
  BY <1>1 DEF Here, Places, TypeOK
<1>6. at' = [at EXCEPT ![u] = @ + 1]
  <2>1. There(u, Here, x).at = [Here.at EXCEPT ![u] = @ + 1]
    BY <1>1, <1>4, <1>5, StraightTurns
  <2> QED
    BY <1>4, <2>1 DEF Here
<1>7. PICK q \in Schedules : q = trace
  BY <1>1 DEF TypeOK, SimTypeOK
<1>8. PICK n \in Nat : n = Len(q)
  BY DEF Schedules
<1>9. /\ Len(Append(q, x)) = n + 1 /\ Append(q, x)[n + 1] = x
      /\ \A i \in 1..n : Append(q, x)[i] = q[i]
  BY <1>8 DEF Schedules
<1>10. c \in [1..n -> Threads]
  BY <1>2, <1>7, <1>8 DEF Follows
<1>11. PICK d \in [1..(n + 1) -> Threads] :
           /\ d[n + 1] = u /\ \A i \in 1..n : d[i] = c[i] /\ TurnsOf(d, i) = TurnsOf(c, i)
           /\ TurnsOf(d, n + 1) = Cardinality(TurnsTaken(c, n, u)) + 1
           /\ \A t : Cardinality(TurnsTaken(d, n + 1, t)) =
                       IF t = u THEN Cardinality(TurnsTaken(c, n, t)) + 1
                       ELSE Cardinality(TurnsTaken(c, n, t))
  BY <1>10, OneMoreTurn
<1>12. /\ \A t \in Threads :
            /\ at[t] = Cardinality(TurnsTaken(c, n, t)) + 1 /\ at[t] \in Nat
            /\ at[t] <= Lengths[t] + 1
            /\ \A k \in 1..(at[t] - 1) : \E i \in 1..n : c[i] = t /\ TurnsOf(c, i) = k
       /\ \A i \in 1..n : q[i].step = Turn(c, i)
  BY <1>1, <1>2, <1>7, <1>8 DEF Follows, TypeOK
<1>13. at[u] <= Lengths[u] /\ \A t \in Threads : Lengths[t] \in Nat
  BY <1>1, LengthsAreNumbers DEF Waiting
<1>14. \A i \in 1..(n + 1) : i \in 1..n \/ i = n + 1
  OBVIOUS
<1>15. ASSUME NEW t \in Threads
       PROVE  /\ at'[t] = Cardinality(TurnsTaken(d, n + 1, t)) + 1
              /\ at'[t] <= Lengths[t] + 1
              /\ \A k \in 1..(at'[t] - 1) : \E i \in 1..(n + 1) : d[i] = t /\ TurnsOf(d, i) = k
  <2>1. CASE t = u
    <3>1. at'[t] = at[t] + 1
      BY <1>1, <1>6, <2>1 DEF TypeOK
    <3>2. PICK a \in Nat : a = at[t]
      BY <1>12
    <3>3. Cardinality(TurnsTaken(c, n, t)) \in Nat
      BY TurnsAreCounted
    <3>4. a = Cardinality(TurnsTaken(c, n, t)) + 1 /\ a <= Lengths[t]
      BY <1>12, <1>13, <2>1, <3>2
    <3>5. a + 1 = Cardinality(TurnsTaken(d, n + 1, t)) + 1 /\ a + 1 <= Lengths[t] + 1
      BY <1>11, <1>13, <2>1, <3>3, <3>4
    <3>6. ASSUME NEW k \in 1..a
          PROVE  \E i \in 1..(n + 1) : d[i] = t /\ TurnsOf(d, i) = k
      <4>1. CASE k = a
        <5>1. n + 1 \in 1..(n + 1) /\ TurnsOf(d, n + 1) = a
          BY <1>11, <2>1, <3>4
        <5> QED
          BY <1>11, <2>1, <4>1, <5>1
      <4>2. CASE k # a
        <5>1. k \in 1..(a - 1)
          BY <4>2
        <5>2. PICK i \in 1..n : c[i] = t /\ TurnsOf(c, i) = k
          BY <1>12, <3>2, <5>1
        <5> QED
          BY <1>11, <5>2
      <4> QED
        BY <4>1, <4>2
    <3>7. (a + 1) - 1 = a
      OBVIOUS
    <3> QED
      BY <3>1, <3>2, <3>5, <3>6, <3>7
  <2>2. CASE t # u
    <3>1. at'[t] = at[t]
      BY <1>1, <1>6, <2>2 DEF TypeOK
    <3>2. \A k \in 1..(at[t] - 1) : \E i \in 1..(n + 1) : d[i] = t /\ TurnsOf(d, i) = k
      <4> TAKE k \in 1..(at[t] - 1)
      <4>1. PICK i \in 1..n : c[i] = t /\ TurnsOf(c, i) = k
        BY <1>12
      <4> QED
        BY <1>11, <4>1
    <3> QED
      BY <1>11, <1>12, <2>2, <3>1, <3>2
  <2> QED
    BY <2>1, <2>2
<1>16. ASSUME NEW i \in 1..(n + 1)
       PROVE  Append(q, x)[i].step = Turn(d, i)
  <2>1. CASE i \in 1..n
    BY <1>9, <1>11, <1>12, <2>1 DEF Turn
  <2>2. CASE i = n + 1
    <3>1. Turn(d, i) = workload.program[u][at[u]]
      BY <1>11, <1>12, <2>2 DEF Turn
    <3> QED
      BY <1>4, <1>9, <2>2, <3>1 DEF StepOf
  <2> QED
    BY <1>14, <2>1, <2>2
<1>17. Follows(d)'
  <2>1. trace' = Append(q, x) /\ Len(trace') = n + 1
    BY <1>4, <1>7, <1>9
  <2>2. Lengths' = Lengths /\ \A i : Turn(d, i)' = Turn(d, i)
    BY DEF Lengths, Turn
  <2>3. (\A t \in Threads :
          /\ at[t] = Cardinality(TurnsTaken(d, Len(trace), t)) + 1
          /\ at[t] <= Lengths[t] + 1
          /\ \A k \in 1..(at[t] - 1) : \E i \in 1..Len(trace) : d[i] = t /\ TurnsOf(d, i) = k)'
    BY <1>15, <2>1, <2>2
  <2>4. (\A i \in 1..Len(trace) : trace[i].step = Turn(d, i))'
    BY <1>16, <2>1, <2>2
  <2> QED
    BY <2>1, <2>3, <2>4 DEF Follows
<1> QED
  BY <1>17

\* When all threads have ended, all their steps have been executed, in that order.
LEMMA RunEndsInOrder ==
  ASSUME ExplorationInv, Straight, \A t \in Threads : ~Waiting(t), NEW c, Follows(c)
  PROVE  c \in Interleavings /\ InOrder(trace, c)
<1>1. TypeOK /\ workload \in Workloads
  BY DEF ExplorationInv, TypeOK
<1>2. PICK n \in Nat : n = Len(trace)
  BY <1>1 DEF TypeOK, SimTypeOK, Schedules
<1> DEFINE All == UNION {{t} \X (1..Lengths[t]) : t \in Threads}
<1> DEFINE f == [i \in 1..n |-> <<c[i], TurnsOf(c, i)>>]
<1>3. /\ c \in [1..n -> Threads]
      /\ \A t \in Threads : /\ Cardinality(TurnsTaken(c, n, t)) = Lengths[t]
                            /\ \A k \in 1..Lengths[t] : \E i \in 1..n : c[i] = t /\ TurnsOf(c, i) = k
      /\ \A i \in 1..n : trace[i].step = Turn(c, i)
  <2>1. ASSUME NEW t \in Threads
        PROVE  /\ Cardinality(TurnsTaken(c, n, t)) = Lengths[t]
               /\ \A k \in 1..Lengths[t] : \E i \in 1..n : c[i] = t /\ TurnsOf(c, i) = k
    <3>1. at[t] \in Nat /\ Lengths[t] \in Nat /\ ~(at[t] <= Lengths[t]) /\ at[t] <= Lengths[t] + 1
      BY <1>1, LengthsAreNumbers DEF TypeOK, Waiting, Follows
    <3>2. at[t] - 1 = Lengths[t]
      BY <3>1
    <3>3. Cardinality(TurnsTaken(c, n, t)) \in Nat
      BY TurnsAreCounted
    <3>4. at[t] = Cardinality(TurnsTaken(c, n, t)) + 1
      BY <1>2 DEF Follows
    <3>5. \A k \in 1..(at[t] - 1) : \E i \in 1..n : c[i] = t /\ TurnsOf(c, i) = k
      BY <1>2 DEF Follows
    <3> QED
      BY <3>1, <3>2, <3>3, <3>4, <3>5
  <2> QED
    BY <1>2, <2>1 DEF Follows
<1>4. \A t \in Threads : \A k \in 1..Lengths[t] : <<t, k>> \in All
  OBVIOUS
<1>5. \A z \in All : \E t \in Threads : \E k \in 1..Lengths[t] : z = <<t, k>>
  OBVIOUS
<1> HIDE DEF All
<1>6. f \in [1..n -> All]
  <2>1. ASSUME NEW i \in 1..n
        PROVE  c[i] \in Threads /\ TurnsOf(c, i) \in 1..Lengths[c[i]]
    <3>1. c[i] \in Threads
      BY <1>3
    <3>2. Cardinality(TurnsTaken(c, n, c[i])) = Lengths[c[i]]
      BY <1>3, <3>1
    <3>3. TurnsOf(c, i) \in 1..Cardinality(TurnsTaken(c, n, c[i]))
      BY TurnsAreNumbered
    <3> QED
      BY <3>1, <3>2, <3>3
  <2>2. \A i \in 1..n : <<c[i], TurnsOf(c, i)>> \in All
    BY <1>4, <2>1
  <2> QED
    BY <2>2
<1>7. ASSUME NEW i \in 1..n, NEW j \in 1..n, i # j
      PROVE  f[i] # f[j]
  <2> SUFFICES ASSUME c[i] = c[j], TurnsOf(c, i) = TurnsOf(c, j) PROVE FALSE
    OBVIOUS
  <2>1. TurnsOf(c, i) \in Nat /\ TurnsOf(c, j) \in Nat
    BY TurnsAreNumbered
  <2>2. i \in 1..(j - 1) \/ j \in 1..(i - 1)
    BY <1>7
  <2>3. TurnsOf(c, i) < TurnsOf(c, j) \/ TurnsOf(c, j) < TurnsOf(c, i)
    BY <2>2, TurnsAreNumbered
  <2> QED
    BY <2>1, <2>3
<1>8. ASSUME NEW z \in All
      PROVE  \E i \in 1..n : f[i] = z
  <2>1. PICK t \in Threads : \E k \in 1..Lengths[t] : z = <<t, k>>
    BY <1>5
  <2> PICK k \in 1..Lengths[t] : z = <<t, k>>
    BY <2>1
  <2>2. PICK i \in 1..n : c[i] = t /\ TurnsOf(c, i) = k
    BY <1>3
  <2> QED
    BY <2>1, <2>2
<1> HIDE DEF f
<1>9. ExistsBijection(1..n, All)
  <2>1. f \in Injection(1..n, All)
    BY <1>6, <1>7 DEF Injection, IsInjective
  <2>2. f \in Surjection(1..n, All)
    BY <1>6, <1>8 DEF Surjection
  <2> QED
    BY <2>1, <2>2 DEF ExistsBijection, Bijection
<1>10. TotalSteps = n
  BY <1>9, FS_CountingElements DEF TotalSteps, All
<1>11. c \in Interleavings
  BY <1>3, <1>10, Zenon DEF Interleavings, TurnsTaken
<1> QED
  BY <1>2, <1>3, <1>10, <1>11 DEF InOrder

LEMMA SameInterleavings ==
  ASSUME UNCHANGED workload
  PROVE  /\ Straight' <=> Straight
         /\ Lengths' = Lengths /\ Interleavings' = Interleavings
         /\ \A tr, o : InOrder(tr, o)' <=> InOrder(tr, o)
BY DEF Straight, Lengths, Interleavings, TotalSteps, InOrder, Turn

LEMMA QuietStepsKeepOrders ==
  ASSUME OrdersInv, UNCHANGED workload, UNCHANGED exploreVars, OrderInv'
  PROVE  OrdersInv'
<1>1. SeenInv'
  BY DEF OrdersInv, SeenInv, exploreVars, PrefixesOf, AllAllowed, Allowed
<1>2. TracesAreInterleavings'
  BY SameInterleavings DEF OrdersInv, TracesAreInterleavings, exploreVars
<1> QED
  BY <1>1, <1>2 DEF OrdersInv

\* Before its first turn a run is in order.
LEMMA NothingInOrder ==
  ASSUME trace = <<>>, at = Start, workload \in Workloads
  PROVE  OrderInv
<1> DEFINE c == [i \in 1..0 |-> CHOOSE t : t \in Threads]
<1>1. Len(trace) = 0 /\ 1..0 = {}
  OBVIOUS
<1>2. c \in [1..0 -> Threads]
  BY <1>1
<1> HIDE DEF c
<1>3. ASSUME NEW t \in Threads
      PROVE  /\ at[t] = Cardinality(TurnsTaken(c, 0, t)) + 1
             /\ at[t] <= Lengths[t] + 1
             /\ 1..(at[t] - 1) = {}
  <2>1. TurnsTaken(c, 0, t) = {}
    BY <1>1 DEF TurnsTaken
  <2>2. at[t] = 1
    BY DEF Start
  <2>3. Cardinality(TurnsTaken(c, 0, t)) = 0
    BY <2>1, FS_EmptySet
  <2>4. Lengths[t] \in Nat
    BY LengthsAreNumbers
  <2> QED
    BY <2>2, <2>3, <2>4
<1> QED
  BY <1>1, <1>2, <1>3 DEF OrderInv, Follows

LEMMA EndKeepsOrders ==
  ASSUME ExplorationInv, OrdersInv, EndRun, TypeOK'
  PROVE  OrdersInv'
<1>1. /\ execution_done("ok") /\ \A t \in Threads : ~Waiting(t)
      /\ at' = Start /\ UNCHANGED workload
  BY DEF EndRun
<1>2. /\ trace' = <<>>
      /\ \/ trace \in seen_traces /\ UNCHANGED <<seen_traces, explored_trace_prefixes>>
         \/ /\ seen_traces' = seen_traces \cup {trace}
            /\ explored_trace_prefixes' = explored_trace_prefixes \cup PrefixesOf(trace)
  BY <1>1, EndPicks, Zenon
<1>3. OrderInv'
  <2>1. (trace = <<>> /\ at = Start /\ workload \in Workloads => OrderInv)'
    BY NothingInOrder, PTL
  <2> QED
    BY <1>1, <1>2, <2>1 DEF TypeOK
<1>4. SeenInv'
  <2>1. AllAllowed(trace)
    BY DEF ExplorationInv, RunInv
  <2>2. seen_traces' = seen_traces \cup {trace} /\ seen_traces' # {}
    BY <1>2
  <2>3. explored_trace_prefixes' \subseteq explored_trace_prefixes \cup PrefixesOf(trace)
    BY <1>2
  <2>4. \A tr \in seen_traces' : AllAllowed(tr)
    BY <2>1, <2>2 DEF OrdersInv, SeenInv
  <2>5. \A p \in explored_trace_prefixes' : \E tr \in seen_traces' : p \in PrefixesOf(tr)
    BY <2>2, <2>3 DEF OrdersInv, SeenInv
  <2> QED
    BY <2>2, <2>4, <2>5 DEF SeenInv, PrefixesOf, AllAllowed, Allowed
<1>5. TracesAreInterleavings'
  <2> SUFFICES ASSUME Straight, NEW tr \in seen_traces'
               PROVE  \E o \in Interleavings : InOrder(tr, o)
    BY <1>1, SameInterleavings DEF TracesAreInterleavings
  <2>1. CASE tr \in seen_traces
    BY <2>1 DEF OrdersInv, TracesAreInterleavings
  <2>2. CASE tr = trace
    <3> PICK c : Follows(c)
      BY DEF OrdersInv, OrderInv
    <3> QED
      BY <1>1, <2>2, RunEndsInOrder
  <2> QED
    BY <1>2, <2>1, <2>2
<1> QED
  BY <1>3, <1>4, <1>5 DEF OrdersInv

LEMMA StepKeepsOrders ==
  ASSUME ExplorationInv, ExplorationInv', OrdersInv, [Next]_vars
  PROVE  OrdersInv'
<1>1. ASSUME NEW t \in Threads, HandlerPass(t), DropRequest(t) \/ ForwardRequest(t)
      PROVE  OrdersInv'
  <2>1. Waiting(t) /\ UNCHANGED workload
    BY <1>1 DEF HandlerPass
  <2>2. UNCHANGED exploreVars
    BY <1>1, <2>1, TurnMoves
  <2>3. OrderInv'
    BY <1>1, <2>1, TurnKeepsOrder DEF OrdersInv
  <2> QED
    BY <2>1, <2>2, <2>3, QuietStepsKeepOrders
<1>2. ASSUME \/ \E t \in Threads : Waiting(t) /\ (RefuseRequest(t) \/ KeepWaiting(t)) /\ UNCHANGED workload
             \/ GatherWindowEnds
             \/ WatchdogTick
             \/ UNCHANGED vars
      PROVE  OrdersInv'
  <2>1. /\ UNCHANGED <<workload, trace>> /\ UNCHANGED exploreVars
        /\ UNCHANGED at \/ ~Followable(forced_prefix)
    BY <1>2, QuietSteps
  <2>2. Straight => Followable(forced_prefix)
    BY DEF Followable
  <2>3. OrderInv'
    <3>1. CASE ~Straight
      BY <2>1, <3>1, SameInterleavings DEF OrderInv
    <3>2. CASE UNCHANGED at
      BY <2>1, <3>2, SameInterleavings DEF OrdersInv, OrderInv, Follows, Turn
    <3> QED
      BY <2>1, <2>2, <3>1, <3>2
  <2> QED
    BY <2>1, <2>3, QuietStepsKeepOrders
<1>3. CASE \E t \in Threads : HandlerPass(t)
  BY <1>1, <1>2, <1>3 DEF HandlerPass
<1>4. CASE EndRun
  BY <1>4, EndKeepsOrders DEF ExplorationInv
<1> QED
  BY <1>2, <1>3, <1>4 DEF Next, Finished

LEMMA OrdersKept == Spec => []OrdersInv
<1>1. Init => OrdersInv
  <2> SUFFICES ASSUME Init PROVE OrdersInv
    OBVIOUS
  <2>1. /\ trace = <<>> /\ at = Start /\ workload \in Workloads /\ done = FALSE
        /\ seen_traces = {} /\ explored_trace_prefixes = {}
    BY DEF Init, SimInit
  <2> QED
    BY <2>1, NothingInOrder DEF OrdersInv, SeenInv, TracesAreInterleavings
<1>2. ExplorationInv /\ ExplorationInv' /\ OrdersInv /\ [Next]_vars => OrdersInv'
  BY StepKeepsOrders
<1> QED
  BY <1>1, <1>2, ExplorationKept, PTL DEF Spec

(* A run of threads that do not branch executes all their steps, each once and
   those of a thread in their order, however the run was forced, dropped, delayed
   or gathered: for every workload, no run is cut short and none does anything
   twice.  wait_for_turn, the appends to the trace in proxy, execution_done. *)
THEOREM RunsAreInterleavings == Spec => []TracesAreInterleavings
<1>1. OrdersInv => TracesAreInterleavings
  BY DEF OrdersInv
<1> QED
  BY OrdersKept, <1>1, PTL
----------------------------------------------------------------------------
(* No run sticks *)

\* The contenders of a free run wait with the steps they are known by, and a window
\* is there for one of them.
GatherInv ==
  /\ current_result = "SUCCESS" =>
       \A s \in free_waiting : \E t \in Threads : Waiting(t) /\ StepOf(t) = s
  /\ enforcing => free_waiting = {}
  /\ free_deadline # "none" => free_waiting # {}

\* Who takes a turn in a free run is no contender any more, and the others stay.
LEMMA TurnKeepsGathered ==
  ASSUME ExplorationInv, GatherInv, NEW t \in Threads, Waiting(t),
         DropRequest(t) \/ ForwardRequest(t), UNCHANGED workload
  PROVE  GatherInv'
<1>1. TakeTurn(StepOf(t), TRUE) /\ current_result = "SUCCESS"
  BY TurnMoves
<1>2. \A u \in Threads \ {t} : at'[u] = at[u]
  BY DEF DropRequest, ForwardRequest, MoveOn, ExplorationInv, TypeOK
<1>3. \A u \in Threads \ {t} : (Waiting(u) => Waiting(u)') /\ StepOf(u)' = StepOf(u)
  BY <1>2 DEF Waiting, StepOf
<1>4. CASE enforcing
  BY <1>1, <1>4
  DEF GatherInv, TakeTurn, TakeForced, TakeFree, TakeUnexpected, MayGoFree
<1>5. CASE ~enforcing
  <2>1. /\ free_waiting' = (free_waiting \cup {StepOf(t)}) \ {StepOf(t)}
        /\ free_deadline' = "none" /\ ~enforcing'
    BY <1>1, <1>5 DEF TakeTurn, TakeForced, TakeFree, TakeUnexpected, MayGoForced,
       MayGoUnexpected, Expecting, Contenders
  <2>2. \A s \in free_waiting' : \E u \in Threads \ {t} : Waiting(u) /\ StepOf(u) = s
    BY <1>1, <2>1 DEF GatherInv
  <2> QED
    BY <1>3, <2>1, <2>2 DEF GatherInv
<1> QED
  BY <1>4, <1>5

LEMMA StepKeepsGathered ==
  ASSUME ExplorationInv, GatherInv, [Next]_vars
  PROVE  GatherInv'
<1>1. ASSUME NEW t \in Threads, HandlerPass(t)
      PROVE  GatherInv'
  <2>1. Waiting(t) /\ UNCHANGED workload
    BY <1>1 DEF HandlerPass
  <2>2. CASE DropRequest(t) \/ ForwardRequest(t)
    BY <2>1, <2>2, TurnKeepsGathered
  <2>3. CASE RefuseRequest(t)
    BY <2>3 DEF RefuseRequest, Refuse, schedVars, GatherInv
  <2>4. CASE KeepWaiting(t)
    BY <2>1, <2>4 DEF KeepWaiting, WaitTurn, Wait, Contenders, GatherInv, Waiting, StepOf
  <2> QED
    BY <1>1, <2>2, <2>3, <2>4 DEF HandlerPass
<1>2. CASE EndRun
  <2>1. \E q : start_run(q)
    BY <1>2, Zenon DEF EndRun, execution_done, pick_next_prefix_or_done, ExplorationEnds
  <2> QED
    BY <2>1 DEF start_run, GatherInv
<1>3. CASE GatherWindowEnds
  BY <1>3 DEF GatherWindowEnds, GatherWindowCloses, GatherExpires, GatherInv, Waiting, StepOf
<1>4. CASE WatchdogTick
  BY <1>4 DEF WatchdogTick, WatchdogFires, watchdog_tick, GatherInv
<1>5. CASE UNCHANGED vars
  BY <1>5 DEF vars, simVars, schedVars, GatherInv, Waiting, StepOf
<1> QED
  BY <1>1, <1>2, <1>3, <1>4, <1>5 DEF Next, Finished

\* The smallest contender waits, and may go.
LEMMA SmallestMayGo ==
  ASSUME TypeOK, GatherInv, current_result = "SUCCESS", ~enforcing, free_deadline = "passed"
  PROVE  \E t \in Threads : Waiting(t) /\ CanTakeTurn(StepOf(t))
<1>1. PICK s \in free_waiting : Smallest(s, Contenders(s))
  BY SmallestContender DEF TypeOK, SimTypeOK, GatherInv
<1>2. PICK t \in Threads : Waiting(t) /\ StepOf(t) = s
  BY DEF GatherInv
<1> QED
  BY <1>1, <1>2 DEF CanTakeTurn, MayGoFree

(* No run is stuck: for every workload, as long as a thread waits, somebody may
   take a turn or the gather window has yet to pass, except with a prefix that
   both drops and delays, when threads branch.  wait_for_turn, watchdog_tick. *)
THEOREM RunsGoOn == Spec => []NoRunSticks
<1>1. Init => GatherInv
  BY DEF Init, SimInit, SchedInit, GatherInv
<1>2. ExplorationInv /\ GatherInv /\ [Next]_vars => GatherInv'
  BY StepKeepsGathered
<1>3. ASSUME ExplorationInv, GatherInv
      PROVE  NoRunSticks
  <2> SUFFICES ASSUME NEW u \in Threads, Waiting(u), current_result = "SUCCESS",
                      enforcing \/ free_deadline = "passed",
                      enforcing => Followable(forced_prefix)
               PROVE  \E t \in Threads : Waiting(t) /\ CanTakeTurn(StepOf(t))
    BY DEF NoRunSticks, Followable
  <2>1. CASE ~enforcing
    BY <1>3, <2>1, SmallestMayGo DEF ExplorationInv
  <2>2. CASE enforcing /\ forced_pos < Len(forced_prefix)
    BY <1>3, <2>2, ExpectedIsThere
  <2>3. CASE enforcing /\ ~(forced_pos < Len(forced_prefix))
    BY <2>3 DEF CanTakeTurn, MayGoUnexpected, Expecting
  <2> QED
    BY <2>1, <2>2, <2>3
<1>4. ExplorationInv /\ GatherInv => NoRunSticks
  BY <1>3
<1> QED
  BY <1>1, <1>2, <1>4, ExplorationKept, PTL DEF Spec
----------------------------------------------------------------------------
(* Every order is tried *)

\* The steps of two threads are told apart by their thread names.
NamesDiffer ==
  \A w \in Workloads : \A t, u \in Threads :
    \A i \in 1..Len(w.program[t]), j \in 1..Len(w.program[u]) :
      t # u => ThreadOf[w.program[t][i]] # ThreadOf[w.program[u][j]]

\* The turns of an interleaving are those of the threads' steps.
LEMMA TurnsOfInterleavings ==
  ASSUME workload \in Workloads, TotalSteps \in Nat, NEW c \in Interleavings,
         NEW i \in 1..TotalSteps
  PROVE  c[i] \in Threads /\ TurnsOf(c, i) \in 1..Len(workload.program[c[i]])
<1>1. c[i] \in Threads
  BY DEF Interleavings
<1>2. TurnsOf(c, i) \in 1..Cardinality(TurnsTaken(c, TotalSteps, c[i]))
  BY TurnsAreNumbered
<1>3. Cardinality(TurnsTaken(c, TotalSteps, c[i])) = Lengths[c[i]]
  BY <1>1 DEF TurnsTaken, Interleavings
<1> QED
  BY <1>1, <1>2, <1>3, LengthsAreNumbers

\* What an exploration that is done has of every mutation of a trace it has.
LEMMA MutationsAreTried ==
  ASSUME ExplorationInv, OrdersInv, ExplorationClosed, done, Straight,
         NEW tr \in seen_traces, NEW p \in Mutations(tr)
  PROVE  \E new \in seen_traces : \E d \in Interleavings :
           InOrder(new, d) /\ \A j \in 1..Len(p) : new[j] = p[j]
<1>1. p \in explored_trace_prefixes
  BY DEF ExplorationClosed
<1>2. PICK new \in seen_traces : p \in PrefixesOf(new)
  BY <1>1 DEF OrdersInv, SeenInv
<1>3. PICK d \in Interleavings : InOrder(new, d)
  BY DEF OrdersInv, TracesAreInterleavings
<1>4. \A j \in 1..Len(p) : new[j] = p[j]
  <2>1. PICK k \in 1..Len(new) : p = SubSeq(new, 1, k)
    BY <1>2 DEF PrefixesOf
  <2>2. new \in Schedules
    BY DEF ExplorationInv, TypeOK, SimTypeOK
  <2>3. k \in 0..Len(new)
    BY <2>2 DEF Schedules
  <2> QED
    BY <2>1, <2>2, <2>3, SubSeqIsSchedule
<1> QED
  BY <1>3, <1>4

\* Traces whose steps agree have been executed in orders that agree.
LEMMA StepsTellTheOrder ==
  ASSUME workload \in Workloads, TotalSteps \in Nat,
         NEW c \in Interleavings, NEW tr, InOrder(tr, c),
         NEW d \in Interleavings, NEW new, InOrder(new, d),
         NEW j \in 1..TotalSteps, NEW k \in 1..TotalSteps, new[j].step = tr[k].step
  PROVE  d[j] = c[k]
<1>1. Turn(d, j) = Turn(c, k)
  BY DEF InOrder
<1>2. /\ d[j] \in Threads /\ TurnsOf(d, j) \in 1..Len(workload.program[d[j]])
      /\ c[k] \in Threads /\ TurnsOf(c, k) \in 1..Len(workload.program[c[k]])
  BY TurnsOfInterleavings
<1> QED
  BY <1>1, <1>2, StepsAreOwn DEF Turn

\* From one order that has been tried to the next: two neighbours change places.
LEMMA NeighboursAreSwapped ==
  ASSUME NamesDiffer, ExplorationInv, OrdersInv, ExplorationClosed, done, Straight,
         TotalSteps \in Nat,
         NEW c \in Interleavings, NEW tr \in seen_traces, InOrder(tr, c),
         NEW i \in 1..(TotalSteps - 1), c[i] # c[i + 1]
  PROVE  \E new \in seen_traces : \E d \in Interleavings :
           /\ InOrder(new, d)
           /\ \A j \in 1..(i + 1) : d[j] = c[Origin(i, j)] /\ new[j] = tr[Origin(i, j)]
<1>1. workload \in Workloads /\ tr \in Schedules
  BY DEF ExplorationInv, TypeOK, SimTypeOK
<1>2. /\ Len(tr) = TotalSteps /\ \A j \in 1..TotalSteps : tr[j].step = Turn(c, j)
      /\ i \in 1..TotalSteps /\ i + 1 \in 1..TotalSteps
      /\ \A j \in 1..(i + 1) : j \in 1..TotalSteps /\ Origin(i, j) \in 1..TotalSteps
  BY DEF InOrder, Origin
<1>3. Swappable(tr, i)
  <2>1. /\ c[i] \in Threads /\ TurnsOf(c, i) \in 1..Len(workload.program[c[i]])
        /\ c[i + 1] \in Threads /\ TurnsOf(c, i + 1) \in 1..Len(workload.program[c[i + 1]])
    BY <1>1, <1>2, TurnsOfInterleavings
  <2>2. ThreadOf[Turn(c, i)] # ThreadOf[Turn(c, i + 1)]
    BY <1>1, <2>1 DEF NamesDiffer, Turn
  <2> QED
    BY <1>2, <2>2 DEF Swappable, thread
<1> DEFINE p == minimal_prefix_for_swap(tr, i, i + 1)
<1>4. Len(p) = i + 1 /\ \A j \in 1..(i + 1) : p[j] = tr[Origin(i, j)]
  <2>1. i \in 1..(Len(tr) - 1)
    BY <1>2
  <2> QED
    BY <1>1, <2>1, SwapShape
<1>5. p \in Mutations(tr)
  <2>1. p \in SwapPrefixes(tr)
    BY <1>2, <1>3 DEF SwapPrefixes
  <2> QED
    BY <2>1, Zenon DEF Mutations
<1> HIDE DEF p
<1>6. PICK new \in seen_traces : \E d \in Interleavings :
        InOrder(new, d) /\ \A j \in 1..Len(p) : new[j] = p[j]
  BY <1>5, MutationsAreTried
<1>7. PICK d \in Interleavings : InOrder(new, d) /\ \A j \in 1..Len(p) : new[j] = p[j]
  BY <1>6
<1>8. ASSUME NEW j \in 1..(i + 1)
      PROVE  d[j] = c[Origin(i, j)] /\ new[j] = tr[Origin(i, j)]
  <2>1. new[j] = tr[Origin(i, j)] /\ j \in 1..TotalSteps
    BY <1>2, <1>4, <1>7
  <2>2. PICK k \in 1..TotalSteps : k = Origin(i, j)
    BY <1>2
  <2>3. d[j] = c[k]
    BY <1>1, <1>7, <2>1, <2>2, StepsTellTheOrder
  <2> QED
    BY <2>1, <2>2, <2>3
<1> QED
  BY <1>7, <1>8

\* And from one choice of mutated steps to the next: one more is mutated.
LEMMA OneMoreIsMutated ==
  ASSUME ExplorationInv, OrdersInv, ExplorationClosed, done, Straight, TotalSteps \in Nat,
         EnableDrop \/ EnableDelay,
         NEW c \in Interleavings, NEW tr \in seen_traces, InOrder(tr, c),
         NEW i \in 1..TotalSteps, tr[i].wrap = <<>>
  PROVE  \E new \in seen_traces : \E d \in Interleavings :
           /\ InOrder(new, d)
           /\ d[i] = c[i] /\ new[i].wrap # <<>>
           /\ \A j \in 1..(i - 1) : d[j] = c[j] /\ new[j] = tr[j]
<1>1. workload \in Workloads /\ tr \in Schedules /\ Len(tr) = TotalSteps
  BY DEF ExplorationInv, TypeOK, SimTypeOK, InOrder
<1>2. i \in 1..Len(tr) /\ tr[i] \in Tokens
  BY <1>1 DEF Schedules
<1>3. i \in Mutable(tr)
  BY <1>2, MarkerKinds DEF Mutable, _is_mutated
<1>4. PICK x \in Tokens :
        /\ x.step = tr[i].step /\ x.wrap # <<>>
        /\ BeginsWith(tr, i, x) \in Mutations(tr)
  <2>1. SubSeq(tr, 1, i)[i] = tr[i]
    BY <1>1, <1>2, SubSeqIsSchedule DEF Schedules
  <2>2. CASE EnableDrop
    <3>1. drop(tr[i]) \in Tokens /\ drop(tr[i]).step = tr[i].step /\ drop(tr[i]).wrap # <<>>
      <4>1. drop(tr[i]).wrap = <<"DROP">> /\ <<"DROP">> # <<>>
        BY <1>2, DropOfBare
      <4> QED
        BY <1>2, <4>1, DropOfBare, Zenon
    <3>2. BeginsWith(tr, i, drop(tr[i])) \in DropPrefixes(tr)
      BY <1>3, <2>1 DEF BeginsWith, DropPrefixes
    <3>3. BeginsWith(tr, i, drop(tr[i])) \in Mutations(tr)
      BY <2>2, <3>2, Zenon DEF Mutations
    <3> QED
      BY <3>1, <3>3
  <2>3. CASE EnableDelay
    <3>1. delay(tr[i]) \in Tokens /\ delay(tr[i]).step = tr[i].step /\ delay(tr[i]).wrap # <<>>
      <4>1. delay(tr[i]).wrap = <<"DELAY">> /\ <<"DELAY">> # <<>>
        BY <1>2, DelayOfBare
      <4> QED
        BY <1>2, <4>1, DelayOfBare, Zenon
    <3>2. BeginsWith(tr, i, delay(tr[i])) \in DelayPrefixes(tr)
      BY <1>3, <2>1 DEF BeginsWith, DelayPrefixes
    <3>3. BeginsWith(tr, i, delay(tr[i])) \in Mutations(tr)
      BY <2>3, <3>2, Zenon DEF Mutations
    <3> QED
      BY <3>1, <3>3
  <2> QED
    BY <2>2, <2>3
<1> DEFINE p == BeginsWith(tr, i, x)
<1>5. Len(p) = i /\ p[i] = x /\ \A n \in 1..(i - 1) : p[n] = tr[n]
  BY <1>1, <1>2, LastReplaced
<1>6. p \in Mutations(tr)
  BY <1>4
<1> HIDE DEF p
<1>7. PICK new \in seen_traces : \E d \in Interleavings :
        InOrder(new, d) /\ \A j \in 1..Len(p) : new[j] = p[j]
  BY <1>6, MutationsAreTried
<1>8. PICK d \in Interleavings : InOrder(new, d) /\ \A j \in 1..Len(p) : new[j] = p[j]
  BY <1>7
<1>9. new[i] = x /\ \A j \in 1..(i - 1) : new[j] = tr[j]
  <2>1. i \in 1..i /\ \A j \in 1..(i - 1) : j \in 1..i
    OBVIOUS
  <2> QED
    BY <1>5, <1>8, <2>1
<1>10. d[i] = c[i]
  BY <1>1, <1>4, <1>8, <1>9, StepsTellTheOrder
<1>11. ASSUME NEW j \in 1..(i - 1)
       PROVE  d[j] = c[j]
  <2>1. j \in 1..TotalSteps /\ new[j].step = tr[j].step
    BY <1>9
  <2> QED
    BY <1>1, <1>8, <2>1, StepsTellTheOrder
<1> QED
  BY <1>4, <1>8, <1>9, <1>10, <1>11

LEMMA AllOrdersAreTried ==
  ASSUME NamesDiffer, ExplorationInv, OrdersInv, ExplorationClosed
  PROVE  EveryOrderIsTried
<1> SUFFICES ASSUME done, Straight, NEW o \in Interleavings, NEW m \in Markings
             PROVE  \E tr \in seen_traces :
                      /\ InOrder(tr, o)
                      /\ \A i \in 1..TotalSteps : m[i] # <<>> => tr[i].wrap # <<>>
  BY DEF EveryOrderIsTried
<1>1. workload \in Workloads /\ seen_traces \subseteq Schedules
  BY DEF ExplorationInv, TypeOK, SimTypeOK
<1>2. PICK first \in seen_traces : first \in seen_traces
  BY DEF OrdersInv, SeenInv
<1>3. PICK n \in Nat : n = TotalSteps
  <2>1. Len(first) = TotalSteps
    BY DEF OrdersInv, TracesAreInterleavings, InOrder
  <2>2. Len(first) \in Nat
    BY <1>1 DEF Schedules
  <2> QED
    BY <2>1, <2>2
<1> DEFINE Run(c, tr) == [who |-> c, marked |-> {i \in 1..n : tr[i].wrap # <<>>}]
<1> DEFINE Wanted == {i \in 1..n : m[i] # <<>>}
<1> DEFINE C == {r \in [who : Interleavings, marked : SUBSET (1..n)] :
                   \E tr \in seen_traces : InOrder(tr, r.who) /\ r = Run(r.who, tr)}
<1>4. \A c \in Interleavings, tr \in seen_traces :
        InOrder(tr, c) => \E r \in C : r.who = c /\ r.marked = {i \in 1..n : tr[i].wrap # <<>>}
  <2> TAKE c \in Interleavings, tr \in seen_traces
  <2>1. /\ Run(c, tr) \in [who : Interleavings, marked : SUBSET (1..n)]
        /\ Run(c, tr).who = c /\ Run(c, tr).marked = {i \in 1..n : tr[i].wrap # <<>>}
    OBVIOUS
  <2> QED
    BY <2>1
<1>5. \A r \in C : /\ r.who \in Interleavings
                   /\ \E tr \in seen_traces :
                        InOrder(tr, r.who) /\ r.marked = {i \in 1..n : tr[i].wrap # <<>>}
  OBVIOUS
<1> HIDE DEF C, Run
<1>6. C # {}
  BY <1>2, <1>4 DEF OrdersInv, TracesAreInterleavings
<1>7. \A c \in Interleavings :
        /\ c \in [1..n -> Threads]
        /\ \A t \in Threads : Cardinality({i \in 1..n : c[i] = t}) = Lengths[t]
  BY <1>3 DEF Interleavings
<1>8. ASSUME NEW r \in C
      PROVE  SameTurns(r.who, o, n)
  <2> SUFFICES ASSUME NEW t
               PROVE  Cardinality({i \in 1..n : r.who[i] = t}) = Cardinality({i \in 1..n : o[i] = t})
    BY DEF SameTurns
  <2>0. r.who \in Interleavings
    BY <1>5
  <2>1. CASE t \in Threads
    BY <1>7, <2>0, <2>1
  <2>2. CASE t \notin Threads
    <3>1. {i \in 1..n : r.who[i] = t} = {} /\ {i \in 1..n : o[i] = t} = {}
      BY <1>7, <2>0, <2>2
    <3> QED
      BY <3>1
  <2> QED
    BY <2>1, <2>2
<1>9. ASSUME NEW r \in C, NEW i \in 1..(n - 1), r.who[i] # r.who[i + 1]
      PROVE  \E e \in C : \A j \in 1..(i + 1) :
               e.who[j] = r.who[Origin(i, j)] /\ (j \in e.marked <=> Origin(i, j) \in r.marked)
  <2>1. PICK c \in Interleavings : c = r.who
    BY <1>5
  <2>2. PICK tr \in seen_traces : InOrder(tr, c) /\ r.marked = {k \in 1..n : tr[k].wrap # <<>>}
    BY <1>5, <2>1
  <2>3. \E new \in seen_traces : \E d \in Interleavings :
           /\ InOrder(new, d)
           /\ \A j \in 1..(i + 1) : d[j] = c[Origin(i, j)] /\ new[j] = tr[Origin(i, j)]
    BY <1>3, <1>9, <2>1, <2>2, NeighboursAreSwapped
  <2>4. PICK new \in seen_traces, d \in Interleavings :
           /\ InOrder(new, d)
           /\ \A j \in 1..(i + 1) : d[j] = c[Origin(i, j)] /\ new[j] = tr[Origin(i, j)]
    BY <2>3
  <2>5. PICK e \in C : e.who = d /\ e.marked = {k \in 1..n : new[k].wrap # <<>>}
    BY <1>4, <2>4
  <2>6. \A j \in 1..(i + 1) : j \in 1..n /\ Origin(i, j) \in 1..n
    BY DEF Origin
  <2> QED
    BY <2>1, <2>2, <2>4, <2>5, <2>6
<1>10. ASSUME NEW r \in C, NEW i \in 1..n, i \in Wanted \ r.marked
       PROVE  \E e \in C : /\ e.who[i] = r.who[i] /\ i \in e.marked
                           /\ \A j \in 1..(i - 1) :
                                e.who[j] = r.who[j] /\ (j \in e.marked <=> j \in r.marked)
  <2>1. PICK c \in Interleavings : c = r.who
    BY <1>5
  <2>2. PICK tr \in seen_traces : InOrder(tr, c) /\ r.marked = {k \in 1..n : tr[k].wrap # <<>>}
    BY <1>5, <2>1
  <2>3. EnableDrop \/ EnableDelay
    BY <1>3, <1>10 DEF Markings
  <2>4. tr[i].wrap = <<>>
    BY <1>10, <2>2
  <2>5. PICK new \in seen_traces, d \in Interleavings :
           /\ InOrder(new, d)
           /\ d[i] = c[i] /\ new[i].wrap # <<>>
           /\ \A j \in 1..(i - 1) : d[j] = c[j] /\ new[j] = tr[j]
    BY <1>3, <2>2, <2>3, <2>4, OneMoreIsMutated
  <2>6. PICK e \in C : e.who = d /\ e.marked = {k \in 1..n : new[k].wrap # <<>>}
    BY <1>4, <2>5
  <2>7. \A j \in 1..(i - 1) : j \in 1..n
    OBVIOUS
  <2> QED
    BY <2>1, <2>2, <2>5, <2>6, <2>7
<1> HIDE DEF Wanted
<1>11. PICK r \in C : Reaches(r, o, Wanted, n)
  BY <1>6, <1>8, <1>9, <1>10, SwapsReachAll
<1>12. PICK c \in Interleavings : c = r.who
  BY <1>5
<1>13. PICK tr \in seen_traces : InOrder(tr, c) /\ r.marked = {k \in 1..n : tr[k].wrap # <<>>}
  BY <1>5, <1>12
<1>14. c = o
  BY <1>7, <1>11, <1>12 DEF Reaches
<1>15. \A i \in 1..n : m[i] # <<>> => tr[i].wrap # <<>>
  BY <1>11, <1>13 DEF Reaches, Wanted
<1> QED
  BY <1>3, <1>13, <1>14, <1>15

(* When an exploration says that it is done, the steps of threads that do not
   branch have been executed in every order there is, and in each with any steps
   one may choose mutated, others maybe too: for every number of threads and steps,
   all timings, and with one kind of mutation, both or none.  The threads' names
   must differ, because swaps are made where they do.
   generate_forced_prefixes, pick_next_prefix_or_done, execution_done. *)
THEOREM OrdersAreTried ==
  ASSUME NamesDiffer
  PROVE  Spec => []EveryOrderIsTried
<1>1. ExplorationInv /\ OrdersInv /\ ExplorationClosed => EveryOrderIsTried
  BY AllOrdersAreTried
<1> QED
  BY <1>1, ExplorationKept, OrdersKept, ExplorationsEndClosed, PTL

\* A trace is the schedule of its order and its markers.
LEMMA TraceIsSchedule ==
  ASSUME ExplorationInv, OrdersInv, NEW tr \in seen_traces, NEW o \in Interleavings, InOrder(tr, o)
  PROVE  \E m \in Markings :
           tr = Schedule(o, m) /\ \A i \in 1..TotalSteps : tr[i].wrap = m[i]
<1>1. tr \in Schedules /\ AllAllowed(tr)
  BY DEF ExplorationInv, TypeOK, SimTypeOK, OrdersInv, SeenInv
<1>2. PICK n \in Nat : n = TotalSteps /\ Len(tr) = n
  BY <1>1 DEF InOrder, Schedules
<1> DEFINE m == [i \in 1..n |-> tr[i].wrap]
<1>3. \A i \in 1..n : tr[i] \in Tokens /\ Allowed(tr[i]) /\ tr[i].step = Turn(o, i)
  BY <1>1, <1>2 DEF InOrder, AllAllowed, Schedules
<1>4. m \in Markings
  BY <1>2, <1>3 DEF Markings, Allowed
<1>5. ASSUME NEW i \in 1..n
      PROVE  tr[i] = [wrap |-> m[i], step |-> Turn(o, i)]
  <2>1. m[i] = tr[i].wrap
    OBVIOUS
  <2> HIDE DEF m
  <2> QED
    BY <1>3, <2>1, Zenon DEF Tokens
<1>6. \A i \in 1..n : m[i] = tr[i].wrap
  OBVIOUS
<1> HIDE DEF m
<1>7. Schedule(o, m) = [i \in 1..n |-> [wrap |-> m[i], step |-> Turn(o, i)]]
  BY <1>2 DEF Schedule
<1>8. tr = [i \in 1..n |-> tr[i]]
  BY <1>1, <1>2 DEF Schedules
<1>9. tr = Schedule(o, m)
  BY <1>5, <1>7, <1>8
<1> QED
  BY <1>2, <1>4, <1>6, <1>9

(* Without mutations the orders are all there is to try: the exploration is
   complete, and by NoRunIsWasted it has one run for each.  The same code. *)
THEOREM ReorderingsAreComplete ==
  ASSUME NamesDiffer, ~EnableDrop, ~EnableDelay
  PROVE  Spec => []ExplorationComplete
<1>1. ASSUME ExplorationInv, OrdersInv, EveryOrderIsTried
      PROVE  ExplorationComplete
  <2> SUFFICES ASSUME done, Straight, NEW o \in Interleavings, NEW m \in Markings
               PROVE  Schedule(o, m) \in seen_traces
    BY DEF ExplorationComplete, AllSchedules
  <2>1. PICK tr \in seen_traces : InOrder(tr, o)
    BY <1>1 DEF EveryOrderIsTried
  <2>2. PICK k \in Markings : tr = Schedule(o, k)
    BY <1>1, <2>1, TraceIsSchedule
  <2>3. k = m
    <3>1. Markings = [1..TotalSteps -> {<<>>}]
      BY DEF Markings
    <3>2. PICK D : D = 1..TotalSteps
      OBVIOUS
    <3>3. k \in [D -> {<<>>}] /\ m \in [D -> {<<>>}]
      BY <3>1, <3>2
    <3>4. \A i \in D : k[i] = m[i]
      BY <3>3
    <3> QED
      BY <3>3, <3>4
  <2> QED
    BY <2>2, <2>3
<1>2. ExplorationInv /\ OrdersInv /\ EveryOrderIsTried => ExplorationComplete
  BY <1>1
<1> QED
  BY <1>2, ExplorationKept, OrdersKept, OrdersAreTried, PTL
----------------------------------------------------------------------------
(* How many runs there are *)

LEMMA FiniteFunctions ==
  ASSUME NEW n \in Nat, NEW S, IsFiniteSet(S)
  PROVE  IsFiniteSet([1..n -> S])
<1> DEFINE F(k) == [1..k -> S]
<1> DEFINE I == {k \in Nat : ~IsFiniteSet(F(k))}
<1> SUFFICES ASSUME I # {} PROVE FALSE
  OBVIOUS
<1>1. PICK k \in I : \A j \in I : k <= j
  <2>1. I \in SUBSET Nat
    OBVIOUS
  <2> HIDE DEF I
  <2> QED
    BY <2>1, SmallestNumber
<1>2. k \in Nat /\ ~IsFiniteSet(F(k))
  OBVIOUS
<1>3. CASE k = 0
  <2>1. \A f \in F(0), g \in F(0) : f = g
    OBVIOUS
  <2>2. CASE F(0) = {}
    BY <1>2, <1>3, <2>2, FS_EmptySet
  <2>3. CASE F(0) # {}
    <3> PICK f : f \in F(0)
      BY <2>3
    <3>1. F(0) = {f}
      BY <2>1
    <3> QED
      BY <1>2, <1>3, <3>1, FS_Singleton
  <2> QED
    BY <2>2, <2>3
<1>4. CASE k # 0
  <2>1. k - 1 \in Nat /\ ~(k <= k - 1)
    BY <1>2, <1>4
  <2>2. IsFiniteSet(F(k - 1))
    <3>1. k - 1 \notin I
      <4> HIDE DEF I
      <4> QED
        BY <1>1, <2>1
    <3> QED
      BY <2>1, <3>1
  <2>3. IsFiniteSet(F(k - 1) \X S)
    BY <2>2, FS_Product
  <2> DEFINE longer == [q \in F(k - 1) \X S |-> [i \in 1..k |-> IF i = k THEN q[2] ELSE q[1][i]]]
  <2>4. longer \in [F(k - 1) \X S -> F(k)]
    <3>1. ASSUME NEW f \in F(k - 1), NEW x \in S
          PROVE  [i \in 1..k |-> IF i = k THEN x ELSE f[i]] \in F(k)
      BY <1>2, <1>4
    <3> QED
      BY <3>1
  <2>5. ASSUME NEW g \in F(k)
        PROVE  \E q \in F(k - 1) \X S : longer[q] = g
    <3> DEFINE f == [i \in 1..(k - 1) |-> g[i]]
    <3>1. f \in F(k - 1) /\ g[k] \in S
      BY <1>2, <1>4
    <3>2. \A i \in 1..k : g[i] = IF i = k THEN g[k] ELSE f[i]
      BY <1>2, <1>4
    <3> HIDE DEF f
    <3>3. longer[<<f, g[k]>>] = [i \in 1..k |-> IF i = k THEN g[k] ELSE f[i]]
      BY <3>1
    <3>4. g = [i \in 1..k |-> g[i]]
      OBVIOUS
    <3>5. longer[<<f, g[k]>>] = g
      BY <3>2, <3>3, <3>4
    <3> QED
      BY <3>1, <3>5
  <2> HIDE DEF longer, F
  <2>6. longer \in Surjection(F(k - 1) \X S, F(k))
    BY <2>4, <2>5 DEF Surjection
  <2> QED
    BY <1>2, <2>3, <2>6, FS_Surjection
<1> QED
  BY <1>3, <1>4

LEMMA StepsAreFinite ==
  ASSUME IsFiniteSet(Threads), workload \in Workloads
  PROVE  TotalSteps \in Nat
<1> DEFINE Turns(t) == {t} \X (1..Lengths[t])
<1> DEFINE all == {Turns(t) : t \in Threads}
<1>1. ASSUME NEW t \in Threads
      PROVE  IsFiniteSet(Turns(t))
  <2>1. IsFiniteSet(1..Lengths[t])
    BY LengthsAreNumbers, FS_Interval
  <2> QED
    BY <2>1, FS_Singleton, FS_Product
<1> HIDE DEF Turns
<1>2. IsFiniteSet(all)
  <2> DEFINE f == [t \in Threads |-> Turns(t)]
  <2>1. f \in Surjection(Threads, all)
    BY DEF Surjection
  <2> QED
    BY <2>1, FS_Surjection
<1>3. \A T \in all : IsFiniteSet(T)
  BY <1>1
<1> HIDE DEF all
<1>4. IsFiniteSet(UNION all)
  BY <1>2, <1>3, FS_UNION
<1>5. TotalSteps = Cardinality(UNION all)
  BY DEF TotalSteps, all, Turns
<1> QED
  BY <1>4, <1>5, FS_CardinalityType

LEMMA SchedulesAreFinite ==
  ASSUME IsFiniteSet(Threads), workload \in Workloads
  PROVE  IsFiniteSet(AllSchedules)
<1>1. TotalSteps \in Nat
  BY StepsAreFinite
<1> DEFINE Markers == {<<>>} \cup (IF EnableDrop THEN {<<"DROP">>} ELSE {})
                             \cup (IF EnableDelay THEN {<<"DELAY">>} ELSE {})
<1>2. IsFiniteSet(Markers)
  <2>1. /\ IsFiniteSet({<<>>})
        /\ IsFiniteSet(IF EnableDrop THEN {<<"DROP">>} ELSE {})
        /\ IsFiniteSet(IF EnableDelay THEN {<<"DELAY">>} ELSE {})
    BY FS_Singleton, FS_EmptySet
  <2> QED
    BY <2>1, FS_Union
<1>3. Markings = [1..TotalSteps -> Markers]
  BY DEF Markings
<1> HIDE DEF Markers
<1>4. IsFiniteSet(Markings)
  BY <1>1, <1>2, <1>3, FiniteFunctions
<1>5. IsFiniteSet(Interleavings)
  <2>1. IsFiniteSet([1..TotalSteps -> Threads])
    BY <1>1, FiniteFunctions
  <2>2. Interleavings \in SUBSET [1..TotalSteps -> Threads]
    BY DEF Interleavings
  <2> QED
    BY <2>1, <2>2, FS_Subset
<1>6. IsFiniteSet(Interleavings \X Markings)
  BY <1>4, <1>5, FS_Product
<1> DEFINE f == [q \in Interleavings \X Markings |-> Schedule(q[1], q[2])]
<1>7. f \in Surjection(Interleavings \X Markings, AllSchedules)
  <2>1. f \in [Interleavings \X Markings -> AllSchedules]
    BY DEF AllSchedules
  <2>2. ASSUME NEW s \in AllSchedules
        PROVE  \E q \in Interleavings \X Markings : f[q] = s
    <3>1. PICK o \in Interleavings, m \in Markings : s = Schedule(o, m)
      BY DEF AllSchedules
    <3>2. f[<<o, m>>] = Schedule(o, m)
      OBVIOUS
    <3> QED
      BY <3>1, <3>2
  <2> HIDE DEF f
  <2> QED
    BY <2>1, <2>2 DEF Surjection
<1> HIDE DEF f
<1> QED
  BY <1>6, <1>7, FS_Surjection

(* An exploration of threads that do not branch ends: with finitely many threads
   it cannot have more runs than there are interleavings of their steps with
   markers on them, and by RunsGoOn none of its runs is stuck.
   pick_next_prefix_or_done, generate_forced_prefixes, wait_for_turn. *)
THEOREM ExplorationsAreBounded ==
  ASSUME IsFiniteSet(Threads)
  PROVE  Spec => []RunsAreBounded
<1>1. ASSUME ExplorationInv, OrdersInv,
             ~(EnableDrop /\ EnableDelay) \/ Straight => EveryRunIsNew
      PROVE  RunsAreBounded
  <2> SUFFICES ASSUME Straight
               PROVE  run_index <= Cardinality(AllSchedules)
    BY DEF RunsAreBounded
  <2>1. seen_traces \in SUBSET AllSchedules
    <3> SUFFICES ASSUME NEW tr \in seen_traces
                 PROVE  tr \in AllSchedules
      OBVIOUS
    <3>1. PICK o \in Interleavings : InOrder(tr, o)
      BY <1>1 DEF OrdersInv, TracesAreInterleavings
    <3>2. PICK m \in Markings : tr = Schedule(o, m)
      BY <1>1, <3>1, TraceIsSchedule
    <3> QED
      BY <3>2 DEF AllSchedules
  <2>2. IsFiniteSet(AllSchedules)
    BY <1>1, SchedulesAreFinite DEF ExplorationInv, TypeOK
  <2>3. Cardinality(seen_traces) <= Cardinality(AllSchedules)
    BY <2>1, <2>2, FS_Subset
  <2>4. run_index = Cardinality(seen_traces)
    BY <1>1 DEF EveryRunIsNew, ExplorationInv, ResultsInv
  <2> QED
    BY <2>3, <2>4
<1>2. /\ ExplorationInv /\ OrdersInv
      /\ ~(EnableDrop /\ EnableDelay) \/ Straight => EveryRunIsNew
      => RunsAreBounded
  BY <1>1
<1> QED
  BY <1>2, ExplorationKept, OrdersKept, NoRunIsWasted, PTL
=============================================================================
