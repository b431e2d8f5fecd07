---------------------------- MODULE HandlerProofs ----------------------------
(***************************************************************************)
(* Lemmas about tokens, the prefix generator, the scheduler, the handlers  *)
(* and the queue, wherever the requests come from: types, what a mutation  *)
(* does to a schedule, and what the end of a run does to the queue; and    *)
(* two theorems about the generator.                                       *)
(***************************************************************************)
EXTENDS SimulatorHandlers, TLAPS, FiniteSetTheorems

(* Numbers *)

LEMMA SmallestNumber ==
  ASSUME NEW I \in SUBSET Nat, I # {}
  PROVE  \E i \in I : \A j \in I : i <= j
<1>1. PICK i \in I : \A j \in I : ~(<<j, i>> \in OpToRel(<, Nat))
  BY NatLessThanWellFounded, WFMin
<1>2. ASSUME NEW j \in I PROVE i <= j
  <2>1. PICK a \in Nat, b \in Nat : a = i /\ b = j
    OBVIOUS
  <2>2. <<b, a>> \in Nat \X Nat /\ <<b, a>> \notin OpToRel(<, Nat)
    BY <1>1, <2>1
  <2>3. ~(<<b, a>>[1] < <<b, a>>[2])
    BY <2>2 DEF OpToRel
  <2> QED
    BY <2>1, <2>3
<1> QED
  BY <1>2
----------------------------------------------------------------------------
(* Tokens *)

LEMMA BaseIsToken == \A s \in Steps : Base(s) \in Tokens
BY DEF Base, Tokens, Wraps

LEMMA MutableTokensAreBare ==
  ASSUME NEW x \in Tokens, ~ _is_mutated(x)
  PROVE  x.wrap = <<>>
BY DEF _is_mutated, is_drop, is_delay, Outer, Tokens, Wraps, undrop, Strip

LEMMA DropOfBare ==
  ASSUME NEW x \in Tokens, x.wrap = <<>>
  PROVE  drop(x) \in Tokens /\ drop(x).step = x.step /\ drop(x).wrap = <<"DROP">>
BY DEF drop, is_drop, Outer, Tokens, Wraps

LEMMA DelayOfBare ==
  ASSUME NEW x \in Tokens, x.wrap = <<>>
  PROVE  delay(x) \in Tokens /\ delay(x).step = x.step /\ delay(x).wrap = <<"DELAY">>
BY DEF delay, is_delay, is_drop, undrop, Outer, Tokens, Wraps
----------------------------------------------------------------------------
(* Generated prefixes *)

LEMMA SubSeqIsSchedule ==
  ASSUME NEW t \in Schedules, NEW k \in 0..Len(t)
  PROVE  /\ SubSeq(t, 1, k) \in Schedules
         /\ Len(SubSeq(t, 1, k)) = k
         /\ \A i \in 1..k : SubSeq(t, 1, k)[i] = t[i]
BY DEF Schedules

LEMMA SwapIsSchedule ==
  ASSUME NEW t \in Schedules, NEW i \in 1..(Len(t) - 1)
  PROVE  minimal_prefix_for_swap(t, i, i + 1) \in Schedules
<1> DEFINE p == SubSeq(t, 1, i + 1)
<1>1. p \in Schedules /\ Len(p) = i + 1
  BY SubSeqIsSchedule DEF Schedules
<1>2. t[i] \in Tokens /\ t[i + 1] \in Tokens
  BY DEF Schedules
<1> QED
  BY <1>1, <1>2 DEF minimal_prefix_for_swap, Schedules

LEMMA MutationIsSchedule ==
  ASSUME NEW t \in Schedules, NEW k \in 1..Len(t), NEW i \in 1..k, NEW x \in Tokens
  PROVE  [SubSeq(t, 1, k) EXCEPT ![i] = x] \in Schedules
BY SubSeqIsSchedule DEF Schedules

LEMMA MutableIsBare ==
  ASSUME NEW t \in Schedules, NEW i \in Mutable(t)
  PROVE  i \in 1..Len(t) /\ t[i] \in Tokens /\ t[i].wrap = <<>>
BY MutableTokensAreBare DEF Mutable, Schedules

LEMMA MutationsAreSchedules ==
  ASSUME NEW t \in Schedules
  PROVE  Mutations(t) \subseteq Schedules
<1>1. SwapPrefixes(t) \subseteq Schedules
  BY SwapIsSchedule DEF SwapPrefixes
<1>2. DropPrefixes(t) \subseteq Schedules
  <2> SUFFICES ASSUME NEW i \in Mutable(t)
               PROVE  [SubSeq(t, 1, i) EXCEPT ![i] = drop(SubSeq(t, 1, i)[i])] \in Schedules
    BY DEF DropPrefixes
  <2> QED
    BY MutableIsBare, SubSeqIsSchedule, DropOfBare, MutationIsSchedule DEF Schedules
<1>3. DelayPrefixes(t) \subseteq Schedules
  <2> SUFFICES ASSUME NEW i \in Mutable(t)
               PROVE  [SubSeq(t, 1, i) EXCEPT ![i] = delay(SubSeq(t, 1, i)[i])] \in Schedules
    BY DEF DelayPrefixes
  <2> QED
    BY MutableIsBare, SubSeqIsSchedule, DelayOfBare, MutationIsSchedule DEF Schedules
<1>4. MixedPrefixes(t) \subseteq Schedules
  <2> SUFFICES ASSUME NEW i \in Mutable(t), NEW j \in Mutable(t), i # j
               PROVE  mixed_prefix(t, i, j) \in Schedules
    BY DEF MixedPrefixes
  <2> DEFINE k == Later(i, j)
  <2> DEFINE p == SubSeq(t, 1, k)
  <2>1. k \in 1..Len(t) /\ i \in 1..k /\ j \in 1..k
    BY MutableIsBare DEF Later, Schedules
  <2>2. p \in Schedules /\ Len(p) = k /\ p[i] = t[i] /\ p[j] = t[j]
    BY <2>1, SubSeqIsSchedule DEF Schedules
  <2>3. drop(p[i]) \in Tokens /\ delay(p[j]) \in Tokens
    BY <2>2, MutableIsBare, DropOfBare, DelayOfBare
  <2>4. [p EXCEPT ![i] = drop(p[i]), ![j] = delay(p[j])] \in Schedules
    BY <2>1, <2>2, <2>3 DEF Schedules
  <2> QED
    BY <2>4 DEF mixed_prefix
<1> QED
  BY <1>1, <1>2, <1>3, <1>4 DEF Mutations
----------------------------------------------------------------------------
(* Swaps *)

\* Where the k-th token of a swapped prefix stood in the trace.
Origin(i, k) == IF k = i THEN i + 1 ELSE IF k = i + 1 THEN i ELSE k

(* A swap rearranges the beginning of the trace and keeps the order of any two
   steps of one thread: "preserving same-thread prerequisites" (README section
   8).  minimal_prefix_for_swap under the guard of loop (A) of
   generate_forced_prefixes. *)
THEOREM SwapPreservesThreadOrder ==
  ASSUME NEW t \in Schedules, NEW i \in 1..(Len(t) - 1), Swappable(t, i),
         NEW k \in 1..(i + 1), NEW l \in 1..(i + 1), k < l,
         thread(minimal_prefix_for_swap(t, i, i + 1)[k])
           = thread(minimal_prefix_for_swap(t, i, i + 1)[l])
  PROVE  /\ minimal_prefix_for_swap(t, i, i + 1)[k] = t[Origin(i, k)]
         /\ minimal_prefix_for_swap(t, i, i + 1)[l] = t[Origin(i, l)]
         /\ Origin(i, k) < Origin(i, l)
<1> DEFINE p == minimal_prefix_for_swap(t, i, i + 1)
<1>1. \A n \in 1..(i + 1) : p[n] = t[Origin(i, n)]
  <2> DEFINE q == SubSeq(t, 1, i + 1)
  <2>1. q \in Schedules /\ Len(q) = i + 1 /\ \A n \in 1..(i + 1) : q[n] = t[n]
    <3>1. i + 1 \in 0..Len(t)
      BY DEF Schedules
    <3> QED
      BY <3>1, SubSeqIsSchedule
  <2>2. DOMAIN q = 1..(i + 1)
    BY <2>1 DEF Schedules
  <2>3. p = [q EXCEPT ![i] = t[i + 1], ![i + 1] = t[i]]
    BY <2>1 DEF minimal_prefix_for_swap
  <2>4. \A n \in 1..(i + 1) :
          p[n] = IF n = i + 1 THEN t[i] ELSE IF n = i THEN t[i + 1] ELSE q[n]
    BY <2>2, <2>3
  <2> QED
    BY <2>1, <2>4 DEF Origin
<1>2. ~(k = i /\ l = i + 1)
  BY <1>1 DEF Origin, Swappable
<1> QED
  BY <1>1, <1>2 DEF Origin
----------------------------------------------------------------------------
(* Markers *)

LEMMA OneMarkerIsNotNested ==
  ASSUME NEW x, x.wrap \in {<<>>, <<"DROP">>, <<"DELAY">>}
  PROVE  ~ _is_nested_wrapper(x)
<1>1. CASE x.wrap = <<>>
  BY <1>1 DEF _is_nested_wrapper, Outer
<1>2. CASE x.wrap = <<"DROP">>
  BY <1>2 DEF _is_nested_wrapper, Outer, undrop, is_drop, Strip
<1>3. CASE x.wrap = <<"DELAY">>
  BY <1>3 DEF _is_nested_wrapper, Outer, undelay, undrop, is_delay, is_drop, Strip
<1> QED
  BY <1>1, <1>2, <1>3

\* No token of the sequence carries a marker on a marker.
Flat(t) == \A i \in 1..Len(t) : ~ _is_nested_wrapper(t[i])

LEMMA MutatedBareIsNotNested ==
  ASSUME NEW x \in Tokens, x.wrap = <<>>
  PROVE  ~ _is_nested_wrapper(drop(x)) /\ ~ _is_nested_wrapper(delay(x))
<1>1. drop(x).wrap = <<"DROP">> /\ delay(x).wrap = <<"DELAY">>
  BY DropOfBare, DelayOfBare
<1>2. ~ _is_nested_wrapper(drop(x))
  <2> DEFINE y == drop(x)
  <2>1. y.wrap \in {<<>>, <<"DROP">>, <<"DELAY">>}
    BY <1>1
  <2> HIDE DEF y
  <2>2. ~ _is_nested_wrapper(y)
    BY <2>1, OneMarkerIsNotNested
  <2> QED
    BY <2>2 DEF y
<1>3. ~ _is_nested_wrapper(delay(x))
  <2> DEFINE y == delay(x)
  <2>1. y.wrap \in {<<>>, <<"DROP">>, <<"DELAY">>}
    BY <1>1
  <2> HIDE DEF y
  <2>2. ~ _is_nested_wrapper(y)
    BY <2>1, OneMarkerIsNotNested
  <2> QED
    BY <2>2 DEF y
<1> QED
  BY <1>2, <1>3

LEMMA PrefixIsFlat ==
  ASSUME NEW t \in Schedules, Flat(t), NEW k \in 1..Len(t)
  PROVE  Flat(SubSeq(t, 1, k))
<1>1. k \in 0..Len(t) /\ 1..k \subseteq 1..Len(t)
  BY DEF Schedules
<1> QED
  BY <1>1, SubSeqIsSchedule DEF Flat

LEMMA MutationIsFlat ==
  ASSUME NEW p \in Schedules, Flat(p), NEW i, NEW x \in Tokens, ~ _is_nested_wrapper(x)
  PROVE  /\ Flat([p EXCEPT ![i] = x])
         /\ [p EXCEPT ![i] = x] \in Schedules
         /\ Len([p EXCEPT ![i] = x]) = Len(p)
<1> DEFINE q == [p EXCEPT ![i] = x]
<1>1. q \in Schedules /\ Len(q) = Len(p)
  <2>1. p \in [1..Len(p) -> Tokens] /\ Len(p) \in Nat
    BY DEF Schedules
  <2>2. q \in [1..Len(p) -> Tokens]
    BY <2>1
  <2> HIDE DEF q
  <2> QED
    BY <2>1, <2>2 DEF Schedules
<1>2. \A n \in 1..Len(p) : q[n] = IF n = i THEN x ELSE p[n]
  BY DEF Schedules
<1> HIDE DEF q
<1>3. Flat(q)
  BY <1>1, <1>2 DEF Flat
<1> QED
  BY <1>1, <1>3 DEF q

(* The generator never puts a marker on a marker: from a trace without nested
   markers come only prefixes without them, so that every token it writes is
   one the scheduler can match.  generate_forced_prefixes with _is_mutated,
   against _is_nested_wrapper of scheduler.py. *)
THEOREM MutationsStayFlat ==
  ASSUME NEW t \in Schedules, Flat(t)
  PROVE  \A p \in Mutations(t) : Flat(p)
<1>1. \A i \in Mutable(t) : i \in 1..Len(t) /\ t[i] \in Tokens /\ t[i].wrap = <<>>
  BY MutableIsBare
<1>2. \A k \in 1..Len(t) :
        /\ SubSeq(t, 1, k) \in Schedules /\ Flat(SubSeq(t, 1, k))
        /\ \A i \in 1..k : SubSeq(t, 1, k)[i] = t[i]
  BY SubSeqIsSchedule, PrefixIsFlat DEF Schedules
<1>3. \A i \in Mutable(t) :
        /\ drop(t[i]) \in Tokens /\ ~ _is_nested_wrapper(drop(t[i]))
        /\ delay(t[i]) \in Tokens /\ ~ _is_nested_wrapper(delay(t[i]))
  BY <1>1, DropOfBare, DelayOfBare, MutatedBareIsNotNested
<1>4. ASSUME NEW i \in 1..(Len(t) - 1)
      PROVE  Flat(minimal_prefix_for_swap(t, i, i + 1))
  <2> DEFINE q == SubSeq(t, 1, i + 1)
  <2> DEFINE r == [q EXCEPT ![i] = t[i + 1]]
  <2>1. i \in 1..Len(t) /\ i + 1 \in 1..Len(t)
    BY DEF Schedules
  <2>2. q \in Schedules /\ Flat(q)
    BY <1>2, <2>1
  <2>3. /\ t[i] \in Tokens /\ t[i + 1] \in Tokens
        /\ ~ _is_nested_wrapper(t[i]) /\ ~ _is_nested_wrapper(t[i + 1])
    BY <2>1 DEF Flat, Schedules
  <2> HIDE DEF q
  <2>4. Flat(r) /\ r \in Schedules
    BY <2>2, <2>3, MutationIsFlat
  <2> HIDE DEF r
  <2>5. Flat([r EXCEPT ![i + 1] = t[i]])
    BY <2>3, <2>4, MutationIsFlat
  <2>6. minimal_prefix_for_swap(t, i, i + 1) = [r EXCEPT ![i + 1] = t[i]]
    BY DEF minimal_prefix_for_swap, q, r
  <2> QED
    BY <2>5, <2>6
<1>5. ASSUME NEW i \in Mutable(t), NEW x \in Tokens, ~ _is_nested_wrapper(x)
      PROVE  Flat([SubSeq(t, 1, i) EXCEPT ![i] = x])
  <2> DEFINE q == SubSeq(t, 1, i)
  <2>1. q \in Schedules /\ Flat(q)
    BY <1>1, <1>2
  <2> HIDE DEF q
  <2>2. Flat([q EXCEPT ![i] = x])
    BY <1>5, <2>1, MutationIsFlat
  <2> QED
    BY <2>2 DEF q
<1>6. \A i \in Mutable(t) : SubSeq(t, 1, i)[i] = t[i]
  BY <1>1, <1>2
<1>7. ASSUME NEW i \in Mutable(t), NEW j \in Mutable(t), i # j
      PROVE  Flat(mixed_prefix(t, i, j))
  <2> DEFINE k == Later(i, j)
  <2> DEFINE q == SubSeq(t, 1, k)
  <2> DEFINE r == [q EXCEPT ![i] = drop(t[i])]
  <2>1. k \in 1..Len(t) /\ i \in 1..k /\ j \in 1..k
    BY <1>1 DEF Later, Schedules
  <2>2. q \in Schedules /\ Flat(q) /\ q[i] = t[i] /\ q[j] = t[j]
    BY <1>2, <2>1
  <2> HIDE DEF q
  <2>3. Flat(r) /\ r \in Schedules
    BY <1>3, <2>2, MutationIsFlat
  <2> HIDE DEF r
  <2>4. Flat([r EXCEPT ![j] = delay(t[j])])
    BY <1>3, <2>3, MutationIsFlat
  <2>5. mixed_prefix(t, i, j) = [r EXCEPT ![j] = delay(t[j])]
    BY <2>2 DEF mixed_prefix, q, r
  <2> QED
    BY <2>4, <2>5
<1>8. \A p \in SwapPrefixes(t) : Flat(p)
  BY <1>4 DEF SwapPrefixes
<1>9. \A p \in DropPrefixes(t) : Flat(p)
  BY <1>3, <1>5, <1>6 DEF DropPrefixes
<1>10. \A p \in DelayPrefixes(t) : Flat(p)
  BY <1>3, <1>5, <1>6 DEF DelayPrefixes
<1>11. \A p \in MixedPrefixes(t) : Flat(p)
  BY <1>7 DEF MixedPrefixes
<1> QED
  BY <1>8, <1>9, <1>10, <1>11 DEF Mutations
----------------------------------------------------------------------------
(* Types: the scheduler *)

LEMMA StartRunTypes ==
  ASSUME NEW p \in Schedules, start_run(p)
  PROVE  SchedTypeOK'
BY DEF start_run, SchedTypeOK, Results, Schedules

\* One of the contenders is the smallest.
LEMMA SmallestContender ==
  ASSUME SchedTypeOK, free_waiting # {}
  PROVE  \E s \in free_waiting : Smallest(s, Contenders(s))
<1> DEFINE Ranks == {StringRank[Base(s)] : s \in free_waiting}
<1>1. \A s \in free_waiting : StringRank[Base(s)] \in Nat
  BY BaseIsToken, StringRankAssumption DEF SchedTypeOK
<1>2. Ranks \in SUBSET Nat /\ Ranks # {}
  BY <1>1
<1>3. PICK k \in Ranks : \A j \in Ranks : k <= j
  BY <1>2, SmallestNumber
<1> QED
  BY <1>3 DEF Smallest, Contenders

LEMMA GrantedIsToken ==
  ASSUME SchedTypeOK, NEW s \in Steps
  PROVE  Granted(s) \in Tokens
BY BaseIsToken DEF SchedTypeOK, Granted, Expecting, expected_now, Schedules

LEMMA MatchedTokens ==
  ASSUME NEW token \in Tokens, NEW s \in Steps, Matches(token, s)
  PROVE  token.step = s
BY DEF Matches, Base, is_drop, undrop, undelay, is_delay, Outer, Strip, Tokens, Wraps

\* Whatever marker the token of a turn carries, it is the step's own.
LEMMA GrantedStep ==
  ASSUME SchedTypeOK, NEW s \in Steps, CanTakeTurn(s)
  PROVE  Granted(s).step = s
<1>1. CASE Expecting
  <2>1. Granted(s) = expected_now /\ Matches(expected_now, s)
    BY <1>1 DEF CanTakeTurn, MayGoForced, MayGoFree, MayGoUnexpected, Granted, Expecting
  <2> QED
    BY <2>1, GrantedIsToken, MatchedTokens
<1>2. CASE ~Expecting
  BY <1>2 DEF Granted, Base
<1> QED
  BY <1>1, <1>2

LEMMA TakeTurnTypes ==
  ASSUME SchedTypeOK, NEW s \in Steps, NEW stops \in BOOLEAN, TakeTurn(s, stops),
         current_result' \in Results
  PROVE  SchedTypeOK'
<1>1. CASE MayGoForced(s) /\ forced_pos' = forced_pos + 1
              /\ enforcing' = (stops => StillEnforcing(forced_pos + 1))
              /\ UNCHANGED <<forced_prefix, free_waiting, free_deadline>>
  <2>1. forced_pos + 1 \in 0..Len(forced_prefix)
    BY <1>1 DEF SchedTypeOK, MayGoForced, Expecting, Schedules
  <2>2. enforcing' \in BOOLEAN
    BY <1>1
  <2> QED
    BY <1>1, <2>1, <2>2 DEF SchedTypeOK
<1>2. CASE UNCHANGED <<forced_prefix, forced_pos, enforcing>>
              /\ free_waiting' = Contenders(s) \ {s} /\ free_deadline' = "none"
  BY <1>2 DEF SchedTypeOK, Contenders
<1>3. CASE UNCHANGED <<forced_prefix, forced_pos, free_waiting, free_deadline>> /\ enforcing' = FALSE
  BY <1>3 DEF SchedTypeOK
<1> QED
  BY <1>1, <1>2, <1>3 DEF TakeTurn, TakeForced, TakeFree, TakeUnexpected

LEMMA OtherSchedulerStepsTypes ==
  ASSUME SchedTypeOK, \/ \E s \in Steps : Wait(s)
                      \/ GatherExpires
                      \/ watchdog_tick
                      \/ UNCHANGED schedVars
  PROVE  SchedTypeOK'
<1>1. CASE \E s \in Steps : Wait(s)
  BY <1>1 DEF Wait, Contenders, SchedTypeOK
<1>2. CASE GatherExpires
  BY <1>2 DEF GatherExpires, SchedTypeOK
<1>3. CASE watchdog_tick
  BY <1>3 DEF watchdog_tick, SchedTypeOK, Results
<1>4. CASE UNCHANGED schedVars
  BY <1>4 DEF schedVars, SchedTypeOK
<1> QED
  BY <1>1, <1>2, <1>3, <1>4
----------------------------------------------------------------------------
(* Types: the handlers *)

LEMMA ClassifiedTypes ==
  ASSUME SchedTypeOK, NEW v \in Results
  PROVE  Classified(v) \in Results
BY DEF Classified, SchedTypeOK

LEMMA HttpVerdictTypes ==
  ASSUME NEW status \in Nat
  PROVE  classify_http_failure(status) \in Results
BY DEF classify_http_failure, Results

LEMMA CacheTypes ==
  ASSUME NEW cache \in Caches, NEW s \in Steps, NEW status \in Answers
  PROVE  /\ [cache EXCEPT ![s] = status] \in Caches
         /\ SetDefault(cache, s, status) \in Caches
BY DEF Caches, SetDefault

LEMMA AnswerTypes ==
  ASSUME SimTypeOK, NEW s \in Steps
  PROVE  artifact_response_for(s) \in Nat /\ RetryAnswer(s) \in Nat
<1>1. Answers \cup {NoStatus} \subseteq Nat
  BY HandlersAssumption DEF Answers, NoStatus
<1>2. response_cache[s] \in Nat /\ stable_response_cache[s] \in Nat
  BY <1>1 DEF SimTypeOK, Caches
<1>3. artifact_response_for(s) \in Nat
  BY <1>2, HandlersAssumption DEF artifact_response_for
<1> QED
  BY <1>2, <1>3 DEF RetryAnswer

LEMMA TurnTypes ==
  ASSUME SimTypeOK, NEW s \in Steps, NEW stops \in BOOLEAN, TakeTurn(s, stops),
         current_result' \in Results,
         trace' = Append(trace, Granted(s)),
         seen_base_steps' = seen_base_steps \cup {s},
         response_cache' \in Caches, stable_response_cache' \in Caches,
         UNCHANGED exploreVars
  PROVE  SimTypeOK'
<1>1. SchedTypeOK'
  BY TakeTurnTypes DEF SimTypeOK
<1>2. trace' \in Schedules
  BY GrantedIsToken DEF SimTypeOK, Schedules
<1> QED
  BY <1>1, <1>2 DEF SimTypeOK, exploreVars

LEMMA HandlerTypes ==
  ASSUME SimTypeOK, NEW s \in Steps,
         \/ Refuse(s)
         \/ DropStep(s)
         \/ \E status \in Statuses : Forward(s, status)
         \/ ForwardFails(s)
         \/ WaitTurn(s)
  PROVE  SimTypeOK'
<1> USE DEF SimTypeOK
<1>1. CASE Refuse(s)
  <2>1. response_cache' \in Caches /\ stable_response_cache' \in Caches
    <3>1. 503 \in Answers
      BY DEF Answers
    <3>2. /\ response_cache' = [response_cache EXCEPT ![s] = 503]
          /\ stable_response_cache' = SetDefault(stable_response_cache, s, 503)
      BY <1>1 DEF Refuse
    <3> QED
      BY <3>1, <3>2, CacheTypes
  <2>2. SchedTypeOK'
    BY <1>1, OtherSchedulerStepsTypes DEF Refuse
  <2> QED
    BY <1>1, <2>1, <2>2 DEF Refuse, exploreVars
<1>2. CASE DropStep(s)
  <2>1. current_result' \in Results
    BY <1>2 DEF DropStep, SchedTypeOK
  <2> QED
    BY <1>2, <2>1, TurnTypes DEF DropStep
<1>3. CASE \E status \in Statuses : Forward(s, status)
  <2> PICK status \in Statuses : Forward(s, status)
    BY <1>3
  <2>1. status \in Nat /\ status \in Answers
    BY HandlersAssumption DEF Answers
  <2>2. current_result' \in Results
    BY <2>1, HttpVerdictTypes, ClassifiedTypes DEF Forward
  <2>3. response_cache' \in Caches /\ stable_response_cache' \in Caches
    BY <2>1, CacheTypes DEF Forward
  <2> QED
    BY <2>2, <2>3, TurnTypes DEF Forward
<1>4. CASE ForwardFails(s)
  <2>1. current_result' \in Results
    BY <1>4, ClassifiedTypes DEF ForwardFails, SchedTypeOK, Results
  <2> QED
    BY <1>4, <2>1, TurnTypes DEF ForwardFails
<1>5. CASE WaitTurn(s)
  BY <1>5, OtherSchedulerStepsTypes DEF WaitTurn, exploreVars, cacheVars
<1> QED
  BY <1>1, <1>2, <1>3, <1>4, <1>5

LEMMA GeneratedTypes ==
  ASSUME SimTypeOK
  PROVE  Generated \subseteq Schedules
BY MutationsAreSchedules DEF Generated, generate_forced_prefixes, SimTypeOK

LEMMA PickTypes ==
  ASSUME SimTypeOK,
         NEW pending \in SUBSET [batch : Nat, prefix : Schedules], NEW explored, NEW walked,
         pick_next_prefix_or_done(pending, explored, walked)
  PROVE  /\ SchedTypeOK'
         /\ run_prefix' \in Schedules
         /\ pending_prefixes' \subseteq [batch : Nat, prefix : Schedules]
         /\ done' \in BOOLEAN
<1>1. <<>> \in Schedules
  BY DEF Schedules
<1>2. CASE /\ done' = TRUE /\ pending_prefixes' = {}
           /\ start_run(<<>>) /\ UNCHANGED run_prefix
  BY <1>1, <1>2, StartRunTypes DEF SimTypeOK
<1>3. ASSUME NEW e \in pending,
             run_prefix' = e.prefix, start_run(e.prefix),
             pending_prefixes' = {x \in pending : Before(e, x)}, UNCHANGED done
      PROVE  /\ SchedTypeOK'
             /\ run_prefix' \in Schedules
             /\ pending_prefixes' \subseteq [batch : Nat, prefix : Schedules]
             /\ done' \in BOOLEAN
  <2>1. e.prefix \in Schedules
    OBVIOUS
  <2>2. SchedTypeOK'
    BY <1>3, <2>1, StartRunTypes
  <2> QED
    BY <1>3, <2>1, <2>2 DEF SimTypeOK
<1>4. \/ /\ done' = TRUE /\ pending_prefixes' = {}
         /\ start_run(<<>>) /\ UNCHANGED run_prefix
      \/ \E e \in pending : /\ run_prefix' = e.prefix
                            /\ start_run(e.prefix)
                            /\ pending_prefixes' = {x \in pending : Before(e, x)}
                            /\ UNCHANGED done
  BY Zenon DEF pick_next_prefix_or_done, ExplorationEnds
<1>5. CASE \E e \in pending : /\ run_prefix' = e.prefix
                              /\ start_run(e.prefix)
                              /\ pending_prefixes' = {x \in pending : Before(e, x)}
                              /\ UNCHANGED done
  <2> PICK e \in pending : /\ run_prefix' = e.prefix
                           /\ start_run(e.prefix)
                           /\ pending_prefixes' = {x \in pending : Before(e, x)}
                           /\ UNCHANGED done
    BY <1>5
  <2> HIDE DEF pick_next_prefix_or_done
  <2> QED
    BY <1>3
<1> QED
  BY <1>2, <1>4, <1>5

LEMMA ExecutionDoneTypes ==
  ASSUME SimTypeOK, NEW kind \in Kinds, execution_done(kind)
  PROVE  SimTypeOK'
<1> USE DEF SimTypeOK
<1>1. run_index' \in Nat /\ explored_prefixes' \subseteq Schedules
  BY DEF execution_done, Explored
<1>2. /\ trace' \in Schedules
      /\ seen_base_steps' \subseteq Steps
      /\ response_cache' \in Caches
      /\ stable_response_cache' \in Caches
  BY DEF execution_done, _reset_for_next_run, EmptyCache, Caches, Schedules, NoStatus
<1>3. PrefixesOf(trace) \subseteq Schedules
  <2> SUFFICES ASSUME NEW k \in 1..Len(trace)
               PROVE  SubSeq(trace, 1, k) \in Schedules
    BY DEF PrefixesOf
  <2>1. k \in 0..Len(trace)
    BY DEF Schedules
  <2> QED
    BY <2>1, SubSeqIsSchedule
<1>4. Generated \subseteq Schedules
  BY GeneratedTypes
<1>5. CASE KnownTrace
  <2>1. pick_next_prefix_or_done(pending_prefixes, Explored, explored_trace_prefixes)
    BY <1>5 DEF execution_done
  <2>2. UNCHANGED <<results, seen_traces, explored_trace_prefixes, seen_prefixes>>
    BY <1>5 DEF execution_done
  <2> QED
    BY <1>1, <1>2, <2>1, <2>2, PickTypes
<1>6. CASE ~KnownTrace
  <2> DEFINE pending == pending_prefixes \cup Queued(Generated \ (Explored \cup Walked))
  <2>1. pick_next_prefix_or_done(pending, Explored, Walked)
    BY <1>6 DEF execution_done
  <2>2. pending \in SUBSET [batch : Nat, prefix : Schedules]
    BY <1>4 DEF Queued
  <2>3. results' \in Seq(Results)
    <3>1. FinalResult(kind) \in Results
      BY ClassifiedTypes DEF FinalResult, Kinds, Results
    <3> QED
      BY <1>6, <3>1 DEF execution_done
  <2>4. /\ seen_traces' \subseteq Schedules
        /\ explored_trace_prefixes' \subseteq Schedules
        /\ seen_prefixes' \subseteq Schedules
    BY <1>3, <1>4, <1>6 DEF execution_done, Walked
  <2> QED
    BY <1>1, <1>2, <2>1, <2>2, <2>3, <2>4, PickTypes
<1> QED
  BY <1>5, <1>6

LEMMA SimUnchangedTypes ==
  ASSUME SimTypeOK, UNCHANGED simVars
  PROVE  SimTypeOK'
<1>1. SchedTypeOK'
  BY OtherSchedulerStepsTypes DEF SimTypeOK, simVars
<1> QED
  BY <1>1 DEF SimTypeOK, simVars, exploreVars, cacheVars

LEMMA SimInitTypes == SimInit => SimTypeOK
<1> SUFFICES ASSUME SimInit PROVE SimTypeOK
  OBVIOUS
<1>1. <<>> \in Schedules /\ Len(<<>>) = 0
  BY DEF Schedules
<1>2. SchedTypeOK
  <2>1. /\ forced_prefix = <<>> /\ forced_pos = 0 /\ enforcing = FALSE
        /\ free_waiting = {} /\ free_deadline = "none" /\ current_result = "SUCCESS"
    BY DEF SimInit, SchedInit
  <2>2. forced_pos \in 0..Len(forced_prefix)
    BY <1>1, <2>1
  <2> QED
    BY <1>1, <2>1, <2>2 DEF SchedTypeOK, Results
<1>3. EmptyCache \in Caches
  BY DEF EmptyCache, Caches
<1>4. results \in Seq(Results)
  BY DEF SimInit
<1> QED
  BY <1>1, <1>2, <1>3, <1>4 DEF SimInit, SimTypeOK
----------------------------------------------------------------------------
(* The queue *)

PendingPrefixes == {e.prefix : e \in pending_prefixes}

\* A prefix waits in the queue once, and only until its run is started; what
\* has been seen is explored, being explored, walked or waiting; and all
\* mutations of the executed traces have been seen.
QueueInv ==
  /\ \A x, y \in pending_prefixes : x.prefix = y.prefix => x = y
  /\ PendingPrefixes \subseteq seen_prefixes \ Explored
  /\ seen_prefixes \subseteq Explored \cup explored_trace_prefixes \cup PendingPrefixes
  /\ \A t \in seen_traces : Mutations(t) \subseteq seen_prefixes \cup explored_prefixes

ResultsInv == IsFiniteSet(seen_traces) /\ Len(results) = Cardinality(seen_traces)

QueueRecords == [batch : Nat, prefix : Schedules]

\* The queue never puts a prefix before itself.
LEMMA BeforeIsIrreflexive ==
  ASSUME NEW e \in QueueRecords
  PROVE  ~ Before(e, e)
<1>1. prefix_phase_rank(e.prefix) \in Nat
  BY ConfigAssumption DEF prefix_phase_rank
<1>2. e.batch \in Nat /\ e.prefix \in Schedules /\ Len(e.prefix) \in Nat
  BY DEF QueueRecords, Schedules
<1>3. ~ LexLess(e.prefix, e.prefix)
  BY <1>2, StringRankAssumption DEF LexLess, Schedules
<1> QED
  BY <1>1, <1>2, <1>3 DEF Before, SortsBefore

\* The prefix that is picked leaves the queue, together with those that need
\* no run.
LEMMA PickKeepsQueue ==
  ASSUME NEW pending \in SUBSET QueueRecords, NEW explored, NEW walked,
         pick_next_prefix_or_done(pending, explored, walked),
         \A x, y \in pending : x.prefix = y.prefix => x = y,
         \A x \in pending : x.prefix \notin explored
  PROVE  /\ pending_prefixes' \subseteq pending
         /\ \A x \in pending_prefixes' : x.prefix \notin explored \cup {run_prefix'}
         /\ \A x \in pending : \/ x.prefix \in explored \cup {run_prefix'} \cup walked
                               \/ x \in pending_prefixes'
<1> DEFINE viable == {e \in pending : e.prefix \notin explored /\ e.prefix \notin walked}
<1>1. \/ viable = {} /\ pending_prefixes' = {}
      \/ \E e \in viable : /\ \A x \in viable \ {e} : Before(e, x)
                           /\ run_prefix' = e.prefix
                           /\ pending_prefixes' = {x \in pending : Before(e, x)}
  BY Zenon DEF pick_next_prefix_or_done, ExplorationEnds
<1>2. CASE viable = {} /\ pending_prefixes' = {}
  BY <1>2
<1>3. CASE \E e \in viable : /\ \A x \in viable \ {e} : Before(e, x)
                             /\ run_prefix' = e.prefix
                             /\ pending_prefixes' = {x \in pending : Before(e, x)}
  <2> PICK e \in viable : /\ \A x \in viable \ {e} : Before(e, x)
                          /\ run_prefix' = e.prefix
                          /\ pending_prefixes' = {x \in pending : Before(e, x)}
    BY <1>3
  <2>1. ~ Before(e, e)
    BY BeforeIsIrreflexive
  <2> QED
    BY <2>1
<1> QED
  BY <1>1, <1>2, <1>3

LEMMA QueuedRecords ==
  ASSUME NEW fresh \in SUBSET Schedules, run_index + 1 \in Nat
  PROVE  /\ Queued(fresh) \in SUBSET QueueRecords
         /\ \A x \in Queued(fresh) : x.prefix \in fresh
         /\ \A p \in fresh : \E x \in Queued(fresh) : x.prefix = p
         /\ \A x, y \in Queued(fresh) : x.prefix = y.prefix => x = y
<1>1. \A x \in Queued(fresh) : x.prefix \in fresh /\ x = [batch |-> run_index + 1, prefix |-> x.prefix]
  BY DEF Queued
<1>2. \A p \in fresh : [batch |-> run_index + 1, prefix |-> p] \in Queued(fresh) \cap QueueRecords
  BY DEF Queued, QueueRecords
<1>3. \A p \in fresh : \E x \in Queued(fresh) : x.prefix = p
  <2> SUFFICES ASSUME NEW p \in fresh PROVE \E x \in Queued(fresh) : x.prefix = p
    OBVIOUS
  <2>1. [batch |-> run_index + 1, prefix |-> p].prefix = p
    OBVIOUS
  <2> QED
    BY <1>2, <2>1
<1>4. Queued(fresh) \subseteq QueueRecords
  BY <1>1, <1>2
<1>5. \A x, y \in Queued(fresh) : x.prefix = y.prefix => x = y
  BY <1>1
<1> QED
  BY <1>1, <1>3, <1>4, <1>5

LEMMA EndKeepsQueue ==
  ASSUME SimTypeOK, QueueInv, NEW kind, execution_done(kind)
  PROVE  QueueInv'
<1>1. explored_prefixes' = Explored
  BY DEF execution_done
<1>2. pending_prefixes \in SUBSET QueueRecords
  BY DEF SimTypeOK, QueueRecords
<1>3. ASSUME KnownTrace,
             pick_next_prefix_or_done(pending_prefixes, Explored, explored_trace_prefixes),
             UNCHANGED <<seen_traces, explored_trace_prefixes, seen_prefixes>>
      PROVE  QueueInv'
  <2>1. /\ pending_prefixes' \subseteq pending_prefixes
        /\ \A x \in pending_prefixes' : x.prefix \notin Explored \cup {run_prefix'}
        /\ \A x \in pending_prefixes :
             x.prefix \in Explored \cup {run_prefix'} \cup explored_trace_prefixes \/ x \in pending_prefixes'
    BY <1>2, <1>3, PickKeepsQueue DEF QueueInv, PendingPrefixes
  <2> HIDE DEF pick_next_prefix_or_done
  <2> QED
    BY <1>1, <1>3, <2>1 DEF QueueInv, PendingPrefixes, Explored
<1>4. ASSUME ~KnownTrace,
             seen_traces' = seen_traces \cup {trace},
             explored_trace_prefixes' = Walked,
             seen_prefixes' = seen_prefixes \cup Generated,
             pick_next_prefix_or_done(pending_prefixes \cup Queued(Generated \ (Explored \cup Walked)),
                                      Explored, Walked)
      PROVE  QueueInv'
  <2> DEFINE new == Queued(Generated \ (Explored \cup Walked))
  <2> DEFINE pending == pending_prefixes \cup new
  <2>1. /\ new \in SUBSET QueueRecords
        /\ \A x \in new : x.prefix \in Generated \ (Explored \cup Walked)
        /\ \A p \in Generated \ (Explored \cup Walked) : \E x \in new : x.prefix = p
        /\ \A x, y \in new : x.prefix = y.prefix => x = y
    <3>1. Generated \ (Explored \cup Walked) \subseteq Schedules /\ run_index + 1 \in Nat
      BY GeneratedTypes DEF SimTypeOK
    <3> QED
      BY <3>1, QueuedRecords
  <2>2. Generated \cap (seen_prefixes \cup Explored) = {}
        /\ Mutations(trace) \subseteq Generated \cup seen_prefixes \cup Explored
    BY DEF Generated, generate_forced_prefixes
  <2> HIDE DEF new
  <2>3. pending \in SUBSET QueueRecords
    BY <1>2, <2>1
  <2>4. \A x, y \in pending : x.prefix = y.prefix => x = y
    BY <2>1, <2>2 DEF QueueInv, PendingPrefixes
  <2>5. \A x \in pending : x.prefix \notin Explored
    BY <2>1 DEF QueueInv, PendingPrefixes
  <2>6. /\ pending_prefixes' \subseteq pending
        /\ \A x \in pending_prefixes' : x.prefix \notin Explored \cup {run_prefix'}
        /\ \A x \in pending :
             x.prefix \in Explored \cup {run_prefix'} \cup Walked \/ x \in pending_prefixes'
    BY <1>4, <2>3, <2>4, <2>5, PickKeepsQueue DEF new
  <2>7. Explored' = Explored \cup {run_prefix'}
    BY <1>1 DEF Explored
  <2>8. \A x, y \in pending_prefixes' : x.prefix = y.prefix => x = y
    BY <2>4, <2>6
  <2>9. PendingPrefixes' \subseteq seen_prefixes' \ Explored'
    BY <1>4, <2>1, <2>6, <2>7 DEF QueueInv, PendingPrefixes
  <2>10. seen_prefixes' \subseteq Explored' \cup explored_trace_prefixes' \cup PendingPrefixes'
    <3> SUFFICES ASSUME NEW p \in seen_prefixes',
                        p \notin Explored \cup {run_prefix'} \cup Walked
                 PROVE  p \in PendingPrefixes'
      BY <1>4, <2>7
    <3>1. p \in PendingPrefixes \/ p \in Generated \ (Explored \cup Walked)
      BY <1>4 DEF QueueInv, Walked
    <3>2. \E x \in pending : x.prefix = p
      BY <2>1, <3>1 DEF PendingPrefixes
    <3> QED
      BY <2>6, <3>2 DEF PendingPrefixes
  <2>11. \A t \in seen_traces' : Mutations(t) \subseteq seen_prefixes' \cup explored_prefixes'
    BY <1>1, <1>4, <2>2 DEF QueueInv, Explored
  <2> QED
    BY <2>8, <2>9, <2>10, <2>11 DEF QueueInv
<1> QED
  BY <1>3, <1>4, Zenon DEF execution_done

LEMMA EndCountsTrace ==
  ASSUME SimTypeOK, ResultsInv, NEW kind, execution_done(kind)
  PROVE  ResultsInv'
<1>1. CASE UNCHANGED <<results, seen_traces>>
  BY <1>1 DEF ResultsInv
<1>2. CASE /\ trace \notin seen_traces
           /\ results' = Append(results, FinalResult(kind))
           /\ seen_traces' = seen_traces \cup {trace}
  <2>1. Len(results') = Len(results) + 1
    BY <1>2 DEF SimTypeOK
  <2>2. IsFiniteSet(seen_traces') /\ Cardinality(seen_traces') = Cardinality(seen_traces) + 1
    BY <1>2, FS_AddElement DEF ResultsInv
  <2> QED
    BY <2>1, <2>2 DEF ResultsInv
<1> QED
  BY <1>1, <1>2, Zenon DEF execution_done, KnownTrace

LEMMA InitialQueue == SimInit => QueueInv /\ ResultsInv
BY FS_EmptySet DEF SimInit, QueueInv, ResultsInv, PendingPrefixes, Explored

LEMMA QueueUnchanged ==
  ASSUME QueueInv, ResultsInv, UNCHANGED exploreVars
  PROVE  QueueInv' /\ ResultsInv'
BY DEF QueueInv, ResultsInv, PendingPrefixes, Explored, exploreVars
----------------------------------------------------------------------------
(* The trace follows the forced prefix *)

\* What a step that takes its turn does to the trace.
LEMMA TurnHonoursPrefix ==
  ASSUME SimTypeOK, HonoursPrefix, NEW s \in Steps, NEW stops \in BOOLEAN,
         TakeTurn(s, stops), trace' = Append(trace, Granted(s))
  PROVE  /\ HonoursPrefix'
         /\ Granted(s) = IF Len(trace) < Len(forced_prefix)
                           THEN forced_prefix[Len(trace) + 1] ELSE Base(s)
         /\ Granted(s).step = s
<1> USE DEF SimTypeOK, SchedTypeOK
<1>1. /\ Len(trace) \in Nat /\ Len(forced_prefix) \in Nat /\ forced_pos \in Nat
      /\ forced_pos <= Len(forced_prefix)
      /\ Granted(s) \in Tokens
      /\ Len(trace') = Len(trace) + 1
      /\ trace'[Len(trace) + 1] = Granted(s)
      /\ \A i \in 1..Len(trace) : trace'[i] = trace[i]
  BY GrantedIsToken DEF Schedules
<1>2. forced_prefix' = forced_prefix
  BY DEF TakeTurn
<1>3. CASE MayGoForced(s) /\ forced_pos' = forced_pos + 1
              /\ enforcing' = (stops => StillEnforcing(forced_pos + 1))
  <2>1. enforcing /\ forced_pos < Len(forced_prefix) /\ Len(trace) = forced_pos
    BY <1>3 DEF MayGoForced, Expecting, HonoursPrefix
  <2>2. Granted(s) = forced_prefix[forced_pos + 1] /\ Matches(Granted(s), s)
    BY <1>3 DEF MayGoForced, Granted, expected_now
  <2>3. Granted(s).step = s
    BY <1>1, <2>2, MatchedTokens
  <2>4. ~enforcing' => forced_pos + 1 = Len(forced_prefix)
    <3>1. ~enforcing' => ~StillEnforcing(forced_pos + 1)
      BY <1>3, Zenon
    <3> QED
      BY <1>1, <2>1, <3>1 DEF StillEnforcing
  <2>5. \A i \in 1..forced_pos' : trace'[i] = forced_prefix[i]
    BY <1>1, <1>3, <2>1, <2>2 DEF HonoursPrefix
  <2>6. HonoursPrefix'
    BY <1>1, <1>2, <1>3, <2>1, <2>4, <2>5 DEF HonoursPrefix
  <2> QED
    BY <2>1, <2>2, <2>3, <2>6
<1>4. CASE ~Expecting /\ ~enforcing' /\ UNCHANGED forced_pos
  <2>1. forced_pos = Len(forced_prefix) /\ forced_pos <= Len(trace)
    BY <1>1, <1>4 DEF Expecting, HonoursPrefix
  <2>2. Granted(s) = Base(s) /\ Granted(s).step = s /\ Granted(s).wrap = <<>>
    BY <1>4 DEF Granted, Base
  <2>3. HonoursPrefix'
    BY <1>1, <1>2, <1>4, <2>1, <2>2 DEF HonoursPrefix
  <2> QED
    BY <1>1, <2>1, <2>2, <2>3
<1> QED
  BY <1>3, <1>4 DEF TakeTurn, TakeForced, TakeFree, TakeUnexpected, MayGoFree, MayGoUnexpected, Expecting

LEMMA StartRunHonoursPrefix ==
  ASSUME NEW p \in Schedules, start_run(p), trace' = <<>>
  PROVE  HonoursPrefix'
<1>1. forced_pos' = 0 /\ forced_prefix' = p /\ Len(trace') = 0
  BY DEF start_run
<1>2. ~enforcing' => p = <<>>
  BY Zenon DEF start_run
<1>3. ~enforcing' => forced_pos' = Len(forced_prefix')
  BY <1>1, <1>2
<1> QED
  BY <1>1, <1>3 DEF HonoursPrefix

LEMMA ReplayUnchanged ==
  ASSUME HonoursPrefix, UNCHANGED <<forced_prefix, enforcing, forced_pos, trace>>
  PROVE  HonoursPrefix'
BY DEF HonoursPrefix

\* The proxy's note of what the run explores may differ from what the scheduler
\* enforces once the exploration is done; both are explored then.
ReplayInv ==
  /\ HonoursPrefix
  /\ \/ run_prefix = forced_prefix
     \/ forced_prefix = <<>> /\ {<<>>, run_prefix} \subseteq explored_prefixes
  /\ run_prefix = <<>> \/ <<>> \in explored_prefixes

LEMMA RunEnds ==
  ASSUME SimTypeOK, ReplayInv, NEW kind \in Kinds, execution_done(kind)
  PROVE  /\ ReplayInv'
         /\ trace' = <<>>
         /\ explored_prefixes' = explored_prefixes \cup {forced_prefix}
         /\ \/ forced_prefix' \in Schedules \ explored_prefixes' /\ UNCHANGED done
            \/ forced_prefix' = <<>> /\ done' = TRUE
<1>1. trace' = <<>> /\ explored_prefixes' = Explored
  BY DEF execution_done, _reset_for_next_run
<1>2. Explored = explored_prefixes \cup {forced_prefix}
  BY DEF Explored, ReplayInv
<1>3. <<>> \in Explored /\ run_prefix \in Explored
  BY DEF Explored, ReplayInv
<1>4. \/ /\ start_run(<<>>) /\ run_prefix' = run_prefix /\ done' = TRUE
      \/ \E p \in Schedules \ Explored : start_run(p) /\ run_prefix' = p /\ UNCHANGED done
  <2>1. ASSUME NEW pending \in SUBSET [batch : Nat, prefix : Schedules], NEW walked,
               pick_next_prefix_or_done(pending, Explored, walked)
        PROVE  \/ /\ start_run(<<>>) /\ run_prefix' = run_prefix /\ done' = TRUE
               \/ \E p \in Schedules \ Explored : start_run(p) /\ run_prefix' = p /\ UNCHANGED done
    <3>1. \/ start_run(<<>>) /\ UNCHANGED run_prefix /\ done' = TRUE
          \/ \E e \in pending : /\ e.prefix \notin Explored
                                /\ start_run(e.prefix) /\ run_prefix' = e.prefix /\ UNCHANGED done
      BY <2>1, Zenon DEF pick_next_prefix_or_done, ExplorationEnds
    <3>2. \A e \in pending : e.prefix \in Schedules
      OBVIOUS
    <3> QED
      BY <3>1, <3>2, Zenon
  <2>2. Queued(Generated \ (Explored \cup Walked)) \subseteq [batch : Nat, prefix : Schedules]
    BY GeneratedTypes DEF Queued, SimTypeOK
  <2>3. pending_prefixes \subseteq [batch : Nat, prefix : Schedules]
    BY DEF SimTypeOK
  <2>4. \/ pick_next_prefix_or_done(pending_prefixes, Explored, explored_trace_prefixes)
        \/ pick_next_prefix_or_done(pending_prefixes \cup Queued(Generated \ (Explored \cup Walked)),
                                    Explored, Walked)
    BY Zenon DEF execution_done
  <2> QED
    BY <2>1, <2>2, <2>3, <2>4
<1>5. CASE start_run(<<>>) /\ run_prefix' = run_prefix /\ done' = TRUE
  <2>1. <<>> \in Schedules
    BY DEF Schedules
  <2>2. HonoursPrefix'
    BY <1>1, <1>5, <2>1, StartRunHonoursPrefix
  <2>3. forced_prefix' = <<>>
    BY <1>5 DEF start_run
  <2> QED
    BY <1>1, <1>2, <1>3, <1>5, <2>2, <2>3 DEF ReplayInv
<1>6. CASE \E p \in Schedules \ Explored : start_run(p) /\ run_prefix' = p /\ UNCHANGED done
  <2> PICK p \in Schedules \ Explored : start_run(p) /\ run_prefix' = p /\ UNCHANGED done
    BY <1>6
  <2>1. HonoursPrefix'
    BY <1>1, StartRunHonoursPrefix
  <2>2. forced_prefix' = p
    BY DEF start_run
  <2> QED
    BY <1>1, <1>2, <1>3, <2>1, <2>2 DEF ReplayInv
<1> QED
  BY <1>4, <1>5, <1>6

LEMMA InitialReplay == SimInit => ReplayInv /\ NoNestedWrapper
<1> SUFFICES ASSUME SimInit PROVE ReplayInv /\ NoNestedWrapper
  OBVIOUS
<1>1. /\ forced_pos = 0 /\ Len(trace) = 0 /\ Len(forced_prefix) = 0
      /\ forced_prefix = <<>> /\ run_prefix = <<>>
  BY DEF SimInit, SchedInit
<1>2. HonoursPrefix
  BY <1>1 DEF HonoursPrefix
<1>3. NoNestedWrapper
  BY DEF SimInit, SchedInit, NoNestedWrapper
<1> QED
  BY <1>1, <1>2, <1>3 DEF ReplayInv

----------------------------------------------------------------------------
(* No nested markers *)

LEMMA NoNestedIsFlat ==
  NoNestedWrapper <=> Flat(forced_prefix) /\ \A e \in pending_prefixes : Flat(e.prefix)
BY DEF NoNestedWrapper, Flat

\* The trace follows its prefix and continues with bare steps.
LEMMA TraceIsFlat ==
  ASSUME SimTypeOK, HonoursPrefix, Flat(forced_prefix)
  PROVE  Flat(trace)
<1> SUFFICES ASSUME NEW i \in 1..Len(trace)
             PROVE  ~ _is_nested_wrapper(trace[i])
  BY DEF Flat
<1>1. forced_pos \in Nat /\ Len(trace) \in Nat /\ forced_pos <= Len(forced_prefix)
  BY DEF SimTypeOK, SchedTypeOK, Schedules
<1>2. CASE i \in 1..forced_pos
  BY <1>1, <1>2 DEF HonoursPrefix, Flat, SimTypeOK, SchedTypeOK, Schedules
<1>3. CASE i \in (forced_pos + 1)..Len(trace)
  <2>1. trace[i].wrap = <<>>
    BY <1>3 DEF HonoursPrefix
  <2> QED
    BY <2>1, OneMarkerIsNotNested
<1> QED
  BY <1>1, <1>2, <1>3

LEMMA RunEndsFlat ==
  ASSUME SimTypeOK, HonoursPrefix, NoNestedWrapper, NEW kind \in Kinds, execution_done(kind)
  PROVE  NoNestedWrapper'
<1>1. Flat(trace)
  BY TraceIsFlat, NoNestedIsFlat
<1>2. \A p \in Generated : Flat(p)
  BY <1>1, MutationsStayFlat DEF Generated, generate_forced_prefixes, SimTypeOK
<1>3. ASSUME NEW pending, \A e \in pending : Flat(e.prefix), NEW explored, NEW walked,
             pick_next_prefix_or_done(pending, explored, walked)
      PROVE  Flat(forced_prefix') /\ \A e \in pending_prefixes' : Flat(e.prefix)
  <2>1. \/ start_run(<<>>) /\ pending_prefixes' = {}
        \/ \E e \in pending : start_run(e.prefix) /\ pending_prefixes' = {x \in pending : Before(e, x)}
    BY <1>3, Zenon DEF pick_next_prefix_or_done, ExplorationEnds
  <2>2. Flat(<<>>)
    BY DEF Flat
  <2>3. CASE start_run(<<>>) /\ pending_prefixes' = {}
    BY <2>2, <2>3 DEF start_run
  <2>4. CASE \E e \in pending : start_run(e.prefix) /\ pending_prefixes' = {x \in pending : Before(e, x)}
    BY <1>3, <2>4, Zenon DEF start_run
  <2> QED
    BY <2>1, <2>3, <2>4
<1>4. \A e \in pending_prefixes : Flat(e.prefix)
  BY NoNestedIsFlat
<1>5. \A e \in Queued(Generated \ (Explored \cup Walked)) : Flat(e.prefix)
  BY <1>2 DEF Queued
<1>6. \/ pick_next_prefix_or_done(pending_prefixes, Explored, explored_trace_prefixes)
      \/ pick_next_prefix_or_done(pending_prefixes \cup Queued(Generated \ (Explored \cup Walked)),
                                  Explored, Walked)
  BY Zenon DEF execution_done
<1>7. Flat(forced_prefix') /\ \A e \in pending_prefixes' : Flat(e.prefix)
  BY <1>3, <1>4, <1>5, <1>6
<1> QED
  BY <1>7 DEF NoNestedWrapper, Flat
=============================================================================
