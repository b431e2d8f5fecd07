-------------------------- MODULE PrefixGenerator --------------------------
(***************************************************************************)
(* generate_forced_prefixes of src/simcore/dpor.py and the order in which  *)
(* the simulator queues what it returns (src/simcore/simulator_prefixes.py *)
(* and the sorted(...) of execution_done).                                 *)
(*                                                                         *)
(* The code returns a list, sorts it by a total key and appends it to a    *)
(* deque.  Here the result is a set, and the deque a set of records: the   *)
(* batch (the run that queued it) and the prefix.  Before is the deque's   *)
(* order: batches in turn, and each batch sorted.                          *)
(***************************************************************************)
EXTENDS StepTokens

CONSTANTS
  EnableDrop,   \* --drop
  EnableDelay,  \* --delay
  PhaseOrder    \* SIM_PHASE_ORDER: "drop_first" or "delay_first"

ASSUME ConfigAssumption ==
  /\ EnableDrop \in BOOLEAN
  /\ EnableDelay \in BOOLEAN
  /\ PhaseOrder \in {"drop_first", "delay_first"}

\* The first j tokens of the trace, with the tokens at i and j exchanged.
minimal_prefix_for_swap(trace, i, j) ==
  [SubSeq(trace, 1, j) EXCEPT ![i] = trace[j], ![j] = trace[i]]

\* Mutant of _is_mutated: dropped steps are mutated again.
IsDelayed(x) == is_delay(x)

_is_mutated(x) == is_drop(x) \/ is_delay(x)

\* The positions of a trace a mutation may be applied to.
Mutable(trace) == {i \in 1..Len(trace) : ~ _is_mutated(trace[i])}

\* Mutant of Swappable: the thread is not looked at.
SwapAnything(trace, i) == trace[i] # trace[i + 1]

\* Two neighbours may be exchanged when their thread names differ.
Swappable(trace, i) == thread(trace[i]) # thread(trace[i + 1])

\* Mutant of SwapPrefixes: the last pair of neighbours is left out.
SwapPrefixesButLast(trace) ==
  {minimal_prefix_for_swap(trace, i, i + 1) :
     i \in {k \in 1..(Len(trace) - 2) : Swappable(trace, k)}}

SwapPrefixes(trace) ==
  {minimal_prefix_for_swap(trace, i, i + 1) :
     i \in {k \in 1..(Len(trace) - 1) : Swappable(trace, k)}}

DropPrefixes(trace) ==
  {[SubSeq(trace, 1, i) EXCEPT ![i] = drop(@)] : i \in Mutable(trace)}

DelayPrefixes(trace) ==
  {[SubSeq(trace, 1, i) EXCEPT ![i] = delay(@)] : i \in Mutable(trace)}

Later(i, j) == IF i > j THEN i ELSE j

\* The step at i dropped and the one at j delayed, up to the later of the two.
mixed_prefix(trace, i, j) ==
  [SubSeq(trace, 1, Later(i, j)) EXCEPT ![i] = drop(@), ![j] = delay(@)]

MixedPrefixes(trace) ==
  {mixed_prefix(trace, q[1], q[2]) :
     q \in {p \in Mutable(trace) \X Mutable(trace) : p[1] # p[2]}}

Mutations(trace) ==
  UNION {SwapPrefixes(trace),
         IF EnableDrop THEN DropPrefixes(trace) ELSE {},
         IF EnableDelay THEN DelayPrefixes(trace) ELSE {},
         IF EnableDrop /\ EnableDelay THEN MixedPrefixes(trace) ELSE {}}

\* Mutant of generate_forced_prefixes: what was generated before is not looked up.
generate_unexplored(trace, seen, explored) == Mutations(trace) \ explored

generate_forced_prefixes(trace, seen, explored) ==
  Mutations(trace) \ (seen \cup explored)
----------------------------------------------------------------------------
has_drop(p) == \E i \in 1..Len(p) : is_drop(p[i])

has_delay(p) == \E i \in 1..Len(p) : is_delay(p[i])

\* Pure reorderings are 0, the two kinds of mutation 1 and 2 in the configured
\* order, and prefixes that hold both 3.
prefix_phase_rank(p) ==
  LET DropRank == IF PhaseOrder = "drop_first" THEN 1 ELSE 2
  IN (IF has_drop(p) THEN DropRank ELSE 0) + (IF has_delay(p) THEN 3 - DropRank ELSE 0)

\* Python's order of two tuples of strings of one length.
LexLess(p, q) ==
  \E k \in 1..Len(p) :
    /\ \A i \in 1..(k - 1) : p[i] = q[i]
    /\ StringRank[p[k]] < StringRank[q[k]]

\* prefix_sort_key: the phase, then the length, then the tokens.
SortsBefore(p, q) ==
  \/ prefix_phase_rank(p) < prefix_phase_rank(q)
  \/ /\ prefix_phase_rank(p) = prefix_phase_rank(q)
     /\ Len(p) < Len(q) \/ (Len(p) = Len(q) /\ LexLess(p, q))

Before(x, y) == x.batch < y.batch \/ (x.batch = y.batch /\ SortsBefore(x.prefix, y.prefix))
=============================================================================
