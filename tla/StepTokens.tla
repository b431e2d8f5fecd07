----------------------------- MODULE StepTokens -----------------------------
(***************************************************************************)
(* The step strings of src/simcore/dpor.py.  A request is identified by    *)
(* the string "client:thread:method:path"; an exploration token is such a  *)
(* string, possibly behind the markers DROP:: and DELAY::<seconds>::.      *)
(*                                                                         *)
(* A token is a record: the step, and the markers in front of it, the      *)
(* outermost first.  All delays of one session have the same length        *)
(* (cfg.delay_seconds), so the seconds are no part of a token.             *)
(***************************************************************************)
EXTENDS Naturals, Sequences

CONSTANTS
  Steps,        \* the step keys the clients present
  ThreadOf,     \* the thread name inside a step key (header X-Thread-Id)
  StringRank    \* the place of a token in Python's order of strings

Wraps == {<<>>, <<"DROP">>, <<"DELAY">>, <<"DROP", "DELAY">>, <<"DELAY", "DROP">>}

Tokens == [wrap : Wraps, step : Steps]

\* Traces and forced prefixes are sequences of tokens.
Schedules == Seq(Tokens)

\* Python orders strings totally: two tokens never share a rank.
ASSUME StringRankAssumption ==
  /\ StringRank \in [Tokens -> Nat]
  /\ \A x, y \in Tokens : StringRank[x] = StringRank[y] => x = y

\* What a client presents: a step without markers.
Base(s) == [wrap |-> <<>>, step |-> s]

\* The outermost marker of a token, or "none".
Outer(x) == IF x.wrap = <<>> THEN "none" ELSE Head(x.wrap)

Strip(x) == [x EXCEPT !.wrap = Tail(@)]

is_drop(x) == Outer(x) = "DROP"

undrop(x) == IF is_drop(x) THEN Strip(x) ELSE x

drop(x) == IF is_drop(x) THEN x ELSE [x EXCEPT !.wrap = <<"DROP">> \o @]

is_delay(x) == Outer(x) = "DELAY" \/ (is_drop(x) /\ Outer(undrop(x)) = "DELAY")

\* Only a DELAY marker, outermost or right under a DROP, is taken off; a DROP
\* over it goes with it.
undelay(x) == IF is_delay(x) THEN Strip(undrop(x)) ELSE x

delay(x) == IF is_delay(x) THEN x ELSE [x EXCEPT !.wrap = <<"DELAY">> \o @]

\* parse_step(x)["thread"]: the markers do not change it.
thread(x) == ThreadOf[x.step]

\* A marker on top of a marker: the scheduler never matches such a token.
_is_nested_wrapper(x) ==
  \/ Outer(x) = "DROP" /\ Outer(undrop(x)) \in {"DROP", "DELAY"}
  \/ Outer(x) = "DELAY" /\ Outer(undelay(x)) \in {"DROP", "DELAY"}
=============================================================================
