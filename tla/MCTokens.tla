------------------------------ MODULE MCTokens ------------------------------
(* Steps and their order for model checking: two steps of a thread T1, two *)
(* of T2 and one of T3.                                                    *)
EXTENDS StepTokens

MCSteps == {"a1", "a2", "b1", "b2", "c1"}
MCThreadOf ==
  [s \in MCSteps |-> CASE s \in {"a1", "a2"} -> "T1" [] s \in {"b1", "b2"} -> "T2" [] OTHER -> "T3"]

\* With client names like "A" and "B", a bare step sorts before any marker.
StepRank == [s \in MCSteps |-> CASE s = "a1" -> 0 [] s = "a2" -> 1 [] s = "b1" -> 2
                                 [] s = "b2" -> 3 [] OTHER -> 4]
WrapRank(w) ==
  CASE w = <<>> -> 0
    [] w = <<"DELAY">> -> 1
    [] w = <<"DELAY", "DROP">> -> 2
    [] w = <<"DROP">> -> 3
    [] w = <<"DROP", "DELAY">> -> 4
MCStringRank == [x \in Tokens |-> 10 * WrapRank(x.wrap) + StepRank[x.step]]
=============================================================================
