--------------------------- MODULE MCExploration ---------------------------
(* Workloads for model checking Exploration.                               *)
EXTENDS Exploration, MCTokens

ThreeThreads == {"t1", "t2", "t3"}

Programs(a, b, c) ==
  [t \in ThreeThreads |-> CASE t = "t1" -> a [] t = "t2" -> b [] t = "t3" -> c]

\* Threads that do not branch.
Unbranched(programs, isPrompt) ==
  [program |-> programs,
   needs |-> [s \in MCSteps |-> {}],
   moves |-> [s \in MCSteps |-> [status \in {200, 404} |-> 1]],
   prompt |-> isPrompt]

\* b1 looks for what a1 makes, and its thread passes over b2 when it hears `skip`.
Look(programs, skip, isPrompt) ==
  [program |-> programs,
   needs |-> [s \in MCSteps |-> IF s = "b1" THEN {"a1"} ELSE {}],
   moves |-> [s \in MCSteps |-> [status \in {200, 404} |->
                 IF s = "b1" /\ status = skip THEN 2 ELSE 1]],
   prompt |-> isPrompt]

\* The thread makes it with b2 when it is not there, or uses it when it is.
LookThenMake(programs, isPrompt) == Look(programs, 200, isPrompt)
LookThenUse(programs, isPrompt) == Look(programs, 404, isPrompt)

TwoAndOne == Programs(<<"a1", "a2">>, <<"b1">>, <<>>)
TwoEach == Programs(<<"a1", "a2">>, <<"b1", "b2">>, <<>>)
OneOfThree == Programs(<<"a1">>, <<"b1">>, <<"c1">>)
OneAndTwo == Programs(<<"a1">>, <<"b1", "b2">>, <<>>)
OneTwoOne == Programs(<<"a1">>, <<"b1", "b2">>, <<"c1">>)

\* The sets of workloads of the runs.
SingleKind ==
  {Unbranched(TwoAndOne, FALSE), Unbranched(TwoEach, TRUE), Unbranched(OneOfThree, TRUE),
   LookThenMake(OneTwoOne, TRUE)}
BothKinds ==
  {LookThenMake(OneAndTwo, FALSE), LookThenUse(TwoEach, TRUE), Unbranched(TwoAndOne, FALSE)}
Shortest == {Unbranched(TwoAndOne, FALSE)}
=============================================================================
