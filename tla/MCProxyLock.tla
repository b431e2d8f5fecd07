---------------------------- MODULE MCProxyLock ----------------------------
(* Values of the constants for model checking ProxyLock: two requests for  *)
(* the step a1 and one for b1.                                             *)
EXTENDS ProxyLock, MCTokens

CONSTANTS r1, r2, r3

TwoSteps == {"a1", "b1"}
MCStepOf == [r \in {r1, r2, r3} |-> IF r = r3 THEN "b1" ELSE "a1"]
=============================================================================
