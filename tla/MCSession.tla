----------------------------- MODULE MCSession -----------------------------
(* Values of the constants for model checking Session: small workloads.    *)
EXTENDS SessionProperties, MCTokens

TwoThreads == {"t1", "t2"}

\* A client process for each thread, and one process for both.
OwnClient == [t \in TwoThreads |-> t]
OneClient == [t \in TwoThreads |-> "A"]

\* Workloads.
OneEach == [t \in TwoThreads |-> IF t = "t1" THEN <<"a1">> ELSE <<"b1">>]
TwoAndOne == [t \in TwoThreads |-> IF t = "t1" THEN <<"a1", "a2">> ELSE <<"b1">>]
=============================================================================
