------------------------ MODULE WatchdogTimingProofs ------------------------
(***************************************************************************)
(* For all delays, timeouts and bounds on the environment that meet        *)
(* TimingAssumption: the watchdog never hits a run whose next step is      *)
(* coming, and is never late for one whose next step is not.               *)
(***************************************************************************)
EXTENDS WatchdogTiming, TLAPS

\* The longest a matched step is delayed.
Longest == IF EnableDelay THEN DelaySeconds ELSE 0

\* How much of the patience each phase may have used up.
PatienceLeft ==
  /\ phase = "waiting" => forced_pos < PrefixLen
  /\ phase # "rest" => result = "SUCCESS"
  /\ phase = "delaying" => EnableDelay /\ stuck_for <= in_phase /\ in_phase <= DelaySeconds
  /\ phase = "calling" => stuck_for <= in_phase + Longest /\ in_phase <= CallTime
  /\ phase = "waiting" => stuck_for <= in_phase + Longest + CallTime
  /\ phase = "waiting" /\ coming => in_phase <= ClientTime
  /\ phase = "waiting" => stuck_for <= forced_prefix_timeout + slept

WatchdogInv == TypeOK /\ PatienceLeft /\ NoFalseTimeout

LEMMA TimeoutCoversSteps ==
  /\ forced_prefix_timeout \in Nat
  /\ Longest \in Nat
  /\ Longest + CallTime + ClientTime <= forced_prefix_timeout
  BY TimingAssumption DEF forced_prefix_timeout, Longest

LEMMA InitialPatience == Init => WatchdogInv
  BY TimeoutCoversSteps, TimingAssumption
     DEF Init, WatchdogInv, TypeOK, PatienceLeft, NoFalseTimeout

LEMMA StepsKeepPatience == WatchdogInv /\ [Next]_vars => WatchdogInv'
  <1> SUFFICES ASSUME WatchdogInv, [Next]_vars PROVE WatchdogInv'
    OBVIOUS
  <1> USE TimeoutCoversSteps, TimingAssumption DEF WatchdogInv, TypeOK, PatienceLeft, NoFalseTimeout
  <1>1. CASE Match
    <2>1. /\ forced_pos' \in 1..PrefixLen /\ stuck_for' = 0
          /\ slept' = slept /\ result' = "SUCCESS"
      BY <1>1 DEF Match
    <2>2. CASE AfterStep(forced_pos + 1)
      <3>1. CASE forced_pos + 1 < PrefixLen
        <4>1. phase' = "waiting" /\ in_phase' = 0 /\ coming' \in BOOLEAN
          BY <2>2, <3>1 DEF AfterStep, Enter
        <4>2. forced_pos' < PrefixLen
          BY <1>1, <3>1 DEF Match
        <4>3. QED
          BY <2>1, <4>1, <4>2
      <3>2. CASE ~(forced_pos + 1 < PrefixLen)
        BY <2>1, <2>2, <3>2 DEF AfterStep, Enter
      <3>3. QED
        BY <3>1, <3>2
    <2>3. CASE Enter("calling") /\ UNCHANGED coming
      BY <2>1, <2>3 DEF Enter
    <2>4. CASE EnableDelay /\ Enter("delaying") /\ UNCHANGED coming
      BY <2>1, <2>4 DEF Enter
    <2>5. QED
      BY <1>1, <2>2, <2>3, <2>4 DEF Match
  <1>2. CASE DelayOver
    BY <1>2 DEF DelayOver, Enter, Longest
  <1>3. CASE CallReturns
    BY <1>3 DEF CallReturns, AfterStep, Enter
  <1>4. CASE RunEnds
    BY <1>4 DEF RunEnds, Enter
  <1>5. CASE start_run
    BY <1>5 DEF start_run, Enter
  <1>6. CASE watchdog_tick
    BY <1>6 DEF watchdog_tick, Enter, LockIsFree, patience_over, watchdog_due
  <1>7. CASE Tick
    BY <1>7 DEF Tick, Quiet, LockIsFree, watchdog_due
  <1>8. CASE UNCHANGED vars
    BY <1>8 DEF vars
  <1>9. QED
    BY <1>1, <1>2, <1>3, <1>4, <1>5, <1>6, <1>7, <1>8 DEF Next

LEMMA PatienceKept == Spec => []WatchdogInv
  BY InitialPatience, StepsKeepPatience, PTL DEF Spec

(* The times of the model keep to their types: a position never runs past the
   prefix, and no phase is entered with a time it cannot have.  All of the
   modelled clockwork. *)
THEOREM TypeCorrect == Spec => []TypeOK
  BY PatienceKept, PTL DEF WatchdogInv

(* The slack of main.py is enough: a delay that was matched, the call behind
   it and the client's next request never exceed the deadlock timeout.
   forced_prefix_timeout in main(), watchdog_tick. *)
THEOREM DelaysAreNoTimeouts == Spec => []NoFalseTimeout
  BY PatienceKept, PTL DEF WatchdogInv

(* An infeasible prefix holds up the exploration no longer than the timeout
   and one period of the watchdog.  start_watchdog_thread. *)
THEOREM StuckRunsAreGivenUp == Spec => []GivenUpInTime
  <1>1. WatchdogInv => GivenUpInTime
    BY TimeoutCoversSteps, TimingAssumption
       DEF WatchdogInv, TypeOK, PatienceLeft, GivenUpInTime
  <1>2. QED
    BY <1>1, PatienceKept, PTL
=============================================================================
