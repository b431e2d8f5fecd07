--------------------------- MODULE WatchdogTiming ---------------------------
(***************************************************************************)
(* Time in a forced run.  The scheduler notes when a step of the forced    *)
(* prefix was last matched (_last_progress_at), the watchdog's thread      *)
(* compares that with the deadlock timeout every quarter of a second, and  *)
(* main.py chooses the timeout from the delay that DELAY steps sleep.      *)
(*                                                                         *)
(* A matched step sleeps its delay and calls LocalStack while its handler  *)
(* holds state.cond, so the watchdog, which wants the same lock, is late   *)
(* by as much.  Meanwhile the patience it measures is being used up.       *)
(*                                                                         *)
(* All times are intervals (time since ...), in one unit.  Time passes in  *)
(* Tick, and not beyond a moment at which somebody has to act.             *)
(***************************************************************************)
EXTENDS Naturals

CONSTANTS
  EnableDelay,   \* --delay
  DelaySeconds,  \* what a DELAY step sleeps: SIM_DELAY_SECONDS
  BaseTimeout,   \* 60 s: the deadlock timeout without delays
  Margin,        \* 30 s: what is added to the delay
  CallTime,      \* the longest a call of LocalStack takes
  ClientTime,    \* the longest a client takes to come with its next step
  ResetTime,     \* the longest a reset of LocalStack takes
  Period,        \* 0.25 s: the watchdog's sleep
  PrefixLen      \* the length of a forced prefix

\* A forced prefix is not empty: the empty one is a free run.  The slack
\* main.py leaves must be enough for a call and a client.
ASSUME TimingAssumption ==
  /\ EnableDelay \in BOOLEAN
  /\ \A c \in {DelaySeconds, BaseTimeout, Margin, CallTime, ClientTime, ResetTime, Period, PrefixLen} :
       c \in Nat
  /\ PrefixLen > 0
  /\ CallTime + ClientTime <= Margin
  /\ CallTime + ClientTime <= BaseTimeout

VARIABLES
  phase,       \* "waiting" for the expected step; "delaying" or "calling" for
               \* the matched one; the "rest" of a run whose prefix is done or
               \* given up; "resetting" LocalStack between two runs
  in_phase,    \* time spent in this phase
  coming,      \* will a client present the expected step?
  forced_pos,
  stuck_for,   \* time since _last_progress_at
  slept,       \* how long the watchdog's thread has slept, at most Period
  result       \* current_result

vars == <<phase, in_phase, coming, forced_pos, stuck_for, slept, result>>

TypeOK ==
  /\ phase \in {"waiting", "delaying", "calling", "rest", "resetting"}
  /\ in_phase \in Nat
  /\ coming \in BOOLEAN
  /\ forced_pos \in 0..PrefixLen
  /\ stuck_for \in Nat
  /\ slept \in 0..Period
  /\ result \in {"SUCCESS", "TIMEOUT"}

\* Mutant of forced_prefix_timeout: the delay is not considered.
FixedTimeout == BaseTimeout

\* main.py's choice when --forced-prefix-timeout is not given.
forced_prefix_timeout ==
  IF EnableDelay /\ DelaySeconds + Margin > BaseTimeout THEN DelaySeconds + Margin ELSE BaseTimeout

\* The handler of a matched step, and execution_done, hold state.cond.
LockIsFree == phase \in {"waiting", "rest"}

\* The clients have just been started, and the prefix is picked.
Init ==
  /\ phase = "waiting"
  /\ in_phase = 0
  /\ coming \in BOOLEAN
  /\ forced_pos = 0
  /\ stuck_for = 0
  /\ slept = 0
  /\ result = "SUCCESS"

Enter(p) == phase' = p /\ in_phase' = 0

\* Mutant of AfterStep: the end of the prefix is noticed one step late.
AfterStepTooLate(pos) ==
  IF pos <= PrefixLen THEN Enter("waiting") /\ coming' \in BOOLEAN
  ELSE Enter("rest") /\ UNCHANGED coming

\* What follows a step that is done: the next one may never come, if the
\* prefix is infeasible; after the last one nothing is enforced.
AfterStep(pos) ==
  IF pos < PrefixLen THEN Enter("waiting") /\ coming' \in BOOLEAN
  ELSE Enter("rest") /\ UNCHANGED coming

\* wait_for_turn matches the expected step; its handler drops it, forwards it,
\* or sleeps first.
Match ==
  /\ phase = "waiting"
  /\ coming
  /\ forced_pos' = forced_pos + 1
  /\ stuck_for' = 0
  /\ \/ AfterStep(forced_pos + 1)                                  \* DROP
     \/ Enter("calling") /\ UNCHANGED coming
     \/ EnableDelay /\ Enter("delaying") /\ UNCHANGED coming
  /\ UNCHANGED <<slept, result>>

DelayOver ==
  /\ phase = "delaying"
  /\ in_phase = DelaySeconds
  /\ Enter("calling")
  /\ UNCHANGED <<coming, forced_pos, stuck_for, slept, result>>

CallReturns ==
  /\ phase = "calling"
  /\ AfterStep(forced_pos)
  /\ UNCHANGED <<forced_pos, stuck_for, slept, result>>

\* main.py has posted the end of the run: execution_done resets LocalStack.
RunEnds ==
  /\ phase = "rest"
  /\ Enter("resetting")
  /\ result' = "SUCCESS"
  /\ UNCHANGED <<coming, forced_pos, stuck_for, slept>>

\* The next prefix is picked after the reset, with a start_run of its own.
start_run ==
  /\ phase = "resetting"
  /\ Enter("waiting")
  /\ coming' \in BOOLEAN
  /\ forced_pos' = 0
  /\ stuck_for' = 0
  /\ UNCHANGED <<slept, result>>

watchdog_due == slept = Period

\* Mutant of patience_over: the timeout is measured from the last tick.
SleptTooLong == slept > forced_prefix_timeout

patience_over == stuck_for > forced_prefix_timeout

\* The watchdog's thread wakes up and gets the lock.  If a step has been waited
\* for too long the run is a TIMEOUT, and all its requests are refused.
watchdog_tick ==
  /\ LockIsFree
  /\ watchdog_due
  /\ slept' = 0
  /\ IF phase = "waiting" /\ patience_over
       THEN Enter("rest") /\ result' = "TIMEOUT"
       ELSE UNCHANGED <<phase, in_phase, result>>
  /\ UNCHANGED <<coming, forced_pos, stuck_for>>

\* Nobody has to act at this moment.
Quiet ==
  /\ phase = "delaying" => in_phase < DelaySeconds
  /\ phase = "calling" => in_phase < CallTime
  /\ phase = "resetting" => in_phase < ResetTime
  /\ (phase = "waiting" /\ coming) \/ phase = "rest" => in_phase < ClientTime
  /\ LockIsFree => ~watchdog_due

Tick ==
  /\ Quiet
  /\ in_phase' = in_phase + 1
  /\ stuck_for' = stuck_for + 1
  /\ slept' = IF slept < Period THEN slept + 1 ELSE slept
  /\ UNCHANGED <<phase, coming, forced_pos, result>>

Next ==
  \/ Match \/ DelayOver \/ CallReturns
  \/ RunEnds \/ start_run
  \/ watchdog_tick
  \/ Tick

Spec == Init /\ [][Next]_vars
----------------------------------------------------------------------------
(* main.py promises to "ensure timeout > delay so we don't falsely TIMEOUT
   during enforced DELAY": the watchdog gives a run up only if the expected
   step is not coming, however the delays, the calls, the watchdog's sleep and
   the time between two runs add up.  forced_prefix_timeout, start_run,
   wait_for_turn, watchdog_tick. *)
NoFalseTimeout == result = "TIMEOUT" => ~coming

(* A run that waits for a step that is not coming is given up one period of
   the watchdog after the timeout, though the watchdog may be kept from its
   lock for long.  start_watchdog_thread, watchdog_tick. *)
GivenUpInTime == phase = "waiting" => stuck_for <= forced_prefix_timeout + Period
=============================================================================
