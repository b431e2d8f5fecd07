-------------------------- MODULE PrefixScheduler --------------------------
(***************************************************************************)
(* class PrefixScheduler of src/simcore/scheduler.py: who may take the     *)
(* next step of a run.  While it enforces, only the request that presents  *)
(* the expected token of the forced prefix may go; after that the run is   *)
(* free, and the smallest of the steps gathered in a short window goes.    *)
(*                                                                         *)
(* wait_for_turn is a loop under one condition variable, and each pass     *)
(* through its body is atomic: a pass either takes the turn (TakeTurn),    *)
(* gives up because the run already has a result (the caller's Refuse), or *)
(* waits (Wait).  What it notes for consume_last_match is read before the  *)
(* lock is released, so it is a function of the state (Granted) and no     *)
(* variable.                                                               *)
(*                                                                         *)
(* Time is left out of the state.  The gather window opens and at some     *)
(* later point has passed; the watchdog's patience is the caller's guard.  *)
(* With SIM_FREE_GATHER_MS > 0 the rule for the first free decision ("wait *)
(* for N threads or the end of the window") waits exactly as long as the   *)
(* rule that follows it ("wait for the end of the window"), so the count   *)
(* of released steps and the set of threads seen decide nothing.           *)
(***************************************************************************)
EXTENDS StepTokens

VARIABLES
  forced_prefix,   \* the prefix this run must follow
  enforcing,       \* is it being followed now?
  forced_pos,      \* how many of its tokens have been matched
  free_waiting,    \* _free_waiting: steps gathered for the next free choice
  free_deadline,   \* _free_deadline: "none", "open" (in the future) or "passed"
  current_result   \* current_result_ref["value"]: the run's result so far

schedVars == <<forced_prefix, enforcing, forced_pos, free_waiting, free_deadline, current_result>>

\* RUN_CRASH is left out: no statement of the program assigns it.
Results == {"SUCCESS", "FAILURE", "TIMEOUT"}

SchedTypeOK ==
  /\ forced_prefix \in Schedules
  /\ enforcing \in BOOLEAN
  /\ forced_pos \in 0..Len(forced_prefix)
  /\ free_waiting \subseteq Steps
  /\ free_deadline \in {"none", "open", "passed"}
  /\ current_result \in Results

SchedInit ==
  /\ forced_prefix = <<>>
  /\ enforcing = FALSE
  /\ forced_pos = 0
  /\ free_waiting = {}
  /\ free_deadline = "none"
  /\ current_result = "SUCCESS"

\* Mutant of start_run: the position in the prefix is kept.
StartWhereItWas(p) ==
  /\ forced_prefix' = p
  /\ enforcing' = (p # <<>>)
  /\ free_waiting' = {}
  /\ free_deadline' = "none"
  /\ current_result' = "SUCCESS"
  /\ UNCHANGED forced_pos

\* start_run(p), together with the caller's reset of the result.
start_run(p) ==
  /\ forced_prefix' = p
  /\ enforcing' = (p # <<>>)
  /\ forced_pos' = 0
  /\ free_waiting' = {}
  /\ free_deadline' = "none"
  /\ current_result' = "SUCCESS"

is_prefix_complete == ~enforcing \/ forced_pos >= Len(forced_prefix)

\* expected_now() is not None
Expecting == enforcing /\ forced_pos < Len(forced_prefix)

expected_now == forced_prefix[forced_pos + 1]

\* The three ways a presented step can match the expected token.
Matches(token, s) ==
  /\ ~ _is_nested_wrapper(token)
  /\ \/ token = Base(s)
     \/ is_drop(token) /\ undrop(token) = Base(s)
     \/ Outer(token) = "DELAY" /\ undelay(token) = Base(s)

\* A pass of wait_for_turn that finds a step in free mode puts it among the
\* contenders before it chooses.
Contenders(s) == free_waiting \cup {s}

Smallest(s, contenders) == \A c \in contenders : StringRank[Base(s)] <= StringRank[Base(c)]

MayGoForced(s) == Expecting /\ Matches(expected_now, s)
MayGoFree(s) == ~enforcing /\ free_deadline = "passed" /\ Smallest(s, Contenders(s))
\* "should not happen, but be safe": enforcing with nothing left to expect.
MayGoUnexpected(s) == enforcing /\ ~Expecting

CanTakeTurn(s) ==
  /\ current_result = "SUCCESS"
  /\ MayGoForced(s) \/ MayGoFree(s) \/ MayGoUnexpected(s)

\* Mutant of Granted: the match is not passed on.
PresentedStep(s) == Base(s)

\* What consume_last_match reports to the step that took the turn, or the bare
\* step where there is no last match.
Granted(s) == IF Expecting THEN expected_now ELSE Base(s)

\* Mutant of StillEnforcing: it stops one token too early.
StillEnforcingButLast(pos) == pos + 1 < Len(forced_prefix)

\* maybe_stop_enforcing, for a run that has matched pos tokens of its prefix.
StillEnforcing(pos) == pos < Len(forced_prefix)

\* A match in a forced run; `stops` says whether the handler goes on to call
\* maybe_stop_enforcing before it releases the lock.
TakeForced(s, stops) ==
  /\ MayGoForced(s)
  /\ forced_pos' = forced_pos + 1
  /\ enforcing' = (stops => StillEnforcing(forced_pos + 1))
  /\ UNCHANGED <<free_waiting, free_deadline>>

\* Mutant of TakeFree: the chosen step stays among the contenders.
TakeFreeAndStay(s) ==
  /\ MayGoFree(s)
  /\ free_waiting' = Contenders(s)
  /\ free_deadline' = "none"
  /\ UNCHANGED <<enforcing, forced_pos>>

TakeFree(s) ==
  /\ MayGoFree(s)
  /\ free_waiting' = Contenders(s) \ {s}
  /\ free_deadline' = "none"
  /\ UNCHANGED <<enforcing, forced_pos>>

TakeUnexpected(s) ==
  /\ MayGoUnexpected(s)
  /\ enforcing' = FALSE
  /\ UNCHANGED <<forced_pos, free_waiting, free_deadline>>

\* A pass of wait_for_turn that takes the turn.
TakeTurn(s, stops) ==
  /\ CanTakeTurn(s)
  /\ UNCHANGED forced_prefix
  /\ TakeForced(s, stops) \/ TakeFree(s) \/ TakeUnexpected(s)

\* Mutant of Wait: every pass sets a new deadline.
WaitAndReopen(s) ==
  /\ current_result = "SUCCESS"
  /\ ~CanTakeTurn(s)
  /\ free_waiting' = IF enforcing THEN free_waiting ELSE Contenders(s)
  /\ free_deadline' = IF enforcing THEN free_deadline ELSE "open"
  /\ UNCHANGED <<forced_prefix, enforcing, forced_pos, current_result>>

\* A pass of wait_for_turn that has to wait: in free mode it joins the
\* contenders and opens the gather window if there is none.
Wait(s) ==
  /\ current_result = "SUCCESS"
  /\ ~CanTakeTurn(s)
  /\ free_waiting' = IF enforcing THEN free_waiting ELSE Contenders(s)
  /\ free_deadline' = IF ~enforcing /\ free_deadline = "none" THEN "open" ELSE free_deadline
  /\ UNCHANGED <<forced_prefix, enforcing, forced_pos, current_result>>

\* The clock passes the gather deadline.
GatherExpires ==
  /\ free_deadline = "open"
  /\ free_deadline' = "passed"
  /\ UNCHANGED <<forced_prefix, enforcing, forced_pos, free_waiting, current_result>>

\* watchdog_tick, when the last progress is longer ago than the deadlock timeout.
watchdog_tick ==
  /\ current_result = "SUCCESS"
  /\ enforcing
  /\ ~is_prefix_complete
  /\ current_result' = "TIMEOUT"
  /\ UNCHANGED <<forced_prefix, enforcing, forced_pos, free_waiting, free_deadline>>
=============================================================================
