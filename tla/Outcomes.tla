------------------------------ MODULE Outcomes ------------------------------
(***************************************************************************)
(* How errors become results: the classification of HTTP statuses          *)
(* (sim_helpers.py), and what main.py may say of a run whose clients met   *)
(* certain errors.  ClientOutput has the way from a client's error over    *)
(* its output to that verdict.                                             *)
(***************************************************************************)
EXTENDS Naturals

CONSTANTS
  Treat404,       \* --404-as-fail
  Treat408        \* --408-as-timeout

ASSUME OutcomesAssumption == Treat404 \in BOOLEAN /\ Treat408 \in BOOLEAN

\* What a client thread may have met: nothing, the crash of its process, an
\* answer 408, another error, or a timeout of its own.
Errors == {"none", "crash", "408", "FAILURE", "TIMEOUT"}

\* What main.py may report of a run.
Kinds == {"ok", "crash", "FAILURE", "TIMEOUT"}

\* "SUCCESS" where the code returns None.
classify_http_failure(status) ==
  IF status = 404 /\ ~Treat404 THEN "SUCCESS"
  ELSE IF status = 408 THEN (IF Treat408 THEN "TIMEOUT" ELSE "SUCCESS")
  ELSE IF status >= 400 THEN "FAILURE"
  ELSE "SUCCESS"

\* Mutant of Verdicts: a 408 is reported as such.
VerdictsVerbatim(errs) ==
  IF "crash" \in errs THEN {"crash"}
  ELSE IF errs = {"none"} THEN {"ok"}
  ELSE errs \ {"none"}

\* The verdicts that the errors of all threads of a run allow.  Which one it is
\* depends on the order of the output: the last line about an error decides.
\* Without --408-as-timeout a 408 hides every other error, and a timeout too
\* unless that last line is about it.
Verdicts(errs) ==
  IF "crash" \in errs THEN {"crash"}
  ELSE IF errs = {"none"} THEN {"ok"}
  ELSE IF "408" \in errs /\ ~Treat408 THEN {"ok"} \cup (errs \cap {"TIMEOUT"})
  ELSE {IF e = "408" THEN "TIMEOUT" ELSE e : e \in errs \ {"none"}}
=============================================================================
