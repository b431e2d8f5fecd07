---------------------------- MODULE ClientOutput ----------------------------
(***************************************************************************)
(* run_client_streaming of main.py: the clients of a run print lines, one  *)
(* reader thread per process collects them, and when all have exited the   *)
(* lines of all of them, process after process in the order in which the   *)
(* readers end, are searched for errors.                                   *)
(*                                                                         *)
(* A line is the set of the marks the search looks for.  Clients are       *)
(* external: a thread that meets an error prints a line about it at once,  *)
(* and the process prints CLIENT_HAD_ERROR=1 at its end if there was one   *)
(* (the outputs in test_http_classification.py).                           *)
(***************************************************************************)
EXTENDS Outcomes, Sequences

CONSTANTS
  Threads,
  Processes,
  ProcessOf,   \* the client process of a thread
  Window,      \* how many lines are searched for details: 80
  MaxLines     \* bound: lines a process prints before its last one

ASSUME OutputAssumption ==
  /\ ProcessOf \in [Threads -> Processes]
  /\ Processes # {}
  /\ \A p \in Processes : \E t \in Threads : ProcessOf[t] = p
  /\ Window \in Nat \ {0}
  /\ MaxLines \in Nat

VARIABLES
  err,         \* history: the error a thread met
  printed,     \* what a process has printed
  state,       \* of a process: "running", "exited" or "crashed"
  reading,     \* the processes whose reader has not ended
  all_lines,
  report       \* what run_client_streaming returns, "none" before

vars == <<err, printed, state, reading, all_lines, report>>

Marks == {"CLIENT_HAD_ERROR=1", "FAIL", "TIMEOUT", "HTTP 408"}

Lines == SUBSET Marks

TypeOK ==
  /\ err \in [Threads -> Errors]
  /\ printed \in [Processes -> Seq(Lines)]
  /\ state \in [Processes -> {"running", "exited", "crashed"}]
  /\ reading \subseteq Processes
  /\ all_lines \in Seq(Lines)
  /\ report \in Kinds \cup {"none"}

Init ==
  /\ err = [t \in Threads |-> "none"]
  /\ printed = [p \in Processes |-> <<>>]
  /\ state = [p \in Processes |-> "running"]
  /\ reading = Processes
  /\ all_lines = <<>>
  /\ report = "none"
----------------------------------------------------------------------------
(* _classify_client_error_from_lines *)

Last(lines, n) == IF Len(lines) <= n THEN lines ELSE SubSeq(lines, Len(lines) - n + 1, Len(lines))

LinesWith(lines, marks) == {i \in 1..Len(lines) : lines[i] \cap marks # {}}

had_error(lines) == LinesWith(lines, {"CLIENT_HAD_ERROR=1"}) # {}

timeout_markers == {"TIMEOUT"} \cup (IF Treat408 THEN {"HTTP 408"} ELSE {})

saw_408(lines) == LinesWith(Last(lines, Window), {"HTTP 408"}) # {}

\* The last line in the window that tells of an error, if there is one.
detail(lines) ==
  LET candidates == Last(lines, Window)
      found == LinesWith(candidates, {"FAIL"} \cup timeout_markers)
  IN {candidates[i] : i \in {k \in found : \A j \in found : j <= k}}

has_mark(lines, marks) == \E line \in detail(lines) : line \cap marks # {}

\* Mutant of hidden: a 408 hides nothing.
nothing_hidden(lines) == FALSE

\* A 408 that is not to count, whatever else was met: only when the last line about
\* an error tells of a timeout is that timeout seen.
hidden(lines) == saw_408(lines) /\ ~Treat408 /\ ~has_mark(lines, {"TIMEOUT"})

\* Mutant of error_kind: what is no failure is a timeout.
failure_or_timeout(lines) == IF has_mark(lines, {"FAIL"}) THEN "FAILURE" ELSE "TIMEOUT"

error_kind(lines) == IF has_mark(lines, timeout_markers) THEN "TIMEOUT" ELSE "FAILURE"

\* Mutant of classify: the kind is passed on where there is none.
kind_or_None(lines) ==
  IF ~had_error(lines) \/ hidden(lines) THEN "None" ELSE error_kind(lines)

classify(lines) ==
  IF ~had_error(lines) \/ hidden(lines) THEN "ok" ELSE error_kind(lines)
----------------------------------------------------------------------------
Running(p) == state[p] = "running" /\ Len(printed[p]) < MaxLines

PrintLine(p, line) == printed' = [printed EXCEPT ![p] = Append(@, line)]

\* A line that tells of no error.
Chat(p) ==
  /\ Running(p)
  /\ PrintLine(p, {})
  /\ UNCHANGED <<err, state, reading, all_lines, report>>

LineAbout(e) ==
  CASE e = "FAILURE" -> {"FAIL"}
    [] e = "TIMEOUT" -> {"FAIL", "TIMEOUT"}
    [] e = "408" -> {"FAIL", "HTTP 408"}

\* A thread meets an error and ends.
Fail(t, e) ==
  /\ Running(ProcessOf[t])
  /\ err[t] = "none"
  /\ err' = [err EXCEPT ![t] = e]
  /\ PrintLine(ProcessOf[t], LineAbout(e))
  /\ UNCHANGED <<state, reading, all_lines, report>>

ThreadsOf(p) == {t \in Threads : ProcessOf[t] = p}

\* All threads have ended, and the process says whether one had an error.
Exit(p) ==
  /\ state[p] = "running"
  /\ state' = [state EXCEPT ![p] = "exited"]
  /\ PrintLine(p, IF \E t \in ThreadsOf(p) : err[t] # "none" THEN {"CLIENT_HAD_ERROR=1"} ELSE {})
  /\ UNCHANGED <<err, reading, all_lines, report>>

Crash(p) ==
  /\ state[p] = "running"
  /\ state' = [state EXCEPT ![p] = "crashed"]
  /\ err' = [t \in Threads |-> IF ProcessOf[t] = p THEN "crash" ELSE err[t]]
  /\ UNCHANGED <<printed, reading, all_lines, report>>

\* reader_thread: the output is at its end.
ReaderEnds(p) ==
  /\ state[p] # "running"
  /\ p \in reading
  /\ reading' = reading \ {p}
  /\ all_lines' = all_lines \o printed[p]
  /\ UNCHANGED <<err, printed, state, report>>

\* p.wait() and t.join() for all; the exit codes count for more than the output.
Return ==
  /\ reading = {}
  /\ report = "none"
  /\ report' = IF \E p \in Processes : state[p] = "crashed" THEN "crash" ELSE classify(all_lines)
  /\ UNCHANGED <<err, printed, state, reading, all_lines>>

Returned == report # "none" /\ UNCHANGED vars

Next ==
  \/ \E p \in Processes : Chat(p) \/ Exit(p) \/ Crash(p) \/ ReaderEnds(p)
  \/ \E t \in Threads, e \in {"FAILURE", "TIMEOUT", "408"} : Fail(t, e)
  \/ Return
  \/ Returned

Spec == Init /\ [][Next]_vars
----------------------------------------------------------------------------
MetErrors == {err[t] : t \in Threads}

(* As long as the clients print no more than the search looks at, the verdict
   is one of those from which Session chooses for the errors met, in whatever
   order threads print and readers end.  It is what the search yields, not what
   the README promises: see TimeoutsAreReported.
   _classify_client_error_from_lines. *)
VerdictFollowsErrors ==
  report # "none" /\ Len(all_lines) <= Window => report \in Verdicts(MetErrors)

(* However much is printed: a run is reported as a timeout or a failure only if
   a thread met an error, as a timeout only if a thread met one, and an error,
   be it a timeout, is passed over only together with a 408. *)
ReportsAreGrounded ==
  /\ report = "TIMEOUT" => "TIMEOUT" \in MetErrors \/ (Treat408 /\ "408" \in MetErrors)
  /\ report = "FAILURE" => MetErrors # {"none"}
  /\ report = "ok" => MetErrors = {"none"} \/ ("408" \in MetErrors /\ ~Treat408)

(* README section 17: a run is a TIMEOUT when the client reports a timeout-related
   error, and SUCCESS indicates that no timeout condition was triggered.  The
   search ignores a 408 unless another timeout was met, but looks for that one
   in the last line about an error only: when a thread's 408 comes after the
   timeout of another thread, the run is reported as free of errors.
   other_timeout in _classify_client_error_from_lines. *)
TimeoutsAreReported == report = "ok" => "TIMEOUT" \notin MetErrors
=============================================================================
