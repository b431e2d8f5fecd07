-------------------------- MODULE ResetLocalStack --------------------------
(***************************************************************************)
(* reset_localstack.py, the process that reset_localstack_quiet starts and *)
(* kills after 20 s: one action per call of LocalStack.                    *)
(*                                                                         *)
(* A call may fail for a moment: with a ClientError (LocalStack answers an *)
(* error) or with another exception (no connection).  Some resources are   *)
(* stubborn: LocalStack refuses to delete them, or accepts and keeps them. *)
(* Time is what the process sleeps, in units of POLL_INTERVAL_S; calls     *)
(* take none.  Listings come in one page.                                  *)
(***************************************************************************)
EXTENDS Integers, FiniteSets

CONSTANTS
  Buckets,
  Tables,
  Keys,        \* the objects a bucket may hold
  MAX_RETRIES,
  MAX_WAIT,    \* MAX_WAIT_S, in polls
  Limit,       \* the 20 s after which the process is killed, in polls
  MaxFaults    \* bound: calls that fail for a moment

ASSUME ResetAssumption ==
  /\ IsFiniteSet(Buckets) /\ IsFiniteSet(Tables) /\ Buckets \cap Tables = {}
  /\ MAX_RETRIES \in Nat \ {0}
  /\ MAX_WAIT \in Nat /\ Limit \in Nat /\ MaxFaults \in Nat

VARIABLES
  there,      \* the buckets and tables LocalStack has
  objects,    \* of each bucket
  stubborn,   \* the resources that will not go
  at,         \* the call that is next, or how the process ended
  todo,       \* listed and not yet looked at
  current,    \* the resource at hand, or "none"
  keys,       \* the listed keys of the bucket at hand that are still to do
  attempt,    \* of _retry
  elapsed,    \* time slept
  t0,         \* when the wait for a resource began
  faults,     \* history: how many calls failed for a moment
  swallowed   \* history: buckets for which _delete_all_objects_best_effort passed over an error

backendVars == <<there, objects, stubborn>>
vars == <<backendVars, at, todo, current, keys, attempt, elapsed, t0, faults, swallowed>>

Resources == Buckets \cup Tables

Ended == {"done", "aborted", "killed"}

TypeOK ==
  /\ there \subseteq Resources
  /\ objects \in [Buckets -> SUBSET Keys]
  /\ stubborn \subseteq Resources
  /\ at \in {"list_buckets", "next_bucket", "list_objects", "delete_objects", "delete_bucket",
             "await_bucket", "list_tables", "next_table", "delete_table", "await_table",
             "check_table"} \cup Ended
  /\ todo \subseteq Resources
  /\ current \in Resources \cup {"none"}
  /\ keys \subseteq Keys
  /\ attempt \in 1..MAX_RETRIES
  /\ elapsed \in Nat
  /\ t0 \in Nat
  /\ faults \in 0..MaxFaults
  /\ swallowed \subseteq Buckets

Init ==
  /\ there = Resources
  /\ objects \in [Buckets -> SUBSET Keys]
  /\ stubborn \in SUBSET Resources
  /\ at = "list_buckets"
  /\ todo = {}
  /\ current = "none"
  /\ keys = {}
  /\ attempt = 1
  /\ elapsed = 0
  /\ t0 = 0
  /\ faults = 0
  /\ swallowed = {}

\* The process runs, and has not used up its time.
Call(place) == at = place /\ elapsed < Limit

Go(place) == at' = place /\ attempt' = 1

\* A call fails for a moment.
Fault == faults < MaxFaults /\ faults' = faults + 1

NoFault == UNCHANGED faults

\* Mutants of OutOfRetries: one attempt too many, and one too few.
OutOfRetriesLate == attempt > MAX_RETRIES

OutOfRetriesEarly == attempt >= MAX_RETRIES - 1

OutOfRetries == attempt = MAX_RETRIES

\* except of _retry: sleep, and call again, or give up and go on elsewhere.
Retry(again, elsewhere) ==
  /\ elapsed' = elapsed + attempt
  /\ IF OutOfRetries THEN Go(elsewhere) ELSE at' = again /\ attempt' = attempt + 1
----------------------------------------------------------------------------
(* reset_s3 *)

ListBuckets ==
  /\ Call("list_buckets")
  /\ \/ NoFault /\ todo' = there \cap Buckets /\ Go("next_bucket") /\ UNCHANGED elapsed
     \/ Fault /\ Retry("list_buckets", "list_tables") /\ UNCHANGED todo
  /\ UNCHANGED <<backendVars, current, keys, t0, swallowed>>

NextBucket ==
  /\ Call("next_bucket")
  /\ \/ /\ todo = {}
        /\ Go("list_tables")
        /\ UNCHANGED <<todo, current>>
     \/ \E b \in todo :
          /\ current' = b
          /\ todo' = todo \ {b}
          /\ Go("list_objects")
  /\ UNCHANGED <<backendVars, keys, elapsed, t0, faults, swallowed>>

\* An error answer ends _delete_all_objects_best_effort, and counts as success.
Swallow == swallowed' = swallowed \cup {current}

\* The _retry around it is not guarded: when it gives up, so does the process.
ListObjects ==
  /\ Call("list_objects")
  /\ \/ /\ NoFault
        /\ keys' = objects[current]
        /\ at' = "delete_objects"
        /\ UNCHANGED <<attempt, elapsed, swallowed>>
     \/ /\ Fault                                            \* ClientError
        /\ Swallow
        /\ Go("delete_bucket")
        /\ UNCHANGED <<keys, elapsed>>
     \/ /\ Fault                                            \* another exception
        /\ Retry("list_objects", "aborted")
        /\ UNCHANGED <<keys, swallowed>>
  /\ UNCHANGED <<backendVars, todo, current, t0>>

DeleteObject(k) ==
  /\ keys' = keys \ {k}
  /\ UNCHANGED <<at, attempt, elapsed>>
  /\ \/ NoFault /\ objects' = [objects EXCEPT ![current] = @ \ {k}] /\ UNCHANGED swallowed
     \/ Fault /\ Swallow /\ UNCHANGED objects               \* ClientError

DeleteObjects ==
  /\ Call("delete_objects")
  /\ \/ /\ keys = {}
        /\ Go("delete_bucket")
        /\ UNCHANGED <<objects, keys, elapsed, faults, swallowed>>
     \/ \E k \in keys : DeleteObject(k)
     \/ /\ keys # {}                                        \* another exception
        /\ Fault
        /\ Retry("list_objects", "aborted")
        /\ UNCHANGED <<objects, keys, swallowed>>
  /\ UNCHANGED <<there, stubborn, todo, current, t0>>

StartWait(place) == Go(place) /\ t0' = elapsed

\* Mutant of AfterBucket: the exception of _retry is not caught.
AfterBucketAbort == "aborted"

\* Where reset_s3 goes on when the bucket could not be deleted.
AfterBucket == "await_bucket"

DeleteBucket ==
  /\ Call("delete_bucket")
  /\ \/ /\ objects[current] = {}
        /\ NoFault
        /\ there' = IF current \in stubborn THEN there ELSE there \ {current}
        /\ StartWait("await_bucket")
        /\ UNCHANGED elapsed
     \/ /\ IF objects[current] # {} \/ current \in stubborn THEN NoFault ELSE Fault
        /\ Retry("delete_bucket", AfterBucket)
        /\ t0' = elapsed'                    \* read only once it has given up
        /\ UNCHANGED there
  /\ UNCHANGED <<objects, stubborn, todo, current, keys, swallowed>>

\* Mutant of WaitOver: the wait starts again with every poll.
WaitedLong == FALSE

WaitOver == elapsed - t0 >= MAX_WAIT

\* A failing head_bucket counts as: it is still there.
AwaitBucket ==
  /\ Call("await_bucket")
  /\ \/ NoFault /\ (WaitOver \/ current \notin there) /\ Go("next_bucket") /\ UNCHANGED elapsed
     \/ /\ ~WaitOver
        /\ IF current \in there THEN NoFault ELSE Fault
        /\ elapsed' = elapsed + 1
        /\ UNCHANGED <<at, attempt>>
  /\ UNCHANGED <<backendVars, todo, current, keys, t0, swallowed>>
----------------------------------------------------------------------------
(* reset_dynamodb *)

ListTables ==
  /\ Call("list_tables")
  /\ \/ NoFault /\ todo' = there \cap Tables /\ Go("next_table") /\ UNCHANGED elapsed
     \/ Fault /\ Retry("list_tables", "done") /\ UNCHANGED todo
  /\ UNCHANGED <<backendVars, current, keys, t0, swallowed>>

NextTable ==
  /\ Call("next_table")
  /\ \/ /\ todo = {}
        /\ Go("done")
        /\ UNCHANGED <<todo, current>>
     \/ \E t \in todo :
          /\ current' = t
          /\ todo' = todo \ {t}
          /\ Go("delete_table")
  /\ UNCHANGED <<backendVars, keys, elapsed, t0, faults, swallowed>>

DeleteTable ==
  /\ Call("delete_table")
  /\ \/ /\ NoFault
        /\ there' = IF current \in stubborn THEN there ELSE there \ {current}
        /\ StartWait("await_table")
        /\ UNCHANGED elapsed
     \/ /\ IF current \in stubborn THEN NoFault ELSE Fault
        /\ Retry("delete_table", "await_table")
        /\ t0' = elapsed'                    \* read only once it has given up
        /\ UNCHANGED there
  /\ UNCHANGED <<objects, stubborn, todo, current, keys, swallowed>>

\* The listings behind a deletion are retried, and not guarded.
AwaitTable ==
  /\ Call("await_table")
  /\ \/ NoFault /\ attempt = 1 /\ WaitOver /\ Go("check_table") /\ UNCHANGED elapsed
     \/ NoFault /\ current \notin there /\ Go("check_table") /\ UNCHANGED elapsed
     \/ /\ attempt > 1 \/ ~WaitOver
        /\ current \in there
        /\ NoFault
        /\ elapsed' = elapsed + 1
        /\ Go("await_table")
     \/ (attempt > 1 \/ ~WaitOver) /\ Fault /\ Retry("await_table", "aborted")
  /\ UNCHANGED <<backendVars, todo, current, keys, t0, swallowed>>

CheckTable ==
  /\ Call("check_table")
  /\ \/ NoFault /\ Go("next_table") /\ UNCHANGED elapsed
     \/ Fault /\ Retry("check_table", "aborted")
  /\ UNCHANGED <<backendVars, todo, current, keys, t0, swallowed>>
----------------------------------------------------------------------------
\* subprocess.run kills the process, wherever it is.
TimeOut ==
  /\ at \notin Ended
  /\ elapsed >= Limit
  /\ at' = "killed"
  /\ UNCHANGED <<backendVars, todo, current, keys, attempt, elapsed, t0, faults, swallowed>>

ResetOver == at \in Ended /\ UNCHANGED vars

Next ==
  \/ ListBuckets \/ NextBucket \/ ListObjects \/ DeleteObjects \/ DeleteBucket \/ AwaitBucket
  \/ ListTables \/ NextTable \/ DeleteTable \/ AwaitTable \/ CheckTable
  \/ TimeOut \/ ResetOver

Spec == Init /\ [][Next]_vars
----------------------------------------------------------------------------
\* Fewer calls have failed than any _retry makes.
FewFaults == faults < MAX_RETRIES

(* A reset that comes to its end leaves only what LocalStack will not give up,
   as long as fewer calls failed than one _retry makes and no error was passed
   over while objects were deleted: objects go before their bucket, a failed
   call is made again, and one resource that fails does not keep the rest.
   reset_s3, reset_dynamodb. *)
CleanWhenDone == at = "done" /\ FewFaults /\ swallowed = {} => there \subseteq stubborn

(* No resource that refuses to go makes the process give up before the others
   have been tried: only calls that fail MAX_RETRIES times do. *)
StubbornNeverAborts == FewFaults => at # "aborted"

(* A single bucket or table that cannot be deleted costs its retries and its
   wait, and the reset still ends before reset_localstack_quiet kills it.
   MAX_RETRIES, MAX_WAIT_S and the 20 s of sim_helpers.py. *)
OneSurvivorInTime ==
  FewFaults /\ Cardinality(stubborn \cup swallowed) <= 1 => at # "killed"
=============================================================================
