----------------------- MODULE ResetLocalStackProofs -----------------------
(***************************************************************************)
(* For all buckets, tables, objects, retries and waits: a reset that ends  *)
(* has deleted what can be deleted, and one that gives up has seen a call  *)
(* fail MAX_RETRIES times, however many resources refuse to go; and one    *)
(* resource that refuses to go does not use up the time.                   *)
(***************************************************************************)
EXTENDS ResetLocalStack, TLAPS, FiniteSetTheorems

AtBucket == {"list_objects", "delete_objects", "delete_bucket", "await_bucket"}
AtTable == {"delete_table", "await_table", "check_table"}

\* What is listed, and what is at hand, is of the kind that is being deleted.
InPlace ==
  /\ at \in AtBucket \cup {"next_bucket"} => todo \subseteq Buckets
  /\ at \in AtBucket => current \in Buckets
  /\ at \in AtTable \cup {"next_table"} => todo \subseteq Tables
  /\ at \in AtTable => current \in Tables

\* A deletion that LocalStack refuses for as long as it is asked.
Refused ==
  \/ at = "delete_bucket" /\ (objects[current] # {} \/ current \in stubborn)
  \/ at = "delete_table" /\ current \in stubborn

\* Every other call is made again only because it failed for a moment.
RetriesAreFaults == at \notin Ended => attempt <= faults + 1 \/ Refused

\* The resource at hand, before its deletion.
AtHand == IF at \in {"list_objects", "delete_objects", "delete_bucket", "delete_table"}
          THEN {current} ELSE {}

\* What is still there is stubborn, or will be looked at; the keys listed for
\* a bucket are all that it holds.
CleanSoFar ==
  FewFaults /\ swallowed = {} =>
    /\ at \in AtBucket \cup {"next_bucket"}
             => there \cap Buckets \subseteq stubborn \cup todo \cup AtHand
    /\ at \in AtTable \cup {"list_tables", "next_table", "done"}
             => there \cap Buckets \subseteq stubborn
    /\ at \in AtTable \cup {"next_table"}
             => there \cap Tables \subseteq stubborn \cup todo \cup AtHand
    /\ at = "done" => there \cap Tables \subseteq stubborn
    /\ at = "delete_objects" => objects[current] \subseteq keys
    /\ at = "delete_bucket" => objects[current] = {}

ResetInv == TypeOK /\ InPlace /\ RetriesAreFaults /\ StubbornNeverAborts /\ CleanSoFar
----------------------------------------------------------------------------
LEMMA InitialReset == Init => ResetInv
  <1> SUFFICES ASSUME Init PROVE ResetInv
    OBVIOUS
  <1> USE ResetAssumption DEF Init
  <1>1. TypeOK
    BY DEF TypeOK, Resources, Ended
  <1>2. InPlace /\ RetriesAreFaults /\ StubbornNeverAborts /\ CleanSoFar
    BY
       DEF InPlace, RetriesAreFaults, StubbornNeverAborts, CleanSoFar, AtBucket, AtTable,
           Refused
  <1>3. QED
    BY <1>1, <1>2 DEF ResetInv

\* _retry calls again, or has called MAX_RETRIES times and goes on elsewhere.
LEMMA RetrySteps ==
  ASSUME TypeOK, NEW again, NEW elsewhere, Retry(again, elsewhere)
  PROVE  /\ elapsed' \in Nat
         /\ \/ attempt = MAX_RETRIES /\ at' = elsewhere /\ attempt' = 1
            \/ attempt # MAX_RETRIES /\ at' = again /\ attempt' = attempt + 1
         /\ attempt' \in 1..MAX_RETRIES
  BY ResetAssumption DEF TypeOK, Retry, OutOfRetries, Go

LEMMA FaultSteps ==
  ASSUME TypeOK, Fault
  PROVE  /\ faults' \in 0..MaxFaults /\ faults' = faults + 1 /\ faults \in Nat
         /\ FewFaults' => FewFaults /\ faults' < MAX_RETRIES
  BY ResetAssumption DEF TypeOK, Fault, FewFaults

----------------------------------------------------------------------------
(* Every step keeps each part of the invariant *)

LEMMA StepsKeepTypes == ResetInv /\ [Next]_vars => TypeOK' /\ InPlace'
  <1> SUFFICES ASSUME ResetInv, [Next]_vars PROVE TypeOK' /\ InPlace'
    OBVIOUS
  <1>1. CASE ListBuckets
    BY <1>1, RetrySteps, FaultSteps, ResetAssumption
       DEF ResetInv, TypeOK, ListBuckets, Go, NoFault, backendVars, AtBucket, AtTable, InPlace
  <1>2. CASE NextBucket
    BY <1>2, ResetAssumption
       DEF ResetInv, TypeOK, NextBucket, Go, backendVars, AtBucket, AtTable, InPlace, Call
  <1>3. CASE ListObjects
    BY <1>3, RetrySteps, FaultSteps, ResetAssumption
       DEF ResetInv, TypeOK, InPlace, AtBucket, Ended, ListObjects, Call, Go, NoFault,
           backendVars, Swallow, AtTable
  <1>4. CASE DeleteObjects
    BY <1>4, RetrySteps, FaultSteps, ResetAssumption
       DEF ResetInv, TypeOK, InPlace, AtBucket, Ended, DeleteObjects, Call, Go, NoFault,
           DeleteObject, Swallow, AtTable
  <1>5. CASE DeleteBucket
    BY <1>5, RetrySteps, FaultSteps, ResetAssumption
       DEF ResetInv, TypeOK, DeleteBucket, Go, NoFault, StartWait, AfterBucket, AtBucket,
           AtTable, InPlace, Call
  <1>6. CASE AwaitBucket
    BY <1>6, FaultSteps, ResetAssumption
       DEF ResetInv, TypeOK, AwaitBucket, Go, NoFault, backendVars, AtBucket, AtTable, InPlace,
           Call
  <1>7. CASE ListTables
    BY <1>7, RetrySteps, FaultSteps, ResetAssumption
       DEF ResetInv, TypeOK, Ended, ListTables, Go, NoFault, backendVars, AtBucket, AtTable,
           InPlace
  <1>8. CASE NextTable
    BY <1>8, ResetAssumption
       DEF ResetInv, TypeOK, Ended, NextTable, Go, backendVars, AtBucket, AtTable, InPlace, Call
  <1>9. CASE DeleteTable
    BY <1>9, RetrySteps, FaultSteps, ResetAssumption
       DEF ResetInv, TypeOK, DeleteTable, Go, NoFault, StartWait, AtBucket, AtTable, InPlace,
           Call
  <1>10. CASE AwaitTable
    BY <1>10, RetrySteps, FaultSteps, ResetAssumption
       DEF ResetInv, TypeOK, Ended, AwaitTable, Go, NoFault, backendVars, AtBucket, AtTable,
           InPlace, Call
  <1>11. CASE CheckTable
    BY <1>11, RetrySteps, FaultSteps, ResetAssumption
       DEF ResetInv, TypeOK, Ended, CheckTable, Go, NoFault, backendVars, AtBucket, AtTable,
           InPlace, Call
  <1>12. CASE TimeOut
    BY <1>12 DEF ResetInv, TypeOK, Ended, TimeOut, backendVars, AtBucket, AtTable, InPlace
  <1>13. CASE ResetOver
    BY <1>13
       DEF ResetInv, TypeOK, ResetOver, backendVars, vars, AtBucket, AtTable, InPlace, Ended
  <1>14. CASE UNCHANGED vars
    BY <1>14 DEF vars, backendVars, ResetInv, TypeOK, InPlace
  <1>15. QED
    BY <1>1, <1>2, <1>3, <1>4, <1>5, <1>6, <1>7, <1>8, <1>9, <1>10, <1>11, <1>12, <1>13, <1>14
       DEF Next

LEMMA StepsKeepRetries == ResetInv /\ [Next]_vars => RetriesAreFaults'
  <1> SUFFICES ASSUME ResetInv, [Next]_vars PROVE RetriesAreFaults'
    OBVIOUS
  <1>1. CASE ListBuckets
    BY <1>1, RetrySteps, FaultSteps
       DEF ResetInv, TypeOK, RetriesAreFaults, Refused, ListBuckets, Call, Go, NoFault
  <1>2. CASE NextBucket
    BY <1>2 DEF ResetInv, TypeOK, RetriesAreFaults, NextBucket, Go
  <1>3. CASE ListObjects
    BY <1>3, RetrySteps, FaultSteps
       DEF ResetInv, TypeOK, RetriesAreFaults, Refused, Ended, ListObjects, Call, Go, NoFault
  <1>4. CASE DeleteObjects
    BY <1>4, RetrySteps, FaultSteps
       DEF ResetInv, TypeOK, RetriesAreFaults, Refused, Ended, DeleteObjects, Call, Go, NoFault,
           DeleteObject
  <1>5. CASE DeleteBucket
    BY <1>5, RetrySteps, FaultSteps
       DEF ResetInv, TypeOK, RetriesAreFaults, Refused, DeleteBucket, Call, Go, NoFault,
           StartWait
  <1>6. CASE AwaitBucket
    BY <1>6, FaultSteps
       DEF ResetInv, TypeOK, RetriesAreFaults, Refused, AwaitBucket, Go, NoFault, backendVars
  <1>7. CASE ListTables
    BY <1>7, RetrySteps, FaultSteps
       DEF ResetInv, TypeOK, RetriesAreFaults, Refused, ListTables, Call, Go, NoFault
  <1>8. CASE NextTable
    BY <1>8 DEF ResetInv, TypeOK, RetriesAreFaults, NextTable, Go
  <1>9. CASE DeleteTable
    BY <1>9, RetrySteps, FaultSteps
       DEF ResetInv, TypeOK, RetriesAreFaults, Refused, DeleteTable, Call, Go, NoFault,
           StartWait
  <1>10. CASE AwaitTable
    BY <1>10, RetrySteps, FaultSteps
       DEF ResetInv, TypeOK, RetriesAreFaults, Refused, AwaitTable, Call, Go, NoFault
  <1>11. CASE CheckTable
    BY <1>11, RetrySteps, FaultSteps
       DEF ResetInv, TypeOK, RetriesAreFaults, Refused, CheckTable, Call, Go, NoFault
  <1>12. CASE TimeOut
    BY <1>12 DEF RetriesAreFaults, Ended, TimeOut
  <1>13. CASE ResetOver
    BY <1>13 DEF RetriesAreFaults, ResetOver, vars
  <1>14. CASE UNCHANGED vars
    BY <1>14 DEF vars, backendVars, ResetInv, RetriesAreFaults, Refused
  <1>15. QED
    BY <1>1, <1>2, <1>3, <1>4, <1>5, <1>6, <1>7, <1>8, <1>9, <1>10, <1>11, <1>12, <1>13, <1>14
       DEF Next

\* The process gives up where a call is retried without guard, and there each
\* attempt has used up a fault.
LEMMA StepsKeepGoing == ResetInv /\ [Next]_vars => StubbornNeverAborts'
  <1> SUFFICES ASSUME ResetInv, [Next]_vars PROVE StubbornNeverAborts'
    OBVIOUS
  <1>1. CASE ListBuckets
    BY <1>1, RetrySteps DEF ResetInv, StubbornNeverAborts, ListBuckets, Go
  <1>2. CASE NextBucket
    BY <1>2 DEF StubbornNeverAborts, NextBucket, Go
  <1>3. CASE ListObjects
    BY <1>3, RetrySteps, FaultSteps
       DEF ResetInv, TypeOK, StubbornNeverAborts, RetriesAreFaults, Refused, Ended, ListObjects,
           Call, Go
  <1>4. CASE DeleteObjects
    BY <1>4, RetrySteps, FaultSteps
       DEF ResetInv, TypeOK, StubbornNeverAborts, RetriesAreFaults, Refused, Ended,
           DeleteObjects, Call, Go, DeleteObject
  <1>5. CASE DeleteBucket
    BY <1>5, RetrySteps
       DEF ResetInv, StubbornNeverAborts, DeleteBucket, Go, StartWait, AfterBucket
  <1>6. CASE AwaitBucket
    BY <1>6 DEF StubbornNeverAborts, AwaitBucket, Call, Go
  <1>7. CASE ListTables
    BY <1>7, RetrySteps DEF ResetInv, StubbornNeverAborts, ListTables, Go
  <1>8. CASE NextTable
    BY <1>8 DEF StubbornNeverAborts, NextTable, Go
  <1>9. CASE DeleteTable
    BY <1>9, RetrySteps DEF ResetInv, StubbornNeverAborts, DeleteTable, Go, StartWait
  <1>10. CASE AwaitTable
    BY <1>10, RetrySteps, FaultSteps
       DEF ResetInv, TypeOK, StubbornNeverAborts, RetriesAreFaults, Refused, Ended, AwaitTable,
           Call, Go
  <1>11. CASE CheckTable
    BY <1>11, RetrySteps, FaultSteps
       DEF ResetInv, TypeOK, StubbornNeverAborts, RetriesAreFaults, Refused, Ended, CheckTable,
           Call, Go
  <1>12. CASE TimeOut
    BY <1>12 DEF StubbornNeverAborts, TimeOut
  <1>13. CASE ResetOver
    BY <1>13 DEF ResetInv, StubbornNeverAborts, FewFaults, ResetOver, vars
  <1>14. CASE UNCHANGED vars
    BY <1>14 DEF vars, backendVars, ResetInv, StubbornNeverAborts, FewFaults
  <1>15. QED
    BY <1>1, <1>2, <1>3, <1>4, <1>5, <1>6, <1>7, <1>8, <1>9, <1>10, <1>11, <1>12, <1>13, <1>14
       DEF Next

\* A resource leaves todo to be at hand, and leaves that when it is gone, when it
\* is stubborn, or with MAX_RETRIES faults.
LEMMA StepsKeepClean == ResetInv /\ [Next]_vars => CleanSoFar'
  <1> SUFFICES ASSUME ResetInv, [Next]_vars PROVE CleanSoFar'
    OBVIOUS
  <1>1. CASE ListBuckets
    BY <1>1, RetrySteps, FaultSteps
       DEF ResetInv, TypeOK, CleanSoFar, AtBucket, AtTable, RetriesAreFaults, Refused, Ended,
           ListBuckets, Call, Go, backendVars
  <1>2. CASE NextBucket
    BY <1>2
       DEF ResetInv, CleanSoFar, AtHand, AtTable, FewFaults, NextBucket, Call, Go, backendVars
  <1>3. CASE ListObjects
    BY <1>3, RetrySteps, FaultSteps
       DEF ResetInv, CleanSoFar, AtHand, AtBucket, AtTable, FewFaults, ListObjects, Call,
           NoFault, backendVars, Swallow
  <1>4. CASE DeleteObjects
    BY <1>4, RetrySteps, FaultSteps
       DEF ResetInv, TypeOK, CleanSoFar, AtHand, AtBucket, AtTable, InPlace, FewFaults,
           DeleteObjects, Call, Go, NoFault, DeleteObject, Swallow
  <1>5. CASE DeleteBucket
    BY <1>5, RetrySteps, FaultSteps
       DEF ResetInv, TypeOK, CleanSoFar, AtHand, AtBucket, AtTable, FewFaults, RetriesAreFaults,
           Refused, Ended, DeleteBucket, Call, Go, NoFault, StartWait, AfterBucket
  <1>6. CASE AwaitBucket
    BY <1>6, FaultSteps
       DEF ResetInv, CleanSoFar, AtHand, AtBucket, AtTable, FewFaults, AwaitBucket, Call, Go,
           NoFault, backendVars
  <1>7. CASE ListTables
    BY <1>7, RetrySteps, FaultSteps
       DEF ResetInv, TypeOK, CleanSoFar, AtTable, FewFaults, RetriesAreFaults, Refused, Ended,
           ListTables, Call, Go, NoFault, backendVars
  <1>8. CASE NextTable
    BY <1>8 DEF ResetInv, CleanSoFar, AtHand, FewFaults, NextTable, Call, Go, backendVars
  <1>9. CASE DeleteTable
    BY <1>9, RetrySteps, FaultSteps
       DEF ResetInv, TypeOK, CleanSoFar, AtHand, AtTable, FewFaults, RetriesAreFaults, Refused,
           Ended, DeleteTable, Call, Go, NoFault, StartWait
  <1>10. CASE AwaitTable
    BY <1>10, RetrySteps, FaultSteps
       DEF ResetInv, CleanSoFar, AtHand, AtTable, FewFaults, AwaitTable, Call, Go, NoFault,
           backendVars
  <1>11. CASE CheckTable
    BY <1>11, RetrySteps, FaultSteps
       DEF ResetInv, CleanSoFar, AtHand, AtTable, FewFaults, CheckTable, Call, Go, NoFault,
           backendVars
  <1>12. CASE TimeOut
    BY <1>12 DEF CleanSoFar, AtBucket, AtTable, TimeOut
  <1>13. CASE ResetOver
    BY <1>13
       DEF ResetInv, CleanSoFar, AtBucket, AtTable, FewFaults, Ended, ResetOver, backendVars,
           vars
  <1>14. CASE UNCHANGED vars
    BY <1>14 DEF vars, backendVars, ResetInv, CleanSoFar, AtHand, FewFaults
  <1>15. QED
    BY <1>1, <1>2, <1>3, <1>4, <1>5, <1>6, <1>7, <1>8, <1>9, <1>10, <1>11, <1>12, <1>13, <1>14
       DEF Next

LEMMA ResetInvariant == Spec => []ResetInv
  <1>1. ResetInv /\ [Next]_vars => ResetInv'
    BY StepsKeepTypes, StepsKeepRetries, StepsKeepGoing, StepsKeepClean DEF ResetInv
  <1>2. QED
    BY <1>1, InitialReset, PTL DEF Spec
----------------------------------------------------------------------------
(* Every variable keeps its type: in particular no _retry counts beyond
   MAX_RETRIES. *)
THEOREM TypeCorrect == Spec => []TypeOK
  BY ResetInvariant, PTL DEF ResetInv

(* However many buckets and tables refuse to go: the process gives up only
   after as many calls have failed for a moment as one _retry makes. *)
THEOREM OnlyFaultsAbort == Spec => []StubbornNeverAborts
  BY ResetInvariant, PTL DEF ResetInv

(* A reset that comes to its end has left nothing but what LocalStack will not
   give up, unless one _retry's worth of calls failed or an error was passed
   over among the objects of a bucket. *)
THEOREM ResetCleans == Spec => []CleanWhenDone
  <1>1. ResetInv => CleanWhenDone
    BY DEF ResetInv, CleanSoFar, CleanWhenDone, TypeOK, Resources
  <1>2. QED
    BY <1>1, ResetInvariant, PTL
----------------------------------------------------------------------------
(* The time of a reset *)

\* Twice the sum of the numbers up to n: what n attempts of one _retry sleep.
TwiceSum(n) == n * (n + 1)

Survivors == stubborn \cup swallowed

OneSurvivor == \A r, q \in Survivors : r = q

\* What the reset has not come to yet.
ToCome ==
  CASE at = "list_buckets" -> Resources
    [] at \in AtBucket \cup {"next_bucket"} -> todo \cup Tables
    [] at = "list_tables" -> Tables
    [] at \in AtTable \cup {"next_table"} -> todo
    [] at \in Ended -> {}

\* A bucket is empty before its deletion, unless an error was passed over.
ObjectsGoFirst ==
  /\ at = "delete_objects" /\ current \notin swallowed => objects[current] \subseteq keys
  /\ at = "delete_bucket" /\ current \notin swallowed => objects[current] = {}

LookedAtOnce ==
  /\ at \in AtBucket \cup AtTable => current \notin todo
  /\ at = "await_bucket" => attempt = 1
  /\ at \in {"await_bucket", "await_table"} /\ FewFaults /\ current \notin Survivors
           => current \notin there

\* What the faults cost, and what deleting the survivor and waiting for it does.
FaultTime == TwiceSum(faults)

DeletionTime == TwiceSum(MAX_RETRIES)

\* The sleep is within that of the faults and half of x.
SleptWithin(x) == 2 * elapsed <= FaultTime + x

\* w of the wait is sleep between polls, the rest is that of failing polls.
Waited(w) ==
  /\ SleptWithin(DeletionTime + 2 * w)
  /\ w <= elapsed - t0
  /\ attempt > 1 => w < MAX_WAIT

SpentSoFar ==
  FewFaults /\ OneSurvivor =>
    /\ at # "killed"
    /\ SleptWithin(DeletionTime + 2 * MAX_WAIT)
    /\ at \notin Ended /\ Survivors \subseteq ToCome => SleptWithin(0)
    /\ current \in Survivors =>
         /\ at \in {"list_objects", "delete_objects"} => SleptWithin(0)
         /\ at \in {"delete_bucket", "delete_table"} => SleptWithin(TwiceSum(attempt - 1))
         /\ at \in {"await_bucket", "await_table"} => \E w \in 0..MAX_WAIT : Waited(w)

TimeInv == ObjectsGoFirst /\ LookedAtOnce /\ SpentSoFar

LEMMA Sums ==
  \A n \in Nat : /\ TwiceSum(n) \in Nat
                 /\ TwiceSum(n + 1) = TwiceSum(n) + 2 * (n + 1)
  BY DEF TwiceSum

LEMMA SumsGrow ==
  ASSUME NEW m \in Nat, NEW n \in Nat, m <= n
  PROVE  TwiceSum(m) <= TwiceSum(n)
  <1>1. m * (m + 1) <= n * (n + 1)
    OBVIOUS
  <1>2. QED
    BY <1>1 DEF TwiceSum

LEMMA TwoSums ==
  ASSUME NEW n \in Nat, n > 0
  PROVE  TwiceSum(n - 1) + TwiceSum(n) = 2 * (n * n)
  BY DEF TwiceSum

LEMMA TimesTyped ==
  ASSUME TypeOK
  PROVE  FaultTime \in Nat /\ DeletionTime \in Nat /\ MAX_WAIT \in Nat /\ elapsed \in Nat
  BY Sums, ResetAssumption DEF TypeOK, FaultTime, DeletionTime

LEMMA FaultCosts ==
  ASSUME TypeOK, Fault
  PROVE  FaultTime' = FaultTime + 2 * (faults + 1)
  <1>1. faults \in Nat /\ faults' = faults + 1
    BY FaultSteps
  <1>2. QED
    BY <1>1, Sums DEF FaultTime

\* What the attempts at a deletion have cost is within what all would cost.
LEMMA AttemptCosts ==
  ASSUME TypeOK
  PROVE  /\ TwiceSum(attempt - 1) \in Nat
         /\ TwiceSum(attempt) = TwiceSum(attempt - 1) + 2 * attempt
         /\ TwiceSum(attempt) <= DeletionTime
         /\ TwiceSum(1 - 1) = 0
  <1>1. attempt \in Nat /\ attempt - 1 \in Nat /\ attempt <= MAX_RETRIES /\ MAX_RETRIES \in Nat
    BY ResetAssumption DEF TypeOK
  <1>2. attempt - 1 + 1 = attempt
    BY <1>1
  <1>3. TwiceSum(attempt) <= DeletionTime
    BY <1>1, SumsGrow DEF DeletionTime
  <1>4. TwiceSum(1 - 1) = 0
    BY DEF TwiceSum
  <1>5. QED
    BY <1>1, <1>2, <1>3, <1>4, Sums

LEMMA SurvivorsStay ==
  ASSUME ResetInv, [Next]_vars
  PROVE  /\ Survivors \subseteq Survivors' /\ stubborn' = stubborn
         /\ FewFaults' => FewFaults
         /\ OneSurvivor' => OneSurvivor
  <1>1. stubborn' = stubborn /\ swallowed \subseteq swallowed'
    BY DEF Next, ListBuckets, NextBucket, ListObjects, DeleteObjects, DeleteBucket, AwaitBucket,
       ListTables, NextTable, DeleteTable, AwaitTable, CheckTable, TimeOut, ResetOver,
       vars, backendVars, Swallow, DeleteObject
  <1>2. faults \in Nat /\ faults' \in Nat /\ faults <= faults' /\ MAX_RETRIES \in Nat
    BY FaultSteps, ResetAssumption
       DEF Next, ListBuckets, NextBucket, ListObjects, DeleteObjects, DeleteBucket, AwaitBucket,
       ListTables, NextTable, DeleteTable, AwaitTable, CheckTable, TimeOut, ResetOver,
       vars, backendVars, NoFault, DeleteObject, ResetInv, TypeOK
  <1>3. QED
    BY <1>1, <1>2 DEF Survivors, OneSurvivor, FewFaults

LEMMA StepsKeepObjects == ResetInv /\ TimeInv /\ [Next]_vars => ObjectsGoFirst'
  <1> SUFFICES ASSUME ResetInv, TimeInv, [Next]_vars PROVE ObjectsGoFirst'
    OBVIOUS
  <1>1. CASE ListBuckets
    BY <1>1, RetrySteps DEF ResetInv, Go, ObjectsGoFirst, ListBuckets
  <1>2. CASE NextBucket
    BY <1>2 DEF Go, ObjectsGoFirst, NextBucket
  <1>3. CASE ListObjects
    BY <1>3, RetrySteps DEF ResetInv, backendVars, ObjectsGoFirst, ListObjects, Swallow
  <1>4. CASE DeleteObjects
    BY <1>4, RetrySteps
       DEF ResetInv, TimeInv, TypeOK, InPlace, AtBucket, Call, ObjectsGoFirst, DeleteObjects,
           DeleteObject, Swallow
  <1>5. CASE DeleteBucket
    BY <1>5 DEF TimeInv, Call, ObjectsGoFirst, DeleteBucket
  <1>6. CASE AwaitBucket
    BY <1>6 DEF Call, Go, ObjectsGoFirst, AwaitBucket
  <1>7. CASE ListTables
    BY <1>7, RetrySteps DEF ResetInv, Go, ObjectsGoFirst, ListTables
  <1>8. CASE NextTable
    BY <1>8 DEF Go, ObjectsGoFirst, NextTable
  <1>9. CASE DeleteTable
    BY <1>9, RetrySteps DEF ResetInv, Go, ObjectsGoFirst, DeleteTable, StartWait
  <1>10. CASE AwaitTable
    BY <1>10, RetrySteps DEF ResetInv, Go, ObjectsGoFirst, AwaitTable
  <1>11. CASE CheckTable
    BY <1>11, RetrySteps DEF ResetInv, Go, ObjectsGoFirst, CheckTable
  <1>12. CASE TimeOut
    BY <1>12 DEF ObjectsGoFirst, TimeOut
  <1>13. CASE ResetOver
    BY <1>13 DEF Ended, ObjectsGoFirst, ResetOver, vars
  <1>14. CASE UNCHANGED vars
    BY <1>14 DEF vars, TimeInv, backendVars, ObjectsGoFirst
  <1>15. QED
    BY <1>1, <1>2, <1>3, <1>4, <1>5, <1>6, <1>7, <1>8, <1>9, <1>10, <1>11, <1>12, <1>13, <1>14
       DEF Next

LEMMA StepsKeepOnce == ResetInv /\ TimeInv /\ [Next]_vars => LookedAtOnce'
  <1> SUFFICES ASSUME ResetInv, TimeInv, [Next]_vars PROVE LookedAtOnce'
    OBVIOUS
  <1>1. CASE ListBuckets
    BY <1>1, RetrySteps DEF ResetInv, AtBucket, AtTable, Go, LookedAtOnce, ListBuckets
  <1>2. CASE NextBucket
    BY <1>2 DEF Go, LookedAtOnce, NextBucket
  <1>3. CASE ListObjects
    BY <1>3, RetrySteps DEF ResetInv, TimeInv, AtBucket, Call, Go, LookedAtOnce, ListObjects
  <1>4. CASE DeleteObjects
    BY <1>4, RetrySteps
       DEF ResetInv, TimeInv, AtBucket, Call, Go, LookedAtOnce, DeleteObjects, DeleteObject
  <1>5. CASE DeleteBucket
    BY <1>5, RetrySteps, FaultSteps
       DEF ResetInv, TimeInv, TypeOK, AtBucket, Ended, Call, Go, LookedAtOnce, ObjectsGoFirst,
           Survivors, RetriesAreFaults, Refused, DeleteBucket, StartWait
  <1>6. CASE AwaitBucket
    BY <1>6
       DEF TimeInv, AtBucket, Call, Go, NoFault, backendVars, LookedAtOnce, Survivors,
           FewFaults, AwaitBucket
  <1>7. CASE ListTables
    BY <1>7, RetrySteps DEF ResetInv, AtBucket, AtTable, Go, LookedAtOnce, ListTables
  <1>8. CASE NextTable
    BY <1>8 DEF Go, LookedAtOnce, NextTable
  <1>9. CASE DeleteTable
    BY <1>9, RetrySteps, FaultSteps
       DEF ResetInv, TimeInv, TypeOK, AtTable, Ended, Call, Go, LookedAtOnce, Survivors,
           RetriesAreFaults, Refused, DeleteTable, StartWait
  <1>10. CASE AwaitTable
    BY <1>10, RetrySteps, SurvivorsStay
       DEF ResetInv, TimeInv, AtTable, Call, Go, backendVars, LookedAtOnce, AwaitTable
  <1>11. CASE CheckTable
    BY <1>11, RetrySteps DEF ResetInv, TimeInv, AtTable, Call, Go, LookedAtOnce, CheckTable
  <1>12. CASE TimeOut
    BY <1>12 DEF AtBucket, AtTable, LookedAtOnce, TimeOut
  <1>13. CASE ResetOver
    BY <1>13 DEF AtBucket, AtTable, Ended, LookedAtOnce, ResetOver, vars
  <1>14. CASE UNCHANGED vars
    BY <1>14 DEF vars, TimeInv, backendVars, LookedAtOnce, Survivors, FewFaults
  <1>15. QED
    BY <1>1, <1>2, <1>3, <1>4, <1>5, <1>6, <1>7, <1>8, <1>9, <1>10, <1>11, <1>12, <1>13, <1>14
       DEF Next

\* What a step takes is paid by the fault it meets.
PaidByFaults == 2 * (elapsed' - elapsed) <= FaultTime' - FaultTime

LEMMA NothingToPay ==
  ASSUME UNCHANGED <<elapsed, faults>>, TypeOK
  PROVE  PaidByFaults
  BY TimesTyped DEF PaidByFaults, FaultTime

LEMMA FaultsPay ==
  ASSUME TypeOK, Fault,
         \/ elapsed' = elapsed
         \/ elapsed' = elapsed + 1
         \/ elapsed' = elapsed + attempt /\ attempt <= faults + 1
  PROVE  PaidByFaults
  <1>1. faults \in Nat /\ attempt \in Nat /\ elapsed \in Nat
    BY ResetAssumption DEF TypeOK
  <1>2. elapsed' - elapsed <= faults + 1
    BY <1>1
  <1>3. QED
    BY <1>1, <1>2, FaultCosts, TimesTyped DEF PaidByFaults

LEMMA PaidTime ==
  ASSUME TypeOK, TypeOK', PaidByFaults, NEW x \in Nat, NEW y \in Nat, x <= y, SleptWithin(x)
  PROVE  SleptWithin(y)'
  <1>1. FaultTime' \in Nat /\ elapsed' \in Nat
    BY Sums DEF FaultTime, TypeOK
  <1>2. FaultTime \in Nat /\ elapsed \in Nat
    BY TimesTyped
  <1>3. PICK e \in Nat, f \in Nat : e = elapsed' /\ f = FaultTime'
    BY <1>1, Zenon
  <1>4. 2 * (e - elapsed) <= f - FaultTime /\ 2 * elapsed <= FaultTime + x
    BY <1>3, Zenon DEF PaidByFaults, SleptWithin
  <1>5. 2 * e <= f + y
    BY <1>2, <1>4
  <1>6. QED
    BY <1>3, <1>5, Zenon DEF SleptWithin

\* A step that is paid for keeps the account, if what it comes to had been on it
\* for no more.
LEMMA PaidSteps ==
  ASSUME ResetInv, TimeInv, TypeOK', PaidByFaults, FewFaults, OneSurvivor, at' # "killed",
         at' \notin Ended /\ Survivors' \subseteq ToCome'
                  => at \notin Ended /\ Survivors \subseteq ToCome,
         at' \in {"list_objects", "delete_objects", "delete_bucket", "delete_table"}
                  /\ current' \in Survivors'
           => SleptWithin(0),
         at' \in {"await_bucket", "await_table"} => current' \notin Survivors'
  PROVE  SpentSoFar'
  <1>1. TypeOK /\ SpentSoFar
    BY DEF ResetInv, TimeInv
  <1>2. SleptWithin(DeletionTime + 2 * MAX_WAIT)'
    <2>1. DeletionTime + 2 * MAX_WAIT \in Nat
      BY <1>1, TimesTyped
    <2>2. SleptWithin(DeletionTime + 2 * MAX_WAIT)
      BY <1>1 DEF SpentSoFar
    <2>3. QED
      BY <1>1, <2>1, <2>2, PaidTime
  <1>3. SleptWithin(0) => SleptWithin(0)'
    BY <1>1, PaidTime, 0 \in Nat
  <1>4. SleptWithin(0) => SleptWithin(TwiceSum(attempt - 1))'
    <2>0. PICK b \in 1..MAX_RETRIES : b = attempt'
      BY DEF TypeOK
    <2>1. PICK a \in Nat : a = b - 1
      BY ResetAssumption
    <2>2. TwiceSum(a) \in Nat /\ 0 <= TwiceSum(a)
      BY Sums
    <2>3. SleptWithin(0) => SleptWithin(TwiceSum(a))'
      BY <1>1, <2>2, PaidTime
    <2>4. QED
      BY <2>0, <2>1, <2>3, Zenon DEF SleptWithin
  <1>5. at' \notin Ended /\ Survivors' \subseteq ToCome' => SleptWithin(0)'
    BY <1>1, <1>3 DEF SpentSoFar
  <1>6. QED
    BY <1>2, <1>3, <1>4, <1>5 DEF SpentSoFar

\* Faults only add to what may have been slept.
LEMMA FaultsAdd ==
  ASSUME TypeOK, faults' = faults \/ Fault
  PROVE  FaultTime' \in Nat /\ FaultTime <= FaultTime'
  <1>1. CASE faults' = faults
    BY <1>1, TimesTyped DEF FaultTime
  <1>2. CASE Fault
    <2>1. FaultTime' = FaultTime + 2 * (faults + 1) /\ faults \in Nat /\ FaultTime \in Nat
      BY <1>2, FaultCosts, FaultSteps, TimesTyped
    <2>2. PICK f \in Nat : f = FaultTime + 2 * (faults + 1)
      BY <2>1
    <2>3. FaultTime <= f
      BY <2>1, <2>2
    <2>4. QED
      BY <2>1, <2>2, <2>3, Zenon
  <1>3. QED
    BY <1>1, <1>2

\* Sleep of d, not paid by a fault.
LEMMA UnpaidTime ==
  ASSUME TypeOK, faults' = faults \/ Fault, NEW d \in Nat, elapsed' = elapsed + d,
         NEW x \in Nat, NEW y \in Nat, x + 2 * d <= y, SleptWithin(x)
  PROVE  SleptWithin(y)'
  <1>1. PICK f \in Nat : f = FaultTime'
    BY FaultsAdd
  <1>2. FaultTime <= f
    BY <1>1, FaultsAdd, Zenon
  <1>3. 2 * (elapsed + d) <= f + y
    BY <1>2, TimesTyped DEF SleptWithin
  <1>4. QED
    BY <1>1, <1>3, Zenon DEF SleptWithin

\* What is slept between the attempts to delete a survivor.
LEMMA DeletionSteps ==
  ASSUME TypeOK, TypeOK', SleptWithin(TwiceSum(attempt - 1)), ~(Survivors' \subseteq ToCome'),
         faults' = faults \/ Fault,
         elapsed' = elapsed \/ elapsed' = elapsed + attempt,
         \/ at' \in {"delete_bucket", "delete_table"} /\ attempt' = attempt + 1
         \/ at' \in {"await_bucket", "await_table"} /\ attempt' = 1 /\ t0' = elapsed'
  PROVE  SpentSoFar'
  <1>0. attempt \in Nat /\ MAX_WAIT \in Nat /\ DeletionTime \in Nat /\ elapsed \in Nat
    BY ResetAssumption, TimesTyped DEF TypeOK
  <1>1. PICK d \in Nat : d <= attempt /\ elapsed' = elapsed + d
    BY <1>0
  <1>2. PICK x \in Nat : /\ x = TwiceSum(attempt - 1)
                         /\ x + 2 * attempt <= DeletionTime
                         /\ TwiceSum(attempt) = x + 2 * attempt
    BY <1>0, AttemptCosts
  <1>3. ASSUME NEW y \in Nat, x + 2 * attempt <= y PROVE SleptWithin(y)'
    <2>1. x + 2 * d <= y
      BY <1>0, <1>1, <1>3
    <2>2. QED
      BY <1>1, <1>2, <2>1, UnpaidTime
  <1>4. SleptWithin(DeletionTime + 2 * MAX_WAIT)'
    BY <1>0, <1>2, <1>3, DeletionTime + 2 * MAX_WAIT \in Nat
  <1>5. ASSUME at' \in {"delete_bucket", "delete_table"}
        PROVE  SleptWithin(TwiceSum(attempt - 1))'
    <2>1. attempt' = attempt + 1
      BY <1>5
    <2>2. attempt' - 1 = attempt
      BY <1>0, <2>1
    <2>3. PICK y \in Nat : y = TwiceSum(attempt)
      BY <1>0, <1>2
    <2>4. SleptWithin(y)'
      BY <1>2, <1>3, <2>3
    <2>5. QED
      BY <2>2, <2>3, <2>4, Zenon DEF SleptWithin
  <1>6. ASSUME at' \in {"await_bucket", "await_table"}
        PROVE  \E w \in 0..MAX_WAIT : Waited(w)'
    <2>1. SleptWithin(DeletionTime + 2 * 0)'
      BY <1>0, <1>2, <1>3, DeletionTime + 2 * 0 \in Nat
    <2>2. PICK e \in Nat : e = elapsed' /\ e = t0'
      BY <1>6 DEF TypeOK
    <2>3. 0 <= e - e
      OBVIOUS
    <2>4. attempt' = 1 /\ ~(1 > 1)
      BY <1>6
    <2>5. Waited(0)'
      BY <2>1, <2>2, <2>3, <2>4, Zenon DEF Waited
    <2>6. QED
      BY <1>0, <2>5
  <1>7. at' \notin {"killed", "list_objects", "delete_objects"}
    OBVIOUS
  <1>8. QED
    BY <1>4, <1>5, <1>6, <1>7 DEF SpentSoFar

\* What is slept while a survivor is waited for: a poll, or a fault.
LEMMA WaitSteps ==
  ASSUME TypeOK, TypeOK', ~(Survivors' \subseteq ToCome'), NEW w \in 0..MAX_WAIT, Waited(w),
         at' \in {"await_bucket", "await_table"}, t0' = t0, w < MAX_WAIT,
         \/ faults' = faults /\ elapsed' = elapsed + 1 /\ attempt' = 1
         \/ PaidByFaults /\ \E d \in Nat : elapsed' = elapsed + d
  PROVE  SpentSoFar'
  <1>0. /\ MAX_WAIT \in Nat /\ DeletionTime \in Nat /\ elapsed \in Nat /\ t0 \in Nat /\ w \in Nat
        /\ w <= elapsed - t0 /\ SleptWithin(DeletionTime + 2 * w)
    BY TimesTyped DEF TypeOK, Waited
  <1>1. ASSUME NEW v \in Nat, v <= MAX_WAIT, SleptWithin(DeletionTime + 2 * v)'
        PROVE  SleptWithin(DeletionTime + 2 * MAX_WAIT)'
    <2>0. FaultTime' \in Nat /\ elapsed' \in Nat
      BY Sums DEF TypeOK, FaultTime
    <2>1. PICK e \in Nat, f \in Nat : e = elapsed' /\ f = FaultTime'
      BY <2>0, Zenon
    <2>2. 2 * e <= f + (DeletionTime + 2 * v)
      BY <1>1, <2>1, Zenon DEF SleptWithin
    <2>3. 2 * e <= f + (DeletionTime + 2 * MAX_WAIT)
      BY <1>0, <1>1, <2>2
    <2>4. QED
      BY <2>1, <2>3, Zenon DEF SleptWithin
  <1>2. CASE faults' = faults /\ elapsed' = elapsed + 1 /\ attempt' = 1
    <2>1. SleptWithin(DeletionTime + 2 * (w + 1))'
      <3>1. DeletionTime + 2 * w + 2 * 1 <= DeletionTime + 2 * (w + 1)
        BY <1>0
      <3>2. DeletionTime + 2 * w \in Nat /\ DeletionTime + 2 * (w + 1) \in Nat
        BY <1>0
      <3>3. QED
        BY <1>0, <1>2, <3>1, <3>2, UnpaidTime, 1 \in Nat
    <2>2. w + 1 \in 0..MAX_WAIT
      BY <1>0
    <2>3. w + 1 <= elapsed' - t0'
      BY <1>0, <1>2
    <2>4. attempt' = 1 /\ ~(1 > 1)
      BY <1>2
    <2>5. Waited(w + 1)'
      BY <2>1, <2>3, <2>4, Zenon DEF Waited
    <2>6. SleptWithin(DeletionTime + 2 * MAX_WAIT)'
      BY <1>0, <1>1, <2>1, <2>2
    <2>7. QED
      BY <2>2, <2>5, <2>6 DEF SpentSoFar
  <1>3. CASE PaidByFaults /\ \E d \in Nat : elapsed' = elapsed + d
    <2>1. SleptWithin(DeletionTime + 2 * w)'
      BY <1>0, <1>3, PaidTime, DeletionTime + 2 * w \in Nat
    <2>2. w <= elapsed' - t0'
      BY <1>0, <1>3
    <2>3. Waited(w)'
      BY <2>1, <2>2 DEF Waited
    <2>4. SleptWithin(DeletionTime + 2 * MAX_WAIT)'
      BY <1>0, <1>1, <2>1
    <2>5. QED
      BY <2>3, <2>4 DEF SpentSoFar
  <1>4. QED
    BY <1>2, <1>3

LEMMA StepsKeepTime ==
  ASSUME MAX_RETRIES * MAX_RETRIES + MAX_WAIT < Limit
  PROVE  ResetInv /\ TimeInv /\ [Next]_vars => SpentSoFar'
  <1> SUFFICES ASSUME ResetInv, TimeInv, [Next]_vars, FewFaults', OneSurvivor' PROVE SpentSoFar'
    BY DEF SpentSoFar
  <1>0. FewFaults /\ OneSurvivor /\ Survivors \subseteq Survivors' /\ TypeOK /\ TypeOK' /\ SpentSoFar
    BY SurvivorsStay, StepsKeepTypes DEF ResetInv, TimeInv
  <1>1. CASE ListBuckets
    <2>1. PaidByFaults
      BY <1>0, <1>1, NothingToPay, FaultsPay, RetrySteps
         DEF ResetInv, RetriesAreFaults, Refused, Ended, Retry, Call, Go, NoFault, ListBuckets
    <2>2. at' # "killed"
      BY <1>0, <1>1, RetrySteps DEF Go, ListBuckets, SpentSoFar
    <2>3. at' \notin Ended /\ Survivors' \subseteq ToCome'
             => at \notin Ended /\ Survivors \subseteq ToCome
      BY <1>0, <1>1, RetrySteps
         DEF ResetInv, TypeOK, InPlace, AtBucket, AtTable, Ended, Call, Go, NoFault,
             backendVars, ToCome, Survivors, Resources, ListBuckets
    <2>4. at' \in {"list_objects", "delete_objects", "delete_bucket", "delete_table"}
             /\ current' \in Survivors'
             => SleptWithin(0)
      BY <1>0, <1>1, RetrySteps
         DEF ResetInv, TypeOK, InPlace, AtBucket, AtTable, Ended, Call, Go, NoFault,
             backendVars, ToCome, Survivors, Resources, SpentSoFar, OneSurvivor, ListBuckets
    <2>5. at' \in {"await_bucket", "await_table"} => current' \notin Survivors'
      BY <1>0, <1>1, RetrySteps DEF Go, Call, ListBuckets
    <2>6. QED
      BY <1>0, <2>1, <2>2, <2>3, <2>4, <2>5, PaidSteps
  <1>2. CASE NextBucket
    <2>1. PaidByFaults
      BY <1>0, <1>2, NothingToPay, FaultsPay, RetrySteps
         DEF ResetInv, RetriesAreFaults, Refused, Ended, Retry, Call, Go, NoFault, NextBucket
    <2>2. at' # "killed"
      BY <1>0, <1>2, RetrySteps DEF Go, NextBucket, SpentSoFar
    <2>3. at' \notin Ended /\ Survivors' \subseteq ToCome'
             => at \notin Ended /\ Survivors \subseteq ToCome
      BY <1>0, <1>2, RetrySteps
         DEF ResetInv, TypeOK, InPlace, AtBucket, AtTable, Ended, Call, Go, NoFault,
             backendVars, ToCome, Survivors, Resources, NextBucket
    <2>4. at' \in {"list_objects", "delete_objects", "delete_bucket", "delete_table"}
             /\ current' \in Survivors'
             => SleptWithin(0)
      BY <1>0, <1>2, RetrySteps
         DEF ResetInv, TypeOK, InPlace, AtBucket, AtTable, Ended, Call, Go, NoFault,
             backendVars, ToCome, Survivors, Resources, SpentSoFar, OneSurvivor, NextBucket
    <2>5. at' \in {"await_bucket", "await_table"} => current' \notin Survivors'
      BY <1>0, <1>2, RetrySteps DEF Go, Call, NextBucket
    <2>6. QED
      BY <1>0, <2>1, <2>2, <2>3, <2>4, <2>5, PaidSteps
  <1>3. CASE ListObjects
    <2>1. PaidByFaults
      BY <1>0, <1>3, NothingToPay, FaultsPay, RetrySteps
         DEF ResetInv, RetriesAreFaults, Refused, Ended, Retry, Call, Go, NoFault, ListObjects,
             Swallow
    <2>2. at' # "killed"
      BY <1>0, <1>3, RetrySteps DEF Go, ListObjects, Swallow, SpentSoFar
    <2>3. at' \notin Ended /\ Survivors' \subseteq ToCome'
             => at \notin Ended /\ Survivors \subseteq ToCome
      BY <1>0, <1>3, RetrySteps
         DEF ResetInv, TypeOK, InPlace, AtBucket, AtTable, Ended, Call, Go, NoFault,
             backendVars, ToCome, Survivors, Resources, ListObjects, Swallow
    <2>4. at' \in {"list_objects", "delete_objects", "delete_bucket", "delete_table"}
             /\ current' \in Survivors'
             => SleptWithin(0)
      BY <1>0, <1>3, RetrySteps
         DEF ResetInv, TypeOK, InPlace, AtBucket, AtTable, Ended, Call, Go, NoFault,
             backendVars, ToCome, Survivors, Resources, SpentSoFar, OneSurvivor, ListObjects,
             Swallow
    <2>5. at' \in {"await_bucket", "await_table"} => current' \notin Survivors'
      BY <1>0, <1>3, RetrySteps DEF Go, Call, ListObjects, Swallow
    <2>6. QED
      BY <1>0, <2>1, <2>2, <2>3, <2>4, <2>5, PaidSteps
  <1>4. CASE DeleteObjects
    <2>1. PaidByFaults
      BY <1>0, <1>4, NothingToPay, FaultsPay, RetrySteps
         DEF ResetInv, RetriesAreFaults, Refused, Ended, Retry, Call, Go, NoFault,
             DeleteObjects, DeleteObject, Swallow
    <2>2. at' # "killed"
      BY <1>0, <1>4, RetrySteps DEF Go, DeleteObjects, DeleteObject, Swallow, SpentSoFar
    <2>3. at' \notin Ended /\ Survivors' \subseteq ToCome'
             => at \notin Ended /\ Survivors \subseteq ToCome
      BY <1>0, <1>4, RetrySteps
         DEF ResetInv, TypeOK, InPlace, AtBucket, AtTable, Ended, Call, Go, NoFault,
             backendVars, ToCome, Survivors, Resources, DeleteObjects, DeleteObject, Swallow
    <2>4. at' \in {"list_objects", "delete_objects", "delete_bucket", "delete_table"}
             /\ current' \in Survivors'
             => SleptWithin(0)
      BY <1>0, <1>4, RetrySteps
         DEF ResetInv, TypeOK, InPlace, AtBucket, AtTable, Ended, Call, Go, NoFault,
             backendVars, ToCome, Survivors, Resources, SpentSoFar, OneSurvivor, DeleteObjects,
             DeleteObject, Swallow
    <2>5. at' \in {"await_bucket", "await_table"} => current' \notin Survivors'
      BY <1>0, <1>4, RetrySteps DEF Go, Call, DeleteObjects, DeleteObject, Swallow
    <2>6. QED
      BY <1>0, <2>1, <2>2, <2>3, <2>4, <2>5, PaidSteps
  <1>5. CASE DeleteBucket
    <2>1. /\ at = "delete_bucket" /\ at' \in {"delete_bucket", "await_bucket"}
          /\ current' = current /\ Survivors' = Survivors /\ ToCome' = ToCome
      BY <1>0, <1>5, RetrySteps
         DEF Call, Go, Ended, backendVars, ToCome, Survivors, AtBucket, AtTable, DeleteBucket,
             StartWait, AfterBucket
    <2>2. CASE current \notin Survivors
      <3>1. ~Refused
        BY <2>1, <2>2 DEF TimeInv, ObjectsGoFirst, Refused, Survivors
      <3>2. PaidByFaults
        BY <1>0, <1>5, <2>1, <3>1, NothingToPay, FaultsPay
           DEF ResetInv, RetriesAreFaults, Refused, Ended, Retry, NoFault, DeleteBucket,
               StartWait, AfterBucket
      <3>3. QED
        BY <1>0, <2>1, <2>2, <3>2, PaidSteps DEF Ended
    <2>3. CASE current \in Survivors
      <3>1. ~(Survivors' \subseteq ToCome')
        BY <2>1, <2>3, ResetAssumption
           DEF ResetInv, InPlace, TimeInv, LookedAtOnce, ToCome, AtBucket, AtTable
      <3>2. SleptWithin(TwiceSum(attempt - 1))
        BY <1>0, <2>1, <2>3 DEF SpentSoFar
      <3>3. /\ faults' = faults \/ Fault
            /\ elapsed' = elapsed \/ elapsed' = elapsed + attempt
        BY <1>5 DEF Retry, NoFault, DeleteBucket, StartWait, AfterBucket
      <3>4. \/ at' = "delete_bucket" /\ attempt' = attempt + 1
            \/ at' = "await_bucket" /\ attempt' = 1 /\ t0' = elapsed'
        BY <1>0, <1>5, RetrySteps DEF Go, DeleteBucket, StartWait, AfterBucket
      <3>5. QED
        BY <1>0, <3>1, <3>2, <3>3, <3>4, DeletionSteps
    <2>4. QED
      BY <2>2, <2>3
  <1>6. CASE AwaitBucket
    <2>1. at = "await_bucket" /\ UNCHANGED <<current, t0>> /\ Survivors' = Survivors
      BY <1>6 DEF Call, Survivors, backendVars, AwaitBucket, WaitOver
    <2>2. \/ at' = "await_bucket" /\ ToCome' = ToCome
          \/ at' = "next_bucket" /\ ToCome' = ToCome
      BY <1>0, <1>6, <2>1, RetrySteps
         DEF Go, Ended, ToCome, AtBucket, AtTable, AwaitBucket, WaitOver
    <2>3. CASE current \notin Survivors \/ at' # "await_bucket"
      <3>1. PaidByFaults
        BY <1>0, <1>6, <2>1, <2>3, NothingToPay, FaultsPay
           DEF ResetInv, RetriesAreFaults, Refused, Ended, TimeInv, LookedAtOnce, Go, Retry,
               NoFault, AwaitBucket, WaitOver
      <3>2. QED
        BY <1>0, <2>1, <2>2, <2>3, <3>1, PaidSteps DEF Ended
    <2>4. CASE current \in Survivors /\ at' = "await_bucket"
      <3>1. ~(Survivors' \subseteq ToCome')
        BY <2>1, <2>2, <2>4, ResetAssumption
           DEF ResetInv, InPlace, TimeInv, LookedAtOnce, ToCome, AtBucket, AtTable
      <3>2. PICK w \in 0..MAX_WAIT : Waited(w)
        BY <1>0, <2>1, <2>4 DEF SpentSoFar
      <3>3. w < MAX_WAIT
        BY <1>0, <1>6, <2>1, <2>4, <3>2, TimesTyped
           DEF Waited, Go, TypeOK, TimeInv, LookedAtOnce, AwaitBucket, WaitOver
      <3>4. \/ faults' = faults /\ elapsed' = elapsed + 1 /\ attempt' = 1
            \/ PaidByFaults /\ \E d \in Nat : elapsed' = elapsed + d
        <4>1. attempt \in Nat /\ 1 \in Nat
          BY <1>0, ResetAssumption DEF TypeOK
        <4>2. Fault => PaidByFaults
          BY <1>0, <1>6, <2>1, <2>4, FaultsPay
             DEF ResetInv, RetriesAreFaults, Refused, Ended, Go, Retry, NoFault, AwaitBucket,
                 WaitOver
        <4>3. QED
          BY <1>6, <2>1, <2>4, <4>1, <4>2
             DEF Go, Retry, NoFault, TimeInv, LookedAtOnce, AwaitBucket, WaitOver
      <3>5. QED
        BY <1>0, <2>1, <2>4, <3>1, <3>2, <3>3, <3>4, WaitSteps
    <2>5. QED
      BY <2>3, <2>4
  <1>7. CASE ListTables
    <2>1. PaidByFaults
      BY <1>0, <1>7, NothingToPay, FaultsPay, RetrySteps
         DEF ResetInv, RetriesAreFaults, Refused, Ended, Retry, Call, Go, NoFault, ListTables
    <2>2. at' # "killed"
      BY <1>0, <1>7, RetrySteps DEF Go, ListTables, SpentSoFar
    <2>3. at' \notin Ended /\ Survivors' \subseteq ToCome'
             => at \notin Ended /\ Survivors \subseteq ToCome
      BY <1>0, <1>7, RetrySteps
         DEF ResetInv, TypeOK, InPlace, AtBucket, AtTable, Ended, Call, Go, NoFault,
             backendVars, ToCome, Survivors, Resources, ListTables
    <2>4. at' \in {"list_objects", "delete_objects", "delete_bucket", "delete_table"}
             /\ current' \in Survivors'
             => SleptWithin(0)
      BY <1>0, <1>7, RetrySteps
         DEF ResetInv, TypeOK, InPlace, AtBucket, AtTable, Ended, Call, Go, NoFault,
             backendVars, ToCome, Survivors, Resources, SpentSoFar, OneSurvivor, ListTables
    <2>5. at' \in {"await_bucket", "await_table"} => current' \notin Survivors'
      BY <1>0, <1>7, RetrySteps DEF Go, Call, ListTables
    <2>6. QED
      BY <1>0, <2>1, <2>2, <2>3, <2>4, <2>5, PaidSteps
  <1>8. CASE NextTable
    <2>1. PaidByFaults
      BY <1>0, <1>8, NothingToPay, FaultsPay, RetrySteps
         DEF ResetInv, RetriesAreFaults, Refused, Ended, Retry, Call, Go, NoFault, NextTable
    <2>2. at' # "killed"
      BY <1>0, <1>8, RetrySteps DEF Go, NextTable, SpentSoFar
    <2>3. at' \notin Ended /\ Survivors' \subseteq ToCome'
             => at \notin Ended /\ Survivors \subseteq ToCome
      BY <1>0, <1>8, RetrySteps
         DEF ResetInv, TypeOK, InPlace, AtBucket, AtTable, Ended, Call, Go, NoFault,
             backendVars, ToCome, Survivors, Resources, NextTable
    <2>4. at' \in {"list_objects", "delete_objects", "delete_bucket", "delete_table"}
             /\ current' \in Survivors'
             => SleptWithin(0)
      BY <1>0, <1>8, RetrySteps
         DEF ResetInv, TypeOK, InPlace, AtBucket, AtTable, Ended, Call, Go, NoFault,
             backendVars, ToCome, Survivors, Resources, SpentSoFar, OneSurvivor, NextTable
    <2>5. at' \in {"await_bucket", "await_table"} => current' \notin Survivors'
      BY <1>0, <1>8, RetrySteps DEF Go, Call, NextTable
    <2>6. QED
      BY <1>0, <2>1, <2>2, <2>3, <2>4, <2>5, PaidSteps
  <1>9. CASE DeleteTable
    <2>1. /\ at = "delete_table" /\ at' \in {"delete_table", "await_table"}
          /\ current' = current /\ Survivors' = Survivors /\ ToCome' = ToCome
      BY <1>0, <1>9, RetrySteps
         DEF Call, Go, Ended, backendVars, ToCome, Survivors, AtBucket, AtTable, DeleteTable,
             StartWait
    <2>2. CASE current \notin Survivors
      <3>1. ~Refused
        BY <2>1, <2>2 DEF TimeInv, ObjectsGoFirst, Refused, Survivors
      <3>2. PaidByFaults
        BY <1>0, <1>9, <2>1, <3>1, NothingToPay, FaultsPay
           DEF ResetInv, RetriesAreFaults, Refused, Ended, Retry, NoFault, DeleteTable,
               StartWait
      <3>3. QED
        BY <1>0, <2>1, <2>2, <3>2, PaidSteps DEF Ended
    <2>3. CASE current \in Survivors
      <3>1. ~(Survivors' \subseteq ToCome')
        BY <2>1, <2>3, ResetAssumption
           DEF ResetInv, InPlace, TimeInv, LookedAtOnce, ToCome, AtBucket, AtTable
      <3>2. SleptWithin(TwiceSum(attempt - 1))
        BY <1>0, <2>1, <2>3 DEF SpentSoFar
      <3>3. /\ faults' = faults \/ Fault
            /\ elapsed' = elapsed \/ elapsed' = elapsed + attempt
        BY <1>9 DEF Retry, NoFault, DeleteTable, StartWait
      <3>4. \/ at' = "delete_table" /\ attempt' = attempt + 1
            \/ at' = "await_table" /\ attempt' = 1 /\ t0' = elapsed'
        BY <1>0, <1>9, RetrySteps DEF Go, DeleteTable, StartWait
      <3>5. QED
        BY <1>0, <3>1, <3>2, <3>3, <3>4, DeletionSteps
    <2>4. QED
      BY <2>2, <2>3
  <1>10. CASE AwaitTable
    <2>1. at = "await_table" /\ UNCHANGED <<current, t0>> /\ Survivors' = Survivors
      BY <1>10 DEF Call, Survivors, backendVars, AwaitTable, WaitOver
    <2>2. \/ at' = "await_table" /\ ToCome' = ToCome
          \/ at' = "check_table" /\ ToCome' = ToCome
          \/ at' = "aborted"
      BY <1>0, <1>10, <2>1, RetrySteps
         DEF Go, Ended, ToCome, AtBucket, AtTable, AwaitTable, WaitOver
    <2>3. CASE current \notin Survivors \/ at' # "await_table"
      <3>1. PaidByFaults
        BY <1>0, <1>10, <2>1, <2>3, NothingToPay, FaultsPay
           DEF ResetInv, RetriesAreFaults, Refused, Ended, TimeInv, LookedAtOnce, Go, Retry,
               NoFault, AwaitTable, WaitOver
      <3>2. QED
        BY <1>0, <2>1, <2>2, <2>3, <3>1, PaidSteps DEF Ended
    <2>4. CASE current \in Survivors /\ at' = "await_table"
      <3>1. ~(Survivors' \subseteq ToCome')
        BY <2>1, <2>2, <2>4, ResetAssumption
           DEF ResetInv, InPlace, TimeInv, LookedAtOnce, ToCome, AtBucket, AtTable
      <3>2. PICK w \in 0..MAX_WAIT : Waited(w)
        BY <1>0, <2>1, <2>4 DEF SpentSoFar
      <3>3. w < MAX_WAIT
        BY <1>0, <1>10, <2>1, <2>4, <3>2, TimesTyped
           DEF Waited, Go, TypeOK, TimeInv, LookedAtOnce, AwaitTable, WaitOver
      <3>4. \/ faults' = faults /\ elapsed' = elapsed + 1 /\ attempt' = 1
            \/ PaidByFaults /\ \E d \in Nat : elapsed' = elapsed + d
        <4>1. attempt \in Nat /\ 1 \in Nat
          BY <1>0, ResetAssumption DEF TypeOK
        <4>2. Fault => PaidByFaults
          BY <1>0, <1>10, <2>1, <2>4, FaultsPay
             DEF ResetInv, RetriesAreFaults, Refused, Ended, Go, Retry, NoFault, AwaitTable,
                 WaitOver
        <4>3. QED
          BY <1>10, <2>1, <2>4, <4>1, <4>2
             DEF Go, Retry, NoFault, TimeInv, LookedAtOnce, AwaitTable, WaitOver
      <3>5. QED
        BY <1>0, <2>1, <2>4, <3>1, <3>2, <3>3, <3>4, WaitSteps
    <2>5. QED
      BY <2>3, <2>4
  <1>11. CASE CheckTable
    <2>1. PaidByFaults
      BY <1>0, <1>11, NothingToPay, FaultsPay, RetrySteps
         DEF ResetInv, RetriesAreFaults, Refused, Ended, Retry, Call, Go, NoFault, CheckTable
    <2>2. at' # "killed"
      BY <1>0, <1>11, RetrySteps DEF Go, CheckTable, SpentSoFar
    <2>3. at' \notin Ended /\ Survivors' \subseteq ToCome'
             => at \notin Ended /\ Survivors \subseteq ToCome
      BY <1>0, <1>11, RetrySteps
         DEF ResetInv, TypeOK, InPlace, AtBucket, AtTable, Ended, Call, Go, NoFault,
             backendVars, ToCome, Survivors, Resources, CheckTable
    <2>4. at' \in {"list_objects", "delete_objects", "delete_bucket", "delete_table"}
             /\ current' \in Survivors'
             => SleptWithin(0)
      BY <1>0, <1>11, RetrySteps
         DEF ResetInv, TypeOK, InPlace, AtBucket, AtTable, Ended, Call, Go, NoFault,
             backendVars, ToCome, Survivors, Resources, SpentSoFar, OneSurvivor, CheckTable
    <2>5. at' \in {"await_bucket", "await_table"} => current' \notin Survivors'
      BY <1>0, <1>11, RetrySteps DEF Go, Call, CheckTable
    <2>6. QED
      BY <1>0, <2>1, <2>2, <2>3, <2>4, <2>5, PaidSteps
  <1>12. CASE TimeOut
    <2>1. SleptWithin(DeletionTime + 2 * MAX_WAIT) /\ Limit <= elapsed
      BY <1>0, <1>12 DEF SpentSoFar, TimeOut, TypeOK
    <2>2. faults \in Nat /\ MAX_RETRIES \in Nat /\ faults <= MAX_RETRIES - 1 /\ MAX_RETRIES - 1 \in Nat
      BY <1>0, ResetAssumption DEF TypeOK, FewFaults
    <2>3. FaultTime <= TwiceSum(MAX_RETRIES - 1)
      BY <2>2, SumsGrow DEF FaultTime
    <2>4. TwiceSum(MAX_RETRIES - 1) + DeletionTime = 2 * (MAX_RETRIES * MAX_RETRIES)
      BY <2>2, TwoSums DEF DeletionTime
    <2>5. PICK s \in Nat : s = MAX_RETRIES * MAX_RETRIES
      BY <2>2
    <2>6. 2 * elapsed <= 2 * s + 2 * MAX_WAIT
      BY <1>0, <2>1, <2>2, <2>3, <2>4, <2>5, TimesTyped, Sums DEF SleptWithin
    <2>7. s + MAX_WAIT < Limit
      BY <2>5
    <2>8. QED
      BY <1>0, <2>1, <2>6, <2>7, TimesTyped, ResetAssumption
  <1>13. CASE UNCHANGED vars
    BY <1>0, <1>13
       DEF vars, backendVars, SpentSoFar, ToCome, Survivors, SleptWithin, FaultTime, Waited
  <1>14. QED
    BY <1>1, <1>2, <1>3, <1>4, <1>5, <1>6, <1>7, <1>8, <1>9, <1>10, <1>11, <1>12, <1>13
       DEF Next, ResetOver

(* One bucket or table that cannot be deleted costs the sleep of its retries and
   its wait, and the calls that fail for a moment cost what one _retry sleeps at
   most: if MAX_RETRIES squared and MAX_WAIT are less than the limit of
   reset_localstack_quiet, as 25 and 40 are less than 80, the reset ends by
   itself. *)
THEOREM OneSurvivorCosts ==
  ASSUME MAX_RETRIES * MAX_RETRIES + MAX_WAIT < Limit
  PROVE  Spec => []OneSurvivorInTime
  <1>1. Init => TimeInv
    BY TimesTyped, InitialReset, Sums
       DEF Init, TimeInv, ObjectsGoFirst, LookedAtOnce, SpentSoFar, SleptWithin, AtBucket,
           AtTable,
           Ended, ResetInv
  <1>2. ResetInv /\ TimeInv /\ [Next]_vars => TimeInv'
    BY StepsKeepObjects, StepsKeepOnce, StepsKeepTime DEF TimeInv
  <1>3. ResetInv /\ TimeInv => OneSurvivorInTime
    <2>1. SUFFICES ASSUME ResetInv, TimeInv, Cardinality(stubborn \cup swallowed) <= 1
                   PROVE  FewFaults => at # "killed"
      BY DEF OneSurvivorInTime
    <2>2. IsFiniteSet(Survivors)
      <3>1. IsFiniteSet(Resources)
        BY ResetAssumption, FS_Union DEF Resources
      <3>2. Survivors \subseteq Resources
        BY <2>1 DEF ResetInv, TypeOK, Survivors, Resources
      <3>3. QED
        BY <3>1, <3>2, FS_Subset
    <2>3. OneSurvivor
      <3>1. Cardinality(Survivors) \in Nat
        BY <2>2, FS_CardinalityType
      <3>2. CASE Cardinality(Survivors) = 0
        BY <2>2, <3>2, FS_EmptySet DEF OneSurvivor
      <3>3. CASE Cardinality(Survivors) = 1
        BY <2>2, <3>3, FS_Singleton DEF OneSurvivor
      <3>4. QED
        BY <2>1, <3>1, <3>2, <3>3 DEF Survivors
    <2>4. QED
      BY <2>1, <2>3 DEF TimeInv, SpentSoFar
  <1>4. QED
    BY <1>1, <1>2, <1>3, ResetInvariant, PTL DEF Spec
=============================================================================
