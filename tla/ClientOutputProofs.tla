------------------------- MODULE ClientOutputProofs -------------------------
(***************************************************************************)
(* For all clients, threads, sizes of the window and amounts of output:    *)
(* what run_client_streaming reports of a run is grounded in the errors    *)
(* that its clients met, in whatever order they print and readers end.     *)
(***************************************************************************)
EXTENDS ClientOutput, TLAPS, WellFoundedInduction

LinesOf(lines) == {lines[i] : i \in 1..Len(lines)}

\* What a thread can meet that it prints a line about.
Printable == {"FAILURE", "TIMEOUT", "408"}

HadError == {"CLIENT_HAD_ERROR=1"}

\* A process that has not crashed has printed what its threads met, no less and
\* no more, and what it has said of them at its end is true.
ErrorsTold(p) ==
  /\ state[p] # "crashed" =>
       /\ \A t \in ThreadsOf(p) : err[t] \in Printable \cup {"none"}
       /\ \A t \in ThreadsOf(p) : err[t] # "none" => LineAbout(err[t]) \in LinesOf(printed[p])
       /\ \A line \in LinesOf(printed[p]) :
            \/ line = {}
            \/ line = HadError /\ \E t \in ThreadsOf(p) : err[t] # "none"
            \/ \E t \in ThreadsOf(p) : err[t] # "none" /\ line = LineAbout(err[t])
  /\ state[p] = "crashed" => \A t \in ThreadsOf(p) : err[t] = "crash"
  /\ state[p] = "exited" =>
       \A t \in ThreadsOf(p) : err[t] # "none" => HadError \in LinesOf(printed[p])

OutputTellsErrors == \A p \in Processes : ErrorsTold(p)

\* The readers that have ended have handed over all that their processes printed.
ReadersHandOver ==
  /\ \A p \in Processes \ reading : state[p] # "running"
  /\ LinesOf(all_lines) = UNION {LinesOf(printed[p]) : p \in Processes \ reading}

\* Once there is a verdict, nothing changes that it was drawn from.
VerdictStands ==
  report # "none" =>
    /\ reading = {}
    /\ report = IF \E p \in Processes : state[p] = "crashed" THEN "crash" ELSE classify(all_lines)

OutputInv == TypeOK /\ OutputTellsErrors /\ ReadersHandOver /\ VerdictStands
----------------------------------------------------------------------------
(* Lines and sets of lines *)

LEMMA LinesOfAppend ==
  ASSUME NEW lines \in Seq(Lines), NEW line
  PROVE  LinesOf(Append(lines, line)) = LinesOf(lines) \cup {line}
  <1>1. Len(Append(lines, line)) = Len(lines) + 1 /\ Len(lines) \in Nat
    OBVIOUS
  <1>2. /\ \A i \in 1..Len(lines) : Append(lines, line)[i] = lines[i]
        /\ Append(lines, line)[Len(lines) + 1] = line
    OBVIOUS
  <1>3. 1..(Len(lines) + 1) = (1..Len(lines)) \cup {Len(lines) + 1}
    BY <1>1
  <1>4. QED
    BY <1>1, <1>2, <1>3 DEF LinesOf

LEMMA LinesOfConcatenation ==
  ASSUME NEW lines \in Seq(Lines), NEW more \in Seq(Lines)
  PROVE  LinesOf(lines \o more) = LinesOf(lines) \cup LinesOf(more)
  <1>1. /\ Len(lines \o more) = Len(lines) + Len(more)
        /\ Len(lines) \in Nat /\ Len(more) \in Nat
    OBVIOUS
  <1>2. /\ \A i \in 1..Len(lines) : (lines \o more)[i] = lines[i]
        /\ \A i \in 1..Len(more) : (lines \o more)[Len(lines) + i] = more[i]
    OBVIOUS
  <1>3. ASSUME NEW i \in 1..(Len(lines) + Len(more))
        PROVE  i \in 1..Len(lines) \/ \E j \in 1..Len(more) : i = Len(lines) + j
    <2>1. CASE i <= Len(lines)
      BY <2>1
    <2>2. CASE i > Len(lines)
      BY <1>1, <2>2, i - Len(lines) \in 1..Len(more), i = Len(lines) + (i - Len(lines))
    <2>3. QED
      BY <1>1, <2>1, <2>2
  <1>4. /\ 1..Len(lines) \subseteq 1..(Len(lines) + Len(more))
        /\ \A i \in 1..Len(more) : Len(lines) + i \in 1..(Len(lines) + Len(more))
    BY <1>1
  <1>5. QED
    BY <1>1, <1>2, <1>3, <1>4 DEF LinesOf

LEMMA LastLines ==
  ASSUME NEW lines \in Seq(Lines)
  PROVE  /\ Last(lines, Window) \in Seq(Lines)
         /\ LinesOf(Last(lines, Window)) \subseteq LinesOf(lines)
         /\ Len(lines) <= Window => Last(lines, Window) = lines
  <1> DEFINE from == Len(lines) - Window + 1
  <1>1. CASE Len(lines) <= Window
    BY <1>1 DEF Last
  <1>2. CASE ~(Len(lines) <= Window)
    <2>1. Len(lines) \in Nat /\ Window \in Nat /\ Window > 0
      BY OutputAssumption
    <2>2. from \in 1..Len(lines)
      BY <1>2, <2>1
    <2>3. Last(lines, Window) = SubSeq(lines, from, Len(lines))
      BY <1>2 DEF Last
    <2>4. /\ SubSeq(lines, from, Len(lines)) \in Seq(Lines)
          /\ Len(SubSeq(lines, from, Len(lines))) = Window
          /\ \A i \in 1..Window : SubSeq(lines, from, Len(lines))[i] = lines[from + i - 1]
      BY <2>1, <2>2
    <2>5. \A i \in 1..Window : from + i - 1 \in 1..Len(lines)
      BY <1>2, <2>1
    <2>6. QED
      BY <1>2, <2>3, <2>4, <2>5 DEF LinesOf
  <1>3. QED
    BY <1>1, <1>2

\* A nonempty set of indices has a last one.
LEMMA LastIndex ==
  ASSUME NEW n \in Nat, NEW I \in SUBSET (1..n), I # {}
  PROVE  \E i \in I : \A j \in I : j <= i
  <1> DEFINE FromTheEnd == {n - i : i \in I}
  <1>1. \A i \in I : i \in Nat /\ n - i \in Nat
    OBVIOUS
  <1>2. FromTheEnd \subseteq Nat /\ FromTheEnd # {}
    BY <1>1
  <1>3. PICK k \in FromTheEnd : \A l \in FromTheEnd : ~(<<l, k>> \in OpToRel(<, Nat))
    BY <1>2, NatLessThanWellFounded, WFMin
  <1>4. ASSUME NEW l \in FromTheEnd PROVE k <= l
    <2>1. k \in Nat /\ l \in Nat
      BY <1>2
    <2>2. <<l, k>> \in Nat \X Nat
      BY <2>1
    <2>3. ~(<<l, k>>[1] < <<l, k>>[2])
      BY <1>3, <2>2 DEF OpToRel
    <2>4. QED
      BY <2>1, <2>3
  <1>5. PICK i \in I : k = n - i
    OBVIOUS
  <1>6. ASSUME NEW j \in I PROVE j <= i
    <2>1. n - i <= n - j
      BY <1>4, <1>5
    <2>2. PICK a \in Nat, b \in Nat : a = i /\ b = j
      BY <1>1
    <2>3. n - a <= n - b
      BY <2>1, <2>2
    <2>4. b <= a
      <3> HIDE DEF FromTheEnd
      <3> QED BY ONLY n \in Nat, <2>3
    <2> QED
      BY <2>2, <2>4
  <1>7. QED
    BY <1>6
----------------------------------------------------------------------------
(* What the search finds in lines *)

LEMMA MarkInLines ==
  ASSUME NEW lines \in Seq(Lines), NEW mark
  PROVE  LinesWith(lines, {mark}) # {} <=> \E line \in LinesOf(lines) : mark \in line
  BY DEF LinesWith, LinesOf

LEMMA DetailIsALine ==
  ASSUME NEW lines \in Seq(Lines), NEW line \in detail(lines)
  PROVE  line \in LinesOf(lines)
  BY LastLines DEF detail, LinesWith, LinesOf

\* Of lines that are all searched, one that tells of an error gives a detail.
LEMMA DetailIsFound ==
  ASSUME NEW lines \in Seq(Lines), Len(lines) <= Window,
         NEW line \in LinesOf(lines), "FAIL" \in line
  PROVE  \E d \in detail(lines) : d \cap ({"FAIL"} \cup timeout_markers) # {}
  <1> DEFINE found == LinesWith(lines, {"FAIL"} \cup timeout_markers)
  <1>1. Last(lines, Window) = lines
    BY LastLines
  <1>2. found # {} /\ found \in SUBSET (1..Len(lines)) /\ Len(lines) \in Nat
    BY DEF LinesWith, LinesOf
  <1>3. PICK k \in found : \A j \in found : j <= k
    BY <1>2, LastIndex
  <1>4. lines[k] \in detail(lines)
    BY <1>1, <1>3 DEF detail
  <1>5. lines[k] \cap ({"FAIL"} \cup timeout_markers) # {}
    BY <1>3 DEF LinesWith
  <1>6. QED
    BY <1>4, <1>5

LEMMA ClassifyType ==
  ASSUME NEW lines
  PROVE  classify(lines) \in {"ok", "FAILURE", "TIMEOUT"}
  BY DEF classify, error_kind
----------------------------------------------------------------------------
(* The invariant *)

LEMMA LinesAboutErrors ==
  ASSUME NEW e \in Printable
  PROVE  /\ LineAbout(e) \in Lines
         /\ "FAIL" \in LineAbout(e)
         /\ "CLIENT_HAD_ERROR=1" \notin LineAbout(e)
         /\ "TIMEOUT" \in LineAbout(e) <=> e = "TIMEOUT"
         /\ "HTTP 408" \in LineAbout(e) <=> e = "408"
         /\ LineAbout(e) # {} /\ LineAbout(e) # HadError
  BY DEF Printable, LineAbout, Lines, Marks, HadError

LEMMA InitialOutput == Init => OutputInv
  <1> SUFFICES ASSUME Init PROVE OutputInv
    OBVIOUS
  <1> USE DEF Init
  <1>1. TypeOK
    BY DEF TypeOK, Errors, Kinds
  <1>2. OutputTellsErrors
    BY DEF OutputTellsErrors, ErrorsTold, LinesOf, ThreadsOf, Printable
  <1>3. ReadersHandOver /\ VerdictStands
    BY DEF ReadersHandOver, VerdictStands, LinesOf
  <1>4. QED
    BY <1>1, <1>2, <1>3 DEF OutputInv

LEMMA PrintedLines ==
  ASSUME TypeOK, NEW p \in Processes, NEW line \in Lines, PrintLine(p, line)
  PROVE  /\ printed' \in [Processes -> Seq(Lines)]
         /\ LinesOf(printed'[p]) = LinesOf(printed[p]) \cup {line}
         /\ \A q \in Processes \ {p} : printed'[q] = printed[q]
  <1>1. printed[p] \in Seq(Lines) /\ printed'[p] = Append(printed[p], line)
    BY DEF TypeOK, PrintLine
  <1>2. LinesOf(printed'[p]) = LinesOf(printed[p]) \cup {line}
    BY <1>1, LinesOfAppend
  <1>3. printed' \in [Processes -> Seq(Lines)]
    BY <1>1 DEF TypeOK, PrintLine
  <1>4. QED
    BY <1>2, <1>3 DEF TypeOK, PrintLine

\* While a process runs, its reader does, and there is no verdict.
LEMMA StillReading ==
  ASSUME OutputInv, NEW p \in Processes, state[p] = "running"
  PROVE  p \in reading /\ report = "none"
  BY DEF OutputInv, ReadersHandOver, VerdictStands, TypeOK

\* What a running process prints is not yet handed over.
LEMMA PrintingKeepsOutput ==
  ASSUME OutputInv, NEW p \in Processes, state[p] = "running",
         \A q \in Processes \ {p} : printed'[q] = printed[q] /\ state'[q] = state[q],
         UNCHANGED <<reading, all_lines, report>>
  PROVE  ReadersHandOver' /\ VerdictStands'
  <1>1. p \in reading /\ report = "none"
    BY StillReading
  <1>2. \A q \in Processes \ reading : q # p
    BY <1>1
  <1>3. QED
    BY <1>1, <1>2 DEF OutputInv, ReadersHandOver, VerdictStands

\* What a process has told stays true while it and its threads do nothing.
LEMMA ToldAsBefore ==
  ASSUME NEW p \in Processes, ErrorsTold(p), printed'[p] = printed[p], state'[p] = state[p],
         \A t \in ThreadsOf(p) : err'[t] = err[t]
  PROVE  ErrorsTold(p)'
  <1>1. ThreadsOf(p)' = ThreadsOf(p)
    BY DEF ThreadsOf
  <1>2. LinesOf(printed[p])' = LinesOf(printed[p])
    BY DEF LinesOf
  <1>3. \A t \in ThreadsOf(p) : LineAbout(err[t])' = LineAbout(err[t])
    BY DEF LineAbout
  <1> QED
    BY <1>1, <1>2, <1>3 DEF ErrorsTold

LEMMA StepsKeepOutput == OutputInv /\ [Next]_vars => OutputInv'
  <1> SUFFICES ASSUME OutputInv, [Next]_vars PROVE OutputInv'
    OBVIOUS
  <1> USE DEF OutputInv
  <1>0. {} \in Lines /\ HadError \in Lines
    BY DEF Lines, Marks, HadError
  <1>1. ASSUME NEW p \in Processes, Chat(p) PROVE OutputInv'
    <2>1. state[p] = "running" /\ PrintLine(p, {})
      BY <1>1 DEF Chat, Running
    <2>2. /\ printed' \in [Processes -> Seq(Lines)]
          /\ LinesOf(printed'[p]) = LinesOf(printed[p]) \cup {{}}
          /\ \A q \in Processes \ {p} : printed'[q] = printed[q]
      BY <1>0, <2>1, PrintedLines
    <2>3. UNCHANGED <<err, state, reading, all_lines, report>>
      BY <1>1 DEF Chat
    <2>4. TypeOK'
      BY <2>2, <2>3 DEF TypeOK
    <2>5. OutputTellsErrors'
      BY <2>1, <2>2, <2>3 DEF OutputTellsErrors, ErrorsTold
    <2>6. QED
      BY <2>1, <2>2, <2>3, <2>4, <2>5, PrintingKeepsOutput
  <1>2. ASSUME NEW t \in Threads, NEW e \in {"FAILURE", "TIMEOUT", "408"}, Fail(t, e)
        PROVE  OutputInv'
    <2> DEFINE p == ProcessOf[t]
    <2>1. /\ p \in Processes /\ state[p] = "running" /\ PrintLine(p, LineAbout(e))
          /\ err[t] = "none" /\ err' = [err EXCEPT ![t] = e] /\ e \in Printable
      BY <1>2, OutputAssumption DEF Fail, Running, Printable
    <2> HIDE DEF p
    <2>2. /\ printed' \in [Processes -> Seq(Lines)]
          /\ LinesOf(printed'[p]) = LinesOf(printed[p]) \cup {LineAbout(e)}
          /\ \A q \in Processes \ {p} : printed'[q] = printed[q]
      BY <2>1, PrintedLines, LinesAboutErrors
    <2>3. UNCHANGED <<state, reading, all_lines, report>>
      BY <1>2 DEF Fail
    <2>4. TypeOK'
      BY <2>1, <2>2, <2>3 DEF TypeOK, Errors, Printable
    <2>5. /\ err'[t] = e /\ e # "none" /\ t \in ThreadsOf(p)
          /\ \A u \in Threads \ {t} : err'[u] = err[u]
          /\ \A q \in Processes \ {p} : t \notin ThreadsOf(q)
      BY <2>1 DEF ThreadsOf, p, TypeOK, Printable
    <2>6. ASSUME NEW q \in Processes \ {p}
          PROVE  \A u \in ThreadsOf(q) : err'[u] = err[u]
      BY <2>5 DEF ThreadsOf
    <2>7. \A u \in ThreadsOf(p) : err'[u] \in Printable \cup {"none"}
      BY <2>1, <2>5 DEF OutputTellsErrors, ErrorsTold, ThreadsOf
    <2>8. \A u \in ThreadsOf(p) :
             err'[u] # "none" => LineAbout(err'[u]) \in LinesOf(printed'[p])
      BY <2>1, <2>2, <2>5 DEF OutputTellsErrors, ErrorsTold, ThreadsOf
    <2>9. \A u \in ThreadsOf(p) : err[u] # "none" => err'[u] = err[u] /\ u # t
      BY <2>1, <2>5 DEF ThreadsOf
    <2>10. ASSUME NEW line \in LinesOf(printed'[p])
           PROVE  \/ line = {}
                  \/ line = HadError /\ \E u \in ThreadsOf(p) : err'[u] # "none"
                  \/ \E u \in ThreadsOf(p) : err'[u] # "none" /\ line = LineAbout(err'[u])
      <3>1. CASE line = LineAbout(e)
        BY <3>1, <2>5
      <3>2. CASE line \in LinesOf(printed[p])
        <4>1. \/ line = {}
              \/ line = HadError /\ \E u \in ThreadsOf(p) : err[u] # "none"
              \/ \E u \in ThreadsOf(p) : err[u] # "none" /\ line = LineAbout(err[u])
          BY <2>1, <3>2 DEF OutputTellsErrors, ErrorsTold
        <4>2. QED
          BY <4>1, <2>9
      <3>3. QED
        BY <2>2, <3>1, <3>2
    <2>11. OutputTellsErrors'
      <3>1. \A q \in Processes : ThreadsOf(q)' = ThreadsOf(q)
        BY DEF ThreadsOf
      <3>2. ErrorsTold(p)'
        BY <2>1, <2>3, <2>7, <2>8, <2>10, <3>1 DEF ErrorsTold
      <3>3. ASSUME NEW q \in Processes \ {p} PROVE ErrorsTold(q)'
        <4>1. ErrorsTold(q)
          BY DEF OutputTellsErrors
        <4>2. printed'[q] = printed[q] /\ state'[q] = state[q]
          BY <2>2, <2>3
        <4>3. QED
          BY <2>6, <4>1, <4>2, ToldAsBefore
      <3>4. QED
        BY <3>2, <3>3 DEF OutputTellsErrors
    <2>12. QED
      BY <2>1, <2>2, <2>3, <2>4, <2>11, PrintingKeepsOutput
  <1>3. ASSUME NEW p \in Processes, Exit(p) PROVE OutputInv'
    <2> DEFINE last == IF \E t \in ThreadsOf(p) : err[t] # "none" THEN HadError ELSE {}
    <2>1. /\ state[p] = "running" /\ state' = [state EXCEPT ![p] = "exited"]
          /\ PrintLine(p, last) /\ last \in Lines
      BY <1>0, <1>3 DEF Exit, HadError
    <2>2. /\ printed' \in [Processes -> Seq(Lines)]
          /\ LinesOf(printed'[p]) = LinesOf(printed[p]) \cup {last}
          /\ \A q \in Processes \ {p} : printed'[q] = printed[q]
      BY <2>1, PrintedLines
    <2>3. UNCHANGED <<err, reading, all_lines, report>>
      BY <1>3 DEF Exit
    <2>4. state'[p] = "exited" /\ \A q \in Processes \ {p} : state'[q] = state[q]
      BY <2>1 DEF TypeOK
    <2>5. TypeOK'
      BY <2>1, <2>2, <2>3 DEF TypeOK
    <2>6. OutputTellsErrors'
      <3>1. ThreadsOf(p)' = ThreadsOf(p)
        BY DEF ThreadsOf
      <3>2. QED
        BY <2>1, <2>2, <2>3, <2>4, <3>1 DEF OutputTellsErrors, ErrorsTold, ThreadsOf
    <2>7. QED
      BY <2>1, <2>2, <2>3, <2>4, <2>5, <2>6, PrintingKeepsOutput
  <1>4. ASSUME NEW p \in Processes, Crash(p) PROVE OutputInv'
    <2>1. /\ state[p] = "running" /\ state'[p] = "crashed"
          /\ \A q \in Processes \ {p} : state'[q] = state[q]
          /\ UNCHANGED <<printed, reading, all_lines, report>>
      BY <1>4 DEF Crash, TypeOK
    <2>2. /\ \A t \in ThreadsOf(p) : err'[t] = "crash"
          /\ \A q \in Processes \ {p} : \A t \in ThreadsOf(q) : err'[t] = err[t]
      BY <1>4 DEF Crash, ThreadsOf
    <2>3. TypeOK'
      BY <1>4 DEF Crash, TypeOK, Errors
    <2>4. OutputTellsErrors'
      BY <2>1, <2>2 DEF OutputTellsErrors, ErrorsTold, ThreadsOf
    <2>5. QED
      BY <2>1, <2>3, <2>4, PrintingKeepsOutput
  <1>5. ASSUME NEW p \in Processes, ReaderEnds(p) PROVE OutputInv'
    <2>1. /\ state[p] # "running" /\ p \in reading /\ report = "none"
          /\ reading' = reading \ {p} /\ all_lines' = all_lines \o printed[p]
          /\ UNCHANGED <<err, printed, state, report>>
      BY <1>5 DEF ReaderEnds, VerdictStands
    <2>2. printed[p] \in Seq(Lines) /\ all_lines \in Seq(Lines)
      BY DEF TypeOK
    <2>3. TypeOK'
      BY <2>1, <2>2 DEF TypeOK
    <2>4. OutputTellsErrors'
      BY <2>1 DEF OutputTellsErrors, ErrorsTold, ThreadsOf
    <2>5. LinesOf(all_lines') = LinesOf(all_lines) \cup LinesOf(printed[p])
      BY <2>1, <2>2, LinesOfConcatenation
    <2>6. Processes \ reading' = (Processes \ reading) \cup {p}
      BY <2>1
    <2>7. ReadersHandOver'
      BY <2>1, <2>5, <2>6 DEF ReadersHandOver
    <2>8. VerdictStands'
      BY <2>1 DEF VerdictStands
    <2>9. QED
      BY <2>3, <2>4, <2>7, <2>8
  <1>6. CASE Return
    <2>1. /\ reading = {} /\ UNCHANGED <<err, printed, state, reading, all_lines>>
          /\ report' = IF \E p \in Processes : state[p] = "crashed"
                       THEN "crash" ELSE classify(all_lines)
      BY <1>6 DEF Return
    <2>2. report' \in Kinds
      BY <2>1, ClassifyType DEF Kinds
    <2>3. TypeOK'
      BY <2>1, <2>2 DEF TypeOK
    <2>4. OutputTellsErrors' /\ ReadersHandOver'
      BY <2>1 DEF OutputTellsErrors, ErrorsTold, ReadersHandOver, ThreadsOf
    <2>5. VerdictStands'
      BY <2>1 DEF VerdictStands
    <2>6. QED
      BY <2>3, <2>4, <2>5
  <1>7. CASE UNCHANGED vars
    BY <1>7 DEF vars, TypeOK, OutputTellsErrors, ErrorsTold, ReadersHandOver, VerdictStands, ThreadsOf
  <1>8. QED
    BY <1>1, <1>2, <1>3, <1>4, <1>5, <1>6, <1>7 DEF Next, Returned

LEMMA OutputInvariant == Spec => []OutputInv
  BY InitialOutput, StepsKeepOutput, PTL DEF Spec

(* Every variable keeps its type: in particular what run_client_streaming
   returns is one of the kinds main.py knows. *)
THEOREM TypeCorrect == Spec => []TypeOK
  BY OutputInvariant, PTL DEF OutputInv
----------------------------------------------------------------------------
(* The verdict *)

\* The errors met and the lines collected, when all processes have exited.
AllExited == /\ \A p \in Processes : state[p] = "exited"
             /\ reading = {}

LEMMA CollectedLines ==
  ASSUME OutputInv, AllExited
  PROVE  /\ \A t \in Threads : err[t] \in Printable \cup {"none"}
         /\ \A t \in Threads : err[t] # "none" =>
              LineAbout(err[t]) \in LinesOf(all_lines) /\ HadError \in LinesOf(all_lines)
         /\ \A line \in LinesOf(all_lines) :
              \/ line = {}
              \/ line = HadError /\ \E t \in Threads : err[t] # "none"
              \/ \E t \in Threads : err[t] # "none" /\ line = LineAbout(err[t])
  <1>1. \A p \in Processes : ErrorsTold(p) /\ state[p] = "exited"
    BY DEF OutputInv, OutputTellsErrors, AllExited
  <1>2. LinesOf(all_lines) = UNION {LinesOf(printed[p]) : p \in Processes}
    BY DEF OutputInv, ReadersHandOver, AllExited
  <1>3. \A t \in Threads : ProcessOf[t] \in Processes /\ t \in ThreadsOf(ProcessOf[t])
    BY OutputAssumption DEF ThreadsOf
  <1>4. \A t \in Threads : err[t] \in Printable \cup {"none"}
    BY <1>1, <1>3 DEF ErrorsTold
  <1>5. ASSUME NEW t \in Threads, err[t] # "none"
        PROVE  LineAbout(err[t]) \in LinesOf(all_lines) /\ HadError \in LinesOf(all_lines)
    <2> DEFINE p == ProcessOf[t]
    <2>1. LineAbout(err[t]) \in LinesOf(printed[p]) /\ HadError \in LinesOf(printed[p])
      BY <1>1, <1>3, <1>5 DEF ErrorsTold
    <2>2. QED
      BY <1>2, <1>3, <2>1
  <1>6. ASSUME NEW line \in LinesOf(all_lines)
        PROVE  \/ line = {}
               \/ line = HadError /\ \E t \in Threads : err[t] # "none"
               \/ \E t \in Threads : err[t] # "none" /\ line = LineAbout(err[t])
    <2>1. PICK p \in Processes : line \in LinesOf(printed[p])
      BY <1>2
    <2>2. \/ line = {}
          \/ line = HadError /\ \E t \in ThreadsOf(p) : err[t] # "none"
          \/ \E t \in ThreadsOf(p) : err[t] # "none" /\ line = LineAbout(err[t])
      BY <1>1, <2>1 DEF ErrorsTold
    <2>3. ThreadsOf(p) \subseteq Threads
      BY DEF ThreadsOf
    <2>4. QED
      BY <2>2, <2>3
  <1>7. QED
    BY <1>4, <1>5, <1>6

LEMMA MarksOfCollectedLines ==
  ASSUME OutputInv, AllExited
  PROVE  /\ had_error(all_lines) <=> \E t \in Threads : err[t] # "none"
         /\ \A line \in LinesOf(all_lines) :
              /\ "TIMEOUT" \in line => \E t \in Threads : err[t] = "TIMEOUT"
              /\ "HTTP 408" \in line => \E t \in Threads : err[t] = "408"
              /\ "FAIL" \in line => "HTTP 408" \in line \/ "TIMEOUT" \in line
                                      \/ \E t \in Threads : err[t] = "FAILURE"
         /\ \A t \in Threads : err[t] # "none" => \E line \in LinesOf(all_lines) : "FAIL" \in line
         /\ \A t \in Threads : err[t] = "408" => \E line \in LinesOf(all_lines) : "HTTP 408" \in line
  <1>1. all_lines \in Seq(Lines)
    BY DEF OutputInv, TypeOK
  <1>2. had_error(all_lines) <=> \E line \in LinesOf(all_lines) : "CLIENT_HAD_ERROR=1" \in line
    BY <1>1, MarkInLines DEF had_error
  <1>3. ASSUME NEW t \in Threads, err[t] # "none" PROVE err[t] \in Printable
    BY <1>3, CollectedLines
  <1>4. /\ "CLIENT_HAD_ERROR=1" \in HadError
        /\ "TIMEOUT" \notin HadError /\ "HTTP 408" \notin HadError /\ "FAIL" \notin HadError
    BY DEF HadError
  <1>5. had_error(all_lines) <=> \E t \in Threads : err[t] # "none"
    BY <1>2, <1>3, <1>4, CollectedLines, LinesAboutErrors
  <1>6. ASSUME NEW line \in LinesOf(all_lines)
        PROVE  /\ "TIMEOUT" \in line => \E t \in Threads : err[t] = "TIMEOUT"
               /\ "HTTP 408" \in line => \E t \in Threads : err[t] = "408"
               /\ "FAIL" \in line => "HTTP 408" \in line \/ "TIMEOUT" \in line
                                       \/ \E t \in Threads : err[t] = "FAILURE"
    <2>1. CASE line = {} \/ line = HadError
      BY <1>4, <2>1
    <2>2. CASE \E t \in Threads : err[t] # "none" /\ line = LineAbout(err[t])
      <3>1. PICK t \in Threads : err[t] # "none" /\ line = LineAbout(err[t])
        BY <2>2
      <3>2. err[t] \in {"FAILURE", "TIMEOUT", "408"}
        BY <1>3, <3>1 DEF Printable
      <3>3. QED
        BY <1>3, <3>1, <3>2, LinesAboutErrors
    <2>3. QED
      BY <2>1, <2>2, CollectedLines
  <1>7. \A t \in Threads : err[t] # "none" => \E line \in LinesOf(all_lines) : "FAIL" \in line
    BY <1>3, CollectedLines, LinesAboutErrors
  <1>8. ASSUME NEW t \in Threads, err[t] = "408"
        PROVE  \E line \in LinesOf(all_lines) : "HTTP 408" \in line
    BY <1>3, <1>8, CollectedLines, LinesAboutErrors
  <1>9. QED
    BY <1>5, <1>6, <1>7, <1>8

\* What a detail has the mark of, a thread has met.
LEMMA MarkInDetail ==
  ASSUME NEW lines \in Seq(Lines), NEW marks, has_mark(lines, marks)
  PROVE  \E line \in LinesOf(lines) : line \cap marks # {}
  BY DetailIsALine DEF has_mark

\* No process has crashed when a verdict is drawn from the output.
LEMMA VerdictFromOutput ==
  ASSUME OutputInv, report # "none"
  PROVE  \/ report = "crash" /\ "crash" \in MetErrors
         \/ report = classify(all_lines) /\ AllExited /\ "crash" \notin MetErrors
  <1>1. reading = {} /\ \A p \in Processes : state[p] \in {"exited", "crashed"}
    BY DEF OutputInv, TypeOK, VerdictStands, ReadersHandOver
  <1>2. CASE \E p \in Processes : state[p] = "crashed"
    <2>1. PICK p \in Processes : state[p] = "crashed"
      BY <1>2
    <2>2. PICK t \in Threads : ProcessOf[t] = p
      BY OutputAssumption
    <2>3. err[t] = "crash"
      BY <2>1, <2>2 DEF OutputInv, OutputTellsErrors, ErrorsTold, ThreadsOf
    <2>4. QED
      BY <1>2, <2>3 DEF OutputInv, VerdictStands, MetErrors
  <1>3. CASE ~\E p \in Processes : state[p] = "crashed"
    <2>1. AllExited
      BY <1>1, <1>3 DEF AllExited
    <2>2. \A t \in Threads : err[t] # "crash"
      BY <2>1, CollectedLines DEF Printable
    <2>3. QED
      BY <1>3, <2>1, <2>2 DEF OutputInv, VerdictStands, MetErrors
  <1>4. QED
    BY <1>2, <1>3

(* However much the clients print: no timeout and no failure is reported of a
   run in which no thread met one, and an error is passed over only together
   with a 408 that is not to count. *)
THEOREM ErrorsAreGrounded == Spec => []ReportsAreGrounded
  <1>1. ASSUME OutputInv PROVE ReportsAreGrounded
    <2>0. all_lines \in Seq(Lines)
      BY <1>1 DEF OutputInv, TypeOK
    <2>1. CASE report \in {"none", "crash"}
      BY <2>1 DEF ReportsAreGrounded
    <2>2. CASE report \notin {"none", "crash"}
      <3>1. report = classify(all_lines) /\ AllExited
        BY <1>1, <2>2, VerdictFromOutput
      <3>2. report = "TIMEOUT" => "TIMEOUT" \in MetErrors \/ (Treat408 /\ "408" \in MetErrors)
        <4>1. SUFFICES ASSUME report = "TIMEOUT"
                       PROVE  "TIMEOUT" \in MetErrors \/ (Treat408 /\ "408" \in MetErrors)
          OBVIOUS
        <4>2. has_mark(all_lines, timeout_markers)
          BY <3>1, <4>1 DEF classify, error_kind
        <4>3. PICK line \in LinesOf(all_lines) : line \cap timeout_markers # {}
          BY <2>0, <4>2, MarkInDetail
        <4>4. "TIMEOUT" \in line \/ (Treat408 /\ "HTTP 408" \in line)
          BY <4>3 DEF timeout_markers
        <4>5. QED
          BY <1>1, <3>1, <4>4, MarksOfCollectedLines DEF MetErrors
      <3>3. report = "FAILURE" => MetErrors # {"none"}
        <4>1. report = "FAILURE" => had_error(all_lines)
          BY <3>1 DEF classify
        <4>2. QED
          BY <1>1, <3>1, <4>1, MarksOfCollectedLines DEF MetErrors
      <3>4. report = "ok" => MetErrors = {"none"} \/ ("408" \in MetErrors /\ ~Treat408)
        <4>1. CASE hidden(all_lines)
          <5>1. LinesWith(Last(all_lines, Window), {"HTTP 408"}) # {} /\ ~Treat408
            BY <4>1 DEF hidden, saw_408
          <5>2. PICK line \in LinesOf(all_lines) : "HTTP 408" \in line
            BY <2>0, <5>1, LastLines, MarkInLines
          <5>3. QED
            BY <1>1, <3>1, <5>1, <5>2, MarksOfCollectedLines DEF MetErrors
        <4>2. CASE ~had_error(all_lines)
          <5>1. \A t \in Threads : err[t] = "none"
            BY <1>1, <3>1, <4>2, MarksOfCollectedLines
          <5>2. \E t \in Threads : TRUE
            BY OutputAssumption
          <5>3. QED
            BY <5>1, <5>2 DEF MetErrors
        <4>3. CASE had_error(all_lines) /\ ~hidden(all_lines)
          BY <3>1, <4>3 DEF classify, error_kind
        <4>4. QED
          BY <4>1, <4>2, <4>3
      <3>5. QED
        BY <3>2, <3>3, <3>4 DEF ReportsAreGrounded
    <2>3. QED
      BY <2>1, <2>2
  <1>2. QED
    BY <1>1, OutputInvariant, PTL

\* With all lines searched: the kind of the one detail is that of an error met.
LEMMA KindOfAllLines ==
  ASSUME OutputInv, AllExited, Len(all_lines) <= Window,
         NEW t \in Threads, err[t] # "none", ~hidden(all_lines)
  PROVE  error_kind(all_lines) \in Verdicts(MetErrors)
  <1>0. all_lines \in Seq(Lines)
    BY DEF OutputInv, TypeOK
  <1>1. "crash" \notin MetErrors /\ MetErrors # {"none"}
    BY CollectedLines DEF MetErrors, Printable
  <1>2. CASE "408" \in MetErrors /\ ~Treat408
    <2>1. \E line \in LinesOf(all_lines) : "HTTP 408" \in line
      BY <1>2, MarksOfCollectedLines DEF MetErrors
    <2>2. saw_408(all_lines)
      BY <1>0, <2>1, LastLines, MarkInLines DEF saw_408
    <2>3. has_mark(all_lines, {"TIMEOUT"})
      BY <1>2, <2>2 DEF hidden
    <2>4. has_mark(all_lines, timeout_markers)
      BY <2>3 DEF has_mark, timeout_markers
    <2>5. PICK line \in LinesOf(all_lines) : line \cap {"TIMEOUT"} # {}
      BY <1>0, <2>3, MarkInDetail
    <2>6. "TIMEOUT" \in MetErrors
      BY <2>5, MarksOfCollectedLines DEF MetErrors
    <2>7. QED
      BY <1>1, <1>2, <2>4, <2>6 DEF error_kind, Verdicts
  <1>3. CASE ~("408" \in MetErrors /\ ~Treat408)
    <2> DEFINE named == {IF e = "408" THEN "TIMEOUT" ELSE e : e \in MetErrors \ {"none"}}
    <2>1. Verdicts(MetErrors) = named
      BY <1>1, <1>3 DEF Verdicts
    <2>2. CASE has_mark(all_lines, timeout_markers)
      <3>1. PICK line \in LinesOf(all_lines) : line \cap timeout_markers # {}
        BY <1>0, <2>2, MarkInDetail
      <3>2. "TIMEOUT" \in line \/ "HTTP 408" \in line
        BY <3>1 DEF timeout_markers
      <3>3. "TIMEOUT" \in MetErrors \/ "408" \in MetErrors
        BY <3>2, MarksOfCollectedLines DEF MetErrors
      <3>4. "TIMEOUT" \in named
        BY <3>3
      <3>5. QED
        BY <2>1, <2>2, <3>4 DEF error_kind
    <2>3. CASE ~has_mark(all_lines, timeout_markers)
      <3>1. PICK line \in LinesOf(all_lines) : "FAIL" \in line
        BY MarksOfCollectedLines
      <3>2. PICK d \in detail(all_lines) : d \cap ({"FAIL"} \cup timeout_markers) # {}
        BY <1>0, <3>1, DetailIsFound
      <3>3. d \in LinesOf(all_lines)
        BY <1>0, DetailIsALine
      <3>4. "FAIL" \in d /\ "TIMEOUT" \notin d /\ (Treat408 => "HTTP 408" \notin d)
        BY <2>3, <3>2 DEF has_mark, timeout_markers
      <3>5. "HTTP 408" \notin d
        BY <1>3, <3>3, <3>4, MarksOfCollectedLines DEF MetErrors
      <3>6. "FAILURE" \in MetErrors
        BY <3>3, <3>4, <3>5, MarksOfCollectedLines DEF MetErrors
      <3>7. "FAILURE" \in named
        BY <3>6
      <3>8. QED
        BY <2>1, <2>3, <3>7 DEF error_kind
    <2>4. QED
      BY <2>2, <2>3
  <1>4. QED
    BY <1>2, <1>3

(* As long as the clients print no more than is searched, the verdict on a run
   is one of those from which Session chooses for the errors its threads met, in
   whatever order they print and readers end. *)
THEOREM VerdictsAreRight == Spec => []VerdictFollowsErrors
  <1>1. ASSUME OutputInv PROVE VerdictFollowsErrors
    <2>0. SUFFICES ASSUME report # "none", Len(all_lines) <= Window
                   PROVE  report \in Verdicts(MetErrors)
      BY DEF VerdictFollowsErrors
    <2>1. CASE report = "crash" /\ "crash" \in MetErrors
      BY <2>1 DEF Verdicts
    <2>2. CASE report = classify(all_lines) /\ AllExited /\ "crash" \notin MetErrors
      <3>1. CASE \A t \in Threads : err[t] = "none"
        <4>1. ~had_error(all_lines)
          BY <1>1, <2>2, <3>1, MarksOfCollectedLines
        <4>2. MetErrors = {"none"}
          BY <3>1, OutputAssumption DEF MetErrors
        <4>3. QED
          BY <2>2, <4>1, <4>2 DEF classify, Verdicts
      <3>2. CASE \E t \in Threads : err[t] # "none"
        <4>1. PICK t \in Threads : err[t] # "none"
          BY <3>2
        <4>2. had_error(all_lines)
          BY <1>1, <2>2, <3>2, MarksOfCollectedLines
        <4>3. CASE ~hidden(all_lines)
          BY <1>1, <2>0, <2>2, <4>1, <4>2, <4>3, KindOfAllLines DEF classify
        <4>4. CASE hidden(all_lines)
          <5>1. report = "ok" /\ ~Treat408 /\ LinesWith(Last(all_lines, Window), {"HTTP 408"}) # {}
            BY <2>2, <4>4 DEF classify, hidden, saw_408
          <5>2. PICK line \in LinesOf(all_lines) : "HTTP 408" \in line
            BY <1>1, <5>1, LastLines, MarkInLines DEF OutputInv, TypeOK
          <5>3. "408" \in MetErrors
            BY <1>1, <2>2, <5>2, MarksOfCollectedLines DEF MetErrors
          <5>4. QED
            BY <2>2, <5>1, <5>3 DEF Verdicts
        <4>5. QED
          BY <4>3, <4>4
      <3>3. QED
        BY <3>1, <3>2
    <2>3. QED
      BY <1>1, <2>0, <2>1, <2>2, VerdictFromOutput
  <1>2. QED
    BY <1>1, OutputInvariant, PTL
=============================================================================
