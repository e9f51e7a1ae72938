-------------------------- MODULE OutputLinesProofs --------------------------
(***************************************************************************)
(* What threads print to one stream, for any number of threads, any files  *)
(* and any options: with the mutex no line is torn, and with or without it *)
(* the output of each search is complete and in order.                     *)
(***************************************************************************)
EXTENDS OutputLines, SequenceTheorems, FunctionTheorems, FiniteSetTheorems, TLAPS

\* A thread that is past "idle" has a search, and the lock is only asked for where
\* the mutex guards the record, of which nothing is printed yet.
BusyInv ==
  \A t \in Thread :
    /\ pc[t] # "idle" => search[t] \in 1..taken
    /\ pc[t] = "lock" => Guards(FileOf(t), record[t]) /\ piece[t] = 1

Types == TypeOK /\ BusyInv

\* What is printed by a call of stdio.
Parts == {"path", "path:", "number:", "before", "red", "match", "reset", "after", "line",
          "newline", "whole line", "count"}

\* The calls for a record are a sequence.
LEMMA CallsAreSequence ==
  ASSUME NEW f, NEW r
  PROVE  Calls(f, r) \in Seq(Parts)
<1> DEFINE S == Seq(Parts)
<1>1. \A e \in Parts : <<e>> \in S
  OBVIOUS
<1>2. \A s1, s2 \in S : s1 \o s2 \in S
  BY ConcatProperties
<1>3. <<>> \in S
  OBVIOUS
<1>4. \A c : \A e \in Parts : If(c, e) \in S
  BY <1>1, <1>3 DEF If
<1>5. <<"red", "match", "reset">> \in S
  BY DEF Parts
<1>6. ASSUME NEW shape PROVE MatchCalls(shape) \in S
  <2> HIDE DEF S
  <2>1. \A c : /\ If(c, "before") \in S
               /\ If(c, "after") \in S
               /\ If(c, "path:") \in S
               /\ If(c, "number:") \in S
    BY <1>4 DEF Parts
  <2>2. If(shape.before, "before") \o <<"red", "match", "reset">>
          \o If(shape.after, "after") \in S
    BY <1>2, <1>5, <2>1
  <2>3. <<"path">> \in S /\ <<"line">> \in S /\ <<"newline">> \in S
    BY <1>1 DEF Parts
  <2>4. \A c, d : If(c, "path:") \o If(d, "number:") \in S
    BY <1>2, <2>1
  <2>5. ASSUME NEW s1 \in S, NEW s2 \in S PROVE s1 \o s2 \o <<"newline">> \in S
    BY <1>2, <2>3
  <2>6. CASE opts.files_with_matches
    BY <2>3, <2>6 DEF MatchCalls
  <2>7. CASE ~opts.files_with_matches
    BY <2>2, <2>3, <2>4, <2>5, <2>7 DEF MatchCalls
  <2> QED
    BY <2>6, <2>7
<1>7. /\ <<"path">> \in S /\ <<"count">> \in S /\ <<"whole line">> \in S
      /\ If(f = Stdin /\ opts.count_only, "count") \in S
  BY <1>1, <1>4 DEF Parts
<1> HIDE DEF S
<1>8. MainCalls(f) \in S /\ SummaryCalls(f) \in S
  BY <1>3, <1>7 DEF MainCalls, SummaryCalls
<1>9. ASSUME NEW shape PROVE LineCalls(shape) \in S
  BY <1>3, <1>6, <1>7 DEF LineCalls
<1>10. Calls(f, r) \in S
  BY <1>3, <1>8, <1>9 DEF Calls
<1> QED
  BY <1>10 DEF S

\* More than one call is needed only for a line of the search by lines.
LEMMA SeveralCalls ==
  ASSUME NEW f, NEW r, Len(Calls(f, r)) > 1
  PROVE  byLines /\ ~opts.count_only /\ r \in DOMAIN Lines[f]
<1>1. ~(Len(MainCalls(f)) > 1) /\ ~(Len(SummaryCalls(f)) > 1) /\ ~(Len(<<>>) > 1)
  BY DEF MainCalls, SummaryCalls, If
<1>2. ASSUME NEW shape, Len(LineCalls(shape)) > 1 PROVE byLines /\ ~opts.count_only
  BY <1>2 DEF LineCalls, Prints
<1> QED
  BY <1>1, <1>2 DEF Calls

LEMMA InitTypes == Init => Types
BY OutputAssumption DEF Init, Types, TypeOK, BusyInv, Places, Entry

\* Every step keeps a busy thread at a search.
LEMMA BusyKept ==
  ASSUME Types, [Next]_vars
  PROVE  BusyInv'
<1> SUFFICES ASSUME NEW u \in Thread
             PROVE  /\ pc'[u] # "idle" => search'[u] \in 1..taken'
                    /\ pc'[u] = "lock" => Guards(FileOf(u), record[u])' /\ piece'[u] = 1
  BY DEF BusyInv
<1> USE DEF Types, TypeOK, BusyInv, Places, inputs, vars, FileOf, Guards, Locked,
      SummaryRecord
<1>1. ASSUME NEW t \in Thread, Take(t)
      PROVE  /\ pc'[u] # "idle" => search'[u] \in 1..taken'
             /\ pc'[u] = "lock" => Guards(FileOf(u), record[u])' /\ piece'[u] = 1
  BY <1>1 DEF Take
<1>2. ASSUME NEW t \in Thread, StartRecord(t)
      PROVE  /\ pc'[u] # "idle" => search'[u] \in 1..taken'
             /\ pc'[u] = "lock" => Guards(FileOf(u), record[u])' /\ piece'[u] = 1
  BY <1>2 DEF StartRecord
<1>3. ASSUME NEW t \in Thread, PassRecord(t)
      PROVE  /\ pc'[u] # "idle" => search'[u] \in 1..taken'
             /\ pc'[u] = "lock" => Guards(FileOf(u), record[u])' /\ piece'[u] = 1
  BY <1>3 DEF PassRecord, Advance
<1>4. ASSUME NEW t \in Thread, WriteBlock(t)
      PROVE  /\ pc'[u] # "idle" => search'[u] \in 1..taken'
             /\ pc'[u] = "lock" => Guards(FileOf(u), record[u])' /\ piece'[u] = 1
  BY <1>4 DEF WriteBlock
<1>5. ASSUME NEW t \in Thread, Write(t)
      PROVE  /\ pc'[u] # "idle" => search'[u] \in 1..taken'
             /\ pc'[u] = "lock" => Guards(FileOf(u), record[u])' /\ piece'[u] = 1
  BY <1>5 DEF Write
<1>6. ASSUME NEW t \in Thread, Unlock(t)
      PROVE  /\ pc'[u] # "idle" => search'[u] \in 1..taken'
             /\ pc'[u] = "lock" => Guards(FileOf(u), record[u])' /\ piece'[u] = 1
  BY <1>6 DEF Unlock, Advance
<1>7. ASSUME NEW t \in Thread, Lock(t)
      PROVE  /\ pc'[u] # "idle" => search'[u] \in 1..taken'
             /\ pc'[u] = "lock" => Guards(FileOf(u), record[u])' /\ piece'[u] = 1
  BY <1>7 DEF Lock
<1>8. CASE UNCHANGED vars
  BY <1>8
<1> QED
  BY <1>1, <1>2, <1>3, <1>4, <1>5, <1>6, <1>7, <1>8 DEF Next, Step, Done

\* The lines written by one fwrite.
LEMMA BlockOfLines ==
  ASSUME NEW i \in Nat, NEW s \in 1..i, NEW r \in Nat \ {0}, NEW m \in Nat, r <= m
  PROVE  [k \in 1..m + 1 - r |-> Entry(s, r + k - 1, 1)]
           \in Seq([search : 1..i, record : Nat \ {0}, piece : Nat \ {0}])
<1> DEFINE E == [search : 1..i, record : Nat \ {0}, piece : Nat \ {0}]
           n == m + 1 - r
<1>1. n \in Nat
  OBVIOUS
<1>2. ASSUME NEW k \in 1..n PROVE Entry(s, r + k - 1, 1) \in E
  BY DEF Entry
<1> HIDE DEF n, E
<1>3. [k \in 1..n |-> Entry(s, r + k - 1, 1)] \in [1..n -> E]
  BY <1>2
<1>4. [k \in 1..n |-> Entry(s, r + k - 1, 1)] \in Seq(E)
  BY <1>1, <1>3
<1> QED
  BY <1>4 DEF n, E

\* Every step keeps the types, and a busy thread at a search.
LEMMA TypesKept ==
  ASSUME Types, [Next]_vars
  PROVE  Types'
<1> USE OutputAssumption DEF Types, TypeOK, Places, inputs, vars
<1> DEFINE E(n) == [search : 1..n, record : Nat \ {0}, piece : Nat \ {0}]
<1>1. ASSUME NEW t \in Thread, Take(t) PROVE TypeOK'
  <2>1. E(taken) \subseteq E(taken + 1)
    OBVIOUS
  <2>2. stream \in Seq(E(taken + 1))
    <3> HIDE DEF E
    <3>1. stream \in Seq(E(taken))
      BY DEF E
    <3> QED
      BY <2>1, <3>1, SeqMonotonic
  <2>3. taken' \in 0..Len(work) /\ search' \in [Thread -> 0..taken'] /\ pc' \in [Thread -> Places]
    BY <1>1 DEF Take
  <2> QED
    BY <1>1, <2>2, <2>3 DEF Take
<1>2. ASSUME NEW t \in Thread, StartRecord(t) PROVE TypeOK'
  <2>1. pc' \in [Thread -> Places] /\ piece' \in [Thread -> Nat \ {0}]
    BY <1>2 DEF StartRecord
  <2> QED
    BY <1>2, <2>1 DEF StartRecord
<1>3. ASSUME NEW t \in Thread, Advance(t)
      PROVE  pc' \in [Thread -> Places] /\ record' \in [Thread -> Nat \ {0}]
  BY <1>3 DEF Advance
<1>4. ASSUME NEW t \in Thread, PassRecord(t) PROVE TypeOK'
  BY <1>3, <1>4 DEF PassRecord
<1>5. ASSUME NEW t \in Thread, WriteBlock(t) PROVE TypeOK'
  <2>1. PICK m \in record[t]..Len(Lines[FileOf(t)]) :
          /\ stream' = stream \o [k \in 1..m + 1 - record[t] |->
                                    Entry(search[t], record[t] + k - 1, 1)]
          /\ record' = [record EXCEPT ![t] = m + 1]
    BY <1>5 DEF WriteBlock, NextAfter
  <2>2. record[t] \in Nat \ {0} /\ search[t] \in 1..taken /\ m \in Nat /\ record[t] <= m
    BY <1>5 DEF WriteBlock, BusyInv
  <2>3. [k \in 1..m + 1 - record[t] |-> Entry(search[t], record[t] + k - 1, 1)]
          \in Seq(E(taken))
    <3> HIDE DEF Types, TypeOK, vars, inputs, E
    <3>1. taken \in Nat
      BY DEF Types, TypeOK
    <3> QED
      BY <2>2, <3>1, BlockOfLines DEF E
  <2>4. record' \in [Thread -> Nat \ {0}]
    <3>1. m + 1 \in Nat \ {0}
      BY <2>2
    <3> HIDE DEF vars, inputs
    <3> QED
      BY <2>1, <3>1
  <2>5. stream' \in Seq(E(taken))
    <3> HIDE DEF E
    <3>1. stream \in Seq(E(taken))
      BY DEF E
    <3> HIDE DEF Types, TypeOK, vars, inputs
    <3> QED
      BY <2>1, <2>3, <3>1, ConcatProperties
  <2> QED
    BY <1>5, <2>4, <2>5 DEF WriteBlock
<1>6. ASSUME NEW t \in Thread, Write(t) PROVE TypeOK'
  <2>1. Entry(search[t], record[t], piece[t]) \in E(taken)
    BY <1>6 DEF Write, Entry, BusyInv
  <2>2. stream' \in Seq(E(taken))
    BY <1>6, <2>1 DEF Write
  <2>3. piece' \in [Thread -> Nat \ {0}]
    BY <1>6 DEF Write
  <2> QED
    BY <1>6, <2>2, <2>3 DEF Write
<1>7. ASSUME NEW t \in Thread, Unlock(t) PROVE TypeOK'
  BY <1>3, <1>7 DEF Unlock, Release
<1>8. ASSUME NEW t \in Thread, Lock(t) PROVE TypeOK'
  BY <1>8 DEF Lock
<1>9. ASSUME UNCHANGED vars PROVE TypeOK'
  BY <1>9
<1> HIDE DEF TypeOK
<1>10. TypeOK'
  BY <1>1, <1>2, <1>4, <1>5, <1>6, <1>7, <1>8, <1>9 DEF Next, Step, Done
<1>11. BusyInv'
  BY BusyKept
<1> QED
  BY <1>10, <1>11
------------------------------------------------------------------------------
(* Whole lines *)

\* The number of calls for each record of each file.
Length == [f \in File |-> [r \in Nat |-> Len(Calls(f, r))]]

\* The thread is inside a line.
Mid(t) ==
  /\ pc[t] = "print"
  /\ 1 < piece[t]
  /\ piece[t] <= Length[work[search[t]]][record[t]]

Whole(e) == e.piece = Length[work[e.search]][e.record]

\* Who prints what the mutex guards has it.
MutexInv ==
  \A t \in Thread :
    pc[t] = "print" /\ Guards(work[search[t]], record[t]) => mutex = t

\* The search for a fixed string writes whole lines.
BlocksInv == ~byLines => \A k \in 1..Len(stream) : Whole(stream[k])

\* With the mutex the stream ends inside a line if and only if a thread does,
\* and before that it has whole lines.
TornInv ==
  byLines /\ Locked =>
    /\ \A k \in 1..Len(stream) - 1 :
         ~Whole(stream[k]) =>
           stream[k + 1] = Entry(stream[k].search, stream[k].record, stream[k].piece + 1)
    /\ \A t \in Thread :
         Mid(t) => /\ Len(stream) > 0
                   /\ stream[Len(stream)] = Entry(search[t], record[t], piece[t] - 1)
    /\ Len(stream) > 0 /\ ~Whole(stream[Len(stream)]) => \E t \in Thread : Mid(t)

IInv == Types /\ MutexInv /\ BlocksInv /\ TornInv

LEMMA LengthIs ==
  ASSUME NEW f \in File, NEW r \in Nat
  PROVE  /\ Length[f][r] = Len(Calls(f, r))
         /\ Length[f][r] \in Nat
<1>1. Length[f][r] = Len(Calls(f, r))
  BY DEF Length
<1>2. Calls(f, r) \in Seq(Parts)
  BY CallsAreSequence
<1> QED
  BY <1>1, <1>2

\* What is to be printed is fixed from the beginning.
LEMMA LengthStays == UNCHANGED inputs => Length' = Length
BY DEF inputs, Length, Calls, MainCalls, SummaryCalls, LineCalls, MatchCalls, If, Prints, Examines,
  MainRecord, SummaryRecord

\* A record that is printed by several calls is guarded, and while one is the
\* others that have something to print wait for the mutex.
LEMMA SeveralAreGuarded ==
  ASSUME OutputAssumption, NEW f \in File, NEW r \in Nat, Length[f][r] > 1
  PROVE  /\ byLines
         /\ ~opts.count_only
         /\ Locked => Guards(f, r)
<1>1. byLines /\ ~opts.count_only /\ r \in DOMAIN Lines[f]
  BY LengthIs, SeveralCalls
<1>2. Lines[f] \in Seq(Shape)
  BY DEF OutputAssumption
<1> QED
  BY <1>1, <1>2 DEF Guards, SummaryRecord

LEMMA UnguardedCount ==
  ASSUME OutputAssumption, NEW f \in File, NEW r \in Nat, Length[f][r] > 0,
         byLines, Locked, ~Guards(f, r)
  PROVE  opts.count_only
<1>1. Lines[f] \in Seq(Shape)
  BY DEF OutputAssumption
<1>2. r > SummaryRecord(f)
  BY <1>1 DEF Guards, SummaryRecord
<1>3. Len(Calls(f, r)) > 0
  BY LengthIs
<1>4. r = MainRecord(f)
  BY <1>1, <1>2, <1>3 DEF Calls, SummaryRecord
<1>5. Len(MainCalls(f)) > 0
  BY <1>1, <1>3, <1>4 DEF Calls, MainRecord, SummaryRecord
<1> QED
  BY <1>5 DEF MainCalls, If

\* A line of the search for a fixed string is one call.
LEMMA LineOfBlock ==
  ASSUME OutputAssumption, NEW f \in File, NEW r \in 1..Len(Lines[f]), ~byLines, Prints
  PROVE  Length[f][r] = 1
<1>1. Lines[f] \in Seq(Shape)
  BY DEF OutputAssumption
<1>2. r \in Nat /\ r \in DOMAIN Lines[f] /\ r # MainRecord(f) /\ r # SummaryRecord(f)
  BY <1>1 DEF MainRecord, SummaryRecord
<1>3. Calls(f, r) = <<"whole line">>
  BY <1>2 DEF Calls, LineCalls
<1> QED
  BY <1>2, <1>3, LengthIs

LEMMA InitInv == Init => IInv
<1> SUFFICES ASSUME Init PROVE IInv
  OBVIOUS
<1>1. Types
  BY InitTypes
<1>2. stream = <<>> /\ \A t \in Thread : pc[t] = "idle"
  BY DEF Init
<1> QED
  BY <1>1, <1>2 DEF IInv, MutexInv, BlocksInv, TornInv, Mid

\* The mutex stays with the thread that prints what it guards.
LEMMA MutexKept ==
  ASSUME IInv, [Next]_vars
  PROVE  MutexInv'
<1> SUFFICES ASSUME NEW u \in Thread
             PROVE  (pc[u] = "print" /\ Guards(work[search[u]], record[u]) => mutex = u)'
  BY DEF MutexInv
<1> DEFINE Keeps == (pc[u] = "print" /\ Guards(work[search[u]], record[u]) => mutex = u)'
<1> USE OutputAssumption DEF IInv, Types, TypeOK, MutexInv, BusyInv, Places, inputs, vars,
      FileOf, Guards, Locked, SummaryRecord
<1>1. ASSUME NEW t \in Thread, Take(t) PROVE Keeps
  BY <1>1 DEF Take
<1>2. ASSUME NEW t \in Thread, StartRecord(t) PROVE Keeps
  BY <1>2 DEF StartRecord
<1>3. ASSUME NEW t \in Thread, PassRecord(t) PROVE Keeps
  BY <1>3 DEF PassRecord, Advance
<1>4. ASSUME NEW t \in Thread, WriteBlock(t) PROVE Keeps
  BY <1>4 DEF WriteBlock
<1>5. ASSUME NEW t \in Thread, Lock(t) PROVE Keeps
  BY <1>5 DEF Lock
<1>6. ASSUME NEW t \in Thread, Write(t) PROVE Keeps
  BY <1>6 DEF Write
<1>7. ASSUME NEW t \in Thread, Unlock(t) PROVE Keeps
  BY <1>7 DEF Unlock, Advance, Release
<1>8. CASE UNCHANGED vars
  BY <1>8
<1> QED
  BY <1>1, <1>2, <1>3, <1>4, <1>5, <1>6, <1>7, <1>8 DEF Next, Step, Done

\* A step that writes nothing, and by which no thread comes into a line or out
\* of one, changes nothing of the stream.
LEMMA QuietStep ==
  ASSUME IInv, UNCHANGED <<inputs, stream>>,
         \A u \in Thread :
           \/ ~Mid(u) /\ (pc'[u] # "print" \/ piece'[u] = 1)
           \/ /\ pc'[u] = pc[u]
              /\ piece'[u] = piece[u]
              /\ search'[u] = search[u]
              /\ record'[u] = record[u]
  PROVE  BlocksInv' /\ TornInv'
<1>1. Length' = Length
  BY LengthStays
<1>2. \A u \in Thread :
        IF ~Mid(u) THEN ~Mid(u)'
        ELSE /\ Mid(u)'
             /\ piece'[u] = piece[u] /\ search'[u] = search[u] /\ record'[u] = record[u]
  BY <1>1 DEF Mid, inputs
<1>3. BlocksInv'
  BY <1>1 DEF IInv, BlocksInv, Whole, inputs
<1>4. TornInv'
  BY <1>1, <1>2 DEF IInv, TornInv, Whole, inputs, Locked, Entry
<1> QED
  BY <1>3, <1>4

\* A busy thread is at a record of a file.
LEMMA BusyAt ==
  ASSUME OutputAssumption, Types, NEW t \in Thread, pc[t] # "idle"
  PROVE  /\ search[t] \in 1..taken /\ search[t] \in 1..Len(work)
         /\ work[search[t]] \in File
         /\ record[t] \in Nat \ {0}
         /\ piece[t] \in Nat \ {0}
BY DEF OutputAssumption, Types, TypeOK, BusyInv

\* While one thread is inside a line under the mutex, no other writes.
LEMMA OneWriter ==
  ASSUME OutputAssumption, IInv, byLines, Locked,
         NEW u \in Thread, Mid(u),
         NEW t \in Thread, pc[t] = "print", piece[t] <= Length[work[search[t]]][record[t]]
  PROVE  t = u
<1>1. mutex = u /\ ~opts.count_only
  <2>1. pc[u] = "print"
    BY DEF Mid
  <2>2. /\ work[search[u]] \in File /\ record[u] \in Nat \ {0}
        /\ piece[u] \in Nat \ {0}
    BY <2>1, BusyAt DEF IInv, Places
  <2>3. Length[work[search[u]]][record[u]] > 1
    BY <2>2, LengthIs DEF Mid
  <2> QED
    BY <2>1, <2>2, <2>3, SeveralAreGuarded DEF IInv, MutexInv
<1>2. work[search[t]] \in File /\ record[t] \in Nat \ {0} /\ piece[t] \in Nat \ {0}
  BY BusyAt DEF IInv
<1>3. Length[work[search[t]]][record[t]] > 0
  BY <1>2, LengthIs
<1>4. Guards(work[search[t]], record[t])
  BY <1>1, <1>2, <1>3, UnguardedCount
<1> QED
  BY <1>1, <1>4 DEF IInv, MutexInv

LEMMA BlockKept ==
  ASSUME OutputAssumption, IInv, NEW t \in Thread, WriteBlock(t)
  PROVE  BlocksInv' /\ TornInv'
<1>1. PICK m \in record[t]..Len(Lines[work[search[t]]]) :
        stream' = stream \o [k \in 1..m + 1 - record[t] |->
                                Entry(search[t], record[t] + k - 1, 1)]
  BY DEF WriteBlock, FileOf
<1>2. ~byLines /\ Prints /\ UNCHANGED inputs /\ pc[t] = "scan"
  BY DEF WriteBlock
<1>3. /\ work[search[t]] \in File /\ record[t] \in Nat \ {0}
  BY <1>2, BusyAt DEF IInv
<1>4. Length' = Length
  BY <1>2, LengthStays
<1>5. Len(Lines[work[search[t]]]) \in Nat
  BY <1>3 DEF OutputAssumption
<1> DEFINE n == m + 1 - record[t]
           block == [k \in 1..n |-> Entry(search[t], record[t] + k - 1, 1)]
<1>6. n \in Nat /\ m \in Nat
  BY <1>3, <1>5
<1>7. /\ Len(block) = n
      /\ \A k \in 1..n : block[k] = Entry(search[t], record[t] + k - 1, 1)
  BY <1>6
<1>8. ASSUME NEW k \in 1..n PROVE Whole(block[k])
  <2>1. record[t] + k - 1 \in 1..Len(Lines[work[search[t]]])
    BY <1>3, <1>5, <1>6
  <2>2. Length[work[search[t]]][record[t] + k - 1] = 1
    BY <1>2, <1>3, <2>1, LineOfBlock
  <2>3. block[k] = Entry(search[t], record[t] + k - 1, 1)
    BY <1>7
  <2> HIDE DEF block, n
  <2> QED
    BY <2>2, <2>3 DEF Whole, Entry
<1>9. \A k \in 1..Len(stream) : Whole(stream[k])
  BY <1>2 DEF IInv, BlocksInv
<1>10. Len(stream) \in Nat
  BY DEF IInv, Types, TypeOK
<1>11. PICK E : stream \in Seq(E) /\ block \in Seq(E)
  <2>1. search[t] \in 1..taken /\ taken \in Nat
    BY <1>2, BusyAt DEF IInv, Types, TypeOK
  <2>2. block \in Seq([search : 1..taken, record : Nat \ {0}, piece : Nat \ {0}])
    <3>1. record[t] <= m
      BY <1>3, <1>5
    <3> QED
      BY <1>3, <1>6, <2>1, <3>1, BlockOfLines
  <2> QED
    BY <2>2 DEF IInv, Types, TypeOK
<1>12. /\ Len(stream') = Len(stream) + n
       /\ \A k \in 1..Len(stream') :
            stream'[k] = IF k <= Len(stream) THEN stream[k] ELSE block[k - Len(stream)]
  <2> HIDE DEF block, n
  <2>1. stream' = stream \o block
    BY <1>1 DEF block, n
  <2> QED
    BY <1>7, <1>11, <2>1, ConcatProperties
<1> HIDE DEF block, n
<1>13. \A k \in 1..Len(stream') : Whole(stream'[k])
  BY <1>6, <1>8, <1>9, <1>10, <1>12
<1>14. BlocksInv'
  BY <1>2, <1>4, <1>13 DEF BlocksInv, Whole, inputs
<1> QED
  BY <1>2, <1>14 DEF TornInv, inputs

LEMMA WriteKept ==
  ASSUME OutputAssumption, IInv, NEW t \in Thread, Write(t)
  PROVE  BlocksInv' /\ TornInv'
<1> DEFINE e == Entry(search[t], record[t], piece[t])
           n == Length[work[search[t]]][record[t]]
           L == Len(stream)
<1>1. /\ pc[t] = "print" /\ UNCHANGED <<inputs, pc, search, record>>
      /\ stream' = Append(stream, e)
      /\ piece' = [piece EXCEPT ![t] = @ + 1]
  BY DEF Write
<1>2. /\ work[search[t]] \in File /\ record[t] \in Nat \ {0} /\ piece[t] \in Nat \ {0}
  BY <1>1, BusyAt DEF IInv
<1>3. n \in Nat /\ piece[t] <= n
  BY <1>2, LengthIs DEF Write, FileOf
<1>4. Length' = Length
  BY <1>1, LengthStays
<1>5. /\ L \in Nat /\ Len(stream') = L + 1 /\ stream'[L + 1] = e
      /\ \A k \in 1..L : stream'[k] = stream[k]
  BY <1>1 DEF IInv, Types, TypeOK
<1>6. e.search = search[t] /\ e.record = record[t] /\ e.piece = piece[t]
  BY DEF Entry
<1>7. piece' \in [Thread -> Nat \ {0}]
      /\ piece'[t] = piece[t] + 1 /\ \A u \in Thread \ {t} : piece'[u] = piece[u]
  BY SMTT(20), <1>1, <1>2 DEF IInv, Types, TypeOK
<1> HIDE DEF e, n, L
<1>8. BlocksInv'
  <2> SUFFICES ASSUME ~byLines PROVE \A k \in 1..L + 1 : Whole(stream'[k])
    BY <1>1, <1>4, <1>5 DEF BlocksInv, Whole, inputs
  <2>1. n = piece[t]
    BY <1>2, <1>3, SeveralAreGuarded DEF n
  <2>2. Whole(e)
    BY <1>6, <2>1 DEF Whole, n
  <2> QED
    BY <1>5, <2>2 DEF IInv, BlocksInv, L
<1>9. TornInv'
  <2> SUFFICES ASSUME byLines, Locked
               PROVE  TornInv'
    BY <1>1 DEF TornInv, inputs, Locked
  <2>1. \A u \in Thread : Mid(u) => u = t
    BY <1>1, <1>3, OneWriter DEF n
  <2>2. \A u \in Thread \ {t} : ~Mid(u)'
    BY <1>1, <1>4, <1>7, <2>1 DEF Mid, inputs
  <2>3. Mid(t)' <=> piece[t] + 1 <= n
    BY <1>1, <1>2, <1>4, <1>7 DEF Mid, inputs, n
  <2>4. L > 0 /\ ~Whole(stream[L]) => e = Entry(stream[L].search, stream[L].record, stream[L].piece + 1)
    <3> SUFFICES ASSUME L > 0, ~Whole(stream[L])
                 PROVE  e = Entry(stream[L].search, stream[L].record, stream[L].piece + 1)
      OBVIOUS
    <3>1. Mid(t)
      BY <2>1 DEF IInv, TornInv, L
    <3>2. stream[L] = Entry(search[t], record[t], piece[t] - 1)
      BY <3>1 DEF IInv, TornInv, L
    <3> QED
      BY <1>2, <3>2 DEF Entry, e
  <2>5. \A k \in 1..L :
          ~Whole(stream'[k]) =>
            stream'[k + 1] = Entry(stream'[k].search, stream'[k].record, stream'[k].piece + 1)
    <3> SUFFICES ASSUME NEW k \in 1..L, ~Whole(stream[k])
                 PROVE  stream'[k + 1] = Entry(stream[k].search, stream[k].record, stream[k].piece + 1)
      BY <1>5
    <3>1. CASE k = L
      BY <1>5, <2>4, <3>1
    <3>2. CASE k # L
      <4>1. k \in 1..L - 1 /\ k + 1 \in 1..L
        BY <1>5, <3>2
      <4> QED
        BY <1>5, <4>1 DEF IInv, TornInv, L
    <3> QED
      BY <3>1, <3>2
  <2>6. Mid(t)' => /\ Len(stream') > 0
                   /\ stream'[Len(stream')] = Entry(search'[t], record'[t], piece'[t] - 1)
    BY <1>1, <1>2, <1>5, <1>7 DEF e
  <2>7. ~Whole(e) => Mid(t)'
    BY <1>2, <1>3, <1>6, <2>3 DEF Whole, n
  <2>8. \A k \in 1..Len(stream') - 1 :
          ~Whole(stream'[k]) =>
            stream'[k + 1] = Entry(stream'[k].search, stream'[k].record, stream'[k].piece + 1)
    BY <1>5, <2>5
  <2>9. \A f : Whole(f)' <=> Whole(f)
    BY <1>1, <1>4 DEF Whole, inputs
  <2> QED
    BY <1>1, <1>4, <1>5, <2>2, <2>6, <2>7, <2>8 DEF TornInv, Whole, inputs, Entry
<1> QED
  BY <1>8, <1>9

LEMMA InvKept ==
  ASSUME OutputAssumption, IInv, [Next]_vars
  PROVE  IInv'
<1>1. Types'
  BY TypesKept DEF IInv
<1>2. MutexInv'
  BY MutexKept
<1> USE DEF inputs, vars, Places
<1>3. ASSUME NEW t \in Thread, Take(t) PROVE BlocksInv' /\ TornInv'
  <2>1. pc[t] = "idle" /\ pc'[t] # "print"
    BY <1>3 DEF Take, IInv, Types, TypeOK
  <2>2. UNCHANGED <<inputs, stream>>
    BY <1>3 DEF Take
  <2>3. \A u \in Thread \ {t} : /\ pc'[u] = pc[u] /\ piece'[u] = piece[u]
                              /\ search'[u] = search[u] /\ record'[u] = record[u]
    BY <1>3 DEF Take, IInv, Types, TypeOK
  <2>4. ~Mid(t)
    BY <2>1 DEF Mid
  <2> QED
    BY <2>1, <2>2, <2>3, <2>4, QuietStep
<1>4. ASSUME NEW t \in Thread, StartRecord(t) PROVE BlocksInv' /\ TornInv'
  <2>1. pc[t] = "scan" /\ piece'[t] = 1
    BY <1>4 DEF StartRecord, IInv, Types, TypeOK
  <2>2. UNCHANGED <<inputs, stream>>
    BY <1>4 DEF StartRecord
  <2>3. \A u \in Thread \ {t} : /\ pc'[u] = pc[u] /\ piece'[u] = piece[u]
                              /\ search'[u] = search[u] /\ record'[u] = record[u]
    BY <1>4 DEF StartRecord, IInv, Types, TypeOK
  <2>4. ~Mid(t)
    BY <2>1 DEF Mid
  <2> QED
    BY <2>1, <2>2, <2>3, <2>4, QuietStep
<1>5. ASSUME NEW t \in Thread, PassRecord(t) PROVE BlocksInv' /\ TornInv'
  <2>1. pc[t] = "scan" /\ pc'[t] # "print"
    BY <1>5 DEF PassRecord, Advance, IInv, Types, TypeOK
  <2>2. UNCHANGED <<inputs, stream>>
    BY <1>5 DEF PassRecord
  <2>3. \A u \in Thread \ {t} : /\ pc'[u] = pc[u] /\ piece'[u] = piece[u]
                              /\ search'[u] = search[u] /\ record'[u] = record[u]
    BY <1>5 DEF PassRecord, Advance, IInv, Types, TypeOK
  <2>4. ~Mid(t)
    BY <2>1 DEF Mid
  <2> QED
    BY <2>1, <2>2, <2>3, <2>4, QuietStep
<1>6. ASSUME NEW t \in Thread, Lock(t) PROVE BlocksInv' /\ TornInv'
  <2>1. pc[t] = "lock" /\ piece'[t] = 1
    BY <1>6 DEF Lock, IInv, Types, BusyInv
  <2>2. ~Mid(t)
    BY <2>1 DEF Mid
  <2>3. \A u \in Thread \ {t} : /\ pc'[u] = pc[u] /\ piece'[u] = piece[u]
                              /\ search'[u] = search[u] /\ record'[u] = record[u]
    BY <1>6 DEF Lock, IInv, Types, TypeOK
  <2> QED
    BY <1>6, <2>1, <2>2, <2>3, QuietStep DEF Lock
<1>7. ASSUME NEW t \in Thread, Unlock(t) PROVE BlocksInv' /\ TornInv'
  <2>1. /\ work[search[t]] \in File /\ record[t] \in Nat \ {0} /\ piece[t] \in Nat \ {0}
    BY <1>7, BusyAt DEF Unlock, IInv
  <2>2. ~Mid(t) /\ pc'[t] # "print"
    BY <1>7, <2>1, LengthIs DEF Unlock, Advance, Mid, FileOf, IInv, Types, TypeOK
  <2>3. UNCHANGED <<inputs, stream>>
    BY <1>7 DEF Unlock
  <2>4. \A u \in Thread \ {t} : /\ pc'[u] = pc[u] /\ piece'[u] = piece[u]
                              /\ search'[u] = search[u] /\ record'[u] = record[u]
    BY <1>7 DEF Unlock, Advance, IInv, Types, TypeOK
  <2> QED
    BY <2>2, <2>3, <2>4, QuietStep
<1>8. ASSUME UNCHANGED vars PROVE BlocksInv' /\ TornInv'
  BY <1>8, QuietStep
<1>9. BlocksInv' /\ TornInv'
  BY <1>3, <1>4, <1>5, <1>6, <1>7, <1>8, BlockKept, WriteKept DEF Next, Step, Done
<1> QED
  BY <1>1, <1>2, <1>9 DEF IInv

\* The invariant says what WholeLines says.
LEMMA LinesFromInv ==
  ASSUME OutputAssumption, IInv
  PROVE  WholeLines
<1> SUFFICES ASSUME Locked, NEW k \in 1..Len(stream) - 1, ~Closes(stream[k])
             PROVE  stream[k + 1] = Entry(stream[k].search, stream[k].record, stream[k].piece + 1)
  BY DEF WholeLines
<1>1. k \in 1..Len(stream)
  BY DEF IInv, Types, TypeOK
<1>2. stream[k].search \in 1..Len(work) /\ stream[k].record \in Nat
  <2>1. stream[k] \in [search : 1..taken, record : Nat \ {0}, piece : Nat \ {0}]
    <3>1. stream \in Seq([search : 1..taken, record : Nat \ {0}, piece : Nat \ {0}])
      BY DEF IInv, Types, TypeOK
    <3> QED
      BY <1>1, <3>1, ElementOfSeq
  <2>2. 1..taken \subseteq 1..Len(work)
    BY DEF IInv, Types, TypeOK
  <2> QED
    BY <2>1, <2>2
<1>3. work[stream[k].search] \in File
  BY <1>2, ElementOfSeq DEF IInv, Types, TypeOK
<1>4. ~Whole(stream[k])
  BY <1>2, <1>3, LengthIs DEF Whole, Closes
<1>5. CASE byLines
  BY <1>4, <1>5 DEF IInv, TornInv
<1>6. CASE ~byLines
  BY <1>1, <1>4, <1>6 DEF IInv, BlocksInv
<1> QED
  BY <1>5, <1>6

\* Every state is well typed.
THEOREM TypeCorrect == Spec => []TypeOK
<1>1. Init => Types
  BY InitTypes
<1>2. Types /\ [Next]_vars => Types'
  BY TypesKept
<1>3. Types => TypeOK
  BY DEF Types
<1> QED
  BY <1>1, <1>2, <1>3, PTL DEF Spec

\* With --color or -l no line is torn, whatever the threads, the files and the
\* other options are (src/search.c:46-52, src/output.c:11-54).
THEOREM LinesAreWhole == Spec => []WholeLines
<1>1. Init => IInv
  BY InitInv
<1>2. IInv /\ [Next]_vars => IInv'
  BY InvKept, OutputAssumption
<1>3. IInv => WholeLines
  BY LinesFromInv, OutputAssumption
<1> QED
  BY <1>1, <1>2, <1>3, PTL DEF Spec
------------------------------------------------------------------------------
(* The output of each search *)

\* The number of records of each file.
Records == [f \in File |-> MainRecord(f)]

\* All that is to be printed by any search.
Entries ==
  {e \in [search : 1..Len(work), record : Nat \ {0}, piece : Nat \ {0}] :
     /\ e.record <= Records[work[e.search]]
     /\ e.piece <= Length[work[e.search]][e.record]}

\* Where each thread is in the output of its search.
At ==
  [t \in Thread |->
     [search |-> search[t],
      record |-> record[t],
      piece  |-> IF pc[t] = "print" THEN piece[t] ELSE 1]]

Written == {stream[k] : k \in 1..Len(stream)}

\* A busy thread is at a record of its file, and at most behind the last call.
PlaceInv ==
  \A t \in Thread : pc[t] # "idle" =>
    /\ record[t] <= Records[work[search[t]]]
    /\ pc[t] = "print" => piece[t] <= Length[work[search[t]]][record[t]] + 1
    /\ \A u \in Thread : pc[u] # "idle" /\ search[u] = search[t] => u = t

\* Of a search that is under way what lies behind its thread is written, of one
\* that is over everything, and of the others nothing.
FrontInv ==
  /\ \A t \in Thread : pc[t] # "idle" =>
       \A e \in Entries : e.search = search[t] => (e \in Written <=> Before(e, At[t]))
  /\ \A e \in Entries :
       /\ e.search > taken => e \notin Written
       /\ e.search <= taken /\ (\A t \in Thread : pc[t] # "idle" => search[t] # e.search)
            => e \in Written

\* What was written is preceded by what belongs before it.
OrderInv ==
  \A k \in 1..Len(stream) :
    /\ stream[k] \in Entries
    /\ \A e \in Entries : e.search = stream[k].search =>
         (Before(e, stream[k]) <=> \E j \in 1..k - 1 : stream[j] = e)

OwnInv == Types /\ PlaceInv /\ FrontInv /\ OrderInv

LEMMA RecordsIs ==
  ASSUME OutputAssumption, NEW f \in File
  PROVE  Records[f] = Len(Lines[f]) + 2 /\ Len(Lines[f]) \in Nat
BY DEF OutputAssumption, Records, MainRecord

LEMMA EntriesStay == UNCHANGED inputs => Entries' = Entries /\ Records' = Records
<1> SUFFICES ASSUME UNCHANGED inputs PROVE Entries' = Entries /\ Records' = Records
  OBVIOUS
<1>1. Length' = Length
  BY LengthStays
<1>2. Records' = Records
  BY DEF Records, MainRecord
<1> QED
  BY <1>1, <1>2 DEF Entries, inputs

LEMMA InitOwn == OutputAssumption /\ Init => OwnInv
<1> SUFFICES ASSUME OutputAssumption, Init PROVE OwnInv
  OBVIOUS
<1>1. Types
  BY InitTypes
<1>2. stream = <<>> /\ Len(stream) = 0 /\ taken = 0 /\ \A t \in Thread : pc[t] = "idle"
  BY DEF Init
<1>3. Written = {}
  BY <1>2 DEF Written
<1>4. FrontInv
  BY <1>2, <1>3 DEF FrontInv, Entries
<1> QED
  BY <1>1, <1>2, <1>4 DEF OwnInv, PlaceInv, OrderInv

\* A step by which one thread moves on without writing: what lies behind it does
\* not change, or all of its search lies behind it.
LEMMA MoveOn ==
  ASSUME OwnInv, Types', PlaceInv',
         UNCHANGED <<inputs, taken, stream>>,
         NEW t \in Thread, pc[t] # "idle",
         \A u \in Thread \ {t} : pc'[u] = pc[u] /\ At'[u] = At[u] /\ search'[u] = search[u],
         search'[t] = search[t],
         \A e \in Entries : e.search = search[t] =>
           IF pc'[t] = "idle" THEN Before(e, At[t]) ELSE Before(e, At'[t]) <=> Before(e, At[t])
  PROVE  OwnInv'
<1>1. Entries' = Entries
  BY EntriesStay
<1>2. Written' = Written
  BY DEF Written
<1>3. OrderInv'
  BY <1>1 DEF OwnInv, OrderInv
<1>4. ASSUME NEW u \in Thread, pc'[u] # "idle", NEW e \in Entries, e.search = search'[u]
      PROVE  e \in Written <=> Before(e, At'[u])
  <2>1. pc[u] # "idle" /\ search'[u] = search[u] /\ (Before(e, At'[u]) <=> Before(e, At[u]))
    BY <1>4
  <2> QED
    BY <1>4, <2>1 DEF OwnInv, FrontInv
<1>5. ASSUME NEW e \in Entries, e.search <= taken,
             \A u \in Thread : pc'[u] # "idle" => search'[u] # e.search
      PROVE  e \in Written
  <2>1. CASE \E u \in Thread : pc[u] # "idle" /\ search[u] = e.search
    <3>1. search[t] = e.search /\ pc'[t] = "idle"
      BY <1>5, <2>1
    <3> QED
      BY <3>1 DEF OwnInv, FrontInv
  <2>2. CASE ~\E u \in Thread : pc[u] # "idle" /\ search[u] = e.search
    BY <1>5, <2>2 DEF OwnInv, FrontInv
  <2> QED
    BY <2>1, <2>2
<1>6. FrontInv'
  BY <1>1, <1>2, <1>4, <1>5 DEF FrontInv, OwnInv
<1> QED
  BY <1>3, <1>6 DEF OwnInv

\* A step that changes the place of no thread.
LEMMA NoMove ==
  ASSUME OwnInv, Types', PlaceInv',
         UNCHANGED <<inputs, taken, stream, search>>,
         \A u \in Thread : At'[u] = At[u] /\ (pc'[u] = "idle" <=> pc[u] = "idle")
  PROVE  OwnInv'
<1>1. Entries' = Entries /\ Written' = Written
  BY EntriesStay DEF Written
<1>2. OrderInv'
  BY <1>1 DEF OwnInv, OrderInv
<1>3. FrontInv'
  BY <1>1 DEF OwnInv, FrontInv
<1> QED
  BY <1>2, <1>3 DEF OwnInv

\* A thread that begins a search is alone with it, and at its beginning.
LEMMA TakeKept ==
  ASSUME OutputAssumption, OwnInv, Types', NEW t \in Thread, Take(t)
  PROVE  OwnInv'
<1>1. /\ pc[t] = "idle" /\ taken < Len(work) /\ taken' = taken + 1
      /\ UNCHANGED <<inputs, stream, piece>>
      /\ pc'[t] = "scan" /\ search'[t] = taken + 1 /\ record'[t] = 1
      /\ \A u \in Thread \ {t} : /\ pc'[u] = pc[u]
                               /\ search'[u] = search[u]
                               /\ record'[u] = record[u]
      /\ taken \in Nat /\ Len(work) \in Nat
  BY DEF Take, OwnInv, Types, TypeOK
<1>2. Entries' = Entries /\ Records' = Records /\ Length' = Length /\ Written' = Written
  BY <1>1, EntriesStay, LengthStays DEF Written
<1>3. \A u \in Thread : pc[u] # "idle" => search[u] \in 1..taken
  BY DEF OwnInv, Types, BusyInv
<1>4. At'[t] = [search |-> taken + 1, record |-> 1, piece |-> 1]
      /\ \A u \in Thread \ {t} : At'[u] = At[u]
  BY <1>1 DEF At
<1>5. PlaceInv'
  <2>1. work[taken + 1] \in File
    BY <1>1, ElementOfSeq DEF OwnInv, Types, TypeOK
  <2>2. 1 <= Records[work[taken + 1]]
    BY <2>1, RecordsIs
  <2>3. UNCHANGED work
    BY <1>1 DEF inputs
  <2> QED
    BY <1>1, <1>2, <1>3, <2>2, <2>3 DEF OwnInv, PlaceInv
<1>6. OrderInv'
  BY <1>1, <1>2 DEF OwnInv, OrderInv
<1>7. \A e \in Entries : e.record \in Nat \ {0} /\ e.piece \in Nat \ {0} /\ e.search \in Nat
  BY DEF Entries
<1>8. FrontInv'
  <2>1. ASSUME NEW e \in Entries, e.search = taken + 1
        PROVE  e \notin Written /\ ~Before(e, At'[t])
    BY <1>1, <1>4, <1>7, <2>1 DEF OwnInv, FrontInv, Before
  <2>2. ASSUME NEW u \in Thread, pc'[u] # "idle", NEW e \in Entries, e.search = search'[u]
        PROVE  e \in Written <=> Before(e, At'[u])
    BY <1>1, <1>4, <2>1, <2>2 DEF OwnInv, FrontInv
  <2>3. ASSUME NEW e \in Entries, e.search > taken + 1
        PROVE  e \notin Written
    BY <1>1, <1>7, <2>3 DEF OwnInv, FrontInv
  <2>4. ASSUME NEW e \in Entries, e.search <= taken + 1,
               \A u \in Thread : pc'[u] # "idle" => search'[u] # e.search
        PROVE  e \in Written
    <3>1. e.search # taken + 1
      BY <1>1, <2>4
    <3>2. e.search <= taken
      BY <1>1, <1>7, <2>4, <3>1
    <3> QED
      BY <1>1, <2>4, <3>2 DEF OwnInv, FrontInv
  <2> QED
    BY <1>1, <1>2, <2>2, <2>3, <2>4 DEF FrontInv
<1> QED
  BY <1>5, <1>6, <1>8 DEF OwnInv

LEMMA EntryIs ==
  ASSUME NEW e \in Entries
  PROVE  /\ e.search \in 1..Len(work)
         /\ e.record \in Nat \ {0}
         /\ e.piece \in Nat \ {0}
         /\ e.record <= Records[work[e.search]]
         /\ e.piece <= Length[work[e.search]][e.record]
BY DEF Entries

\* A thread between two records.
LEMMA StartKept ==
  ASSUME OutputAssumption, OwnInv, Types', NEW t \in Thread, StartRecord(t) \/ Lock(t)
  PROVE  OwnInv'
<1>1. /\ pc[t] \in {"scan", "lock"} /\ pc'[t] \in {"lock", "print"} /\ piece'[t] = 1
      /\ UNCHANGED <<inputs, taken, search, record, stream>>
      /\ \A u \in Thread \ {t} : pc'[u] = pc[u] /\ piece'[u] = piece[u]
  BY DEF StartRecord, Lock, OwnInv, Types, TypeOK, BusyInv
<1>2. At' = At
  BY <1>1 DEF At
<1>3. PlaceInv'
  <2>1. Records' = Records /\ Length' = Length
    BY <1>1, EntriesStay, LengthStays
  <2>2. work[search[t]] \in File /\ record[t] \in Nat
    BY <1>1, BusyAt DEF OwnInv
  <2>3. Length[work[search[t]]][record[t]] \in Nat
    BY <2>2, LengthIs
  <2>4. UNCHANGED work
    BY <1>1 DEF inputs
  <2> QED
    BY <1>1, <2>1, <2>3, <2>4 DEF OwnInv, PlaceInv
<1> QED
  BY <1>1, <1>2, <1>3, NoMove

\* A thread that is through with a record.
LEMMA AdvanceKept ==
  ASSUME OutputAssumption, OwnInv, Types', NEW t \in Thread, PassRecord(t) \/ Unlock(t)
  PROVE  OwnInv'
<1> DEFINE f == work[search[t]]
           r == record[t]
<1>1. /\ pc[t] \in {"scan", "print"} /\ Advance(t)
      /\ UNCHANGED <<inputs, taken, search, piece, stream>>
  BY DEF PassRecord, Unlock
<1>2. f \in File /\ r \in Nat \ {0} /\ piece[t] \in Nat \ {0}
  BY <1>1, BusyAt DEF OwnInv
<1>3. /\ record'[t] = r + 1
      /\ pc'[t] = IF r = Records[f] THEN "idle" ELSE "scan"
      /\ \A u \in Thread \ {t} : pc'[u] = pc[u] /\ record'[u] = record[u]
  BY <1>1, <1>2 DEF Advance, OwnInv, Types, TypeOK, FileOf, Records
<1>4. /\ At[t].search = search[t] /\ At[t].record = r /\ At[t].piece > Length[f][r]
      /\ At[t].piece \in Nat
  <2>1. Length[f][r] \in Nat /\ Length[f][r] = Len(Calls(f, r))
    BY <1>2, LengthIs
  <2>2. CASE PassRecord(t)
    <3>1. Length[f][r] = 0 /\ pc[t] = "scan"
      BY <2>1, <2>2 DEF PassRecord, FileOf
    <3> QED
      BY <3>1 DEF At
  <2>3. CASE Unlock(t)
    <3>1. pc[t] = "print" /\ piece[t] > Length[f][r]
      BY <2>1, <2>3 DEF Unlock, FileOf
    <3> QED
      BY <1>2, <3>1 DEF At
  <2> QED
    BY <2>2, <2>3
<1>5. At'[t] = [search |-> search[t], record |-> r + 1, piece |-> 1] \/ pc'[t] = "idle"
  BY <1>1, <1>3 DEF At
<1>6. \A u \in Thread \ {t} : At'[u] = At[u]
  BY <1>1, <1>3 DEF At
<1>7. Records[f] \in Nat /\ r <= Records[f]
  BY <1>1, <1>2, RecordsIs DEF OwnInv, PlaceInv
<1>8. PlaceInv'
  <2>1. Records' = Records /\ Length' = Length /\ UNCHANGED work
    BY <1>1, EntriesStay, LengthStays DEF inputs
  <2> QED
    BY SMTT(20), <1>1, <1>2, <1>3, <1>7, <2>1 DEF OwnInv, PlaceInv
<1>9. ASSUME NEW e \in Entries, e.search = search[t]
      PROVE  IF pc'[t] = "idle" THEN Before(e, At[t]) ELSE Before(e, At'[t]) <=> Before(e, At[t])
  <2>1. e.record \in Nat /\ e.piece \in Nat \ {0} /\ e.record <= Records[f]
        /\ e.piece <= Length[f][e.record] /\ Length[f][e.record] \in Nat
    BY <1>2, <1>9, EntryIs, LengthIs
  <2>2. e.record = r => e.piece < At[t].piece
    <3>1. Length[f][r] \in Nat
      BY <1>2, LengthIs
    <3> QED
      BY <1>4, <2>1, <3>1
  <2>3. Before(e, At[t]) <=> e.record <= r
    BY <1>2, <1>4, <2>1, <2>2 DEF Before
  <2>4. CASE pc'[t] = "idle"
    BY <1>2, <1>3, <1>7, <2>1, <2>3, <2>4
  <2>5. CASE pc'[t] # "idle"
    <3>1. Before(e, At'[t]) <=> e.record <= r
      BY <1>2, <1>5, <2>1, <2>5 DEF Before
    <3> QED
      BY <2>3, <2>5, <3>1
  <2> QED
    BY <2>4, <2>5
<1>10. pc[t] # "idle" /\ search'[t] = search[t]
       /\ \A u \in Thread \ {t} : pc'[u] = pc[u] /\ At'[u] = At[u] /\ search'[u] = search[u]
  BY <1>1, <1>3, <1>6
<1> QED
  BY <1>1, <1>8, <1>9, <1>10, MoveOn

LEMMA BehindOrNot ==
  ASSUME NEW l \in Nat, NEW n \in Nat, NEW k \in 1..l + n
  PROVE  k \in 1..l \/ (k - l \in 1..n /\ l + (k - l) = k)
OBVIOUS

\* A thread appends n calls, of which the k-th is places[k], and what lies behind
\* it before each of them is what is written by then.
Appends(t, n, places) ==
  /\ UNCHANGED <<inputs, taken, pc, search>>
  /\ Len(stream') = Len(stream) + n
  /\ \A k \in 1..Len(stream) : stream'[k] = stream[k]
  /\ \A k \in 1..n : /\ stream'[Len(stream) + k] = places[k]
                     /\ places[k] \in Entries
                     /\ places[k].search = search[t]
  /\ \A k \in 1..n, e \in Entries :
       e.search = search[t] =>
         (Before(e, places[k]) <=>
            Before(e, At[t]) \/ \E j \in 1..k - 1 : places[j] = e)
  /\ \A e \in Entries :
       e.search = search[t] =>
         (Before(e, At'[t]) <=>
            Before(e, At[t]) \/ \E j \in 1..n : places[j] = e)
  /\ \A u \in Thread \ {t} : At'[u] = At[u]

\* What is appended is what comes next of the search.
LEMMA AppendKept ==
  ASSUME OwnInv, Types', PlaceInv',
         NEW t \in Thread, pc[t] # "idle",
         NEW n \in Nat, NEW places, Appends(t, n, places)
  PROVE  OwnInv'
<1>a. /\ UNCHANGED <<inputs, taken, pc, search>>
      /\ Len(stream') = Len(stream) + n
      /\ \A k \in 1..Len(stream) : stream'[k] = stream[k]
      /\ \A k \in 1..n : /\ stream'[Len(stream) + k] = places[k]
                         /\ places[k] \in Entries
                         /\ places[k].search = search[t]
  BY DEF Appends
<1>b. \A k \in 1..n, e \in Entries :
        e.search = search[t] =>
          (Before(e, places[k]) <=>
             Before(e, At[t]) \/ \E j \in 1..k - 1 : places[j] = e)
  BY DEF Appends
<1>c. /\ \A e \in Entries :
           e.search = search[t] =>
             (Before(e, At'[t]) <=>
                Before(e, At[t]) \/ \E j \in 1..n : places[j] = e)
      /\ \A u \in Thread \ {t} : At'[u] = At[u]
  BY DEF Appends
<1> USE <1>a, <1>b, <1>c
<1> DEFINE L == Len(stream)
           New == {places[k] : k \in 1..n}
<1>1. L \in Nat
  BY DEF OwnInv, Types, TypeOK
<1>2. Entries' = Entries
  BY EntriesStay
<1>3. Written' = Written \cup New
  <2>1. \A k \in 1..L + n : k \in 1..L \/ (k - L \in 1..n /\ L + (k - L) = k)
    BY <1>1, BehindOrNot
  <2>2. \A k \in 1..L : k \in 1..L + n
    BY <1>1
  <2>3. \A k \in 1..n : L + k \in 1..L + n
    BY <1>1
  <2>4. Len(stream') = L + n
    OBVIOUS
  <2>5. ASSUME NEW e \in Written' PROVE e \in Written \cup New
    <3>1. PICK k \in 1..L + n : e = stream'[k]
      BY <2>4 DEF Written
    <3>2. CASE k \in 1..L
      BY <3>1, <3>2 DEF Written
    <3>3. CASE k \notin 1..L
      <4>1. PICK j \in 1..n : k = L + j
        BY <2>1, <3>3
      <4> QED
        BY <3>1, <4>1
    <3> QED
      BY <3>2, <3>3
  <2>6. ASSUME NEW e \in Written PROVE e \in Written'
    <3>1. PICK k \in 1..L : e = stream[k]
      BY DEF Written
    <3>2. k \in 1..Len(stream') /\ stream'[k] = e
      BY <2>2, <2>4, <3>1
    <3> QED
      BY <3>2 DEF Written
  <2>7. ASSUME NEW e \in New PROVE e \in Written'
    <3>1. PICK k \in 1..n : e = places[k]
      OBVIOUS
    <3>2. L + k \in 1..Len(stream') /\ stream'[L + k] = e
      BY <2>3, <2>4, <3>1
    <3> QED
      BY <3>2 DEF Written
  <2> QED
    BY <2>5, <2>6, <2>7
<1>4. \A e \in New : e.search = search[t]
  OBVIOUS
<1> HIDE DEF L, New
<1>5. ASSUME NEW e \in Entries, e.search = search[t]
      PROVE  e \in Written' <=> Before(e, At'[t])
  <2>1. e \in Written <=> Before(e, At[t])
    BY <1>5 DEF OwnInv, FrontInv
  <2>2. e \in New <=> \E j \in 1..n : places[j] = e
    BY DEF New
  <2> QED
    BY <1>3, <1>5, <2>1, <2>2
<1>6. ASSUME NEW u \in Thread, pc[u] # "idle", NEW e \in Entries, e.search = search[u]
      PROVE  e \in Written' <=> Before(e, At'[u])
  <2>1. CASE u = t
    BY <1>5, <1>6, <2>1
  <2>2. CASE u # t
    <3>1. search[u] # search[t]
      BY <1>6, <2>2 DEF OwnInv, PlaceInv
    <3>2. e \notin New
      BY <1>4, <1>6, <3>1
    <3> QED
      BY <1>3, <1>6, <2>2, <3>2 DEF OwnInv, FrontInv
  <2> QED
    BY <2>1, <2>2
<1>7. ASSUME NEW e \in Entries
      PROVE  /\ e.search > taken => e \notin Written'
             /\ e.search <= taken /\ (\A u \in Thread : pc[u] # "idle" => search[u] # e.search)
                  => e \in Written'
  <2>1. search[t] \in 1..taken /\ taken \in Nat
    BY DEF OwnInv, Types, TypeOK, BusyInv
  <2>2. e \in New => ~(e.search > taken)
    BY <1>4, <2>1
  <2> QED
    BY <1>3, <2>2 DEF OwnInv, FrontInv
<1>8. FrontInv'
  BY <1>2, <1>6, <1>7 DEF FrontInv
<1>9. ASSUME NEW k \in 1..L + n
      PROVE  /\ stream'[k] \in Entries
             /\ \A e \in Entries : e.search = stream'[k].search =>
                  (Before(e, stream'[k]) <=> \E j \in 1..k - 1 : stream'[j] = e)
  <2>1. CASE k \in 1..L
    <3>1. stream'[k] = stream[k] /\ \A j \in 1..k - 1 : stream'[j] = stream[j]
      BY <1>1, <2>1 DEF L
    <3> QED
      BY <2>1, <3>1 DEF OwnInv, OrderInv, L
  <2>2. CASE k \notin 1..L
    <3> DEFINE i == k - L
    <3>1. i \in 1..n /\ k = L + i
      BY <1>1, <2>2
    <3>2. stream'[k] = places[i] /\ places[i] \in Entries /\ places[i].search = search[t]
      BY <3>1 DEF L
    <3> HIDE DEF i
    <3>3. ASSUME NEW e \in Entries, e.search = search[t]
          PROVE  Before(e, places[i]) <=> \E j \in 1..k - 1 : stream'[j] = e
      <4>1. Before(e, places[i]) <=> e \in Written \/ \E j \in 1..i - 1 : places[j] = e
        BY <3>1, <3>3 DEF OwnInv, FrontInv
      <4>2. ASSUME e \in Written PROVE \E j \in 1..k - 1 : stream'[j] = e
        <5>1. PICK j \in 1..L : stream[j] = e
          BY <4>2 DEF Written, L
        <5>2. j \in 1..k - 1 /\ stream'[j] = e
          BY <1>1, <3>1, <5>1 DEF L
        <5> QED
          BY <5>2
      <4>3. ASSUME NEW j \in 1..i - 1, places[j] = e PROVE \E h \in 1..k - 1 : stream'[h] = e
        <5>1. L + j \in 1..k - 1 /\ j \in 1..n
          BY <1>1, <3>1
        <5>2. stream'[L + j] = e
          BY <4>3, <5>1 DEF L
        <5> QED
          BY <5>1, <5>2
      <4>4. ASSUME NEW j \in 1..k - 1, stream'[j] = e
            PROVE  e \in Written \/ \E h \in 1..i - 1 : places[h] = e
        <5>1. CASE j \in 1..L
          BY <4>4, <5>1 DEF Written, L
        <5>2. CASE j \notin 1..L
          <6>1. j - L \in 1..i - 1 /\ j - L \in 1..n /\ L + (j - L) = j
            BY <1>1, <3>1, <5>2
          <6>2. stream'[L + (j - L)] = places[j - L]
            BY <6>1 DEF L
          <6> QED
            BY <4>4, <6>1, <6>2
        <5> QED
          BY <5>1, <5>2
      <4> QED
        BY <4>1, <4>2, <4>3, <4>4
    <3> QED
      BY <3>2, <3>3
  <2> QED
    BY <2>1, <2>2
<1>10. OrderInv'
  BY <1>2, <1>9 DEF OrderInv, L
<1> QED
  BY <1>8, <1>10 DEF OwnInv

\* A call writes what its thread is at.
LEMMA WriteOwn ==
  ASSUME OutputAssumption, OwnInv, Types', NEW t \in Thread, Write(t)
  PROVE  OwnInv'
<1> DEFINE f == work[search[t]]
           r == record[t]
           e0 == Entry(search[t], r, piece[t])
           n == 1
           places == [k \in 1..n |-> e0]
<1>1. /\ pc[t] = "print" /\ UNCHANGED <<inputs, taken, pc, search, record>>
      /\ stream' = Append(stream, e0)
      /\ piece'[t] = piece[t] + 1 /\ \A u \in Thread \ {t} : piece'[u] = piece[u]
  BY DEF Write, OwnInv, Types, TypeOK
<1>2. /\ f \in File /\ r \in Nat \ {0} /\ piece[t] \in Nat \ {0}
      /\ search[t] \in 1..Len(work)
  BY <1>1, BusyAt DEF OwnInv
<1>3. Length[f][r] \in Nat /\ piece[t] <= Length[f][r]
  BY <1>2, LengthIs DEF Write, FileOf
<1>4. r <= Records[f]
  BY <1>1 DEF OwnInv, PlaceInv
<1>5. e0 \in Entries /\ e0.search = search[t] /\ e0.record = r /\ e0.piece = piece[t]
  BY <1>2, <1>3, <1>4 DEF Entries, Entry
<1>6. /\ At[t] = e0 /\ At'[t] = Entry(search[t], r, piece[t] + 1)
      /\ \A u \in Thread \ {t} : At'[u] = At[u]
  BY <1>1 DEF At, Entry
<1>7. PlaceInv'
  <2>1. Records' = Records /\ Length' = Length /\ UNCHANGED work
    BY <1>1, EntriesStay, LengthStays DEF inputs
  <2> SUFFICES ASSUME NEW u \in Thread, pc[u] # "idle"
               PROVE  /\ record[u] <= Records[work[search[u]]]
                      /\ pc[u] = "print" =>
                           piece'[u] <= Length[work[search[u]]][record[u]] + 1
                      /\ \A w \in Thread : pc[w] # "idle" /\ search[w] = search[u] => w = u
    BY <1>1, <2>1 DEF PlaceInv
  <2>2. CASE u = t
    BY SMTT(20), <1>1, <1>2, <1>3, <2>2 DEF OwnInv, PlaceInv
  <2>3. CASE u # t
    BY <1>1, <2>3 DEF OwnInv, PlaceInv
  <2> QED
    BY <2>2, <2>3, <2>3
<1>8. /\ Len(stream') = Len(stream) + n
      /\ \A k \in 1..Len(stream) : stream'[k] = stream[k]
      /\ stream'[Len(stream) + 1] = e0 /\ \A k \in 1..n : stream'[Len(stream) + k] = e0
  BY <1>1 DEF OwnInv, Types, TypeOK
<1>9. n \in Nat /\ 1 \in 1..n /\ \A k \in 1..n : k = 1 /\ places[k] = e0 /\ 1..k - 1 = {}
  OBVIOUS
<1> HIDE DEF e0, places, n
<1>10. \A k \in 1..n : /\ stream'[Len(stream) + k] = places[k]
                       /\ places[k] \in Entries
                       /\ places[k].search = search[t]
  BY <1>5, <1>8, <1>9
<1>11. \A k \in 1..n, e \in Entries :
         e.search = search[t] =>
           (Before(e, places[k]) <=> Before(e, At[t]) \/ \E j \in 1..k - 1 : places[j] = e)
  BY <1>6, <1>9
<1>12. ASSUME NEW e \in Entries, e.search = search[t]
       PROVE  Before(e, At'[t]) <=> Before(e, At[t]) \/ \E j \in 1..n : places[j] = e
  <2>1. e.record \in Nat /\ e.piece \in Nat
    BY EntryIs
  <2>2. e = e0 <=> e.record = r /\ e.piece = piece[t]
    BY <1>5, <1>12 DEF Entries
  <2>3. Before(e, At'[t]) <=> e.record < r \/ (e.record = r /\ e.piece < piece[t] + 1)
    BY <1>6 DEF Before, Entry
  <2>4. Before(e, At[t]) <=> e.record < r \/ (e.record = r /\ e.piece < piece[t])
    BY <1>5, <1>6 DEF Before
  <2>5. (\E j \in 1..n : places[j] = e) <=> e = e0
    BY <1>9
  <2> QED
    BY <1>2, <2>1, <2>2, <2>3, <2>4, <2>5
<1>13. pc[t] # "idle"
  BY <1>1
<1> QED
  <2>1. /\ Len(stream') = Len(stream) + n
        /\ \A k \in 1..Len(stream) : stream'[k] = stream[k]
        /\ \A u \in Thread \ {t} : At'[u] = At[u]
        /\ n \in Nat /\ UNCHANGED <<inputs, taken, pc, search>>
    BY <1>1, <1>6, <1>8, <1>9
  <2> QED
    <3>1. Appends(t, n, places)
      BY <1>10, <1>11, <1>12, <2>1 DEF Appends
    <3> QED
      BY <1>7, <1>13, <2>1, <3>1, AppendKept

\* A block is the lines from the one its thread is at.
LEMMA BlockOwn ==
  ASSUME OutputAssumption, OwnInv, Types', NEW t \in Thread, WriteBlock(t)
  PROVE  OwnInv'
<1> DEFINE f == work[search[t]]
           r == record[t]
<1>1. /\ pc[t] = "scan" /\ ~byLines /\ Prints
      /\ UNCHANGED <<inputs, taken, pc, search, piece>>
  BY DEF WriteBlock
<1>2. PICK m \in r..Len(Lines[f]) :
        /\ stream' = stream \o [k \in 1..m + 1 - r |-> Entry(search[t], r + k - 1, 1)]
        /\ record' = [record EXCEPT ![t] = m + 1]
  BY DEF WriteBlock, FileOf, NextAfter
<1>3. f \in File /\ r \in Nat \ {0} /\ search[t] \in 1..Len(work) /\ search[t] \in 1..taken
  BY <1>1, BusyAt DEF OwnInv
<1>4. Len(Lines[f]) \in Nat /\ Records[f] = Len(Lines[f]) + 2
  BY <1>3, RecordsIs
<1> DEFINE n == m + 1 - r
           places == [k \in 1..n |-> Entry(search[t], r + k - 1, 1)]
<1>5. m \in Nat /\ n \in Nat /\ n = m + 1 - r /\ r <= m /\ m <= Len(Lines[f])
  BY <1>3, <1>4
<1>6. \A i \in r..m : Length[f][i] = 1
  <2> SUFFICES ASSUME NEW i \in r..m PROVE Length[f][i] = 1
    OBVIOUS
  <2>1. i \in 1..Len(Lines[f])
    BY <1>3, <1>4, <1>5
  <2> QED
    BY <1>1, <1>3, <2>1, LineOfBlock
<1>7. \A k \in 1..n : /\ places[k] = Entry(search[t], r + k - 1, 1)
                      /\ r + k - 1 \in r..m
  BY <1>3, <1>5
<1>8. places \in Seq([search : 1..taken, record : Nat \ {0}, piece : Nat \ {0}])
      /\ Len(places) = n
  <2>1. taken \in Nat
    BY DEF OwnInv, Types, TypeOK
  <2>2. places \in Seq([search : 1..taken, record : Nat \ {0}, piece : Nat \ {0}])
    BY <1>3, <1>5, <2>1, BlockOfLines
  <2>3. \A g \in [1..n -> [search : 1..taken, record : Nat \ {0}, piece : Nat \ {0}]] :
          Len(g) = n
    BY <1>5
  <2>4. DOMAIN places = 1..n
    OBVIOUS
  <2> HIDE DEF places, n
  <2> QED
    BY <1>5, <2>2, <2>4
<1>9. stream \in Seq([search : 1..taken, record : Nat \ {0}, piece : Nat \ {0}])
  BY DEF OwnInv, Types, TypeOK
<1> HIDE DEF n, places
<1>10. /\ Len(stream') = Len(stream) + n
       /\ \A k \in 1..Len(stream) : stream'[k] = stream[k]
       /\ \A k \in 1..n : stream'[Len(stream) + k] = places[k]
  <2>1. stream' = stream \o places
    BY <1>2 DEF n, places
  <2> QED
    BY SMTT(20), <1>5, <1>8, <1>9, <2>1, ConcatProperties
<1>11. ASSUME NEW k \in 1..n
       PROVE  /\ places[k] \in Entries
              /\ places[k].search = search[t]
              /\ places[k].record = r + k - 1
              /\ places[k].piece = 1
  <2> DEFINE i == r + k - 1
  <2>1. i \in r..m /\ places[k] = Entry(search[t], i, 1)
    BY <1>7
  <2> HIDE DEF i
  <2>2. Length[f][i] = 1
    BY <1>6, <2>1
  <2>3. i \in Nat \ {0} /\ i <= Records[f]
    BY <1>3, <1>4, <1>5, <2>1
  <2>4. places[k] \in Entries
    BY <1>3, <2>1, <2>2, <2>3 DEF Entries, Entry
  <2>5. places[k].search = search[t] /\ places[k].record = i /\ places[k].piece = 1
    BY <2>1 DEF Entry
  <2> QED
    BY <2>4, <2>5 DEF i
<1>12. /\ At[t] = Entry(search[t], r, 1) /\ At'[t] = Entry(search[t], m + 1, 1)
       /\ \A u \in Thread \ {t} : At'[u] = At[u]
  <2>1. record'[t] = m + 1 /\ \A u \in Thread \ {t} : record'[u] = record[u]
    BY <1>2 DEF OwnInv, Types, TypeOK
  <2> QED
    BY <1>1, <2>1 DEF At, Entry
<1>13. PlaceInv'
  <2>1. Records' = Records /\ Length' = Length /\ UNCHANGED work
    BY <1>1, EntriesStay, LengthStays DEF inputs
  <2>2. record'[t] = m + 1 /\ \A u \in Thread \ {t} : record'[u] = record[u]
    BY <1>2 DEF OwnInv, Types, TypeOK
  <2>3. m + 1 <= Records[f]
    BY <1>4, <1>5
  <2> QED
    BY <1>1, <2>1, <2>2, <2>3 DEF OwnInv, PlaceInv
\* An entry of this search is one of the block exactly if its record is.
<1>14. ASSUME NEW e \in Entries, e.search = search[t], NEW k \in 1..n + 1
       PROVE  e.record \in r..r + k - 2 <=> \E j \in 1..k - 1 : places[j] = e
  <2>1. e.record \in Nat \ {0} /\ e.piece \in Nat \ {0} /\ e.piece <= Length[f][e.record]
    BY <1>14, EntryIs
  <2>2. ASSUME e.record \in r..r + k - 2 PROVE \E j \in 1..k - 1 : places[j] = e
    <3> DEFINE j == e.record - r + 1
    <3>1. j \in 1..k - 1 /\ j \in 1..n /\ r + j - 1 = e.record /\ e.record \in r..m
      <4>1. /\ n \in Nat /\ m \in Nat /\ r \in Nat \ {0} /\ n = m + 1 - r
            /\ e.record \in Nat /\ e.record \in r..r + k - 2 /\ k \in 1..n + 1
        BY <1>3, <1>5, <1>14, <2>1, <2>2
      <4>2. j \in 1..k - 1
        BY SMTT(20), <4>1
      <4>3. j \in 1..n
        BY SMTT(20), <4>1
      <4>4. r + j - 1 = e.record
        BY <4>1
      <4>5. e.record \in r..m
        BY <4>1
      <4> QED
        BY <4>2, <4>3, <4>4, <4>5
    <3>2. e.piece = 1
      BY <1>6, <2>1, <3>1
    <3> HIDE DEF j
    <3>3. places[j] = e
      <4>1. places[j].search = e.search /\ places[j].record = e.record /\ places[j].piece = e.piece
        BY <1>14, <1>11, <3>1, <3>2
      <4>2. places[j] \in Entries
        BY <1>11, <3>1
      <4> QED
        BY <4>1, <4>2 DEF Entries
    <3> QED
      BY <3>1, <3>3
  <2>3. ASSUME NEW j \in 1..k - 1, places[j] = e PROVE e.record \in r..r + k - 2
    <3>1. j \in 1..n
      BY <1>5
    <3>2. e.record = r + j - 1
      BY <1>11, <2>3, <3>1
    <3> QED
      BY SMTT(20), <1>3, <1>5, <3>1, <3>2
  <2> QED
    BY <2>2, <2>3
<1>15. ASSUME NEW e \in Entries, e.search = search[t]
       PROVE  Before(e, At[t]) <=> e.record < r
  <2>1. e.record \in Nat \ {0} /\ e.piece \in Nat \ {0}
    BY EntryIs
  <2> QED
    BY <1>3, <1>12, <2>1 DEF Before, Entry
<1>16. ASSUME NEW k \in 1..n, NEW e \in Entries, e.search = search[t]
       PROVE  Before(e, places[k]) <=>
                Before(e, At[t]) \/ \E j \in 1..k - 1 : places[j] = e
  <2>1. e.record \in Nat \ {0} /\ e.piece \in Nat \ {0}
    BY EntryIs
  <2>2. Before(e, places[k]) <=> e.record < r + k - 1
    BY <1>11, <2>1 DEF Before
  <2>3. k \in 1..n + 1
    BY <1>5
  <2>4. e.record < r + k - 1 <=> e.record < r \/ e.record \in r..r + k - 2
    BY <1>3, <1>5, <2>1
  <2> QED
    BY <1>14, <1>15, <1>16, <2>2, <2>3, <2>4
<1>17. ASSUME NEW e \in Entries, e.search = search[t]
       PROVE  Before(e, At'[t]) <=>
                Before(e, At[t]) \/ \E j \in 1..n : places[j] = e
  <2>1. e.record \in Nat \ {0} /\ e.piece \in Nat \ {0}
    BY EntryIs
  <2>2. Before(e, At'[t]) <=> e.record < m + 1
    BY <1>12, <2>1, <1>5 DEF Before, Entry
  <2>3. n + 1 \in 1..n + 1 /\ (n + 1) - 1 = n /\ r + (n + 1) - 2 = m
    <3>1. n \in Nat /\ m \in Nat /\ r \in Nat /\ n = m + 1 - r
      BY <1>3, <1>5
    <3>2. n + 1 \in 1..n + 1 /\ (n + 1) - 1 = n
      BY <3>1
    <3>3. r + (n + 1) - 2 = m
      BY SMTT(20), <3>1
    <3> QED
      BY <3>2, <3>3
  <2>4. e.record < m + 1 <=> e.record < r \/ e.record \in r..m
    BY <1>3, <1>5, <2>1
  <2>5. e.record \in r..m <=> \E j \in 1..n : places[j] = e
    BY <1>14, <1>17, <2>3
  <2> QED
    BY <1>15, <1>17, <2>2, <2>4, <2>5
<1>18. pc[t] # "idle"
  BY <1>1
<1> QED
  <2>1. /\ Len(stream') = Len(stream) + n
        /\ \A k \in 1..Len(stream) : stream'[k] = stream[k]
        /\ \A u \in Thread \ {t} : At'[u] = At[u]
        /\ n \in Nat /\ UNCHANGED <<inputs, taken, pc, search>>
    BY <1>1, <1>5, <1>10, <1>12
  <2>2. \A k \in 1..n : /\ stream'[Len(stream) + k] = places[k]
                        /\ places[k] \in Entries
                        /\ places[k].search = search[t]
    BY <1>10, <1>11
  <2> QED
    <3>1. Appends(t, n, places)
      BY <1>16, <1>17, <2>1, <2>2 DEF Appends
    <3> QED
      BY <1>13, <1>18, <2>1, <3>1, AppendKept

LEMMA OwnKept ==
  ASSUME OutputAssumption, OwnInv, [Next]_vars
  PROVE  OwnInv'
<1>1. Types'
  BY TypesKept DEF OwnInv
<1>2. ASSUME UNCHANGED vars PROVE OwnInv'
  <2>1. Records' = Records /\ Length' = Length /\ At' = At
    BY <1>2, EntriesStay, LengthStays DEF vars, At
  <2>2. PlaceInv'
    BY <1>2, <2>1 DEF OwnInv, PlaceInv, vars, inputs
  <2> QED
    BY <1>1, <1>2, <2>1, <2>2, NoMove DEF vars
<1> QED
  BY <1>1, <1>2, TakeKept, StartKept, AdvanceKept, WriteOwn, BlockOwn
  DEF Next, Step, Done

\* The state every thread and the stream are in between the calls of stdio
\* (src/search.c:36-69, 140-211).
THEOREM OwnInvariant == Spec => []OwnInv
<1>1. Init => OwnInv
  BY InitOwn, OutputAssumption
<1>2. OwnInv /\ [Next]_vars => OwnInv'
  BY OwnKept, OutputAssumption
<1> QED
  BY <1>1, <1>2, PTL DEF Spec

\* When all threads are done everything is written.
LEMMA AllWritten ==
  ASSUME OwnInv, AllDone
  PROVE  Entries \subseteq Written
<1> SUFFICES ASSUME NEW e \in Entries PROVE e \in Written
  OBVIOUS
<1>1. e.search <= taken
  BY EntryIs DEF AllDone
<1> QED
  BY <1>1 DEF OwnInv, FrontInv, AllDone

------------------------------------------------------------------------------
(* What a record says *)

\* One of the calls writes one of these texts.
Holds(calls, texts) == \E p \in 1..Len(calls) : calls[p] \in texts

LEMMA HoldsParts ==
  ASSUME NEW texts
  PROVE  /\ ~Holds(<<>>, texts)
         /\ \A c : Holds(<<c>>, texts) <=> c \in texts
         /\ \A b : \A c : Holds(If(b, c), texts) <=> b /\ c \in texts
         /\ \A q1, q2 \in Seq(Parts) :
              Holds(q1 \o q2, texts) <=> Holds(q1, texts) \/ Holds(q2, texts)
<1>1. ~Holds(<<>>, texts)
  BY DEF Holds
<1>2. ASSUME NEW c PROVE Holds(<<c>>, texts) <=> c \in texts
  <2>1. Len(<<c>>) = 1 /\ <<c>>[1] = c
    OBVIOUS
  <2>2. 1..1 = {1}
    OBVIOUS
  <2> QED
    BY <2>1, <2>2 DEF Holds
<1>3. \A b : \A c : Holds(If(b, c), texts) <=> b /\ c \in texts
  BY <1>1, <1>2 DEF If
<1>4. ASSUME NEW q1 \in Seq(Parts), NEW q2 \in Seq(Parts)
      PROVE  Holds(q1 \o q2, texts) <=> Holds(q1, texts) \/ Holds(q2, texts)
  <2>1. /\ Len(q1) \in Nat /\ Len(q2) \in Nat /\ Len(q1 \o q2) = Len(q1) + Len(q2)
        /\ \A p \in 1..Len(q1) + Len(q2) :
             (q1 \o q2)[p] = IF p <= Len(q1) THEN q1[p] ELSE q2[p - Len(q1)]
    BY ConcatProperties
  <2>2. ASSUME NEW p \in 1..Len(q1), q1[p] \in texts PROVE Holds(q1 \o q2, texts)
    <3>1. p \in 1..Len(q1) + Len(q2) /\ p <= Len(q1)
      BY <2>1
    <3>2. (q1 \o q2)[p] = q1[p]
      BY <2>1, <3>1
    <3> QED
      BY <2>1, <2>2, <3>1, <3>2 DEF Holds
  <2>3. ASSUME NEW p \in 1..Len(q2), q2[p] \in texts PROVE Holds(q1 \o q2, texts)
    <3> DEFINE m == Len(q1) + p
    <3>1. m \in 1..Len(q1) + Len(q2) /\ ~(m <= Len(q1)) /\ m - Len(q1) = p
      BY <2>1
    <3> HIDE DEF m
    <3>2. (q1 \o q2)[m] = q2[p]
      BY <2>1, <3>1
    <3> QED
      BY <2>1, <2>3, <3>1, <3>2 DEF Holds
  <2>4. ASSUME NEW p \in 1..Len(q1 \o q2), (q1 \o q2)[p] \in texts
        PROVE  Holds(q1, texts) \/ Holds(q2, texts)
    <3>1. p \in 1..Len(q1) + Len(q2)
      BY <2>1
    <3>2. CASE p <= Len(q1)
      BY <2>1, <2>4, <3>1, <3>2 DEF Holds
    <3>3. CASE ~(p <= Len(q1))
      <4>1. p - Len(q1) \in 1..Len(q2) /\ (q1 \o q2)[p] = q2[p - Len(q1)]
        BY <2>1, <3>1, <3>3
      <4> QED
        BY <2>4, <4>1 DEF Holds
    <3> QED
      BY <3>2, <3>3
  <2> QED
    BY <2>2, <2>3, <2>4 DEF Holds
<1> QED
  BY <1>1, <1>2, <1>3, <1>4

\* A line of the search by lines is given as it is or around its match, or -l
\* gives the path instead.
LEMMA MatchSays ==
  ASSUME NEW shape
  PROVE  /\ Holds(MatchCalls(shape), {"line", "whole line", "match"}) <=>
              ~opts.files_with_matches
         /\ Holds(MatchCalls(shape), {"path"}) <=> opts.files_with_matches
<1> DEFINE given == {"line", "whole line", "match"}
           named == {"path"}
           colored == opts.color /\ opts.isatty
           head == If(colored, "path:") \o If(opts.line_number, "number:")
           around == If(shape.before, "before") \o <<"red", "match", "reset">>
                       \o If(shape.after, "after")
           body == IF colored THEN around ELSE <<"line">>
<1>0. /\ \A c : Holds(<<c>>, given) <=> c \in given
      /\ \A c : Holds(<<c>>, named) <=> c \in named
      /\ \A b : \A c : Holds(If(b, c), named) <=> b /\ c \in named
      /\ \A q1, q2 \in Seq(Parts) :
           /\ Holds(q1 \o q2, given) <=> Holds(q1, given) \/ Holds(q2, given)
           /\ Holds(q1 \o q2, named) <=> Holds(q1, named) \/ Holds(q2, named)
  <2> HIDE DEF given, named
  <2> QED
    BY HoldsParts
<1>1. CASE opts.files_with_matches
  <2>1. MatchCalls(shape) = <<"path">>
    BY <1>1 DEF MatchCalls
  <2>2. ~Holds(<<"path">>, given) /\ Holds(<<"path">>, named)
    BY <1>0
  <2> HIDE DEF given, named
  <2>3. ~Holds(MatchCalls(shape), given) /\ Holds(MatchCalls(shape), named)
    BY <2>1, <2>2
  <2> QED
    BY <1>1, <2>3 DEF given, named
<1>2. CASE ~opts.files_with_matches
  <2>1. MatchCalls(shape) = head \o body \o <<"newline">>
    BY <1>2 DEF MatchCalls
  <2>2. \A c : /\ If(c, "before") \in Seq(Parts)
               /\ If(c, "after") \in Seq(Parts)
               /\ If(c, "path:") \in Seq(Parts)
               /\ If(c, "number:") \in Seq(Parts)
    <3>1. \A c : \A e \in Parts : If(c, e) \in Seq(Parts)
      BY DEF If
    <3> QED
      BY <3>1 DEF Parts
  <2>3. /\ <<"red", "match", "reset">> \in Seq(Parts) /\ <<"line">> \in Seq(Parts)
        /\ <<"newline">> \in Seq(Parts)
    BY DEF Parts
  <2>4. \A q1, q2 \in Seq(Parts) : q1 \o q2 \in Seq(Parts)
    BY ConcatProperties
  <2>5. /\ head \in Seq(Parts)
        /\ If(shape.before, "before") \o <<"red", "match", "reset">> \in Seq(Parts)
    BY <2>2, <2>3, <2>4
  <2>6. around \in Seq(Parts)
    BY <2>2, <2>3, <2>4, <2>5
  <2>7. body \in Seq(Parts) /\ head \o body \in Seq(Parts)
    <3>1. body \in Seq(Parts)
      BY <2>3, <2>6
    <3> HIDE DEF head, body
    <3> QED
      BY <2>4, <2>5, <3>1
  <2>8. /\ Holds(<<"red", "match", "reset">>, given)
        /\ ~Holds(<<"red", "match", "reset">>, named)
    <3> DEFINE q == <<"red", "match", "reset">>
    <3>1. Len(q) = 3 /\ 1..3 = {1, 2, 3} /\ q[1] = "red" /\ q[2] = "match" /\ q[3] = "reset"
      OBVIOUS
    <3> HIDE DEF q
    <3>2. \A p \in 1..Len(q) : q[p] \notin named
      BY <3>1
    <3>3. 2 \in 1..Len(q) /\ q[2] \in given
      BY <3>1
    <3>4. Holds(q, given) /\ ~Holds(q, named)
      BY <3>2, <3>3 DEF Holds
    <3> QED
      BY <3>4 DEF q
  <2>9. Holds(around, given) /\ ~Holds(around, named)
    <3> DEFINE q0 == If(shape.before, "before")
               q1 == <<"red", "match", "reset">>
               q2 == If(shape.after, "after")
    <3>1. q0 \in Seq(Parts) /\ q1 \in Seq(Parts) /\ q2 \in Seq(Parts) /\ q0 \o q1 \in Seq(Parts)
      BY <2>2, <2>3, <2>5
    <3>2. ~Holds(q0, named) /\ ~Holds(q2, named) /\ Holds(q1, given) /\ ~Holds(q1, named)
      BY <1>0, <2>8
    <3> HIDE DEF q0, q1, q2, given, named
    <3>3. Holds(q0 \o q1 \o q2, given) /\ ~Holds(q0 \o q1 \o q2, named)
      BY <1>0, <3>1, <3>2
    <3> QED
      BY <3>3 DEF q0, q1, q2
  <2>10. Holds(body, given) /\ ~Holds(body, named)
    <3>1. Holds(<<"line">>, given) /\ ~Holds(<<"line">>, named)
      BY <1>0
    <3> HIDE DEF around, given, named
    <3> QED
      BY <2>9, <3>1
  <2>11. ~Holds(head, named) /\ ~Holds(<<"newline">>, named)
    <3> DEFINE q1 == If(colored, "path:")
               q2 == If(opts.line_number, "number:")
    <3>1. q1 \in Seq(Parts) /\ q2 \in Seq(Parts)
      BY <2>2
    <3>2. ~Holds(q1, named) /\ ~Holds(q2, named) /\ ~Holds(<<"newline">>, named)
      <4>1. q1 \in {<<>>, <<"path:">>} /\ q2 \in {<<>>, <<"number:">>}
        BY DEF If
      <4>2. ASSUME NEW texts PROVE ~Holds(<<>>, texts)
        BY HoldsParts
      <4>3. /\ ~Holds(<<"path:">>, named) /\ ~Holds(<<"number:">>, named)
            /\ ~Holds(<<"newline">>, named)
        <5>1. \A c : Holds(<<c>>, named) <=> c = "path"
          BY <1>0
        <5> HIDE DEF named
        <5> QED
          BY <5>1
      <4> HIDE DEF q1, q2, named
      <4> QED
        BY <4>1, <4>2, <4>3
    <3> HIDE DEF q1, q2, given, named
    <3>3. ~Holds(q1 \o q2, named)
      BY <1>0, <3>1, <3>2
    <3> QED
      BY <3>2, <3>3 DEF q1, q2
  <2> HIDE DEF head, body, given, named
  <2>12. Holds(head \o body, given) /\ ~Holds(head \o body, named)
    BY <1>0, <2>5, <2>7, <2>10, <2>11
  <2>13. /\ Holds(head \o body \o <<"newline">>, given)
         /\ ~Holds(head \o body \o <<"newline">>, named)
    BY <1>0, <2>3, <2>7, <2>11, <2>12
  <2> QED
    BY <1>2, <2>1, <2>13 DEF given, named
<1> QED
  BY <1>1, <1>2

\* What the records of a file say, by the options.
LEMMA RecordsSay ==
  ASSUME OutputAssumption, NEW f \in File
  PROVE  LET names == IF Lines[f] # <<>> THEN opts.files_with_matches
                                        ELSE opts.files_without_match
         IN  /\ \A r \in DOMAIN Lines[f] :
                  /\ Holds(Calls(f, r), {"line", "whole line", "match"}) <=>
                       /\ ~opts.count_only
                       /\ ~opts.files_with_matches
                       /\ ~opts.files_without_match
                  /\ Holds(Calls(f, r), {"path"}) <=>
                       /\ byLines
                       /\ opts.files_with_matches
                       /\ ~opts.files_without_match
                       /\ ~opts.count_only
             /\ Holds(Calls(f, SummaryRecord(f)), {"path"}) <=>
                  Examines(f) /\ names /\ ~opts.count_only
             /\ Holds(Calls(f, SummaryRecord(f)), {"count"}) <=>
                  Examines(f) /\ opts.count_only
             /\ Holds(Calls(f, MainRecord(f)), {"count"}) <=> f = Stdin /\ opts.count_only
<1>1. Len(Lines[f]) \in Nat /\ DOMAIN Lines[f] = 1..Len(Lines[f])
  BY DEF OutputAssumption
<1>2. Calls(f, SummaryRecord(f)) = SummaryCalls(f) /\ Calls(f, MainRecord(f)) = MainCalls(f)
  BY <1>1 DEF Calls, SummaryRecord, MainRecord
<1>3. ASSUME NEW r \in DOMAIN Lines[f]
      PROVE  /\ Holds(Calls(f, r), {"line", "whole line", "match"}) <=>
                  ~opts.count_only /\ ~opts.files_with_matches /\ ~opts.files_without_match
             /\ Holds(Calls(f, r), {"path"}) <=>
                  /\ byLines
                  /\ opts.files_with_matches
                  /\ ~opts.files_without_match
                  /\ ~opts.count_only
  <2>1. Calls(f, r) = LineCalls(Lines[f][r])
    BY <1>1, <1>3 DEF Calls, SummaryRecord, MainRecord
  <2>2. CASE ~Prints
    <3>1. Calls(f, r) = <<>>
      BY <2>1, <2>2 DEF LineCalls
    <3> QED
      BY <2>2, <3>1, HoldsParts DEF Prints
  <2>3. CASE Prints /\ byLines
    <3>1. Calls(f, r) = MatchCalls(Lines[f][r])
      BY <2>1, <2>3 DEF LineCalls
    <3> QED
      BY <2>3, <3>1, MatchSays DEF Prints
  <2>4. CASE Prints /\ ~byLines
    <3>1. Calls(f, r) = <<"whole line">>
      BY <2>1, <2>4 DEF LineCalls
    <3>2. /\ Holds(<<"whole line">>, {"line", "whole line", "match"})
          /\ ~Holds(<<"whole line">>, {"path"})
      <4>1. ASSUME NEW texts
            PROVE  Holds(<<"whole line">>, texts) <=> "whole line" \in texts
        BY HoldsParts
      <4> QED
        BY <4>1
    <3> QED
      BY <2>4, <3>1, <3>2 DEF Prints
  <2> QED
    BY <2>2, <2>3, <2>4
<1>4. /\ Holds(SummaryCalls(f), {"path"}) <=>
           /\ Examines(f)
           /\ IF Lines[f] # <<>> THEN opts.files_with_matches ELSE opts.files_without_match
           /\ ~opts.count_only
      /\ Holds(SummaryCalls(f), {"count"}) <=> Examines(f) /\ opts.count_only
  <2>1. \A texts : /\ ~Holds(<<>>, texts)
                   /\ Holds(<<"path">>, texts) <=> "path" \in texts
                   /\ Holds(<<"count">>, texts) <=> "count" \in texts
    BY HoldsParts
  <2> HIDE DEF Holds
  <2>2. CASE ~Examines(f)
    <3>1. SummaryCalls(f) = <<>>
      BY <2>2 DEF SummaryCalls
    <3>2. ~Holds(SummaryCalls(f), {"path"}) /\ ~Holds(SummaryCalls(f), {"count"})
      BY <2>1, <3>1
    <3> QED
      BY <2>2, <3>2
  <2>3. CASE Examines(f)
    <3>1. SummaryCalls(f) =
            IF opts.count_only THEN <<"count">>
            ELSE IF (IF Lines[f] # <<>> THEN opts.files_with_matches
                                        ELSE opts.files_without_match)
                   THEN <<"path">> ELSE <<>>
      BY <2>3 DEF SummaryCalls
    <3> QED
      BY <2>1, <2>3, <3>1
  <2> QED
    BY <2>2, <2>3
<1>5. Holds(MainCalls(f), {"count"}) <=> f = Stdin /\ opts.count_only
  BY HoldsParts DEF MainCalls
<1> QED
  BY <1>2, <1>3, <1>4, <1>5

\* When all threads are done a search has said what its records hold.
LEMMA SaysIs ==
  ASSUME OwnInv, AllDone, NEW s \in 1..Len(work), NEW r \in 1..MainRecord(work[s]), NEW texts
  PROVE  Says(s, r, texts) <=> Holds(Calls(work[s], r), texts)
<1> DEFINE f == work[s]
<1>1. f \in File /\ MainRecord(f) = Records[f] /\ Records[f] \in Nat
  BY ElementOfSeq, RecordsIs, OutputAssumption DEF OwnInv, Types, TypeOK, Records
<1>2. r \in Nat \ {0} /\ r <= Records[f]
  BY <1>1
<1>3. Length[f][r] = Len(Calls(f, r)) /\ Length[f][r] \in Nat
  BY <1>1, <1>2, LengthIs
<1>4. ASSUME NEW k \in PrintedBy(s), stream[k].record = r, Text(stream[k]) \in texts
      PROVE  Holds(Calls(f, r), texts)
  <2>1. stream[k] \in Entries /\ stream[k].search = s
    BY DEF OwnInv, OrderInv, PrintedBy
  <2>2. stream[k].piece \in 1..Len(Calls(f, r))
    BY <1>3, <1>4, <2>1, EntryIs
  <2>3. Text(stream[k]) = Calls(f, r)[stream[k].piece]
    BY <1>4, <2>1 DEF Text
  <2> QED
    BY <1>4, <2>2, <2>3 DEF Holds
<1>5. ASSUME NEW p \in 1..Len(Calls(f, r)), Calls(f, r)[p] \in texts
      PROVE  Says(s, r, texts)
  <2>1. p \in Nat \ {0} /\ p <= Length[f][r]
    BY <1>3
  <2>2. Entry(s, r, p) \in Entries
    BY <1>2, <2>1 DEF Entries, Entry
  <2>3. PICK k \in 1..Len(stream) : stream[k] = Entry(s, r, p)
    BY <2>2, AllWritten DEF Written
  <2>4. stream[k].search = s /\ stream[k].record = r /\ stream[k].piece = p
    BY <2>3 DEF Entry
  <2>5. k \in PrintedBy(s) /\ Text(stream[k]) \in texts
    BY <1>5, <2>4 DEF PrintedBy, Text
  <2> QED
    BY <2>4, <2>5 DEF Says
<1> QED
  BY <1>4, <1>5 DEF Says, Holds

\* Whatever the threads do to each other, the output of each search is in order,
\* whole, without repetition and, but for the three cases OwnOutput names, what
\* the usage asks for: for any number of threads, any files and any options
\* (src/search.c:36-69, 140-211).
THEOREM OutputIsOwn == Spec => []OwnOutput
<1>1. ASSUME OwnInv PROVE OwnOutput
  <2> SUFFICES ASSUME NEW s \in 1..Len(work)
               PROVE  OwnOutput!(s)
    BY DEF OwnOutput
  <2> DEFINE f == work[s]
  <2>1. f \in File /\ OutputAssumption
    BY <1>1, ElementOfSeq, OutputAssumption DEF OwnInv, Types, TypeOK
  <2>2. \A k \in PrintedBy(s) : k \in 1..Len(stream) /\ stream[k] \in Entries
                               /\ stream[k].search = s
    BY <1>1 DEF OwnInv, OrderInv, PrintedBy
  <2>3. ASSUME NEW j \in PrintedBy(s), NEW k \in PrintedBy(s), j < k
        PROVE  Before(stream[j], stream[k])
    <3>1. j \in 1..k - 1 /\ stream[j].search = stream[k].search
      BY <2>2, <2>3
    <3> QED
      BY <1>1, <2>2, <3>1 DEF OwnInv, OrderInv
  <2>4. ASSUME AllDone, NEW k \in PrintedBy(s), ~Closes(stream[k])
        PROVE  \E j \in PrintedBy(s) :
                 stream[j] = Entry(s, stream[k].record, stream[k].piece + 1)
    <3> DEFINE e == stream[k]
               n == Entry(s, e.record, e.piece + 1)
    <3>1. /\ e.search = s /\ e.record \in Nat \ {0} /\ e.piece \in Nat \ {0}
          /\ e.record <= Records[f] /\ e.piece <= Length[f][e.record]
      BY <2>2, EntryIs
    <3>2. Length[f][e.record] = Len(Calls(f, e.record)) /\ Length[f][e.record] \in Nat
      BY <2>1, <3>1, LengthIs
    <3>3. e.piece + 1 \in Nat \ {0} /\ e.piece + 1 <= Length[f][e.record]
      BY <2>4, <3>1, <3>2 DEF Closes
    <3>4. n \in Entries /\ n.search = s
      BY <3>1, <3>3 DEF Entries, Entry
    <3> HIDE DEF n
    <3>5. PICK j \in 1..Len(stream) : stream[j] = n
      BY <1>1, <2>4, <3>4, AllWritten DEF Written
    <3> QED
      BY <3>4, <3>5 DEF PrintedBy, n
  <2>5. /\ DOMAIN Lines[f] \subseteq 1..MainRecord(f)
        /\ SummaryRecord(f) \in 1..MainRecord(f) /\ MainRecord(f) \in 1..MainRecord(f)
    <3>1. Len(Lines[f]) \in Nat /\ DOMAIN Lines[f] = 1..Len(Lines[f])
      BY <2>1 DEF OutputAssumption
    <3> QED
      BY <3>1 DEF SummaryRecord, MainRecord
  <2>6. ASSUME AllDone
        PROVE  \A r \in 1..MainRecord(f) : \A texts :
                 Says(s, r, texts) <=> Holds(Calls(f, r), texts)
    BY <1>1, <2>6, SaysIs
  <2> HIDE DEF f
  <2>7. f = work[s]
    BY DEF f
  <2>8. CASE AllDone
    <3>1. \A r \in 1..MainRecord(f) : \A texts :
            Says(s, r, texts) <=> Holds(Calls(f, r), texts)
      BY <2>6, <2>8
    <3> QED
      BY <2>1, <2>3, <2>4, <2>5, <2>7, <2>8, <3>1, RecordsSay
  <2>9. CASE ~AllDone
    BY <2>3, <2>9
  <2> QED
    BY <2>8, <2>9
<1> QED
  BY <1>1, OwnInvariant, PTL
------------------------------------------------------------------------------
(* How often -l names a file *)

\* A set that is numbered from 1 to n.
LEMMA Numbered ==
  ASSUME NEW S, NEW n \in Nat, NEW g \in [S -> 1..n],
         \A a, b \in S : g[a] = g[b] => a = b,
         \A i \in 1..n : \E a \in S : g[a] = i
  PROVE  Cardinality(S) = n
<1>1. g \in Bijection(S, 1..n)
  BY DEF Bijection, Injection, Surjection, IsInjective
<1>2. ExistsBijection(1..n, S)
  BY <1>1, Fun_ExistsBijSymmetric DEF ExistsBijection
<1> QED
  BY <1>2, FS_CountingElements

\* With -l alone a record is one call or none.
LEMMA NamingCalls ==
  ASSUME OutputAssumption, NEW f \in File, NEW r \in Nat \ {0}, r <= Records[f],
         opts.files_with_matches, ~opts.count_only, ~opts.files_without_match
  PROVE  Length[f][r] =
           IF \/ byLines /\ r <= Len(Lines[f])
              \/ Len(Lines[f]) > 0 /\ r = Len(Lines[f]) + 1
             THEN 1
             ELSE 0
<1> DEFINE l == Len(Lines[f])
<1>1. l \in Nat /\ Records[f] = l + 2 /\ Lines[f] \in Seq(Shape)
  BY RecordsIs DEF OutputAssumption
<1>2. Length[f][r] = Len(Calls(f, r))
  BY LengthIs
<1>3. CASE r = l + 2
  <2>1. Calls(f, r) = <<>>
    <3>1. Calls(f, r) = MainCalls(f)
      BY <1>1, <1>3 DEF Calls, MainRecord, SummaryRecord
    <3>2. MainCalls(f) = <<>>
      BY DEF MainCalls, If
    <3> QED
      BY <3>1, <3>2
  <2>2. Length[f][r] = 0
    BY <1>2, <2>1
  <2>3. ~(r <= l) /\ r # l + 1
    BY <1>1, <1>3
  <2> QED
    BY <2>2, <2>3
<1>4. CASE r = l + 1
  <2>1. Calls(f, r) = SummaryCalls(f)
    BY <1>1, <1>4 DEF Calls, MainRecord, SummaryRecord
  <2>2. Lines[f] = <<>> <=> l = 0
    BY <1>1, EmptySeq
  <2>3. CASE l = 0
    <3>1. SummaryCalls(f) = <<>>
      BY <2>2, <2>3 DEF SummaryCalls
    <3> QED
      BY <1>1, <1>2, <1>4, <2>1, <2>3, <3>1
  <2>4. CASE l > 0
    <3>1. f \notin Short
      BY <1>1, <2>2, <2>4 DEF OutputAssumption
    <3>2. SummaryCalls(f) = <<"path">>
      BY <1>1, <2>2, <2>4, <3>1 DEF SummaryCalls, Examines
    <3> QED
      BY <1>1, <1>2, <1>4, <2>1, <2>4, <3>2
  <2> QED
    BY <1>1, <2>3, <2>4
<1>5. CASE r \in 1..l
  <2>1. r \in DOMAIN Lines[f] /\ Calls(f, r) = LineCalls(Lines[f][r])
    BY <1>1, <1>5 DEF Calls, MainRecord, SummaryRecord
  <2>2. CASE byLines
    <3>1. LineCalls(Lines[f][r]) = <<"path">>
      BY <2>2 DEF LineCalls, Prints, MatchCalls
    <3> QED
      BY <1>2, <1>5, <2>1, <2>2, <3>1
  <2>3. CASE ~byLines
    <3>1. LineCalls(Lines[f][r]) = <<>>
      BY <2>3 DEF LineCalls, Prints
    <3> QED
      BY <1>1, <1>2, <1>5, <2>1, <2>3, <3>1
  <2> QED
    BY <2>2, <2>3
<1> QED
  BY <1>1, <1>3, <1>4, <1>5

\* With -l a file with a match is named once for every line by the search by
\* lines and once more, and once by the search for a fixed string
\* (src/output.c:14-18, src/search.c:61-64, 203-206).
THEOREM FilesAreNamed == Spec => []NamesRepeated
<1>1. ASSUME OwnInv PROVE NamesRepeated
  <2> SUFFICES ASSUME AllDone, opts.files_with_matches, ~opts.count_only,
                      ~opts.files_without_match, NEW s \in 1..Len(work)
               PROVE  LET lines == Len(Lines[work[s]])
                      IN  Cardinality(PrintedBy(s)) =
                            IF lines = 0 THEN 0 ELSE IF byLines THEN lines + 1 ELSE 1
    BY DEF NamesRepeated
  <2> DEFINE f == work[s]
             l == Len(Lines[f])
             n == IF l = 0 THEN 0 ELSE IF byLines THEN l + 1 ELSE 1
             Number(r) == IF byLines THEN r ELSE r - l
             g == [k \in PrintedBy(s) |-> Number(stream[k].record)]
  <2>1. f \in File /\ l \in Nat /\ Records[f] = l + 2
    BY <1>1, ElementOfSeq, RecordsIs, OutputAssumption DEF OwnInv, Types, TypeOK
  <2>2. n \in Nat
    BY <2>1
  <2>3. \A e \in Entries : e.search = s => e.piece = 1 /\ Number(e.record) \in 1..n
    <3> SUFFICES ASSUME NEW e \in Entries, e.search = s
                 PROVE  e.piece = 1 /\ Number(e.record) \in 1..n
      OBVIOUS
    <3>1. /\ e.record \in Nat \ {0} /\ e.piece \in Nat \ {0} /\ e.record <= Records[f]
          /\ e.piece <= Length[f][e.record]
      BY EntryIs
    <3>2. Length[f][e.record] =
            IF \/ byLines /\ e.record <= l
               \/ l > 0 /\ e.record = l + 1
              THEN 1
              ELSE 0
      BY <2>1, <3>1, NamingCalls, OutputAssumption
    <3> QED
      BY <2>1, <3>1, <3>2
  <2>4. \A i \in 1..n : \E e \in Entries : e.search = s /\ Number(e.record) = i
    <3> SUFFICES ASSUME NEW i \in 1..n
                 PROVE  \E e \in Entries : e.search = s /\ Number(e.record) = i
      OBVIOUS
    <3> DEFINE r == IF byLines THEN i ELSE l + 1
    <3>1. r \in Nat \ {0} /\ r <= Records[f] /\ Number(r) = i
          /\ ((byLines /\ r <= l) \/ (l > 0 /\ r = l + 1))
      BY <2>1
    <3> HIDE DEF r, n
    <3>2. Length[f][r] = 1
      BY <2>1, <3>1, NamingCalls, OutputAssumption
    <3>3. Entry(s, r, 1) \in Entries
      BY <3>1, <3>2 DEF Entries, Entry
    <3>4. Entry(s, r, 1).search = s /\ Entry(s, r, 1).record = r
      BY DEF Entry
    <3> QED
      BY <3>1, <3>3, <3>4
  <2>5. \A k \in PrintedBy(s) : stream[k] \in Entries /\ stream[k].search = s
    BY <1>1 DEF OwnInv, OrderInv, PrintedBy
  <2>6. \A e \in Entries : e.search = s => \E k \in PrintedBy(s) : stream[k] = e
    BY <1>1, AllWritten DEF Written, PrintedBy
  <2>7. \A e \in Entries : e.record \in Nat \ {0} /\ e.piece \in Nat \ {0}
    BY EntryIs
  <2>8. \A r \in Nat : \A q \in Nat : Number(r) = Number(q) => r = q
    BY <2>1
  <2> HIDE DEF n, Number
  \* What comes twice would come before itself.
  <2>9. ASSUME NEW j \in PrintedBy(s), NEW k \in PrintedBy(s), stream[j] = stream[k], j < k
        PROVE  FALSE
    <3>1. j \in 1..k - 1 /\ k \in 1..Len(stream)
      BY <2>9 DEF PrintedBy
    <3>2. Before(stream[j], stream[k])
      BY <1>1, <2>5, <2>9, <3>1 DEF OwnInv, OrderInv
    <3> QED
      BY <2>5, <2>7, <2>9, <3>2 DEF Before
  <2>10. g \in [PrintedBy(s) -> 1..n]
    BY <2>3, <2>5
  <2>11. ASSUME NEW j \in PrintedBy(s), NEW k \in PrintedBy(s), g[j] = g[k] PROVE j = k
    <3>1. stream[j].record = stream[k].record
      BY <2>5, <2>7, <2>8, <2>11
    <3>2. stream[j].piece = 1 /\ stream[k].piece = 1
      BY <2>3, <2>5
    <3>3. stream[j] = stream[k]
      BY <2>5, <3>1, <3>2 DEF Entries
    <3>4. j \in Int /\ k \in Int
      BY DEF PrintedBy
    <3> QED
      BY <2>9, <3>3, <3>4
  <2>12. \A i \in 1..n : \E k \in PrintedBy(s) : g[k] = i
    BY <2>4, <2>6
  <2> HIDE DEF g
  <2>13. Cardinality(PrintedBy(s)) = n
    BY <2>2, <2>10, <2>11, <2>12, Numbered
  <2> QED
    BY <2>13 DEF n
<1> QED
  BY <1>1, OwnInvariant, PTL
==============================================================================
