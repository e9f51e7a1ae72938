--------------------------- MODULE FixedScanProofs ---------------------------
(***************************************************************************)
(* The search for a fixed string, for texts and patterns of any length and *)
(* vectors of any width: with -c, -l and -L every occurrence is counted    *)
(* exactly once; otherwise the lines of the matches are printed in their   *)
(* order, through a buffer that only a line too long for it overruns.      *)
(***************************************************************************)
EXTENDS FixedScan, FiniteSetTheorems, WellFoundedInduction, TLAPS

------------------------------------------------------------------------------
(* The inductive invariant behind CountExact *)

\* The positions whose matches the counting branch has counted so far: those
\* before the chunk, and in the chunk those whose bit is off again.
Seen ==
  {p \in Occurrences :
     IF pc = "bits" THEN p < pos + Lanes /\ p - pos \notin mask ELSE p < pos}

CountTypes ==
  /\ len \in Nat
  /\ nlen \in Nat
  /\ pos \in Nat
  /\ count \in Nat
  /\ pc \in Places
  /\ mask \subseteq 0..Lanes - 1

CountInv ==
  /\ CountTypes
  /\ pc = "start" => pos = 0 /\ count = 0
  /\ pc \in {"chunk", "bits", "tail"} => 0 < nlen /\ nlen <= len
  /\ pc = "bits" => ChunkFits /\ mask \subseteq Candidates
  /\ Counting => pc # "flush"
  /\ Counting /\ pc \in {"chunk", "bits", "tail"} /\ PlainEnds =>
       count = Cardinality(Seen)
  /\ Counting /\ pc \in {"summary", "done"} /\ PlainEnds /\ nlen > 0 =>
       count = Cardinality(Occurrences)
------------------------------------------------------------------------------
LEMMA SmallestElement ==
  ASSUME NEW S, S \subseteq Nat, S # {}
  PROVE  \E b \in S : \A c \in S : b <= c
<1> DEFINE Less == {ss \in Nat \X Nat : ss[1] < ss[2]}
<1>1. OpToRel(<, Nat) = Less
  BY DEF OpToRel
<1>2. IsWellFoundedOn(Less, Nat)
  BY <1>1, NatLessThanWellFounded
<1>3. PICK b \in S : \A c \in S : ~(<<c, b>> \in Less)
  <2> HIDE DEF Less
  <2> QED
    BY <1>2, WFMin
<1>4. \A c \in S : b <= c
  <2> SUFFICES ASSUME NEW c \in S, c < b PROVE FALSE
    OBVIOUS
  <2>1. <<c, b>> \in Less
    OBVIOUS
  <2> QED
    BY <1>3, <2>1
<1> QED
  BY <1>4

\* A nonempty mask has a lowest bit.
LEMMA LowestBit ==
  ASSUME mask \subseteq 0..Lanes - 1, mask # {}, Lanes \in Nat
  PROVE  Lowest \in mask /\ \A c \in mask : Lowest <= c
<1>1. mask \subseteq Nat
  OBVIOUS
<1>2. PICK b \in mask : \A c \in mask : b <= c
  BY <1>1, SmallestElement
<1> QED
  BY <1>2 DEF Lowest

\* The pattern occurs where its first and last byte agree and memcmp finds the
\* bytes between equal.
LEMMA OccursByParts ==
  ASSUME nlen \in Nat, nlen > 0, NEW p \in Nat
  PROVE  OccursAt(p) <=>
           /\ data[p] = needle[0]
           /\ data[p + nlen - 1] = needle[nlen - 1]
           /\ Verified(p)
<1>1. ASSUME OccursAt(p)
      PROVE  data[p] = needle[0] /\ data[p + nlen - 1] = needle[nlen - 1] /\ Verified(p)
  <2>1. 0 \in 0..nlen - 1 /\ nlen - 1 \in 0..nlen - 1 /\ p + 0 = p
        /\ p + (nlen - 1) = p + nlen - 1
    OBVIOUS
  <2>2. data[p + 0] = needle[0] /\ data[p + (nlen - 1)] = needle[nlen - 1]
    BY <1>1, <2>1 DEF OccursAt
  <2>3. Verified(p)
    BY <1>1 DEF OccursAt, Verified
  <2> QED
    BY <2>1, <2>2, <2>3
<1>2. ASSUME data[p] = needle[0], data[p + nlen - 1] = needle[nlen - 1], Verified(p)
      PROVE  OccursAt(p)
  <2> SUFFICES ASSUME NEW j \in 0..nlen - 1 PROVE data[p + j] = needle[j]
    BY DEF OccursAt
  <2>1. CASE j = 0
    BY <1>2, <2>1
  <2>2. CASE j = nlen - 1
    <3>1. p + j = p + nlen - 1
      BY <2>2
    <3> QED
      BY <1>2, <2>2, <3>1
  <2>3. CASE j \in 1..nlen - 2
    BY <1>2, <2>3 DEF Verified
  <2> QED
    BY <2>1, <2>2, <2>3
<1> QED
  BY <1>1, <1>2

\* What was counted is a finite set.
LEMMA SeenFinite ==
  ASSUME len \in Nat, nlen \in Nat
  PROVE  IsFiniteSet(Seen)
<1>1. IsFiniteSet(0..len - nlen)
  BY FS_Interval
<1>2. Seen \subseteq 0..len - nlen
  BY DEF Seen, Occurrences
<1> QED
  BY <1>1, <1>2, FS_Subset

\* Cardinality counts the step from one set of matches to the next.
LEMMA CountStep ==
  ASSUME len \in Nat, nlen \in Nat, NEW p \in Int, NEW S,
         p \notin Seen, S = Seen \cup {p}
  PROVE  Cardinality(S) = Cardinality(Seen) + 1
BY SeenFinite, FS_AddElement

\* The loops begin before the first byte: nothing is seen yet.
LEMMA CountInit == Init => CountInv
<1> SUFFICES ASSUME Init PROVE CountInv
  OBVIOUS
<1>1. CountTypes
  BY ScanAssumption DEF Init, CountTypes, Places
<1> QED
  BY <1>1 DEF Init, CountInv

\* A step keeps the count that of the matches seen.
LEMMA CountNext ==
  ASSUME CountInv, [Next]_vars
  PROVE  CountInv'
<1> USE ScanAssumption DEF CountInv, CountTypes, inputs, output, Goto, Places
<1>1. CASE TooShort
  <2>1. nlen > 0 => Occurrences = {}
    BY <1>1 DEF TooShort, Occurrences
  <2>2. Cardinality({}) = 0
    BY FS_EmptySet
  <2>3. nlen > 0 => Occurrences' = {}
    BY <1>1, <2>1 DEF TooShort, Occurrences, OccursAt
  <2> QED
    BY <1>1, <2>2, <2>3 DEF TooShort, Counting
<1>2. CASE Begin
  <2>1. Seen' = {}
    BY <1>2 DEF Begin, Seen, Occurrences
  <2>2. Cardinality(Seen') = 0
    BY <2>1, FS_EmptySet
  <2>3. /\ pc' = "chunk" /\ pos' = 0 /\ count' = 0 /\ nlen' = nlen /\ len' = len
        /\ mask' = mask /\ nlen > 0 /\ nlen <= len
    BY <1>2 DEF Begin
  <2> HIDE DEF Seen
  <2> QED
    BY <2>2, <2>3
<1>3. CASE LoadChunk
  <2>1. /\ pc = "chunk" /\ pc' = "bits" /\ mask' = Candidates /\ ChunkFits
        /\ UNCHANGED <<data, len, needle, nlen, opts, pos, count>>
    BY <1>3 DEF LoadChunk
  <2>2. ChunkFits' /\ Candidates' = Candidates
    BY <2>1 DEF ChunkFits, Candidates
  <2>3. Occurrences' = Occurrences
    BY <2>1 DEF Occurrences, OccursAt
  <2>4. \A p \in Occurrences : p - pos \in 0..Lanes - 1 => p - pos \in Candidates
    <3> SUFFICES ASSUME NEW p \in Occurrences, p - pos \in 0..Lanes - 1
                 PROVE  p - pos \in Candidates
      OBVIOUS
    <3>1. p \in Nat /\ OccursAt(p) /\ pos + (p - pos) = p
      BY DEF Occurrences
    <3>2. data[p] = needle[0] /\ data[p + nlen - 1] = needle[nlen - 1]
      BY <2>1, <3>1, OccursByParts
    <3> QED
      BY <3>1, <3>2 DEF Candidates
  <2>5. Candidates \subseteq 0..Lanes - 1
    BY DEF Candidates
  <2>6. \A p \in Occurrences :
          (p < pos + Lanes /\ p - pos \notin Candidates) <=> p < pos
    BY <2>4, <2>5 DEF Occurrences
  <2>7. Seen' = Seen
    BY <2>1, <2>3, <2>6 DEF Seen
  <2>8. Counting' = Counting /\ PlainEnds' = PlainEnds
    BY <2>1 DEF Counting, PlainEnds
  <2> HIDE DEF Seen, Candidates, ChunkFits
  <2> QED
    BY <2>1, <2>2, <2>5, <2>7, <2>8
<1>4. ASSUME AtBit, pc' = pc, DropLowest,
             UNCHANGED <<data, len, needle, nlen, opts, pos>>,
             count' \in Nat,
             Counting => count' = IF Verified(Position) THEN count + 1 ELSE count
      PROVE  CountInv'
  <2>1. Lowest \in mask /\ mask \subseteq Candidates /\ Lowest \in 0..Lanes - 1
        /\ pc = "bits" /\ mask' = mask \ {Lowest}
    BY <1>4, LowestBit DEF AtBit, DropLowest
  <2>2. Position \in Nat /\ Position \in 0..len - nlen /\ Position - pos = Lowest
    BY <2>1 DEF Position, ChunkFits
  <2>3. OccursAt(Position) <=> Verified(Position)
    <3>1. data[Position] = needle[0] /\ data[Position + nlen - 1] = needle[nlen - 1]
      BY <2>1 DEF Candidates, Position
    <3> QED
      BY <2>1, <2>2, <3>1, OccursByParts
  <2>4. Occurrences' = Occurrences
    BY <1>4 DEF Occurrences, OccursAt
  <2>5. \A p \in Occurrences : p - pos = Lowest <=> p = Position
    BY <2>1, <2>2 DEF Occurrences
  <2>6. Seen' = IF Verified(Position) THEN Seen \cup {Position} ELSE Seen
    <3>1. Seen' = {p \in Occurrences : p < pos + Lanes /\ p - pos \notin mask \ {Lowest}}
      BY <1>4, <2>1, <2>4 DEF Seen
    <3>2. \A p \in Occurrences :
            p - pos \notin mask \ {Lowest} <=> p - pos \notin mask \/ p = Position
      BY <2>5
    <3>3. Position \in Occurrences <=> Verified(Position)
      BY <2>2, <2>3 DEF Occurrences
    <3>4. Position < pos + Lanes
      BY <2>1, <2>2
    <3>5. Seen = {p \in Occurrences : p < pos + Lanes /\ p - pos \notin mask}
      BY <2>1 DEF Seen
    <3> HIDE DEF Seen
    <3> QED
      BY <3>1, <3>2, <3>3, <3>4, <3>5
  <2>7. Position \notin Seen
    BY <2>1, <2>2 DEF Seen
  <2>8. Verified(Position) => Cardinality(Seen') = Cardinality(Seen) + 1
    BY <2>2, <2>6, <2>7, CountStep
  <2>9. Counting' = Counting /\ PlainEnds' = PlainEnds /\ ChunkFits' = ChunkFits
        /\ Candidates' = Candidates
    BY <1>4 DEF Counting, PlainEnds, ChunkFits, Candidates
  <2>10. mask' \subseteq Candidates' /\ mask' \subseteq 0..Lanes - 1
    BY <2>1, <2>9
  <2>11. Counting /\ PlainEnds => count' = Cardinality(Seen')
    BY <1>4, <2>1, <2>6, <2>8
  <2> HIDE DEF Seen, Candidates, ChunkFits, Counting, PlainEnds
  <2> QED
    BY <1>4, <2>1, <2>9, <2>10, <2>11
<1>5. CASE Reject
  BY <1>4, <1>5 DEF Reject
<1>6. CASE CountMatch
  BY <1>4, <1>6 DEF CountMatch, AtBit
<1>7. CASE PrintMatch
  BY <1>4, <1>7 DEF PrintMatch, AtBit
<1>8. CASE StopChunk
  <2>1. /\ pc = "bits" /\ pc' = pc /\ mask' = {} /\ ~Counting /\ count' = count + 1
        /\ UNCHANGED <<data, len, needle, nlen, opts, pos>>
    BY <1>8 DEF StopChunk, AtBit
  <2>2. Counting' = Counting /\ ChunkFits' = ChunkFits
    BY <2>1 DEF Counting, ChunkFits
  <2> HIDE DEF Counting, ChunkFits
  <2> QED
    BY <2>1, <2>2
<1>9. CASE ChunkDone
  <2>1. /\ pc = "bits" /\ pc' = "chunk" /\ mask = {} /\ mask' = {} /\ count' = count
        /\ pos' = pos + Lanes
        /\ UNCHANGED <<data, len, needle, nlen, opts>>
    BY <1>9 DEF ChunkDone
  <2>2. Occurrences' = Occurrences
    BY <2>1 DEF Occurrences, OccursAt
  <2>3. Seen' = Seen
    BY <2>1, <2>2 DEF Seen
  <2>4. Counting' = Counting /\ PlainEnds' = PlainEnds
    BY <2>1 DEF Counting, PlainEnds
  <2> HIDE DEF Seen, Counting, PlainEnds, Candidates, ChunkFits
  <2> QED
    BY <2>1, <2>3, <2>4
<1>10. CASE LastChunkDone
  <2>1. /\ pc = "chunk" /\ pc' = IF Counting THEN "tail" ELSE "flush"
        /\ mask' = mask /\ count' = count /\ pos' = pos
        /\ UNCHANGED <<data, len, needle, nlen, opts>>
    BY <1>10 DEF LastChunkDone
  <2>2. Occurrences' = Occurrences
    BY <2>1 DEF Occurrences, OccursAt
  <2>3. Seen' = Seen
    BY <2>1, <2>2 DEF Seen
  <2>4. Counting' = Counting /\ PlainEnds' = PlainEnds
    BY <2>1 DEF Counting, PlainEnds
  <2> HIDE DEF Seen, Counting, PlainEnds
  <2> QED
    BY <2>1, <2>3, <2>4
<1>11. CASE TailByte
  <2>1. /\ pc = "tail" /\ pc' = "tail" /\ TailLeft /\ mask' = mask /\ pos' = pos + 1
        /\ count' = IF TailMatch THEN count + 1 ELSE count
        /\ UNCHANGED <<data, len, needle, nlen, opts>>
    BY <1>11 DEF TailByte, TailStep
  <2>2. PlainEnds => (TailMatch <=> OccursAt(pos))
    BY OccursByParts, <2>1 DEF PlainEnds, TailMatch, EqualsUnsigned
  <2>3. Occurrences' = Occurrences
    BY <2>1 DEF Occurrences, OccursAt
  <2>4. pos \in 0..len - nlen
    BY <2>1 DEF TailLeft
  <2>5. Seen' = IF OccursAt(pos) THEN Seen \cup {pos} ELSE Seen
    BY <2>1, <2>3, <2>4 DEF Seen, Occurrences
  <2>6. pos \notin Seen
    BY <2>1 DEF Seen
  <2>7. OccursAt(pos) => Cardinality(Seen') = Cardinality(Seen) + 1
    BY <2>5, <2>6, CountStep
  <2>8. Counting' = Counting /\ PlainEnds' = PlainEnds
    BY <2>1 DEF Counting, PlainEnds
  <2>9. Counting /\ PlainEnds => count' = Cardinality(Seen')
    BY <2>1, <2>2, <2>5, <2>7
  <2> HIDE DEF Seen, Counting, PlainEnds, TailMatch
  <2> QED
    BY <2>1, <2>8, <2>9
<1>12. CASE TailDone
  <2>1. /\ pc = "tail" /\ pc' = "summary" /\ ~TailLeft /\ mask' = mask /\ pos' = pos
        /\ count' = count /\ UNCHANGED <<data, len, needle, nlen, opts>>
    BY <1>12 DEF TailDone
  <2>2. Seen = Occurrences
    BY <2>1 DEF Seen, Occurrences, TailLeft
  <2>3. Occurrences' = Occurrences
    BY <2>1 DEF Occurrences, OccursAt
  <2>4. Counting' = Counting /\ PlainEnds' = PlainEnds
    BY <2>1 DEF Counting, PlainEnds
  <2> HIDE DEF Seen, Counting, PlainEnds, Occurrences
  <2> QED
    BY <2>1, <2>2, <2>3, <2>4
<1>13. CASE Flush \/ Overrun
  <2>1. pc' \in {"summary", "crashed"} /\ ~Counting
    BY <1>13 DEF Flush, Overrun
  <2>2. UNCHANGED <<inputs, pos, mask, count>>
    BY <1>13 DEF Flush, Overrun
  <2>3. ~Counting'
    BY <2>1, <2>2 DEF Counting
  <2> HIDE DEF Counting
  <2> QED
    BY <2>1, <2>2, <2>3
<1>14. ASSUME pc \in {"summary", "done"}, pc' = "done", UNCHANGED <<inputs, pos, mask, count>>
       PROVE  CountInv'
  <2>1. Occurrences' = Occurrences /\ Counting' = Counting /\ PlainEnds' = PlainEnds
    BY <1>14 DEF Occurrences, OccursAt, Counting, PlainEnds
  <2> HIDE DEF Occurrences, Counting, PlainEnds
  <2> QED
    BY <1>14, <2>1
<1>15. CASE Summary
  BY <1>14, <1>15 DEF Summary
<1>16. CASE UNCHANGED vars
  <2>1. UNCHANGED <<inputs, pc, pos, mask, count>>
    BY <1>16 DEF vars
  <2>2. /\ Occurrences' = Occurrences /\ Counting' = Counting /\ PlainEnds' = PlainEnds
        /\ Candidates' = Candidates /\ ChunkFits' = ChunkFits
    BY <2>1 DEF Occurrences, OccursAt, Counting, PlainEnds, Candidates, ChunkFits
  <2>3. Seen' = Seen
    BY <2>1, <2>2 DEF Seen
  <2> HIDE DEF Occurrences, Counting, PlainEnds, Candidates, ChunkFits, Seen
  <2> QED
    BY <2>1, <2>2, <2>3
<1>17. CASE Done
  BY <1>16, <1>17 DEF Done
<1> QED
  BY <1>1, <1>2, <1>3, <1>5, <1>6, <1>7, <1>8, <1>9, <1>10, <1>11, <1>12,
     <1>13, <1>15, <1>16, <1>17 DEF Next

\* The loops of search_data keep CountInv.
THEOREM CountInvariant == Spec => []CountInv
<1>1. Init => CountInv
  BY CountInit
<1>2. CountInv /\ [Next]_vars => CountInv'
  BY CountNext
<1> QED
  BY <1>1, <1>2, PTL DEF Spec

\* The count of -c, -l and -L without -m is that of the occurrences
\* (src/search.c:94-130), for every text, every pattern that begins and ends
\* below 128 and every vector width.
THEOREM CountsExactly == Spec => []CountExact
<1>1. CountInv => CountExact
  BY DEF CountInv, CountExact
<1> QED
  BY <1>1, CountInvariant, PTL

\* What -c prints of a pattern that begins and ends below 128, with -m as
\* without it.
LimitIgnored ==
  summary = "count" /\ pc = "done" /\ PlainEnds =>
    count = Cardinality(Occurrences)

\* -m has no part in the count: whatever NUM is, -c prints the number of all
\* occurrences of the file (src/search.c:94-130, 199-202).  This is not what the
\* usage promises, "Stop after NUM matches per file" (src/main.c:32).
THEOREM CountIgnoresLimit == Spec => []LimitIgnored
<1> DEFINE Inv == /\ pc \in {"flush", "summary"} => nlen > 0
                  /\ summary = "count" => opts.count_only /\ nlen > 0
<1>1. Init => Inv
  BY DEF Init
<1>2. ASSUME CountInv, Inv, [Next]_vars PROVE Inv'
  <2>1. CASE Summary
    BY <1>2, <2>1 DEF Summary, SummaryOf, Goto, inputs
  <2>2. CASE LastChunkDone \/ TailDone
    BY <1>2, <2>2 DEF LastChunkDone, TailDone, Goto, inputs, CountInv
  <2>3. CASE \/ TooShort \/ Begin \/ LoadChunk \/ Reject \/ CountMatch \/ StopChunk
             \/ PrintMatch \/ Overrun \/ ChunkDone \/ TailByte \/ Flush
    <3>1. pc' \in {"flush", "summary"} => pc \in {"flush", "summary"}
      BY <2>3
         DEF TooShort, Begin, LoadChunk, Reject, CountMatch, StopChunk, PrintMatch, Overrun,
             ChunkDone, TailByte, Flush, Goto, AtBit
    <3>2. UNCHANGED <<opts, nlen, summary>>
      BY <2>3
         DEF TooShort, Begin, LoadChunk, Reject, CountMatch, StopChunk, PrintMatch, Overrun,
             ChunkDone, TailByte, Flush, inputs
    <3> QED
      BY <1>2, <3>1, <3>2
  <2>4. CASE UNCHANGED vars
    BY <1>2, <2>4 DEF vars, inputs
  <2> QED
    BY <1>2, <2>1, <2>2, <2>3, <2>4 DEF Next, Done
<1>3. ASSUME CountInv, Inv PROVE LimitIgnored
  BY <1>3 DEF CountInv, LimitIgnored, Counting
<1> QED
  BY <1>1, <1>2, <1>3, CountInvariant, PTL DEF Spec

\* When -l or -L names a file, and what -c, -l and -L print last.
SummaryInv ==
  pc = "done" /\ 0 < nlen /\ nlen <= len => summary = SummaryOf(count)

\* -l and -L name the right files (src/search.c:203-210), whatever the text, the
\* vector width and the pattern, if it begins and ends below 128.
THEOREM RightFilesNamed == Spec => []NamesTheRightFiles
<1>1. Init => SummaryInv
  BY DEF Init, SummaryInv
<1>2. ASSUME SummaryInv, CountInv, [Next]_vars PROVE SummaryInv'
  <2>1. CASE pc' # "done"
    BY <2>1 DEF SummaryInv
  <2>2. CASE TooShort
    BY <1>2, <2>2 DEF TooShort, SummaryInv, CountInv, CountTypes, inputs
  <2>3. CASE Summary
    BY <2>3 DEF Summary, SummaryInv, SummaryOf, inputs
  <2>4. CASE UNCHANGED vars
    BY <1>2, <2>4 DEF SummaryInv, SummaryOf, vars, inputs
  <2>5. CASE Begin \/ LoadChunk \/ ChunkDone \/ LastChunkDone \/ TailDone \/ Flush
    <3>1. pc' # "done"
      BY <2>5 DEF Begin, LoadChunk, ChunkDone, LastChunkDone, TailDone, Flush, Goto
    <3> QED
      BY <2>1, <3>1
  <2>6. CASE Reject \/ CountMatch \/ StopChunk \/ PrintMatch \/ Overrun \/ TailByte
    <3>1. pc' # "done"
      BY <2>6 DEF Reject, CountMatch, StopChunk, PrintMatch, Overrun, AtBit, TailByte
    <3> QED
      BY <2>1, <3>1
  <2> QED
    BY <1>2, <2>1, <2>2, <2>3, <2>4, <2>5, <2>6 DEF Next, Done
<1>3. ASSUME SummaryInv, CountInv PROVE NamesTheRightFiles
  <2> SUFFICES ASSUME pc = "done", 0 < nlen, nlen <= len, PlainEnds, ~opts.count_only
               PROVE  /\ opts.files_with_matches => (summary = "match" <=> Occurrences # {})
                      /\ opts.files_without_match => (summary = "no_match" <=> Occurrences = {})
    BY DEF NamesTheRightFiles
  <2>1. summary = SummaryOf(count)
    BY <1>3 DEF SummaryInv
  <2>2. Counting => count = Cardinality(Occurrences)
    BY <1>3 DEF CountInv
  <2>3. IsFiniteSet(Occurrences)
    <3>1. IsFiniteSet(0..len - nlen) /\ Occurrences \subseteq 0..len - nlen
      BY <1>3, FS_Interval DEF CountInv, CountTypes, Occurrences
    <3> QED
      BY <3>1, FS_Subset
  <2>4. Cardinality(Occurrences) \in Nat
        /\ (Cardinality(Occurrences) = 0 <=> Occurrences = {})
    BY <2>3, FS_CardinalityType, FS_EmptySet
  <2> HIDE DEF Occurrences
  <2> QED
    BY <2>1, <2>2, <2>4 DEF SummaryOf, Counting
<1> QED
  BY <1>1, <1>2, <1>3, CountInvariant, PTL DEF Spec
------------------------------------------------------------------------------
(* The output buffer *)

\* The line around a match is part of the text.
LEMMA LineIsInText ==
  ASSUME len \in Nat, nlen \in Nat, nlen > 0, NEW p \in 0..len - nlen
  PROVE  /\ LineStart(p) \in 0..p
         /\ LineLen(p) \in 0..len
<1>1. LineStart(p) \in 0..p
  <2> DEFINE S == {k \in 0..p : k = p \/ data[p - k - 1] = Newline}
  <2>1. p \in S /\ S \subseteq Nat
    OBVIOUS
  <2>2. PICK k \in S : \A c \in S : k <= c
    <3> HIDE DEF S
    <3> QED
      BY <2>1, SmallestElement
  <2>3. p - k \in 0..p /\ (p - k = 0 \/ data[p - k - 1] = Newline)
    OBVIOUS
  <2>4. ASSUME NEW i \in p - k..p - 1, data[i] = Newline PROVE FALSE
    <3>1. p - 1 - i \in 0..p /\ p - (p - 1 - i) - 1 = i /\ p - 1 - i < k
      OBVIOUS
    <3>2. p - 1 - i \in S
      BY <2>4, <3>1
    <3> QED
      BY <2>2, <3>1, <3>2
  <2>5. \E s \in 0..p : /\ s = 0 \/ data[s - 1] = Newline
                        /\ \A i \in s..p - 1 : data[i] # Newline
    BY <2>3, <2>4
  <2> QED
    BY <2>5 DEF LineStart
<1> DEFINE q == p + nlen
<1>2. q \in Nat /\ q <= len /\ p <= q
  OBVIOUS
<1> HIDE DEF q
<1>3. LineEnd(q) \in q..len
  <2> DEFINE E == {e \in q..len : e = len \/ data[e] = Newline}
  <2>1. len \in E /\ E \subseteq Nat
    BY <1>2
  <2>2. PICK e \in E : \A c \in E : e <= c
    <3> HIDE DEF E
    <3> QED
      BY <2>1, SmallestElement
  <2>3. \A i \in q..e - 1 : data[i] # Newline
    <3> SUFFICES ASSUME NEW i \in q..e - 1, data[i] = Newline PROVE FALSE
      OBVIOUS
    <3>1. i \in E /\ i < e
      BY <1>2
    <3> QED
      BY <1>2, <2>2, <3>1
  <2>4. \E f \in q..len : /\ f = len \/ data[f] = Newline
                          /\ \A i \in q..f - 1 : data[i] # Newline
    BY <2>2, <2>3
  <2> QED
    BY <2>4 DEF LineEnd
<1>4. LineLen(p) = LineEnd(q) - LineStart(p)
  BY DEF LineLen, q
<1> QED
  BY <1>1, <1>2, <1>3, <1>4

\* A line takes no more than it is said to need.
LEMMA LineHasRoom ==
  ASSUME len \in 0..MaxLen, nlen \in Nat, nlen > 0, NEW p \in 0..len - nlen
  PROVE  /\ Taken(p) \in Nat
         /\ Needed(p) \in Nat
         /\ Taken(p) <= Needed(p)
<1>1. len \in Nat /\ MaxLen \in Nat /\ PathLen \in Nat /\ LineNoRoom \in Nat
  BY ScanAssumption DEF ScanAssumption
<1>2. LineStart(p) \in 0..p /\ LineLen(p) \in 0..len
  BY <1>1, LineIsInText
<1> DEFINE s == LineStart(p)
           before == {i \in 0..s - 1 : data[i] = Newline}
<1>3. LineNo(s) \in 1..MaxLen + 1
  <2>1. IsFiniteSet(0..s - 1) /\ Cardinality(0..s - 1) = s /\ s \in Nat
    <3>1. s \in Nat
      BY <1>2
    <3> HIDE DEF s
    <3> QED
      BY <3>1, FS_Interval
  <2>2. before \subseteq 0..s - 1
    OBVIOUS
  <2>3. Cardinality(before) \in Nat /\ Cardinality(before) <= s
    <3> HIDE DEF s, before
    <3> QED
      BY <2>1, <2>2, FS_Subset, FS_CardinalityType
  <2>4. LineNo(s) = 1 + Cardinality(before)
    BY DEF LineNo
  <2> QED
    BY <1>1, <1>2, <2>3, <2>4
<1>4. Digits(LineNo(s)) \in 1..LineNoRoom - 1
  BY <1>3, RoomAssumption DEF RoomAssumption
<1>5. Taken(p) = PathLen + 1 + LineLen(p) + 1
                 + IF opts.line_number THEN Digits(LineNo(s)) + 1 ELSE 0
  BY DEF Taken
<1>6. Needed(p) = PathLen + (IF opts.line_number THEN LineNoRoom ELSE 0) + LineLen(p) + 2
  BY DEF Needed
<1> HIDE DEF s
<1> QED
  BY <1>1, <1>2, <1>4, <1>5, <1>6

\* The text and the pattern stay the same, and with them what a line takes.
LEMMA LineTakesTheSame ==
  ASSUME UNCHANGED <<data, len, nlen, opts>>
  PROVE  /\ \A p : Taken(p)' = Taken(p)
         /\ Taken(outbuf[1])' = Taken(outbuf'[1])
  BY DEF Taken, LineLen, LineStart, LineEnd, LineNo

\* No more matches than places were tried, and only a line that is too long for
\* the buffer overruns it.
PlaceInv ==
  /\ pc \in {"start", "chunk", "tail"} => count <= pos
  /\ pc = "bits" => /\ count <= pos + Lanes
                    /\ \A b \in mask : count <= pos + b
  /\ BufferHolds

ScanInv == TypeOK /\ CountInv /\ PlaceInv

LEMMA ScanInit == Init => ScanInv
<1> SUFFICES ASSUME Init PROVE ScanInv
  OBVIOUS
<1>1. CountInv
  BY CountInit
<1>2. <<>> \in Seq(0..MaxLen)
  OBVIOUS
<1>3. TypeOK /\ PlaceInv
  BY <1>2, ScanAssumption
     DEF ScanAssumption, Init, TypeOK, PlaceInv, BufferHolds, Places
<1> QED
  BY <1>1, <1>3 DEF ScanInv

\* In a chunk the lowest bit that is left stands for a position of the text.
LEMMA PositionIs ==
  ASSUME ScanInv, AtBit
  PROVE  /\ pc = "bits" /\ Lanes \in Nat \ {0} /\ mask \subseteq 0..Lanes - 1
         /\ Lowest \in mask /\ \A b \in mask : Lowest <= b
         /\ Position = pos + Lowest /\ Position \in 0..len - nlen
         /\ count <= pos + Lowest
         /\ pos + Lanes <= len
         /\ len \in 0..MaxLen /\ MaxLen \in Nat /\ nlen \in Nat \ {0} /\ pos \in Nat
         /\ count \in Nat
<1>1. pc = "bits" /\ mask # {} /\ mask \subseteq 0..Lanes - 1 /\ Lanes \in Nat \ {0}
  BY ScanAssumption DEF AtBit, ScanInv, TypeOK, ScanAssumption
<1>2. Lowest \in mask /\ \A b \in mask : Lowest <= b
  BY <1>1, LowestBit
<1>3. /\ pos + Lanes <= len - nlen + 1 /\ len \in 0..MaxLen /\ MaxLen \in Nat
      /\ nlen \in Nat \ {0} /\ pos \in Nat /\ count \in Nat
  BY <1>1, ScanAssumption DEF ScanInv, CountInv, ChunkFits, TypeOK, ScanAssumption
<1>4. count <= pos + Lowest
  BY <1>1, <1>2 DEF ScanInv, PlaceInv
<1>5. Position \in 0..len - nlen
  BY <1>1, <1>2, <1>3 DEF Position
<1> QED
  BY <1>1, <1>2, <1>3, <1>4, <1>5 DEF Position

\* The steps within a chunk.
LEMMA BitKept ==
  ASSUME ScanInv, Reject \/ CountMatch \/ StopChunk \/ PrintMatch
  PROVE  TypeOK' /\ PlaceInv'
<1>1. AtBit
  BY DEF Reject, CountMatch, StopChunk, PrintMatch
<1>2. /\ pc = "bits" /\ Lanes \in Nat \ {0} /\ mask \subseteq 0..Lanes - 1
      /\ Lowest \in mask /\ \A b \in mask : Lowest <= b
      /\ Position = pos + Lowest /\ Position \in 0..len - nlen
      /\ count <= pos + Lowest
      /\ pos + Lanes <= len
      /\ len \in 0..MaxLen /\ MaxLen \in Nat /\ nlen \in Nat \ {0} /\ pos \in Nat
      /\ count \in Nat
  BY <1>1, PositionIs
<1>3. UNCHANGED <<data, len, needle, nlen, opts, pc, pos, summary>>
  BY DEF Reject, CountMatch, StopChunk, PrintMatch, AtBit, inputs
<1>4. /\ count' \in {count, count + 1}
      /\ mask' = mask \ {Lowest} \/ mask' = {}
  BY DEF Reject, CountMatch, StopChunk, PrintMatch, DropLowest
<1>5. /\ count' \in 0..len /\ mask' \subseteq 0..Lanes - 1
      /\ count' <= pos + Lanes /\ \A b \in mask' : count' <= pos + b
  <2>1. Lowest \in 0..Lanes - 1
    BY <1>2
  <2>2. ASSUME NEW b \in mask \ {Lowest} PROVE count' <= pos + b
    <3>1. Lowest < b
      BY <1>2
    <3> QED
      BY <1>2, <1>4, <3>1
  <2>3. count' <= pos + Lanes
    BY <1>2, <1>4, <2>1
  <2>4. count' \in 0..len
    BY <1>2, <1>4, <2>1, <2>3
  <2>5. mask' \subseteq mask \ {Lowest}
    BY <1>4
  <2>6. mask' \subseteq 0..Lanes - 1
    BY <1>2, <2>5
  <2>7. \A b \in mask' : count' <= pos + b
    BY <2>2, <2>5
  <2> QED
    BY <2>3, <2>4, <2>6, <2>7
<1>6. /\ outbuf' \in Seq(0..MaxLen) /\ written' \in Seq(0..MaxLen)
      /\ outpos' \in Nat /\ BufferHolds'
  <2>1. /\ outbuf \in Seq(0..MaxLen) /\ written \in Seq(0..MaxLen)
        /\ outpos \in Nat /\ BufferHolds /\ BufSize \in Nat
    BY ScanAssumption DEF ScanInv, TypeOK, PlaceInv, ScanAssumption
  <2>2. \A p : Taken(p)' = Taken(p)
    BY <1>3, LineTakesTheSame
  <2>3. CASE UNCHANGED output
    BY <2>1, <2>2, <2>3 DEF output, BufferHolds
  <2>4. CASE PrintMatch
    <3>1. /\ Taken(Position) \in Nat /\ Needed(Position) \in Nat
          /\ Taken(Position) <= Needed(Position)
      BY <1>2, LineHasRoom
    <3>2. Position \in 0..MaxLen
      BY <1>2
    <3>3. CASE Full(Position)
      <4>1. /\ written' = written \o outbuf /\ outbuf' = <<Position>>
            /\ outpos' = Taken(Position)
        BY <2>4, <3>3 DEF PrintMatch, FlushBuffer
      <4>2. written' \in Seq(0..MaxLen) /\ outbuf' \in Seq(0..MaxLen)
        BY <2>1, <3>2, <4>1
      <4>3. Len(outbuf') = 1 /\ Taken(outbuf[1])' = Taken(Position)
        <5>1. outbuf'[1] = Position /\ Len(outbuf') = 1
          BY <4>1
        <5> QED
          BY <1>3, <5>1, LineTakesTheSame
      <4> QED
        BY <2>1, <3>1, <4>1, <4>2, <4>3 DEF BufferHolds
    <3>4. CASE ~Full(Position)
      <4>1. /\ outbuf' = Append(outbuf, Position) /\ written' = written
            /\ outpos' = outpos + Taken(Position)
        BY <2>4, <3>4 DEF PrintMatch
      <4>2. ~(outpos + Needed(Position) > BufSize)
        BY <3>4 DEF Full
      <4>3. outpos' \in Nat /\ outpos' <= BufSize
        BY <2>1, <3>1, <4>1, <4>2
      <4> QED
        BY <2>1, <3>2, <4>1, <4>3 DEF BufferHolds
    <3> QED
      BY <3>3, <3>4
  <2> QED
    BY <2>3, <2>4 DEF Reject, CountMatch, StopChunk
<1> QED
  BY <1>2, <1>3, <1>5, <1>6 DEF ScanInv, TypeOK, PlaceInv

LEMMA ScanNext ==
  ASSUME ScanInv, [Next]_vars
  PROVE  ScanInv'
<1>1. CountInv'
  BY CountNext DEF ScanInv
<1>2. Lanes \in Nat \ {0} /\ BufSize \in Nat
  BY ScanAssumption DEF ScanAssumption
<1>11. ASSUME UNCHANGED <<inputs, output>> PROVE BufferHolds'
  <2>1. \A p : Taken(p)' = Taken(p)
    BY <1>11, LineTakesTheSame DEF inputs
  <2> QED
    BY <1>11, <2>1 DEF BufferHolds, output, ScanInv, PlaceInv
<1> USE DEF ScanInv, TypeOK, PlaceInv, Places, Goto, inputs, output
<1>3. CASE TooShort \/ Begin \/ TailDone \/ LastChunkDone \/ Overrun
  BY <1>1, <1>3, <1>11 DEF TooShort, Begin, TailDone, LastChunkDone, Overrun
<1>4. CASE LoadChunk
  <2>1. Candidates \subseteq 0..Lanes - 1
    BY DEF Candidates
  <2>2. /\ pc = "chunk" /\ pc' = "bits" /\ mask' = Candidates
        /\ UNCHANGED <<inputs, pos, count, output, summary>>
    BY <1>4 DEF LoadChunk
  <2>3. count \in Nat /\ pos \in Nat /\ count <= pos
    BY <2>2
  <2>4. count <= pos + Lanes /\ \A b \in Candidates : count <= pos + b
    BY <1>2, <2>1, <2>3
  <2> HIDE DEF Candidates
  <2> QED
    BY <1>1, <1>11, <2>1, <2>2, <2>4
<1>5. CASE ChunkDone
  <2>1. pos + Lanes <= len /\ pos \in Nat /\ count <= pos + Lanes
    BY <1>2, <1>5 DEF ChunkDone, CountInv, ChunkFits
  <2>2. pc' = "chunk" /\ pos' = pos + Lanes /\ UNCHANGED <<inputs, mask, count, output, summary>>
    BY <1>5 DEF ChunkDone
  <2> QED
    BY <1>1, <1>2, <1>11, <2>1, <2>2
<1>6. CASE TailByte
  <2>1. /\ pc = "tail" /\ pc' = pc /\ pos' = pos + 1 /\ count' \in {count, count + 1}
        /\ UNCHANGED <<inputs, mask, output, summary>>
    BY <1>6 DEF TailByte, TailStep
  <2>2. pos + nlen <= len /\ 0 < nlen /\ nlen \in Nat
    BY <1>6 DEF TailByte, TailLeft, CountInv
  <2>3. pos' \in 0..len /\ count' \in 0..len /\ count' <= pos'
    BY <2>1, <2>2
  <2> QED
    BY <1>1, <1>11, <2>1, <2>3
<1>7. CASE Flush
  <2>1. written \o outbuf \in Seq(0..MaxLen) /\ <<>> \in Seq(0..MaxLen)
    OBVIOUS
  <2> QED
    BY <1>1, <1>2, <1>7, <2>1 DEF Flush, FlushBuffer, BufferHolds
<1>8. CASE Summary
  <2>1. SummaryOf(count) \in {"none", "count", "match", "no_match"}
    BY DEF SummaryOf
  <2> QED
    BY <1>1, <1>8, <1>11, <2>1 DEF Summary
<1>9. CASE UNCHANGED vars
  BY <1>1, <1>9, <1>11 DEF vars
<1> QED
  BY <1>1, <1>3, <1>4, <1>5, <1>6, <1>7, <1>8, <1>9, BitKept DEF Next, Done

LEMMA ScanInvariant == Spec => []ScanInv
<1>1. ScanInv /\ [Next]_vars => ScanInv'
  BY ScanNext
<1> QED
  BY <1>1, ScanInit, PTL DEF Spec

\* Every state is well typed; there are never more matches than bytes.
THEOREM TypeCorrect == Spec => []TypeOK
<1>1. ScanInv => TypeOK
  BY DEF ScanInv
<1> QED
  BY <1>1, ScanInvariant, PTL

\* Whatever the lines, the paths and the buffer: no line is copied behind others
\* without room for it, and past the end of the output buffer goes only a line
\* that an empty one could not hold (src/search.c:154-159, 184-189).
THEOREM OnlyLongLinesOverrun == Spec => []BufferHolds
<1>1. ScanInv => BufferHolds
  BY DEF ScanInv, PlaceInv
<1> QED
  BY <1>1, ScanInvariant, PTL
------------------------------------------------------------------------------
(* The printed lines *)

Passed == {p \in Occurrences : p < ScannedTo}

\* What was printed are occurrences the scan is past, each at its own rank.
InOrder ==
  \A i \in 1..Len(Printed) :
    /\ Printed[i] \in Passed
    /\ Cardinality({p \in Occurrences : p < Printed[i]}) = i - 1

\* Until the limit is reached the count is that of the matches the scan is past,
\* and all of them are printed; then nothing more is.
WithinLimit ==
  IF opts.max_count = 0 \/ Cardinality(Passed) < opts.max_count
    THEN count = Cardinality(Passed) /\ Len(Printed) = count
    ELSE count >= opts.max_count /\ Len(Printed) = opts.max_count

\* The bits of a chunk are taken from the lowest up.
UpperBits ==
  pc = "bits" => \A b \in mask : \A c \in Candidates : c >= b => c \in mask

PrintInv ==
  /\ UpperBits
  /\ ~Counting /\ nlen > 0 /\ pc # "crashed" => pc # "tail" /\ InOrder /\ WithinLimit

LEMMA PrintedIsSequence ==
  ASSUME TypeOK
  PROVE  /\ Printed \in Seq(0..MaxLen)
         /\ Len(Printed) = Len(written) + Len(outbuf)
  BY DEF TypeOK, Printed

LEMMA AppendIs ==
  ASSUME NEW T, NEW s \in Seq(T), NEW x \in T
  PROVE  /\ Len(Append(s, x)) = Len(s) + 1
         /\ Append(s, x)[Len(s) + 1] = x
         /\ \A i \in 1..Len(s) : Append(s, x)[i] = s[i]
  OBVIOUS

LEMMA LowestElement ==
  ASSUME NEW S, S \subseteq Nat, S # {}
  PROVE  LET b == CHOOSE x \in S : \A c \in S : x <= c
         IN  b \in S /\ \A c \in S : b <= c
<1>1. \E b \in S : \A c \in S : b <= c
  BY SmallestElement
<1> QED
  BY <1>1

LEMMA PassedFinite ==
  ASSUME len \in Nat, nlen \in Nat, NEW S \in SUBSET Occurrences
  PROVE  IsFiniteSet(S) /\ Cardinality(S) \in Nat
<1>1. IsFiniteSet(0..len - nlen) /\ S \subseteq 0..len - nlen
  BY FS_Interval DEF Occurrences
<1> QED
  BY <1>1, FS_Subset, FS_CardinalityType

\* An occurrence in a chunk is one of its candidates.
LEMMA OccurrenceIsCandidate ==
  ASSUME nlen \in Nat, nlen > 0, pos \in Nat, len \in Nat,
         NEW p \in Occurrences, p - pos \in 0..Lanes - 1, Lanes \in Nat
  PROVE  p - pos \in Candidates
<1>1. p \in Nat /\ OccursAt(p) /\ pos + (p - pos) = p
  BY DEF Occurrences
<1>2. data[p] = needle[0] /\ data[p + nlen - 1] = needle[nlen - 1]
  BY <1>1, OccursByParts
<1> QED
  BY <1>1, <1>2 DEF Candidates

\* Dropping the lowest bit takes the scan past exactly one position that may be
\* an occurrence.
LEMMA PassPosition ==
  ASSUME ScanInv, UpperBits, AtBit, DropLowest,
         UNCHANGED <<data, len, needle, nlen, pc, pos>>
  PROVE  /\ Occurrences' = Occurrences
         /\ UpperBits'
         /\ Passed = {p \in Occurrences : p < Position}
         /\ Position \notin Passed
         /\ Position \in Occurrences <=> Verified(Position)
         /\ Passed' = {p \in Occurrences : p < Position \/ p = Position}
<1>1. /\ pc = "bits" /\ pc' = "bits" /\ Lanes \in Nat \ {0} /\ mask \subseteq 0..Lanes - 1
      /\ Lowest \in mask /\ \A b \in mask : Lowest <= b
      /\ Position = pos + Lowest /\ Position \in 0..len - nlen
      /\ len \in 0..MaxLen /\ MaxLen \in Nat /\ nlen \in Nat \ {0} /\ pos \in Nat
      /\ mask' = mask \ {Lowest} /\ mask # {} /\ pos' = pos
  BY PositionIs DEF AtBit, DropLowest
<1>2. Occurrences' = Occurrences /\ Candidates' = Candidates
  BY DEF Occurrences, OccursAt, Candidates
<1>3. mask \subseteq Candidates
  BY <1>1 DEF ScanInv, CountInv
<1>4. Position \in Occurrences <=> Verified(Position)
  <2>1. Lowest \in Candidates
    BY <1>1, <1>3
  <2>2. data[Position] = needle[0] /\ data[Position + nlen - 1] = needle[nlen - 1]
    BY <1>1, <2>1 DEF Candidates
  <2>3. OccursAt(Position) <=> Verified(Position)
    BY <1>1, <2>2, OccursByParts
  <2> QED
    BY <1>1, <2>3 DEF Occurrences
<1>5. UpperBits'
  <2> SUFFICES ASSUME NEW b \in mask', NEW c \in Candidates, c >= b PROVE c \in mask'
    BY <1>2 DEF UpperBits
  <2>1. b \in mask /\ b # Lowest /\ Lowest <= b /\ b \in Nat /\ Lowest \in Nat
    BY <1>1
  <2>2. c \in mask
    BY <1>1, <2>1 DEF UpperBits
  <2>3. c # Lowest
    BY <2>1
  <2> QED
    BY <1>1, <2>2, <2>3
<1>6. ScannedTo = Position
  BY <1>1 DEF ScannedTo
<1>7. Passed = {p \in Occurrences : p < Position}
  BY <1>6 DEF Passed
<1>8. Position \notin Passed
  BY <1>1, <1>7
<1>9. \A p \in Occurrences : p \in Nat
  BY <1>1 DEF Occurrences
<1>10. \A p \in Occurrences : p < ScannedTo' <=> p < Position \/ p = Position
  <2> SUFFICES ASSUME NEW p \in Occurrences
               PROVE  p < ScannedTo' <=> p < Position \/ p = Position
    OBVIOUS
  <2>1. p \in Nat
    BY <1>9
  <2>2. ASSUME p > Position, p < pos + Lanes PROVE p - pos \in mask'
    <3>1. p - pos \in 0..Lanes - 1 /\ p - pos > Lowest
      BY <1>1, <2>1, <2>2
    <3>2. p - pos \in Candidates
      BY <1>1, <3>1, OccurrenceIsCandidate
    <3>3. p - pos \in mask
      BY <1>1, <3>1, <3>2 DEF UpperBits
    <3> QED
      BY <1>1, <3>1, <3>3
  <2>3. CASE mask' = {}
    <3>1. ScannedTo' = pos + Lanes
      BY <1>1, <2>3 DEF ScannedTo
    <3> QED
      BY <1>1, <2>1, <2>2, <2>3, <3>1
  <2>4. CASE mask' # {}
    <3>1. mask' \subseteq Nat
      BY <1>1
    <3>2. PICK b \in mask' : b = Lowest' /\ \A c \in mask' : b <= c
      BY <2>4, <3>1, LowestElement DEF Lowest
    <3>3. ScannedTo' = pos + b
      BY <1>1, <2>4, <3>2 DEF ScannedTo, Position
    <3>4. b \in 0..Lanes - 1 /\ Lowest \in 0..Lanes - 1 /\ b > Lowest
      BY <1>1, <3>2
    <3>5. ASSUME p > Position, p < pos + b PROVE FALSE
      <4>1. p - pos \in mask'
        BY <1>1, <2>1, <2>2, <3>4, <3>5
      <4>2. b <= p - pos
        BY <3>2, <4>1
      <4> QED
        BY <1>1, <2>1, <3>4, <3>5, <4>2
    <3> QED
      BY <1>1, <2>1, <3>3, <3>4, <3>5
  <2> QED
    BY <2>3, <2>4
<1>11. Passed' = {p \in Occurrences : p < Position \/ p = Position}
  BY <1>2, <1>10 DEF Passed
<1> QED
  BY <1>2, <1>4, <1>5, <1>7, <1>8, <1>11

\* Nothing of the search for printed lines changes.
LEMMA PrintQuiet ==
  ASSUME PrintInv, UpperBits', Occurrences' = Occurrences, Passed' = Passed,
         Printed' = Printed, count' = count, opts' = opts, nlen' = nlen,
         ~Counting /\ nlen > 0 => pc' # "tail", pc = "crashed" => pc' = "crashed"
  PROVE  PrintInv'
<1>1. Counting' = Counting
  BY DEF Counting
<1>2. InOrder' <=> InOrder
  BY DEF InOrder
<1>3. WithinLimit' <=> WithinLimit
  BY DEF WithinLimit
<1> QED
  BY <1>1, <1>2, <1>3 DEF PrintInv

LEMMA PrintInit == Init => PrintInv
<1> SUFFICES ASSUME Init PROVE PrintInv
  OBVIOUS
<1>1. UpperBits /\ pc # "tail"
  BY DEF Init, UpperBits
<1>2. Printed = <<>> /\ Len(Printed) = 0 /\ count = 0
  BY DEF Init, Printed
<1>3. ScannedTo = 0
  BY DEF Init, ScannedTo
<1>4. Passed = {}
  BY <1>3 DEF Passed, Occurrences
<1>5. Cardinality(Passed) = 0
  BY <1>4, FS_EmptySet
<1>6. InOrder
  BY <1>2 DEF InOrder
<1>7. opts.max_count \in Nat
  BY ScanAssumption DEF ScanAssumption, Init, OptionType
<1>8. WithinLimit
  BY <1>2, <1>5, <1>7 DEF WithinLimit
<1> QED
  BY <1>1, <1>6, <1>8 DEF PrintInv

\* The steps that print nothing.
LEMMA PrintElsewhere ==
  ASSUME ScanInv, PrintInv, [Next]_vars, ~CountMatch, ~StopChunk, ~PrintMatch, ~TailByte
  PROVE  PrintInv'
<1>1. CASE Reject
  <2>1. /\ AtBit /\ ~Verified(Position) /\ DropLowest
        /\ UNCHANGED <<data, len, needle, nlen, opts, pc, pos, count, outbuf, written>>
    BY <1>1 DEF Reject, inputs, output
  <2>2. /\ Occurrences' = Occurrences /\ UpperBits'
        /\ Passed = {p \in Occurrences : p < Position}
        /\ Position \notin Occurrences
        /\ Passed' = {p \in Occurrences : p < Position \/ p = Position}
    BY <2>1, PassPosition DEF PrintInv
  <2>3. Passed' = Passed
    <3> HIDE DEF Occurrences, Position, Passed
    <3> QED
      BY <2>2
  <2>4. Printed' = Printed
    BY <2>1 DEF Printed
  <2>5. pc' # "tail" /\ pc # "crashed"
    BY <2>1 DEF AtBit
  <2> QED
    BY <2>1, <2>2, <2>3, <2>4, <2>5, PrintQuiet
<1>2. CASE LoadChunk
  <2>1. /\ pc = "chunk" /\ pc' = "bits" /\ mask' = Candidates /\ ChunkFits
        /\ UNCHANGED <<data, len, needle, nlen, opts, pos, count, outbuf, written>>
    BY <1>2 DEF LoadChunk, Goto, inputs, output
  <2>2. /\ len \in Nat /\ nlen \in Nat /\ nlen > 0 /\ pos \in Nat /\ Lanes \in Nat
        /\ Candidates \subseteq 0..Lanes - 1
    BY <2>1, ScanAssumption DEF ScanAssumption, ScanInv, CountInv, CountTypes, Candidates
  <2>3. Occurrences' = Occurrences /\ Candidates' = Candidates
    BY <2>1 DEF Occurrences, OccursAt, Candidates
  <2>4. UpperBits'
    BY <2>1, <2>3 DEF UpperBits
  <2>5. ScannedTo = pos
    BY <2>1 DEF ScannedTo
  <2>6. \A p \in Occurrences : p < ScannedTo' <=> p < pos
    <3> SUFFICES ASSUME NEW p \in Occurrences PROVE p < ScannedTo' <=> p < pos
      OBVIOUS
    <3>1. p \in Nat
      BY <2>2 DEF Occurrences
    <3>2. ASSUME p >= pos, p < pos + Lanes PROVE p - pos \in Candidates
      BY <2>2, <3>1, <3>2, OccurrenceIsCandidate
    <3>3. CASE mask' = {}
      <4>1. ScannedTo' = pos + Lanes
        BY <2>1, <3>3 DEF ScannedTo
      <4> QED
        BY <2>1, <2>2, <3>1, <3>2, <3>3, <4>1
    <3>4. CASE mask' # {}
      <4>1. mask' \subseteq Nat
        BY <2>1, <2>2
      <4>2. PICK b \in mask' : b = Lowest' /\ \A c \in mask' : b <= c
        BY <3>4, <4>1, LowestElement DEF Lowest
      <4>3. ScannedTo' = pos + b
        BY <2>1, <3>4, <4>2 DEF ScannedTo, Position
      <4>4. b \in 0..Lanes - 1
        BY <2>1, <2>2, <4>2
      <4>5. ASSUME p >= pos, p < pos + b PROVE FALSE
        <5>1. p - pos \in mask'
          BY <2>1, <2>2, <3>1, <3>2, <4>4, <4>5
        <5>2. b <= p - pos
          BY <4>2, <5>1
        <5> QED
          BY <2>2, <3>1, <4>4, <4>5, <5>2
      <4> QED
        BY <2>2, <3>1, <4>3, <4>4, <4>5
    <3> QED
      BY <3>3, <3>4
  <2>7. Passed' = Passed
    BY <2>3, <2>5, <2>6 DEF Passed
  <2>8. Printed' = Printed
    BY <2>1 DEF Printed
  <2>9. pc' # "tail" /\ pc # "crashed"
    BY <2>1
  <2> QED
    BY <2>1, <2>3, <2>4, <2>7, <2>8, <2>9, PrintQuiet
<1>3. ASSUME UNCHANGED <<data, len, needle, nlen, opts, count>>, pc' # "bits",
             ScannedTo' = ScannedTo, Printed' = Printed, ~Counting => pc' # "tail",
             pc # "crashed"
      PROVE  PrintInv'
  <2>1. Occurrences' = Occurrences
    BY <1>3 DEF Occurrences, OccursAt
  <2>2. Passed' = Passed
    BY <1>3, <2>1 DEF Passed
  <2>3. UpperBits'
    BY <1>3 DEF UpperBits
  <2> QED
    BY <1>3, <2>1, <2>2, <2>3, PrintQuiet
<1>4. CASE TooShort \/ Begin \/ LastChunkDone \/ Summary
  <2>1. /\ UNCHANGED <<data, len, needle, nlen, opts, count, pos, outbuf, written>>
        /\ pc # "bits" /\ pc' # "bits" /\ (~Counting => pc' # "tail")
        /\ pc # "crashed"
    BY <1>4 DEF TooShort, Begin, LastChunkDone, Summary, Goto, inputs, output
  <2>2. ScannedTo' = ScannedTo /\ Printed' = Printed
    BY <2>1 DEF ScannedTo, Printed
  <2> QED
    BY <1>3, <2>1, <2>2
<1>5. CASE TailDone
  <2>1. /\ UNCHANGED <<data, len, needle, nlen, opts, count, pos, outbuf, written>>
        /\ pc = "tail" /\ pc' = "summary"
    BY <1>5 DEF TailDone, Goto, inputs, output
  <2>2. ScannedTo' = ScannedTo /\ Printed' = Printed
    BY <2>1 DEF ScannedTo, Printed
  <2> QED
    BY <1>3, <2>1, <2>2
<1>6. CASE ChunkDone
  <2>1. /\ UNCHANGED <<data, len, needle, nlen, opts, count, outbuf, written>>
        /\ pc = "bits" /\ mask = {} /\ pc' = "chunk" /\ pos' = pos + Lanes
    BY <1>6 DEF ChunkDone, Goto, inputs, output
  <2>2. ScannedTo' = ScannedTo /\ Printed' = Printed
    BY <2>1 DEF ScannedTo, Printed
  <2> QED
    BY <1>3, <2>1, <2>2
<1>7. CASE Flush
  <2>1. /\ UNCHANGED <<data, len, needle, nlen, opts, count, pos>>
        /\ written' = written \o outbuf /\ outbuf' = <<>>
        /\ pc = "flush" /\ pc' = "summary"
    BY <1>7 DEF Flush, FlushBuffer, Goto, inputs
  <2>2. ScannedTo' = ScannedTo
    BY <2>1 DEF ScannedTo
  <2>3. Printed' = Printed
    <3>1. Printed \in Seq(0..MaxLen)
      BY PrintedIsSequence DEF ScanInv
    <3>2. Printed' = Printed \o <<>>
      BY <2>1 DEF Printed
    <3> QED
      BY <3>1, <3>2
  <2> QED
    BY <1>3, <2>1, <2>2, <2>3
<1>8. CASE UNCHANGED vars
  <2>1. UNCHANGED <<data, len, needle, nlen, opts, pc, pos, mask, count, outbuf, written>>
    BY <1>8 DEF vars, inputs, output
  <2>2. Occurrences' = Occurrences /\ Candidates' = Candidates
    BY <2>1 DEF Occurrences, OccursAt, Candidates
  <2>3. ScannedTo' = ScannedTo /\ Printed' = Printed
    BY <2>1 DEF ScannedTo, Position, Lowest, Printed
  <2>4. Passed' = Passed
    BY <2>2, <2>3 DEF Passed
  <2>5. UpperBits'
    BY <2>1, <2>2 DEF PrintInv, UpperBits
  <2>6. (~Counting /\ nlen > 0 => pc' # "tail") /\ (pc = "crashed" => pc' = "crashed")
    BY <2>1 DEF PrintInv
  <2> QED
    BY <2>1, <2>2, <2>3, <2>4, <2>5, <2>6, PrintQuiet
<1>9. CASE Overrun
  <2>1. pc' = "crashed"
    BY <1>9 DEF Overrun
  <2> QED
    BY <2>1 DEF PrintInv, UpperBits
<1> QED
  BY <1>1, <1>2, <1>4, <1>5, <1>6, <1>7, <1>8, <1>9 DEF Next, Done

\* The match at the lowest bit is printed.
LEMMA PrintOne ==
  ASSUME ScanInv, PrintInv, PrintMatch
  PROVE  PrintInv'
<1> DEFINE P == Position
           before == {p \in Occurrences : p < Position}
<1>1. /\ AtBit /\ ~Counting /\ Verified(P) /\ ~LimitReached /\ DropLowest
      /\ count' = count + 1
      /\ UNCHANGED <<data, len, needle, nlen, opts, pc, pos>>
  BY DEF PrintMatch, AtBit, inputs
<1>2. /\ Occurrences' = Occurrences /\ UpperBits'
      /\ Passed = before /\ P \notin before /\ P \in Occurrences
      /\ Passed' = {p \in Occurrences : p < P \/ p = P}
  BY <1>1, PassPosition DEF PrintInv
<1>3. Passed' = before \cup {P}
  <2> HIDE DEF Occurrences, Position, Passed
  <2> QED
    BY <1>2
<1>4. len \in Nat /\ nlen \in Nat \ {0} /\ opts.max_count \in Nat /\ count \in Nat
      /\ P \in 0..MaxLen /\ pc = "bits"
  <2>1. /\ len \in 0..MaxLen /\ MaxLen \in Nat /\ nlen \in Nat \ {0} /\ count \in Nat
        /\ P \in 0..len - nlen /\ pc = "bits"
    BY <1>1, PositionIs
  <2>2. opts.max_count \in Nat
    BY ScanAssumption DEF ScanAssumption, ScanInv, TypeOK, OptionType
  <2> QED
    BY <2>1, <2>2
<1>5. IsFiniteSet(before) /\ Cardinality(before) \in Nat
  BY <1>4, PassedFinite
<1>6. Cardinality(Passed') = Cardinality(before) + 1
  <2> HIDE DEF before
  <2> QED
    BY <1>2, <1>3, <1>5, FS_AddElement
<1>7. InOrder /\ WithinLimit
  BY <1>1, <1>4 DEF PrintInv, AtBit
<1>8. /\ opts.max_count = 0 \/ Cardinality(before) < opts.max_count
      /\ count = Cardinality(before) /\ Len(Printed) = count
  <2> HIDE DEF before
  <2> QED
    BY <1>1, <1>2, <1>4, <1>5, <1>7 DEF WithinLimit, LimitReached
<1>9. Printed \in Seq(0..MaxLen) /\ Printed' = Append(Printed, P)
  <2>1. /\ Printed \in Seq(0..MaxLen) /\ outbuf \in Seq(0..MaxLen)
        /\ written \in Seq(0..MaxLen)
    BY PrintedIsSequence DEF ScanInv, TypeOK
  <2>2. CASE Full(P)
    <3>1. written' = written \o outbuf /\ outbuf' = <<P>>
      BY <2>2 DEF PrintMatch, FlushBuffer
    <3>2. Printed' = (written \o outbuf) \o <<P>>
      BY <3>1 DEF Printed
    <3>3. Printed' = Append(written \o outbuf, P)
      BY <1>4, <2>1, <3>2
    <3> QED
      BY <2>1, <3>3 DEF Printed
  <2>3. CASE ~Full(P)
    <3>1. written' = written /\ outbuf' = Append(outbuf, P)
      BY <2>3 DEF PrintMatch
    <3>2. Printed' = written \o Append(outbuf, P)
      BY <3>1 DEF Printed
    <3>3. written \o Append(outbuf, P) = Append(written \o outbuf, P)
      BY <1>4, <2>1
    <3> QED
      BY <2>1, <3>2, <3>3 DEF Printed
  <2> QED
    BY <2>2, <2>3
<1>10. /\ Len(Printed') = count + 1 /\ Printed'[count + 1] = P
       /\ \A i \in 1..count : Printed'[i] = Printed[i]
  <2> HIDE DEF P
  <2>1. P \in 0..MaxLen
    BY <1>4
  <2>2. Printed \in Seq(0..MaxLen)
    BY <1>9
  <2>3. /\ Len(Append(Printed, P)) = Len(Printed) + 1
        /\ Append(Printed, P)[Len(Printed) + 1] = P
        /\ \A i \in 1..Len(Printed) : Append(Printed, P)[i] = Printed[i]
    BY <2>1, <2>2, AppendIs
  <2>4. Printed' = Append(Printed, P) /\ Len(Printed) = count
    BY <1>8, <1>9
  <2> QED
    BY <2>3, <2>4
<1>11. InOrder'
  <2> SUFFICES ASSUME NEW i \in 1..count + 1
               PROVE  /\ Printed'[i] \in Passed'
                      /\ Cardinality({p \in Occurrences : p < Printed'[i]}) = i - 1
    BY <1>2, <1>10 DEF InOrder
  <2>1. CASE i = count + 1
    <3>1. Printed'[i] = Position /\ Printed'[i] \in Passed'
      BY <1>3, <1>10, <2>1
    <3>2. {p \in Occurrences : p < Printed'[i]} = before
      BY <3>1
    <3> QED
      BY <1>4, <1>8, <2>1, <3>1, <3>2
  <2>2. CASE i \in 1..count
    <3>1. Printed'[i] = Printed[i] /\ i \in 1..Len(Printed)
      BY <1>8, <1>10, <2>2
    <3>2. /\ Printed[i] \in Passed
          /\ Cardinality({p \in Occurrences : p < Printed[i]}) = i - 1
      BY <1>7, <3>1 DEF InOrder
    <3>3. Printed[i] \in Passed'
      BY <1>2, <1>3, <3>2
    <3> QED
      BY <3>1, <3>2, <3>3
  <2> QED
    BY <1>4, <2>1, <2>2
<1>12. WithinLimit'
  <2> HIDE DEF before
  <2>1. Len(Printed)' = count + 1 /\ Cardinality(Passed)' = count + 1
        /\ opts' = opts /\ count' = count + 1
    BY <1>1, <1>6, <1>8, <1>10
  <2> QED
    BY <1>4, <1>8, <2>1 DEF WithinLimit
<1>13. pc' # "tail"
  BY <1>1, <1>4
<1> QED
  BY <1>2, <1>11, <1>12, <1>13 DEF PrintInv

\* The limit is reached: the rest of the chunk is passed over.
LEMMA PrintNoMore ==
  ASSUME ScanInv, PrintInv, StopChunk
  PROVE  PrintInv'
<1>1. /\ AtBit /\ ~Counting /\ LimitReached /\ count' = count + 1 /\ mask' = {}
      /\ UNCHANGED <<data, len, needle, nlen, opts, pc, pos, outbuf, written>>
  BY DEF StopChunk, AtBit, inputs, output
<1>2. /\ pc = "bits" /\ Lanes \in Nat \ {0} /\ Lowest \in 0..Lanes - 1
      /\ Position = pos + Lowest /\ pos \in Nat /\ nlen \in Nat \ {0} /\ len \in Nat
      /\ count \in Nat /\ mask # {}
  <2>1. /\ pc = "bits" /\ Lanes \in Nat \ {0} /\ mask \subseteq 0..Lanes - 1
        /\ Lowest \in mask /\ Position = pos + Lowest
        /\ len \in 0..MaxLen /\ MaxLen \in Nat /\ nlen \in Nat \ {0} /\ pos \in Nat
        /\ count \in Nat
    BY <1>1, PositionIs
  <2> QED
    BY <2>1
<1>3. opts.max_count \in Nat /\ opts.max_count > 0 /\ count >= opts.max_count
  BY <1>1, ScanAssumption
     DEF LimitReached, ScanAssumption, ScanInv, TypeOK, OptionType
<1>4. InOrder /\ WithinLimit
  BY <1>1, <1>2 DEF PrintInv
<1>5. Occurrences' = Occurrences /\ Printed' = Printed
  BY <1>1 DEF Occurrences, OccursAt, Printed
<1>6. ScannedTo = pos + Lowest /\ ScannedTo' = pos + Lanes
  BY <1>1, <1>2 DEF ScannedTo
<1>7. Passed \subseteq Passed'
  <2> SUFFICES ASSUME NEW p \in Passed PROVE p \in Passed'
    OBVIOUS
  <2>1. p \in Occurrences /\ p < pos + Lowest /\ p \in Nat
    BY <1>2, <1>6 DEF Passed, Occurrences
  <2> QED
    BY <1>2, <1>5, <1>6, <2>1 DEF Passed
<1>8. /\ IsFiniteSet(Passed') /\ Cardinality(Passed') \in Nat
      /\ Cardinality(Passed) \in Nat
  <2>1. Passed \in SUBSET Occurrences /\ Passed' \in SUBSET Occurrences
    BY <1>5 DEF Passed
  <2> QED
    BY <1>2, <2>1, PassedFinite
<1>9. Cardinality(Passed) <= Cardinality(Passed')
  BY <1>7, <1>8, FS_Subset
<1>10. Cardinality(Passed) >= opts.max_count /\ Len(Printed) = opts.max_count
  BY <1>3, <1>4, <1>8 DEF WithinLimit
<1>11. WithinLimit'
  BY <1>1, <1>2, <1>3, <1>5, <1>8, <1>9, <1>10 DEF WithinLimit
<1>12. InOrder'
  BY <1>4, <1>5, <1>7 DEF InOrder
<1>13. UpperBits'
  BY <1>1 DEF UpperBits
<1>14. pc' # "tail"
  BY <1>1, <1>2
<1> QED
  BY <1>11, <1>12, <1>13, <1>14 DEF PrintInv

\* Where matches are counted only, there is nothing to be said of printing.
LEMMA PrintCounting ==
  ASSUME ScanInv, PrintInv, CountMatch \/ TailByte
  PROVE  PrintInv'
<1>1. CASE CountMatch
  <2>1. /\ AtBit /\ Counting /\ DropLowest
        /\ UNCHANGED <<data, len, needle, nlen, opts, pc, pos>>
    BY <1>1 DEF CountMatch, AtBit, inputs
  <2>2. UpperBits' /\ Counting'
    BY <2>1, PassPosition DEF PrintInv, Counting
  <2> QED
    BY <2>2 DEF PrintInv
<1>2. CASE TailByte
  <2>1. pc = "tail" /\ pc' = "tail" /\ nlen > 0 /\ opts' = opts /\ nlen' = nlen
    BY <1>2 DEF TailByte, inputs, ScanInv, CountInv
  <2>2. UpperBits' /\ Counting'
    BY <2>1 DEF PrintInv, Counting, UpperBits
  <2> QED
    BY <2>2 DEF PrintInv
<1> QED
  BY <1>1, <1>2

LEMMA PrintInvariant == Spec => [](ScanInv /\ PrintInv)
<1>1. PrintInv /\ ScanInv /\ [Next]_vars => PrintInv'
  BY PrintElsewhere, PrintOne, PrintNoMore, PrintCounting
<1> QED
  BY <1>1, PrintInit, ScanInvariant, PTL DEF Spec

\* Whatever the chunks and flushes: the lines printed are those of the matches
\* the scan is past, in order, each once, and as many as -m allows
\* (src/search.c:140-196).
THEOREM MatchesInOrder == Spec => []PrintsMatchesInOrder
<1>1. ASSUME ScanInv, PrintInv PROVE PrintsMatchesInOrder
  <2> SUFFICES ASSUME ~Counting, nlen > 0, pc # "crashed" PROVE PrintsMatchesInOrder
    BY DEF PrintsMatchesInOrder
  <2>1. InOrder /\ WithinLimit
    BY <1>1 DEF PrintInv
  <2>2. Cardinality(Passed) \in Nat /\ opts.max_count \in Nat /\ count \in Nat
    <3>1. len \in Nat /\ nlen \in Nat /\ opts.max_count \in Nat /\ count \in Nat
      BY <1>1, ScanAssumption
         DEF ScanAssumption, ScanInv, CountInv, CountTypes, TypeOK, OptionType
    <3>2. Passed \in SUBSET Occurrences
      BY DEF Passed
    <3> QED
      BY <3>1, <3>2, PassedFinite
  <2> DEFINE wanted == IF opts.max_count = 0 \/ Cardinality(Passed) <= opts.max_count
                         THEN Cardinality(Passed)
                         ELSE opts.max_count
  <2>3. Len(Printed) = wanted
    BY <2>1, <2>2 DEF WithinLimit
  <2>4. ASSUME NEW i \in 1..wanted
        PROVE  /\ Printed[i] \in Passed
               /\ Cardinality({p \in Passed : p < Printed[i]}) = i - 1
    <3>1. /\ Printed[i] \in Passed
          /\ Cardinality({p \in Occurrences : p < Printed[i]}) = i - 1
      BY <2>1, <2>3, <2>4 DEF InOrder
    <3>2. /\ \A p \in Occurrences : p \in Int
          /\ pos \in Int /\ Lanes \in Int
      BY <1>1, ScanAssumption DEF Occurrences, ScanAssumption, ScanInv, CountInv, CountTypes
    <3>3. ScannedTo \in Int
      <4>1. CASE pc = "bits" /\ mask # {}
        <5>1. Lowest \in mask /\ mask \subseteq 0..Lanes - 1
          BY <1>1, <3>2, <4>1, PositionIs DEF AtBit
        <5> QED
          BY <3>2, <4>1, <5>1 DEF ScannedTo, Position
      <4>2. CASE ~(pc = "bits" /\ mask # {})
        BY <3>2, <4>2 DEF ScannedTo
      <4> QED
        BY <4>1, <4>2
    <3>4. {p \in Passed : p < Printed[i]} = {p \in Occurrences : p < Printed[i]}
      BY <3>1, <3>2, <3>3 DEF Passed
    <3> QED
      BY <3>1, <3>4
  <2> QED
    BY <2>3, <2>4 DEF PrintsMatchesInOrder, Passed
<1> QED
  BY <1>1, PrintInvariant, PTL
------------------------------------------------------------------------------
(* bmh_search *)

\* Where memchr finds the last byte of the pattern, from p on.
Lasts(p) == Search!Places(data, len, p, needle[nlen - 1])

FirstLast(p) == Search!Min(Lasts(p))

EndsAt(q) == Search!EndsAt(data, q, needle, nlen)

\* f is the recursive function of bmh_search.
Recurs(f) ==
  f = [p \in 0..len + nlen |->
         IF Lasts(p) = {}
           THEN 0
           ELSE (IF EndsAt(FirstLast(p)) THEN 1 ELSE 0) + f[FirstLast(p) + 1]]

CountFrom == CHOOSE f : Recurs(f)

\* The places from p on at which an occurrence ends.
Ends(p) == {q \in Lasts(p) : EndsAt(q)}

LEMMA SearchIsCount ==
  ASSUME nlen \in Nat, len \in Nat, nlen > 0
  PROVE  Search!bmh_search(data, len, needle, nlen) =
           IF len < nlen THEN 0 ELSE CountFrom[nlen - 1]
<1>1. Search!bmh_search(data, len, needle, nlen) =
        IF nlen = 0 \/ len < nlen THEN 0 ELSE CountFrom[nlen - 1]
  BY Zenon DEF Search!bmh_search, CountFrom, Recurs, Lasts, FirstLast, EndsAt, Search!NextPlace
<1>2. nlen # 0
  OBVIOUS
<1> QED
  BY Zenon, <1>1, <1>2

LEMMA FirstLastIs ==
  ASSUME len \in Nat, NEW p \in Nat, Lasts(p) # {}
  PROVE  FirstLast(p) \in Lasts(p) /\ \A q \in Lasts(p) : FirstLast(p) <= q
<1>1. Lasts(p) \subseteq Nat
  BY DEF Lasts, Search!Places
<1>2. \E b \in Lasts(p) : \A c \in Lasts(p) : b <= c
  BY <1>1, SmallestElement
<1> QED
  BY <1>1, <1>2 DEF FirstLast, Search!Min

LEMMA EndsFinite ==
  ASSUME len \in Nat, NEW p \in Nat
  PROVE  IsFiniteSet(Ends(p))
<1>1. IsFiniteSet(p..len - 1)
  BY FS_Interval
<1>2. Ends(p) \subseteq p..len - 1
  BY DEF Ends, Lasts, Search!Places
<1> QED
  BY <1>1, <1>2, FS_Subset

\* One step of the recursion is right, if the rest is.
LEMMA CountsOn ==
  ASSUME len \in Nat, nlen \in Nat, NEW f, NEW p \in 0..len + nlen,
         \A m \in 0..len + nlen : m > p => f[m] = Cardinality(Ends(m))
  PROVE  (IF Lasts(p) = {}
            THEN 0
            ELSE (IF EndsAt(FirstLast(p)) THEN 1 ELSE 0) + f[FirstLast(p) + 1])
         = Cardinality(Ends(p))
<1>1. CASE Lasts(p) = {}
  <2>1. Ends(p) = {}
    BY <1>1 DEF Ends
  <2> QED
    BY <1>1, <2>1, FS_EmptySet
<1>2. CASE Lasts(p) # {}
  <2> DEFINE m == FirstLast(p)
  <2>1. m \in Lasts(p) /\ \A q \in Lasts(p) : m <= q
    BY <1>2, FirstLastIs
  <2>2. m \in p..len - 1
    BY <2>1 DEF Lasts, Search!Places
  <2> HIDE DEF m
  <2>3. m + 1 \in 0..len + nlen /\ m + 1 > p /\ m + 1 \in Nat /\ m \in Nat
    BY <2>2
  <2>4. f[m + 1] = Cardinality(Ends(m + 1))
    BY <2>3
  <2>5. IsFiniteSet(Ends(m + 1)) /\ Cardinality(Ends(m + 1)) \in Nat
    BY <2>3, EndsFinite, FS_CardinalityType
  <2>6. \A q : q \in Lasts(m + 1) <=> q \in Lasts(p) /\ q # m
    BY <2>1, <2>2 DEF Lasts, Search!Places
  <2>7. CASE EndsAt(m)
    <3>1. Ends(p) = Ends(m + 1) \cup {m} /\ m \notin Ends(m + 1)
      BY <2>1, <2>6, <2>7 DEF Ends
    <3>2. Cardinality(Ends(p)) = Cardinality(Ends(m + 1)) + 1
      BY <2>5, <3>1, FS_AddElement
    <3> QED
      BY <1>2, <2>4, <2>5, <2>7, <3>2 DEF m
  <2>8. CASE ~EndsAt(m)
    <3>1. Ends(p) = Ends(m + 1)
      BY <2>1, <2>6, <2>8 DEF Ends
    <3> QED
      BY <1>2, <2>4, <2>5, <2>8, <3>1 DEF m
  <2> QED
    BY <2>7, <2>8
<1> QED
  BY <1>1, <1>2

\* The recursive function exists, and counts what is left: if it went wrong at
\* some place, take the last such place.
LEMMA CountFromIs ==
  ASSUME len \in Nat, nlen \in Nat, NEW p \in 0..len + nlen
  PROVE  CountFrom[p] = Cardinality(Ends(p))
<1> DEFINE top == len + nlen
           Body(f, k) ==
             IF Lasts(k) = {}
               THEN 0
               ELSE (IF EndsAt(FirstLast(k)) THEN 1 ELSE 0) + f[FirstLast(k) + 1]
           g == [k \in 0..top |-> Cardinality(Ends(k))]
           f == CountFrom
<1>1. Recurs(g)
  <2>1. \A k \in 0..top : g[k] = Cardinality(Ends(k))
    OBVIOUS
  <2> HIDE DEF g
  <2>2. \A k \in 0..top : Body(g, k) = Cardinality(Ends(k))
    BY <2>1, CountsOn
  <2>3. g = [k \in 0..top |-> Cardinality(Ends(k))]
    BY DEF g
  <2>4. g = [k \in 0..top |-> Body(g, k)]
    <3> HIDE DEF Body
    <3> QED
      BY <2>2, <2>3
  <2> QED
    BY <2>4, Zenon DEF Recurs
<1>2. Recurs(f)
  BY <1>1, Zenon DEF CountFrom
<1> HIDE DEF g, f
<1>3. \A k \in 0..top : f[k] = Body(f, k)
  BY <1>2, Zenon DEF Recurs
<1> DEFINE Wrong == {d \in Nat : d <= top /\ f[top - d] # Cardinality(Ends(top - d))}
<1>4. Wrong = {}
  <2> SUFFICES ASSUME Wrong # {} PROVE FALSE
    OBVIOUS
  <2>1. Wrong \subseteq Nat
    OBVIOUS
  <2>2. PICK d \in Wrong : \A c \in Wrong : d <= c
    <3> HIDE DEF Wrong
    <3> QED
      BY <2>1, SmallestElement
  <2> DEFINE k == top - d
  <2>3. k \in 0..top /\ f[k] # Cardinality(Ends(k))
    BY <2>2
  <2>4. ASSUME NEW m \in 0..top, m > k PROVE f[m] = Cardinality(Ends(m))
    <3>1. top - m \in Nat /\ top - m <= top /\ top - m < d /\ top - (top - m) = m /\ d \in Nat
      BY <2>2, <2>4
    <3>2. top - m \notin Wrong
      <4> HIDE DEF Wrong
      <4> QED
        BY <2>2, <3>1
    <3> QED
      BY <3>1, <3>2
  <2> HIDE DEF k, Wrong
  <2>5. Body(f, k) = Cardinality(Ends(k))
    BY <2>3, <2>4, CountsOn
  <2> QED
    BY <1>3, <2>3, <2>5
<1>5. top - p \in Nat /\ top - p <= top /\ top - (top - p) = p
  OBVIOUS
<1>6. top - p \notin Wrong
  <2> HIDE DEF Wrong
  <2> QED
    BY <1>4
<1> QED
  BY <1>5, <1>6 DEF f

\* An occurrence ends nlen - 1 places behind where it begins.
LEMMA EndsAreOccurrences ==
  ASSUME len \in Nat, nlen \in Nat, nlen > 0
  PROVE  Cardinality(Ends(nlen - 1)) = Cardinality(Occurrences)
<1> DEFINE w == nlen - 1
           g == [q \in Ends(w) |-> q - w]
<1>1. w \in Nat
  OBVIOUS
<1>2. ASSUME NEW p \in Nat
      PROVE  OccursAt(p) <=> data[p + w] = needle[w] /\ EndsAt(p + w)
  <2>1. p + w - nlen + 1 = p /\ p + nlen - 1 = p + w
    BY <1>1
  <2>2. EndsAt(p + w) <=> data[p] = needle[0] /\ Verified(p)
    BY <2>1 DEF EndsAt, Search!EndsAt, Verified
  <2> QED
    BY <2>1, <2>2, OccursByParts
<1>3. ASSUME NEW q \in Ends(w)
      PROVE  q \in w..len - 1 /\ q - w \in Occurrences
  <2>1. q \in w..len - 1 /\ data[q] = needle[w] /\ EndsAt(q)
    BY DEF Ends, Lasts, Search!Places
  <2>2. q - w \in 0..len - nlen /\ q - w \in Nat /\ q - w + w = q
    BY <1>1, <2>1
  <2>3. OccursAt(q - w)
    BY <1>2, <2>1, <2>2
  <2> QED
    BY <2>1, <2>2, <2>3 DEF Occurrences
<1>4. ASSUME NEW p \in Occurrences
      PROVE  p \in Nat /\ p + w \in Ends(w) /\ p + w - w = p
  <2>1. p \in 0..len - nlen /\ OccursAt(p)
    BY DEF Occurrences
  <2>2. p \in Nat /\ p + w \in w..len - 1 /\ p + w - w = p
    BY <1>1, <2>1
  <2>3. data[p + w] = needle[w] /\ EndsAt(p + w)
    BY <1>2, <2>1, <2>2
  <2> QED
    BY <2>2, <2>3 DEF Ends, Lasts, Search!Places
<1>5. g \in Bijection(Ends(w), Occurrences)
  <2>1. g \in [Ends(w) -> Occurrences]
    BY <1>3
  <2>2. \A q, r \in Ends(w) : q \in Int /\ r \in Int
    BY <1>1, <1>3
  <2>3. \A q, r \in Ends(w) : g[q] = g[r] => q = r
    BY <1>1, <2>2
  <2>4. \A p \in Occurrences : \E q \in Ends(w) : g[q] = p
    BY <1>4
  <2> HIDE DEF g
  <2> QED
    BY <2>1, <2>3, <2>4 DEF Bijection, Injection, Surjection, IsInjective
<1>6. ExistsBijection(Ends(w), Occurrences)
  BY <1>5 DEF ExistsBijection
<1>7. IsFiniteSet(Ends(w))
  BY <1>1, EndsFinite
<1> QED
  BY <1>6, <1>7, FS_Bijection

\* For every text and every pattern that is not empty bmh_search counts every
\* occurrence once, overlapping ones included (src/bmh_simd.c:14-46).
THEOREM BmhCounts == Spec => []BmhCountsOccurrences
<1>1. ASSUME CountInv PROVE BmhCountsOccurrences
  <2> SUFFICES ASSUME nlen > 0
               PROVE  Search!bmh_search(data, len, needle, nlen) = Cardinality(Occurrences)
    BY DEF BmhCountsOccurrences
  <2>1. len \in Nat /\ nlen \in Nat
    BY <1>1 DEF CountInv, CountTypes
  <2>2. CASE len < nlen
    <3>1. Occurrences = {}
      BY <2>1, <2>2 DEF Occurrences
    <3> QED
      BY <2>1, <2>2, <3>1, SearchIsCount, FS_EmptySet
  <2>3. CASE ~(len < nlen)
    <3>1. nlen - 1 \in 0..len + nlen
      BY <2>1
    <3> QED
      BY <2>1, <2>3, <3>1, SearchIsCount, CountFromIs, EndsAreOccurrences
  <2> QED
    BY <2>2, <2>3
<1> QED
  BY <1>1, CountInvariant, PTL
==============================================================================
