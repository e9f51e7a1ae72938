--------------------------- MODULE LineScanProofs ---------------------------
(***************************************************************************)
(* search_regex_impl keeps its position at the start of a line and its     *)
(* line number in step with it, and prints, counts and names what it       *)
(* should, for texts of any length, any patterns and options, and any      *)
(* vector widths in the search for the newline.                            *)
(***************************************************************************)
EXTENDS LineScan, FiniteSetTheorems, TLAPS

Thm == INSTANCE MemchrProofs WITH
  bytes <- [j \in 0..len - pos - 1 |-> data[pos + j]],
  n <- len - pos,
  wanted <- Newline

------------------------------------------------------------------------------
(* The inductive invariant behind LinesStayInStep and FindsFirstNewline *)

LineTypes ==
  /\ len \in Nat
  /\ pos \in 0..len
  /\ pc \in Places

LineInv ==
  /\ LineTypes
  /\ pc \in {"find", "match"} =>
       /\ pos < len
       /\ Find!NoneSkipped
       /\ Find!FindsFirst
       /\ busy => result = NotFound
  /\ pc = "match" => ~busy
  /\ pc \in {"start", "find", "match"} =>
       /\ lineNo = NumberOf(pos)
       /\ pos = 0 \/ data[pos - 1] = Newline
------------------------------------------------------------------------------
\* The two instances speak of the same search.
LEMMA SameSearch ==
  /\ Thm!WidthsEndWithOne <=> Find!WidthsEndWithOne
  /\ Thm!Call <=> Find!Call
  /\ Thm!Next <=> Find!Next
  /\ Thm!SearchInv <=>
       Find!NoneSkipped /\ Find!FindsFirst /\ (busy => result = NotFound)
  /\ Thm!SearchInv' <=>
       Find!NoneSkipped' /\ Find!FindsFirst' /\ (busy' => result' = NotFound)
BY DEF Thm!WidthsEndWithOne, Find!WidthsEndWithOne, Thm!Call, Find!Call, Thm!Next,
  Find!Next, Thm!SearchInv, Thm!NoneSkipped, Find!NoneSkipped, Thm!FindsFirst,
  Find!FindsFirst, Thm!Hit, Find!Hit, Thm!Miss, Find!Miss, Thm!NextLoop,
  Find!NextLoop, Thm!ReturnNull, Find!ReturnNull, Thm!Fits, Find!Fits, Thm!Hits,
  Find!Hits, Thm!Lowest, Find!Lowest, Thm!StepOverVector, Find!StepOverVector

\* Past a newline the number of the line is one more.
LEMMA NumberStep ==
  ASSUME NEW s \in Nat, NEW e \in Nat, s <= e, data[e] = Newline,
         \A k \in s..e - 1 : data[k] # Newline
  PROVE  NumberOf(e + 1) = NumberOf(s) + 1
<1> DEFINE Before(p) == {k \in 0..p - 1 : data[k] = Newline}
<1>1. Before(e + 1) = Before(s) \cup {e}
  OBVIOUS
<1>2. e \notin Before(s)
  OBVIOUS
<1>3. IsFiniteSet(Before(s))
  <2>1. IsFiniteSet(0..s - 1)
    BY FS_Interval
  <2>2. Before(s) \subseteq 0..s - 1
    OBVIOUS
  <2> QED
    BY <2>1, <2>2, FS_Subset
<1>4. Cardinality(Before(s)) \in Nat
  BY <1>3, FS_CardinalityType
<1>5. Cardinality(Before(e + 1)) = Cardinality(Before(s)) + 1
  <2> HIDE DEF Before
  <2> QED
    BY <1>1, <1>2, <1>3, FS_AddElement
<1> QED
  BY <1>4, <1>5 DEF NumberOf

\* The first line is line 1.
LEMMA LineInit == Init => LineInv
<1> SUFFICES ASSUME Init PROVE LineInv
  OBVIOUS
<1>1. {k \in 0..0 - 1 : data[k] = Newline} = {}
  OBVIOUS
<1>2. NumberOf(0) = 1
  BY <1>1, FS_EmptySet DEF NumberOf
<1> QED
  BY <1>2, LineAssumption DEF Init, LineInv, LineTypes, Places

\* A step keeps the position, the number and the search in step.
LEMMA LineNext ==
  ASSUME LineInv, [Next]_vars
  PROVE  LineInv'
<1> USE DEF LineInv, LineTypes, Places, inputs, finding
<1>1. CASE NextLine
  <2>1. /\ pc = "start" /\ pc' = "find" /\ pos < len
        /\ UNCHANGED <<data, len, pos, lineNo>>
    BY <1>1 DEF NextLine
  <2>2. Thm!SearchInv'
    BY <1>1, <2>1, SameSearch, WidthAssumption, Thm!SearchCall DEF NextLine
  <2>3. NumberOf(pos)' = NumberOf(pos)
    BY <2>1 DEF NumberOf
  <2> HIDE DEF Find!NoneSkipped, Find!FindsFirst
  <2> QED
    BY <2>1, <2>2, <2>3, SameSearch
<1>2. CASE FindNewline
  <2>1. /\ pc = "find" /\ pc' = "find" /\ pos < len
        /\ UNCHANGED <<data, len, pos, lineNo>>
    BY <1>2 DEF FindNewline
  <2>2. Thm!SearchInv'
    BY <1>2, <2>1, SameSearch, WidthAssumption, Thm!SearchStep DEF FindNewline
  <2>3. NumberOf(pos)' = NumberOf(pos)
    BY <2>1 DEF NumberOf
  <2> QED
    BY <2>1, <2>2, <2>3, SameSearch
<1>3. CASE Found
  <2>1. /\ pc = "find" /\ pc' = "match" /\ ~busy
        /\ UNCHANGED <<data, len, pos, lineNo, loop, i, result, busy>>
    BY <1>3 DEF Found
  <2>2. NumberOf(pos)' = NumberOf(pos)
    BY <2>1 DEF NumberOf
  <2>3. Find!NoneSkipped' = Find!NoneSkipped /\ Find!FindsFirst' = Find!FindsFirst
    BY <2>1 DEF Find!NoneSkipped, Find!FindsFirst
  <2> QED
    BY <2>1, <2>2, <2>3
<1>4. ASSUME pc = "match", Advance, UNCHANGED <<data, len>>
      PROVE  LineInv'
  <2>1. CASE result = NotFound
    BY <1>4, <2>1 DEF Advance
  <2>2. CASE result # NotFound
    <3>1. /\ result \in 0..len - pos - 1
          /\ data[pos + result] = Newline
          /\ \A j \in 0..result - 1 : data[pos + j] # Newline
      <4>1. ~busy /\ Find!FindsFirst
        BY <1>4
      <4>2. /\ result \in 0..len - pos - 1
            /\ [j \in 0..len - pos - 1 |-> data[pos + j]][result] = Newline
            /\ \A j \in 0..result - 1 :
                 [k \in 0..len - pos - 1 |-> data[pos + k]][j] # Newline
        BY <2>2, <4>1 DEF Find!FindsFirst
      <4>3. data[pos + result] = Newline
        BY <4>2
      <4>4. ASSUME NEW j \in 0..result - 1
            PROVE  data[pos + j] # Newline
        <5>1. j \in 0..len - pos - 1
          BY <4>2
        <5>2. [k \in 0..len - pos - 1 |-> data[pos + k]][j] = data[pos + j]
          BY <5>1
        <5> QED
          BY <4>2, <5>2
      <4> QED
        BY <4>2, <4>3, <4>4
    <3>2. \A k \in pos..pos + result - 1 : data[k] # Newline
      <4> SUFFICES ASSUME NEW k \in pos..pos + result - 1, data[k] = Newline PROVE FALSE
        OBVIOUS
      <4>1. k - pos \in 0..result - 1 /\ pos + (k - pos) = k
        BY <3>1
      <4> QED
        BY <3>1, <4>1
    <3>3. pos + result \in Nat /\ pos <= pos + result /\ pos \in Nat
      BY <3>1
    <3>4. NumberOf(pos + result + 1) = NumberOf(pos) + 1
      BY <3>1, <3>2, <3>3, NumberStep
    <3>5. /\ pc' = "start" /\ pos' = pos + result + 1 /\ lineNo' = lineNo + 1
      BY <1>4, <2>2 DEF Advance, LineEnd
    <3>6. NumberOf(pos)' = NumberOf(pos + result + 1)
      BY <1>4, <3>5 DEF NumberOf
    <3>7. pos' \in 0..len /\ pos' - 1 = pos + result
      BY <3>1, <3>3, <3>5
    <3> QED
      BY <1>4, <3>1, <3>4, <3>5, <3>6, <3>7
  <2> QED
    BY <2>1, <2>2
<1>5. ASSUME pc' \in {"summary", "done"}, UNCHANGED <<len, pos>>
      PROVE  LineInv'
  BY <1>5
<1>6. ASSUME NEW outcome, pc = "match", Matched(outcome), UNCHANGED <<data, len>>
      PROVE  LineInv'
  <2>1. Advance \/ (pc' = "summary" /\ UNCHANGED <<pos, lineNo>>)
    BY <1>6 DEF Matched
  <2> QED
    BY <1>4, <1>5, <1>6, <2>1
<1>7. CASE MatchLine
  BY <1>6, <1>7 DEF MatchLine
<1>8. CASE NoMemory
  BY <1>6, <1>8 DEF NoMemory
<1>9. CASE TextDone
  BY <1>5, <1>9 DEF TextDone
<1>10. CASE Summary
  BY <1>5, <1>10 DEF Summary
<1>11. CASE UNCHANGED vars
  <2>1. UNCHANGED <<data, len, pc, pos, lineNo, loop, i, result, busy>>
    BY <1>11 DEF vars
  <2>2. NumberOf(pos)' = NumberOf(pos)
    BY <2>1 DEF NumberOf
  <2>3. Find!NoneSkipped' = Find!NoneSkipped /\ Find!FindsFirst' = Find!FindsFirst
    BY <2>1 DEF Find!NoneSkipped, Find!FindsFirst
  <2> QED
    BY <2>1, <2>2, <2>3
<1>12. CASE Done
  BY <1>11, <1>12 DEF Done
<1> QED
  BY <1>1, <1>2, <1>3, <1>7, <1>8, <1>9, <1>10, <1>11, <1>12 DEF Next

\* The loop of search_regex_impl keeps LineInv.
THEOREM LineInvariant == Spec => []LineInv
<1>1. Init => LineInv
  BY LineInit
<1>2. LineInv /\ [Next]_vars => LineInv'
  BY LineNext
<1> QED
  BY <1>1, <1>2, PTL DEF Spec

\* The newline that ends a line is the first one behind its start, whichever
\* vector loop finds it (src/simd.c:13-120, src/search.c:37-39).
THEOREM NewlineIsFirst == Spec => []FindsFirstNewline
<1>1. LineInv => FindsFirstNewline
  BY DEF LineInv, FindsFirstNewline
<1> QED
  BY <1>1, LineInvariant, PTL

\* Each line that is matched starts a line, and its number is one more than
\* the newlines before it (src/search.c:36-56).
THEOREM NumbersAreRight == Spec => []LinesStayInStep
<1>1. LineInv => LinesStayInStep
  BY DEF LineInv, LineTypes, LinesStayInStep, Starts
<1> QED
  BY <1>1, LineInvariant, PTL
------------------------------------------------------------------------------
(* fgrep_pattern_match decides what its definition says *)

\* The fixed string is in the text at place k.
OccursAt(k) == Slice(k, k + Len(pattern.fixed_str)) = pattern.fixed_str

\* Where memchr finds its first byte, from k on.
Firsts(k, e) == {m \in k..e - 1 : data[m] = pattern.fixed_str[1]}

\* f is the recursive function of ContainsFixed.
Recurs(f, s, e) ==
  f = [k \in s..e + 1 |->
        /\ k + Len(pattern.fixed_str) <= e
        /\ Firsts(k, e) # {}
        /\ LET m == Min(Firsts(k, e))
           IN  /\ m + Len(pattern.fixed_str) <= e
               /\ OccursAt(m) \/ f[m + 1]]

Scan(s, e) == CHOOSE f : Recurs(f, s, e)

\* ContainsFixed is that function.
LEMMA ScanIsContains ==
  ASSUME NEW s, NEW e
  PROVE  ContainsFixed(s, e) <=>
           /\ Len(pattern.fixed_str) > 0
           /\ Len(pattern.fixed_str) <= e - s
           /\ Scan(s, e)[s]
BY Zenon DEF ContainsFixed, Scan, Recurs, Firsts, OccursAt

\* A nonempty set of places has a first one.
LEMMA FirstPlace ==
  ASSUME NEW S, S \subseteq Nat, S # {}
  PROVE  Min(S) \in S /\ \A c \in S : Min(S) <= c
BY Thm!LowestIsLeast DEF Thm!Lowest, Min

\* Where the pattern occurs its first byte is.
LEMMA OccursFirst ==
  ASSUME NEW m \in Nat, OccursAt(m), pattern.fixed_str \in Seq(Byte),
         Len(pattern.fixed_str) > 0
  PROVE  data[m] = pattern.fixed_str[1]
<1>1. Slice(m, m + Len(pattern.fixed_str))[1] = data[m + 1 - 1]
  BY DEF Slice
<1> QED
  BY <1>1 DEF OccursAt

\* One step of the recursion is right, if the rest is.
LEMMA ScanStep ==
  ASSUME NEW s \in Nat, NEW e \in Nat, NEW f, pattern.fixed_str \in Seq(Byte),
         Len(pattern.fixed_str) > 0,
         NEW k \in s..e + 1,
         \A m \in s..e + 1 : m > k =>
           (f[m] <=> \E p \in m..e - Len(pattern.fixed_str) : OccursAt(p))
  PROVE  (/\ k + Len(pattern.fixed_str) <= e
          /\ Firsts(k, e) # {}
          /\ LET m == Min(Firsts(k, e))
             IN  /\ m + Len(pattern.fixed_str) <= e
                 /\ OccursAt(m) \/ f[m + 1])
         <=> \E p \in k..e - Len(pattern.fixed_str) : OccursAt(p)
<1> DEFINE l == Len(pattern.fixed_str)
           m == Min(Firsts(k, e))
<1>1. l \in Nat /\ l > 0 /\ k \in Nat
  OBVIOUS
<1>2. \A p \in k..e - l : OccursAt(p) => p \in Firsts(k, e)
  BY <1>1, OccursFirst DEF Firsts
<1>3. CASE Firsts(k, e) = {}
  BY <1>2, <1>3
<1>4. CASE Firsts(k, e) # {}
  <2>1. m \in k..e - 1 /\ \A c \in Firsts(k, e) : m <= c
    <3>1. Firsts(k, e) \subseteq k..e - 1
      BY DEF Firsts
    <3>2. Firsts(k, e) \subseteq Nat
      BY <1>1, <3>1
    <3> HIDE DEF m
    <3>3. m \in Firsts(k, e) /\ \A c \in Firsts(k, e) : m <= c
      BY <1>4, <3>2, FirstPlace DEF m
    <3> QED
      BY <3>1, <3>3
  <2> HIDE DEF m
  <2>2. m + 1 \in s..e + 1 /\ m + 1 > k
    BY <1>1, <2>1
  <2>3. f[m + 1] <=> \E p \in m + 1..e - l : OccursAt(p)
    BY <2>2
  <2>4. ASSUME NEW p \in k..e - l, OccursAt(p)
        PROVE  k + l <= e /\ m + l <= e /\ (OccursAt(m) \/ f[m + 1])
    <3>1. m <= p
      BY <1>2, <2>1, <2>4
    <3>2. CASE p = m
      BY <1>1, <2>4, <3>2
    <3>3. CASE p # m
      <4>1. p \in m + 1..e - l
        BY <1>1, <2>1, <3>1, <3>3
      <4>2. f[m + 1]
        BY <2>3, <2>4, <4>1
      <4> QED
        BY <1>1, <2>1, <2>4, <3>1, <4>2
    <3> QED
      BY <3>2, <3>3
  <2>5. ASSUME m + l <= e, OccursAt(m) \/ f[m + 1]
        PROVE  \E p \in k..e - l : OccursAt(p)
    <3>1. m \in k..e - l /\ \A p \in m + 1..e - l : p \in k..e - l
      BY <1>1, <2>1, <2>5
    <3> QED
      BY <2>3, <2>5, <3>1
  <2> QED
    BY <1>4, <2>4, <2>5 DEF m
<1> QED
  BY <1>3, <1>4

\* The recursive function exists, and says whether the string occurs: if it
\* went wrong at some place, take the last such place.
LEMMA ScanFinds ==
  ASSUME NEW s \in Nat, NEW e \in Nat, pattern.fixed_str \in Seq(Byte),
         Len(pattern.fixed_str) > 0, s <= e
  PROVE  Scan(s, e)[s] <=> \E p \in s..e - Len(pattern.fixed_str) : OccursAt(p)
<1> DEFINE OccursIn(k) == \E p \in k..e - Len(pattern.fixed_str) : OccursAt(p)
           g == [k \in s..e + 1 |-> OccursIn(k)]
           f == Scan(s, e)
<1>1. Recurs(g, s, e)
  <2>1. \A m \in s..e + 1 : g[m] <=> OccursIn(m)
    OBVIOUS
  <2> HIDE DEF g
  <2>2. \A k \in s..e + 1 :
          (/\ k + Len(pattern.fixed_str) <= e
           /\ Firsts(k, e) # {}
           /\ LET m == Min(Firsts(k, e))
              IN  /\ m + Len(pattern.fixed_str) <= e
                  /\ OccursAt(m) \/ g[m + 1])
          <=> OccursIn(k)
    BY <2>1, ScanStep
  <2> DEFINE Body(k) ==
          /\ k + Len(pattern.fixed_str) <= e
          /\ Firsts(k, e) # {}
          /\ LET m == Min(Firsts(k, e))
             IN  /\ m + Len(pattern.fixed_str) <= e
                 /\ OccursAt(m) \/ g[m + 1]
  <2>3. \A k \in s..e + 1 : Body(k) = OccursIn(k)
    BY <2>2, Zenon
  <2>4. g = [k \in s..e + 1 |-> OccursIn(k)]
    BY DEF g
  <2>5. g = [k \in s..e + 1 |-> Body(k)]
    <3> HIDE DEF OccursIn, Body
    <3> QED
      BY <2>3, <2>4
  <2> QED
    BY <2>5, Zenon DEF Recurs
<1>2. Recurs(f, s, e)
  BY <1>1, Zenon DEF Scan
<1> HIDE DEF g, f
<1>3. \A k \in s..e + 1 :
        f[k] <=> /\ k + Len(pattern.fixed_str) <= e
                 /\ Firsts(k, e) # {}
                 /\ LET m == Min(Firsts(k, e))
                    IN  /\ m + Len(pattern.fixed_str) <= e
                        /\ OccursAt(m) \/ f[m + 1]
  BY <1>2, Zenon DEF Recurs
<1> DEFINE Good == {k \in s..e + 1 : OccursIn(k)}
           Wrong == {d \in Nat : d <= e + 1 - s /\ ~(f[e + 1 - d] <=> e + 1 - d \in Good)}
<1>4. Wrong = {}
  <2> SUFFICES ASSUME Wrong # {} PROVE FALSE
    OBVIOUS
  <2> HIDE DEF Good
  <2>1. Wrong \subseteq Nat
    OBVIOUS
  <2>2. PICK d \in Wrong : \A c \in Wrong : d <= c
    <3> HIDE DEF Wrong
    <3> QED
      BY <2>1, FirstPlace
  <2> DEFINE k == e + 1 - d
  <2>3. k \in s..e + 1 /\ ~(f[k] <=> k \in Good)
    BY <2>2
  <2>4. ASSUME NEW m \in s..e + 1, m > k PROVE f[m] <=> m \in Good
    <3>1. e + 1 - m \in Nat /\ e + 1 - m <= e + 1 - s /\ e + 1 - m < d
          /\ e + 1 - (e + 1 - m) = m /\ d \in Nat
      BY <2>2, <2>4
    <3>2. e + 1 - m \notin Wrong
      <4> HIDE DEF Wrong
      <4> QED
        BY <2>2, <3>1
    <3> QED
      BY <3>1, <3>2
  <2>5. ASSUME NEW m \in s..e + 1, m > k PROVE f[m] <=> OccursIn(m)
    BY <2>4, <2>5 DEF Good
  <2> HIDE DEF k, Wrong
  <2>6. f[k] <=> OccursIn(k)
    BY <1>3, <2>3, <2>5, ScanStep
  <2> QED
    BY <2>3, <2>6 DEF Good
<1>5. e + 1 - s \in Nat /\ e + 1 - s <= e + 1 - s /\ e + 1 - (e + 1 - s) = s /\ s \in s..e + 1
  OBVIOUS
<1>6. f[s] <=> s \in Good
  <2> HIDE DEF Good
  <2>1. \A d \in Nat : d <= e + 1 - s => (f[e + 1 - d] <=> e + 1 - d \in Good)
    BY <1>4
  <2>2. f[e + 1 - (e + 1 - s)] <=> e + 1 - (e + 1 - s) \in Good
    BY <1>5, <2>1, Zenon
  <2> HIDE DEF Wrong
  <2> QED
    BY <1>5, <2>2
<1> QED
  BY <1>5, <1>6 DEF f
------------------------------------------------------------------------------
(* The inductive invariant behind SummarisesWantedLines and PrintsWantedLines *)

\* How many wanted lines start before a place.
RankOf == [p \in 0..len |-> Cardinality({t \in Wanted : t < p})]

\* The wanted lines as they are to be printed.
WantedLine ==
  {[no |-> NumberOf(s), first |-> s, end |-> EndOf(s)] : s \in Wanted}

InLoop == pc \in {"start", "find", "match"}

CountedInv ==
  IF InLoop
    THEN count = RankOf[pos] /\ ~OverLimit(count)
    ELSE IF OverLimit(count)
      THEN count = opts.max_count + 1 /\ count <= Cardinality(Wanted)
      ELSE count = Cardinality(Wanted)

PrintedInv ==
  /\ printed \in Seq(WantedLine)
  /\ \A k \in DOMAIN printed : RankOf[printed[k].first] = k - 1
  /\ Len(printed) = IF OverLimit(count) THEN opts.max_count ELSE count

ResultInv ==
  /\ pattern \in Patterns
  /\ opts \in OptionType
  /\ count \in Nat
  /\ ~exhausted => CountedInv /\ (Prints => PrintedInv)
  /\ pc = "done" => summary = SummaryOf(count)
------------------------------------------------------------------------------
\* The line that is matched ends where it should.
LEMMA LineEndIsRight ==
  ASSUME LineInv, pc = "match"
  PROVE  /\ LineEnd \in pos..len
         /\ \A k \in pos..LineEnd - 1 : data[k] # Newline
         /\ result # NotFound => LineEnd < len /\ data[LineEnd] = Newline
         /\ result = NotFound => LineEnd = len
         /\ LineEnd = EndOf(pos)
<1>1. ~busy /\ Find!FindsFirst /\ len \in Nat /\ pos \in 0..len
  BY DEF LineInv, LineTypes
<1>2. CASE result = NotFound
  <2>1. LineEnd = len
    BY <1>2 DEF LineEnd
  <2>2. ASSUME NEW k \in pos..len - 1 PROVE data[k] # Newline
    <3>1. k - pos \in 0..len - pos - 1 /\ pos + (k - pos) = k
      BY <1>1
    <3>2. [j \in 0..len - pos - 1 |-> data[pos + j]][k - pos] # Newline
      BY <1>1, <1>2, <3>1 DEF Find!FindsFirst
    <3> QED
      BY <3>1, <3>2
  <2>3. {len} \cup {k \in pos..len - 1 : data[k] = Newline} = {len}
    BY <2>2
  <2>4. Min({len}) = len
    BY <1>1 DEF Min
  <2>5. EndOf(pos) = len
    BY <2>3, <2>4 DEF EndOf
  <2> QED
    BY <1>1, <1>2, <2>1, <2>2, <2>5
<1>3. CASE result # NotFound
  <2>1. /\ result \in 0..len - pos - 1
        /\ [j \in 0..len - pos - 1 |-> data[pos + j]][result] = Newline
        /\ \A j \in 0..result - 1 :
             [k \in 0..len - pos - 1 |-> data[pos + k]][j] # Newline
    BY <1>1, <1>3 DEF Find!FindsFirst
  <2>2. LineEnd = pos + result /\ LineEnd \in pos..len - 1 /\ data[LineEnd] = Newline
    BY <1>1, <1>3, <2>1 DEF LineEnd
  <2>3. ASSUME NEW k \in pos..LineEnd - 1 PROVE data[k] # Newline
    <3>1. k - pos \in 0..result - 1 /\ k - pos \in 0..len - pos - 1 /\ pos + (k - pos) = k
      BY <1>1, <2>1, <2>2
    <3>2. [j \in 0..len - pos - 1 |-> data[pos + j]][k - pos] # Newline
      BY <2>1, <3>1
    <3> QED
      BY <3>1, <3>2
  <2> DEFINE Ends == {len} \cup {k \in pos..len - 1 : data[k] = Newline}
  <2>4. LineEnd \in Ends /\ \A c \in Ends : LineEnd <= c
    BY <1>1, <2>2, <2>3
  <2>5. Ends \subseteq Nat
    BY <1>1
  <2>6. Min(Ends) = LineEnd
    <3> HIDE DEF Ends
    <3>1. Min(Ends) \in Ends /\ \A c \in Ends : Min(Ends) <= c
      BY <2>4, <2>5, FirstPlace
    <3>2. Min(Ends) <= LineEnd /\ LineEnd <= Min(Ends) /\ Min(Ends) \in Nat /\ LineEnd \in Nat
      BY <2>4, <2>5, <3>1
    <3> QED
      BY <3>2
  <2> QED
    BY <1>1, <1>3, <2>2, <2>3, <2>6 DEF EndOf
<1> QED
  BY <1>2, <1>3

\* fgrep_pattern_match decides what Matches defines.
LEMMA MatchIsRight ==
  ASSUME LineInv, pc = "match", pattern \in Patterns
  PROVE  PatternMatch(pos, LineEnd) <=> Matches(pos)
<1>1. LineEnd = EndOf(pos) /\ LineEnd \in Nat /\ pos \in Nat /\ pos <= LineEnd
  BY LineEndIsRight DEF LineInv, LineTypes
<1>2. CASE pattern.is_regex
  BY <1>1, <1>2 DEF PatternMatch, Matches
<1>3. CASE ~pattern.is_regex
  <2>1. pattern.fixed_str \in Seq(Byte)
    BY <1>3, LineAssumption DEF Patterns, LineAssumption
  <2>2. PatternMatch(pos, LineEnd) <=> ContainsFixed(pos, LineEnd)
    BY <1>3 DEF PatternMatch
  <2>3. Matches(pos) <=>
          /\ pattern.fixed_str # <<>>
          /\ \E k \in pos..LineEnd - Len(pattern.fixed_str) : OccursAt(k)
    BY <1>1, <1>3 DEF Matches, OccursAt
  <2>4. CASE pattern.fixed_str = <<>>
    BY <2>2, <2>3, <2>4 DEF ContainsFixed
  <2>5. CASE pattern.fixed_str # <<>>
    <3>1. Len(pattern.fixed_str) \in Nat \ {0}
      BY <2>1, <2>5
    <3>2. Scan(pos, LineEnd)[pos] <=>
            \E k \in pos..LineEnd - Len(pattern.fixed_str) : OccursAt(k)
      BY <1>1, <2>1, <3>1, ScanFinds
    <3>3. (\E k \in pos..LineEnd - Len(pattern.fixed_str) : OccursAt(k))
            => Len(pattern.fixed_str) <= LineEnd - pos
      BY <1>1, <3>1
    <3> QED
      BY <2>2, <2>3, <2>5, <3>1, <3>2, <3>3, ScanIsContains
  <2> QED
    BY <2>4, <2>5
<1> QED
  BY <1>2, <1>3

\* Ranks are numbers up to that of the wanted lines.
LEMMA WantedFacts ==
  ASSUME len \in Nat
  PROVE  /\ \A t \in Wanted : t \in Nat /\ t < len
         /\ IsFiniteSet(Wanted) /\ Cardinality(Wanted) \in Nat
         /\ RankOf \in [0..len -> 0..Cardinality(Wanted)]
         /\ RankOf[0] = 0
         /\ RankOf[len] = Cardinality(Wanted)
<1>1. Wanted \subseteq 0..len - 1
  BY DEF Wanted, Starts
<1>2. IsFiniteSet(0..len - 1)
  BY FS_Interval
<1>3. IsFiniteSet(Wanted) /\ Cardinality(Wanted) \in Nat
  BY <1>1, <1>2, FS_Subset, FS_CardinalityType
<1> HIDE DEF Wanted
<1>0. \A t \in Wanted : t \in Nat /\ t < len
  BY <1>1
<1>4. ASSUME NEW p \in 0..len
      PROVE  Cardinality({t \in Wanted : t < p}) \in 0..Cardinality(Wanted)
  <2>1. {t \in Wanted : t < p} \in SUBSET Wanted
    OBVIOUS
  <2>2. /\ IsFiniteSet({t \in Wanted : t < p})
        /\ Cardinality({t \in Wanted : t < p}) <= Cardinality(Wanted)
    BY <1>3, <2>1, FS_Subset
  <2>3. Cardinality({t \in Wanted : t < p}) \in Nat
    BY <2>2, FS_CardinalityType
  <2> QED
    BY <1>3, <2>2, <2>3
<1>5. {t \in Wanted : t < 0} = {}
  BY <1>0
<1>6. {t \in Wanted : t < len} = Wanted
  BY <1>0
<1>7. RankOf[0] = 0 /\ RankOf[len] = Cardinality(Wanted)
  BY <1>5, <1>6, FS_EmptySet DEF RankOf
<1> QED
  BY <1>0, <1>3, <1>4, <1>7 DEF RankOf

\* A wanted line adds one to the rank of what comes behind it, and more wanted
\* lines do not make a rank smaller.
LEMMA RankGrows ==
  ASSUME len \in Nat, NEW s \in Wanted, NEW p \in 0..len, s < p
  PROVE  RankOf[s] + 1 <= RankOf[p]
<1>1. (\A t \in Wanted : t \in Nat /\ t < len) /\ IsFiniteSet(Wanted)
  BY WantedFacts
<1> HIDE DEF Wanted
<1> DEFINE B(q) == {t \in Wanted : t < q}
<1>2. /\ IsFiniteSet(B(s)) /\ IsFiniteSet(B(p))
      /\ Cardinality(B(s)) \in Nat /\ Cardinality(B(p)) \in Nat
  <2>1. B(s) \in SUBSET Wanted /\ B(p) \in SUBSET Wanted
    OBVIOUS
  <2> HIDE DEF B
  <2>2. IsFiniteSet(B(s)) /\ IsFiniteSet(B(p))
    BY <1>1, <2>1, FS_Subset
  <2> QED
    BY <2>2, FS_CardinalityType
<1>3. B(s) \cup {s} \in SUBSET B(p) /\ s \notin B(s)
  <2>1. ASSUME NEW t \in Wanted, t < s PROVE t < p
    BY <1>1, <2>1
  <2> QED
    BY <1>1, <2>1
<1>4. Cardinality(B(s) \cup {s}) = Cardinality(B(s)) + 1
  <2> HIDE DEF B
  <2> QED
    BY <1>2, <1>3, FS_AddElement
<1>5. Cardinality(B(s) \cup {s}) <= Cardinality(B(p))
  <2> HIDE DEF B
  <2> QED
    BY <1>2, <1>3, FS_Subset
<1>6. RankOf[s] = Cardinality(B(s)) /\ RankOf[p] = Cardinality(B(p))
  BY <1>1 DEF RankOf
<1> QED
  BY <1>2, <1>4, <1>5, <1>6

\* Behind a line there is one more wanted line, if it is wanted, and no other.
LEMMA RankBehind ==
  ASSUME len \in Nat, NEW s \in 0..len, NEW q \in 0..len, s < q,
         \A t \in Wanted : t < q => t <= s
  PROVE  RankOf[q] = IF s \in Wanted THEN RankOf[s] + 1 ELSE RankOf[s]
<1>1. (\A t \in Wanted : t \in Nat /\ t < len) /\ IsFiniteSet(Wanted)
  BY WantedFacts
<1> HIDE DEF Wanted
<1> DEFINE B(p) == {t \in Wanted : t < p}
<1>2. IsFiniteSet(B(s))
  <2>1. B(s) \in SUBSET Wanted
    OBVIOUS
  <2> HIDE DEF B
  <2> QED
    BY <1>1, <2>1, FS_Subset
<1>3. RankOf[s] = Cardinality(B(s)) /\ RankOf[q] = Cardinality(B(q))
  BY DEF RankOf
<1>4. CASE s \in Wanted
  <2>1. B(q) = B(s) \cup {s} /\ s \notin B(s)
    <3>1. ASSUME NEW t \in Wanted, t < q PROVE t < s \/ t = s
      BY <1>1, <3>1
    <3>2. ASSUME NEW t \in Wanted, t < s PROVE t < q
      BY <1>1, <3>2
    <3>3. ~(s < s)
      BY <1>1, <1>4
    <3>4. B(q) \subseteq B(s) \cup {s}
      BY <3>1
    <3>5. B(s) \cup {s} \subseteq B(q)
      BY <1>4, <3>2
    <3> QED
      BY <3>3, <3>4, <3>5
  <2> HIDE DEF B
  <2>2. Cardinality(B(q)) = Cardinality(B(s)) + 1
    BY <1>2, <2>1, FS_AddElement
  <2> QED
    BY <1>3, <1>4, <2>2
<1>5. CASE s \notin Wanted
  <2>1. B(q) = B(s)
    <3>1. ASSUME NEW t \in Wanted, t < q PROVE t < s
      <4>1. t <= s /\ t # s /\ t \in Int /\ s \in Int
        BY <1>1, <1>5, <3>1
      <4> QED
        BY <4>1
    <3>2. ASSUME NEW t \in Wanted, t < s PROVE t < q
      BY <1>1, <3>2
    <3> QED
      BY <3>1, <3>2
  <2> HIDE DEF B
  <2> QED
    BY <1>3, <1>5, <2>1
<1> QED
  BY <1>4, <1>5

\* The rank of what comes behind the line that is matched.
LEMMA RankAdvance ==
  ASSUME LineInv, pc = "match",
         NEW q \in 0..len,
         IF result = NotFound THEN q = len ELSE q = LineEnd + 1
  PROVE  RankOf[q] = IF pos \in Wanted THEN RankOf[pos] + 1 ELSE RankOf[pos]
<1>1. len \in Nat /\ pos \in 0..len /\ pos < len
  BY DEF LineInv, LineTypes
<1>2. /\ LineEnd \in pos..len
      /\ \A k \in pos..LineEnd - 1 : data[k] # Newline
      /\ result = NotFound => LineEnd = len
  BY LineEndIsRight
<1>3. pos < q /\ q <= LineEnd + 1 /\ (result = NotFound => q <= LineEnd)
  BY <1>1, <1>2
<1>4. ASSUME NEW t \in Wanted, t < q PROVE t <= pos
  <2> SUFFICES ASSUME t > pos PROVE FALSE
    BY <1>1, WantedFacts
  <2>1. t \in 0..len - 1 /\ (t = 0 \/ data[t - 1] = Newline)
    BY <1>4 DEF Wanted, Starts
  <2>2. t - 1 \in pos..LineEnd - 1
    BY <1>1, <1>2, <1>3, <1>4, <2>1
  <2> QED
    BY <1>1, <1>2, <2>1, <2>2
<1> QED
  BY <1>1, <1>3, <1>4, RankBehind

\* Steps leave the text, and with it what is wanted of it, as it is.
LEMMA SameWanted ==
  ASSUME UNCHANGED inputs
  PROVE  Wanted' = Wanted /\ RankOf' = RankOf /\ WantedLine' = WantedLine
BY DEF inputs, Wanted, RankOf, WantedLine, Starts, Matches, EndOf, NumberOf, UpToNul, Slice

\* What a line adds to the result.
LEMMA LineCounted ==
  ASSUME LineInv, ResultInv, pc = "match", ~exhausted, UNCHANGED <<inputs, exhausted>>,
         Matched(PatternMatch(pos, LineEnd))
  PROVE  ResultInv'
<1>1. len \in Nat /\ pos \in 0..len /\ pos < len
  BY DEF LineInv, LineTypes
<1>2. pattern \in Patterns /\ opts \in OptionType /\ count \in Nat
      /\ opts.max_count \in Nat /\ opts.invert_match \in BOOLEAN
  BY DEF ResultInv, OptionType
<1>3. pos \in Starts /\ lineNo = NumberOf(pos)
  BY <1>1 DEF LineInv, Starts
<1>4. PatternMatch(pos, LineEnd) = opts.invert_match <=> pos \notin Wanted
  <2>1. CASE pattern.is_regex
    <3>1. LineEnd = EndOf(pos)
      BY LineEndIsRight
    <3> QED
      BY <1>3, <2>1, <3>1, Zenon DEF Wanted, PatternMatch, Matches
  <2>2. CASE ~pattern.is_regex
    <3>1. PatternMatch(pos, LineEnd) <=> Matches(pos)
      BY <1>2, MatchIsRight
    <3>2. PatternMatch(pos, LineEnd) \in BOOLEAN /\ Matches(pos) \in BOOLEAN
      BY <2>2, Zenon DEF PatternMatch, Matches, ContainsFixed
    <3> QED
      BY <1>2, <1>3, <3>1, <3>2, Zenon DEF Wanted
  <2> QED
    BY <2>1, <2>2
<1>5. /\ Wanted' = Wanted /\ RankOf' = RankOf /\ WantedLine' = WantedLine
      /\ UNCHANGED <<data, len, pattern, opts, exhausted>>
  BY SameWanted DEF inputs
<1>6. /\ count = RankOf[pos] /\ ~OverLimit(count)
      /\ Prints => PrintedInv
  BY DEF ResultInv, CountedInv, InLoop
<1>7. Cardinality(Wanted) \in Nat /\ RankOf[len] = Cardinality(Wanted)
  BY <1>1, WantedFacts
<1>8. ASSUME Advance
      PROVE  LET rank == IF pos \in Wanted THEN count + 1 ELSE count
             IN  \/ pc' = "start" /\ RankOf[pos'] = rank
                 \/ pc' = "summary" /\ Cardinality(Wanted) = rank
  <2>1. CASE result = NotFound
    BY <1>1, <1>6, <1>7, <1>8, <2>1, RankAdvance DEF Advance
  <2>2. CASE result # NotFound
    <3>1. LineEnd < len /\ LineEnd \in pos..len
      BY <2>2, LineEndIsRight
    <3>2. LineEnd + 1 \in 0..len
      BY <1>1, <3>1
    <3> QED
      BY <1>6, <1>8, <2>2, <3>2, RankAdvance DEF Advance
  <2> QED
    BY <2>1, <2>2
<1>9. CASE pos \notin Wanted
  <2>1. Advance /\ count' = count /\ printed' = printed
    BY <1>4, <1>9 DEF Matched
  <2>2. CountedInv'
    BY <1>5, <1>6, <1>8, <1>9, <2>1 DEF CountedInv, InLoop, OverLimit
  <2>3. (Prints => PrintedInv)'
    BY <1>5, <1>6, <2>1 DEF Prints, PrintedInv, OverLimit
  <2>4. pc' # "done"
    BY <2>1 DEF Advance
  <2> QED
    BY <1>2, <1>5, <2>1, <2>2, <2>3, <2>4 DEF ResultInv, Patterns
<1>10. CASE pos \in Wanted /\ OverLimit(count')
  <2>1. count' = count + 1 /\ printed' = printed /\ pc' = "summary"
    BY <1>4, <1>10 DEF Matched
  <2>2. opts.max_count > 0 /\ count = opts.max_count
    BY <1>2, <1>6, <1>10, <2>1 DEF OverLimit
  <2>3. count + 1 <= Cardinality(Wanted)
    BY <1>1, <1>6, <1>7, <1>10, RankGrows
  <2>4. CountedInv'
    BY <1>2, <1>5, <2>1, <2>2, <2>3 DEF CountedInv, InLoop, OverLimit
  <2>5. (Prints => PrintedInv)'
    BY <1>2, <1>5, <1>6, <2>1, <2>2 DEF Prints, PrintedInv, OverLimit
  <2> QED
    BY <1>2, <1>5, <2>1, <2>4, <2>5 DEF ResultInv, Patterns
<1>11. CASE pos \in Wanted /\ ~OverLimit(count')
  <2> DEFINE line == [no |-> lineNo, first |-> pos, end |-> LineEnd]
  <2>1. /\ count' = count + 1 /\ Advance
        /\ printed' = IF Prints THEN Append(printed, line) ELSE printed
    BY <1>4, <1>11 DEF Matched
  <2>2. CountedInv'
    BY <1>2, <1>5, <1>8, <1>11, <2>1 DEF CountedInv, InLoop, OverLimit
  <2>3. line \in WantedLine /\ line.first = pos
    BY <1>3, <1>11, LineEndIsRight DEF WantedLine
  <2> HIDE DEF line
  <2>4. ASSUME Prints PROVE PrintedInv'
    <3>1. /\ printed \in Seq(WantedLine) /\ Len(printed) = count
          /\ \A k \in DOMAIN printed : RankOf[printed[k].first] = k - 1
      BY <1>6, <2>4 DEF PrintedInv
    <3>2. printed' = Append(printed, line)
      BY <2>1, <2>4
    <3>3. printed' \in Seq(WantedLine) /\ Len(printed') = count + 1
      BY <2>3, <3>1, <3>2
    <3>4. ASSUME NEW k \in DOMAIN printed'
          PROVE  RankOf[printed'[k].first] = k - 1
      <4>1. k \in 1..count + 1
        BY <3>3, <3>4
      <4>2. CASE k = count + 1
        <5>1. printed'[k] = line
          BY <3>1, <3>2, <4>2
        <5> QED
          BY <1>2, <1>6, <2>3, <4>2, <5>1
      <4>3. CASE k # count + 1
        <5>1. k \in DOMAIN printed /\ printed'[k] = printed[k]
          BY <1>2, <3>1, <3>2, <4>1, <4>3
        <5> QED
          BY <3>1, <5>1
      <4> QED
        BY <4>2, <4>3
    <3> QED
      BY <1>5, <1>11, <2>1, <3>3, <3>4 DEF PrintedInv, OverLimit
  <2>5. (Prints => PrintedInv)'
    BY <1>5, <2>4 DEF Prints
  <2>6. pc' # "done"
    BY <2>1 DEF Advance
  <2> QED
    BY <1>2, <1>5, <2>1, <2>2, <2>5, <2>6 DEF ResultInv, Patterns
<1> QED
  BY <1>9, <1>10, <1>11

\* A step keeps the result.
LEMMA ResultNext ==
  ASSUME LineInv, ResultInv, [Next]_vars
  PROVE  ResultInv'
<1>1. CASE pc = "match" /\ ~exhausted /\ MatchLine
  BY <1>1, LineCounted DEF MatchLine
<1>2. ASSUME pc = "match", exhausted', UNCHANGED <<inputs, summary>>,
             NEW outcome, Matched(outcome)
      PROVE  ResultInv'
  <2>1. count' \in {count, count + 1} /\ pc' # "done"
    BY <1>2 DEF Matched, Advance
  <2> QED
    BY <1>2, <2>1 DEF ResultInv, inputs, Patterns
<1>3. CASE MatchLine
  BY <1>1, <1>2, <1>3 DEF MatchLine
<1>4. CASE NoMemory
  BY <1>2, <1>4 DEF NoMemory
<1>5. ASSUME UNCHANGED <<inputs, count, printed, exhausted>>,
             ~exhausted => (CountedInv => CountedInv'),
             pc' = "done" => summary' = SummaryOf(count)
      PROVE  ResultInv'
  <2>1. Wanted' = Wanted /\ RankOf' = RankOf /\ WantedLine' = WantedLine
    BY <1>5, SameWanted
  <2>2. (Prints => PrintedInv)' <=> (Prints => PrintedInv)
    BY <1>5, <2>1 DEF Prints, PrintedInv, OverLimit, inputs
  <2>3. pc' = "done" => (summary = SummaryOf(count))'
    BY <1>5 DEF SummaryOf, inputs
  <2> QED
    BY <1>5, <2>2, <2>3 DEF ResultInv, inputs, Patterns
<1>6. ASSUME UNCHANGED <<inputs, pos, count, printed, exhausted>>,
             InLoop' <=> InLoop, pc' = "done" => summary' = SummaryOf(count)
      PROVE  ResultInv'
  <2>1. Wanted' = Wanted /\ RankOf' = RankOf
    BY <1>6, SameWanted
  <2>2. CountedInv => CountedInv'
    BY <1>6, <2>1 DEF CountedInv, OverLimit, inputs
  <2> QED
    BY <1>5, <1>6, <2>2
<1>7. CASE NextLine \/ FindNewline \/ Found
  BY <1>6, <1>7 DEF NextLine, FindNewline, Found, InLoop
<1>8. CASE TextDone
  <2>1. Wanted' = Wanted
    BY <1>8, SameWanted DEF TextDone
  <2>2. pos = len /\ len \in Nat
    BY <1>8 DEF TextDone, LineInv, LineTypes
  <2>3. CountedInv => CountedInv'
    BY <1>8, <2>1, <2>2, WantedFacts DEF TextDone, CountedInv, InLoop, OverLimit, inputs
  <2> QED
    BY <1>5, <1>8, <2>3 DEF TextDone
<1>9. CASE Summary
  BY <1>6, <1>9 DEF Summary, InLoop
<1>10. CASE UNCHANGED vars
  BY <1>6, <1>10 DEF vars, InLoop, ResultInv
<1>11. CASE Done
  BY <1>10, <1>11 DEF Done
<1> QED
  BY <1>3, <1>4, <1>7, <1>8, <1>9, <1>10, <1>11 DEF Next

\* Nothing is counted or printed yet.
LEMMA ResultInit == Init => ResultInv
<1> SUFFICES ASSUME Init PROVE ResultInv
  OBVIOUS
<1>1. len \in Nat /\ opts \in OptionType
  BY LineAssumption DEF Init, LineAssumption
<1>2. RankOf[0] = 0
  BY <1>1, WantedFacts
<1>3. opts.max_count \in Nat
  BY <1>1 DEF OptionType
<1> QED
  BY <1>1, <1>2, <1>3 DEF Init, ResultInv, CountedInv, PrintedInv, InLoop, OverLimit

\* search_regex_impl keeps ResultInv.
THEOREM ResultInvariant == Spec => [](LineInv /\ ResultInv)
<1>1. LineInv /\ ResultInv /\ [Next]_vars => ResultInv'
  BY ResultNext
<1> QED
  BY <1>1, ResultInit, LineInvariant, PTL DEF Spec

\* With -m NUM the count is that of the wanted lines up to NUM + 1: the line that
\* ends the search is counted before it is compared with NUM (src/search.c:44-45).
\* The run max_count shows a count that is one too large; it is never more.
THEOREM CountIsAtMostOneOver ==
  Spec => [](pc = "done" /\ ~exhausted /\ opts.max_count > 0 =>
               count = IF Cardinality(Wanted) > opts.max_count
                         THEN opts.max_count + 1
                         ELSE Cardinality(Wanted))
<1>1. ASSUME LineInv, ResultInv, pc = "done", ~exhausted, opts.max_count > 0
      PROVE  count = IF Cardinality(Wanted) > opts.max_count
                       THEN opts.max_count + 1
                       ELSE Cardinality(Wanted)
  <2>1. CountedInv /\ count \in Nat /\ opts.max_count \in Nat
    BY <1>1 DEF ResultInv, OptionType
  <2>2. Cardinality(Wanted) \in Nat
    BY <1>1, WantedFacts DEF LineInv, LineTypes
  <2> QED
    BY <1>1, <2>1, <2>2 DEF CountedInv, InLoop, OverLimit
<1> QED
  BY <1>1, ResultInvariant, PTL

\* For every text, pattern and combination of options, if no line lacked memory:
\* without -m the count is the number of wanted lines; -l names the file exactly
\* if there are any, and -L exactly if there are none (src/search.c:57-69).
THEOREM SummaryIsRight == Spec => []SummarisesWantedLines
<1>1. LineInv /\ ResultInv => SummarisesWantedLines
  <2> SUFFICES ASSUME LineInv, ResultInv, pc = "done", ~exhausted
               PROVE  /\ opts.max_count = 0 => count = Cardinality(Wanted)
                      /\ summary = "match" <=>
                           ~opts.count_only /\ opts.files_with_matches /\ Wanted # {}
                      /\ summary = "no_match" <=>
                           ~opts.count_only /\ opts.files_without_match /\ Wanted = {}
    BY DEF SummarisesWantedLines
  <2>1. /\ CountedInv /\ summary = SummaryOf(count) /\ count \in Nat
        /\ opts.max_count \in Nat
        /\ opts.count_only \in BOOLEAN /\ opts.files_without_match \in BOOLEAN
        /\ opts.files_with_matches \in BOOLEAN
    BY DEF ResultInv, OptionType
  <2>2. IsFiniteSet(Wanted) /\ Cardinality(Wanted) \in Nat
    BY WantedFacts DEF LineInv, LineTypes
  <2>3. Cardinality(Wanted) = 0 <=> Wanted = {}
    BY <2>2, FS_EmptySet
  <2>4. count = 0 <=> Wanted = {}
    BY <2>1, <2>2, <2>3 DEF CountedInv, InLoop, OverLimit
  <2>5. opts.max_count = 0 => count = Cardinality(Wanted)
    BY <2>1 DEF CountedInv, InLoop, OverLimit
  <2> QED
    BY <2>1, <2>4, <2>5 DEF SummaryOf
<1> QED
  BY <1>1, ResultInvariant, PTL

\* Wanted lines are told apart by their rank.
LEMMA RankTells ==
  ASSUME len \in Nat, NEW s \in Wanted, NEW t \in Wanted, RankOf[s] = RankOf[t]
  PROVE  s = t
<1>1. s \in 0..len /\ t \in 0..len
  BY WantedFacts
<1>2. RankOf[s] \in Nat
  BY <1>1, WantedFacts
<1>3. ~(s < t) /\ ~(t < s)
  BY <1>1, <1>2, RankGrows
<1> QED
  BY <1>1, <1>3

\* The printed lines are the allowed ones, in order.
LEMMA PrintedIsAllowed ==
  ASSUME LineInv, ResultInv, pc = "done", ~exhausted, Prints
  PROVE  /\ Len(printed) = Cardinality(Allowed)
         /\ \A k \in DOMAIN printed :
              /\ printed[k].first \in Allowed
              /\ printed[k].end = EndOf(printed[k].first)
              /\ printed[k].no = NumberOf(printed[k].first)
              /\ Cardinality({s \in Allowed : s < printed[k].first}) = k - 1
<1>1. /\ len \in Nat /\ count \in Nat /\ opts.max_count \in Nat
      /\ CountedInv /\ PrintedInv
  BY DEF ResultInv, LineInv, LineTypes, OptionType
<1>2. /\ printed \in Seq(WantedLine) /\ Len(printed) \in Nat
      /\ \A k \in DOMAIN printed : RankOf[printed[k].first] = k - 1
  BY <1>1 DEF PrintedInv
<1>3. /\ opts.max_count > 0 => Len(printed) <= opts.max_count
      /\ \/ opts.max_count > 0 /\ Len(printed) = opts.max_count
         \/ Len(printed) = Cardinality(Wanted)
  BY <1>1 DEF PrintedInv, CountedInv, InLoop, OverLimit
<1>4. \A s \in Wanted : s \in 0..len /\ RankOf[s] = Cardinality({t \in Wanted : t < s})
  BY <1>1, WantedFacts DEF RankOf
<1>5. \A s \in Wanted : RankOf[s] \in Nat /\ RankOf[s] + 1 <= Cardinality(Wanted)
  <2> SUFFICES ASSUME NEW s \in Wanted
               PROVE  RankOf[s] \in Nat /\ RankOf[s] + 1 <= Cardinality(Wanted)
    OBVIOUS
  <2>1. s \in 0..len /\ len \in 0..len /\ s < len
    BY <1>1, WantedFacts
  <2> QED
    BY <1>1, <2>1, WantedFacts, RankGrows
<1>6. Allowed = {s \in Wanted : opts.max_count = 0 \/ RankOf[s] < opts.max_count}
  BY <1>4 DEF Allowed
<1>7. \A k \in DOMAIN printed :
        /\ printed[k].first \in Allowed
        /\ printed[k].end = EndOf(printed[k].first)
        /\ printed[k].no = NumberOf(printed[k].first)
  <2> SUFFICES ASSUME NEW k \in DOMAIN printed
               PROVE  /\ printed[k].first \in Allowed
                      /\ printed[k].end = EndOf(printed[k].first)
                      /\ printed[k].no = NumberOf(printed[k].first)
    OBVIOUS
  <2>1. printed[k] \in WantedLine /\ k \in 1..Len(printed)
    BY <1>2
  <2>2. PICK s \in Wanted : printed[k] = [no |-> NumberOf(s), first |-> s, end |-> EndOf(s)]
    BY <2>1 DEF WantedLine
  <2>3. RankOf[s] = k - 1
    BY <1>2, <2>2
  <2>4. s \in Allowed
    BY <1>1, <1>2, <1>3, <1>6, <2>1, <2>3
  <2> QED
    BY <2>2, <2>4
<1>8. ASSUME NEW k \in DOMAIN printed
      PROVE  Cardinality({s \in Allowed : s < printed[k].first}) = k - 1
  <2> DEFINE first == printed[k].first
  <2>1. first \in Allowed /\ first \in Wanted /\ RankOf[first] = k - 1
    BY <1>2, <1>6, <1>7
  <2>2. ASSUME NEW t \in Wanted, t < first PROVE t \in Allowed
    <3>1. RankOf[t] + 1 <= RankOf[first]
      BY <1>1, <1>4, <2>1, <2>2, RankGrows
    <3> QED
      BY <1>1, <1>5, <1>6, <2>1, <3>1
  <2>3. {s \in Allowed : s < first} = {t \in Wanted : t < first}
    BY <1>6, <2>2
  <2> QED
    BY <1>4, <2>1, <2>3
<1>9. Len(printed) = Cardinality(Allowed)
  <2> DEFINE f == [k \in 1..Len(printed) |-> printed[k].first]
  <2>1. f \in [1..Len(printed) -> Allowed]
    BY <1>2, <1>7
  <2>2. ASSUME NEW j \in 1..Len(printed), NEW k \in 1..Len(printed), f[j] = f[k]
        PROVE  j = k
    BY <1>2, <2>2
  <2>3. ASSUME NEW s \in Allowed PROVE \E k \in 1..Len(printed) : f[k] = s
    <3>1. s \in Wanted /\ RankOf[s] \in Nat /\ RankOf[s] + 1 <= Len(printed)
      BY <1>1, <1>3, <1>5, <1>6
    <3>2. RankOf[s] + 1 \in 1..Len(printed)
      BY <1>2, <3>1
    <3>3. /\ f[RankOf[s] + 1] \in Wanted
          /\ RankOf[f[RankOf[s] + 1]] = RankOf[s]
      BY <1>2, <1>6, <1>7, <3>1, <3>2
    <3>4. f[RankOf[s] + 1] = s
      <4> HIDE DEF f
      <4> QED
        BY <1>1, <3>1, <3>3, RankTells
    <3> QED
      BY <3>2, <3>4
  <2> HIDE DEF f
  <2>4. f \in Bijection(1..Len(printed), Allowed)
    BY <2>1, <2>2, <2>3 DEF Bijection, Injection, Surjection, IsInjective
  <2>5. ExistsBijection(1..Len(printed), Allowed)
    BY <2>4 DEF ExistsBijection
  <2>6. IsFiniteSet(1..Len(printed)) /\ Cardinality(1..Len(printed)) = Len(printed)
    BY <1>2, FS_Interval
  <2> QED
    BY <2>5, <2>6, FS_Bijection
<1> QED
  BY <1>7, <1>8, <1>9

\* For every text, pattern and combination of options: the output is the wanted
\* lines, each whole and with its number, in order, as many as -m allows
\* (src/search.c:36-56).
THEOREM PrintIsRight == Spec => []PrintsWantedLines
<1>1. LineInv /\ ResultInv => PrintsWantedLines
  BY PrintedIsAllowed DEF PrintsWantedLines
<1> QED
  BY <1>1, ResultInvariant, PTL
------------------------------------------------------------------------------
(* Types *)

\* There are no more lines than bytes before the current one.
TypeInv ==
  /\ TypeOK
  /\ InLoop => count <= pos /\ lineNo <= pos + 1

LEMMA TypeNext ==
  ASSUME LineInv, TypeInv, [Next]_vars
  PROVE  TypeInv'
<1> USE DEF TypeInv, TypeOK, InLoop, Places, inputs, finding
<1>1. LineInv'
  BY LineNext
<1>2. /\ MaxLen \in Nat /\ len \in 0..MaxLen /\ len \in Nat /\ pos \in 0..len
      /\ lineNo \in 1..len + 1 /\ count \in 0..len
  BY LineAssumption DEF LineAssumption
<1>3. CASE NextLine \/ FindNewline
  <2>1. /\ pc' = "find" /\ pc \in {"start", "find"} /\ busy' \in BOOLEAN
        /\ UNCHANGED <<inputs, pos, lineNo, count, printed, summary, exhausted>>
    BY <1>3 DEF NextLine, FindNewline, Find!Call, Find!Next, Find!Hit, Find!Miss,
       Find!NextLoop, Find!ReturnNull
  <2>2. /\ i' \in 0..len - pos /\ loop' \in 1..Len(Widths)
        /\ result' = NotFound \/ result' \in 0..len - pos - 1
    BY <1>1, <2>1 DEF LineInv, Find!NoneSkipped, Find!FindsFirst
  <2>3. i' \in 0..len /\ result' \in 0..len \cup {NotFound}
    BY <1>2, <2>2
  <2> QED
    BY <2>1, <2>2, <2>3
<1>4. CASE Found \/ TextDone
  BY <1>4 DEF Found, TextDone
<1>5. ASSUME NEW outcome, pc = "match", Matched(outcome),
             UNCHANGED <<inputs, summary, finding>>, exhausted' \in BOOLEAN
      PROVE  TypeInv'
  <2>1. /\ LineEnd \in pos..len /\ pos < len
        /\ result # NotFound => LineEnd < len
    BY <1>5, LineEndIsRight DEF LineInv
  <2> HIDE DEF LineEnd
  <2>2. ASSUME Advance
        PROVE  /\ pc' \in {"start", "summary"} /\ pos' \in 0..len
               /\ lineNo' \in 1..len + 1
               /\ pc' = "start" => pos' > pos /\ lineNo' <= pos' + 1
    BY <1>2, <1>5, <2>1, <2>2 DEF Advance
  <2>3. CASE outcome = opts.invert_match
    <3>1. Advance /\ count' = count /\ printed' = printed
      BY <1>5, <2>3 DEF Matched
    <3> QED
      BY <1>2, <1>5, <2>2, <3>1
  <2>4. CASE outcome # opts.invert_match
    <3>1. count' = count + 1 /\ count' \in 0..len
      BY <1>2, <1>5, <2>1, <2>4 DEF Matched
    <3>2. CASE OverLimit(count')
      <4>1. pc' = "summary" /\ UNCHANGED <<pos, lineNo, printed>>
        BY <1>5, <2>4, <3>2 DEF Matched
      <4> QED
        BY <1>2, <1>5, <3>1, <4>1
    <3>3. CASE ~OverLimit(count')
      <4> DEFINE line == [no |-> lineNo, first |-> pos, end |-> LineEnd]
      <4>1. Advance /\ (printed' = printed \/ printed' = Append(printed, line))
        BY <1>5, <2>4, <3>3 DEF Matched
      <4>2. line \in Line /\ printed \in Seq(Line)
        BY <1>2, <2>1 DEF Line
      <4>3. printed' \in Seq(Line)
        <5> HIDE DEF line
        <5> QED
          BY <4>1, <4>2
      <4> QED
        BY <1>2, <1>5, <2>2, <3>1, <4>1, <4>3
    <3> QED
      BY <3>2, <3>3
  <2> QED
    BY <2>3, <2>4
<1>6. CASE MatchLine
  BY <1>5, <1>6 DEF MatchLine
<1>7. CASE NoMemory
  BY <1>5, <1>7 DEF NoMemory
<1>8. CASE Summary
  <2>1. summary' \in {"none", "count", "match", "no_match"}
    BY <1>8 DEF Summary, SummaryOf
  <2> QED
    BY <1>8, <2>1 DEF Summary
<1>9. CASE UNCHANGED vars
  BY <1>9 DEF vars
<1> QED
  BY <1>3, <1>4, <1>6, <1>7, <1>8, <1>9 DEF Next, Done

\* Every state is well typed: position, number and count stay within the text
\* (src/search.c:28-77).
THEOREM TypeCorrect == Spec => []TypeOK
<1>1. Init => TypeInv
  <2> SUFFICES ASSUME Init PROVE TypeInv
    OBVIOUS
  <2>1. 1 \in 1..Len(Widths)
    BY WidthAssumption DEF Find!WidthsEndWithOne
  <2>2. MaxLen \in Nat /\ <<>> \in Seq(Line)
    BY LineAssumption DEF LineAssumption
  <2>3. exhausted \in BOOLEAN /\ busy \in BOOLEAN
    BY DEF Init
  <2>4. TypeOK
    BY <2>1, <2>2, <2>3 DEF Init, TypeOK, Places
  <2>5. count <= pos /\ lineNo <= pos + 1
    BY DEF Init
  <2> QED
    BY <2>4, <2>5 DEF TypeInv
<1>2. LineInv /\ TypeInv /\ [Next]_vars => TypeInv'
  BY TypeNext
<1>3. TypeInv => TypeOK
  BY DEF TypeInv
<1> QED
  BY <1>1, <1>2, <1>3, LineInvariant, PTL DEF Spec
==============================================================================
