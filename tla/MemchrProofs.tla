---------------------------- MODULE MemchrProofs ----------------------------
(***************************************************************************)
(* The search for a byte returns its first place, for areas of any length  *)
(* and any sequence of vector widths that ends with 1.                     *)
(***************************************************************************)
EXTENDS Memchr, WellFoundedInduction, TLAPS

\* A nonempty set of naturals has a lowest member.
LEMMA LowestIsLeast ==
  ASSUME NEW S, S \subseteq Nat, S # {}
  PROVE  Lowest(S) \in S /\ \A c \in S : Lowest(S) <= c
<1> DEFINE Less == {ss \in Nat \X Nat : ss[1] < ss[2]}
<1>1. OpToRel(<, Nat) = Less
  BY DEF OpToRel
<1>2. IsWellFoundedOn(Less, Nat)
  BY <1>1, NatLessThanWellFounded
<1>3. PICK b \in S : \A c \in S : ~(<<c, b>> \in Less)
  <2> HIDE DEF Less
  <2> QED
    BY <1>2, WFMin
<1>4. \A c \in S : b <= c
  <2> SUFFICES ASSUME NEW c \in S, c < b PROVE FALSE
    OBVIOUS
  <2>1. <<c, b>> \in Less
    OBVIOUS
  <2> QED
    BY <1>3, <2>1
<1> QED
  BY <1>4 DEF Lowest

\* What holds from the call of the function on.
SearchInv ==
  /\ NoneSkipped
  /\ FindsFirst
  /\ busy => result = NotFound

\* At the call nothing was looked at yet.
LEMMA SearchCall ==
  ASSUME WidthsEndWithOne, n \in Nat, n' = n, Call
  PROVE  SearchInv'
<1>1. i' = 0 /\ loop' = 1 /\ result' = NotFound /\ busy' = TRUE
  BY DEF Call
<1>2. 1 \in 1..Len(Widths)
  BY DEF WidthsEndWithOne
<1> QED
  BY <1>1, <1>2 DEF SearchInv, NoneSkipped, FindsFirst

\* A step of the search keeps the invariant.
LEMMA SearchStep ==
  ASSUME WidthsEndWithOne, n \in Nat, SearchInv, Next,
         bytes' = bytes, n' = n, wanted' = wanted
  PROVE  SearchInv'
<1>1. /\ Len(Widths) \in Nat \ {0}
      /\ \A k \in 1..Len(Widths) : Widths[k] \in Nat \ {0}
      /\ Widths[Len(Widths)] = 1
      /\ NotFound \notin Nat
  BY DEF WidthsEndWithOne
<1>2. i \in 0..n /\ loop \in 1..Len(Widths) /\ \A j \in 0..i - 1 : bytes[j] # wanted
  BY DEF SearchInv, NoneSkipped
<1>3. Widths[loop] \in Nat \ {0}
  BY <1>1, <1>2
<1>4. CASE Hit
  <2>1. Hits \subseteq Nat /\ Hits # {}
    BY <1>3, <1>4 DEF Hit, Hits
  <2>2. PICK b \in Hits : b = Lowest(Hits) /\ \A c \in Hits : b <= c
    BY <2>1, LowestIsLeast
  <2>3. b \in 0..Widths[loop] - 1 /\ bytes[i + b] = wanted
    BY <2>2 DEF Hits
  <2>4. result' = i + b /\ busy' = FALSE /\ i' = i /\ loop' = loop
    BY <1>4, <2>2 DEF Hit
  <2>5. i + b \in 0..n - 1
    BY <1>2, <1>3, <1>4, <2>3 DEF Hit, Fits
  <2>6. \A j \in 0..i + b - 1 : bytes[j] # wanted
    <3> SUFFICES ASSUME NEW j \in 0..i + b - 1, bytes[j] = wanted PROVE FALSE
      OBVIOUS
    <3>1. j \notin 0..i - 1
      BY <1>2
    <3>2. j - i \in 0..Widths[loop] - 1 /\ j - i < b /\ i + (j - i) = j
      BY <1>2, <1>3, <2>3, <3>1
    <3>3. j - i \in Hits
      BY <3>2 DEF Hits
    <3> QED
      BY <2>2, <3>2, <3>3, <2>3
  <2> QED
    BY <1>1, <1>2, <2>3, <2>4, <2>5, <2>6 DEF SearchInv, NoneSkipped, FindsFirst
<1>5. CASE Miss
  <2>1. i' = i + Widths[loop] /\ loop' = loop /\ result' = result /\ busy /\ busy' = busy
        /\ i + Widths[loop] <= n
    BY <1>5 DEF Miss, StepOverVector, Fits
  <2>2. \A j \in 0..i + Widths[loop] - 1 : bytes[j] # wanted
    <3> SUFFICES ASSUME NEW j \in 0..i + Widths[loop] - 1, bytes[j] = wanted PROVE FALSE
      OBVIOUS
    <3>1. j \notin 0..i - 1
      BY <1>2
    <3>2. j - i \in 0..Widths[loop] - 1 /\ i + (j - i) = j
      BY <1>2, <1>3, <3>1
    <3> QED
      BY <1>5, <3>2 DEF Miss, StepOverVector, Hits
  <2> QED
    BY <1>2, <1>3, <2>1, <2>2 DEF SearchInv, NoneSkipped, FindsFirst
<1>6. CASE NextLoop
  BY <1>1, <1>2, <1>6 DEF NextLoop, SearchInv, NoneSkipped, FindsFirst
<1>7. CASE ReturnNull
  <2>1. i = n
    BY <1>1, <1>2, <1>7 DEF ReturnNull, Fits
  <2> QED
    BY <1>2, <1>7, <2>1 DEF ReturnNull, SearchInv, NoneSkipped, FindsFirst
<1> QED
  BY <1>4, <1>5, <1>6, <1>7 DEF Next
==============================================================================
