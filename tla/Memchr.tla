-------------------------------- MODULE Memchr --------------------------------
(***************************************************************************)
(* The search for one byte in src/simd.c: a loop per vector width, from    *)
(* the widest down, each of which takes whole vectors as long as they fit, *)
(* and at the end a loop over single bytes.  A comparison gives one bit    *)
(* per byte, of which the lowest is taken.  The variants differ in their   *)
(* widths only: 64, 32, 1 (avx512_memchr), 32, 16, 1 (avx2_memchr), 16, 1  *)
(* (sse2_memchr) and 1 (scalar_memchr).                                    *)
(***************************************************************************)
EXTENDS Integers, Sequences

CONSTANTS
  Widths,      \* the widths of the loops, in their order
  NotFound     \* the null pointer

\* What the including module assumes of the constants.
WidthsEndWithOne ==
  /\ Widths \in Seq(Nat \ {0})
  /\ Widths # <<>>
  /\ Widths[Len(Widths)] = 1
  /\ NotFound \notin Nat

\* The arguments, which the caller leaves alone during the search.
VARIABLES
  bytes,    \* the bytes of the area, from 0
  n,        \* their number
  wanted    \* the byte that is looked for

VARIABLES
  loop,     \* the loop the search is in
  i,        \* the index of the next byte
  result,   \* the index that is returned
  busy      \* is the search under way?

\* The function is called.
Call ==
  /\ ~busy
  /\ loop' = 1
  /\ i' = 0
  /\ result' = NotFound
  /\ busy' = TRUE

\* Another vector of this loop lies inside the area.
Fits == i + Widths[loop] <= n

\* The bits that are set in the mask.
Hits == {b \in 0..Widths[loop] - 1 : bytes[i + b] = wanted}

\* Mutant: __builtin_clz for __builtin_ctz.
Highest(S) == CHOOSE b \in S : \A c \in S : c <= b

\* __builtin_ctz.
Lowest(S) == CHOOSE b \in S : \A c \in S : b <= c

Hit ==
  /\ busy
  /\ Fits
  /\ Hits # {}
  /\ result' = i + Lowest(Hits)
  /\ busy' = FALSE
  /\ UNCHANGED <<loop, i>>

\* Mutant: the index stays where it is.
StepNowhere == UNCHANGED i

StepOverVector == i' = i + Widths[loop]

Miss ==
  /\ busy
  /\ Fits
  /\ Hits = {}
  /\ StepOverVector
  /\ UNCHANGED <<loop, result, busy>>

NextLoop ==
  /\ busy
  /\ ~Fits
  /\ loop < Len(Widths)
  /\ loop' = loop + 1
  /\ UNCHANGED <<i, result, busy>>

ReturnNull ==
  /\ busy
  /\ ~Fits
  /\ loop = Len(Widths)
  /\ busy' = FALSE
  /\ UNCHANGED <<loop, i, result>>

Next == Hit \/ Miss \/ NextLoop \/ ReturnNull
------------------------------------------------------------------------------
(* Correctness *)

\* The search returns the first place of the byte, whichever loop finds it,
\* and nothing exactly if there is none (src/simd.c:13-102).
FindsFirst ==
  ~busy =>
    IF result = NotFound
      THEN \A j \in 0..n - 1 : bytes[j] # wanted
      ELSE /\ result \in 0..n - 1
           /\ bytes[result] = wanted
           /\ \A j \in 0..result - 1 : bytes[j] # wanted

\* The bytes before the index were all looked at, none skipped between two
\* loops, and the index stays in the area.
NoneSkipped ==
  /\ i \in 0..n
  /\ loop \in 1..Len(Widths)
  /\ \A j \in 0..i - 1 : bytes[j] # wanted
==============================================================================
