--------------------------------- MODULE Bmh ---------------------------------
(***************************************************************************)
(* The counting search of src/bmh_simd.c, a function of its arguments: a   *)
(* text and a pattern, indexed from 0, and their lengths.  The loop for a  *)
(* pattern of one byte is the general one with nothing left to verify.     *)
(***************************************************************************)
EXTENDS Integers, FiniteSetsExt

\* memchr: the places from p on at which the byte c is.
Places(text, text_len, p, c) == {q \in p..text_len - 1 : text[q] = c}

\* The pattern ends at q: its first byte and those inside agree, too.
EndsAt(text, q, pat, pat_len) ==
  /\ text[q - pat_len + 1] = pat[0]
  /\ \A j \in 1..pat_len - 2 : text[q - pat_len + 1 + j] = pat[j]

\* Mutant: the search goes on behind the whole pattern.
NextPlaceBehind(q, pat_len) == q + pat_len

NextPlace(q, pat_len) == q + 1

bmh_search(text, text_len, pat, pat_len) ==
  LET last == pat[pat_len - 1]
      count[p \in 0..text_len + pat_len] ==
        LET places == Places(text, text_len, p, last)
            q == Min(places)
        IN  IF places = {}
              THEN 0
              ELSE (IF EndsAt(text, q, pat, pat_len) THEN 1 ELSE 0)
                   + count[NextPlace(q, pat_len)]
  IN  IF pat_len = 0 \/ text_len < pat_len THEN 0 ELSE count[pat_len - 1]
==============================================================================
