----------------------------- MODULE MCLineScan -----------------------------
(***************************************************************************)
(* All texts of up to MaxLen bytes over two letters, the byte 0 and the    *)
(* newline; a regular expression that accepts the lines with the letter a, *)
(* and three fixed strings, the empty one among them.                      *)
(***************************************************************************)
EXTENDS LineScan

CONSTANTS a, b, zero, nl

MCByte == {a, b, zero, nl}
MCMatching == {s \in UNION {[1..m -> MCByte \ {nl}] : m \in 0..MaxLen} : \E k \in DOMAIN s : s[k] = a}
MCNeedles == {<<a, b>>, <<a, a, b>>, << >>}
MCWidths == <<3, 2, 1>>

Plain ==
  [count_only |-> FALSE, files_with_matches |-> FALSE, files_without_match |-> FALSE,
   invert_match |-> FALSE, max_count |-> 0]

\* No option; -v; -m 1; -c; -c -m 1; -l; -L.
MCOptions ==
  { Plain,
    [Plain EXCEPT !.invert_match = TRUE],
    [Plain EXCEPT !.max_count = 1],
    [Plain EXCEPT !.count_only = TRUE],
    [Plain EXCEPT !.count_only = TRUE, !.max_count = 1],
    [Plain EXCEPT !.files_with_matches = TRUE],
    [Plain EXCEPT !.files_without_match = TRUE] }
=============================================================================
