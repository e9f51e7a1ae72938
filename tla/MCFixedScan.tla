---------------------------- MODULE MCFixedScan ----------------------------
(***************************************************************************)
(* All texts of up to MaxLen bytes and all patterns of up to MaxNeedle     *)
(* over an ASCII letter, a byte above 127 and the newline.                 *)
(***************************************************************************)
EXTENDS FixedScan

CONSTANTS a, h, nl

MCByte == {a, h, nl}
MCHigh == {h}

Plain ==
  [count_only |-> FALSE, files_with_matches |-> FALSE, files_without_match |-> FALSE,
   line_number |-> FALSE, max_count |-> 0]

\* -c; -c -m 1; -l; -L; no option; -m 1; -n.
MCOptions ==
  { [Plain EXCEPT !.count_only = TRUE],
    [Plain EXCEPT !.count_only = TRUE, !.max_count = 1],
    [Plain EXCEPT !.files_with_matches = TRUE],
    [Plain EXCEPT !.files_without_match = TRUE],
    Plain,
    [Plain EXCEPT !.max_count = 1],
    [Plain EXCEPT !.line_number = TRUE] }
=============================================================================
