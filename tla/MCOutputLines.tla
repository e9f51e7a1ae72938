---------------------------- MODULE MCOutputLines ----------------------------
(***************************************************************************)
(* Three files with two lines, one and none, the last one too short for    *)
(* the pattern, searched by two threads; and standard input.               *)
(***************************************************************************)
EXTENDS OutputLines, TLC

CONSTANTS two, one, tiny, input

MCFile == {two, one, tiny, input}

\* Two files named twice; standard input.
MCWorkLists == {<<two, one, tiny, one, tiny>>, <<input>>}

MCLines ==
  (two :> <<[before |-> FALSE, after |-> TRUE], [before |-> TRUE, after |-> FALSE]>>)
  @@ (one :> <<[before |-> TRUE, after |-> TRUE]>>)
  @@ (tiny :> <<>>)
  @@ (input :> <<[before |-> FALSE, after |-> FALSE]>>)

MCShort == {tiny}

Plain ==
  [count_only |-> FALSE, files_with_matches |-> FALSE, files_without_match |-> FALSE,
   line_number |-> FALSE, color |-> FALSE, isatty |-> FALSE]

\* No option; -n; -c; -l; -L; colour on a terminal, with -n; -L with colour; -l and
\* colour elsewhere.
MCOptions ==
  { Plain,
    [Plain EXCEPT !.line_number = TRUE],
    [Plain EXCEPT !.count_only = TRUE],
    [Plain EXCEPT !.files_with_matches = TRUE],
    [Plain EXCEPT !.files_without_match = TRUE],
    [Plain EXCEPT !.color = TRUE, !.isatty = TRUE, !.line_number = TRUE],
    [Plain EXCEPT !.color = TRUE, !.isatty = TRUE, !.files_without_match = TRUE],
    [Plain EXCEPT !.color = TRUE, !.files_with_matches = TRUE] }
=============================================================================
