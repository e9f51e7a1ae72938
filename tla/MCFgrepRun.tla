----------------------------- MODULE MCFgrepRun -----------------------------
(***************************************************************************)
(* Runs of the program on four files: one with two matches, one with none, *)
(* one that cannot be opened and one shorter than the pattern.             *)
(***************************************************************************)
EXTENDS FgrepRun

CONSTANTS two, none, locked, tiny, input   \* the files, and standard input

MCFiles == {two, none, locked, tiny}

\* No argument; a directory; a directory and a file; three arguments, of which
\* one is an empty directory and two name the same file.
MCArgLists ==
  { <<>>,
    << <<two, none, tiny>> >>,
    << <<none, two>>, <<locked>> >>,
    << <<two>>, << >>, <<two>> >> }

MCMatches == (two :> 2) @@ (none :> 0) @@ (locked :> 1) @@ (tiny :> 0) @@ (input :> 1)

MCUnreadable == {locked}
MCShort == {tiny}
=============================================================================
