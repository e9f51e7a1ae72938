------------------------------ MODULE SearchRun ------------------------------
(***************************************************************************)
(* What a run of the program promises, without lists, work items, locks or *)
(* statistics.  Files are taken up one after the other; whoever is free    *)
(* opens the next and searches it, in any order.  Standard input is        *)
(* searched instead of files, never with them.  The program returns only   *)
(* when nothing waits and nobody searches, and its exit code tells whether *)
(* something that was searched has a match.  FgrepRun is shown to          *)
(* implement this specification.                                           *)
(***************************************************************************)
EXTENDS Integers

CONSTANTS
  Searcher,     \* who searches: main and the threads of the pool
  Files,        \* the files that exist
  Unreadable,   \* those that cannot be opened, or are empty
  Stdin,        \* standard input
  NoFile,       \* what somebody reads who searches nothing
  Matches       \* how many matches each file, and standard input, has

VARIABLES
  waiting,      \* the number of files taken up and not yet opened
  busy,         \* what each searcher is searching
  searched,     \* how often each file has been searched
  codes         \* the exit codes that the options can lead to, once it returned

vars == <<waiting, busy, searched, codes>>

Sources == Files \cup {Stdin}

Init ==
  /\ waiting = 0
  /\ busy = [s \in Searcher |-> NoFile]
  /\ searched = [f \in Sources |-> 0]
  /\ codes = {}

Running == codes = {}

AllIdle == \A s \in Searcher : busy[s] = NoFile

\* One more file is to be searched.
TakeUp ==
  /\ Running
  /\ searched[Stdin] = 0 /\ \A s \in Searcher : busy[s] # Stdin
  /\ waiting' = waiting + 1
  /\ UNCHANGED <<busy, searched, codes>>

\* A searcher opens one of the files that wait, or fails to.
Open(s) ==
  /\ Running
  /\ waiting > 0
  /\ busy[s] = NoFile
  /\ waiting' = waiting - 1
  /\ \E f \in (Files \ Unreadable) \cup {NoFile} : busy' = [busy EXCEPT ![s] = f]
  /\ UNCHANGED <<searched, codes>>

\* Standard input is taken up, and searched alone.
OpenStdin(s) ==
  /\ Running
  /\ waiting = 0
  /\ AllIdle
  /\ \A f \in Sources : searched[f] = 0
  /\ busy' = [busy EXCEPT ![s] = Stdin]
  /\ UNCHANGED <<waiting, searched, codes>>

Examine(s) ==
  /\ Running
  /\ busy[s] # NoFile
  /\ searched' = [searched EXCEPT ![busy[s]] = @ + 1]
  /\ busy' = [busy EXCEPT ![s] = NoFile]
  /\ UNCHANGED <<waiting, codes>>

\* Whatever the options (but without -v) the exit code is the same.
Return ==
  /\ Running
  /\ waiting = 0
  /\ AllIdle
  /\ codes' = {IF \E f \in Sources : searched[f] > 0 /\ Matches[f] > 0 THEN 0 ELSE 1}
  /\ UNCHANGED <<waiting, busy, searched>>

Next ==
  \/ TakeUp
  \/ \E s \in Searcher : Open(s) \/ OpenStdin(s) \/ Examine(s)
  \/ Return

Spec == Init /\ [][Next]_vars
==============================================================================
