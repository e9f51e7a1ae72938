------------------------------ MODULE TaskQueue ------------------------------
(***************************************************************************)
(* What a client of the thread pool may rely on, without threads, locks    *)
(* or list pointers.  Tasks are numbered in the order in which they were   *)
(* submitted.  They start in that order, each is finished at most once,    *)
(* and the queue closes only when every submitted task is finished.        *)
(* WorkPool is shown to implement this specification.                      *)
(***************************************************************************)
EXTENDS Naturals

CONSTANT MaxItems   \* bound on the number of tasks submitted

VARIABLES
  submitted,  \* number of tasks submitted so far
  started,    \* tasks 1..started have been handed to a worker
  finished,   \* the set of tasks whose function has returned
  closed      \* has the queue been closed?

vars == <<submitted, started, finished, closed>>

Init ==
  /\ submitted = 0
  /\ started = 0
  /\ finished = {}
  /\ closed = FALSE

Submit ==
  /\ ~closed
  /\ submitted < MaxItems
  /\ submitted' = submitted + 1
  /\ UNCHANGED <<started, finished, closed>>

Start ==
  /\ started < submitted
  /\ started' = started + 1
  /\ UNCHANGED <<submitted, finished, closed>>

Finish(i) ==
  /\ i \in 1..started
  /\ i \notin finished
  /\ finished' = finished \cup {i}
  /\ UNCHANGED <<submitted, started, closed>>

Close ==
  /\ ~closed
  /\ finished = 1..submitted
  /\ closed' = TRUE
  /\ UNCHANGED <<submitted, started, finished>>

Next ==
  \/ Submit
  \/ Start
  \/ \E i \in 1..MaxItems : Finish(i)
  \/ Close

Spec == Init /\ [][Next]_vars
==============================================================================
