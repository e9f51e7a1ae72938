------------------------------ MODULE WorkPool ------------------------------
(***************************************************************************)
(* The thread pool of src/threadpool.c: a work queue shared by all worker  *)
(* threads (a linked list under work_mutex, with a condition variable), a  *)
(* client thread that calls create, submit, wait and destroy, and the      *)
(* workers, which take items and run them until the pool is shut down.     *)
(*                                                                         *)
(* Each action is one step between two points at which another thread can *)
(* get in: acquiring work_mutex is an action, the critical section that    *)
(* ends by releasing it (or by parking in pthread_cond_wait) is another.   *)
(* A work item is known by the order in which it was allocated, and the    *)
(* NULL pointer is 0.                                                      *)
(***************************************************************************)
EXTENDS Integers

CONSTANTS
  NumThreads,  \* the num_threads argument of fgrep_threadpool_create
  MaxItems     \* bound on the number of items the client submits

ASSUME PoolAssumption ==
  /\ NumThreads \in Nat \ {0}
  /\ MaxItems \in Nat

VARIABLES
  workHead,    \* the static work_head
  workTail,    \* the static work_tail
  next,        \* the next field of every work item
  mem,         \* whether a work item is not yet allocated, live or freed
  allocated,   \* number of work items allocated so far
  mutex,       \* the thread that holds work_mutex, if any
  shutdown,    \* pool->shutdown
  active,      \* pool->active, the number of threads created
  wpc,         \* where each worker is
  held,        \* the local variable item of each worker
  cpc,         \* where the client is, inside which pool function
  joined,      \* the index of destroy's join loop
  created,     \* what fgrep_threadpool_create returned, or will return
  ran          \* history: how many times the function of an item has run

queueVars == <<workHead, workTail, next, mem, allocated>>
syncVars == <<mutex, shutdown>>
workerVars == <<wpc, held>>
clientVars == <<cpc, joined, created, active>>
vars == <<queueVars, syncVars, workerVars, clientVars, ran>>

Worker == 1..NumThreads
Item == 1..MaxItems
NULL == 0
Client == 0       \* the client as a holder of work_mutex
NoThread == -1    \* work_mutex is free

Statuses == {"FGREP_OK", "FGREP_ERR_NOMEM", "FGREP_ERR_IO"}

\* Places where a worker is between two steps: not created, about to lock
\* work_mutex, holding it, parked on the condition variable, inside
\* item->fn, about to free the item, returned from worker_thread.
WorkerPlaces == {"none", "lock", "test", "parked", "run", "free", "exited"}

\* Places where the client is.  "idle" is outside the pool's functions.
ClientPlaces ==
  {"calloc", "spawn", "idle", "submit_lock", "submit", "wait_lock", "wait",
   "destroy_lock", "destroy", "join", "gone", "crashed"}

ListTypeOK ==
  /\ workHead \in Item \cup {NULL}
  /\ workTail \in Item \cup {NULL}
  /\ next \in [Item -> Item \cup {NULL}]
  /\ mem \in [Item -> {"none", "live", "freed"}]
  /\ allocated \in 0..MaxItems
  /\ ran \in [Item -> Nat]

ThreadTypeOK ==
  /\ mutex \in Worker \cup {Client, NoThread}
  /\ active \in 0..NumThreads
  /\ wpc \in [Worker -> WorkerPlaces]
  /\ held \in [Worker -> Item \cup {NULL}]
  /\ cpc \in ClientPlaces
  /\ joined \in 0..NumThreads
  /\ created \in Statuses

TypeOK ==
  /\ ListTypeOK
  /\ ThreadTypeOK
  /\ shutdown \in BOOLEAN

Init ==
  /\ workHead = NULL
  /\ workTail = NULL
  /\ next = [i \in Item |-> NULL]
  /\ mem = [i \in Item |-> "none"]
  /\ allocated = 0
  /\ mutex = NoThread
  /\ shutdown = FALSE
  /\ active = 0
  /\ wpc = [w \in Worker |-> "none"]
  /\ held = [w \in Worker |-> NULL]
  /\ cpc = "calloc"
  /\ joined = 0
  /\ created = "FGREP_OK"
  /\ ran = [i \in Item |-> 0]

Goto(w, from, to) ==
  /\ wpc[w] = from
  /\ wpc' = [wpc EXCEPT ![w] = to]

Call(from, to) ==
  /\ cpc = from
  /\ cpc' = to
------------------------------------------------------------------------------
(* fgrep_threadpool_create *)

\* The pool and its thread array are allocated.
CreateAlloc ==
  /\ Call("calloc", "spawn")
  /\ UNCHANGED <<queueVars, syncVars, workerVars, joined, created, active, ran>>

\* One of the two allocations fails: nothing has been started yet.
CreateNoMemory ==
  /\ Call("calloc", "gone")
  /\ created' = "FGREP_ERR_NOMEM"
  /\ UNCHANGED <<queueVars, syncVars, workerVars, joined, active, ran>>

\* One turn of the creation loop: the new thread may run at once.
CreateThread ==
  /\ cpc = "spawn"
  /\ active < NumThreads
  /\ Goto(active + 1, "none", "lock")
  /\ active' = active + 1
  /\ UNCHANGED <<queueVars, syncVars, held, cpc, joined, created, ran>>

\* The thread argument cannot be allocated, or pthread_create fails: the
\* threads created so far are torn down by fgrep_threadpool_destroy.
CreateFails ==
  /\ active < NumThreads
  /\ Call("spawn", "destroy_lock")
  /\ created' \in {"FGREP_ERR_NOMEM", "FGREP_ERR_IO"}
  /\ UNCHANGED <<queueVars, syncVars, workerVars, joined, active, ran>>

CreateReturn ==
  /\ active = NumThreads
  /\ Call("spawn", "idle")
  /\ UNCHANGED <<queueVars, syncVars, workerVars, joined, created, active, ran>>
------------------------------------------------------------------------------
(* fgrep_threadpool_submit *)

\* The client calls submit and the new item is allocated and filled in.
SubmitAlloc ==
  /\ allocated < MaxItems
  /\ Call("idle", "submit_lock")
  /\ allocated' = allocated + 1
  /\ mem' = [mem EXCEPT ![allocated + 1] = "live"]
  /\ next' = [next EXCEPT ![allocated + 1] = NULL]
  /\ UNCHANGED <<workHead, workTail, syncVars, workerVars, joined, created,
                 active, ran>>

\* The client acquires work_mutex, in whichever function it is.
ClientLock(from, to) ==
  /\ mutex = NoThread
  /\ Call(from, to)
  /\ mutex' = Client
  /\ UNCHANGED <<queueVars, shutdown, workerVars, joined, created, active, ran>>

SubmitLock == ClientLock("submit_lock", "submit")

\* Mutant: the signal is forgotten.
SignalNobody == UNCHANGED wpc

\* pthread_cond_signal: one parked worker, if there is any, goes on to
\* reacquire work_mutex.
SignalOne ==
  \/ /\ \A w \in Worker : wpc[w] # "parked"
     /\ UNCHANGED wpc
  \/ \E w \in Worker : Goto(w, "parked", "lock")

\* The item goes behind the last one, a worker is signalled, work_mutex is
\* released.
SubmitLink ==
  /\ Call("submit", "idle")
  /\ IF workTail # NULL
       THEN /\ next' = [next EXCEPT ![workTail] = allocated]
            /\ UNCHANGED workHead
       ELSE /\ workHead' = allocated
            /\ UNCHANGED next
  /\ workTail' = allocated
  /\ SignalOne
  /\ mutex' = NoThread
  /\ UNCHANGED <<mem, allocated, shutdown, held, joined, created, active, ran>>
------------------------------------------------------------------------------
(* fgrep_threadpool_wait *)

WaitCall ==
  /\ Call("idle", "wait_lock")
  /\ UNCHANGED <<queueVars, syncVars, workerVars, joined, created, active, ran>>

WaitLock == ClientLock("wait_lock", "wait")

\* Mutant: an early break leaves work_mutex locked.
WaitPollKeepsLock ==
  /\ Call("wait", IF workHead = NULL THEN "idle" ELSE "wait_lock")
  /\ UNCHANGED <<queueVars, syncVars, workerVars, joined, created, active, ran>>

\* The poll: return when the list is empty, else sleep and look again.
WaitPoll ==
  /\ Call("wait", IF workHead = NULL THEN "idle" ELSE "wait_lock")
  /\ mutex' = NoThread
  /\ UNCHANGED <<queueVars, shutdown, workerVars, joined, created, active, ran>>
------------------------------------------------------------------------------
(* fgrep_threadpool_destroy *)

DestroyCall ==
  /\ Call("idle", "destroy_lock")
  /\ UNCHANGED <<queueVars, syncVars, workerVars, joined, created, active, ran>>

DestroyLock == ClientLock("destroy_lock", "destroy")

\* pthread_cond_broadcast.
WakeAll ==
  wpc' = [w \in Worker |-> IF wpc[w] = "parked" THEN "lock" ELSE wpc[w]]

\* Shutdown is set and every parked worker is woken, under work_mutex.
DestroyShutdown ==
  /\ Call("destroy", "join")
  /\ shutdown' = TRUE
  /\ WakeAll
  /\ mutex' = NoThread
  /\ UNCHANGED <<queueVars, held, joined, created, active, ran>>

\* Mutant: the thread is detached instead of joined.
JoinableDetached(w) == wpc[w] # "none"

\* pthread_join of a thread returns when that thread has.
Joinable(w) == wpc[w] = "exited"

DestroyJoin ==
  /\ cpc = "join"
  /\ joined < active
  /\ Joinable(joined + 1)
  /\ joined' = joined + 1
  /\ UNCHANGED <<queueVars, syncVars, workerVars, cpc, created, active, ran>>

\* Mutant: an inclusive bound.
JoinsLeftInclusive == joined <= NumThreads

JoinsLeft == joined < NumThreads

\* The loop runs to num_threads, not to active: after a failed creation it
\* passes pthread_join a thread that never existed, which is undefined.
\* Either the call reports an error, which is ignored, or the process dies.
DestroyJoinMissing ==
  /\ cpc = "join"
  /\ active <= joined
  /\ JoinsLeft
  /\ \/ /\ joined' = joined + 1
        /\ UNCHANGED cpc
     \/ /\ cpc' = "crashed"
        /\ UNCHANGED joined
  /\ UNCHANGED <<queueVars, syncVars, workerVars, created, active, ran>>

\* The items still in the list: a list grows at its tail only, in the order
\* of allocation, so its items are consecutive.
Listed == IF workHead = NULL THEN {} ELSE workHead..workTail

\* Everything is joined.  Items left in the list are freed without having
\* run, the list is reset and the pool freed.
DestroyReturn ==
  /\ joined = NumThreads
  /\ Call("join", "gone")
  /\ mem' = [i \in Item |-> IF i \in Listed THEN "freed" ELSE mem[i]]
  /\ workHead' = NULL
  /\ workTail' = NULL
  /\ UNCHANGED <<next, allocated, syncVars, workerVars, joined, created,
                 active, ran>>
------------------------------------------------------------------------------
(* worker_thread *)

\* The process has not died in an undefined join.
Alive == cpc # "crashed"

\* The worker acquires work_mutex: at the top of its loop, or before
\* pthread_cond_wait returns.  Either way it evaluates the loop condition next.
WorkerLock(w) ==
  /\ Alive
  /\ mutex = NoThread
  /\ Goto(w, "lock", "test")
  /\ mutex' = w
  /\ UNCHANGED <<queueVars, shutdown, held, clientVars, ran>>

\* Nothing to do: pthread_cond_wait releases work_mutex and parks, atomically.
WorkerPark(w) ==
  /\ Alive
  /\ workHead = NULL
  /\ ~shutdown
  /\ Goto(w, "test", "parked")
  /\ mutex' = NoThread
  /\ UNCHANGED <<queueVars, shutdown, held, clientVars, ran>>

\* pthread_cond_wait may return without a signal.
SpuriousWakeup(w) ==
  /\ Alive
  /\ Goto(w, "parked", "lock")
  /\ UNCHANGED <<queueVars, syncVars, held, clientVars, ran>>

\* Mutant: the test of line 31 forgets the list.
MayExitUndrained == shutdown

MayExit == shutdown /\ workHead = NULL

\* Shut down and nothing left: the thread returns.
WorkerExit(w) ==
  /\ Alive
  /\ MayExit
  /\ Goto(w, "test", "exited")
  /\ mutex' = NoThread
  /\ UNCHANGED <<queueVars, shutdown, held, clientVars, ran>>

\* Mutant: the last item leaves a dangling tail.
UnlinkKeepingTail ==
  /\ workHead' = next[workHead]
  /\ UNCHANGED workTail

\* Mutant: the item stays at the head.
UnlinkNothing == UNCHANGED <<workHead, workTail>>

Unlink ==
  /\ workHead' = next[workHead]
  /\ workTail' = IF next[workHead] = NULL THEN NULL ELSE workTail

\* The first item is unlinked and work_mutex released.
WorkerTake(w) ==
  /\ Alive
  /\ workHead # NULL
  /\ Goto(w, "test", "run")
  /\ held' = [held EXCEPT ![w] = workHead]
  /\ Unlink
  /\ mutex' = NoThread
  /\ UNCHANGED <<next, mem, allocated, shutdown, clientVars, ran>>

\* item->fn(item->arg) returns.
WorkerRan(w) ==
  /\ Alive
  /\ Goto(w, "run", "free")
  /\ ran' = [ran EXCEPT ![held[w]] = @ + 1]
  /\ UNCHANGED <<queueVars, syncVars, held, clientVars>>

WorkerFree(w) ==
  /\ Alive
  /\ Goto(w, "free", "lock")
  /\ mem' = [mem EXCEPT ![held[w]] = "freed"]
  /\ held' = [held EXCEPT ![w] = NULL]
  /\ UNCHANGED <<workHead, workTail, next, allocated, syncVars, clientVars, ran>>
------------------------------------------------------------------------------
Create ==
  CreateAlloc \/ CreateNoMemory \/ CreateThread \/ CreateFails \/ CreateReturn

Submit == SubmitAlloc \/ SubmitLock \/ SubmitLink

Wait == WaitCall \/ WaitLock \/ WaitPoll

Destroy ==
  \/ DestroyCall \/ DestroyLock \/ DestroyShutdown
  \/ DestroyJoin \/ DestroyJoinMissing \/ DestroyReturn

Work(w) ==
  \/ WorkerLock(w) \/ WorkerPark(w) \/ SpuriousWakeup(w) \/ WorkerExit(w)
  \/ WorkerTake(w) \/ WorkerRan(w) \/ WorkerFree(w)

\* The pool is gone or the process is: nothing more happens.
Stopped ==
  /\ cpc \in {"gone", "crashed"}
  /\ UNCHANGED vars

Next ==
  \/ Create \/ Submit \/ Wait \/ Destroy
  \/ \E w \in Worker : Work(w)
  \/ Stopped

Spec == Init /\ [][Next]_vars

(***************************************************************************)
(* Fairness.  A thread that can take its next step takes it.  A thread     *)
(* that waits for work_mutex gets it if it becomes free again and again:   *)
(* every critical section is a few instructions, and the polling client    *)
(* sleeps between two of its own.  The client need not make a call, and a  *)
(* parked worker need not wake by itself.                                  *)
(***************************************************************************)
WorkerFairness(w) ==
  /\ SF_vars(WorkerLock(w))
  /\ WF_vars(WorkerPark(w) \/ WorkerExit(w) \/ WorkerTake(w))
  /\ WF_vars(WorkerRan(w))
  /\ WF_vars(WorkerFree(w))

ClientFairness ==
  /\ SF_vars(SubmitLock \/ WaitLock \/ DestroyLock)
  /\ WF_vars(Create)
  /\ WF_vars(SubmitLink)
  /\ WF_vars(WaitPoll)
  /\ WF_vars(DestroyShutdown \/ DestroyJoin \/ DestroyJoinMissing \/ DestroyReturn)

FairSpec ==
  /\ Spec
  /\ ClientFairness
  /\ \A w \in Worker : WorkerFairness(w)
------------------------------------------------------------------------------
(* Correctness *)

\* Items handed to the list so far: all that were allocated, but for the one
\* that submit has not linked yet.
Linked ==
  IF cpc \in {"submit_lock", "submit"} THEN allocated - 1 ELSE allocated

\* Items that have left the list, taken by a worker.
Dispatched == IF workHead = NULL THEN Linked ELSE workHead - 1

\* Worker w has taken item i and not freed it yet.
Holds(w, i) == wpc[w] \in {"run", "free"} /\ held[w] = i

\* Workers that will look at the list again before they park.
Awake == {w \in Worker : wpc[w] \in {"lock", "test", "run", "free"}}

\* The pointers describe one list, whatever the interleaving: head and tail
\* are both NULL or neither is, the next pointers lead from the head to the
\* tail and end there, and the list holds exactly the items that are linked
\* and not yet dispatched, in the order of submission, none of them freed
\* (lines 36-40 and 113-116 of threadpool.c).
ListWellFormed ==
  /\ workHead = NULL <=> workTail = NULL
  /\ workHead # NULL => workTail = Linked /\ workHead <= workTail
  /\ \A i \in Listed :
       /\ mem[i] = "live"
       /\ next[i] = IF i = workTail THEN NULL ELSE i + 1

\* Item i is still in the list and has never run; or it is with exactly one
\* worker; or it has run exactly once and is freed.
InOnePlace(i) ==
  \/ i \in Listed /\ ran[i] = 0 /\ \A w \in Worker : ~Holds(w, i)
  \/ /\ i \notin Listed
     /\ mem[i] = "live"
     /\ \E w \in Worker :
          /\ Holds(w, i)
          /\ ran[i] = IF wpc[w] = "run" THEN 0 ELSE 1
          /\ \A v \in Worker : Holds(v, i) => v = w
  \/ /\ i \notin Listed
     /\ mem[i] = "freed"
     /\ ran[i] = 1
     /\ \A w \in Worker : ~Holds(w, i)

\* Every submitted item is in exactly one place.  No item is lost, run twice
\* or freed while a worker uses it (lines 36-46).
ExactlyOnePlace == \A i \in 1..Linked : InOnePlace(i)

\* Signalling one worker per submit never strands work: while the list has
\* items, some worker is awake and will look at it before it parks or exits
\* (the signal of line 117 against the wait loop of lines 27-29).
NoStrandedWork == workHead # NULL => Awake # {}

\* When the pool is freed, every thread that was created has returned, so
\* none can touch it, and every submitted item has run once and been freed:
\* the loop over leftovers (lines 91-96) discards nothing.
DestroyCompletes ==
  cpc = "gone" =>
    /\ \A w \in Worker : wpc[w] \in {"none", "exited"}
    /\ \A i \in 1..allocated : ran[i] = 1 /\ mem[i] = "freed"

\* Worker w has a step that waits for no other thread and for no spurious wakeup.
CanGoOn(w) ==
  \/ wpc[w] \in {"test", "run", "free"}
  \/ wpc[w] = "lock" /\ mutex = NoThread

\* So has the client, inside a call.
CallCanGoOn ==
  \/ cpc \in {"calloc", "spawn", "submit", "wait", "destroy"}
  \/ cpc \in {"submit_lock", "wait_lock", "destroy_lock"} /\ mutex = NoThread
  \/ cpc = "join" /\ (active <= joined \/ Joinable(joined + 1))

\* While the client is inside a call, it or some worker can go on: nobody who
\* holds work_mutex waits for anything else, and a thread that is joined was
\* woken (lines 27-29, 83-89), without the help of a spurious wakeup.
NobodyStuck ==
  cpc \notin {"idle", "gone", "crashed"} => CallCanGoOn \/ \E w \in Worker : CanGoOn(w)

\* Every submitted item is run eventually, whatever the client does next.
EveryItemRuns == \A i \in Item : i <= Linked ~> ran[i] > 0

\* Every call returns: the polling loop of wait ends, no item staying in the
\* list for ever, and so does destroy, no worker sleeping through the shutdown,
\* however the broadcast falls between a worker's test and its wait.  So do
\* create, with a pool or without, and submit.  (Destroy may end in the undefined
\* join of DestroyJoinMissing when create failed.)
CallsReturn ==
  /\ cpc \in {"calloc", "spawn"} ~> cpc \in {"idle", "gone", "crashed"}
  /\ cpc = "submit_lock" ~> cpc = "idle"
  /\ cpc = "wait_lock" ~> cpc = "idle"
  /\ cpc = "destroy_lock" ~> cpc \in {"gone", "crashed"}

\* The abstract queue this pool implements.
Queue == INSTANCE TaskQueue WITH
  submitted <- Linked,
  started <- Dispatched,
  finished <- {i \in Item : ran[i] > 0},
  closed <- (cpc = "gone")

\* Every step of the pool is a step of the abstract queue or changes nothing
\* that a client can observe.
ImplementsQueue == Queue!Spec

\* What the message at src/main.c:149 supposes: when threads cannot be
\* created, create reports it and the client goes on.
CreateFailureIsReported == cpc # "crashed"
==============================================================================
