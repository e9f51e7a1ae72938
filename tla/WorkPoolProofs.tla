--------------------------- MODULE WorkPoolProofs ---------------------------
(* Theorems about the thread pool, for every number of threads and items. *)
EXTENDS WorkPool, TLAPS
------------------------------------------------------------------------------
(* The inductive invariant behind the safety properties *)

\* work_mutex is held exactly by the thread inside a critical section.
MutexInv ==
  /\ \A w \in Worker : mutex = w <=> wpc[w] = "test"
  /\ mutex = Client <=> cpc \in {"submit", "wait", "destroy"}

\* An item that submit has not linked yet is untouched.
FreshInv ==
  /\ \A i \in Item : i > allocated => ran[i] = 0
  /\ cpc \in {"submit_lock", "submit"} =>
       /\ allocated # 0
       /\ mem[allocated] = "live"
       /\ next[allocated] = NULL
       /\ ran[allocated] = 0

\* A worker holds an item exactly while it runs or frees it.
HeldInv ==
  \A w \in Worker :
    IF wpc[w] \in {"run", "free"} THEN held[w] \in 1..Dispatched
                                  ELSE held[w] = NULL

ItemInv == FreshInv /\ HeldInv

\* What the client's progress says about the threads.
PhaseInv ==
  /\ cpc = "calloc" => active = 0
  /\ cpc = "join" => shutdown
  /\ joined # 0 => cpc \in {"join", "gone", "crashed"}
  /\ shutdown => cpc \in {"join", "gone", "crashed"}
  /\ cpc \in {"idle", "submit_lock", "submit", "wait_lock", "wait"} =>
       active = NumThreads
  /\ active < NumThreads => allocated = 0
  /\ \A w \in Worker : wpc[w] = "none" <=> w > active
  /\ \A w \in Worker : wpc[w] = "exited" => shutdown /\ workHead = NULL
  /\ shutdown => \A w \in Worker : wpc[w] # "parked"
  /\ \A w \in Worker : w <= joined => wpc[w] \in {"none", "exited"}

IInv ==
  /\ TypeOK
  /\ MutexInv
  /\ ItemInv
  /\ PhaseInv
  /\ ListWellFormed
  /\ ExactlyOnePlace
  /\ NoStrandedWork
  /\ DestroyCompletes
------------------------------------------------------------------------------
\* A step of the pool keeps the types of the list and of the threads.
LEMMA TypesKept ==
  ASSUME TypeOK, [Next]_vars
  PROVE  ListTypeOK' /\ ThreadTypeOK'
<1> USE PoolAssumption DEF TypeOK, ListTypeOK, ThreadTypeOK, Worker, Item, NULL,
      Client, NoThread, Statuses, WorkerPlaces, ClientPlaces, queueVars, syncVars,
      workerVars, clientVars, vars, Call, Goto, ClientLock
<1>1. CASE CreateAlloc
  BY <1>1 DEF CreateAlloc
<1>2. CASE CreateNoMemory
  BY <1>2 DEF CreateNoMemory
<1>3. CASE CreateThread
  BY <1>3 DEF CreateThread
<1>4. CASE CreateFails
  BY <1>4 DEF CreateFails
<1>5. CASE CreateReturn
  BY <1>5 DEF CreateReturn
<1>6. CASE SubmitAlloc
  BY <1>6 DEF SubmitAlloc
<1>7. CASE SubmitLock
  BY <1>7 DEF SubmitLock
<1>8. CASE SubmitLink
  <2>1. workHead' \in Item \cup {NULL} /\ next' \in [Item -> Item \cup {NULL}]
    BY <1>8 DEF SubmitLink
  <2>2. wpc' \in [Worker -> WorkerPlaces]
    BY <1>8 DEF SubmitLink, SignalOne
  <2> QED
    BY <1>8, <2>1, <2>2 DEF SubmitLink
<1>9. CASE WaitCall
  BY <1>9 DEF WaitCall
<1>10. CASE WaitLock
  BY <1>10 DEF WaitLock
<1>11. CASE WaitPoll
  BY <1>11 DEF WaitPoll
<1>12. CASE DestroyCall
  BY <1>12 DEF DestroyCall
<1>13. CASE DestroyLock
  BY <1>13 DEF DestroyLock
<1>14. CASE DestroyShutdown
  BY <1>14 DEF DestroyShutdown, WakeAll
<1>15. CASE DestroyJoin
  BY <1>15 DEF DestroyJoin, Joinable
<1>16. CASE DestroyJoinMissing
  BY <1>16 DEF DestroyJoinMissing, JoinsLeft
<1>17. CASE DestroyReturn
  BY <1>17 DEF DestroyReturn
<1>18. ASSUME NEW w \in Worker, WorkerLock(w) PROVE ListTypeOK' /\ ThreadTypeOK'
  BY <1>18 DEF WorkerLock
<1>19. ASSUME NEW w \in Worker, WorkerPark(w) PROVE ListTypeOK' /\ ThreadTypeOK'
  BY <1>19 DEF WorkerPark
<1>20. ASSUME NEW w \in Worker, SpuriousWakeup(w) PROVE ListTypeOK' /\ ThreadTypeOK'
  BY <1>20 DEF SpuriousWakeup
<1>21. ASSUME NEW w \in Worker, WorkerExit(w) PROVE ListTypeOK' /\ ThreadTypeOK'
  BY <1>21 DEF WorkerExit, MayExit
<1>22. ASSUME NEW w \in Worker, WorkerTake(w) PROVE ListTypeOK' /\ ThreadTypeOK'
  BY <1>22 DEF WorkerTake, Unlink
<1>23. ASSUME NEW w \in Worker, WorkerRan(w) PROVE ListTypeOK' /\ ThreadTypeOK'
  <2>1. ran' \in [Item -> Nat]
    <3>1. ran' = [i \in Item |-> IF i = held[w] THEN ran[i] + 1 ELSE ran[i]]
      BY <1>23 DEF WorkerRan
    <3> QED
      BY <3>1
  <2>2. wpc' \in [Worker -> WorkerPlaces]
    BY <1>23 DEF WorkerRan
  <2> QED
    BY <1>23, <2>1, <2>2 DEF WorkerRan
<1>24. ASSUME NEW w \in Worker, WorkerFree(w) PROVE ListTypeOK' /\ ThreadTypeOK'
  BY <1>24 DEF WorkerFree
<1>25. CASE UNCHANGED vars
  BY <1>25
<1> QED
  BY <1>1, <1>2, <1>3, <1>4, <1>5, <1>6, <1>7, <1>8, <1>9, <1>10, <1>11, <1>12, <1>13, <1>14, <1>15, <1>16, <1>17, <1>18, <1>19, <1>20, <1>21, <1>22, <1>23, <1>24, <1>25
   DEF Next, Create, Submit, Wait, Destroy, Work, Stopped
\* shutdown stays a Boolean: only destroy assigns it.
LEMMA ShutdownKept ==
  ASSUME shutdown \in BOOLEAN, [Next]_vars
  PROVE  shutdown' \in BOOLEAN
<1>1. shutdown' = shutdown \/ shutdown' = TRUE
  BY Zenon DEF Next, Create, Submit, Wait, Destroy, Work, Stopped, CreateAlloc,
     CreateNoMemory, CreateThread, CreateFails, CreateReturn, SubmitAlloc,
     SubmitLock, SubmitLink, WaitCall, WaitLock, WaitPoll, DestroyCall,
     DestroyLock, DestroyShutdown, DestroyJoin, DestroyJoinMissing,
     DestroyReturn, WorkerLock, WorkerPark, SpuriousWakeup, WorkerExit,
     WorkerTake, WorkerRan, WorkerFree, ClientLock, syncVars, vars
<1> QED
  BY <1>1, Zenon

LEMMA InitType == Init => TypeOK
<1> SUFFICES ASSUME Init PROVE TypeOK
  OBVIOUS
<1> USE PoolAssumption DEF Init, Worker, Item, NULL, Client, NoThread, Statuses,
      WorkerPlaces, ClientPlaces
<1>1. ListTypeOK
  BY DEF ListTypeOK
<1>2. ThreadTypeOK
  BY DEF ThreadTypeOK
<1>3. shutdown \in BOOLEAN
  BY Zenon
<1> QED
  BY <1>1, <1>2, <1>3 DEF TypeOK

\* Every variable of the pool keeps its type, for any number of threads and
\* items: no list pointer, join index or thread count leaves its range.
THEOREM TypeCorrect == Spec => []TypeOK
<1>1. TypeOK /\ [Next]_vars => TypeOK'
  BY TypesKept, ShutdownKept DEF TypeOK
<1> QED
  BY InitType, <1>1, PTL DEF Spec
\* A step of the pool keeps the critical sections exclusive.
LEMMA MutexKept ==
  ASSUME TypeOK, MutexInv, [Next]_vars
  PROVE  MutexInv'
<1> USE PoolAssumption DEF TypeOK, ListTypeOK, ThreadTypeOK, Worker, Item, NULL, Client,
      NoThread, Statuses, WorkerPlaces, ClientPlaces, queueVars, syncVars,
      workerVars, clientVars, vars, Call, Goto, ClientLock, MutexInv
<1>1. CASE CreateAlloc
  BY <1>1 DEF CreateAlloc
<1>2. CASE CreateNoMemory
  BY <1>2 DEF CreateNoMemory
<1>3. CASE CreateThread
  BY <1>3 DEF CreateThread
<1>4. CASE CreateFails
  BY <1>4 DEF CreateFails
<1>5. CASE CreateReturn
  BY <1>5 DEF CreateReturn
<1>6. CASE SubmitAlloc
  BY <1>6 DEF SubmitAlloc
<1>7. CASE SubmitLock
  BY <1>7 DEF SubmitLock
<1>8. CASE SubmitLink
  BY <1>8 DEF SubmitLink, SignalOne
<1>9. CASE WaitCall
  BY <1>9 DEF WaitCall
<1>10. CASE WaitLock
  BY <1>10 DEF WaitLock
<1>11. CASE WaitPoll
  BY <1>11 DEF WaitPoll
<1>12. CASE DestroyCall
  BY <1>12 DEF DestroyCall
<1>13. CASE DestroyLock
  BY <1>13 DEF DestroyLock
<1>14. CASE DestroyShutdown
  BY <1>14 DEF DestroyShutdown, WakeAll
<1>15. CASE DestroyJoin
  BY <1>15 DEF DestroyJoin, Joinable
<1>16. CASE DestroyJoinMissing
  BY <1>16 DEF DestroyJoinMissing, JoinsLeft
<1>17. CASE DestroyReturn
  BY <1>17 DEF DestroyReturn
<1>18. ASSUME NEW w \in Worker, WorkerLock(w) PROVE MutexInv'
  BY <1>18 DEF WorkerLock
<1>19. ASSUME NEW w \in Worker, WorkerPark(w) PROVE MutexInv'
  BY <1>19 DEF WorkerPark
<1>20. ASSUME NEW w \in Worker, SpuriousWakeup(w) PROVE MutexInv'
  BY <1>20 DEF SpuriousWakeup
<1>21. ASSUME NEW w \in Worker, WorkerExit(w) PROVE MutexInv'
  BY <1>21 DEF WorkerExit, MayExit
<1>22. ASSUME NEW w \in Worker, WorkerTake(w) PROVE MutexInv'
  BY <1>22 DEF WorkerTake, Unlink
<1>23. ASSUME NEW w \in Worker, WorkerRan(w) PROVE MutexInv'
  BY <1>23 DEF WorkerRan
<1>24. ASSUME NEW w \in Worker, WorkerFree(w) PROVE MutexInv'
  BY <1>24 DEF WorkerFree
<1>25. CASE UNCHANGED vars
  BY <1>25
<1> QED
  BY <1>1, <1>2, <1>3, <1>4, <1>5, <1>6, <1>7, <1>8, <1>9, <1>10, <1>11, <1>12, <1>13, <1>14, <1>15, <1>16, <1>17, <1>18, <1>19, <1>20, <1>21, <1>22, <1>23, <1>24, <1>25
   DEF Next, Create, Submit, Wait, Destroy, Work, Stopped

\* A step of the pool keeps the phases of the client.
LEMMA PhaseKept ==
  ASSUME TypeOK, MutexInv, PhaseInv, [Next]_vars
  PROVE  PhaseInv'
<1> USE PoolAssumption DEF TypeOK, ListTypeOK, ThreadTypeOK, Worker, Item, NULL, Client,
      NoThread, Statuses, WorkerPlaces, ClientPlaces, queueVars, syncVars,
      workerVars, clientVars, vars, Call, Goto, ClientLock,
      MutexInv, PhaseInv
<1>1. CASE CreateAlloc
  BY <1>1 DEF CreateAlloc
<1>2. CASE CreateNoMemory
  BY <1>2 DEF CreateNoMemory
<1>3. CASE CreateThread
  BY <1>3 DEF CreateThread
<1>4. CASE CreateFails
  BY <1>4 DEF CreateFails
<1>5. CASE CreateReturn
  BY <1>5 DEF CreateReturn
<1>6. CASE SubmitAlloc
  BY <1>6 DEF SubmitAlloc
<1>7. CASE SubmitLock
  BY <1>7 DEF SubmitLock
<1>8. CASE SubmitLink
  BY <1>8 DEF SubmitLink, SignalOne
<1>9. CASE WaitCall
  BY <1>9 DEF WaitCall
<1>10. CASE WaitLock
  BY <1>10 DEF WaitLock
<1>11. CASE WaitPoll
  BY <1>11 DEF WaitPoll
<1>12. CASE DestroyCall
  BY <1>12 DEF DestroyCall
<1>13. CASE DestroyLock
  BY <1>13 DEF DestroyLock
<1>14. CASE DestroyShutdown
  BY <1>14 DEF DestroyShutdown, WakeAll
<1>15. CASE DestroyJoin
  BY <1>15 DEF DestroyJoin, Joinable
<1>16. CASE DestroyJoinMissing
  BY <1>16 DEF DestroyJoinMissing, JoinsLeft
<1>17. CASE DestroyReturn
  BY <1>17 DEF DestroyReturn
<1>18. ASSUME NEW w \in Worker, WorkerLock(w) PROVE PhaseInv'
  BY <1>18 DEF WorkerLock
<1>19. ASSUME NEW w \in Worker, WorkerPark(w) PROVE PhaseInv'
  BY <1>19 DEF WorkerPark
<1>20. ASSUME NEW w \in Worker, SpuriousWakeup(w) PROVE PhaseInv'
  BY <1>20 DEF SpuriousWakeup
<1>21. ASSUME NEW w \in Worker, WorkerExit(w) PROVE PhaseInv'
  BY <1>21 DEF WorkerExit, MayExit
<1>22. ASSUME NEW w \in Worker, WorkerTake(w) PROVE PhaseInv'
  BY <1>22 DEF WorkerTake, Unlink
<1>23. ASSUME NEW w \in Worker, WorkerRan(w) PROVE PhaseInv'
  BY <1>23 DEF WorkerRan
<1>24. ASSUME NEW w \in Worker, WorkerFree(w) PROVE PhaseInv'
  BY <1>24 DEF WorkerFree
<1>25. CASE UNCHANGED vars
  BY <1>25
<1> QED
  BY <1>1, <1>2, <1>3, <1>4, <1>5, <1>6, <1>7, <1>8, <1>9, <1>10, <1>11, <1>12, <1>13, <1>14, <1>15, <1>16, <1>17, <1>18, <1>19, <1>20, <1>21, <1>22, <1>23, <1>24, <1>25
   DEF Next, Create, Submit, Wait, Destroy, Work, Stopped

\* What a non-empty list looks like.
LEMMA ListMembers ==
  ASSUME TypeOK, ListWellFormed, workHead # NULL
  PROVE  /\ workTail = Linked
         /\ workHead <= workTail
         /\ \A i \in workHead..workTail :
              /\ mem[i] = "live"
              /\ next[i] = IF i = workTail THEN NULL ELSE i + 1
BY DEF ListWellFormed, Listed

\* A step of the pool keeps the list well formed.
LEMMA ListKept ==
  ASSUME TypeOK, PhaseInv, ItemInv, ListWellFormed, [Next]_vars
  PROVE  ListWellFormed'
<1> USE PoolAssumption DEF TypeOK, ListTypeOK, ThreadTypeOK, Worker, Item, NULL,
      Client, NoThread, Statuses, WorkerPlaces, ClientPlaces, queueVars, syncVars,
      workerVars, clientVars, vars, Call, Goto, ClientLock,
      ListWellFormed, Listed, Linked, PhaseInv, ItemInv, FreshInv, HeldInv
<1>1. CASE SubmitAlloc
  BY <1>1 DEF SubmitAlloc
<1>2. CASE SubmitLink
  <2>1. /\ workTail' = allocated
        /\ Linked' = allocated
        /\ Linked = allocated - 1
        /\ mem' = mem
        /\ allocated \in Item
    BY <1>2 DEF SubmitLink
  <2>2. CASE workTail = NULL
    <3>1. workHead' = allocated /\ next' = next
      BY <1>2, <2>2 DEF SubmitLink
    <3> QED
      BY <1>2, <2>1, <2>2, <3>1 DEF SubmitLink
  <2>3. CASE workTail # NULL
    <3>1. workHead' = workHead /\ next' = [next EXCEPT ![workTail] = allocated]
      BY <1>2, <2>3 DEF SubmitLink
    <3>2. workTail = allocated - 1 /\ workHead \in 1..workTail
      BY <2>1, <2>3
    <3>3. ASSUME NEW i \in workHead..allocated
          PROVE  /\ mem[i] = "live"
                 /\ next'[i] = IF i = allocated THEN NULL ELSE i + 1
      <4>1. i \in Item
        BY <2>1, <3>2
      <4>2. CASE i = allocated
        BY <1>2, <2>1, <3>1, <3>2, <4>1, <4>2 DEF SubmitLink
      <4>3. CASE i < allocated
        <5>1. i \in Listed
          BY <2>1, <2>3, <3>2, <4>3
        <5>2. /\ mem[i] = "live"
              /\ next[i] = IF i = workTail THEN NULL ELSE i + 1
          BY <5>1
        <5> QED
          BY <2>1, <3>1, <3>2, <4>1, <4>3, <5>2
      <4> QED
        BY <2>1, <3>2, <4>1, <4>2, <4>3
    <3> QED
      BY SMTT(20), <2>1, <2>3, <3>1, <3>2, <3>3
  <2> QED
    BY <2>2, <2>3
<1>3. CASE DestroyReturn
  BY <1>3 DEF DestroyReturn
<1>4. ASSUME NEW w \in Worker, WorkerTake(w) PROVE ListWellFormed'
  <2>0. workHead # NULL
    BY <1>4 DEF WorkerTake
  <2>1. /\ next[workHead] = IF workHead = workTail THEN NULL ELSE workHead + 1
        /\ workHead <= workTail
        /\ workTail = Linked
    BY <2>0, ListMembers
  <2>2. next' = next /\ mem' = mem /\ Linked' = Linked
    BY <1>4 DEF WorkerTake
  <2>3. /\ workHead' = next[workHead]
        /\ workTail' = IF next[workHead] = NULL THEN NULL ELSE workTail
    BY <1>4 DEF WorkerTake, Unlink
  <2> QED
    BY <2>0, <2>1, <2>2, <2>3
<1>5. ASSUME NEW w \in Worker, WorkerFree(w) PROVE ListWellFormed'
  <2>1. held[w] \in 1..Dispatched
    BY <1>5 DEF WorkerFree
  <2>2. held[w] \notin Listed
    BY <2>1 DEF Dispatched
  <2>3. /\ workHead' = workHead /\ workTail' = workTail
        /\ next' = next /\ Linked' = Linked
        /\ mem' = [mem EXCEPT ![held[w]] = "freed"]
    BY <1>5 DEF WorkerFree
  <2>4. \A i \in Listed : i # held[w] /\ mem'[i] = mem[i]
    BY <2>2, <2>3
  <2>5. Listed' = Listed
    BY <2>3
  <2> HIDE DEF Listed, Linked, ItemInv, FreshInv, HeldInv, PhaseInv
  <2> QED
    BY <2>3, <2>4, <2>5
<1>6. CASE UNCHANGED <<workHead, workTail, next, mem, Linked>>
  BY <1>6
<1> QED
  BY <1>1, <1>2, <1>3, <1>4, <1>5, <1>6
   DEF Next, Create, Submit, Wait, Destroy, Work, Stopped, CreateAlloc,
     CreateNoMemory, CreateThread, CreateFails, CreateReturn, SubmitAlloc,
     SubmitLock, SubmitLink, WaitCall, WaitLock, WaitPoll, DestroyCall,
     DestroyLock, DestroyShutdown, DestroyJoin, DestroyJoinMissing,
     DestroyReturn, WorkerLock, WorkerPark, SpuriousWakeup, WorkerExit,
     WorkerTake, WorkerRan, WorkerFree

\* When destroy returns the list is empty: every thread that was created has
\* seen it so, and without threads nothing was ever submitted.
LEMMA DrainedAtReturn ==
  ASSUME TypeOK, PhaseInv, ListWellFormed, DestroyReturn
  PROVE  workHead = NULL
<1> USE PoolAssumption DEF TypeOK, ListTypeOK, ThreadTypeOK, Worker, Item, NULL,
      PhaseInv, DestroyReturn, Call
<1>1. \A w \in Worker : w <= joined
  OBVIOUS
<1>2. CASE active = 0
  BY <1>2, ListMembers DEF Linked
<1>3. CASE active # 0
  <2>1. 1 \in Worker /\ wpc[1] # "none"
    BY <1>3
  <2>2. wpc[1] = "exited"
    BY <1>1, <2>1
  <2> QED
    BY <2>1, <2>2
<1> QED
  BY <1>2, <1>3

\* A worker takes the next item in the order of submission.
LEMMA TakeStep ==
  ASSUME TypeOK, ListWellFormed, NEW w \in Worker, WorkerTake(w)
  PROVE  /\ Dispatched = workHead - 1
         /\ Dispatched' = workHead
         /\ workHead \in 1..Linked
         /\ Linked' = Linked
<1> USE PoolAssumption DEF TypeOK, ListTypeOK, ThreadTypeOK, Item, NULL, WorkerTake
<1>1. workHead # NULL
  OBVIOUS
<1>2. /\ next[workHead] = IF workHead = workTail THEN NULL ELSE workHead + 1
      /\ workHead <= workTail
      /\ workTail = Linked
  BY <1>1, ListMembers
<1>3. workHead' = next[workHead] /\ Linked' = Linked
  BY DEF Unlink, Linked, clientVars
<1> QED
  BY <1>1, <1>2, <1>3 DEF Dispatched

\* Items leave the list one at a time, in order, and only to a worker.
LEMMA DispatchedStep ==
  ASSUME TypeOK, PhaseInv, ItemInv, ListWellFormed, [Next]_vars
  PROVE  \/ Dispatched' = Dispatched
         \/ \E w \in Worker : /\ WorkerTake(w)
                              /\ Dispatched = workHead - 1
                              /\ Dispatched' = workHead
                              /\ workHead \in 1..Linked
<1> USE PoolAssumption DEF TypeOK, ListTypeOK, ThreadTypeOK, Worker, Item, NULL,
      Client, NoThread, Statuses, WorkerPlaces, ClientPlaces, queueVars, syncVars,
      workerVars, clientVars, vars, Call, Goto, ClientLock,
      Dispatched, Linked
<1>1. CASE SubmitAlloc
  BY <1>1 DEF SubmitAlloc
<1>2. CASE SubmitLink
  <2>1. CASE workHead = NULL
    BY <1>2, <2>1 DEF SubmitLink, ListWellFormed, ItemInv, FreshInv
  <2>2. CASE workHead # NULL
    BY <1>2, <2>2 DEF SubmitLink, ListWellFormed
  <2> QED
    BY <2>1, <2>2
<1>3. CASE DestroyReturn
  BY <1>3, DrainedAtReturn DEF DestroyReturn
<1>4. ASSUME NEW w \in Worker, WorkerTake(w)
      PROVE  /\ Dispatched = workHead - 1
             /\ Dispatched' = workHead
             /\ workHead \in 1..Linked
  BY <1>4, TakeStep
<1>5. CASE UNCHANGED <<workHead, Linked>>
  BY <1>5
<1> QED
  BY <1>1, <1>2, <1>3, <1>4, <1>5
   DEF Next, Create, Submit, Wait, Destroy, Work, Stopped, CreateAlloc,
     CreateNoMemory, CreateThread, CreateFails, CreateReturn, SubmitAlloc,
     SubmitLock, SubmitLink, WaitCall, WaitLock, WaitPoll, DestroyCall,
     DestroyLock, DestroyShutdown, DestroyJoin, DestroyJoinMissing,
     DestroyReturn, WorkerLock, WorkerPark, SpuriousWakeup, WorkerExit,
     WorkerTake, WorkerRan, WorkerFree

\* The items taken from the list are all linked, and linked ones allocated.
LEMMA Bounds ==
  ASSUME TypeOK, ItemInv, ListWellFormed
  PROVE  /\ Linked \in 0..allocated
         /\ Dispatched \in 0..Linked
BY PoolAssumption DEF TypeOK, ListTypeOK, ThreadTypeOK, Item, NULL, ItemInv,
   FreshInv, ListWellFormed, Linked, Dispatched

\* A step of the pool leaves the items that are not linked untouched.
LEMMA FreshKept ==
  ASSUME TypeOK, ItemInv, ListWellFormed, [Next]_vars
  PROVE  FreshInv'
<1> USE PoolAssumption DEF TypeOK, ListTypeOK, ThreadTypeOK, Worker, Item, NULL,
      Client, NoThread, Statuses, WorkerPlaces, ClientPlaces, queueVars, syncVars,
      workerVars, clientVars, vars, Call, Goto, ClientLock,
      FreshInv
<1>1. CASE SubmitAlloc
  BY <1>1 DEF SubmitAlloc, ItemInv
<1>2. CASE SubmitLink
  BY <1>2 DEF SubmitLink, ItemInv
<1>3. CASE DestroyReturn
  BY <1>3 DEF DestroyReturn, ItemInv
<1>4. ASSUME NEW w \in Worker, WorkerRan(w) PROVE FreshInv'
  <2>1. held[w] \in Item /\ held[w] \in 1..Linked
    BY SMTT(20), <1>4, Bounds DEF WorkerRan, ItemInv, HeldInv
  <2>2. /\ cpc' = cpc /\ allocated' = allocated /\ mem' = mem /\ next' = next
        /\ \A i \in Item : i # held[w] => ran'[i] = ran[i]
    BY <1>4 DEF WorkerRan
  <2> QED
    BY <2>1, <2>2 DEF ItemInv, Linked
<1>5. ASSUME NEW w \in Worker, WorkerFree(w) PROVE FreshInv'
  <2>1. held[w] \in Item /\ held[w] \in 1..Linked
    BY <1>5, Bounds DEF WorkerFree, ItemInv, HeldInv
  <2>2. /\ cpc' = cpc /\ allocated' = allocated /\ ran' = ran /\ next' = next
        /\ \A i \in Item : i # held[w] => mem'[i] = mem[i]
    BY <1>5 DEF WorkerFree
  <2> QED
    BY <2>1, <2>2 DEF ItemInv, Linked
<1>6. ASSUME UNCHANGED <<allocated, mem, next, ran>>,
             cpc' \in {"submit_lock", "submit"} => cpc \in {"submit_lock", "submit"}
      PROVE  FreshInv'
  BY <1>6 DEF ItemInv
<1> QED
  BY <1>1, <1>2, <1>3, <1>4, <1>5, <1>6
   DEF Next, Create, Submit, Wait, Destroy, Work, Stopped, CreateAlloc,
     CreateNoMemory, CreateThread, CreateFails, CreateReturn, SubmitAlloc,
     SubmitLock, SubmitLink, WaitCall, WaitLock, WaitPoll, DestroyCall,
     DestroyLock, DestroyShutdown, DestroyJoin, DestroyJoinMissing,
     DestroyReturn, WorkerLock, WorkerPark, SpuriousWakeup, WorkerExit,
     WorkerTake, WorkerRan, WorkerFree

\* A step of the pool leaves every worker with the item it holds, if any.
LEMMA HeldKept ==
  ASSUME TypeOK, PhaseInv, ItemInv, ListWellFormed, [Next]_vars
  PROVE  HeldInv'
<1> USE DEF TypeOK, ThreadTypeOK, ListTypeOK, Item, HeldInv, ItemInv
<1>1. /\ Dispatched \in Nat /\ Dispatched' \in Nat
      /\ Dispatched <= Dispatched'
  BY Bounds, DispatchedStep, PoolAssumption
<1>2. ASSUME NEW w \in Worker, WorkerTake(w) PROVE HeldInv'
  <2>1. /\ held' = [held EXCEPT ![w] = workHead]
        /\ wpc' = [wpc EXCEPT ![w] = "run"]
        /\ workHead # NULL
        /\ wpc[w] = "test"
    BY <1>2 DEF WorkerTake, Goto
  <2>2. Dispatched' = workHead /\ workHead \in Nat
    BY <1>2, TakeStep
  <2> QED
    BY <1>1, <2>1, <2>2 DEF NULL
<1>3. ASSUME NEW w \in Worker, WorkerRan(w) PROVE HeldInv'
  BY <1>1, <1>3 DEF WorkerRan, Goto
<1>4. ASSUME NEW w \in Worker, WorkerFree(w) PROVE HeldInv'
  BY <1>1, <1>4 DEF WorkerFree, Goto, NULL
<1>5. ASSUME held' = held,
             \A w \in Worker : wpc'[w] \in {"run", "free"} <=> wpc[w] \in {"run", "free"}
      PROVE  HeldInv'
  BY <1>1, <1>5
<1>6. CASE CreateThread
  BY <1>5, <1>6 DEF CreateThread, Goto
<1>7. CASE SubmitLink
  BY <1>5, <1>7 DEF SubmitLink, SignalOne, Goto
<1>8. CASE DestroyShutdown
  BY <1>5, <1>8 DEF DestroyShutdown, WakeAll
<1>9. ASSUME NEW w \in Worker, \/ WorkerLock(w) \/ WorkerPark(w)
                               \/ SpuriousWakeup(w) \/ WorkerExit(w)
      PROVE  HeldInv'
  BY <1>5, <1>9 DEF WorkerLock, WorkerPark, SpuriousWakeup, WorkerExit, Goto
<1>10. CASE UNCHANGED <<wpc, held>>
  BY <1>5, <1>10
<1> QED
  BY <1>2, <1>3, <1>4, <1>6, <1>7, <1>8, <1>9, <1>10
   DEF Next, Create, Submit, Wait, Destroy, Work, Stopped, CreateAlloc,
     CreateNoMemory, CreateFails, CreateReturn, SubmitAlloc, SubmitLock, WaitCall,
     WaitLock, WaitPoll, DestroyCall, DestroyLock, DestroyJoin,
     DestroyJoinMissing, DestroyReturn, ClientLock, workerVars, vars

\* An item stays where it is while nobody touches it.
LEMMA PlaceFrame ==
  ASSUME NEW i, InOnePlace(i), i \in Listed' <=> i \in Listed,
         ran'[i] = ran[i], mem'[i] = mem[i],
         \A w \in Worker : /\ Holds(w, i)' <=> Holds(w, i)
                           /\ Holds(w, i) => wpc'[w] = wpc[w]
  PROVE  InOnePlace(i)'
BY Zenon DEF InOnePlace, Holds, Worker

\* A step of the pool keeps every submitted item in exactly one place.
LEMMA PlaceKept ==
  ASSUME TypeOK, PhaseInv, ItemInv, ListWellFormed, ExactlyOnePlace, [Next]_vars
  PROVE  ExactlyOnePlace'
<1> USE PoolAssumption DEF TypeOK, ThreadTypeOK, ListTypeOK, Item, ItemInv, Holds
<1>1. /\ Linked \in Nat /\ Linked <= allocated
      /\ Dispatched \in Nat /\ Dispatched <= Linked
      /\ \A i \in 1..Linked : i \in Item
  BY Bounds
<1>2. ASSUME NEW i \in 1..Linked, InOnePlace(i), i \in Listed' <=> i \in Listed,
             ran'[i] = ran[i], mem'[i] = mem[i],
             \A w \in Worker : /\ Holds(w, i)' <=> Holds(w, i)
                               /\ Holds(w, i) => wpc'[w] = wpc[w]
      PROVE  InOnePlace(i)'
  BY <1>2, PlaceFrame
<1>3. CASE SubmitAlloc
  <2>1. /\ Linked' = Linked /\ Listed' = Listed
        /\ ran' = ran /\ wpc' = wpc /\ held' = held
        /\ \A i \in Item : i <= allocated => mem'[i] = mem[i]
    BY <1>3 DEF SubmitAlloc, Linked, Listed, Call, workerVars
  <2> QED
    BY <1>1, <1>2, <2>1 DEF ExactlyOnePlace, Holds
<1>4. CASE SubmitLink
  <2>1. /\ Linked = allocated - 1 /\ Linked' = allocated
        /\ allocated \in Item /\ ran[allocated] = 0
        /\ ran' = ran /\ mem' = mem /\ held' = held
        /\ workTail' = allocated
    BY <1>4 DEF SubmitLink, Linked, Call, FreshInv
  <2>2. \A w \in Worker : /\ wpc'[w] # wpc[w] => wpc[w] = "parked"
                          /\ wpc'[w] # wpc[w] => wpc'[w] = "lock"
    <3>1. SignalOne
      BY <1>4 DEF SubmitLink
    <3>2. CASE wpc' = wpc
      BY <3>2
    <3>3. CASE \E w \in Worker : wpc[w] = "parked" /\ wpc' = [wpc EXCEPT ![w] = "lock"]
      BY <3>3
    <3> QED
      BY <3>1, <3>2, <3>3 DEF SignalOne, Goto
  <2>3. \A w \in Worker : \A i \in Item :
          /\ Holds(w, i)' <=> Holds(w, i)
          /\ Holds(w, i) => wpc'[w] = wpc[w]
    BY <2>1, <2>2 DEF Holds
  <2>4. Listed' = Listed \cup {allocated}
    <3>1. CASE workHead = NULL
      BY <1>4, <2>1, <3>1 DEF SubmitLink, Listed, ListWellFormed, NULL
    <3>2. CASE workHead # NULL
      BY <1>4, <2>1, <3>2 DEF SubmitLink, Listed, ListWellFormed, NULL
    <3> QED
      BY <3>1, <3>2
  <2>5. InOnePlace(allocated)'
    <3>1. ASSUME NEW w \in Worker, Holds(w, allocated) PROVE FALSE
      BY <1>1, <2>1, <3>1 DEF Holds, HeldInv
    <3> QED
      <4>1. allocated \in Listed' /\ allocated' = allocated /\ ran'[allocated] = 0
        BY <1>4, <2>1, <2>4 DEF SubmitLink
      <4>2. \A w \in Worker : ~Holds(w, allocated)'
        BY <2>1, <2>3, <3>1, <4>1
      <4> QED
        BY <4>1, <4>2 DEF InOnePlace
  <2>6. ASSUME NEW i \in 1..Linked PROVE InOnePlace(i)'
    BY <1>1, <1>2, <2>1, <2>3, <2>4 DEF ExactlyOnePlace
  <2>7. ASSUME NEW i \in (1..Linked)' PROVE InOnePlace(i)'
    <3>1. CASE i = allocated
      <4>1. allocated' = allocated
        BY <1>4 DEF SubmitLink
      <4> QED
        BY <2>5, <3>1, <4>1 DEF InOnePlace
    <3>2. CASE i # allocated
      BY <2>1, <2>6, <3>2
    <3> QED
      BY <3>1, <3>2
  <2> QED
    BY <2>7 DEF ExactlyOnePlace
<1>5. CASE DestroyReturn
  <2>1. Listed = {} /\ Listed' = {}
    BY <1>5, DrainedAtReturn DEF DestroyReturn, Listed
  <2>2. /\ Linked' = Linked /\ ran' = ran /\ wpc' = wpc /\ held' = held
        /\ \A i \in Item : mem'[i] = mem[i]
    BY <1>5, <2>1 DEF DestroyReturn, Linked, Call, workerVars
  <2> QED
    BY <1>1, <1>2, <2>1, <2>2 DEF ExactlyOnePlace, Holds
<1>6. ASSUME NEW w \in Worker, WorkerTake(w) PROVE ExactlyOnePlace'
  <2>1. /\ workHead \in 1..Linked
        /\ workHead # NULL
        /\ Linked' = Linked
    BY <1>6, TakeStep DEF WorkerTake
  <2>2. /\ workTail = Linked /\ workHead <= workTail
        /\ mem[workHead] = "live"
        /\ next[workHead] = IF workHead = workTail THEN NULL ELSE workHead + 1
    BY <2>1, ListMembers
  <2>3. /\ workHead' = next[workHead]
        /\ workTail' = IF next[workHead] = NULL THEN NULL ELSE workTail
    BY <1>6 DEF WorkerTake, Unlink
  <2>4. Listed' = Listed \ {workHead} /\ workHead \in Listed
    BY <2>1, <2>2, <2>3 DEF Listed, NULL
  <2>5. /\ ran' = ran /\ mem' = mem
        /\ wpc[w] = "test"
        /\ wpc' = [wpc EXCEPT ![w] = "run"]
        /\ held' = [held EXCEPT ![w] = workHead]
    BY <1>6 DEF WorkerTake, Goto
  <2>6. InOnePlace(workHead)
    BY <2>1 DEF ExactlyOnePlace
  <2>7. ran[workHead] = 0 /\ \A v \in Worker : ~Holds(v, workHead)
    BY <2>4, <2>6 DEF InOnePlace
  <2>8. /\ workHead \notin Listed' /\ mem'[workHead] = "live"
        /\ ran'[workHead] = 0 /\ wpc'[w] = "run"
    BY <2>1, <2>2, <2>4, <2>5, <2>7
  <2>9. ASSUME NEW i \in 1..Linked, i = workHead PROVE InOnePlace(i)'
    <3>1. Holds(w, i)' /\ \A v \in Worker : Holds(v, i)' => v = w
      BY <2>1, <2>5, <2>7, <2>9 DEF Holds
    <3> QED
      BY <2>8, <2>9, <3>1 DEF InOnePlace
  <2>10. ASSUME NEW i \in 1..Linked, i # workHead PROVE InOnePlace(i)'
    <3>1. \A v \in Worker : /\ Holds(v, i)' <=> Holds(v, i)
                            /\ Holds(v, i) => wpc'[v] = wpc[v]
      BY <2>5, <2>10 DEF Holds
    <3> QED
      BY <1>2, <2>4, <2>5, <2>10, <3>1 DEF ExactlyOnePlace
  <2> QED
    BY <2>1, <2>9, <2>10 DEF ExactlyOnePlace
<1>7. ASSUME NEW w \in Worker, WorkerRan(w) PROVE ExactlyOnePlace'
  <2>1. /\ Linked' = Linked /\ Listed' = Listed /\ mem' = mem /\ held' = held
        /\ wpc[w] = "run" /\ wpc' = [wpc EXCEPT ![w] = "free"]
        /\ ran' = [ran EXCEPT ![held[w]] = @ + 1]
    BY <1>7 DEF WorkerRan, Goto, Linked, Listed, queueVars, clientVars
  <2>2. held[w] \in 1..Linked /\ Holds(w, held[w])
    BY <1>1, <2>1 DEF HeldInv, Holds
  <2>3. \A v \in Worker, i \in Item : Holds(v, i)' <=> Holds(v, i)
    BY <2>1 DEF Holds
  <2>4. InOnePlace(held[w])
    BY <2>2 DEF ExactlyOnePlace
  <2>5. /\ held[w] \notin Listed /\ mem[held[w]] = "live"
        /\ \A v \in Worker : Holds(v, held[w]) => v = w
        /\ ran[held[w]] = 0
    BY <2>1, <2>2, <2>4 DEF InOnePlace
  <2>6. ran'[held[w]] = 1 /\ wpc'[w] = "free"
    BY <1>1, <2>1, <2>2, <2>5
  <2>7. ASSUME NEW i \in 1..Linked, i = held[w] PROVE InOnePlace(i)'
    BY <1>1, <2>1, <2>2, <2>3, <2>5, <2>6, <2>7 DEF InOnePlace
  <2>8. ASSUME NEW i \in 1..Linked, i # held[w] PROVE InOnePlace(i)'
    <3>1. \A v \in Worker : Holds(v, i) => wpc'[v] = wpc[v]
      BY <2>1, <2>8 DEF Holds
    <3> QED
      BY <1>1, <1>2, <2>1, <2>3, <2>8, <3>1 DEF ExactlyOnePlace
  <2> QED
    BY <2>1, <2>7, <2>8 DEF ExactlyOnePlace
<1>8. ASSUME NEW w \in Worker, WorkerFree(w) PROVE ExactlyOnePlace'
  <2>1. /\ Linked' = Linked /\ Listed' = Listed /\ ran' = ran
        /\ wpc[w] = "free" /\ wpc' = [wpc EXCEPT ![w] = "lock"]
        /\ held' = [held EXCEPT ![w] = NULL]
        /\ mem' = [mem EXCEPT ![held[w]] = "freed"]
    BY <1>8 DEF WorkerFree, Goto, Linked, Listed, clientVars
  <2>2. held[w] \in 1..Linked /\ Holds(w, held[w])
    BY <1>1, <2>1 DEF HeldInv, Holds
  <2>3. InOnePlace(held[w])
    BY <2>2 DEF ExactlyOnePlace
  <2>4. /\ held[w] \notin Listed
        /\ \A v \in Worker : Holds(v, held[w]) => v = w
        /\ ran[held[w]] = 1
    BY <2>1, <2>2, <2>3 DEF InOnePlace
  <2>5. /\ mem'[held[w]] = "freed"
        /\ \A v \in Worker : v # w => (wpc'[v] = wpc[v] /\ held'[v] = held[v])
        /\ wpc'[w] = "lock"
    BY <1>1, <2>1, <2>2
  <2>6. ASSUME NEW i \in 1..Linked, i = held[w] PROVE InOnePlace(i)'
    <3>1. \A v \in Worker : ~Holds(v, i)'
      BY <2>4, <2>5, <2>6 DEF Holds
    <3> QED
      BY <2>1, <2>4, <2>5, <2>6, <3>1 DEF InOnePlace
  <2>7. ASSUME NEW i \in 1..Linked, i # held[w] PROVE InOnePlace(i)'
    <3>1. \A v \in Worker : /\ Holds(v, i)' <=> Holds(v, i)
                            /\ Holds(v, i) => wpc'[v] = wpc[v]
      BY <2>5, <2>7 DEF Holds
    <3> QED
      BY <1>1, <1>2, <2>1, <2>7, <3>1 DEF ExactlyOnePlace
  <2> QED
    BY <2>1, <2>6, <2>7 DEF ExactlyOnePlace
<1>9. ASSUME UNCHANGED <<workHead, workTail, Linked, ran, mem, held>>,
             \A w \in Worker :
               \/ wpc'[w] = wpc[w]
               \/ wpc[w] \notin {"run", "free"} /\ wpc'[w] \notin {"run", "free"}
      PROVE  ExactlyOnePlace'
  <2>1. \A w \in Worker, i \in Item :
          /\ Holds(w, i)' <=> Holds(w, i)
          /\ Holds(w, i) => wpc'[w] = wpc[w]
    BY <1>9 DEF Holds
  <2>2. Listed' = Listed
    BY <1>9 DEF Listed
  <2> QED
    BY <1>1, <1>2, <1>9, <2>1, <2>2 DEF ExactlyOnePlace
<1>10. CASE CreateThread
  BY <1>9, <1>10 DEF CreateThread, Goto, queueVars, Linked
<1>11. CASE DestroyShutdown
  BY <1>9, <1>11 DEF DestroyShutdown, WakeAll, queueVars, Linked, Call
<1>12. ASSUME NEW w \in Worker, \/ WorkerLock(w) \/ WorkerPark(w)
                                \/ SpuriousWakeup(w) \/ WorkerExit(w)
       PROVE  ExactlyOnePlace'
  BY <1>9, <1>12 DEF WorkerLock, WorkerPark, SpuriousWakeup, WorkerExit, Goto,
     queueVars, clientVars, Linked
<1>13. CASE UNCHANGED <<workHead, workTail, Linked, ran, mem, held, wpc>>
  BY <1>9, <1>13
<1> QED
  BY <1>3, <1>4, <1>5, <1>6, <1>7, <1>8, <1>10, <1>11, <1>12, <1>13
   DEF Next, Create, Submit, Wait, Destroy, Work, Stopped, CreateAlloc,
     CreateNoMemory, CreateFails, CreateReturn, SubmitLock, WaitCall, WaitLock,
     WaitPoll, DestroyCall, DestroyLock, DestroyJoin, DestroyJoinMissing,
     ClientLock, Call, Linked, queueVars, workerVars, clientVars, vars

\* A step of the pool keeps a worker awake while there is work.
LEMMA WorkKept ==
  ASSUME TypeOK, PhaseInv, NoStrandedWork, [Next]_vars
  PROVE  NoStrandedWork'
<1> USE PoolAssumption DEF TypeOK, ThreadTypeOK, ListTypeOK, Worker, NULL, Goto, Call,
      NoStrandedWork, Awake
<1>1. CASE CreateThread
  BY <1>1 DEF CreateThread, queueVars
<1>2. CASE SubmitLink
  <2>1. 1 \in Worker /\ wpc[1] \notin {"none", "exited"}
    BY <1>2 DEF SubmitLink, PhaseInv
  <2>2. CASE (\A w \in Worker : wpc[w] # "parked") /\ wpc' = wpc
    <3>1. wpc[1] \in {"lock", "test", "run", "free"}
      BY <2>1, <2>2 DEF WorkerPlaces
    <3> QED
      BY <2>2, <3>1
  <2>3. CASE \E w \in Worker : Goto(w, "parked", "lock")
    BY <2>3
  <2> QED
    BY <1>2, <2>2, <2>3 DEF SubmitLink, SignalOne
<1>3. CASE DestroyShutdown
  BY <1>3 DEF DestroyShutdown, WakeAll, queueVars
<1>4. CASE DestroyReturn
  BY <1>4 DEF DestroyReturn
<1>5. ASSUME NEW w \in Worker, WorkerLock(w) \/ SpuriousWakeup(w) PROVE NoStrandedWork'
  BY <1>5 DEF WorkerLock, SpuriousWakeup, queueVars
<1>6. ASSUME NEW w \in Worker, WorkerPark(w) \/ WorkerExit(w) PROVE NoStrandedWork'
  BY <1>6 DEF WorkerPark, WorkerExit, MayExit, queueVars
<1>7. ASSUME NEW w \in Worker, WorkerTake(w) \/ WorkerRan(w) \/ WorkerFree(w)
      PROVE  NoStrandedWork'
  <2>1. w \in Awake'
    BY <1>7 DEF WorkerTake, WorkerRan, WorkerFree
  <2> QED
    BY <2>1
<1>8. CASE UNCHANGED <<workHead, wpc>>
  BY <1>8
<1> QED
  BY <1>1, <1>2, <1>3, <1>4, <1>5, <1>6, <1>7, <1>8
   DEF Next, Create, Submit, Wait, Destroy, Work, Stopped, CreateAlloc,
     CreateNoMemory, CreateFails, CreateReturn, SubmitAlloc, SubmitLock, WaitCall,
     WaitLock, WaitPoll, DestroyCall, DestroyLock, DestroyJoin,
     DestroyJoinMissing, ClientLock, queueVars, workerVars, vars

\* When destroy returns, every submitted item has been run and freed.
LEMMA AllRunAtReturn ==
  ASSUME TypeOK, PhaseInv, ItemInv, ListWellFormed, ExactlyOnePlace, DestroyReturn
  PROVE  /\ Linked = allocated
         /\ \A w \in Worker : wpc[w] \in {"none", "exited"}
         /\ \A i \in 1..allocated : ran[i] = 1 /\ mem[i] = "freed"
<1>1. Linked = allocated /\ Listed = {}
  BY DrainedAtReturn DEF DestroyReturn, Call, Linked, Listed
<1>2. \A w \in Worker : wpc[w] \in {"none", "exited"}
  BY PoolAssumption DEF DestroyReturn, PhaseInv, Worker
<1>3. \A w \in Worker, i \in 1..allocated : ~Holds(w, i)
  BY <1>2 DEF Holds
<1> QED
  BY <1>1, <1>2, <1>3 DEF ExactlyOnePlace, InOnePlace

\* A step of the pool keeps what holds once it is gone.
LEMMA CompletionKept ==
  ASSUME TypeOK, PhaseInv, ItemInv, ListWellFormed, ExactlyOnePlace,
         DestroyCompletes, [Next]_vars
  PROVE  DestroyCompletes'
<1> USE PoolAssumption DEF TypeOK, ThreadTypeOK, ListTypeOK, Item, Call, Goto
<1>1. CASE CreateNoMemory
  <2>1. allocated' = 0 /\ wpc' = wpc /\ active = 0
    BY <1>1 DEF CreateNoMemory, PhaseInv, queueVars, workerVars
  <2>2. \A w \in Worker : wpc[w] = "none"
    BY <2>1 DEF PhaseInv, Worker
  <2> QED
    BY <2>1, <2>2 DEF DestroyCompletes
<1>2. CASE DestroyReturn
  <2>1. Listed = {}
    BY <1>2, DrainedAtReturn DEF Listed
  <2>2. wpc' = wpc /\ ran' = ran /\ allocated' = allocated
        /\ \A i \in Item : mem'[i] = mem[i]
    BY <1>2, <2>1 DEF DestroyReturn, workerVars
  <2> QED
    BY <1>2, <2>2, AllRunAtReturn DEF DestroyCompletes
<1>3. CASE cpc = "gone"
  <2>1. \A w \in Worker : wpc[w] \in {"none", "exited"}
    BY <1>3 DEF DestroyCompletes
  <2>2. \A w \in Worker : ~Work(w)
    BY <2>1 DEF Work, WorkerLock, WorkerPark, SpuriousWakeup, WorkerExit,
       WorkerTake, WorkerRan, WorkerFree
  <2>3. UNCHANGED vars
    BY <1>3, <2>2 DEF Next, Create, Submit, Wait, Destroy, Stopped, CreateAlloc,
       CreateNoMemory, CreateThread, CreateFails, CreateReturn, SubmitAlloc,
       SubmitLock, SubmitLink, WaitCall, WaitLock, WaitPoll, DestroyCall,
       DestroyLock, DestroyShutdown, DestroyJoin, DestroyJoinMissing,
       DestroyReturn, ClientLock
  <2> QED
    BY <2>3 DEF DestroyCompletes, vars, queueVars, workerVars, clientVars
<1>4. CASE cpc' # "gone"
  BY <1>4 DEF DestroyCompletes
<1>5. ASSUME cpc # "gone", cpc' = "gone" PROVE CreateNoMemory \/ DestroyReturn
  BY <1>5 DEF Next, Create, Submit, Wait, Destroy, Work, Stopped, CreateAlloc,
     CreateThread, CreateFails, CreateReturn, SubmitAlloc, SubmitLock, SubmitLink,
     WaitCall, WaitLock, WaitPoll, DestroyCall, DestroyLock, DestroyShutdown,
     DestroyJoin, DestroyJoinMissing, WorkerLock, WorkerPark, SpuriousWakeup,
     WorkerExit, WorkerTake, WorkerRan, WorkerFree, ClientLock, clientVars, vars
<1> QED
  BY <1>1, <1>2, <1>3, <1>4, <1>5

LEMMA InitInv == Init => IInv
<1> SUFFICES ASSUME Init PROVE IInv
  OBVIOUS
<1>1. TypeOK
  BY InitType
<1> USE PoolAssumption DEF Init, Worker, Item, NULL, Client, NoThread, Linked
<1>2. MutexInv
  BY DEF MutexInv
<1>3. ItemInv
  BY DEF ItemInv, FreshInv, HeldInv
<1>4. PhaseInv
  BY DEF PhaseInv
<1>5. ListWellFormed
  BY DEF ListWellFormed, Listed
<1>6. ExactlyOnePlace
  BY DEF ExactlyOnePlace
<1>7. NoStrandedWork /\ DestroyCompletes
  BY DEF NoStrandedWork, DestroyCompletes
<1> QED
  BY <1>1, <1>2, <1>3, <1>4, <1>5, <1>6, <1>7 DEF IInv

LEMMA StepInv == IInv /\ [Next]_vars => IInv'
<1> SUFFICES ASSUME IInv, [Next]_vars PROVE IInv'
  OBVIOUS
<1>1. TypeOK'
  BY TypesKept, ShutdownKept DEF IInv, TypeOK
<1>2. MutexInv' /\ PhaseInv'
  BY MutexKept, PhaseKept DEF IInv
<1>3. ItemInv'
  BY FreshKept, HeldKept DEF IInv, ItemInv
<1>4. ListWellFormed' /\ ExactlyOnePlace'
  BY ListKept, PlaceKept DEF IInv
<1>5. NoStrandedWork' /\ DestroyCompletes'
  BY WorkKept, CompletionKept DEF IInv
<1> QED
  BY <1>1, <1>2, <1>3, <1>4, <1>5 DEF IInv

\* The inductive invariant holds in every reachable state of the pool.
THEOREM Invariant == Spec => []IInv
BY InitInv, StepInv, PTL DEF Spec

\* The queue's pointers always describe one list of exactly the items that
\* are submitted and not yet taken.
THEOREM ListCorrect == Spec => []ListWellFormed
<1>1. IInv => ListWellFormed
  BY DEF IInv
<1> QED
  BY <1>1, Invariant, PTL

\* No submitted item is lost, run twice or freed while in use.
THEOREM NothingLostOrRepeated == Spec => []ExactlyOnePlace
<1>1. IInv => ExactlyOnePlace
  BY DEF IInv
<1> QED
  BY <1>1, Invariant, PTL

\* One signal per submitted item is enough: while the list has items, some
\* worker is awake.
THEOREM SignalsSuffice == Spec => []NoStrandedWork
<1>1. IInv => NoStrandedWork
  BY DEF IInv
<1> QED
  BY <1>1, Invariant, PTL

\* Destroying the pool waits for every thread and discards no work.
THEOREM DestroyDiscardsNothing == Spec => []DestroyCompletes
<1>1. IInv => DestroyCompletes
  BY DEF IInv
<1> QED
  BY <1>1, Invariant, PTL
------------------------------------------------------------------------------
(* The join of a thread that never existed *)

\* A created pool is destroyed with all its threads.
FullInv ==
  created = "FGREP_OK" =>
    /\ cpc \in {"idle", "destroy_lock", "destroy", "join"} => active = NumThreads
    /\ cpc # "crashed"

LEMMA FullKept ==
  ASSUME IInv, FullInv, [Next]_vars
  PROVE  FullInv'
<1> USE DEF FullInv, queueVars, syncVars, workerVars, clientVars, vars, Call, Goto,
      ClientLock
<1>1. CASE CreateAlloc \/ CreateNoMemory \/ CreateThread \/ CreateFails \/ CreateReturn
  BY <1>1 DEF CreateAlloc, CreateNoMemory, CreateThread, CreateFails, CreateReturn
<1>2. CASE SubmitAlloc \/ SubmitLock
  BY <1>2 DEF SubmitAlloc, SubmitLock
<1>3. CASE SubmitLink \/ WaitPoll
  <2>1. active = NumThreads
    BY <1>3 DEF SubmitLink, WaitPoll, IInv, PhaseInv
  <2> QED
    BY <1>3, <2>1 DEF SubmitLink, WaitPoll
<1>4. CASE WaitCall \/ WaitLock
  BY <1>4 DEF WaitCall, WaitLock
<1>5. CASE DestroyCall \/ DestroyLock \/ DestroyShutdown \/ DestroyJoin \/ DestroyReturn
  BY <1>5 DEF DestroyCall, DestroyLock, DestroyShutdown, DestroyJoin, DestroyReturn
<1>6. CASE DestroyJoinMissing
  <2>1. created # "FGREP_OK"
    BY <1>6, PoolAssumption
       DEF DestroyJoinMissing, JoinsLeft, IInv, TypeOK, ThreadTypeOK
  <2> QED
    BY <1>6, <2>1 DEF DestroyJoinMissing
<1>7. CASE \E w \in Worker : Work(w)
  BY <1>7 DEF Work, WorkerLock, WorkerPark, SpuriousWakeup, WorkerExit,
    WorkerTake, WorkerRan, WorkerFree
<1>8. CASE Stopped \/ UNCHANGED vars
  BY <1>8 DEF Stopped
<1> QED
  BY <1>1, <1>2, <1>3, <1>4, <1>5, <1>6, <1>7, <1>8
     DEF Next, Create, Submit, Wait, Destroy

\* The undefined pthread_join (the loop to num_threads, lines 87-88 of threadpool.c)
\* happens only in the destroy that a failing create calls (lines 65 and 69): a
\* program that checks what create returned, and then destroys its pool, never
\* reaches it, for any number of threads.
THEOREM OnlyFailedCreateCrashes ==
  Spec => [](created = "FGREP_OK" => cpc # "crashed")
<1>1. Init => FullInv
  BY DEF Init, FullInv
<1>2. FullInv => (created = "FGREP_OK" => cpc # "crashed")
  BY DEF FullInv
<1> QED
  BY <1>1, <1>2, FullKept, Invariant, PTL DEF Spec

------------------------------------------------------------------------------
(* Deadlock *)

\* A thread that waits for work_mutex waits for nobody else: it is free, or its
\* holder can go on.
LEMMA HolderGoesOn ==
  ASSUME IInv, cpc \notin {"submit", "wait", "destroy"}, mutex # NoThread
  PROVE  \E w \in Worker : CanGoOn(w)
<1>1. mutex \in Worker
  BY DEF IInv, TypeOK, ThreadTypeOK, MutexInv
<1>2. wpc[mutex] = "test"
  BY <1>1 DEF IInv, MutexInv
<1> QED
  BY <1>1, <1>2 DEF CanGoOn

\* The thread that destroy joins next has returned or is awake.
LEMMA JoinedGoesOn ==
  ASSUME IInv, cpc = "join", joined < active, mutex = NoThread
  PROVE  Joinable(joined + 1) \/ \E w \in Worker : CanGoOn(w)
<1> DEFINE v == joined + 1
<1>1. v \in Worker /\ v <= active
  BY PoolAssumption DEF IInv, TypeOK, ThreadTypeOK, Worker
<1>2. wpc[v] \in {"lock", "test", "run", "free", "exited"}
  <2>1. wpc[v] \in WorkerPlaces
    BY <1>1 DEF IInv, TypeOK, ThreadTypeOK
  <2>2. wpc[v] # "none"
    <3>1. v \in Nat /\ active \in Nat
      BY <1>1, PoolAssumption DEF IInv, TypeOK, ThreadTypeOK, Worker
    <3> QED
      BY <1>1, <3>1 DEF IInv, PhaseInv
  <2>3. wpc[v] # "parked"
    BY <1>1 DEF IInv, PhaseInv
  <2> QED
    BY <2>1, <2>2, <2>3 DEF WorkerPlaces
<1> QED
  BY <1>1, <1>2 DEF Joinable, CanGoOn

LEMMA CallGoesOn == IInv => NobodyStuck
<1> SUFFICES ASSUME IInv, cpc \notin {"idle", "gone", "crashed"}
             PROVE  CallCanGoOn \/ \E w \in Worker : CanGoOn(w)
  BY DEF NobodyStuck
<1>1. CASE cpc \in {"calloc", "spawn", "submit", "wait", "destroy"}
  BY <1>1 DEF CallCanGoOn
<1>2. CASE cpc \in {"submit_lock", "wait_lock", "destroy_lock"}
  BY <1>2, HolderGoesOn DEF CallCanGoOn
<1>3. CASE cpc = "join"
  <2>1. joined \in Nat /\ active \in Nat
    BY PoolAssumption DEF IInv, TypeOK, ThreadTypeOK
  <2>2. CASE mutex # NoThread
    BY <1>3, <2>2, HolderGoesOn
  <2>3. CASE mutex = NoThread /\ joined < active
    BY <1>3, <2>3, JoinedGoesOn DEF CallCanGoOn
  <2>4. CASE active <= joined
    BY <1>3, <2>4 DEF CallCanGoOn
  <2> QED
    BY <2>1, <2>2, <2>3, <2>4
<1> QED
  BY <1>1, <1>2, <1>3 DEF IInv, TypeOK, ThreadTypeOK, ClientPlaces

\* For every number of threads, a call of the pool never waits for threads that
\* all wait themselves: the signal, the broadcast and the joins are enough,
\* without spurious wakeups (lines 27-29, 83-89, 117 of threadpool.c).
THEOREM NobodyIsStuck == Spec => []NobodyStuck
BY CallGoesOn, Invariant, PTL

------------------------------------------------------------------------------
(* The pool implements the abstract queue TaskQueue *)

\* The items whose function has returned, as ImplementsQueue maps them.
Finished == {i \in Item : ran[i] > 0}

\* The pool starts as an empty, open queue.
LEMMA InitMaps == Init => Queue!Init
BY PoolAssumption DEF Init, Queue!Init, Linked, Dispatched, Item, NULL

\* Linking an item submits it.
LEMMA SubmitMaps ==
  ASSUME IInv, SubmitLink
  PROVE  Queue!Submit
<1> USE PoolAssumption DEF IInv, TypeOK, ListTypeOK, ThreadTypeOK, Item, NULL,
      SubmitLink, Call
<1>1. Linked' = Linked + 1 /\ Linked < MaxItems
  BY DEF Linked, ItemInv, FreshInv
<1>2. Dispatched' = Dispatched
  <2>1. CASE workHead = NULL
    BY <2>1 DEF Dispatched, Linked, ListWellFormed, ItemInv, FreshInv
  <2>2. CASE workHead # NULL
    BY <2>2 DEF Dispatched, ListWellFormed
  <2> QED
    BY <2>1, <2>2
<1>3. Finished' = Finished /\ (cpc = "gone")' = (cpc = "gone") /\ cpc # "gone"
  BY DEF Finished
<1> QED
  BY <1>1, <1>2, <1>3 DEF Queue!Submit, Finished

\* A worker that takes an item starts it.
LEMMA TakeMaps ==
  ASSUME IInv, NEW w \in Worker, WorkerTake(w)
  PROVE  Queue!Start
<1>1. /\ Dispatched = workHead - 1 /\ Dispatched' = workHead
      /\ workHead \in 1..Linked /\ Linked' = Linked
  BY TakeStep DEF IInv
<1>2. ran' = ran /\ cpc' = cpc
  BY DEF WorkerTake, clientVars
<1>3. Linked \in Nat
  BY Bounds, PoolAssumption DEF IInv, TypeOK, ListTypeOK
<1> QED
  BY <1>1, <1>2, <1>3 DEF Queue!Start, Item

\* A worker whose item returns finishes it.
LEMMA RanMaps ==
  ASSUME IInv, NEW w \in Worker, WorkerRan(w)
  PROVE  \E i \in 1..MaxItems : Queue!Finish(i)
<1> USE PoolAssumption DEF IInv, TypeOK, ListTypeOK, ThreadTypeOK, Item
<1>1. /\ held[w] \in 1..Dispatched /\ held[w] \in 1..Linked /\ held[w] \in Item
      /\ wpc[w] = "run"
  BY Bounds DEF WorkerRan, Goto, ItemInv, HeldInv
<1>2. ran[held[w]] = 0
  BY <1>1 DEF ExactlyOnePlace, InOnePlace, Holds
<1>3. ran' = [ran EXCEPT ![held[w]] = 1]
  BY <1>1, <1>2 DEF WorkerRan
<1>4. Finished' = Finished \cup {held[w]} /\ held[w] \notin Finished
  BY <1>1, <1>2, <1>3 DEF Finished
<1>5. Linked' = Linked /\ Dispatched' = Dispatched /\ cpc' = cpc
  BY DEF WorkerRan, Linked, Dispatched, queueVars, clientVars
<1> QED
  BY <1>1, <1>4, <1>5 DEF Queue!Finish, Finished

\* Destroying the pool, or failing to allocate it, closes the queue.
LEMMA ReturnMaps ==
  ASSUME IInv, DestroyReturn
  PROVE  Queue!Close
<1> USE PoolAssumption DEF IInv, TypeOK, ListTypeOK, ThreadTypeOK, Item
<1>1. /\ Linked = allocated
      /\ \A i \in 1..allocated : ran[i] = 1
      /\ \A i \in Item : i > allocated => ran[i] = 0
  BY AllRunAtReturn DEF ItemInv, FreshInv
<1>2. Finished = 1..Linked
  BY <1>1 DEF Finished
<1>3. /\ ran' = ran /\ Linked' = Linked /\ cpc = "join" /\ cpc' = "gone"
      /\ allocated' = allocated
  BY DEF DestroyReturn, Linked, Call
<1>4. Dispatched' = Dispatched
  BY <1>3, DrainedAtReturn DEF Dispatched, DestroyReturn
<1> QED
  BY <1>2, <1>3, <1>4 DEF Queue!Close, Finished

LEMMA NoMemoryMaps ==
  ASSUME IInv, CreateNoMemory
  PROVE  Queue!Close
<1> USE PoolAssumption DEF IInv, TypeOK, ListTypeOK, ThreadTypeOK, Item
<1>1. allocated = 0 /\ cpc = "calloc" /\ cpc' = "gone"
  BY DEF CreateNoMemory, PhaseInv, Call
<1>2. Finished = 1..Linked
  BY <1>1 DEF Finished, Linked, ItemInv, FreshInv
<1>3. /\ ran' = ran /\ Linked' = Linked /\ Dispatched' = Dispatched
  BY <1>1 DEF CreateNoMemory, Linked, Dispatched, queueVars
<1> QED
  BY <1>1, <1>2, <1>3 DEF Queue!Close, Finished

\* Every other step leaves the queue as it is.
LEMMA StutterMaps ==
  ASSUME UNCHANGED <<workHead, Linked, ran>>, cpc' = "gone" <=> cpc = "gone"
  PROVE  UNCHANGED Queue!vars
BY DEF Queue!vars, Dispatched

LEMMA StepMaps ==
  ASSUME IInv, [Next]_vars
  PROVE  [Queue!Next]_Queue!vars
<1> USE DEF Queue!Next
<1>1. CASE SubmitLink
  BY <1>1, SubmitMaps
<1>2. ASSUME NEW w \in Worker, WorkerTake(w) PROVE Queue!Next
  BY <1>2, TakeMaps
<1>3. ASSUME NEW w \in Worker, WorkerRan(w) PROVE Queue!Next
  BY <1>3, RanMaps
<1>4. CASE DestroyReturn
  BY <1>4, ReturnMaps
<1>5. CASE CreateNoMemory
  BY <1>5, NoMemoryMaps
<1>6. CASE SubmitAlloc
  BY <1>6, StutterMaps, PoolAssumption
   DEF SubmitAlloc, Call, Linked, IInv, TypeOK, ListTypeOK
<1>7. CASE UNCHANGED <<workHead, Linked, ran>> /\ (cpc' = "gone" <=> cpc = "gone")
  BY <1>7, StutterMaps
<1> QED
  BY <1>1, <1>2, <1>3, <1>4, <1>5, <1>6, <1>7
   DEF Next, Create, Submit, Wait, Destroy, Work, Stopped, CreateAlloc,
     CreateThread, CreateFails, CreateReturn, SubmitLock, WaitCall, WaitLock,
     WaitPoll, DestroyCall, DestroyLock, DestroyShutdown, DestroyJoin,
     DestroyJoinMissing, WorkerLock, WorkerPark, SpuriousWakeup, WorkerExit,
     WorkerFree, ClientLock, Call, Goto, Linked, queueVars, clientVars, vars

\* The pool implements the abstract queue: tasks start in the order of
\* submission, each is finished once, and the queue closes only when all are.
THEOREM PoolImplementsQueue == Spec => ImplementsQueue
<1>1. IInv /\ [Next]_vars => [Queue!Next]_Queue!vars
  BY StepMaps
<1> QED
  BY InitMaps, <1>1, Invariant, PTL DEF Spec, ImplementsQueue, Queue!Spec
==============================================================================
