--------------------------- MODULE FgrepRunProofs ---------------------------
(***************************************************************************)
(* Theorems about a run of the program, for every command line, every file *)
(* content and every number of threads.  What is proved of the pool alone  *)
(* is used through its theorems: a run drives the pool as its              *)
(* specification allows, so its invariant holds during the run.            *)
(***************************************************************************)
EXTENDS FgrepRun, FiniteSetTheorems, WellFoundedInduction, TLAPS

Thm == INSTANCE WorkPoolProofs

------------------------------------------------------------------------------
(* The inductive invariant behind ContextOutlivesSearches and QueuedPathsLive *)

RunTypes ==
  /\ arg \in Nat \ {0}
  /\ cursor \in Nat
  /\ spc \in [Searcher -> SearchPlaces]
  /\ fwPath \in [1..MaxItems -> Nat \X Nat]

\* Inside which call of the pool main can be, at each of its places.
CallInv ==
  /\ mpc = "start" => ~pooled
  /\ mpc = "create" => pooled
  /\ ~pooled => cpc = "calloc"
  /\ cpc = "calloc" => ~pooled \/ mpc = "create"
  /\ cpc = "spawn" => mpc = "create"
  /\ cpc \in {"submit_lock", "submit"} => mpc = "iterate"
  /\ cpc \in {"wait_lock", "wait"} => mpc = "drain"
  /\ cpc \in {"destroy_lock", "destroy", "join"} => mpc \in {"create", "cleanup"}
  /\ cpc = "gone" => mpc \in {"create", "cleanup", "exited"}
  /\ mpc = "exited" /\ pooled => cpc = "gone"

\* A thread searches only while main waits for it, or the pool runs its item.
SearchInv ==
  /\ \A w \in Worker : spc[w] # "none" => wpc[w] = "run"
  /\ spc[Main] # "none" => mpc \in {"iterate", "stdin"}

\* The queue holds files of the current list only, and once wait has returned
\* it is empty.
QueueInv ==
  /\ freed \subseteq 1..arg - 1
  /\ workHead # 0 => mpc \in {"iterate", "drain"} /\ ~(mpc = "drain" /\ cpc = "idle")
  /\ cpc \in {"submit_lock", "submit"} => fwPath[allocated][1] = arg
  /\ \A i \in Pool!Listed : fwPath[i][1] = arg

RunInv == RunTypes /\ CallInv /\ SearchInv /\ QueueInv
------------------------------------------------------------------------------
\* A run starts with the pool in its initial state.
LEMMA InitPool == Init => Thm!Init
BY DEF Init, Pool!Init, Pool!Item, Pool!Worker, Pool!NULL, Pool!NoThread,
   Thm!Init, Thm!Item, Thm!Worker, Thm!NULL, Thm!NoThread

\* Every step of a run is a step of the pool or leaves the pool alone.
LEMMA StepPool ==
  ASSUME [Next]_vars
  PROVE  [Thm!Next]_Thm!vars
<1> USE DEF
      Pool!Call, Pool!Goto, Pool!ClientLock, Pool!queueVars, Pool!syncVars,
      Pool!workerVars, Pool!clientVars, Pool!SignalOne, Pool!WakeAll,
      Pool!Joinable, Pool!JoinsLeft, Pool!Listed, Pool!MayExit, Pool!Unlink,
      Pool!Item, Pool!Worker, Pool!NULL, Pool!Client, Pool!NoThread,
      Pool!Alive, Pool!vars, Thm!Call, Thm!Goto, Thm!ClientLock,
      Thm!queueVars, Thm!syncVars, Thm!workerVars, Thm!clientVars,
      Thm!SignalOne, Thm!WakeAll, Thm!Joinable, Thm!JoinsLeft, Thm!Listed,
      Thm!MayExit, Thm!Unlink, Thm!Item, Thm!Worker, Thm!NULL, Thm!Client,
      Thm!NoThread, Thm!Alive, Thm!vars
<1>1. CASE CreatePool
  BY <1>1 DEF CreatePool, Thm!Next, Pool!Create, Thm!Create,
     Pool!CreateAlloc, Pool!CreateNoMemory, Pool!CreateThread,
     Pool!CreateFails, Pool!CreateReturn, Thm!CreateAlloc,
     Thm!CreateNoMemory, Thm!CreateThread, Thm!CreateFails, Thm!CreateReturn
<1>2. CASE SubmitFile
  BY <1>2 DEF SubmitFile, Thm!Next, Thm!Submit, Pool!SubmitAlloc, Thm!SubmitAlloc
<1>3. CASE LastFile
  BY <1>3 DEF LastFile, Thm!Next, Thm!Wait, Pool!WaitCall, Thm!WaitCall, poolVars
<1>4. CASE TakeLock
  BY <1>4 DEF TakeLock, Thm!Next, Thm!Submit, Thm!Wait, Thm!Destroy, Pool!SubmitLock,
     Thm!SubmitLock, Pool!WaitLock, Thm!WaitLock, Pool!DestroyLock, Thm!DestroyLock
<1>5. CASE InsidePool
  BY <1>5 DEF InsidePool, Thm!Next, Thm!Submit, Thm!Wait, Thm!Destroy,
     Pool!SubmitLink, Pool!WaitPoll, Pool!DestroyShutdown, Pool!DestroyJoin,
     Pool!DestroyJoinMissing, Pool!DestroyReturn, Thm!SubmitLink,
     Thm!WaitPoll, Thm!DestroyShutdown, Thm!DestroyJoin,
     Thm!DestroyJoinMissing, Thm!DestroyReturn
<1>6. CASE Teardown
  BY <1>6 DEF Teardown, Thm!Next, Thm!Destroy, Pool!DestroyCall, Thm!DestroyCall,
     poolVars
<1>7. ASSUME NEW w \in Worker, WorkerStep(w) PROVE Thm!Next
  <2>1. w \in Thm!Worker
    BY DEF Worker
  <2>2. Thm!Work(w)
    BY <1>7 DEF WorkerStep, Begin, End, Lock, Unlock, Wakeup, Thm!Work,
       Pool!WorkerLock, Pool!WorkerPark, Pool!SpuriousWakeup,
       Pool!WorkerExit, Pool!WorkerTake, Pool!WorkerRan, Pool!WorkerFree,
       Thm!WorkerLock, Thm!WorkerPark, Thm!SpuriousWakeup, Thm!WorkerExit,
       Thm!WorkerTake, Thm!WorkerRan, Thm!WorkerFree
  <2> QED
    BY <2>1, <2>2 DEF Thm!Next
<1>8. CASE UNCHANGED poolVars
  BY <1>8 DEF poolVars
<1> QED
  BY <1>1, <1>2, <1>3, <1>4, <1>5, <1>6, <1>7, <1>8
   DEF Next, MainStep, Start, PoolCreated, ReadStdin, ReadStdinFails, StdinSearched,
     ListFiles, CannotAccess, SkipFile, SearchFile, FreeList, ArgsDone, Exit, Search,
     OpenFile, SearchData, AddMatches, AddFiles, AddMatched, Release, Stopped, vars

\* A run of the program drives the pool as the pool's specification allows.
THEOREM RunDrivesPool == Spec => Thm!Spec
BY InitPool, StepPool, PTL DEF Spec, Thm!Spec

\* What is proved of the pool alone holds during the run.
THEOREM PoolInvariant == Spec => []Thm!IInv
BY RunDrivesPool, RunAssumption, Thm!Invariant, PTL

\* What the pool's invariant says of the variables a run looks at.
LEMMA PoolFacts ==
  ASSUME Thm!IInv
  PROVE  /\ wpc \in [Worker -> Pool!WorkerPlaces]
         /\ workHead \in Nat /\ workTail \in Nat
         /\ allocated \in 0..MaxItems
         /\ workHead # 0 =>
              /\ workHead <= workTail
              /\ workTail = IF cpc \in {"submit_lock", "submit"} THEN allocated - 1
                                                                ELSE allocated
              /\ next[workHead] = IF workHead = workTail THEN 0 ELSE workHead + 1
         /\ workHead = 0 <=> workTail = 0
         /\ cpc \in {"calloc", "gone"} => \A w \in Worker : wpc[w] \in {"none", "exited"}
         /\ cpc = "calloc" => workHead = 0
<1> USE RunAssumption DEF Thm!IInv, Thm!TypeOK, Thm!ListTypeOK, Thm!ThreadTypeOK,
      Thm!Item, Thm!Worker, Worker, Thm!NULL
<1>1. wpc \in [Worker -> Pool!WorkerPlaces]
  BY DEF Thm!WorkerPlaces, Pool!WorkerPlaces
<1>2. workHead # 0 =>
        /\ workHead <= workTail
        /\ workTail = IF cpc \in {"submit_lock", "submit"} THEN allocated - 1
                                                          ELSE allocated
        /\ next[workHead] = IF workHead = workTail THEN 0 ELSE workHead + 1
  <2> SUFFICES ASSUME workHead # 0
               PROVE  /\ workHead <= workTail
                      /\ workTail = Thm!Linked
                      /\ next[workHead] = IF workHead = workTail THEN 0 ELSE workHead + 1
    BY DEF Thm!Linked
  <2> QED
    BY Thm!ListMembers
<1>3. workHead = 0 <=> workTail = 0
  BY DEF Thm!ListWellFormed
<1>4. cpc = "calloc" => \A w \in Worker : wpc[w] = "none"
  BY DEF Thm!PhaseInv
<1>5. cpc = "gone" => \A w \in Worker : wpc[w] \in {"none", "exited"}
  BY DEF Thm!DestroyCompletes
<1>6. cpc = "calloc" => allocated = 0
  BY DEF Thm!PhaseInv
<1>7. cpc = "calloc" => workHead = 0
  BY <1>2, <1>6
<1> QED
  BY <1>1, <1>2, <1>3, <1>4, <1>5, <1>7

\* A step keeps main inside the calls its place allows.
LEMMA CallKept ==
  ASSUME CallInv, [Next]_vars
  PROVE  CallInv'
<1> USE DEF CallInv, Pool!Call, Step, poolVars, mainVars, searchVars,
      Pool!clientVars
<1>1. CASE Start
  <2>1. CASE pooled'
    BY <1>1, <2>1 DEF Start
  <2>2. CASE ~pooled'
    BY <1>1, <2>2 DEF Start
  <2> QED
    BY <2>1, <2>2
<1>2. CASE CreatePool
  BY <1>2
   DEF CreatePool, Pool!Create, Pool!CreateAlloc, Pool!CreateNoMemory,
       Pool!CreateThread, Pool!CreateFails, Pool!CreateReturn
<1>3. CASE PoolCreated
  BY <1>3 DEF PoolCreated
<1>4. CASE ReadStdin
  BY <1>4 DEF ReadStdin
<1>5. CASE ReadStdinFails
  BY <1>5 DEF ReadStdinFails
<1>6. CASE StdinSearched
  BY <1>6 DEF StdinSearched
<1>7. CASE ListFiles
  BY <1>7 DEF ListFiles
<1>8. CASE CannotAccess
  BY <1>8 DEF CannotAccess
<1>9. CASE SubmitFile
  BY <1>9 DEF SubmitFile, Iterating, Pool!SubmitAlloc
<1>10. CASE SkipFile
  BY <1>10 DEF SkipFile, Iterating
<1>11. CASE SearchFile
  BY <1>11 DEF SearchFile, Iterating
<1>12. CASE LastFile
  BY <1>12 DEF LastFile, Pool!WaitCall
<1>13. CASE TakeLock
  BY <1>13
   DEF TakeLock, Pool!SubmitLock, Pool!WaitLock, Pool!DestroyLock,
       Pool!ClientLock
<1>14. CASE InsidePool
  BY <1>14
   DEF InsidePool, Pool!SubmitLink, Pool!WaitPoll, Pool!DestroyShutdown,
       Pool!DestroyJoin, Pool!DestroyJoinMissing, Pool!DestroyReturn,
       Pool!SignalOne, Pool!WakeAll, Pool!Joinable, Pool!JoinsLeft
<1>15. CASE FreeList
  BY <1>15 DEF FreeList, Drained
<1>16. CASE ArgsDone
  BY <1>16 DEF ArgsDone
<1>17. CASE Teardown
  BY <1>17 DEF Teardown, Pool!DestroyCall
<1>18. CASE Exit
  BY <1>18 DEF Exit, Destroyed
<1>19. ASSUME NEW s \in Searcher, OpenFile(s) PROVE CallInv'
  BY <1>19 DEF OpenFile
<1>20. ASSUME NEW s \in Searcher, SearchData(s) PROVE CallInv'
  BY <1>20 DEF SearchData
<1>21. ASSUME NEW s \in Searcher, AddMatches(s) PROVE CallInv'
  BY <1>21 DEF AddMatches
<1>22. ASSUME NEW s \in Searcher, AddFiles(s) PROVE CallInv'
  BY <1>22 DEF AddFiles
<1>23. ASSUME NEW s \in Searcher, AddMatched(s) PROVE CallInv'
  BY <1>23 DEF AddMatched
<1>24. ASSUME NEW s \in Searcher, Release(s) PROVE CallInv'
  BY <1>24 DEF Release
<1>25. ASSUME NEW w \in Worker, Begin(w) PROVE CallInv'
  BY <1>25 DEF Begin, Pool!WorkerTake, Pool!Unlink
<1>26. ASSUME NEW w \in Worker, End(w) PROVE CallInv'
  BY <1>26 DEF End, Pool!WorkerRan
<1>27. ASSUME NEW w \in Worker, Lock(w) PROVE CallInv'
  BY <1>27 DEF Lock, Pool!WorkerLock
<1>28. ASSUME NEW w \in Worker, Unlock(w) PROVE CallInv'
  BY <1>28
   DEF Unlock, Pool!WorkerPark, Pool!WorkerExit, Pool!WorkerFree,
       Pool!MayExit
<1>29. ASSUME NEW w \in Worker, Wakeup(w) PROVE CallInv'
  BY <1>29 DEF Wakeup, Pool!SpuriousWakeup
<1>30. CASE UNCHANGED vars
  BY <1>30 DEF vars
<1> QED
  BY <1>1, <1>2, <1>3, <1>4, <1>5, <1>6, <1>7, <1>8, <1>9, <1>10, <1>11,
  <1>12, <1>13, <1>14, <1>15, <1>16, <1>17, <1>18, <1>19, <1>20, <1>21,
  <1>22, <1>23, <1>24, <1>25, <1>26, <1>27, <1>28, <1>29, <1>30
   DEF Next, MainStep, WorkerStep, Search, Stopped

\* A step keeps the types.
LEMMA TypesOfRunKept ==
  ASSUME Thm!IInv, RunTypes, [Next]_vars
  PROVE  RunTypes'
<1> USE DEF RunTypes, Searcher, Main, SearchPlaces, Step, Move,
      mainVars, searchVars
<1>1. CASE Start
  BY <1>1, RunAssumption DEF Start
<1>2. CASE CreatePool
  BY <1>2, RunAssumption
   DEF CreatePool, Pool!Create, Pool!CreateAlloc, Pool!CreateNoMemory,
       Pool!CreateThread, Pool!CreateFails, Pool!CreateReturn
<1>3. CASE PoolCreated
  BY <1>3, RunAssumption DEF PoolCreated
<1>4. CASE ReadStdin
  BY <1>4, RunAssumption DEF ReadStdin
<1>5. CASE ReadStdinFails
  BY <1>5, RunAssumption DEF ReadStdinFails
<1>6. CASE StdinSearched
  BY <1>6, RunAssumption DEF StdinSearched
<1>7. CASE ListFiles
  BY <1>7, RunAssumption DEF ListFiles
<1>8. CASE CannotAccess
  BY <1>8, RunAssumption DEF CannotAccess
<1>9. CASE SubmitFile
  <2>1. /\ fwPath' = [fwPath EXCEPT ![allocated + 1] = <<arg, cursor>>]
        /\ arg' = arg /\ cursor' = cursor + 1 /\ spc' = spc
    BY <1>9 DEF SubmitFile
  <2>2. fwPath' \in [1..MaxItems -> Nat \X Nat]
    BY <2>1
  <2> QED
    BY <2>1, <2>2
<1>10. CASE SkipFile
  BY <1>10, RunAssumption DEF SkipFile, Iterating
<1>11. CASE SearchFile
  BY <1>11, RunAssumption DEF SearchFile, Iterating
<1>12. CASE LastFile
  BY <1>12, RunAssumption DEF LastFile, Pool!WaitCall
<1>13. CASE TakeLock
  BY <1>13, RunAssumption
   DEF TakeLock, Pool!SubmitLock, Pool!WaitLock, Pool!DestroyLock,
       Pool!ClientLock
<1>14. CASE InsidePool
  BY <1>14, RunAssumption
   DEF InsidePool, Pool!SubmitLink, Pool!WaitPoll, Pool!DestroyShutdown,
       Pool!DestroyJoin, Pool!DestroyJoinMissing, Pool!DestroyReturn,
       Pool!SignalOne, Pool!WakeAll, Pool!Joinable, Pool!JoinsLeft
<1>15. CASE FreeList
  BY <1>15, RunAssumption DEF FreeList, Drained
<1>16. CASE ArgsDone
  BY <1>16, RunAssumption DEF ArgsDone
<1>17. CASE Teardown
  BY <1>17, RunAssumption DEF Teardown, Pool!DestroyCall
<1>18. CASE Exit
  BY <1>18, RunAssumption DEF Exit, Destroyed
<1>19. ASSUME NEW s \in Searcher, OpenFile(s) PROVE RunTypes'
  BY <1>19, RunAssumption DEF OpenFile
<1>20. ASSUME NEW s \in Searcher, SearchData(s) PROVE RunTypes'
  BY <1>20, RunAssumption DEF SearchData
<1>21. ASSUME NEW s \in Searcher, AddMatches(s) PROVE RunTypes'
  BY <1>21, RunAssumption DEF AddMatches
<1>22. ASSUME NEW s \in Searcher, AddFiles(s) PROVE RunTypes'
  BY <1>22, RunAssumption DEF AddFiles
<1>23. ASSUME NEW s \in Searcher, AddMatched(s) PROVE RunTypes'
  BY <1>23, RunAssumption DEF AddMatched
<1>24. ASSUME NEW s \in Searcher, Release(s) PROVE RunTypes'
  BY <1>24, RunAssumption DEF Release
<1>25. ASSUME NEW w \in Worker, Begin(w) PROVE RunTypes'
  BY <1>25, RunAssumption DEF Begin, Pool!WorkerTake, Pool!Unlink
<1>26. ASSUME NEW w \in Worker, End(w) PROVE RunTypes'
  BY <1>26, RunAssumption DEF End, Pool!WorkerRan
<1>27. ASSUME NEW w \in Worker, Lock(w) PROVE RunTypes'
  BY <1>27, RunAssumption DEF Lock, Pool!WorkerLock
<1>28. ASSUME NEW w \in Worker, Unlock(w) PROVE RunTypes'
  BY <1>28, RunAssumption
   DEF Unlock, Pool!WorkerPark, Pool!WorkerExit, Pool!WorkerFree,
       Pool!MayExit
<1>29. ASSUME NEW w \in Worker, Wakeup(w) PROVE RunTypes'
  BY <1>29, RunAssumption DEF Wakeup, Pool!SpuriousWakeup
<1>30. CASE UNCHANGED vars
  BY <1>30 DEF vars
<1> QED
  BY <1>1, <1>2, <1>3, <1>4, <1>5, <1>6, <1>7, <1>8, <1>9, <1>10, <1>11,
  <1>12, <1>13, <1>14, <1>15, <1>16, <1>17, <1>18, <1>19, <1>20, <1>21,
  <1>22, <1>23, <1>24, <1>25, <1>26, <1>27, <1>28, <1>29, <1>30
   DEF Next, MainStep, WorkerStep, Search, Stopped

\* A step keeps searches inside the calls that wait for them.
LEMMA SearchKept ==
  ASSUME Thm!IInv, RunTypes, CallInv, SearchInv, [Next]_vars
  PROVE  SearchInv'
<1> USE DEF RunTypes, CallInv, SearchInv, Step, Move, Searcher,
      Worker, Main, mainVars, searchVars, poolVars, Pool!Goto, Pool!Call,
      Pool!workerVars, Pool!Worker
<1>1. CASE Start
  BY <1>1, PoolFacts DEF Start
<1>2. CASE CreatePool
  BY <1>2, PoolFacts
   DEF CreatePool, Pool!Create, Pool!CreateAlloc, Pool!CreateNoMemory,
       Pool!CreateThread, Pool!CreateFails, Pool!CreateReturn
<1>3. CASE PoolCreated
  BY <1>3, PoolFacts DEF PoolCreated
<1>4. CASE ReadStdin
  BY <1>4, PoolFacts DEF ReadStdin
<1>5. CASE ReadStdinFails
  BY <1>5, PoolFacts DEF ReadStdinFails
<1>6. CASE StdinSearched
  BY <1>6, PoolFacts DEF StdinSearched
<1>7. CASE ListFiles
  BY <1>7, PoolFacts DEF ListFiles
<1>8. CASE CannotAccess
  BY <1>8, PoolFacts DEF CannotAccess
<1>9. CASE SubmitFile
  BY <1>9, PoolFacts DEF SubmitFile, Iterating, Pool!SubmitAlloc
<1>10. CASE SkipFile
  BY <1>10, PoolFacts DEF SkipFile, Iterating
<1>11. CASE SearchFile
  BY <1>11, PoolFacts DEF SearchFile, Iterating
<1>12. CASE LastFile
  BY <1>12, PoolFacts DEF LastFile, Pool!WaitCall
<1>13. CASE TakeLock
  BY <1>13, PoolFacts
   DEF TakeLock, Pool!SubmitLock, Pool!WaitLock, Pool!DestroyLock,
       Pool!ClientLock
<1>14. CASE InsidePool
  BY <1>14, PoolFacts
   DEF InsidePool, Pool!SubmitLink, Pool!WaitPoll, Pool!DestroyShutdown,
       Pool!DestroyJoin, Pool!DestroyJoinMissing, Pool!DestroyReturn,
       Pool!SignalOne, Pool!WakeAll, Pool!Joinable, Pool!JoinsLeft
<1>15. CASE FreeList
  BY <1>15, PoolFacts DEF FreeList, Drained
<1>16. CASE ArgsDone
  BY <1>16, PoolFacts DEF ArgsDone
<1>17. CASE Teardown
  BY <1>17, PoolFacts DEF Teardown, Pool!DestroyCall
<1>18. CASE Exit
  BY <1>18, PoolFacts DEF Exit, Destroyed
<1>19. ASSUME NEW s \in Searcher, OpenFile(s) PROVE SearchInv'
  BY <1>19, PoolFacts DEF OpenFile
<1>20. ASSUME NEW s \in Searcher, SearchData(s) PROVE SearchInv'
  BY <1>20, PoolFacts DEF SearchData
<1>21. ASSUME NEW s \in Searcher, AddMatches(s) PROVE SearchInv'
  BY <1>21, PoolFacts DEF AddMatches
<1>22. ASSUME NEW s \in Searcher, AddFiles(s) PROVE SearchInv'
  BY <1>22, PoolFacts DEF AddFiles
<1>23. ASSUME NEW s \in Searcher, AddMatched(s) PROVE SearchInv'
  BY <1>23, PoolFacts DEF AddMatched
<1>24. ASSUME NEW s \in Searcher, Release(s) PROVE SearchInv'
  BY <1>24, PoolFacts DEF Release
<1>25. ASSUME NEW w \in Worker, Begin(w) PROVE SearchInv'
  BY <1>25, PoolFacts DEF Begin, Pool!WorkerTake, Pool!Unlink
<1>26. ASSUME NEW w \in Worker, End(w) PROVE SearchInv'
  BY <1>26, PoolFacts DEF End, Pool!WorkerRan
<1>27. ASSUME NEW w \in Worker, Lock(w) PROVE SearchInv'
  BY <1>27, PoolFacts DEF Lock, Pool!WorkerLock
<1>28. ASSUME NEW w \in Worker, Unlock(w) PROVE SearchInv'
  BY <1>28, PoolFacts
   DEF Unlock, Pool!WorkerPark, Pool!WorkerExit, Pool!WorkerFree,
       Pool!MayExit
<1>29. ASSUME NEW w \in Worker, Wakeup(w) PROVE SearchInv'
  BY <1>29, PoolFacts DEF Wakeup, Pool!SpuriousWakeup
<1>30. CASE UNCHANGED vars
  BY <1>30 DEF vars
<1> QED
  BY <1>1, <1>2, <1>3, <1>4, <1>5, <1>6, <1>7, <1>8, <1>9, <1>10, <1>11,
  <1>12, <1>13, <1>14, <1>15, <1>16, <1>17, <1>18, <1>19, <1>20, <1>21,
  <1>22, <1>23, <1>24, <1>25, <1>26, <1>27, <1>28, <1>29, <1>30
   DEF Next, MainStep, WorkerStep, Search, Stopped

\* A step keeps the queue free of files of lists that were freed.
LEMMA QueueKept ==
  ASSUME Thm!IInv, RunTypes, CallInv, QueueInv, [Next]_vars
  PROVE  QueueInv'
<1> USE DEF RunTypes, CallInv, QueueInv, Pool!Listed, Pool!NULL,
      Step, Pool!Call, mainVars, searchVars, poolVars, Pool!clientVars,
      Pool!queueVars
<1>1. CASE Start
  BY <1>1, PoolFacts, RunAssumption DEF Start
<1>2. CASE CreatePool
  BY <1>2, PoolFacts, RunAssumption
   DEF CreatePool, Pool!Create, Pool!CreateAlloc, Pool!CreateNoMemory,
       Pool!CreateThread, Pool!CreateFails, Pool!CreateReturn
<1>3. CASE PoolCreated
  BY <1>3, PoolFacts, RunAssumption DEF PoolCreated
<1>4. CASE ReadStdin
  BY <1>4, PoolFacts, RunAssumption DEF ReadStdin
<1>5. CASE ReadStdinFails
  BY <1>5, PoolFacts, RunAssumption DEF ReadStdinFails
<1>6. CASE StdinSearched
  BY <1>6, PoolFacts, RunAssumption DEF StdinSearched
<1>7. CASE ListFiles
  BY <1>7, PoolFacts, RunAssumption DEF ListFiles
<1>8. CASE CannotAccess
  BY <1>8, PoolFacts, RunAssumption DEF CannotAccess
<1>9. CASE SubmitFile
  BY SMTT(20), <1>9, PoolFacts, RunAssumption DEF SubmitFile, Iterating, Pool!SubmitAlloc
<1>10. CASE SkipFile
  BY <1>10, PoolFacts, RunAssumption DEF SkipFile, Iterating
<1>11. CASE SearchFile
  BY <1>11, PoolFacts, RunAssumption DEF SearchFile, Iterating
<1>12. CASE LastFile
  BY <1>12, PoolFacts, RunAssumption DEF LastFile, Pool!WaitCall
<1>13. CASE TakeLock
  BY <1>13, PoolFacts, RunAssumption
   DEF TakeLock, Pool!SubmitLock, Pool!WaitLock, Pool!DestroyLock,
       Pool!ClientLock
<1>14. CASE InsidePool
  <2>1. /\ fwPath' = fwPath /\ arg' = arg /\ mpc' = mpc /\ freed' = freed
        /\ allocated' = allocated
    BY <1>14 DEF InsidePool, Pool!SubmitLink, Pool!WaitPoll, Pool!DestroyShutdown,
       Pool!DestroyJoin, Pool!DestroyJoinMissing, Pool!DestroyReturn
  <2>2. CASE Pool!SubmitLink
    <3>1. /\ cpc = "submit" /\ cpc' = "idle" /\ mpc = "iterate"
          /\ workTail' = allocated
          /\ workHead' = IF workTail = 0 THEN allocated ELSE workHead
          /\ fwPath[allocated][1] = arg
      BY <2>2 DEF Pool!SubmitLink
    <3>2. Pool!Listed' \subseteq Pool!Listed \cup {allocated}
      BY <3>1, PoolFacts, RunAssumption
    <3>3. \A i \in Pool!Listed' : fwPath[i][1] = arg
      BY <3>1, <3>2
    <3> HIDE DEF Pool!Listed
    <3> QED
      BY <2>1, <3>1, <3>3
  <2>3. CASE Pool!WaitPoll
    BY <2>1, <2>3 DEF Pool!WaitPoll
  <2>4. CASE Pool!DestroyReturn
    BY <2>1, <2>4 DEF Pool!DestroyReturn
  <2>5. CASE Pool!DestroyShutdown \/ Pool!DestroyJoin \/ Pool!DestroyJoinMissing
    BY <2>1, <2>5 DEF Pool!DestroyShutdown, Pool!DestroyJoin, Pool!DestroyJoinMissing
  <2> QED
    BY <1>14, <2>2, <2>3, <2>4, <2>5 DEF InsidePool
<1>15. CASE FreeList
  <2>1. workHead = 0 /\ workHead' = 0 /\ cpc' = cpc
    BY <1>15, PoolFacts DEF FreeList, Drained
  <2>2. /\ mpc' = "args" /\ cpc \notin {"submit_lock", "submit"}
        /\ freed' = freed \cup {arg} /\ arg' = arg + 1
    BY <1>15 DEF FreeList
  <2> QED
    BY <2>1, <2>2
<1>16. CASE ArgsDone
  BY <1>16, PoolFacts, RunAssumption DEF ArgsDone
<1>17. CASE Teardown
  BY <1>17, PoolFacts, RunAssumption DEF Teardown, Pool!DestroyCall
<1>18. CASE Exit
  BY <1>18, PoolFacts, RunAssumption DEF Exit, Destroyed
<1>19. ASSUME NEW s \in Searcher, OpenFile(s) PROVE QueueInv'
  BY <1>19, PoolFacts, RunAssumption DEF OpenFile
<1>20. ASSUME NEW s \in Searcher, SearchData(s) PROVE QueueInv'
  BY <1>20, PoolFacts, RunAssumption DEF SearchData
<1>21. ASSUME NEW s \in Searcher, AddMatches(s) PROVE QueueInv'
  BY <1>21, PoolFacts, RunAssumption DEF AddMatches
<1>22. ASSUME NEW s \in Searcher, AddFiles(s) PROVE QueueInv'
  BY <1>22, PoolFacts, RunAssumption DEF AddFiles
<1>23. ASSUME NEW s \in Searcher, AddMatched(s) PROVE QueueInv'
  BY <1>23, PoolFacts, RunAssumption DEF AddMatched
<1>24. ASSUME NEW s \in Searcher, Release(s) PROVE QueueInv'
  BY <1>24, PoolFacts, RunAssumption DEF Release
<1>25. ASSUME NEW w \in Worker, Begin(w) PROVE QueueInv'
  <2>1. /\ fwPath' = fwPath /\ arg' = arg /\ mpc' = mpc /\ freed' = freed
        /\ cpc' = cpc /\ allocated' = allocated
    BY <1>25 DEF Begin, Pool!WorkerTake
  <2>2. /\ workHead # 0
        /\ workHead' = next[workHead]
        /\ workTail' = IF next[workHead] = 0 THEN 0 ELSE workTail
    BY <1>25 DEF Begin, Pool!WorkerTake, Pool!Unlink
  <2>3. Pool!Listed' \subseteq Pool!Listed
    BY <2>2, PoolFacts, RunAssumption
  <2> HIDE DEF Pool!Listed
  <2> QED
    BY <2>1, <2>2, <2>3
<1>26. ASSUME NEW w \in Worker, End(w) PROVE QueueInv'
  BY <1>26, PoolFacts, RunAssumption DEF End, Pool!WorkerRan
<1>27. ASSUME NEW w \in Worker, Lock(w) PROVE QueueInv'
  BY <1>27, PoolFacts, RunAssumption DEF Lock, Pool!WorkerLock
<1>28. ASSUME NEW w \in Worker, Unlock(w) PROVE QueueInv'
  BY <1>28, PoolFacts, RunAssumption
   DEF Unlock, Pool!WorkerPark, Pool!WorkerExit, Pool!WorkerFree,
       Pool!MayExit
<1>29. ASSUME NEW w \in Worker, Wakeup(w) PROVE QueueInv'
  BY <1>29, PoolFacts, RunAssumption DEF Wakeup, Pool!SpuriousWakeup
<1>30. CASE UNCHANGED vars
  BY <1>30 DEF vars
<1> QED
  BY <1>1, <1>2, <1>3, <1>4, <1>5, <1>6, <1>7, <1>8, <1>9, <1>10, <1>11,
  <1>12, <1>13, <1>14, <1>15, <1>16, <1>17, <1>18, <1>19, <1>20, <1>21,
  <1>22, <1>23, <1>24, <1>25, <1>26, <1>27, <1>28, <1>29, <1>30
   DEF Next, MainStep, WorkerStep, Search, Stopped

LEMMA InitRun == Init => RunInv
<1> SUFFICES ASSUME Init PROVE RunInv
  OBVIOUS
<1>1. cpc = "calloc" /\ workHead = 0
  BY DEF Init, Pool!Init, Pool!NULL
<1> QED
  BY <1>1, RunAssumption
   DEF Init, RunInv, RunTypes, CallInv, SearchInv, QueueInv, Pool!Listed, Pool!NULL,
       NoPath, Searcher, SearchPlaces, Main, Worker

LEMMA StepRun == Thm!IInv /\ RunInv /\ [Next]_vars => RunInv'
BY TypesOfRunKept, CallKept, SearchKept, QueueKept DEF RunInv

\* The invariant of the run and that of the pool hold together.
THEOREM RunInvariant == Spec => [](RunInv /\ Thm!IInv)
BY InitRun, StepRun, PoolInvariant, PTL DEF Spec

\* No thread is inside a search when main returns, so none can use the pattern,
\* the options or the statistics of a frame that is gone.
THEOREM ContextSafe == Spec => []ContextOutlivesSearches
<1>1. RunInv /\ Thm!IInv => ContextOutlivesSearches
  <2> SUFFICES ASSUME RunInv, Thm!IInv, mpc = "exited", NEW s \in Searcher
               PROVE  spc[s] = "none"
    BY DEF ContextOutlivesSearches
  <2>1. \A w \in Worker : wpc[w] \in {"none", "exited"}
    BY PoolFacts DEF RunInv, CallInv
  <2> QED
    BY <2>1 DEF RunInv, SearchInv, Searcher, Main
<1> QED
  BY <1>1, RunInvariant, PTL

\* No list is freed while a file of it is still in the queue.
THEOREM QueuedPathsSafe == Spec => []QueuedPathsLive
<1>1. RunInv => QueuedPathsLive
  BY DEF RunInv, RunTypes, QueueInv, QueuedPathsLive
<1> QED
  BY <1>1, RunInvariant, PTL

------------------------------------------------------------------------------
(* The inductive invariant behind ExitCodeTellsMatches *)

Sources == Files \cup {Stdin}

\* The places of the paths on the command line.
Placed ==
  {p \in Nat \X Nat : p[1] \in DOMAIN args /\ p[2] \in DOMAIN args[p[1]]}

\* Every path that is searched is one of them.
PathInv ==
  /\ args \in ArgLists
  /\ cursor # 0
  /\ mpc = "iterate" => arg \in DOMAIN args
  /\ \A k \in 1..allocated : fwPath[k] \in Placed
  /\ spc[Main] = "open" => current \in Placed

Adding == {"add_matches", "add_files", "add_matched"}
Reading == {"search"} \cup Adding

StatsTypes ==
  /\ stats \in [total_matches : Nat, total_files : Nat, files_matched : Nat]
  /\ searched \in [Sources -> Nat]
  /\ reading \in [Searcher -> Sources \cup {NoFile}]

\* A search that adds to the statistics has a file, which it has searched.
FileInv ==
  /\ \A s \in Searcher : spc[s] \in Reading => reading[s] \in Sources
  /\ \A s \in Searcher : spc[s] \in Adding => searched[reading[s]] > 0

\* The files with a match that were searched.
Hits == {f \in Sources : searched[f] > 0 /\ Matches[f] > 0}

\* The two sums the exit code looks at are 0 unless there was such a file, and
\* it has been added, or some search is about to add it.
SumInv ==
  /\ stats.total_matches > 0 => Hits # {}
  /\ stats.files_matched > 0 => Hits # {}
  /\ \A f \in Hits : stats.total_matches = 0 =>
       \E s \in Searcher : spc[s] = "add_matches" /\ reading[s] = f
  /\ \A f \in Hits : stats.files_matched = 0 =>
       \E s \in Searcher : spc[s] \in Adding /\ reading[s] = f

ExitInv == PathInv /\ StatsTypes /\ FileInv /\ SumInv
------------------------------------------------------------------------------
\* A worker that searches holds an item that main has submitted.
LEMMA HeldIsAllocated ==
  ASSUME Thm!IInv, RunInv, NEW w \in Worker, spc[w] # "none"
  PROVE  held[w] \in 1..allocated
<1>1. wpc[w] = "run"
  BY DEF RunInv, SearchInv
<1>2. held[w] \in 1..Thm!Dispatched
  BY <1>1 DEF Thm!IInv, Thm!ItemInv, Thm!HeldInv, Thm!Worker, Worker
<1> QED
  BY <1>2, PoolFacts DEF Thm!Dispatched, Thm!Linked

\* Reading the path of a search yields a file, or nothing.
LEMMA NamedFiles ==
  ASSUME Thm!IInv, RunInv, PathInv, NEW s \in Searcher, spc[s] = "open"
  PROVE  Names(PathOf(s)) \subseteq Files \cup {NoFile}
<1>1. PathOf(s) \in Placed
  <2>1. CASE s = Main
    BY <2>1 DEF PathInv, PathOf
  <2>2. CASE s # Main
    <3>1. s \in Worker
      BY <2>2 DEF Searcher
    <3>2. held[s] \in 1..allocated
      BY <3>1, HeldIsAllocated
    <3> QED
      BY <2>2, <3>2 DEF PathInv, PathOf
  <2> QED
    BY <2>1, <2>2
<1>2. args \in Seq(Seq(Files))
  BY RunAssumption DEF PathInv, RunAssumption
<1>3. \A b \in DOMAIN args : ListedIn(b) \subseteq Files
  BY <1>2 DEF ListedIn
<1>4. \A b \in Made : b \in DOMAIN args
  BY DEF Made
<1>5. args[PathOf(s)[1]][PathOf(s)[2]] \in Files
  BY <1>1, <1>2 DEF Placed
<1> QED
  BY <1>3, <1>4, <1>5 DEF Names

\* A step that is not one of a search leaves the statistics alone, and starts
\* no search that is past the opening of its file but that of standard input.
Quiet ==
  /\ UNCHANGED <<stats, searched>>
  /\ \A s \in Searcher :
       \/ spc'[s] = spc[s] /\ reading'[s] = reading[s]
       \/ /\ spc[s] \notin Reading /\ spc'[s] \notin Adding
          /\ spc'[s] = "search" => reading'[s] = Stdin

LEMMA SearchersMove ==
  ASSUME MainStep \/ (\E w \in Worker : WorkerStep(w)) \/ UNCHANGED vars
  PROVE  \/ UNCHANGED <<spc, reading, stats, searched>>
         \/ ReadStdin
         \/ SearchFile
         \/ \E w \in Worker : Begin(w) \/ End(w)
BY DEF MainStep, WorkerStep, Start, CreatePool, PoolCreated, ReadStdinFails,
   StdinSearched, ListFiles, CannotAccess, SubmitFile, SkipFile, LastFile, TakeLock,
   InsidePool, FreeList, ArgsDone, Teardown, Exit, Lock, Unlock, Wakeup, mainVars,
   searchVars, vars

LEMMA QuietSteps ==
  ASSUME Thm!IInv, RunInv, StatsTypes,
         MainStep \/ (\E w \in Worker : WorkerStep(w)) \/ UNCHANGED vars
  PROVE  Quiet /\ reading' \in [Searcher -> Sources \cup {NoFile}]
<1> USE DEF Quiet, Reading, Adding
<1>1. /\ spc \in [Searcher -> SearchPlaces]
      /\ reading \in [Searcher -> Sources \cup {NoFile}]
      /\ Main \in Searcher
  BY DEF RunInv, RunTypes, StatsTypes, Searcher
<1>2. CASE UNCHANGED <<spc, reading, stats, searched>>
  BY <1>1, <1>2
<1>3. CASE ReadStdin
  <2>1. /\ spc[Main] = "none"
        /\ spc' = [spc EXCEPT ![Main] = "search"]
        /\ reading' = [reading EXCEPT ![Main] = Stdin]
        /\ UNCHANGED <<stats, searched>>
    BY <1>3 DEF ReadStdin, Step, RunInv, SearchInv
  <2>2. \A s \in Searcher : s # Main => spc'[s] = spc[s] /\ reading'[s] = reading[s]
    BY <1>1, <2>1
  <2>3. spc'[Main] = "search" /\ reading'[Main] = Stdin
    BY <1>1, <2>1
  <2>4. reading' \in [Searcher -> Sources \cup {NoFile}]
    BY <1>1, <2>1 DEF Sources
  <2> QED
    BY <2>1, <2>2, <2>3, <2>4
<1>4. CASE SearchFile
  <2>1. /\ spc[Main] = "none"
        /\ spc' = [spc EXCEPT ![Main] = "open"]
        /\ UNCHANGED <<reading, stats, searched>>
    BY <1>4 DEF SearchFile, Iterating
  <2> QED
    BY <1>1, <2>1
<1>5. ASSUME NEW w \in Worker, Begin(w)
      PROVE  Quiet /\ reading' \in [Searcher -> Sources \cup {NoFile}]
  <2>1. /\ spc' = [spc EXCEPT ![w] = "open"]
        /\ UNCHANGED <<reading, stats, searched>>
        /\ wpc[w] = "test"
    BY <1>5 DEF Begin, Pool!WorkerTake, Pool!Goto
  <2>2. spc[w] = "none"
    BY <2>1 DEF RunInv, SearchInv
  <2> QED
    BY <1>1, <2>1, <2>2
<1>6. ASSUME NEW w \in Worker, End(w)
      PROVE  Quiet /\ reading' \in [Searcher -> Sources \cup {NoFile}]
  <2>1. /\ spc[w] = "done"
        /\ spc' = [spc EXCEPT ![w] = "none"]
        /\ UNCHANGED <<reading, stats, searched>>
    BY <1>6 DEF End, Move
  <2> QED
    BY <1>1, <2>1
<1> QED
  BY <1>2, <1>3, <1>4, <1>5, <1>6, SearchersMove

\* A quiet step keeps what the exit code rests on.
LEMMA QuietKeeps ==
  ASSUME Quiet, StatsTypes, FileInv, SumInv, reading' \in [Searcher -> Sources \cup {NoFile}]
  PROVE  StatsTypes' /\ FileInv' /\ SumInv'
<1> USE DEF Reading, Adding
<1>1. StatsTypes'
  BY DEF StatsTypes, Quiet, Sources
<1>2. Hits' = Hits
  BY DEF Hits, Quiet, Sources
<1>3. FileInv'
  BY DEF FileInv, Quiet, Sources
<1>4. ASSUME NEW f \in Hits, NEW s \in Searcher, spc[s] \in Adding, reading[s] = f
      PROVE  spc'[s] = spc[s] /\ reading'[s] = f
  BY <1>4 DEF Quiet
<1>5. SumInv'
  BY <1>2, <1>4 DEF SumInv, Quiet
<1> QED
  BY <1>1, <1>3, <1>5

\* A step keeps the paths.
LEMMA PathKept ==
  ASSUME Thm!IInv, RunInv, PathInv, [Next]_vars
  PROVE  PathInv'
<1>1. spc \in [Searcher -> SearchPlaces] /\ Main \in Searcher
  BY DEF RunInv, RunTypes, Searcher
<1>2. fwPath \in [1..MaxItems -> Nat \X Nat] /\ allocated \in 0..MaxItems
  BY PoolFacts DEF RunInv, RunTypes
<1>3. args' = args /\ Placed' = Placed
  BY DEF Next, MainStep, WorkerStep, Start, CreatePool, PoolCreated, ReadStdin,
     ReadStdinFails, StdinSearched, ListFiles, CannotAccess, SubmitFile, SkipFile,
     SearchFile, LastFile, TakeLock, InsidePool, FreeList, ArgsDone, Teardown, Exit,
     Begin, End, Lock, Unlock, Wakeup, Search, OpenFile, SearchData, AddMatches,
     AddFiles, AddMatched, Release, Stopped, mainVars, vars, Placed
<1>4. cursor' # 0 /\ (mpc' = "iterate" => arg' \in DOMAIN args)
  <2>1. cursor' \in {cursor, 1, cursor + 1} /\ cursor \in Nat
    BY DEF RunInv, RunTypes, Next, MainStep, WorkerStep, Start, CreatePool, PoolCreated,
       ReadStdin, ReadStdinFails, StdinSearched, ListFiles, CannotAccess, SubmitFile,
       SkipFile, SearchFile, LastFile, TakeLock, InsidePool, FreeList, ArgsDone,
       Teardown, Exit, Begin, End, Lock, Unlock, Wakeup, Search, OpenFile, SearchData,
       AddMatches, AddFiles, AddMatched, Release, Stopped, mainVars, vars
  <2>2. mpc' = "iterate" => arg' \in DOMAIN args
    BY DEF PathInv, Step, Next, MainStep, WorkerStep, Start, CreatePool, PoolCreated,
       ReadStdin, ReadStdinFails, StdinSearched, ListFiles, CannotAccess, SubmitFile,
       SkipFile, SearchFile, LastFile, TakeLock, InsidePool, FreeList, ArgsDone,
       Teardown, Exit, Begin, End, Lock, Unlock, Wakeup, Search, OpenFile, SearchData,
       AddMatches, AddFiles, AddMatched, Release, Stopped, mainVars, vars
  <2> QED
    BY <2>1, <2>2 DEF PathInv
<1>5. Iterating => <<arg, cursor>> \in Placed
  <2> SUFFICES ASSUME Iterating PROVE <<arg, cursor>> \in Placed
    OBVIOUS
  <2>1. args \in Seq(Seq(Files)) /\ arg \in DOMAIN args /\ arg \in Nat /\ cursor \in Nat
    BY RunAssumption DEF Iterating, PathInv, RunAssumption, RunInv, RunTypes
  <2>2. args[arg] \in Seq(Files) /\ cursor \in 1..Len(args[arg])
    BY <2>1 DEF Iterating, AtEnd, PathInv
  <2> QED
    BY <2>1, <2>2 DEF Placed
<1>6. CASE SubmitFile
  <2>1. /\ fwPath' = [fwPath EXCEPT ![allocated + 1] = <<arg, cursor>>]
        /\ allocated' = allocated + 1 /\ spc' = spc /\ current' = current
        /\ <<arg, cursor>> \in Placed
    BY <1>5, <1>6 DEF SubmitFile, Pool!SubmitAlloc, searchVars
  <2>2. \A k \in 1..allocated' : fwPath'[k] \in Placed
    <3>1. allocated + 1 \in 1..MaxItems
      BY <1>6, <1>2, RunAssumption DEF SubmitFile, Pool!SubmitAlloc
    <3> QED
      BY <1>2, <2>1, <3>1 DEF PathInv
  <2> QED
    BY <1>3, <1>4, <2>1, <2>2 DEF PathInv
<1>7. CASE SearchFile
  <2>1. /\ current' = <<arg, cursor>> /\ fwPath' = fwPath /\ allocated' = allocated
    BY <1>7 DEF SearchFile, poolVars
  <2> QED
    BY <1>3, <1>4, <1>5, <1>7, <2>1 DEF PathInv, SearchFile
<1>8. ASSUME UNCHANGED <<fwPath, allocated, current>>, spc'[Main] = "open" => spc[Main] = "open"
      PROVE  PathInv'
  BY <1>3, <1>4, <1>8 DEF PathInv
<1>9. ASSUME NEW s \in Searcher, Search(s) PROVE PathInv'
  <2>1. UNCHANGED <<fwPath, allocated, current>>
    BY <1>9 DEF Search, OpenFile, SearchData, AddMatches, AddFiles, AddMatched, Release,
       poolVars, mainVars
  <2>2. spc'[Main] = "open" => spc[Main] = "open"
    BY <1>1, <1>9 DEF Search, OpenFile, SearchData, AddMatches, AddFiles, AddMatched,
       Release, Move
  <2> QED
    BY <1>8, <2>1, <2>2
<1>10. ASSUME NEW w \in Worker, WorkerStep(w) PROVE PathInv'
  <2>1. UNCHANGED <<fwPath, current>>
    BY <1>10 DEF WorkerStep, Begin, End, Lock, Unlock, Wakeup, mainVars
  <2>2. UNCHANGED allocated
    BY <1>10 DEF WorkerStep, Begin, End, Lock, Unlock, Wakeup, Pool!WorkerTake,
       Pool!WorkerRan, Pool!WorkerLock, Pool!WorkerPark, Pool!WorkerExit,
       Pool!WorkerFree, Pool!SpuriousWakeup, Pool!queueVars
  <2>3. spc'[Main] = spc[Main]
    <3>1. w # Main
      BY RunAssumption DEF Worker, Main
    <3> QED
      BY <1>1, <1>10, <3>1 DEF WorkerStep, Begin, End, Lock, Unlock, Wakeup, Move, searchVars
  <2> QED
    BY <1>8, <2>1, <2>2, <2>3
<1>11. CASE CreatePool \/ TakeLock \/ InsidePool
  <2>1. UNCHANGED <<fwPath, current, spc>>
    BY <1>11 DEF CreatePool, TakeLock, InsidePool, mainVars, searchVars
  <2>2. UNCHANGED allocated
    BY <1>11 DEF CreatePool, TakeLock, InsidePool, Pool!Create, Pool!CreateAlloc,
       Pool!CreateNoMemory, Pool!CreateThread, Pool!CreateFails, Pool!CreateReturn,
       Pool!SubmitLock, Pool!WaitLock, Pool!DestroyLock, Pool!ClientLock, Pool!SubmitLink,
       Pool!WaitPoll, Pool!DestroyShutdown, Pool!DestroyJoin, Pool!DestroyJoinMissing,
       Pool!DestroyReturn, Pool!queueVars
  <2> QED
    BY <1>8, <2>1, <2>2
<1>12. CASE Start \/ PoolCreated \/ ReadStdinFails \/ StdinSearched \/ ListFiles
            \/ CannotAccess \/ SkipFile \/ FreeList \/ ArgsDone \/ Exit \/ UNCHANGED vars
  BY <1>8, <1>12 DEF Start, PoolCreated, ReadStdinFails, StdinSearched, ListFiles,
     CannotAccess, SkipFile, FreeList, ArgsDone, Exit, poolVars, searchVars, mainVars, vars
<1>13. CASE ReadStdin
  BY <1>1, <1>8, <1>13 DEF ReadStdin, poolVars
<1>14. CASE LastFile \/ Teardown
  BY <1>8, <1>14 DEF LastFile, Teardown, Pool!WaitCall, Pool!DestroyCall, Pool!queueVars,
     poolVars, searchVars
<1> QED
  BY <1>6, <1>7, <1>9, <1>10, <1>11, <1>12, <1>13, <1>14 DEF Next, MainStep, Stopped

\* A step of a search keeps what the exit code rests on.
LEMMA SearchKeeps ==
  ASSUME Thm!IInv, RunInv, PathInv, StatsTypes, FileInv, SumInv,
         NEW s \in Searcher, Search(s)
  PROVE  StatsTypes' /\ FileInv' /\ SumInv'
<1> USE DEF Reading, Adding
<1>1. /\ spc \in [Searcher -> SearchPlaces]
      /\ stats \in [total_matches : Nat, total_files : Nat, files_matched : Nat]
      /\ searched \in [Sources -> Nat]
      /\ reading \in [Searcher -> Sources \cup {NoFile}]
      /\ Matches \in [Sources -> Nat]
  BY RunAssumption DEF RunInv, RunTypes, StatsTypes, Sources
<1>2. CASE OpenFile(s)
  <2>1. /\ spc[s] = "open" /\ UNCHANGED <<stats, searched>>
        /\ \/ spc' = [spc EXCEPT ![s] = "release"] /\ reading' = reading
           \/ /\ spc' = [spc EXCEPT ![s] = "search"]
              /\ \E f \in Files : reading' = [reading EXCEPT ![s] = f]
    <3>1. spc[s] = "open" /\ UNCHANGED <<stats, searched>>
      BY <1>2 DEF OpenFile
    <3>2. Names(PathOf(s)) \subseteq Files \cup {NoFile}
      BY <3>1, NamedFiles
    <3> QED
      BY <1>2, <3>1, <3>2 DEF OpenFile
  <2>2. spc'[s] \in {"release", "search"} /\ (spc'[s] = "search" => reading'[s] \in Sources)
    BY <1>1, <2>1 DEF Sources
  <2>3. \A t \in Searcher : t # s => spc'[t] = spc[t] /\ reading'[t] = reading[t]
    BY <1>1, <2>1
  <2>4. StatsTypes'
    BY <1>1, <2>1 DEF StatsTypes, Sources
  <2>5. FileInv'
    BY <2>1, <2>2, <2>3 DEF FileInv, Sources
  <2>6. Hits' = Hits
    BY <2>1 DEF Hits, Sources
  <2>7. SumInv'
    BY <2>1, <2>3, <2>6 DEF SumInv
  <2> QED
    BY <2>4, <2>5, <2>7
<1>3. CASE SearchData(s)
  <2>1. /\ spc[s] = "search" /\ reading[s] \in Sources
        /\ spc' = [spc EXCEPT ![s] = IF reading[s] \in Short THEN "release" ELSE "add_matches"]
        /\ searched' = [searched EXCEPT ![reading[s]] = @ + 1]
        /\ UNCHANGED <<stats, reading>>
    BY <1>3 DEF SearchData, Move, FileInv
  <2>2. /\ searched' \in [Sources -> Nat]
        /\ searched'[reading[s]] > 0
        /\ \A f \in Sources : searched'[f] > 0 => f = reading[s] \/ searched[f] > 0
        /\ \A f \in Sources : searched[f] > 0 => searched'[f] > 0
    BY <1>1, <2>1
  <2>3. \A t \in Searcher : t # s => spc'[t] = spc[t]
    BY <1>1, <2>1
  <2>4. spc'[s] = IF reading[s] \in Short THEN "release" ELSE "add_matches"
    BY <1>1, <2>1
  <2>5. StatsTypes'
    BY <1>1, <2>1, <2>2 DEF StatsTypes, Sources
  <2>6. FileInv'
    BY <2>1, <2>2, <2>3 DEF FileInv, Sources
  <2>7. Hits \subseteq Hits' /\ \A f \in Hits' : f = reading[s] \/ f \in Hits
    BY <2>2 DEF Hits, Sources
  <2>8. reading[s] \in Hits' => spc'[s] = "add_matches"
    BY <2>4, RunAssumption DEF Hits, RunAssumption
  <2>9. SumInv'
    <3>1. /\ stats'.total_matches > 0 => Hits' # {}
          /\ stats'.files_matched > 0 => Hits' # {}
      BY <2>1, <2>7 DEF SumInv
    <3>2. ASSUME NEW f \in Hits', stats'.total_matches = 0
          PROVE  \E t \in Searcher : spc'[t] = "add_matches" /\ reading'[t] = f
      <4>1. CASE f = reading[s]
        BY <2>1, <2>8, <4>1
      <4>2. CASE f \in Hits
        <5>1. PICK t \in Searcher : spc[t] = "add_matches" /\ reading[t] = f
          BY <2>1, <3>2, <4>2 DEF SumInv
        <5> QED
          BY <2>1, <2>3, <5>1
      <4> QED
        BY <2>7, <4>1, <4>2
    <3>3. ASSUME NEW f \in Hits', stats'.files_matched = 0
          PROVE  \E t \in Searcher : spc'[t] \in Adding /\ reading'[t] = f
      <4>1. CASE f = reading[s]
        BY <2>1, <2>8, <4>1
      <4>2. CASE f \in Hits
        <5>1. PICK t \in Searcher : spc[t] \in Adding /\ reading[t] = f
          BY <2>1, <3>3, <4>2 DEF SumInv
        <5> QED
          BY <2>1, <2>3, <5>1
      <4> QED
        BY <2>7, <4>1, <4>2
    <3> QED
      BY <3>1, <3>2, <3>3 DEF SumInv
  <2> QED
    BY <2>5, <2>6, <2>9
<1>4. ASSUME /\ spc[s] \in Adding /\ UNCHANGED <<reading, searched>>
             /\ spc' = [spc EXCEPT ![s] = spc'[s]]
             /\ stats' \in [total_matches : Nat, total_files : Nat, files_matched : Nat],
             spc'[s] \in {"add_files", "add_matched", "release"},
             \/ stats'.total_matches = stats.total_matches
             \/ stats'.total_matches = stats.total_matches + Matches[reading[s]],
             \/ stats'.files_matched = stats.files_matched
             \/ stats'.files_matched = stats.files_matched + Matched(Matches[reading[s]]),
             spc[s] = "add_matches" =>
               stats'.total_matches = stats.total_matches + Matches[reading[s]],
             spc'[s] = "release" =>
               stats'.files_matched = stats.files_matched + Matched(Matches[reading[s]])
      PROVE  StatsTypes' /\ FileInv' /\ SumInv'
  <2>1. \A t \in Searcher : t # s => spc'[t] = spc[t]
    BY <1>1, <1>4
  <2>2. Hits' = Hits
    BY <1>4 DEF Hits, Sources
  <2>3. reading[s] \in Sources /\ searched[reading[s]] > 0
    BY <1>4 DEF FileInv
  <2>4. Matches[reading[s]] \in Nat /\ (Matches[reading[s]] > 0 => reading[s] \in Hits)
    BY <1>1, <2>3 DEF Hits
  <2>5. /\ Matched(Matches[reading[s]]) \in {0, 1}
        /\ Matched(Matches[reading[s]]) = 1 <=> Matches[reading[s]] > 0
    BY <2>4 DEF Matched
  <2>6. /\ stats.total_matches \in Nat /\ stats.files_matched \in Nat
    BY <1>1
  <2>7. /\ stats'.total_matches > 0 => Hits # {}
        /\ stats'.files_matched > 0 => Hits # {}
    BY <1>4, <2>4, <2>5, <2>6 DEF SumInv
  <2>8. ASSUME NEW f \in Hits, stats'.total_matches = 0
        PROVE  \E t \in Searcher : spc'[t] = "add_matches" /\ reading[t] = f
    <3>1. stats.total_matches = 0
      BY <1>4, <2>4, <2>6, <2>8
    <3>2. PICK t \in Searcher : spc[t] = "add_matches" /\ reading[t] = f
      BY <2>8, <3>1 DEF SumInv
    <3>3. t # s
      <4> SUFFICES ASSUME t = s PROVE FALSE
        OBVIOUS
      <4>1. Matches[reading[s]] > 0
        BY <3>2 DEF Hits
      <4> QED
        BY <1>4, <2>4, <2>6, <2>8, <3>1, <3>2, <4>1
    <3> QED
      BY <2>1, <3>2, <3>3
  <2>9. ASSUME NEW f \in Hits, stats'.files_matched = 0
        PROVE  \E t \in Searcher : spc'[t] \in Adding /\ reading[t] = f
    <3>1. stats.files_matched = 0
      BY <1>4, <2>5, <2>6, <2>9
    <3>2. PICK t \in Searcher : spc[t] \in Adding /\ reading[t] = f
      BY <2>9, <3>1 DEF SumInv
    <3>3. t = s => spc'[s] \in Adding
      <4> SUFFICES ASSUME t = s, spc'[s] = "release" PROVE FALSE
        BY <1>4
      <4>1. Matches[reading[s]] > 0
        BY <3>2 DEF Hits
      <4>2. Matched(Matches[reading[s]]) = 1
        BY <2>5, <4>1
      <4> QED
        BY <1>4, <2>6, <2>9, <3>1, <4>2
    <3> QED
      BY <2>1, <3>2, <3>3
  <2>10. SumInv'
    BY <1>4, <2>2, <2>7, <2>8, <2>9 DEF SumInv
  <2>11. FileInv'
    BY <1>4, <2>1, <2>3 DEF FileInv, Sources
  <2>12. StatsTypes'
    BY <1>1, <1>4 DEF StatsTypes, Sources
  <2> QED
    BY <2>10, <2>11, <2>12
<1>5. spc[s] \in Adding =>
        Matches[reading[s]] \in Nat /\ Matched(Matches[reading[s]]) \in {0, 1}
  BY <1>1 DEF FileInv, Matched
<1>6. CASE AddMatches(s)
  <2>1. /\ spc[s] = "add_matches" /\ spc' = [spc EXCEPT ![s] = "add_files"]
        /\ stats' = [stats EXCEPT !.total_matches = @ + Matches[reading[s]]]
        /\ UNCHANGED <<reading, searched>>
    BY <1>6 DEF AddMatches, Move
  <2> QED
    BY <1>1, <1>4, <1>5, <2>1
<1>7. CASE AddFiles(s)
  <2>1. /\ spc[s] = "add_files" /\ spc' = [spc EXCEPT ![s] = "add_matched"]
        /\ stats' = [stats EXCEPT !.total_files = @ + 1]
        /\ UNCHANGED <<reading, searched>>
    BY <1>7 DEF AddFiles, Move
  <2> QED
    BY <1>1, <1>4, <1>5, <2>1
<1>8. CASE AddMatched(s)
  <2>1. /\ spc[s] = "add_matched" /\ spc' = [spc EXCEPT ![s] = "release"]
        /\ stats' = [stats EXCEPT !.files_matched = @ + Matched(Matches[reading[s]])]
        /\ UNCHANGED <<reading, searched>>
    BY <1>8 DEF AddMatched, Move
  <2> QED
    BY <1>1, <1>4, <1>5, <2>1
<1>9. CASE Release(s)
  <2>1. /\ spc[s] = "release" /\ spc'[s] \in {"none", "done"}
        /\ spc' = [spc EXCEPT ![s] = spc'[s]]
        /\ reading' = [reading EXCEPT ![s] = NoFile]
        /\ UNCHANGED <<stats, searched>>
    BY <1>1, <1>9 DEF Release, Move
  <2>2. \A t \in Searcher : t # s => spc'[t] = spc[t] /\ reading'[t] = reading[t]
    BY <1>1, <2>1
  <2>3. StatsTypes'
    BY <1>1, <2>1 DEF StatsTypes, Sources
  <2>4. FileInv'
    BY <2>1, <2>2 DEF FileInv, Sources
  <2>5. Hits' = Hits
    BY <2>1 DEF Hits, Sources
  <2>6. SumInv'
    BY <2>1, <2>2, <2>5 DEF SumInv
  <2> QED
    BY <2>3, <2>4, <2>6
<1> QED
  BY <1>2, <1>3, <1>6, <1>7, <1>8, <1>9 DEF Search

LEMMA InitExit == Init => ExitInv
<1> SUFFICES ASSUME Init PROVE ExitInv
  OBVIOUS
<1> USE DEF Init, Sources
<1>1. PathInv
  BY RunAssumption DEF PathInv, Pool!Init, Searcher, Main
<1>2. StatsTypes
  BY DEF StatsTypes
<1>3. FileInv
  BY DEF FileInv, Reading, Adding
<1>4. SumInv
  BY DEF SumInv, Hits
<1> QED
  BY <1>1, <1>2, <1>3, <1>4 DEF ExitInv

LEMMA StepExit == Thm!IInv /\ RunInv /\ ExitInv /\ [Next]_vars => ExitInv'
<1> SUFFICES ASSUME Thm!IInv, RunInv, ExitInv, [Next]_vars PROVE ExitInv'
  OBVIOUS
<1>1. PathInv'
  BY PathKept DEF ExitInv
<1>2. CASE \E s \in Searcher : Search(s)
  BY <1>1, <1>2, SearchKeeps DEF ExitInv
<1>3. CASE MainStep \/ (\E w \in Worker : WorkerStep(w)) \/ UNCHANGED vars
  BY <1>1, <1>3, QuietSteps, QuietKeeps DEF ExitInv
<1> QED
  BY <1>2, <1>3 DEF Next, Stopped

\* When nobody searches the statistics tell whether a file with a match was searched.
LEMMA CodeIsHits ==
  ASSUME ExitInv, \A s \in Searcher : spc[s] = "none", NEW l \in BOOLEAN
  PROVE  ExitCode(l, FALSE) \in {0, 1} /\ (ExitCode(l, FALSE) = 0 <=> Hits # {})
<1>1. /\ stats.total_matches \in Nat /\ stats.files_matched \in Nat
      /\ stats.total_matches > 0 <=> Hits # {}
      /\ stats.files_matched > 0 <=> Hits # {}
  BY DEF ExitInv, StatsTypes, SumInv, Adding
<1> QED
  BY <1>1 DEF ExitCode

\* Without -v the exit code is 0 exactly when a file with a match was searched,
\* whatever the number of threads: when main reads the statistics nobody is
\* still to add to them (src/main.c:196-199).
THEOREM ExitCodeIsRight == Spec => []ExitCodeTellsMatches
<1>1. RunInv /\ Thm!IInv /\ ExitInv => ExitCodeTellsMatches
  <2> SUFFICES ASSUME RunInv, Thm!IInv, ExitInv, mpc = "exited", NEW l \in BOOLEAN
               PROVE  ExitCode(l, FALSE) = 0 <=> Hits # {}
    BY DEF ExitCodeTellsMatches, Finished, Hits, Sources
  <2>1. \A s \in Searcher : spc[s] = "none"
    <3>1. \A w \in Worker : wpc[w] \in {"none", "exited"}
      BY PoolFacts DEF RunInv, CallInv
    <3> QED
      BY <3>1 DEF RunInv, SearchInv, Searcher, Main
  <2> QED
    BY <2>1, CodeIsHits
<1> QED
  BY <1>1, InitExit, StepExit, RunInvariant, PTL DEF Spec

------------------------------------------------------------------------------
(* Sums of numbers over a finite set *)

\* The member that a sum takes next.
Chosen(T) == CHOOSE x \in T : TRUE

\* Adding up with g: its value at a set is that of one member and the rest.
Added(g, w, T) == IF T = {} THEN 0 ELSE w[Chosen(T)] + g[T \ {Chosen(T)}]

\* g yields the sum of the numbers w over each subset of S.
Sums(g, w, S) == g = [T \in SUBSET S |-> Added(g, w, T)]

LEMMA ChosenIsMember == ASSUME NEW T, T # {} PROVE Chosen(T) \in T
BY DEF Chosen

\* Among sets of subsets of a finite set, one has none of the others in it.
LEMMA SmallestSet ==
  ASSUME NEW S, IsFiniteSet(S), NEW B, B \subseteq SUBSET S, B # {}
  PROVE  \E T \in B : \A U \in SUBSET T : U # T => U \notin B
<1>1. IsWellFoundedOn(StrictSubsetOrdering(S), SUBSET S)
  BY FS_FiniteSubsetsOfFinite, FS_StrictSubsetOrderingWellFounded
<1>2. PICK T \in B : \A U \in B : ~(<<U, T>> \in StrictSubsetOrdering(S))
  BY <1>1, WFMin
<1>3. ASSUME NEW U \in SUBSET T, U # T, U \in B PROVE FALSE
  <2>1. <<U, T>> \in StrictSubsetOrdering(S)
    BY <1>3 DEF StrictSubsetOrdering
  <2> QED
    BY <1>2, <1>3, <2>1
<1> QED
  BY <1>3

\* A nonempty set of numbers has a least one.
LEMMA LeastNumber ==
  ASSUME NEW S, S \subseteq Nat, S # {}
  PROVE  \E n \in S : \A m \in S : n <= m
<1> DEFINE Less == {ss \in Nat \X Nat : ss[1] < ss[2]}
<1>1. OpToRel(<, Nat) = Less
  BY DEF OpToRel
<1>2. IsWellFoundedOn(Less, Nat)
  BY <1>1, NatLessThanWellFounded
<1>3. PICK n \in S : \A m \in S : ~(<<m, n>> \in Less)
  <2> HIDE DEF Less
  <2> QED
    BY <1>2, WFMin
<1>4. \A m \in S : n <= m
  <2> SUFFICES ASSUME NEW m \in S, m < n PROVE FALSE
    OBVIOUS
  <2>1. <<m, n>> \in Less
    OBVIOUS
  <2> QED
    BY <1>3, <2>1
<1> QED
  BY <1>4

LEMMA SumStep ==
  ASSUME NEW S, NEW g, NEW w, Sums(g, w, S), NEW T \in SUBSET S
  PROVE  g[T] = Added(g, w, T)
<1> HIDE DEF Added
<1> QED
  BY DEF Sums

\* The sums are numbers.
LEMMA SumIsNat ==
  ASSUME NEW S, IsFiniteSet(S), NEW g, NEW w \in [S -> Nat], Sums(g, w, S),
         NEW T \in SUBSET S
  PROVE  g[T] \in Nat
<1> DEFINE B == {U \in SUBSET S : g[U] \notin Nat}
<1> SUFFICES ASSUME B # {} PROVE FALSE
  OBVIOUS
<1>1. PICK U \in B : \A V \in SUBSET U : V # U => V \notin B
  <2> HIDE DEF B
  <2>1. B \subseteq SUBSET S
    BY DEF B
  <2> QED
    BY <2>1, SmallestSet
<1>2. g[U] = Added(g, w, U)
  BY SumStep
<1>3. CASE U = {}
  BY <1>2, <1>3 DEF Added
<1>4. CASE U # {}
  <2>1. Chosen(U) \in U
    BY <1>4, ChosenIsMember
  <2>2. g[U \ {Chosen(U)}] \in Nat
    BY <1>1, <2>1
  <2> QED
    BY <1>2, <1>4, <2>1, <2>2 DEF Added
<1> QED
  BY <1>3, <1>4

\* When the number of one member grows by d, so does the sum.
LEMMA SumGrows ==
  ASSUME NEW S, IsFiniteSet(S), NEW w \in [S -> Nat], NEW v \in [S -> Nat],
         NEW g, NEW h, Sums(g, w, S), Sums(h, v, S),
         NEW x \in S, NEW d \in Nat, v[x] = w[x] + d, \A y \in S \ {x} : v[y] = w[y]
  PROVE  h[S] = g[S] + d
<1> DEFINE Right(U) == h[U] = IF x \in U THEN g[U] + d ELSE g[U]
           B == {U \in SUBSET S : ~Right(U)}
<1>1. B = {}
  <2> SUFFICES ASSUME B # {} PROVE FALSE
    OBVIOUS
  <2>1. PICK U \in B : \A V \in SUBSET U : V # U => V \notin B
    <3>1. B \subseteq SUBSET S
      OBVIOUS
    <3> HIDE DEF B
    <3> QED
      BY <3>1, SmallestSet
  <2>2. g[U] = Added(g, w, U) /\ h[U] = Added(h, v, U)
    BY SumStep
  <2>3. U # {}
    BY <2>1, <2>2 DEF Added
  <2>4. Chosen(U) \in U
    BY <2>3, ChosenIsMember
  <2> DEFINE c == Chosen(U)
             V == U \ {c}
  <2>5. Right(V)
    BY <2>1, <2>4
  <2>6. g[U] = w[c] + g[V] /\ h[U] = v[c] + h[V]
    BY <2>2, <2>3 DEF Added
  <2>7. g[V] \in Nat /\ w[c] \in Nat /\ v[c] \in Nat
    BY <2>4, SumIsNat
  <2>8. IF c = x THEN v[c] = w[c] + d /\ x \in U /\ x \notin V
                 ELSE v[c] = w[c] /\ (x \in U <=> x \in V)
    BY <2>4
  <2>9. U \in SUBSET S /\ ~Right(U)
    OBVIOUS
  <2> HIDE DEF c, V, B
  <2> QED
    BY <2>5, <2>6, <2>7, <2>8, <2>9
<1> QED
  BY <1>1

\* The sum depends on the numbers only.
LEMMA SumSame ==
  ASSUME NEW S, IsFiniteSet(S), NEW w \in [S -> Nat],
         NEW g, NEW h, Sums(g, w, S), Sums(h, w, S)
  PROVE  h[S] = g[S]
<1>1. CASE S = {}
  BY <1>1, SumStep DEF Added
<1>2. CASE S # {}
  <2>1. PICK x \in S : TRUE
    BY <1>2
  <2>2. w[x] = w[x] + 0
    OBVIOUS
  <2>3. h[S] = g[S] + 0
    BY <2>2, SumGrows
  <2> QED
    BY <2>3, SumIsNat
<1> QED
  BY <1>1, <1>2

\* The sum of zeros.
LEMMA SumOfZeros ==
  ASSUME NEW S, IsFiniteSet(S), NEW w, NEW g, Sums(g, w, S), \A x \in S : w[x] = 0
  PROVE  g[S] = 0
<1> DEFINE B == {U \in SUBSET S : g[U] # 0}
<1> SUFFICES ASSUME B # {} PROVE FALSE
  OBVIOUS
<1>1. PICK U \in B : \A V \in SUBSET U : V # U => V \notin B
  <2>1. B \subseteq SUBSET S
    OBVIOUS
  <2> HIDE DEF B
  <2> QED
    BY <2>1, SmallestSet
<1>2. g[U] = Added(g, w, U)
  BY SumStep
<1>3. CASE U = {}
  BY <1>2, <1>3 DEF Added
<1>4. CASE U # {}
  <2>1. Chosen(U) \in U
    BY <1>4, ChosenIsMember
  <2>2. g[U \ {Chosen(U)}] = 0 /\ w[Chosen(U)] = 0
    BY <1>1, <2>1
  <2> QED
    BY <1>2, <1>4, <2>1, <2>2 DEF Added
<1> QED
  BY <1>3, <1>4

\* A finite set has its sums.
LEMMA SumsExist ==
  ASSUME NEW S, IsFiniteSet(S), NEW w \in [S -> Nat]
  PROVE  \E g : Sums(g, w, S)
<1> DEFINE UpTo(g, n) ==
             \A T \in SUBSET S : Cardinality(T) <= n => g[T] = Added(g, w, T)
           Bad == {n \in Nat : \A g \in [SUBSET S -> Int] : ~UpTo(g, n)}
<1>1. \A T \in SUBSET S : Cardinality(T) \in Nat /\ Cardinality(T) <= Cardinality(S)
  BY FS_Subset, FS_CardinalityType
<1>2. \A T \in SUBSET S : Cardinality(T) = 0 <=> T = {}
  BY FS_Subset, FS_EmptySet
<1>3. Bad = {}
  <2> SUFFICES ASSUME Bad # {} PROVE FALSE
    OBVIOUS
  <2>1. PICK n \in Bad : \A m \in Bad : n <= m
    <3>1. Bad \subseteq Nat
      OBVIOUS
    <3> HIDE DEF Bad
    <3> QED
      BY <3>1, LeastNumber
  <2>2. CASE n = 0
    <3> DEFINE g == [T \in SUBSET S |-> 0]
    <3>1. g \in [SUBSET S -> Int] /\ UpTo(g, 0)
      BY <1>1, <1>2 DEF Added
    <3> QED
      BY <2>2, <3>1
  <2>3. CASE n # 0
    <3>1. n \in Nat /\ n - 1 \in Nat /\ n - 1 \notin Bad
      <4>1. n \in Nat
        OBVIOUS
      <4> HIDE DEF Bad
      <4> QED
        BY <2>1, <2>3, <4>1
    <3>2. PICK f \in [SUBSET S -> Int] : UpTo(f, n - 1)
      BY <3>1
    <3> DEFINE g == [T \in SUBSET S |-> Added(f, w, T)]
    <3>3. \A T \in SUBSET S : T # {} => w[Chosen(T)] \in Nat /\ T \ {Chosen(T)} \in SUBSET S
      BY ChosenIsMember
    <3>4. g \in [SUBSET S -> Int]
      BY <3>3 DEF Added
    <3>5. ASSUME NEW T \in SUBSET S, Cardinality(T) <= n PROVE g[T] = Added(g, w, T)
      <4>1. CASE T = {}
        BY <4>1 DEF Added
      <4>2. CASE T # {}
        <5> DEFINE V == T \ {Chosen(T)}
        <5>1. V \in SUBSET S /\ Cardinality(V) = Cardinality(T) - 1
          BY <4>2, ChosenIsMember, FS_Subset, FS_RemoveElement
        <5>2. Cardinality(V) <= n - 1
          BY <1>1, <3>1, <3>5, <5>1
        <5>3. f[V] = Added(f, w, V)
          BY <3>2, <5>1, <5>2
        <5>4. g[V] = Added(f, w, V) /\ g[T] = Added(f, w, T)
          BY <5>1
        <5> HIDE DEF g
        <5> QED
          BY <4>2, <5>3, <5>4 DEF Added
      <4> QED
        BY <4>1, <4>2
    <3>6. UpTo(g, n)
      BY <3>5
    <3> HIDE DEF g, UpTo
    <3> QED
      BY <3>4, <3>6
  <2> QED
    BY <2>2, <2>3
<1>4. PICK g \in [SUBSET S -> Int] : UpTo(g, Cardinality(S))
  BY <1>1, <1>3
<1>5. \A T \in SUBSET S : g[T] = Added(g, w, T)
  BY <1>1, <1>4
<1>6. g = [T \in SUBSET S |-> Added(g, w, T)]
  <2> HIDE DEF Added
  <2> QED
    BY <1>5
<1> QED
  BY <1>6 DEF Sums

\* SumOf yields the sum over the whole set.
LEMMA SumOfIs ==
  ASSUME NEW S, IsFiniteSet(S), NEW w \in [S -> Nat]
  PROVE  \E g : Sums(g, w, S) /\ SumOf(w) = g[S]
<1>1. DOMAIN w = S
  OBVIOUS
<1>2. PICK f : Sums(f, w, S)
  BY SumsExist
<1> DEFINE h == CHOOSE iter : iter = [s \in SUBSET S |->
                  IF s = {} THEN 0
                  ELSE w[CHOOSE x \in s : TRUE] + iter[s \ {CHOOSE x \in s : TRUE}]]
<1>3. SumOf(w) = h[S]
  BY <1>1, Zenon DEF SumOf, FoldFunction, FoldFunctionOnSet, MapThenFoldSet
<1>4. Sums(h, w, S)
  BY <1>2, Zenon DEF Sums, Added, Chosen
<1> QED
  BY <1>3, <1>4

LEMMA SumOfIsNat ==
  ASSUME NEW S, IsFiniteSet(S), NEW w \in [S -> Nat]
  PROVE  SumOf(w) \in Nat
<1>1. PICK g : Sums(g, w, S) /\ SumOf(w) = g[S]
  BY SumOfIs
<1> QED
  BY <1>1, SumIsNat

LEMMA SumOfGrows ==
  ASSUME NEW S, IsFiniteSet(S), NEW w \in [S -> Nat], NEW v \in [S -> Nat],
         NEW x \in S, NEW d \in Nat, v[x] = w[x] + d, \A y \in S \ {x} : v[y] = w[y]
  PROVE  SumOf(v) = SumOf(w) + d
<1>1. PICK g : Sums(g, w, S) /\ SumOf(w) = g[S]
  BY SumOfIs
<1>2. PICK h : Sums(h, v, S) /\ SumOf(v) = h[S]
  BY SumOfIs
<1> QED
  BY <1>1, <1>2, SumGrows

LEMMA SumOfOneMore ==
  ASSUME NEW S, IsFiniteSet(S), NEW w \in [S -> Nat], NEW v \in [S -> Nat],
         NEW x \in S, v[x] = w[x] + 1, \A y \in S \ {x} : v[y] = w[y]
  PROVE  SumOf(v) = SumOf(w) + 1
<1>1. 1 \in Nat
  OBVIOUS
<1> QED
  BY <1>1, SumOfGrows

LEMMA SumOfNothing ==
  ASSUME NEW S, IsFiniteSet(S), NEW w \in [S -> Nat], \A x \in S : w[x] = 0
  PROVE  SumOf(w) = 0
<1>1. PICK g : Sums(g, w, S) /\ SumOf(w) = g[S]
  BY SumOfIs
<1> QED
  BY <1>1, SumOfZeros

------------------------------------------------------------------------------
(* The inductive invariant behind StatsSettled *)

\* The files whose search gets to the statistics.
Counted == Sources \ Short

\* What a search of each file adds to files and to files with a match.
Once == [f \in Sources |-> 1]
Hit == [f \in Sources |-> Matched(Matches[f])]

\* What the searches so far come to, each file counting as v says, and what
\* those at the places P are still to add.
Due(v) == [f \in Counted |-> searched[f] * v[f]]
Pending(v, P) == [s \in Searcher |-> IF spc[s] \in P THEN v[reading[s]] ELSE 0]

Balanced(total, v, P) == total + SumOf(Pending(v, P)) = SumOf(Due(v))

\* Every statistic is what was searched, but for what is still to be added.
SettleInv ==
  /\ \A s \in Searcher : spc[s] \in Adding => reading[s] \in Counted
  /\ Balanced(stats.total_matches, Matches, {"add_matches"})
  /\ Balanced(stats.total_files, Once, {"add_matches", "add_files"})
  /\ Balanced(stats.files_matched, Hit, Adding)

LEMMA Weights ==
  /\ Matches \in [Sources -> Nat] /\ Once \in [Sources -> Nat] /\ Hit \in [Sources -> Nat]
  /\ IsFiniteSet(Counted) /\ IsFiniteSet(Searcher)
<1>1. Matches \in [Sources -> Nat] /\ Once \in [Sources -> Nat]
  BY RunAssumption DEF RunAssumption, Sources, Once
<1>2. Hit \in [Sources -> Nat]
  BY DEF Hit, Matched
<1>3. IsFiniteSet(Sources)
  BY RunAssumption, FS_AddElement DEF RunAssumption, Sources
<1>4. IsFiniteSet(Counted)
  BY <1>3, FS_Subset DEF Counted
<1>5. IsFiniteSet(Worker) /\ Searcher = Worker \cup {Main}
  BY RunAssumption, FS_Interval DEF RunAssumption, Worker, Searcher
<1>6. IsFiniteSet(Searcher)
  BY <1>5, FS_AddElement
<1> QED
  BY <1>1, <1>2, <1>4, <1>6

\* One search more.
LEMMA OnceMore ==
  ASSUME NEW n \in Nat, NEW m \in Nat
  PROVE  n * m \in Nat /\ (n + 1) * m = n * m + m
OBVIOUS

LEMMA BalanceTypes ==
  ASSUME StatsTypes, NEW v \in [Sources -> Nat], NEW P, P \subseteq Adding,
         \A s \in Searcher : spc[s] \in Adding => reading[s] \in Counted
  PROVE  Due(v) \in [Counted -> Nat] /\ Pending(v, P) \in [Searcher -> Nat]
<1>1. Due(v) \in [Counted -> Nat]
  BY OnceMore DEF StatsTypes, Due, Counted
<1>2. Pending(v, P) \in [Searcher -> Nat]
  BY DEF Pending, Counted
<1> QED
  BY <1>1, <1>2

\* A step keeps the balance of a statistic if no search starts or ends being
\* about to add to it; if one has just added; if a search has just ended that is
\* about to add; or if one has ended that never adds.
LEMMA BalanceKept ==
  ASSUME StatsTypes, StatsTypes',
         NEW v \in [Sources -> Nat], NEW P, P \subseteq Adding,
         \A t \in Searcher : spc[t] \in Adding => reading[t] \in Counted,
         (\A t \in Searcher : spc[t] \in Adding => reading[t] \in Counted)',
         NEW total \in Nat, NEW total2 \in Nat, Balanced(total, v, P),
         \/ /\ UNCHANGED searched /\ total2 = total
            /\ \A t \in Searcher : IF spc[t] \in P
                                     THEN spc'[t] \in P /\ reading'[t] = reading[t]
                                     ELSE spc'[t] \notin P
         \/ \E s \in Searcher :
              /\ \A t \in Searcher \ {s} : spc'[t] = spc[t] /\ reading'[t] = reading[t]
              /\ reading'[s] = reading[s]
              /\ \/ /\ UNCHANGED searched /\ total2 = total + v[reading[s]]
                    /\ spc[s] \in P /\ spc'[s] \notin P
                 \/ /\ searched' = [searched EXCEPT ![reading[s]] = @ + 1]
                    /\ total2 = total /\ spc[s] \notin P
                    /\ \/ spc'[s] \in P
                       \/ spc'[s] \notin P /\ reading[s] \notin Counted
  PROVE  total2 + SumOf(Pending(v, P)') = SumOf(Due(v)')
<1>1. /\ Due(v) \in [Counted -> Nat] /\ Pending(v, P) \in [Searcher -> Nat]
      /\ IsFiniteSet(Counted) /\ IsFiniteSet(Searcher)
  BY BalanceTypes, Weights
<1>2. Due(v)' \in [Counted -> Nat] /\ Pending(v, P)' \in [Searcher -> Nat]
  <2>1. Due(v)' \in [Counted -> Nat]
    BY OnceMore DEF StatsTypes, Due, Counted
  <2>2. Pending(v, P)' \in [Searcher -> Nat]
    BY DEF Pending, Counted
  <2> QED
    BY <2>1, <2>2
<1>3. /\ SumOf(Due(v)) \in Nat /\ SumOf(Pending(v, P)) \in Nat
      /\ total + SumOf(Pending(v, P)) = SumOf(Due(v))
  BY <1>1, SumOfIsNat DEF Balanced
<1>4. ASSUME UNCHANGED searched PROVE Due(v)' = Due(v)
  BY <1>4 DEF Due
<1>5. CASE /\ UNCHANGED searched /\ total2 = total
           /\ \A t \in Searcher : IF spc[t] \in P
                                    THEN spc'[t] \in P /\ reading'[t] = reading[t]
                                    ELSE spc'[t] \notin P
  <2>1. Pending(v, P)' = Pending(v, P)
    BY <1>5 DEF Pending
  <2> QED
    BY <1>3, <1>4, <1>5, <2>1
<1>6. ASSUME NEW s \in Searcher,
             \A t \in Searcher \ {s} : spc'[t] = spc[t] /\ reading'[t] = reading[t],
             reading'[s] = reading[s]
      PROVE  /\ \A t \in Searcher \ {s} : Pending(v, P)'[t] = Pending(v, P)[t]
             /\ Pending(v, P)[s] = IF spc[s] \in P THEN v[reading[s]] ELSE 0
             /\ Pending(v, P)'[s] = IF spc'[s] \in P THEN v[reading[s]] ELSE 0
  BY <1>6 DEF Pending
<1>7. ASSUME NEW s \in Searcher,
             \A t \in Searcher \ {s} : spc'[t] = spc[t] /\ reading'[t] = reading[t],
             reading'[s] = reading[s],
             UNCHANGED searched, total2 = total + v[reading[s]],
             spc[s] \in P, spc'[s] \notin P
      PROVE  total2 + SumOf(Pending(v, P)') = SumOf(Due(v)')
  <2>1. v[reading[s]] \in Nat
    BY <1>7 DEF Counted
  <2>2. Pending(v, P)[s] = Pending(v, P)'[s] + v[reading[s]]
    BY <1>6, <1>7, <2>1
  <2>3. SumOf(Pending(v, P)) = SumOf(Pending(v, P)') + v[reading[s]]
    BY <1>1, <1>2, <1>6, <1>7, <2>1, <2>2, SumOfGrows
  <2>4. SumOf(Pending(v, P)') \in Nat
    BY <1>1, <1>2, SumOfIsNat
  <2> QED
    BY <1>3, <1>4, <1>7, <2>1, <2>3, <2>4
<1>8. ASSUME NEW s \in Searcher,
             \A t \in Searcher \ {s} : spc'[t] = spc[t] /\ reading'[t] = reading[t],
             reading'[s] = reading[s],
             searched' = [searched EXCEPT ![reading[s]] = @ + 1],
             total2 = total, spc[s] \notin P, spc'[s] \in P
      PROVE  total2 + SumOf(Pending(v, P)') = SumOf(Due(v)')
  <2>1. v[reading[s]] \in Nat /\ reading[s] \in Counted
    BY <1>8 DEF Counted
  <2>2. Pending(v, P)'[s] = Pending(v, P)[s] + v[reading[s]]
    BY <1>6, <1>8, <2>1
  <2>3. SumOf(Pending(v, P)') = SumOf(Pending(v, P)) + v[reading[s]]
    BY SMTT(20), <1>1, <1>2, <1>6, <1>8, <2>1, <2>2, SumOfGrows
  <2>4. Due(v)'[reading[s]] = Due(v)[reading[s]] + v[reading[s]]
    <3>1. searched[reading[s]] \in Nat /\ searched'[reading[s]] = searched[reading[s]] + 1
      BY <1>8, <2>1 DEF StatsTypes, Counted
    <3>2. /\ Due(v)[reading[s]] = searched[reading[s]] * v[reading[s]]
          /\ Due(v)'[reading[s]] = searched'[reading[s]] * v[reading[s]]
      BY <1>8, <2>1 DEF Due
    <3>3. (searched[reading[s]] + 1) * v[reading[s]]
            = searched[reading[s]] * v[reading[s]] + v[reading[s]]
      BY <2>1, <3>1, OnceMore
    <3> QED
      BY <3>1, <3>2, <3>3, Zenon
  <2>5. \A f \in Counted \ {reading[s]} : Due(v)'[f] = Due(v)[f]
    BY <1>8 DEF Due, StatsTypes, Counted
  <2>6. SumOf(Due(v)') = SumOf(Due(v)) + v[reading[s]]
    BY <1>1, <1>2, <2>1, <2>4, <2>5, SumOfGrows
  <2> QED
    BY <1>3, <1>8, <2>1, <2>3, <2>6
<1>9. ASSUME NEW s \in Searcher,
             \A t \in Searcher \ {s} : spc'[t] = spc[t] /\ reading'[t] = reading[t],
             reading'[s] = reading[s],
             searched' = [searched EXCEPT ![reading[s]] = @ + 1],
             total2 = total, spc[s] \notin P, spc'[s] \notin P, reading[s] \notin Counted
      PROVE  total2 + SumOf(Pending(v, P)') = SumOf(Due(v)')
  <2>1. Due(v)' = Due(v)
    BY <1>9 DEF Due, StatsTypes, Counted
  <2>2. Pending(v, P)' = Pending(v, P)
    BY <1>9 DEF Pending
  <2> QED
    BY <1>3, <1>9, <2>1, <2>2
<1> QED
  BY <1>5, <1>7, <1>8, <1>9

\* A step that is not one of a search keeps the balance.
LEMMA QuietSettles ==
  ASSUME StatsTypes, StatsTypes', SettleInv, Quiet
  PROVE  SettleInv'
<1>1. Matches \in [Sources -> Nat] /\ Once \in [Sources -> Nat] /\ Hit \in [Sources -> Nat]
  BY Weights
<1>2. /\ \A s \in Searcher : spc[s] \in Adding => reading[s] \in Counted
      /\ UNCHANGED <<stats, searched>>
      /\ \A s \in Searcher : IF spc[s] \in Adding
                               THEN spc'[s] = spc[s] /\ reading'[s] = reading[s]
                               ELSE spc'[s] \notin Adding
  BY DEF SettleInv, Quiet, Reading
<1>3. (\A s \in Searcher : spc[s] \in Adding => reading[s] \in Counted)'
  BY <1>2 DEF Counted, Sources
<1>4. /\ stats.total_matches \in Nat /\ stats.total_files \in Nat /\ stats.files_matched \in Nat
  BY DEF StatsTypes
<1>5. ASSUME NEW v \in [Sources -> Nat], NEW P, P \subseteq Adding, NEW total \in Nat,
             Balanced(total, v, P)
      PROVE  total + SumOf(Pending(v, P)') = SumOf(Due(v)')
  <2>1. \A t \in Searcher : IF spc[t] \in P
                              THEN spc'[t] \in P /\ reading'[t] = reading[t]
                              ELSE spc'[t] \notin P
    BY <1>2, <1>5
  <2> QED
    BY <1>2, <1>3, <1>5, <2>1, BalanceKept
<1>6. stats.total_matches + SumOf(Pending(Matches, {"add_matches"})') = SumOf(Due(Matches)')
  BY <1>1, <1>4, <1>5 DEF SettleInv, Adding
<1>7. stats.total_files + SumOf(Pending(Once, {"add_matches", "add_files"})') = SumOf(Due(Once)')
  BY <1>1, <1>4, <1>5 DEF SettleInv, Adding
<1>8. stats.files_matched + SumOf(Pending(Hit, Adding)') = SumOf(Due(Hit)')
  BY <1>1, <1>4, <1>5 DEF SettleInv
<1> QED
  BY <1>2, <1>3, <1>6, <1>7, <1>8 DEF SettleInv, Balanced

\* A step of a search keeps the balance.
LEMMA SearchSettles ==
  ASSUME Thm!IInv, RunInv, PathInv, StatsTypes, StatsTypes', FileInv, SettleInv,
         NEW s \in Searcher, Search(s)
  PROVE  SettleInv'
<1>1. /\ spc \in [Searcher -> SearchPlaces]
      /\ stats \in [total_matches : Nat, total_files : Nat, files_matched : Nat]
      /\ reading \in [Searcher -> Sources \cup {NoFile}]
      /\ Matches \in [Sources -> Nat] /\ Once \in [Sources -> Nat] /\ Hit \in [Sources -> Nat]
  BY Weights DEF RunInv, RunTypes, StatsTypes
<1>2. \A t \in Searcher : spc[t] \in Adding => reading[t] \in Counted
  BY DEF SettleInv
<1>3. /\ stats.total_matches \in Nat /\ stats.total_files \in Nat /\ stats.files_matched \in Nat
      /\ stats'.total_matches \in Nat /\ stats'.total_files \in Nat
      /\ stats'.files_matched \in Nat
  BY DEF StatsTypes
<1>4. CASE OpenFile(s) \/ Release(s)
  <2>1. /\ spc[s] \notin Adding /\ spc'[s] \notin Adding /\ UNCHANGED <<stats, searched>>
        /\ \A t \in Searcher \ {s} : spc'[t] = spc[t] /\ reading'[t] = reading[t]
    BY <1>1, <1>4 DEF OpenFile, Release, Move, Adding
  <2>2. (\A t \in Searcher : spc[t] \in Adding => reading[t] \in Counted)'
    BY <1>2, <2>1 DEF Counted, Sources
  <2>3. ASSUME NEW v \in [Sources -> Nat], NEW P, P \subseteq Adding, NEW total \in Nat,
               Balanced(total, v, P)
        PROVE  total + SumOf(Pending(v, P)') = SumOf(Due(v)')
    <3>1. \A t \in Searcher : IF spc[t] \in P
                                THEN spc'[t] \in P /\ reading'[t] = reading[t]
                                ELSE spc'[t] \notin P
      BY <2>1, <2>3
    <3> QED
      BY <1>2, <2>1, <2>2, <2>3, <3>1, BalanceKept
  <2>4. stats'.total_matches + SumOf(Pending(Matches, {"add_matches"})') = SumOf(Due(Matches)')
    BY <1>1, <1>3, <2>1, <2>3 DEF SettleInv, Adding
  <2>5. stats'.total_files + SumOf(Pending(Once, {"add_matches", "add_files"})')
          = SumOf(Due(Once)')
    BY <1>1, <1>3, <2>1, <2>3 DEF SettleInv, Adding
  <2>6. stats'.files_matched + SumOf(Pending(Hit, Adding)') = SumOf(Due(Hit)')
    BY <1>1, <1>3, <2>1, <2>3 DEF SettleInv
  <2> QED
    BY <2>2, <2>4, <2>5, <2>6 DEF SettleInv, Balanced
<1>5. CASE SearchData(s)
  <2>1. /\ spc[s] = "search" /\ reading[s] \in Sources
        /\ spc' = [spc EXCEPT ![s] = IF reading[s] \in Short THEN "release" ELSE "add_matches"]
        /\ searched' = [searched EXCEPT ![reading[s]] = @ + 1]
        /\ UNCHANGED <<stats, reading>>
    BY <1>5 DEF SearchData, Move, FileInv, Reading
  <2>2. /\ spc[s] \notin Adding
        /\ \/ spc'[s] = "add_matches" /\ reading[s] \in Counted
           \/ spc'[s] = "release" /\ reading[s] \notin Counted
        /\ \A t \in Searcher \ {s} : spc'[t] = spc[t] /\ reading'[t] = reading[t]
    BY <1>1, <2>1 DEF Adding, Counted
  <2>3. (\A t \in Searcher : spc[t] \in Adding => reading[t] \in Counted)'
    BY <1>2, <2>1, <2>2 DEF Counted, Sources, Adding
  <2>4. ASSUME NEW v \in [Sources -> Nat], NEW P, P \subseteq Adding, "add_matches" \in P,
               NEW total \in Nat, Balanced(total, v, P)
        PROVE  total + SumOf(Pending(v, P)') = SumOf(Due(v)')
    <3>1. spc[s] \notin P /\ (spc'[s] \in P \/ (spc'[s] \notin P /\ reading[s] \notin Counted))
      BY <2>2, <2>4 DEF Adding
    <3> QED
      BY <1>2, <2>1, <2>2, <2>3, <2>4, <3>1, BalanceKept
  <2>5. stats'.total_matches + SumOf(Pending(Matches, {"add_matches"})') = SumOf(Due(Matches)')
    BY <1>1, <1>3, <2>1, <2>4 DEF SettleInv, Adding
  <2>6. stats'.total_files + SumOf(Pending(Once, {"add_matches", "add_files"})')
          = SumOf(Due(Once)')
    BY <1>1, <1>3, <2>1, <2>4 DEF SettleInv, Adding
  <2>7. stats'.files_matched + SumOf(Pending(Hit, Adding)') = SumOf(Due(Hit)')
    BY <1>1, <1>3, <2>1, <2>4 DEF SettleInv, Adding
  <2> QED
    BY <2>3, <2>5, <2>6, <2>7 DEF SettleInv, Balanced
<1>6. ASSUME UNCHANGED <<reading, searched>>,
             \A t \in Searcher \ {s} : spc'[t] = spc[t],
             spc[s] \in Adding,
             (\A t \in Searcher : spc[t] \in Adding => reading[t] \in Counted)',
             NEW v \in [Sources -> Nat], NEW P, P \subseteq Adding,
             NEW total \in Nat, NEW total2 \in Nat, Balanced(total, v, P),
             \/ (spc[s] \in P <=> spc'[s] \in P) /\ total2 = total
             \/ spc[s] \in P /\ spc'[s] \notin P /\ total2 = total + v[reading[s]]
      PROVE  total2 + SumOf(Pending(v, P)') = SumOf(Due(v)')
  <2>1. CASE (spc[s] \in P <=> spc'[s] \in P) /\ total2 = total
    <3>1. \A t \in Searcher : IF spc[t] \in P
                                THEN spc'[t] \in P /\ reading'[t] = reading[t]
                                ELSE spc'[t] \notin P
      BY <1>6, <2>1
    <3> QED
      BY <1>2, <1>6, <2>1, <3>1, BalanceKept
  <2>2. CASE spc[s] \in P /\ spc'[s] \notin P /\ total2 = total + v[reading[s]]
    <3>1. /\ \A t \in Searcher \ {s} : spc'[t] = spc[t] /\ reading'[t] = reading[t]
          /\ reading'[s] = reading[s]
      BY <1>6
    <3> QED
      BY <1>2, <1>6, <2>2, <3>1, BalanceKept
  <2> QED
    BY <1>6, <2>1, <2>2
<1>7. CASE AddMatches(s) \/ AddFiles(s) \/ AddMatched(s)
  <2>1. UNCHANGED <<reading, searched>> /\ \A t \in Searcher \ {s} : spc'[t] = spc[t]
    BY <1>1, <1>7 DEF AddMatches, AddFiles, AddMatched, Move
  <2>2. \/ /\ spc[s] = "add_matches" /\ spc'[s] = "add_files"
           /\ stats' = [stats EXCEPT !.total_matches = @ + Matches[reading[s]]]
        \/ /\ spc[s] = "add_files" /\ spc'[s] = "add_matched"
           /\ stats' = [stats EXCEPT !.total_files = @ + 1]
        \/ /\ spc[s] = "add_matched" /\ spc'[s] = "release"
           /\ stats' = [stats EXCEPT !.files_matched = @ + Matched(Matches[reading[s]])]
    BY <1>1, <1>7 DEF AddMatches, AddFiles, AddMatched, Move
  <2>3. spc[s] \in Adding /\ reading[s] \in Sources
    BY <1>2, <2>2 DEF Adding, Counted
  <2>4. (\A t \in Searcher : spc[t] \in Adding => reading[t] \in Counted)'
    BY <1>2, <2>1, <2>3 DEF Counted, Sources
  <2>5. Once[reading[s]] = 1 /\ Hit[reading[s]] = Matched(Matches[reading[s]])
    BY <2>3 DEF Once, Hit
  <2>6. stats'.total_matches + SumOf(Pending(Matches, {"add_matches"})') = SumOf(Due(Matches)')
    <3>1. \/ /\ spc[s] \in {"add_matches"} /\ spc'[s] \notin {"add_matches"}
             /\ stats'.total_matches = stats.total_matches + Matches[reading[s]]
          \/ /\ spc[s] \in {"add_matches"} <=> spc'[s] \in {"add_matches"}
             /\ stats'.total_matches = stats.total_matches
      BY <1>1, <2>2
    <3>2. {"add_matches"} \subseteq Adding
      BY DEF Adding
    <3> QED
      BY <1>1, <1>3, <1>6, <2>1, <2>3, <2>4, <3>1, <3>2 DEF SettleInv
  <2>7. stats'.total_files + SumOf(Pending(Once, {"add_matches", "add_files"})')
          = SumOf(Due(Once)')
    <3> DEFINE P == {"add_matches", "add_files"}
    <3>1. \/ /\ spc[s] \in P /\ spc'[s] \notin P
             /\ stats'.total_files = stats.total_files + Once[reading[s]]
          \/ /\ spc[s] \in P <=> spc'[s] \in P
             /\ stats'.total_files = stats.total_files
      BY <1>1, <2>2, <2>5
    <3>2. P \subseteq Adding
      BY DEF Adding
    <3>3. Balanced(stats.total_files, Once, P)
      BY DEF SettleInv
    <3> HIDE DEF P
    <3>4. stats'.total_files + SumOf(Pending(Once, P)') = SumOf(Due(Once)')
      BY <1>1, <1>3, <1>6, <2>1, <2>3, <2>4, <3>1, <3>2, <3>3
    <3> QED
      BY <3>4 DEF P
  <2>8. stats'.files_matched + SumOf(Pending(Hit, Adding)') = SumOf(Due(Hit)')
    <3>1. \/ /\ spc[s] \in Adding /\ spc'[s] \notin Adding
             /\ stats'.files_matched = stats.files_matched + Hit[reading[s]]
          \/ /\ spc[s] \in Adding <=> spc'[s] \in Adding
             /\ stats'.files_matched = stats.files_matched
      BY <1>1, <2>2, <2>5 DEF Adding
    <3> QED
      BY <1>1, <1>3, <1>6, <2>1, <2>3, <2>4, <3>1 DEF SettleInv
  <2> QED
    BY <2>4, <2>6, <2>7, <2>8 DEF SettleInv, Balanced
<1> QED
  BY <1>4, <1>5, <1>7 DEF Search

LEMMA InitSettle == Init => SettleInv
<1> SUFFICES ASSUME Init PROVE SettleInv
  OBVIOUS
<1>1. \A s \in Searcher : spc[s] \notin Adding
  BY DEF Init, Adding
<1>2. ASSUME NEW v \in [Sources -> Nat], NEW P, P \subseteq Adding
      PROVE  Balanced(0, v, P)
  <2>1. Pending(v, P) \in [Searcher -> Nat] /\ \A s \in Searcher : Pending(v, P)[s] = 0
    BY <1>1, <1>2 DEF Pending
  <2>2. Due(v) \in [Counted -> Nat] /\ \A f \in Counted : Due(v)[f] = 0
    BY DEF Init, Due, Counted, Sources
  <2>3. SumOf(Pending(v, P)) = 0 /\ SumOf(Due(v)) = 0
    BY <2>1, <2>2, SumOfNothing, Weights
  <2> QED
    BY <2>3 DEF Balanced
<1>3. stats.total_matches = 0 /\ stats.total_files = 0 /\ stats.files_matched = 0
  BY DEF Init
<1> QED
  BY <1>1, <1>2, <1>3, Weights DEF SettleInv, Adding

LEMMA StepSettle ==
  ASSUME Thm!IInv, RunInv, ExitInv, ExitInv', SettleInv, [Next]_vars
  PROVE  SettleInv'
<1>1. CASE \E s \in Searcher : Search(s)
  BY <1>1, SearchSettles DEF ExitInv
<1>2. CASE MainStep \/ (\E w \in Worker : WorkerStep(w)) \/ UNCHANGED vars
  BY <1>2, QuietSteps, QuietSettles DEF ExitInv
<1> QED
  BY <1>1, <1>2 DEF Next, Stopped

\* The statistics balance at every step: what was added and what searches are
\* still to add is what was searched (src/search.c:213-217).
THEOREM SettleInvariant == Spec => [](Thm!IInv /\ RunInv /\ ExitInv /\ SettleInv)
BY InitExit, StepExit, InitSettle, StepSettle, RunInvariant, PTL DEF Spec

\* When main reads the statistics each of the three is exactly what the files
\* searched come to, however many threads added to it (src/main.c:192-199,
\* src/search.c:213-217).
THEOREM StatsAreSettled == Spec => []StatsSettled
<1>1. Thm!IInv /\ RunInv /\ ExitInv /\ SettleInv => StatsSettled
  <2> SUFFICES ASSUME Thm!IInv, RunInv, ExitInv, SettleInv, mpc = "exited" PROVE StatsSettled
    BY DEF StatsSettled, Finished
  <2>1. \A s \in Searcher : spc[s] \notin Adding
    <3>1. \A w \in Worker : wpc[w] \in {"none", "exited"}
      BY PoolFacts DEF RunInv, CallInv
    <3> QED
      BY <3>1 DEF RunInv, SearchInv, Searcher, Main, Adding
  <2>2. ASSUME NEW v \in [Sources -> Nat], NEW P, P \subseteq Adding, NEW total \in Nat,
               Balanced(total, v, P)
        PROVE  total = SumOf(Due(v))
    <3>1. Pending(v, P) \in [Searcher -> Nat] /\ \A s \in Searcher : Pending(v, P)[s] = 0
      BY <2>1, <2>2 DEF Pending
    <3>2. SumOf(Pending(v, P)) = 0
      BY <3>1, SumOfNothing, Weights
    <3> QED
      BY <2>2, <3>2 DEF Balanced
  <2>3. /\ stats.total_matches \in Nat /\ stats.total_files \in Nat
        /\ stats.files_matched \in Nat /\ searched \in [Sources -> Nat]
    BY DEF ExitInv, StatsTypes
  <2>4. Due(Matches) = [f \in Counted |-> searched[f] * Matches[f]]
    BY DEF Due
  <2>5. Due(Once) = [f \in Counted |-> searched[f]]
    BY <2>3 DEF Due, Once, Counted
  <2>6. Due(Hit) = [f \in Counted |-> IF Matches[f] > 0 THEN searched[f] ELSE 0]
    BY <2>3, Weights DEF Due, Hit, Matched, Counted
  <2>7. stats.total_matches = SumOf(Due(Matches))
    BY <2>2, <2>3, Weights DEF SettleInv, Adding
  <2>8. stats.total_files = SumOf(Due(Once))
    BY <2>2, <2>3, Weights DEF SettleInv, Adding
  <2>9. stats.files_matched = SumOf(Due(Hit))
    BY <2>2, <2>3, Weights DEF SettleInv
  <2> QED
    BY <2>4, <2>5, <2>6, <2>7, <2>8, <2>9 DEF StatsSettled, Counted, Sources
<1> QED
  BY <1>1, SettleInvariant, PTL

------------------------------------------------------------------------------
(* Where main is in the command line: the types of what it keeps *)

WalkTypes ==
  /\ pooled \in BOOLEAN
  /\ mpc \in MainPlaces
  /\ opens \in Nat
  /\ skipped \in Nat
  /\ fwPath \in [1..MaxItems -> Paths]
  /\ current \in Paths

\* What was passed over lies behind, and main gets to the end only when the
\* whole command line does.
WalkInv ==
  /\ arg \in 1..Len(args) + 1
  /\ refused \subseteq 1..arg - 1
  /\ mpc \in {"iterate", "drain"} => arg <= Len(args) /\ cursor <= Len(args[arg]) + 1
  /\ mpc = "drain" => cursor = Len(args[arg]) + 1
  /\ mpc \in {"stdin", "teardown", "cleanup"} \/ Finished => arg = Len(args) + 1
  /\ mpc = "create" /\ cpc \in {"destroy_lock", "destroy", "join", "gone"} =>
       created # "FGREP_OK"
  /\ mpc = "start" => cpc = "calloc" /\ created = "FGREP_OK"

\* The command line and its files do not change.
LEMMA ArgsKept ==
  ASSUME [Next]_vars
  PROVE  args' = args /\ Paths' = Paths /\ Placed' = Placed
<1>1. args' = args
  BY DEF Next, MainStep, WorkerStep, Start, CreatePool, PoolCreated, ReadStdin,
     ReadStdinFails, StdinSearched, ListFiles, CannotAccess, SubmitFile, SkipFile,
     SearchFile, LastFile, TakeLock, InsidePool, FreeList, ArgsDone, Teardown, Exit,
     Begin, End, Lock, Unlock, Wakeup, Search, OpenFile, SearchData, AddMatches,
     AddFiles, AddMatched, Release, Stopped, mainVars, vars
<1> QED
  BY <1>1 DEF Paths, Placed

LEMMA ArgsTypes ==
  ASSUME PathInv
  PROVE  /\ args \in Seq(Seq(Files)) /\ Len(args) \in Nat /\ DOMAIN args = 1..Len(args)
         /\ \A a \in 1..Len(args) : /\ args[a] \in Seq(Files) /\ Len(args[a]) \in Nat
                                    /\ DOMAIN args[a] = 1..Len(args[a])
<1>1. args \in Seq(Seq(Files))
  BY RunAssumption DEF PathInv, RunAssumption
<1>2. \A a \in 1..Len(args) : args[a] \in Seq(Files)
  BY <1>1
<1>3. \A a \in 1..Len(args) : Len(args[a]) \in Nat /\ DOMAIN args[a] = 1..Len(args[a])
  BY <1>2
<1> QED
  BY <1>1, <1>2, <1>3

\* The place main is at is that of a path.
LEMMA IteratingPath ==
  ASSUME RunTypes, PathInv, Iterating
  PROVE  <<arg, cursor>> \in Paths
<1>1. arg \in DOMAIN args /\ cursor \in DOMAIN args[arg]
  BY ArgsTypes DEF RunTypes, PathInv, Iterating, AtEnd
<1> QED
  BY <1>1 DEF Paths

LEMMA WalkTypesKept ==
  ASSUME RunTypes, PathInv, WalkTypes, [Next]_vars
  PROVE  WalkTypes'
<1>1. pooled' \in BOOLEAN
  BY DEF WalkTypes, Next, MainStep, WorkerStep, Start, CreatePool, PoolCreated, ReadStdin,
     ReadStdinFails, StdinSearched, ListFiles, CannotAccess, SubmitFile, SkipFile,
     SearchFile, LastFile, TakeLock, InsidePool, FreeList, ArgsDone, Teardown, Exit,
     Begin, End, Lock, Unlock, Wakeup, Search, OpenFile, SearchData, AddMatches,
     AddFiles, AddMatched, Release, Stopped, mainVars, vars
<1>2. mpc' \in MainPlaces
  BY DEF WalkTypes, MainPlaces, Step, Next, MainStep, WorkerStep, Start, CreatePool,
     PoolCreated, ReadStdin,
     ReadStdinFails, StdinSearched, ListFiles, CannotAccess, SubmitFile, SkipFile,
     SearchFile, LastFile, TakeLock, InsidePool, FreeList, ArgsDone, Teardown, Exit,
     Begin, End, Lock, Unlock, Wakeup, Search, OpenFile, SearchData, AddMatches,
     AddFiles, AddMatched, Release, Stopped, mainVars, vars
<1>3. opens' \in {opens, opens + 1} /\ skipped' \in {skipped, skipped + 1}
  BY DEF Next, MainStep, WorkerStep, Start, CreatePool, PoolCreated, ReadStdin,
     ReadStdinFails, StdinSearched, ListFiles, CannotAccess, SubmitFile, SkipFile,
     SearchFile, LastFile, TakeLock, InsidePool, FreeList, ArgsDone, Teardown, Exit,
     Begin, End, Lock, Unlock, Wakeup, Search, OpenFile, SearchData, AddMatches,
     AddFiles, AddMatched, Release, Stopped, mainVars, searchVars, vars
<1>4. /\ \/ fwPath' = fwPath
         \/ Iterating /\ fwPath' = [fwPath EXCEPT ![allocated + 1] = <<arg, cursor>>]
      /\ \/ current' = current
         \/ Iterating /\ current' = <<arg, cursor>>
  BY DEF Next, MainStep, WorkerStep, Start, CreatePool, PoolCreated, ReadStdin,
     ReadStdinFails, StdinSearched, ListFiles, CannotAccess, SubmitFile, SkipFile,
     SearchFile, LastFile, TakeLock, InsidePool, FreeList, ArgsDone, Teardown, Exit,
     Begin, End, Lock, Unlock, Wakeup, Search, OpenFile, SearchData, AddMatches,
     AddFiles, AddMatched, Release, Stopped, mainVars, vars
<1>5. fwPath' \in [1..MaxItems -> Paths] /\ current' \in Paths
  BY <1>4, IteratingPath DEF WalkTypes
<1> QED
  BY <1>1, <1>2, <1>3, <1>5, ArgsKept DEF WalkTypes

\* The steps that take main further, and those that leave it where it is.
LEMMA WalkKept ==
  ASSUME RunTypes, CallInv, PathInv, WalkTypes, WalkInv, [Next]_vars
  PROVE  WalkInv'
<1> USE DEF WalkInv, RunTypes, Step, Finished, poolVars, mainVars, searchVars
<1>1. args' = args
  BY ArgsKept
<1>2. /\ Len(args) \in Nat /\ DOMAIN args = 1..Len(args)
      /\ \A a \in 1..Len(args) : Len(args[a]) \in Nat
  BY ArgsTypes
<1>3. ASSUME UNCHANGED <<arg, cursor, refused, mpc, created>>, cpc' = cpc PROVE WalkInv'
  BY <1>1, <1>3
<1>4. CASE Start
  BY <1>1, <1>2, <1>4 DEF Start
<1>5. CASE CreatePool
  BY <1>1, <1>2, <1>5 DEF CreatePool, Pool!Create, Pool!CreateAlloc, Pool!CreateNoMemory,
     Pool!CreateThread, Pool!CreateFails, Pool!CreateReturn, Pool!Call
<1>6. CASE PoolCreated
  BY <1>1, <1>2, <1>6 DEF PoolCreated
<1>7. CASE ReadStdin \/ ReadStdinFails
  <2>1. Len(args) = 0
    BY <1>7 DEF ReadStdin, ReadStdinFails
  <2>2. arg = Len(args) + 1
    BY <2>1
  <2>3. /\ UNCHANGED <<arg, refused>> /\ mpc' \in {"stdin", "teardown"}
    BY <1>7 DEF ReadStdin, ReadStdinFails
  <2> QED
    BY <1>1, <2>2, <2>3
<1>8. CASE StdinSearched
  BY <1>1, <1>2, <1>8 DEF StdinSearched
<1>9. CASE ListFiles
  BY <1>1, <1>2, <1>9 DEF ListFiles
<1>10. CASE CannotAccess
  BY <1>1, <1>2, <1>10 DEF CannotAccess
<1>11. CASE SubmitFile \/ SkipFile \/ SearchFile
  <2>1. /\ mpc = "iterate" /\ mpc' = mpc /\ arg' = arg /\ refused' = refused
        /\ cursor' = cursor + 1 /\ cursor <= Len(args[arg])
    BY <1>2, <1>11 DEF SubmitFile, SkipFile, SearchFile, Iterating, AtEnd
  <2> QED
    BY <1>1, <1>2, <2>1
<1>12. CASE LastFile
  BY <1>1, <1>2, <1>12 DEF LastFile, AtEnd
<1>13. CASE TakeLock
  BY <1>1, <1>2, <1>13 DEF CallInv, TakeLock, Pool!SubmitLock, Pool!WaitLock,
     Pool!DestroyLock, Pool!ClientLock, Pool!Call
<1>14. CASE InsidePool
  <2>1. UNCHANGED <<arg, cursor, refused, mpc, created>>
    BY <1>14 DEF InsidePool, Pool!SubmitLink, Pool!WaitPoll, Pool!DestroyShutdown,
       Pool!DestroyJoin, Pool!DestroyJoinMissing, Pool!DestroyReturn
  <2>2. \/ cpc' \in {"idle", "wait_lock", "crashed"} /\ cpc # "calloc"
        \/ cpc \in {"destroy", "join"} /\ cpc' \in {"join", "gone"}
    BY <1>14 DEF InsidePool, Pool!SubmitLink, Pool!WaitPoll, Pool!DestroyShutdown,
       Pool!DestroyJoin, Pool!DestroyJoinMissing, Pool!DestroyReturn, Pool!Call
  <2> QED
    BY <1>1, <2>1, <2>2
<1>15. CASE FreeList
  BY <1>1, <1>2, <1>15 DEF FreeList
<1>16. CASE ArgsDone
  BY <1>1, <1>2, <1>16 DEF ArgsDone
<1>17. CASE Teardown
  BY <1>1, <1>2, <1>17 DEF Teardown
<1>18. CASE Exit
  BY <1>1, <1>2, <1>18 DEF Exit
<1>19. ASSUME NEW s \in Searcher, Search(s) PROVE WalkInv'
  BY <1>3, <1>19 DEF Search, OpenFile, SearchData, AddMatches, AddFiles, AddMatched, Release
<1>20. ASSUME NEW w \in Worker, WorkerStep(w) PROVE WalkInv'
  BY <1>3, <1>20 DEF WorkerStep, Begin, End, Lock, Unlock, Wakeup, Pool!WorkerTake,
     Pool!WorkerRan, Pool!WorkerLock, Pool!WorkerPark, Pool!WorkerExit, Pool!WorkerFree,
     Pool!SpuriousWakeup, Pool!clientVars
<1>21. CASE UNCHANGED vars
  BY <1>3, <1>21 DEF vars
<1> QED
  BY <1>4, <1>5, <1>6, <1>7, <1>8, <1>9, <1>10, <1>11, <1>12, <1>13, <1>14, <1>15, <1>16,
     <1>17, <1>18, <1>19, <1>20, <1>21 DEF Next, MainStep, Stopped

LEMMA InitWalk == Init => WalkTypes /\ WalkInv
<1> SUFFICES ASSUME Init PROVE WalkTypes /\ WalkInv
  OBVIOUS
<1>1. PathInv
  BY InitExit DEF ExitInv
<1>2. WalkTypes
  BY DEF Init, WalkTypes, MainPlaces, Paths
<1>3. cpc = "calloc" /\ created = "FGREP_OK"
  BY DEF Init, Pool!Init
<1>4. WalkInv
  BY <1>1, <1>3, ArgsTypes DEF Init, WalkInv, Finished
<1> QED
  BY <1>2, <1>4

\* All that holds throughout a run.
AllInv == Thm!IInv /\ RunInv /\ ExitInv /\ SettleInv /\ WalkTypes /\ WalkInv

\* Where main is in the command line agrees with its place in the program
\* (src/main.c:165-189), besides all that was proved before.
THEOREM AllInvariant == Spec => []AllInv
<1>1. RunInv /\ ExitInv /\ WalkTypes /\ WalkInv /\ [Next]_vars => WalkTypes' /\ WalkInv'
  BY WalkTypesKept, WalkKept DEF RunInv, ExitInv
<1> QED
  BY <1>1, InitWalk, SettleInvariant, PTL DEF Spec, AllInv

\* The variables of a run stay within their types, for every command line and
\* number of threads (src/main.c:134-201).
THEOREM TypeCorrect == Spec => []TypeOK
<1>1. AllInv => TypeOK
  <2> SUFFICES ASSUME AllInv PROVE TypeOK
    OBVIOUS
  <2> USE DEF AllInv
  <2>1. Pool!TypeOK
    BY DEF Thm!IInv, Thm!TypeOK, Thm!ListTypeOK, Thm!ThreadTypeOK, Thm!Item, Thm!Worker,
       Thm!NULL, Thm!Client, Thm!NoThread, Thm!Statuses, Thm!WorkerPlaces,
       Thm!ClientPlaces, Pool!TypeOK, Pool!ListTypeOK, Pool!ThreadTypeOK, Pool!Item,
       Pool!Worker, Pool!NULL, Pool!Client, Pool!NoThread, Pool!Statuses,
       Pool!WorkerPlaces, Pool!ClientPlaces
  <2>2. args \in ArgLists /\ arg \in 1..Len(args) + 1 /\ cursor \in Nat \ {0}
    BY DEF ExitInv, PathInv, WalkInv, RunInv, RunTypes
  <2>3. freed \subseteq 1..Len(args) /\ refused \subseteq 1..Len(args)
    <3>1. Len(args) \in Nat
      BY ArgsTypes DEF ExitInv
    <3>2. arg - 1 <= Len(args) /\ arg \in Nat
      BY <2>2, <3>1
    <3>3. 1..arg - 1 \subseteq 1..Len(args)
      BY <3>1, <3>2
    <3> QED
      BY <3>3 DEF RunInv, QueueInv, WalkInv
  <2>4. /\ spc \in [Searcher -> SearchPlaces]
        /\ reading \in [Searcher -> Files \cup {Stdin, NoFile}]
        /\ stats \in [total_matches : Nat, total_files : Nat, files_matched : Nat]
        /\ searched \in [Files \cup {Stdin} -> Nat]
    <3>1. Sources \cup {NoFile} = Files \cup {Stdin, NoFile}
      BY DEF Sources
    <3> QED
      BY <3>1 DEF RunInv, RunTypes, ExitInv, StatsTypes, Sources
  <2> QED
    BY <2>1, <2>2, <2>3, <2>4 DEF TypeOK, WalkTypes
<1> QED
  BY <1>1, AllInvariant, PTL

------------------------------------------------------------------------------
(* The inductive invariant behind EveryFileIsTried *)

\* How many files of each list main has passed.
Passed ==
  [a \in DOMAIN args |->
     IF a \in refused THEN 0
     ELSE IF a < arg THEN Len(args[a])
     ELSE IF a = arg /\ mpc \in {"iterate", "drain"} THEN cursor - 1
     ELSE 0]

\* Every file main has passed was tried or skipped, or waits.
TriedInv == opens + skipped + Queued + Submitting + SumOf(Opening) = SumOf(Passed)

LEMMA TriedTypes ==
  ASSUME AllInv
  PROVE  /\ opens \in Nat /\ skipped \in Nat /\ Submitting \in Nat /\ Queued \in Nat
         /\ Opening \in [Searcher -> Nat] /\ SumOf(Opening) \in Nat
         /\ DOMAIN args = 1..Len(args) /\ Len(args) \in Nat /\ IsFiniteSet(DOMAIN args)
         /\ \A a \in DOMAIN args : Len(args[a]) \in Nat
         /\ Passed \in [DOMAIN args -> Nat] /\ SumOf(Passed) \in Nat
<1> USE DEF AllInv
<1>1. opens \in Nat /\ skipped \in Nat /\ Submitting \in Nat
  BY DEF WalkTypes, Submitting
<1>2. Queued \in Nat
  BY PoolFacts DEF Queued
<1>3. Opening \in [Searcher -> Nat]
  BY DEF Opening
<1>4. SumOf(Opening) \in Nat
  BY <1>3, SumOfIsNat, Weights
<1>5. /\ DOMAIN args = 1..Len(args) /\ Len(args) \in Nat
      /\ \A a \in DOMAIN args : Len(args[a]) \in Nat
  BY ArgsTypes DEF ExitInv
<1>6. IsFiniteSet(DOMAIN args)
  BY <1>5, FS_Interval
<1>7. cursor - 1 \in Nat
  BY DEF ExitInv, PathInv, RunInv, RunTypes
<1>8. Passed \in [DOMAIN args -> Nat]
  BY <1>5, <1>7 DEF Passed
<1>9. SumOf(Passed) \in Nat
  BY <1>6, <1>8, SumOfIsNat
<1> QED
  BY <1>1, <1>2, <1>3, <1>4, <1>5, <1>6, <1>8, <1>9

\* When main takes the next file it has passed one more.
LEMMA OnePassed ==
  ASSUME AllInv, AllInv', args' = args, Iterating,
         UNCHANGED <<arg, mpc, refused>>, cursor' = cursor + 1
  PROVE  SumOf(Passed') = SumOf(Passed) + 1
<1>1. Passed' \in [DOMAIN args -> Nat]
  <2>1. (Passed \in [DOMAIN args -> Nat])'
    BY TriedTypes, PTL
  <2> QED
    BY <2>1
<1>2. arg \in DOMAIN args /\ arg \notin refused /\ mpc = "iterate" /\ cursor \in Nat
  BY TriedTypes DEF AllInv, WalkInv, RunInv, RunTypes, Iterating
<1>3. Passed'[arg] = Passed[arg] + 1
  BY <1>2, TriedTypes DEF Passed
<1>4. \A a \in DOMAIN args \ {arg} : Passed'[a] = Passed[a]
  BY DEF Passed
<1> QED
  BY <1>1, <1>2, <1>3, <1>4, TriedTypes, SumOfOneMore

\* When main goes from list to list what it has passed stays the same.
LEMMA PassedSame ==
  ASSUME AllInv, args' = args,
         ListFiles \/ CannotAccess \/ LastFile \/ FreeList
  PROVE  Passed' = Passed
<1> USE DEF Step
<1>1. /\ arg \in Nat /\ cursor \in Nat /\ refused \subseteq 1..arg - 1
      /\ \A a \in DOMAIN args : a \in Nat
  BY TriedTypes DEF AllInv, RunInv, RunTypes, WalkInv
<1>2. CASE ListFiles
  BY <1>1, <1>2 DEF Passed, ListFiles
<1>3. CASE CannotAccess
  BY <1>1, <1>3 DEF Passed, CannotAccess
<1>4. CASE LastFile
  BY <1>1, <1>4 DEF Passed, LastFile
<1>5. CASE FreeList
  <2>1. cursor = Len(args[arg]) + 1 /\ arg \in DOMAIN args /\ Len(args[arg]) \in Nat
    BY <1>5, TriedTypes DEF FreeList, AllInv, WalkInv, RunInv, RunTypes
  <2>2. arg' = arg + 1 /\ mpc = "drain" /\ mpc' = "args" /\ refused' = refused
    BY <1>5 DEF FreeList
  <2> QED
    BY <1>1, <2>1, <2>2 DEF Passed
<1> QED
  BY <1>2, <1>3, <1>4, <1>5

\* A step that hands on no file.
Idle ==
  /\ UNCHANGED <<opens, skipped>>
  /\ Queued' = Queued /\ Submitting' = Submitting
  /\ Opening' = Opening /\ Passed' = Passed

LEMMA IdleKeeps == TriedInv /\ Idle => TriedInv'
BY DEF TriedInv, Idle

LEMMA SearchTries ==
  ASSUME AllInv, AllInv', TriedInv, args' = args, NEW s \in Searcher, Search(s)
  PROVE  TriedInv'
<1>1. spc \in [Searcher -> SearchPlaces]
  BY DEF AllInv, RunInv, RunTypes
<1>2. UNCHANGED <<poolVars, mainVars>>
  BY DEF Search, OpenFile, SearchData, AddMatches, AddFiles, AddMatched, Release
<1>3. Queued' = Queued /\ Submitting' = Submitting /\ Passed' = Passed /\ skipped' = skipped
  BY <1>2 DEF Queued, Submitting, Passed, poolVars, mainVars
<1>4. CASE OpenFile(s)
  <2>1. /\ spc[s] = "open" /\ opens' = opens + 1
        /\ spc' = [spc EXCEPT ![s] = "release"] \/ spc' = [spc EXCEPT ![s] = "search"]
    BY <1>4 DEF OpenFile
  <2>2. Opening[s] = Opening'[s] + 1 /\ \A t \in Searcher \ {s} : Opening[t] = Opening'[t]
    BY <1>1, <2>1 DEF Opening
  <2>3. Opening' \in [Searcher -> Nat]
    BY DEF Opening
  <2>4. SumOf(Opening) = SumOf(Opening') + 1
    <3>1. Opening \in [Searcher -> Nat] /\ IsFiniteSet(Searcher)
      BY TriedTypes, Weights
    <3> QED
      BY <2>2, <2>3, <3>1, SumOfOneMore
  <2>5. SumOf(Opening') \in Nat
    BY <2>3, Weights, SumOfIsNat
  <2>6. opens' = opens + 1
    BY <2>1
  <2>7. /\ opens \in Nat /\ skipped \in Nat /\ Queued \in Nat /\ Submitting \in Nat
        /\ SumOf(Passed') = SumOf(Passed)
    BY <1>3, TriedTypes
  <2> QED
    BY <1>3, <2>4, <2>5, <2>6, <2>7 DEF TriedInv
<1>5. CASE ~OpenFile(s)
  <2>1. /\ spc[s] # "open" /\ opens' = opens
        /\ spc' = [spc EXCEPT ![s] = spc'[s]] /\ spc'[s] # "open"
    BY <1>1, <1>5 DEF Search, SearchData, AddMatches, AddFiles, AddMatched, Release, Move
  <2>2. Opening' = Opening
    BY <1>1, <2>1 DEF Opening
  <2> QED
    BY <1>3, <2>1, <2>2, IdleKeeps DEF Idle
<1> QED
  BY <1>4, <1>5

\* A worker that takes an item out of the queue is about to open its path.
LEMMA WorkerTries ==
  ASSUME AllInv, AllInv', TriedInv, args' = args, NEW w \in Worker, WorkerStep(w)
  PROVE  TriedInv'
<1>1. /\ spc \in [Searcher -> SearchPlaces] /\ w \in Searcher
      /\ \A v \in Worker : spc[v] # "none" => wpc[v] = "run"
  BY DEF AllInv, RunInv, RunTypes, SearchInv, Searcher
<1>2. UNCHANGED <<mainVars, opens>> /\ cpc' = cpc
  BY DEF WorkerStep, Begin, End, Lock, Unlock, Wakeup, searchVars, Pool!WorkerTake,
     Pool!WorkerRan, Pool!WorkerLock, Pool!WorkerPark, Pool!WorkerExit, Pool!WorkerFree,
     Pool!SpuriousWakeup, Pool!clientVars
<1>3. Submitting' = Submitting /\ Passed' = Passed /\ skipped' = skipped
  BY <1>2 DEF Submitting, Passed, mainVars
<1>4. CASE Begin(w)
  <2>1. /\ wpc[w] = "test" /\ spc' = [spc EXCEPT ![w] = "open"]
        /\ workHead # 0 /\ workHead' = next[workHead]
        /\ workTail' = IF next[workHead] = 0 THEN 0 ELSE workTail
    BY <1>4 DEF Begin, Pool!WorkerTake, Pool!Unlink, Pool!Goto, Pool!NULL
  <2>2. Queued = Queued' + 1 /\ Queued' \in Nat
    BY <2>1, PoolFacts DEF Queued, AllInv
  <2>3. spc[w] = "none"
    BY <1>1, <2>1
  <2>4. Opening'[w] = Opening[w] + 1 /\ \A t \in Searcher \ {w} : Opening'[t] = Opening[t]
    BY <1>1, <2>1, <2>3 DEF Opening
  <2>5. Opening' \in [Searcher -> Nat]
    BY DEF Opening
  <2>6. SumOf(Opening') = SumOf(Opening) + 1
    <3>1. Opening \in [Searcher -> Nat] /\ IsFiniteSet(Searcher)
      BY TriedTypes, Weights
    <3> QED
      BY <1>1, <2>4, <2>5, <3>1, SumOfOneMore
  <2>7. /\ opens \in Nat /\ skipped \in Nat /\ Submitting \in Nat
        /\ SumOf(Opening) \in Nat /\ SumOf(Passed') = SumOf(Passed) /\ opens' = opens
    BY <1>2, <1>3, TriedTypes
  <2> QED
    BY <1>3, <2>2, <2>6, <2>7 DEF TriedInv
<1>5. CASE ~Begin(w)
  <2>1. UNCHANGED <<workHead, workTail>>
    BY <1>5 DEF WorkerStep, End, Lock, Unlock, Wakeup, Pool!WorkerRan, Pool!WorkerLock,
       Pool!WorkerPark, Pool!WorkerExit, Pool!WorkerFree, Pool!SpuriousWakeup,
       Pool!queueVars
  <2>2. \/ spc' = spc
        \/ spc[w] = "done" /\ spc' = [spc EXCEPT ![w] = "none"]
    BY <1>5 DEF WorkerStep, End, Lock, Unlock, Wakeup, searchVars, Move
  <2>3. Opening' = Opening
    BY <1>1, <2>2 DEF Opening
  <2>4. Queued' = Queued
    BY <2>1 DEF Queued
  <2> QED
    BY <1>2, <1>3, <2>3, <2>4, IdleKeeps DEF Idle
<1> QED
  BY <1>4, <1>5

\* What main does with a file: it hands it to the pool, drops it, or searches it.
LEMMA MainTries ==
  ASSUME AllInv, AllInv', TriedInv, args' = args, MainStep
  PROVE  TriedInv'
<1> USE DEF Step
<1>1. CASE SubmitFile \/ SkipFile \/ SearchFile
  <2>1. /\ Iterating /\ UNCHANGED <<arg, mpc, refused, opens>> /\ cursor' = cursor + 1
        /\ UNCHANGED <<workHead, workTail>>
    BY <1>1 DEF SubmitFile, SkipFile, SearchFile, Pool!SubmitAlloc, searchVars, poolVars,
       Iterating
  <2>2. SumOf(Passed') = SumOf(Passed) + 1
    BY <2>1, OnePassed
  <2>3. Queued' = Queued
    BY <2>1 DEF Queued
  <2>4. CASE SubmitFile
    <3>1. cpc = "idle" /\ cpc' = "submit_lock" /\ skipped' = skipped /\ spc' = spc
      BY <2>4 DEF SubmitFile, Pool!SubmitAlloc, Pool!Call, searchVars
    <3>2. Opening' = Opening /\ Submitting = 0 /\ Submitting' = 1
      BY <3>1 DEF Opening, Submitting
    <3> QED
      BY <2>1, <2>2, <2>3, <3>1, <3>2, TriedTypes DEF TriedInv
  <2>5. CASE SkipFile
    <3>1. cpc' = cpc /\ skipped' = skipped + 1 /\ spc' = spc
      BY <2>5 DEF SkipFile, searchVars, poolVars
    <3>2. Opening' = Opening /\ Submitting' = Submitting
      BY <3>1 DEF Opening, Submitting
    <3>3. opens' + skipped' + Queued' + Submitting' + SumOf(Opening')
            = opens + (skipped + 1) + Queued + Submitting + SumOf(Opening)
      BY <2>1, <2>3, <3>1, <3>2
    <3> QED
      BY <2>2, <3>3, TriedTypes DEF TriedInv
  <2>6. CASE SearchFile
    <3>1. /\ cpc' = cpc /\ skipped' = skipped /\ spc[Main] = "none"
          /\ spc' = [spc EXCEPT ![Main] = "open"]
      BY <2>6 DEF SearchFile, Iterating, poolVars
    <3>2. Main \in Searcher /\ spc \in [Searcher -> SearchPlaces]
      BY DEF Searcher, AllInv, RunInv, RunTypes
    <3>3. /\ Opening'[Main] = Opening[Main] + 1
          /\ \A t \in Searcher \ {Main} : Opening'[t] = Opening[t]
      BY <3>1, <3>2 DEF Opening
    <3>4. Opening' \in [Searcher -> Nat]
      BY DEF Opening
    <3>5. SumOf(Opening') = SumOf(Opening) + 1
      <4>1. Opening \in [Searcher -> Nat] /\ IsFiniteSet(Searcher)
        BY TriedTypes, Weights
      <4> QED
        BY <3>2, <3>3, <3>4, <4>1, SumOfOneMore
    <3>6. Submitting' = Submitting
      BY <3>1 DEF Submitting
    <3> QED
      BY <2>1, <2>2, <2>3, <3>1, <3>5, <3>6, TriedTypes DEF TriedInv
  <2> QED
    BY <1>1, <2>4, <2>5, <2>6
<1>2. CASE ListFiles \/ CannotAccess \/ LastFile \/ FreeList
  <2>1. Passed' = Passed
    BY <1>2, PassedSame
  <2>2. UNCHANGED <<opens, skipped, workHead, workTail, spc>>
    BY <1>2 DEF ListFiles, CannotAccess, LastFile, FreeList, Pool!WaitCall, Pool!queueVars,
       searchVars, poolVars
  <2>3. \/ cpc' = cpc
        \/ cpc = "idle" /\ cpc' = "wait_lock"
    BY <1>2 DEF ListFiles, CannotAccess, LastFile, FreeList, Pool!WaitCall, Pool!Call,
       poolVars
  <2> QED
    BY <2>1, <2>2, <2>3, IdleKeeps DEF Idle, Queued, Submitting, Opening
<1>3. CASE InsidePool
  <2>1. UNCHANGED <<mainVars, searchVars>>
    BY <1>3 DEF InsidePool
  <2>2. UNCHANGED <<opens, skipped>> /\ Opening' = Opening /\ Passed' = Passed
    BY <2>1 DEF mainVars, searchVars, Opening, Passed
  <2>3. CASE Pool!SubmitLink
    <3>1. /\ cpc = "submit" /\ cpc' = "idle"
          /\ workHead' = IF workTail = 0 THEN allocated ELSE workHead
          /\ workTail' = allocated
      BY <2>3 DEF Pool!SubmitLink, Pool!Call, Pool!NULL
    <3>2. allocated # 0
      BY <3>1 DEF AllInv, Thm!IInv, Thm!ItemInv, Thm!FreshInv
    <3>3. Queued' = Queued + 1
      BY <3>1, <3>2, PoolFacts DEF Queued, AllInv
    <3>4. Submitting = 1 /\ Submitting' = 0
      BY <3>1 DEF Submitting
    <3> QED
      BY <2>2, <3>3, <3>4, TriedTypes DEF TriedInv
  <2>4. CASE Pool!WaitPoll \/ Pool!DestroyShutdown \/ Pool!DestroyJoin
             \/ Pool!DestroyJoinMissing
    <3>1. /\ UNCHANGED <<workHead, workTail>>
          /\ cpc \notin {"submit_lock", "submit"} /\ cpc' \notin {"submit_lock", "submit"}
      BY <2>4 DEF Pool!WaitPoll, Pool!DestroyShutdown, Pool!DestroyJoin,
         Pool!DestroyJoinMissing, Pool!Call, Pool!queueVars
    <3> QED
      BY <2>2, <3>1, IdleKeeps DEF Idle, Queued, Submitting
  <2>5. CASE Pool!DestroyReturn
    <3>1. cpc = "join" /\ cpc' = "gone" /\ mpc' = mpc /\ mpc \in {"create", "cleanup"}
      BY <2>1, <2>5 DEF Pool!DestroyReturn, Pool!Call, mainVars, AllInv, RunInv, CallInv
    <3>2. workHead = 0 /\ workHead' = 0
      BY <3>1 DEF AllInv, RunInv, QueueInv
    <3> QED
      BY <2>2, <3>1, <3>2, IdleKeeps DEF Idle, Queued, Submitting
  <2> QED
    BY <1>3, <2>3, <2>4, <2>5 DEF InsidePool
<1>4. CASE TakeLock
  <2>1. UNCHANGED <<mainVars, searchVars, workHead, workTail>>
    BY <1>4 DEF TakeLock, Pool!SubmitLock, Pool!WaitLock, Pool!DestroyLock,
       Pool!ClientLock, Pool!queueVars
  <2>2. /\ cpc' \in {"submit_lock", "submit"} <=> cpc \in {"submit_lock", "submit"}
    BY <1>4 DEF TakeLock, Pool!SubmitLock, Pool!WaitLock, Pool!DestroyLock,
       Pool!ClientLock, Pool!Call
  <2> QED
    BY <2>1, <2>2, IdleKeeps DEF Idle, Queued, Submitting, Opening, Passed, mainVars, searchVars
<1>5. CASE CreatePool \/ Teardown
  <2>1. UNCHANGED <<arg, cursor, refused, opens, skipped, spc, workHead, workTail>>
    BY <1>5 DEF CreatePool, Teardown, mainVars, searchVars, poolVars, Pool!Create,
       Pool!CreateAlloc, Pool!CreateNoMemory, Pool!CreateThread, Pool!CreateFails,
       Pool!CreateReturn, Pool!DestroyCall, Pool!queueVars
  <2>2. /\ cpc' \in {"submit_lock", "submit"} <=> cpc \in {"submit_lock", "submit"}
    BY <1>5 DEF CreatePool, Teardown, poolVars, Pool!Create, Pool!CreateAlloc,
       Pool!CreateNoMemory, Pool!CreateThread, Pool!CreateFails, Pool!CreateReturn,
       Pool!DestroyCall, Pool!Call
  <2>3. mpc' \in {"iterate", "drain"} <=> mpc \in {"iterate", "drain"}
    BY <1>5 DEF CreatePool, Teardown, mainVars
  <2> QED
    BY <2>1, <2>2, <2>3, IdleKeeps DEF Idle, Queued, Submitting, Opening, Passed
<1>6. CASE Start \/ PoolCreated \/ ReadStdin \/ ReadStdinFails \/ StdinSearched \/ ArgsDone
           \/ Exit
  <2>1. UNCHANGED <<arg, cursor, refused, opens, skipped, workHead, workTail, cpc>>
    BY <1>6 DEF Start, PoolCreated, ReadStdin, ReadStdinFails, StdinSearched, ArgsDone,
       Exit, mainVars, searchVars, poolVars
  <2>2. mpc \notin {"iterate", "drain"} /\ mpc' \notin {"iterate", "drain"}
    BY <1>6 DEF Start, PoolCreated, ReadStdin, ReadStdinFails, StdinSearched, ArgsDone, Exit
  <2>3. \/ spc' = spc
        \/ spc[Main] = "none" /\ spc' = [spc EXCEPT ![Main] = "search"]
    BY <1>6 DEF Start, PoolCreated, ReadStdin, ReadStdinFails, StdinSearched, ArgsDone,
       Exit, searchVars, AllInv, RunInv, SearchInv
  <2>4. Opening' = Opening
    BY <2>3 DEF Opening, AllInv, RunInv, RunTypes, Searcher
  <2> QED
    BY <2>1, <2>2, <2>4, IdleKeeps DEF Idle, Queued, Submitting, Passed
<1> QED
  BY <1>1, <1>2, <1>3, <1>4, <1>5, <1>6 DEF MainStep

LEMMA InitTried == Init /\ AllInv => TriedInv
<1> SUFFICES ASSUME Init, AllInv PROVE TriedInv
  OBVIOUS
<1>1. opens = 0 /\ skipped = 0 /\ Queued = 0 /\ Submitting = 0
  BY DEF Init, Pool!Init, Pool!NULL, Queued, Submitting
<1>2. \A s \in Searcher : Opening[s] = 0
  BY DEF Init, Opening
<1>3. \A a \in DOMAIN args : Passed[a] = 0
  BY TriedTypes DEF Init, Passed
<1>4. SumOf(Opening) = 0 /\ SumOf(Passed) = 0
  BY <1>2, <1>3, TriedTypes, Weights, SumOfNothing
<1> QED
  BY <1>1, <1>4 DEF TriedInv

LEMMA StepTried == AllInv /\ AllInv' /\ TriedInv /\ [Next]_vars => TriedInv'
<1> SUFFICES ASSUME AllInv, AllInv', TriedInv, [Next]_vars PROVE TriedInv'
  OBVIOUS
<1>1. args' = args
  BY ArgsKept
<1>2. CASE UNCHANGED vars
  BY <1>2, IdleKeeps DEF Idle, Queued, Submitting, Opening, Passed, vars, poolVars,
     mainVars, searchVars
<1> QED
  BY <1>1, <1>2, SearchTries, WorkerTries, MainTries DEF Next, Stopped

\* Without a pool: the places of file f that main has passed, and whether main
\* is about to search f.
Reached(f) ==
  {p \in Placed : /\ p[1] \notin refused
                  /\ args[p[1]][p[2]] = f
                  /\ \/ p[1] < arg
                     \/ p[1] = arg /\ mpc \in {"iterate", "drain"} /\ p[2] < cursor}

Searching(f) ==
  \/ spc[Main] = "open" /\ args[current[1]][current[2]] = f
  \/ spc[Main] = "search" /\ reading[Main] = f

\* A file that can be opened was searched at each of its places but the one main
\* is at.
SequentialInv ==
  ~pooled /\ args # <<>> =>
    /\ spc[Main] = "open" => current[1] = arg
    /\ \A f \in Files \ Unreadable :
         /\ IsFiniteSet(Reached(f))
         /\ searched[f] + (IF Searching(f) THEN 1 ELSE 0) = Cardinality(Reached(f))

\* Without a pool nobody but main searches.
LEMMA AloneFacts ==
  ASSUME AllInv, ~pooled
  PROVE  /\ \A w \in Worker : wpc[w] = "none" /\ spc[w] = "none"
         /\ searched \in [Sources -> Nat] /\ spc \in [Searcher -> SearchPlaces]
         /\ reading \in [Searcher -> Sources \cup {NoFile}]
         /\ Main \in Searcher /\ Main \notin Worker
         /\ arg \in Nat /\ cursor \in Nat
<1>1. \A w \in Worker : wpc[w] = "none"
  BY DEF AllInv, RunInv, CallInv, Thm!IInv, Thm!PhaseInv, Thm!TypeOK, Thm!ThreadTypeOK,
     Thm!Worker, Worker
<1>2. \A w \in Worker : spc[w] = "none"
  BY <1>1 DEF AllInv, RunInv, SearchInv
<1>3. Main \in Searcher /\ Main \notin Worker
  BY RunAssumption DEF Searcher, Worker, Main
<1> QED
  BY <1>1, <1>2, <1>3 DEF AllInv, ExitInv, StatsTypes, RunInv, RunTypes

\* Steps that search nothing and pass nothing.
LEMMA SequentialSame ==
  ASSUME SequentialInv, pooled' = pooled, args' = args, searched' = searched,
         spc'[Main] = "open" => spc[Main] = "open" /\ current' = current /\ arg' = arg,
         \A f \in Files \ Unreadable : Reached(f)' = Reached(f),
         \A f \in Files \ Unreadable : Searching(f)' <=> Searching(f)
  PROVE  SequentialInv'
<1> SUFFICES ASSUME ~pooled, args # <<>>
             PROVE  /\ spc'[Main] = "open" => current'[1] = arg'
                    /\ \A f \in Files \ Unreadable :
                         /\ IsFiniteSet(Reached(f)')
                         /\ searched'[f] + (IF Searching(f)' THEN 1 ELSE 0)
                              = Cardinality(Reached(f)')
  BY DEF SequentialInv
<1>1. spc'[Main] = "open" => current'[1] = arg'
  BY DEF SequentialInv
<1>2. ASSUME NEW f \in Files \ Unreadable
      PROVE  /\ IsFiniteSet(Reached(f)')
             /\ searched'[f] + (IF Searching(f)' THEN 1 ELSE 0) = Cardinality(Reached(f)')
  BY <1>2 DEF SequentialInv
<1> QED
  BY <1>1, <1>2

\* A set with one more member.
LEMMA OneMoreMember ==
  ASSUME NEW S, NEW T, NEW x, IsFiniteSet(S), x \notin S, T = S \cup {x}
  PROVE  IsFiniteSet(T) /\ Cardinality(T) = Cardinality(S) + 1
<1>1. IsFiniteSet(S \cup {x}) /\ Cardinality(S \cup {x}) = Cardinality(S) + 1
  BY FS_AddElement
<1> QED
  BY <1>1

\* main goes on to the next file.
LEMMA SequentialNext ==
  ASSUME AllInv, SequentialInv, args' = args, SearchFile
  PROVE  SequentialInv'
<1> SUFFICES ASSUME args # <<>> PROVE SequentialInv'
  BY DEF SequentialInv
<1> DEFINE here == <<arg, cursor>>
<1>1. /\ ~pooled /\ mpc = "iterate" /\ spc[Main] = "none"
      /\ current' = here /\ cursor' = cursor + 1 /\ spc' = [spc EXCEPT ![Main] = "open"]
      /\ UNCHANGED <<pooled, mpc, arg, refused, searched, reading>>
  BY DEF SearchFile, Iterating
<1>2. /\ here \in Placed /\ arg \notin refused /\ arg \in Nat /\ cursor \in Nat
  <2>1. arg \in DOMAIN args /\ cursor \in DOMAIN args[arg]
    BY ArgsTypes DEF AllInv, ExitInv, PathInv, RunInv, RunTypes, SearchFile, Iterating, AtEnd
  <2>2. arg \notin refused
    BY DEF AllInv, WalkInv
  <2> QED
    BY <1>1, <2>1, <2>2, AloneFacts DEF Placed
<1>3. spc'[Main] = "open" /\ current'[1] = arg'
  BY <1>1, AloneFacts
<1>4. ASSUME NEW f \in Files \ Unreadable
      PROVE  /\ IsFiniteSet(Reached(f)')
             /\ searched'[f] + (IF Searching(f)' THEN 1 ELSE 0) = Cardinality(Reached(f)')
  <2>1. /\ IsFiniteSet(Reached(f)) /\ searched[f] = Cardinality(Reached(f))
        /\ searched[f] \in Nat
    <3>1. ~Searching(f)
      BY <1>1 DEF Searching
    <3>2. searched[f] \in Nat
      BY <1>1, AloneFacts DEF Sources
    <3>3. /\ IsFiniteSet(Reached(f))
          /\ searched[f] + (IF Searching(f) THEN 1 ELSE 0) = Cardinality(Reached(f))
      BY <1>1, <1>4 DEF SequentialInv
    <3> QED
      BY <3>1, <3>2, <3>3
  <2>2. here \notin Reached(f)
    BY <1>2 DEF Reached
  <2>3. Searching(f)' <=> args[arg][cursor] = f
    BY <1>1, <1>3 DEF Searching
  <2>4. Placed' = Placed
    BY DEF Placed
  <2>5. \A p \in Placed : p \in Nat \X Nat
    BY DEF Placed
  <2>6. CASE args[arg][cursor] = f
    <3>1. Reached(f)' = Reached(f) \cup {here}
      BY <1>1, <1>2, <2>4, <2>5, <2>6 DEF Reached
    <3>2. IsFiniteSet(Reached(f)') /\ Cardinality(Reached(f)') = Cardinality(Reached(f)) + 1
      <4>1. IsFiniteSet(Reached(f)) /\ here \notin Reached(f)
        BY <2>1, <2>2
      <4> HIDE DEF here
      <4> QED
        BY <4>1, <3>1, OneMoreMember
    <3>3. Searching(f)' /\ searched'[f] = searched[f]
      BY <1>1, <2>3, <2>6
    <3>4. searched'[f] + 1 = Cardinality(Reached(f)')
      BY <2>1, <3>2, <3>3
    <3> HIDE DEF Searching
    <3> QED
      BY <3>2, <3>3, <3>4, Zenon
  <2>7. CASE args[arg][cursor] # f
    <3>1. Reached(f)' = Reached(f)
      BY <1>1, <1>2, <2>4, <2>5, <2>7 DEF Reached
    <3> QED
      BY <1>1, <2>1, <2>3, <2>7, <3>1
  <2> QED
    BY <2>6, <2>7
<1> QED
  BY <1>3, <1>4 DEF SequentialInv

\* main searches the file it is at.
LEMMA SequentialSearch ==
  ASSUME AllInv, SequentialInv, args' = args, NEW s \in Searcher, Search(s)
  PROVE  SequentialInv'
<1>1. UNCHANGED <<poolVars, mainVars>>
  BY DEF Search, OpenFile, SearchData, AddMatches, AddFiles, AddMatched, Release
<1>2. \A f : Reached(f)' = Reached(f)
  BY <1>1 DEF Reached, Placed, mainVars
<1> SUFFICES ASSUME ~pooled, args # <<>> PROVE SequentialInv'
  BY <1>1 DEF SequentialInv, mainVars
<1>3. s = Main
  <2>1. spc[s] # "none"
    BY DEF Search, OpenFile, SearchData, AddMatches, AddFiles, AddMatched, Release, Move
  <2> QED
    BY <2>1, AloneFacts DEF Searcher
<1>4. CASE OpenFile(s)
  <2> DEFINE f0 == args[current[1]][current[2]]
  <2>1. spc[Main] = "open" /\ searched' = searched
    BY <1>3, <1>4 DEF OpenFile
  <2>2. current[1] = arg /\ arg \notin freed /\ PathOf(s) = current
    BY <1>3, <2>1 DEF SequentialInv, AllInv, RunInv, RunTypes, QueueInv, PathOf
  <2>3. Names(PathOf(s)) = {f0}
    BY <2>2 DEF Names
  <2>4. f0 \in Files
    <3>1. current \in Placed
      BY <2>1 DEF AllInv, ExitInv, PathInv
    <3> QED
      BY <3>1, ArgsTypes DEF AllInv, ExitInv, Placed
  <2>5. \/ f0 \in Unreadable /\ spc' = [spc EXCEPT ![Main] = "release"]
        \/ /\ f0 \notin Unreadable
           /\ spc' = [spc EXCEPT ![Main] = "search"]
           /\ reading' = [reading EXCEPT ![Main] = f0]
    <3>1. f0 # NoFile
      BY <2>4, RunAssumption DEF RunAssumption
    <3> HIDE DEF f0
    <3> QED
      BY <1>3, <1>4, <2>3, <3>1 DEF OpenFile
  <2>6. ASSUME NEW f \in Files \ Unreadable PROVE Searching(f)' <=> Searching(f)
    <3>1. Searching(f) <=> f = f0
      BY <2>1 DEF Searching
    <3>2. CASE f0 \in Unreadable /\ spc' = [spc EXCEPT ![Main] = "release"]
      <4>1. spc'[Main] = "release"
        BY <3>2, AloneFacts
      <4> QED
        BY <2>6, <3>1, <3>2, <4>1 DEF Searching
    <3>3. CASE /\ spc' = [spc EXCEPT ![Main] = "search"]
               /\ reading' = [reading EXCEPT ![Main] = f0]
      <4>1. spc'[Main] = "search" /\ reading'[Main] = f0
        BY <3>3, AloneFacts
      <4> QED
        BY <3>1, <4>1 DEF Searching
    <3> QED
      BY <2>5, <3>2, <3>3
  <2>7. spc'[Main] # "open"
    BY <2>5, AloneFacts
  <2> QED
    BY <1>1, <1>2, <2>1, <2>6, <2>7, SequentialSame DEF mainVars
<1>5. CASE SearchData(s)
  <2>1. /\ spc[Main] = "search" /\ reading[Main] \in Sources
        /\ spc' = [spc EXCEPT ![Main] = spc'[Main]] /\ spc'[Main] \in {"release", "add_matches"}
        /\ searched' = [searched EXCEPT ![reading[Main]] = @ + 1]
    <3>1. spc[Main] = "search" /\ searched' = [searched EXCEPT ![reading[Main]] = @ + 1]
      BY <1>3, <1>5 DEF SearchData, Move
    <3>2. /\ spc' = [spc EXCEPT ![Main] = spc'[Main]]
          /\ spc'[Main] \in {"release", "add_matches"}
      BY <1>3, <1>5, AloneFacts DEF SearchData, Move
    <3>3. reading[Main] \in Sources
      BY <3>1, AloneFacts DEF AllInv, ExitInv, FileInv, Reading
    <3> QED
      BY <3>1, <3>2, <3>3
  <2>2. ASSUME NEW f \in Files \ Unreadable
        PROVE  /\ IsFiniteSet(Reached(f)')
               /\ searched'[f] + (IF Searching(f)' THEN 1 ELSE 0) = Cardinality(Reached(f)')
    <3>1. /\ IsFiniteSet(Reached(f)) /\ searched[f] \in Nat
          /\ searched[f] + (IF Searching(f) THEN 1 ELSE 0) = Cardinality(Reached(f))
      BY <2>2, AloneFacts DEF SequentialInv, Sources
    <3>2. ~Searching(f)' /\ (Searching(f) <=> f = reading[Main])
      BY <2>1 DEF Searching
    <3>3. searched'[f] = IF f = reading[Main] THEN searched[f] + 1 ELSE searched[f]
      BY <2>1, AloneFacts DEF Sources
    <3> QED
      BY <1>2, <3>1, <3>2, <3>3
  <2> QED
    BY <2>1, <2>2 DEF SequentialInv
<1>6. CASE AddMatches(s) \/ AddFiles(s) \/ AddMatched(s) \/ Release(s)
  <2>1. /\ searched' = searched
        /\ spc[Main] \notin {"open", "search"} /\ spc'[Main] \notin {"open", "search"}
    BY <1>3, <1>6, AloneFacts DEF AddMatches, AddFiles, AddMatched, Release, Move
  <2>2. \A f : ~Searching(f) /\ ~Searching(f)'
    BY <2>1 DEF Searching
  <2> QED
    BY <1>1, <1>2, <2>1, <2>2, SequentialSame DEF mainVars
<1> QED
  BY <1>4, <1>5, <1>6 DEF Search

\* What else main and the workers do.
LEMMA SequentialElse ==
  ASSUME AllInv, SequentialInv, args' = args, ~pooled', args # <<>>,
         (MainStep /\ ~SearchFile) \/ (\E w \in Worker : WorkerStep(w)) \/ UNCHANGED vars
  PROVE  SequentialInv'
<1> USE DEF Step
<1>1. pooled' = pooled /\ searched' = searched /\ current' = current
  <2>1. pooled' = pooled \/ Start
    BY DEF MainStep, WorkerStep, CreatePool, PoolCreated, ReadStdin, ReadStdinFails,
       StdinSearched, ListFiles, CannotAccess, SubmitFile, SkipFile, SearchFile, LastFile,
       TakeLock, InsidePool, FreeList, ArgsDone, Teardown, Exit, Begin, End, Lock, Unlock,
       Wakeup, mainVars, vars
  <2>2. Start => ~pooled
    BY DEF Start, AllInv, RunInv, CallInv
  <2>3. searched' = searched /\ current' = current
    BY DEF MainStep, WorkerStep, Start, CreatePool, PoolCreated, ReadStdin, ReadStdinFails,
       StdinSearched, ListFiles, CannotAccess, SubmitFile, SkipFile, LastFile,
       TakeLock, InsidePool, FreeList, ArgsDone, Teardown, Exit, Begin, End, Lock, Unlock,
       Wakeup, mainVars, searchVars, vars
  <2>4. pooled \in BOOLEAN /\ pooled' = FALSE
    <3>1. pooled' \in BOOLEAN
      BY <2>1 DEF AllInv, WalkTypes, Start
    <3> QED
      BY <3>1 DEF AllInv, WalkTypes
  <2> QED
    BY <2>1, <2>2, <2>3, <2>4
<1>2. \A w \in Worker : ~WorkerStep(w)
  BY <1>1, AloneFacts DEF WorkerStep, Begin, End, Lock, Unlock, Wakeup, Pool!WorkerTake,
     Pool!WorkerRan, Pool!WorkerLock, Pool!WorkerPark, Pool!WorkerExit, Pool!WorkerFree,
     Pool!SpuriousWakeup, Pool!Goto
<1>3. spc' = spc /\ reading' = reading
  BY <1>1, <1>2 DEF MainStep, Start, CreatePool, PoolCreated, ReadStdin, ReadStdinFails,
     StdinSearched, ListFiles, CannotAccess, SubmitFile, SkipFile, LastFile,
     TakeLock, InsidePool, FreeList, ArgsDone, Teardown, Exit, searchVars, vars
<1>4. \A f : Searching(f)' <=> Searching(f)
  BY <1>1, <1>3 DEF Searching
<1>5. Placed' = Placed /\ \A p \in Placed : p[1] \in DOMAIN args /\ p[2] \in DOMAIN args[p[1]]
  BY DEF Placed
<1>6. /\ arg \in Nat /\ cursor \in Nat /\ refused \subseteq 1..arg - 1
      /\ DOMAIN args = 1..Len(args) /\ Len(args) \in Nat
      /\ \A a \in DOMAIN args : DOMAIN args[a] = 1..Len(args[a]) /\ Len(args[a]) \in Nat
  BY <1>1, AloneFacts, ArgsTypes DEF AllInv, WalkInv, ExitInv
<1>7. CASE ListFiles
  <2>1. spc[Main] = "none"
    BY <1>7 DEF ListFiles, AllInv, RunInv, SearchInv
  <2>2. \A f : Reached(f)' = Reached(f)
    <3>1. /\ mpc = "args" /\ mpc' = "iterate" /\ cursor' = 1 /\ UNCHANGED <<arg, refused>>
      BY <1>7 DEF ListFiles
    <3> QED
      BY <1>5, <1>6, <3>1 DEF Reached
  <2> QED
    BY <1>1, <1>3, <1>4, <2>1, <2>2, SequentialSame
<1>8. CASE CannotAccess
  <2>1. spc[Main] = "none"
    BY <1>8 DEF CannotAccess, AllInv, RunInv, SearchInv
  <2>2. \A f : Reached(f)' = Reached(f)
    <3>1. /\ mpc = "args" /\ mpc' = mpc /\ arg' = arg + 1 /\ refused' = refused \cup {arg}
      BY <1>8 DEF CannotAccess
    <3> QED
      BY <1>5, <1>6, <3>1 DEF Reached
  <2> QED
    BY <1>1, <1>3, <1>4, <2>1, <2>2, SequentialSame
<1>9. CASE FreeList
  <2>1. spc[Main] = "none"
    BY <1>9 DEF FreeList, AllInv, RunInv, SearchInv
  <2>2. \A f : Reached(f)' = Reached(f)
    <3>1. /\ mpc = "drain" /\ mpc' = "args" /\ arg' = arg + 1 /\ UNCHANGED <<cursor, refused>>
      BY <1>9 DEF FreeList
    <3>2. cursor = Len(args[arg]) + 1 /\ arg \in DOMAIN args
      BY <1>6, <3>1 DEF AllInv, WalkInv
    <3>3. \A p \in Placed : p[1] < arg + 1 <=> p[1] < arg \/ (p[1] = arg /\ p[2] < cursor)
      BY <1>5, <1>6, <3>2
    <3> QED
      BY <1>5, <3>1, <3>3 DEF Reached
  <2> QED
    BY <1>1, <1>3, <1>4, <2>1, <2>2, SequentialSame
<1>10. CASE ~ListFiles /\ ~CannotAccess /\ ~FreeList
  <2>1. /\ UNCHANGED <<arg, cursor, refused>>
        /\ mpc' \in {"iterate", "drain"} <=> mpc \in {"iterate", "drain"}
    BY <1>1, <1>2, <1>10 DEF MainStep, Start, CreatePool, PoolCreated, ReadStdin,
       ReadStdinFails, StdinSearched, SubmitFile, SkipFile, LastFile, TakeLock, InsidePool,
       ArgsDone, Teardown, Exit, mainVars, vars
  <2>2. \A f : Reached(f)' = Reached(f)
    BY <1>5, <2>1 DEF Reached
  <2> QED
    BY <1>1, <1>3, <1>4, <2>1, <2>2, SequentialSame
<1> QED
  BY <1>7, <1>8, <1>9, <1>10

LEMMA InitSequential == Init /\ AllInv => SequentialInv
<1> SUFFICES ASSUME Init, AllInv, NEW f \in Files \ Unreadable
             PROVE  /\ spc[Main] # "open"
                    /\ IsFiniteSet(Reached(f))
                    /\ searched[f] + (IF Searching(f) THEN 1 ELSE 0) = Cardinality(Reached(f))
  BY DEF SequentialInv, Init, Searcher
<1>1. spc[Main] = "none" /\ searched[f] = 0
  BY DEF Init, Searcher
<1>2. Reached(f) = {}
  BY ArgsTypes DEF AllInv, ExitInv, Init, Reached, Placed
<1> QED
  BY <1>1, <1>2, FS_EmptySet DEF Searching

LEMMA StepSequential ==
  AllInv /\ AllInv' /\ SequentialInv /\ [Next]_vars => SequentialInv'
<1> SUFFICES ASSUME AllInv, SequentialInv, [Next]_vars PROVE SequentialInv'
  OBVIOUS
<1>1. args' = args
  BY ArgsKept
<1>2. CASE pooled' \/ args = <<>>
  BY <1>1, <1>2 DEF SequentialInv
<1>3. CASE ~pooled' /\ args # <<>>
  BY <1>1, <1>3, SequentialNext, SequentialSearch, SequentialElse DEF Next, Stopped
<1> QED
  BY <1>2, <1>3

\* Attempts to open a path and files skipped for want of memory add up to the
\* files listed, whatever the number of threads and the order they work in; and
\* without a pool every file is searched as often as it is listed
\* (src/main.c:165-189).  With a pool the path a thread opens may no longer name
\* the file that was listed, see ListedFilesAreSearched.
THEOREM FilesAreTried == Spec => []EveryFileIsTried
<1>1. AllInv /\ TriedInv /\ SequentialInv => EveryFileIsTried
  <2> SUFFICES ASSUME AllInv, TriedInv, SequentialInv, Finished PROVE EveryFileIsTried
    BY DEF EveryFileIsTried
  <2>1. \A s \in Searcher : spc[s] = "none"
    <3>1. \A w \in Worker : wpc[w] \in {"none", "exited"}
      BY PoolFacts DEF AllInv, RunInv, CallInv, Finished
    <3> QED
      BY <3>1 DEF AllInv, RunInv, SearchInv, Searcher, Main, Finished
  <2>2. /\ mpc = "exited" /\ arg = Len(args) + 1 /\ refused \subseteq 1..Len(args)
        /\ DOMAIN args = 1..Len(args) /\ Len(args) \in Nat
    BY TriedTypes DEF AllInv, WalkInv, Finished
  <2>3. opens + skipped
          = SumOf([a \in DOMAIN args |-> IF a \in refused THEN 0 ELSE Len(args[a])])
    <3>1. Queued = 0 /\ Submitting = 0
      BY <2>2 DEF Queued, Submitting, AllInv, RunInv, QueueInv, CallInv
    <3>2. SumOf(Opening) = 0
      <4>1. Opening \in [Searcher -> Nat] /\ IsFiniteSet(Searcher)
        BY TriedTypes, Weights
      <4>2. \A s \in Searcher : Opening[s] = 0
        BY <2>1 DEF Opening
      <4> QED
        BY <4>1, <4>2, SumOfNothing
    <3>3. Passed = [a \in DOMAIN args |-> IF a \in refused THEN 0 ELSE Len(args[a])]
      BY <2>2 DEF Passed
    <3>4. opens \in Nat /\ skipped \in Nat
      BY TriedTypes
    <3> QED
      BY <3>1, <3>2, <3>3, <3>4 DEF TriedInv
  <2>4. ASSUME ~pooled, args # <<>>, NEW f \in Files \ Unreadable
        PROVE  searched[f] = Cardinality({p \in Paths \ {NoPath} :
                               p[1] \notin refused /\ args[p[1]][p[2]] = f})
    <3>1. ~Searching(f)
      BY <2>1, AloneFacts, <2>4 DEF Searching
    <3>2. searched[f] \in Nat
      BY <2>4, AloneFacts DEF Sources
    <3>3. searched[f] = Cardinality(Reached(f))
      BY <2>4, <3>1, <3>2 DEF SequentialInv
    <3>4. \A p : p \in Paths \ {NoPath} <=> p \in Placed
      <4>1. \A a \in DOMAIN args : a \in Nat \ {0} /\ DOMAIN args[a] \subseteq Nat
        BY <2>2, ArgsTypes DEF AllInv, ExitInv
      <4> QED
        BY <4>1 DEF Paths, Placed, NoPath
    <3>5. \A p \in Placed : p[1] < arg
      BY <2>2 DEF Placed
    <3>6. Reached(f) = {p \in Paths \ {NoPath} : p[1] \notin refused /\ args[p[1]][p[2]] = f}
      BY <3>4, <3>5 DEF Reached
    <3> QED
      BY <3>3, <3>6
  <2> QED
    BY <2>3, <2>4 DEF EveryFileIsTried
<1> QED
  BY <1>1, InitTried, StepTried, InitSequential, StepSequential, AllInvariant, PTL DEF Spec

------------------------------------------------------------------------------
(* The program implements SearchRun *)

\* Before main has begun, and without file arguments, there is no work item and
\* nothing has been searched; with them nobody searches standard input; and only
\* main's way out knows of a pool that could not be created.
EarlyInv ==
  /\ mpc \in {"start", "create"} \/ args = <<>> => allocated = 0
  /\ mpc \in {"start", "create"} \/ (mpc = "args" /\ args = <<>>) =>
       \A f \in Sources : searched[f] = 0
  /\ args # <<>> =>
       /\ searched[Stdin] = 0
       /\ \A s \in Searcher : spc[s] = "search" => reading[s] # Stdin
  /\ created # "FGREP_OK" =>
       \/ mpc = "exited"
       \/ mpc = "create" /\ cpc \in {"destroy_lock", "destroy", "join", "gone", "crashed"}

\* Without a work item nobody but main searches, and main does not before it has
\* begun.
LEMMA NobodySearches ==
  ASSUME AllInv, allocated = 0, mpc \in {"start", "create", "args"}
  PROVE  \A s \in Searcher : spc[s] = "none"
<1>1. \A w \in Worker : spc[w] = "none"
  BY HeldIsAllocated DEF AllInv
<1>2. spc[Main] = "none"
  BY DEF AllInv, RunInv, SearchInv
<1> QED
  BY <1>1, <1>2 DEF Searcher

LEMMA InitEarly == Init => EarlyInv
BY DEF Init, EarlyInv, Pool!Init, Searcher, Sources

\* Items are made only for the files of an argument.
LEMMA ItemsKept ==
  ASSUME AllInv, EarlyInv, args' = args, [Next]_vars,
         mpc' \in {"start", "create"} \/ args = <<>>
  PROVE  allocated' = 0
<1>1. CASE SubmitFile
  <2>1. mpc' = "iterate" /\ arg \in DOMAIN args
    BY <1>1 DEF SubmitFile, Iterating, AllInv, ExitInv, PathInv
  <2>2. args # <<>>
    BY <2>1
  <2> QED
    BY <2>1, <2>2
<1>2. CASE ~SubmitFile
  <2>1. mpc' \in {"start", "create"} => mpc \in {"start", "create"}
    BY DEF Step, Next, MainStep, WorkerStep, Start, CreatePool, PoolCreated, ReadStdin,
       ReadStdinFails, StdinSearched, ListFiles, CannotAccess, SubmitFile, SkipFile,
       SearchFile, LastFile, TakeLock, InsidePool, FreeList, ArgsDone, Teardown, Exit,
       Begin, End, Lock, Unlock, Wakeup, Search, OpenFile, SearchData, AddMatches,
       AddFiles, AddMatched, Release, Stopped, mainVars, vars
  <2>2. allocated' = allocated
    <3>1. CASE \E s \in Searcher : Search(s)
      BY <3>1 DEF Search, OpenFile, SearchData, AddMatches, AddFiles, AddMatched, Release,
         poolVars
    <3>2. CASE \E w \in Worker : WorkerStep(w)
      BY <3>2 DEF WorkerStep, Begin, End, Lock, Unlock, Wakeup, Pool!WorkerTake,
         Pool!WorkerRan, Pool!WorkerLock, Pool!WorkerPark, Pool!WorkerExit,
         Pool!WorkerFree, Pool!SpuriousWakeup, Pool!queueVars
    <3>3. CASE UNCHANGED vars
      BY <3>3 DEF vars, poolVars
    <3>4. CASE CreatePool \/ TakeLock \/ InsidePool
      BY <3>4 DEF CreatePool, TakeLock, InsidePool, Pool!Create, Pool!CreateAlloc,
         Pool!CreateNoMemory, Pool!CreateThread, Pool!CreateFails, Pool!CreateReturn,
         Pool!SubmitLock, Pool!WaitLock, Pool!DestroyLock, Pool!ClientLock,
         Pool!SubmitLink, Pool!WaitPoll, Pool!DestroyShutdown, Pool!DestroyJoin,
         Pool!DestroyJoinMissing, Pool!DestroyReturn, Pool!queueVars
    <3>5. CASE MainStep /\ ~(CreatePool \/ TakeLock \/ InsidePool)
      BY <1>2, <3>5 DEF MainStep, Start, PoolCreated, ReadStdin, ReadStdinFails,
         StdinSearched, ListFiles, CannotAccess, SkipFile, SearchFile, LastFile,
         FreeList, ArgsDone, Teardown, Exit, Pool!WaitCall, Pool!DestroyCall,
         Pool!queueVars, poolVars
    <3> QED
      BY <3>1, <3>2, <3>3, <3>4, <3>5 DEF Next, Stopped
  <2> QED
    BY <2>1, <2>2 DEF EarlyInv
<1> QED
  BY <1>1, <1>2

\* Nothing is searched before main has begun.
LEMMA UnsearchedKept ==
  ASSUME AllInv, EarlyInv, args' = args, [Next]_vars,
         mpc' \in {"start", "create"} \/ (mpc' = "args" /\ args = <<>>)
  PROVE  \A f \in Sources : searched'[f] = 0
<1>1. mpc \in {"start", "create"} \/ (mpc = "args" /\ args = <<>>)
  <2>1. CASE FreeList
    <3>1. mpc' = "args" /\ arg <= Len(args) /\ arg \in Nat \ {0}
      BY <2>1 DEF FreeList, Step, AllInv, WalkInv, RunInv, RunTypes
    <3>2. args # <<>>
      BY <3>1
    <3> QED
      BY <3>1, <3>2
  <2>2. CASE ~FreeList
    BY <2>2 DEF Step, Next, MainStep, WorkerStep, Start, CreatePool, PoolCreated, ReadStdin,
       ReadStdinFails, StdinSearched, ListFiles, CannotAccess, SubmitFile, SkipFile,
       SearchFile, LastFile, TakeLock, InsidePool, FreeList, ArgsDone, Teardown, Exit,
       Begin, End, Lock, Unlock, Wakeup, Search, OpenFile, SearchData, AddMatches,
       AddFiles, AddMatched, Release, Stopped, mainVars, vars, Iterating
  <2> QED
    BY <2>1, <2>2
<1>2. \A s \in Searcher : spc[s] = "none"
  BY <1>1, NobodySearches DEF EarlyInv
<1>3. searched' = searched
  <2>1. CASE \E s \in Searcher : Search(s)
    BY <1>2, <2>1 DEF Search, OpenFile, SearchData, AddMatches, AddFiles, AddMatched,
       Release, Move
  <2>2. CASE ~\E s \in Searcher : Search(s)
    BY <2>2, SearchersMove DEF Next, Stopped, ReadStdin, SearchFile, Begin, End
  <2> QED
    BY <2>1, <2>2
<1> QED
  BY <1>1, <1>3 DEF EarlyInv

\* With file arguments nobody searches standard input.
LEMMA StdinKept ==
  ASSUME AllInv, EarlyInv, args # <<>>, [Next]_vars
  PROVE  /\ searched'[Stdin] = 0
         /\ \A t \in Searcher : spc'[t] = "search" => reading'[t] # Stdin
<1>1. /\ spc \in [Searcher -> SearchPlaces]
      /\ reading \in [Searcher -> Sources \cup {NoFile}]
      /\ searched \in [Sources -> Nat]
      /\ Stdin \in Sources /\ Main \in Searcher
  BY DEF AllInv, RunInv, RunTypes, ExitInv, StatsTypes, Sources, Searcher
<1>2. /\ searched[Stdin] = 0
      /\ \A t \in Searcher : spc[t] = "search" => reading[t] # Stdin
  BY DEF EarlyInv
<1>3. ASSUME NEW s \in Searcher, Search(s)
      PROVE  /\ searched'[Stdin] = 0
             /\ \A t \in Searcher : spc'[t] = "search" => reading'[t] # Stdin
  <2>1. CASE OpenFile(s)
    <3>1. PICK f \in Names(PathOf(s)) :
            IF f \in Unreadable \cup {NoFile}
              THEN spc' = [spc EXCEPT ![s] = "release"] /\ reading' = reading
              ELSE spc' = [spc EXCEPT ![s] = "search"] /\ reading' = [reading EXCEPT ![s] = f]
      BY <2>1 DEF OpenFile
    <3>2. f \in Files \cup {NoFile}
      BY <2>1, NamedFiles DEF OpenFile, AllInv, ExitInv
    <3>3. f # NoFile => f # Stdin
      BY <3>2, RunAssumption DEF RunAssumption
    <3>4. searched' = searched
      BY <2>1 DEF OpenFile
    <3>5. ASSUME NEW t \in Searcher, spc'[t] = "search" PROVE reading'[t] # Stdin
      <4>1. CASE t = s
        BY <1>1, <3>1, <3>3, <3>5, <4>1
      <4>2. CASE t # s
        BY <1>1, <1>2, <3>1, <3>5, <4>2
      <4> QED
        BY <4>1, <4>2
    <3> QED
      BY <1>2, <3>4, <3>5
  <2>2. CASE SearchData(s)
    <3>1. /\ spc[s] = "search" /\ reading' = reading
          /\ searched' = [searched EXCEPT ![reading[s]] = @ + 1]
          /\ \E to \in {"release", "add_matches"} : spc' = [spc EXCEPT ![s] = to]
      BY <2>2 DEF SearchData, Move
    <3>2. reading[s] # Stdin
      BY <1>2, <3>1
    <3>3. searched'[Stdin] = 0
      BY <1>1, <1>2, <3>1, <3>2
    <3>4. \A t \in Searcher : spc'[t] = "search" => spc[t] = "search"
      BY <1>1, <3>1
    <3> QED
      BY <1>2, <3>1, <3>3, <3>4
  <2>3. CASE ~OpenFile(s) /\ ~SearchData(s)
    <3>1. /\ searched' = searched
          /\ \E to \in {"add_files", "add_matched", "release", "none", "done"} :
               spc' = [spc EXCEPT ![s] = to]
          /\ reading' = reading \/ reading' = [reading EXCEPT ![s] = NoFile]
      BY <1>3, <2>3 DEF Search, AddMatches, AddFiles, AddMatched, Release, Move
    <3>2. \A t \in Searcher : spc'[t] = "search" => t # s /\ spc[t] = "search"
      BY <1>1, <3>1
    <3> QED
      BY <1>1, <1>2, <3>1, <3>2
  <2> QED
    BY <2>1, <2>2, <2>3
<1>4. CASE ~\E s \in Searcher : Search(s)
  <2>1. searched' = searched /\ reading' = reading
    BY <1>4, SearchersMove DEF Next, Stopped, ReadStdin, SearchFile, Begin, End
  <2>2. \/ spc' = spc
        \/ \E s \in Searcher, to \in {"open", "none"} : spc' = [spc EXCEPT ![s] = to]
    BY <1>1, <1>4, SearchersMove DEF Next, Stopped, ReadStdin, SearchFile, Begin, End, Move,
       Searcher
  <2>3. \A t \in Searcher : spc'[t] = "search" => spc[t] = "search"
    BY <1>1, <2>2
  <2> QED
    BY <1>2, <2>1, <2>3
<1> QED
  BY <1>3, <1>4

\* A pool that could not be created is on its way out.
LEMMA FailureKept ==
  ASSUME AllInv, EarlyInv, [Next]_vars, created' # "FGREP_OK"
  PROVE  \/ mpc' = "exited"
         \/ /\ mpc' = "create"
            /\ cpc' \in {"destroy_lock", "destroy", "join", "gone", "crashed"}
<1> USE DEF EarlyInv, AllInv, RunInv, CallInv, Step
<1>1. CASE UNCHANGED <<mpc, cpc, created>>
  BY <1>1
<1>2. CASE CreatePool
  BY <1>2 DEF CreatePool, mainVars, Pool!Create, Pool!CreateAlloc, Pool!CreateNoMemory,
     Pool!CreateThread, Pool!CreateFails, Pool!CreateReturn, Pool!Call
<1>3. CASE TakeLock
  BY <1>3 DEF TakeLock, mainVars, Pool!SubmitLock, Pool!WaitLock, Pool!DestroyLock,
     Pool!ClientLock, Pool!Call
<1>4. CASE InsidePool
  BY <1>4 DEF InsidePool, mainVars, Pool!SubmitLink, Pool!WaitPoll,
     Pool!DestroyShutdown, Pool!DestroyJoin, Pool!DestroyJoinMissing,
     Pool!DestroyReturn, Pool!Call
<1>5. CASE MainStep /\ ~(CreatePool \/ TakeLock \/ InsidePool)
  BY <1>5 DEF MainStep, Start, PoolCreated, ReadStdin, ReadStdinFails, StdinSearched,
     ListFiles, CannotAccess, SubmitFile, SkipFile, SearchFile, LastFile, FreeList,
     ArgsDone, Teardown, Exit, Iterating, Pool!SubmitAlloc, Pool!WaitCall,
     Pool!DestroyCall, Pool!Call, poolVars
<1>6. ASSUME NEW w \in Worker, WorkerStep(w) PROVE UNCHANGED <<mpc, cpc, created>>
  BY <1>6 DEF WorkerStep, Begin, End, Lock, Unlock, Wakeup, mainVars, Pool!WorkerTake,
     Pool!WorkerRan, Pool!WorkerLock, Pool!WorkerPark, Pool!WorkerExit, Pool!WorkerFree,
     Pool!SpuriousWakeup, Pool!clientVars
<1>7. ASSUME NEW s \in Searcher, Search(s) PROVE UNCHANGED <<mpc, cpc, created>>
  BY <1>7 DEF Search, OpenFile, SearchData, AddMatches, AddFiles, AddMatched, Release,
     mainVars, poolVars
<1>8. CASE UNCHANGED vars
  BY <1>1, <1>8 DEF vars, poolVars, mainVars
<1> QED
  BY <1>1, <1>2, <1>3, <1>4, <1>5, <1>6, <1>7, <1>8 DEF Next, Stopped

LEMMA StepEarly == AllInv /\ EarlyInv /\ [Next]_vars => EarlyInv'
<1> SUFFICES ASSUME AllInv, EarlyInv, [Next]_vars PROVE EarlyInv'
  OBVIOUS
<1>1. args' = args
  BY ArgsKept
<1>2. mpc' \in {"start", "create"} \/ args' = <<>> => allocated' = 0
  BY <1>1, ItemsKept
<1>3. mpc' \in {"start", "create"} \/ (mpc' = "args" /\ args' = <<>>) =>
        \A f \in Sources : searched'[f] = 0
  BY <1>1, UnsearchedKept
<1>4. args' # <<>> =>
        /\ searched'[Stdin] = 0
        /\ \A s \in Searcher : spc'[s] = "search" => reading'[s] # Stdin
  BY <1>1, StdinKept
<1> QED
  BY <1>2, <1>3, <1>4, FailureKept DEF EarlyInv

\* What waits is what main has passed and nobody has tried to open.
LEMMA WaitingIs ==
  ASSUME AllInv, TriedInv
  PROVE  /\ Waiting \in Nat /\ opens \in Nat /\ skipped \in Nat /\ SumOf(Passed) \in Nat
         /\ opens + skipped + Waiting = SumOf(Passed)
<1>1. /\ opens \in Nat /\ skipped \in Nat /\ Queued \in Nat /\ Submitting \in Nat
      /\ SumOf(Opening) \in Nat /\ SumOf(Passed) \in Nat
  BY TriedTypes
<1>2. opens + skipped + Queued + Submitting + SumOf(Opening) = SumOf(Passed)
  BY DEF TriedInv
<1> HIDE DEF Queued, Submitting, Opening, Passed
<1> QED
  BY <1>1, <1>2 DEF Waiting

\* The same before and after a step.
WaitingFacts ==
  /\ Waiting \in Nat /\ opens \in Nat /\ skipped \in Nat /\ SumOf(Passed) \in Nat
  /\ opens + skipped + Waiting = SumOf(Passed)

LEMMA WaitingKept ==
  ASSUME WaitingFacts, WaitingFacts',
         opens' = opens, skipped' = skipped, Passed' = Passed
  PROVE  Waiting' = Waiting
<1>1. SumOf(Passed') = SumOf(Passed)
  OBVIOUS
<1>2. /\ Waiting \in Nat /\ Waiting' \in Nat /\ opens \in Nat /\ skipped \in Nat
      /\ opens + skipped + Waiting = SumOf(Passed)
      /\ opens + skipped + Waiting' = SumOf(Passed')
  BY DEF WaitingFacts
<1> HIDE DEF Waiting, Passed
<1> QED
  BY <1>1, <1>2

\* A step that changes none of what SearchRun speaks of.
Unseen ==
  /\ Waiting' = Waiting
  /\ spc' = spc \/ \E s \in Searcher :
                     /\ spc[s] # "search"
                     /\ \E to \in SearchPlaces \ {"search"} : spc' = [spc EXCEPT ![s] = to]
  /\ \A s \in Searcher : spc[s] = "search" => reading'[s] = reading[s]
  /\ searched' = searched
  /\ mpc # "exited" /\ mpc' # "exited"

LEMMA UnseenMaps ==
  ASSUME AllInv, Unseen
  PROVE  UNCHANGED Promise!vars
<1>1. spc \in [Searcher -> SearchPlaces]
  BY DEF AllInv, RunInv, RunTypes
<1>2. \A s \in Searcher : (spc'[s] = "search" <=> spc[s] = "search")
  BY <1>1 DEF Unseen
<1>3. Busy' = Busy
  BY <1>2 DEF Busy, Unseen
<1>4. Codes' = Codes
  BY DEF Codes, Unseen
<1> QED
  BY <1>3, <1>4 DEF Promise!vars, Unseen

LEMMA BusyTypes ==
  ASSUME AllInv
  PROVE  /\ spc \in [Searcher -> SearchPlaces]
         /\ reading \in [Searcher -> Sources \cup {NoFile}]
         /\ searched \in [Sources -> Nat]
         /\ Main \in Searcher /\ Promise!Sources = Sources
         /\ NoFile \notin Sources
         /\ \A s \in Searcher : spc[s] = "search" => reading[s] \in Sources
BY RunAssumption
   DEF RunAssumption, AllInv, RunInv, RunTypes, ExitInv, StatsTypes, FileInv, Reading,
     Sources, Searcher, Promise!Sources

\* Opening a path opens one of the files that wait.
LEMMA OpenMaps ==
  ASSUME AllInv, WaitingFacts, WaitingFacts', NEW s \in Searcher, OpenFile(s)
  PROVE  Promise!Open(s)
<1>1. PICK f \in Names(PathOf(s)) :
        IF f \in Unreadable \cup {NoFile}
          THEN spc' = [spc EXCEPT ![s] = "release"] /\ reading' = reading
          ELSE spc' = [spc EXCEPT ![s] = "search"] /\ reading' = [reading EXCEPT ![s] = f]
  BY DEF OpenFile
<1>2. /\ mpc # "exited" /\ spc[s] = "open" /\ opens' = opens + 1
      /\ UNCHANGED <<poolVars, mainVars, searched>>
  BY DEF OpenFile, Running
<1>3. f \in Files \cup {NoFile}
  BY <1>2, NamedFiles DEF AllInv, ExitInv
<1>4. Waiting' = Waiting - 1 /\ Waiting > 0
  <2>1. SumOf(Passed') = SumOf(Passed) /\ skipped' = skipped
    BY <1>2 DEF Passed, mainVars
  <2>2. /\ Waiting \in Nat /\ Waiting' \in Nat /\ opens \in Nat /\ skipped \in Nat
        /\ opens + skipped + Waiting = SumOf(Passed)
        /\ opens' + skipped' + Waiting' = SumOf(Passed')
    BY DEF WaitingFacts
  <2> HIDE DEF Waiting, Passed
  <2> QED
    BY <1>2, <2>1, <2>2
<1>5. Busy[s] = NoFile
  BY <1>2 DEF Busy
<1>6. \E g \in (Files \ Unreadable) \cup {NoFile} : Busy' = [Busy EXCEPT ![s] = g]
  <2>1. CASE f \in Unreadable \cup {NoFile}
    <3>1. Busy' = [Busy EXCEPT ![s] = NoFile]
      BY <1>1, <1>2, <2>1, BusyTypes DEF Busy
    <3> QED
      BY <3>1
  <2>2. CASE f \notin Unreadable \cup {NoFile}
    <3>1. spc' = [spc EXCEPT ![s] = "search"] /\ reading' = [reading EXCEPT ![s] = f]
      BY <1>1, <2>2
    <3>2. Busy' = [Busy EXCEPT ![s] = f]
      BY <3>1, BusyTypes DEF Busy
    <3> QED
      BY <1>3, <2>2, <3>2
  <2> QED
    BY <2>1, <2>2
<1>7. Codes = {} /\ Codes' = {}
  BY <1>2 DEF Codes, mainVars
<1> QED
  BY <1>2, <1>4, <1>5, <1>6, <1>7 DEF Promise!Open, Promise!Running

\* Going through the data examines the file.
LEMMA ExamineMaps ==
  ASSUME AllInv, WaitingFacts, WaitingFacts', NEW s \in Searcher, SearchData(s)
  PROVE  Promise!Examine(s)
<1>1. /\ mpc # "exited" /\ spc[s] = "search"
      /\ searched' = [searched EXCEPT ![reading[s]] = @ + 1]
      /\ \E to \in {"release", "add_matches"} : spc' = [spc EXCEPT ![s] = to]
      /\ UNCHANGED <<poolVars, mainVars, reading, opens>>
  BY DEF SearchData, Move, Running
<1>2. Busy[s] = reading[s] /\ Busy[s] # NoFile
  BY <1>1, BusyTypes DEF Busy
<1>3. Busy' = [Busy EXCEPT ![s] = NoFile]
  BY <1>1, BusyTypes DEF Busy
<1>4. Waiting' = Waiting
  BY <1>1, WaitingKept DEF mainVars, Passed
<1>5. Codes = {} /\ Codes' = {}
  BY <1>1 DEF Codes, mainVars
<1> QED
  BY <1>1, <1>2, <1>3, <1>4, <1>5 DEF Promise!Examine, Promise!Running

\* The rest of a search, and the worker around it, is not seen.
LEMMA SearchUnseen ==
  ASSUME AllInv, WaitingFacts, WaitingFacts', NEW s \in Searcher,
         AddMatches(s) \/ AddFiles(s) \/ AddMatched(s) \/ Release(s)
  PROVE  Unseen
<1>1. /\ mpc # "exited" /\ spc[s] # "search"
      /\ \E to \in SearchPlaces \ {"search"} : spc' = [spc EXCEPT ![s] = to]
      /\ UNCHANGED <<poolVars, mainVars, searched, opens>>
      /\ reading' = reading \/ reading' = [reading EXCEPT ![s] = NoFile]
  BY DEF AddMatches, AddFiles, AddMatched, Release, Move, Running, SearchPlaces
<1>2. Waiting' = Waiting
  BY <1>1, WaitingKept DEF mainVars, Passed
<1>3. \A t \in Searcher : spc[t] = "search" => reading'[t] = reading[t]
  BY <1>1, BusyTypes
<1> QED
  BY <1>1, <1>2, <1>3 DEF Unseen, mainVars

LEMMA WorkerUnseen ==
  ASSUME AllInv, WaitingFacts, WaitingFacts', NEW w \in Worker, WorkerStep(w)
  PROVE  Unseen
<1>1. /\ mpc # "exited" /\ UNCHANGED <<mainVars, reading, searched, opens>>
      /\ w \in Searcher
  BY DEF WorkerStep, Begin, End, Lock, Unlock, Wakeup, Move, Running, searchVars, Searcher
<1>2. Waiting' = Waiting
  BY <1>1, WaitingKept DEF mainVars, Passed
<1>3. CASE Begin(w)
  <2>1. wpc[w] = "test" /\ spc' = [spc EXCEPT ![w] = "open"]
    BY <1>3 DEF Begin, Pool!WorkerTake, Pool!Goto
  <2>2. spc[w] = "none"
    BY <2>1 DEF AllInv, RunInv, SearchInv
  <2> QED
    BY <1>1, <1>2, <2>1, <2>2 DEF Unseen, mainVars, SearchPlaces
<1>4. CASE End(w)
  <2>1. spc[w] = "done" /\ spc' = [spc EXCEPT ![w] = "none"]
    BY <1>4 DEF End, Move
  <2> QED
    BY <1>1, <1>2, <2>1 DEF Unseen, mainVars, SearchPlaces
<1>5. CASE Lock(w) \/ Unlock(w) \/ Wakeup(w)
  <2>1. spc' = spc
    BY <1>5 DEF Lock, Unlock, Wakeup, searchVars
  <2> QED
    BY <1>1, <1>2, <2>1 DEF Unseen, mainVars
<1> QED
  BY <1>3, <1>4, <1>5 DEF WorkerStep

\* main hands the next file on, or searches it: it is taken up.
LEMMA TakeUpMaps ==
  ASSUME AllInv, AllInv', EarlyInv, WaitingFacts, WaitingFacts', args' = args,
         SubmitFile \/ SearchFile
  PROVE  Promise!TakeUp
<1>1. /\ Iterating /\ UNCHANGED <<arg, mpc, refused, skipped, opens, searched, reading>>
      /\ cursor' = cursor + 1
      /\ spc' = spc \/ (spc[Main] = "none" /\ spc' = [spc EXCEPT ![Main] = "open"])
  BY DEF SubmitFile, SearchFile, searchVars, Iterating
<1>2. Waiting' = Waiting + 1
  <2>1. SumOf(Passed') = SumOf(Passed) + 1
    BY <1>1, OnePassed
  <2>2. /\ Waiting \in Nat /\ Waiting' \in Nat /\ opens \in Nat /\ skipped \in Nat
        /\ opens + skipped + Waiting = SumOf(Passed)
        /\ opens' + skipped' + Waiting' = SumOf(Passed')
        /\ opens' = opens /\ skipped' = skipped
    BY <1>1 DEF WaitingFacts
  <2> HIDE DEF Waiting, Passed
  <2> QED
    BY <2>1, <2>2
<1>3. args # <<>> /\ mpc = "iterate"
  <2>1. arg \in DOMAIN args /\ mpc = "iterate"
    BY <1>1 DEF Iterating, AllInv, ExitInv, PathInv
  <2> QED
    BY <2>1
<1>4. searched[Stdin] = 0 /\ \A s \in Searcher : Busy[s] # Stdin
  <2>1. Stdin # NoFile
    BY RunAssumption DEF RunAssumption
  <2> QED
    BY <1>3, <2>1 DEF EarlyInv, Busy
<1>5. Busy' = Busy
  BY <1>1, BusyTypes DEF Busy
<1>6. Codes = {} /\ Codes' = {}
  BY <1>1, <1>3 DEF Codes
<1> QED
  BY <1>1, <1>2, <1>4, <1>5, <1>6 DEF Promise!TakeUp, Promise!Running

\* Standard input is searched when nothing else was and nobody searches.
LEMMA StdinMaps ==
  ASSUME AllInv, EarlyInv, WaitingFacts, WaitingFacts', ReadStdin
  PROVE  Promise!OpenStdin(Main)
<1>1. /\ args = <<>> /\ mpc = "args" /\ mpc' = "stdin"
      /\ spc' = [spc EXCEPT ![Main] = "search"]
      /\ reading' = [reading EXCEPT ![Main] = Stdin]
      /\ UNCHANGED <<args, arg, cursor, refused, skipped, searched, opens>>
  BY DEF ReadStdin, Step
<1>2. \A s \in Searcher : spc[s] = "none"
  BY <1>1, NobodySearches DEF EarlyInv
<1>3. Passed' = Passed /\ \A a \in DOMAIN args : Passed[a] = 0
  BY <1>1 DEF Passed
<1>4. SumOf(Passed) = 0
  BY <1>3, TriedTypes, SumOfNothing
<1>5. Waiting = 0 /\ Waiting' = 0
  <2>1. Waiting' = Waiting
    BY <1>1, <1>3, WaitingKept
  <2>2. /\ Waiting \in Nat /\ opens \in Nat /\ skipped \in Nat
        /\ opens + skipped + Waiting = SumOf(Passed)
    BY DEF WaitingFacts
  <2> HIDE DEF Waiting, Passed
  <2> QED
    BY <1>4, <2>1, <2>2
<1>6. \A s \in Searcher : Busy[s] = NoFile
  BY <1>2 DEF Busy
<1>7. Busy' = [Busy EXCEPT ![Main] = Stdin]
  BY <1>1, BusyTypes DEF Busy
<1>8. \A f \in Sources : searched[f] = 0
  BY <1>1 DEF EarlyInv
<1>9. Codes = {} /\ Codes' = {}
  BY <1>1 DEF Codes
<1> QED
  BY <1>1, <1>5, <1>6, <1>7, <1>8, <1>9, BusyTypes
   DEF Promise!OpenStdin, Promise!Running, Promise!AllIdle

\* When there are no threads left, or never were, nothing waits.
LEMMA NothingWaits ==
  ASSUME AllInv, cpc \in {"calloc", "gone"}, mpc \in {"create", "cleanup"}
  PROVE  Waiting = 0 /\ \A s \in Searcher : spc[s] = "none"
<1>1. \A s \in Searcher : spc[s] = "none"
  <2>1. \A w \in Worker : wpc[w] \in {"none", "exited"}
    BY PoolFacts DEF AllInv
  <2> QED
    BY <2>1 DEF AllInv, RunInv, SearchInv, Searcher, Main
<1>2. Queued = 0 /\ Submitting = 0
  BY DEF Queued, Submitting, AllInv, RunInv, QueueInv
<1>3. SumOf(Opening) = 0
  <2>1. Opening \in [Searcher -> Nat] /\ IsFiniteSet(Searcher)
    BY TriedTypes, Weights
  <2>2. \A s \in Searcher : Opening[s] = 0
    BY <1>1 DEF Opening
  <2> QED
    BY <2>1, <2>2, SumOfNothing
<1> QED
  BY <1>1, <1>2, <1>3 DEF Waiting

\* main returns the exit code that what was searched calls for.
LEMMA ReturnMaps ==
  ASSUME AllInv, EarlyInv, WaitingFacts, WaitingFacts',
         Exit \/ (PoolCreated /\ mpc' = "exited")
  PROVE  Promise!Return
<1>1. /\ mpc \in {"create", "cleanup"} /\ mpc' = "exited"
      /\ UNCHANGED <<args, arg, cursor, refused, skipped, poolVars, searchVars>>
      /\ mpc = "create" <=> ~Exit
  BY DEF Exit, PoolCreated, Step
<1>2. cpc \in {"calloc", "gone"}
  BY DEF Exit, PoolCreated, Destroyed, Step, AllInv, RunInv, CallInv
<1>3. Waiting = 0 /\ \A s \in Searcher : spc[s] = "none"
  BY <1>1, <1>2, NothingWaits
<1>4. Waiting' = 0
  <2>1. Passed' = Passed
    BY <1>1 DEF Passed
  <2> QED
    BY <1>1, <1>3, <2>1, WaitingKept DEF searchVars
<1>5. /\ \A s \in Searcher : Busy[s] = NoFile
      /\ Busy' = Busy
  BY <1>1, <1>3 DEF Busy, searchVars
<1>6. Codes = {} /\ searched' = searched
  BY <1>1 DEF Codes, searchVars
<1>7. Codes' = {IF Hits # {} THEN 0 ELSE 1}
  <2>1. CASE created # "FGREP_OK"
    <3>1. mpc = "create" /\ Hits = {}
      BY <1>1, <2>1 DEF EarlyInv, Hits
    <3> QED
      BY <1>1, <2>1, <3>1 DEF Codes, poolVars
  <2>2. CASE created = "FGREP_OK"
    <3>1. Exit
      BY <1>1, <1>2, <2>2 DEF AllInv, WalkInv, RunInv, CallInv, PoolCreated, Step
    <3>2. Codes' = {ExitCode(l, FALSE) : l \in BOOLEAN}
      BY <1>1, <2>2 DEF Codes, ExitCode, poolVars, searchVars
    <3>3. \A l \in BOOLEAN :
            /\ ExitCode(l, FALSE) \in {0, 1}
            /\ ExitCode(l, FALSE) = 0 <=> Hits # {}
      BY <1>3, CodeIsHits DEF AllInv
    <3>4. \A l \in BOOLEAN : ExitCode(l, FALSE) = IF Hits # {} THEN 0 ELSE 1
      BY <3>3
    <3> QED
      BY <3>2, <3>4
  <2> QED
    BY <2>1, <2>2
<1>8. Hits # {} <=> \E f \in Sources : searched[f] > 0 /\ Matches[f] > 0
  BY DEF Hits
<1> QED
  BY <1>3, <1>4, <1>5, <1>6, <1>7, <1>8, BusyTypes
   DEF Promise!Return, Promise!Running, Promise!AllIdle

\* What main passes is the same as long as it stays out of its loop over a list.
LEMMA PassedElsewhere ==
  ASSUME args' = args, UNCHANGED <<arg, cursor, refused>>,
         mpc' \in {"iterate", "drain"} <=> mpc \in {"iterate", "drain"}
  PROVE  Passed' = Passed
BY DEF Passed

\* Every other step of main is not seen.
LEMMA MainUnseen ==
  ASSUME AllInv, AllInv', WaitingFacts, WaitingFacts', args' = args, MainStep,
         ~SubmitFile, ~SearchFile, ~ReadStdin, ~Exit, ~(PoolCreated /\ mpc' = "exited")
  PROVE  Unseen
<1> USE DEF Step
<1>1. UNCHANGED searchVars
  BY DEF MainStep, Start, CreatePool, PoolCreated, ReadStdinFails, StdinSearched,
     ListFiles, CannotAccess, SkipFile, LastFile, TakeLock, InsidePool, FreeList,
     ArgsDone, Teardown
<1>2. mpc # "exited" /\ mpc' # "exited"
  <2>1. CASE TakeLock \/ InsidePool
    <3>1. cpc \in {"submit_lock", "submit", "wait_lock", "wait", "destroy_lock", "destroy",
                   "join"}
      BY <2>1 DEF TakeLock, InsidePool, Pool!SubmitLock, Pool!WaitLock, Pool!DestroyLock,
         Pool!ClientLock, Pool!SubmitLink, Pool!WaitPoll, Pool!DestroyShutdown,
         Pool!DestroyJoin, Pool!DestroyJoinMissing, Pool!DestroyReturn, Pool!Call
    <3>2. mpc' = mpc
      BY <2>1 DEF TakeLock, InsidePool, mainVars
    <3> QED
      BY <3>1, <3>2 DEF AllInv, RunInv, CallInv
  <2>2. CASE ~(TakeLock \/ InsidePool)
    BY <2>2 DEF MainStep, Start, CreatePool, PoolCreated, ReadStdinFails, StdinSearched,
       ListFiles, CannotAccess, SkipFile, LastFile, FreeList, ArgsDone, Teardown,
       Iterating, mainVars
  <2> QED
    BY <2>1, <2>2
<1>3. Waiting' = Waiting
  <2>1. CASE SkipFile
    <3>1. /\ Iterating /\ UNCHANGED <<arg, mpc, refused, opens>> /\ cursor' = cursor + 1
          /\ skipped' = skipped + 1
      BY <2>1 DEF SkipFile, Iterating, searchVars
    <3>2. SumOf(Passed') = SumOf(Passed) + 1
      BY <3>1, OnePassed
    <3>3. /\ Waiting \in Nat /\ Waiting' \in Nat /\ opens \in Nat /\ skipped \in Nat
          /\ opens + skipped + Waiting = SumOf(Passed)
          /\ opens' + skipped' + Waiting' = SumOf(Passed')
          /\ opens' = opens
      BY <3>1 DEF WaitingFacts
    <3> HIDE DEF Waiting, Passed
    <3> QED
      BY <3>1, <3>2, <3>3
  <2>2. CASE ListFiles \/ CannotAccess \/ LastFile \/ FreeList
    <3>1. Passed' = Passed
      BY <2>2, PassedSame
    <3>2. opens' = opens /\ skipped' = skipped
      BY <2>2, <1>1 DEF searchVars, ListFiles, CannotAccess, LastFile, FreeList
    <3> QED
      BY <3>1, <3>2, WaitingKept
  <2>3. CASE ~(SkipFile \/ ListFiles \/ CannotAccess \/ LastFile \/ FreeList)
    <3>1. /\ UNCHANGED <<arg, cursor, refused, skipped>>
          /\ mpc' \in {"iterate", "drain"} <=> mpc \in {"iterate", "drain"}
      BY <2>3 DEF MainStep, Start, CreatePool, PoolCreated, ReadStdinFails, StdinSearched,
         TakeLock, InsidePool, ArgsDone, Teardown, mainVars
    <3>2. Passed' = Passed
      BY <3>1, PassedElsewhere
    <3> QED
      BY <1>1, <3>1, <3>2, WaitingKept DEF searchVars
  <2> QED
    BY <2>1, <2>2, <2>3
<1> QED
  BY <1>1, <1>2, <1>3 DEF Unseen, searchVars

LEMMA StepPromise ==
  ASSUME AllInv, AllInv', EarlyInv, TriedInv, TriedInv', [Next]_vars
  PROVE  [Promise!Next]_Promise!vars
<1>1. args' = args
  BY ArgsKept
<1>2. WaitingFacts
  BY WaitingIs DEF WaitingFacts
<1>3. WaitingFacts'
  <2>1. (/\ Waiting \in Nat /\ opens \in Nat /\ skipped \in Nat /\ SumOf(Passed) \in Nat
         /\ opens + skipped + Waiting = SumOf(Passed))'
    BY WaitingIs, PTL
  <2> QED
    BY <2>1 DEF WaitingFacts
<1>4. ASSUME NEW s \in Searcher, Search(s) PROVE [Promise!Next]_Promise!vars
  <2>1. CASE OpenFile(s)
    BY <1>2, <1>3, <2>1, OpenMaps DEF Promise!Next
  <2>2. CASE SearchData(s)
    BY <1>2, <1>3, <2>2, ExamineMaps DEF Promise!Next
  <2>3. CASE AddMatches(s) \/ AddFiles(s) \/ AddMatched(s) \/ Release(s)
    BY <1>2, <1>3, <2>3, SearchUnseen, UnseenMaps
  <2> QED
    BY <1>4, <2>1, <2>2, <2>3 DEF Search
<1>5. ASSUME NEW w \in Worker, WorkerStep(w) PROVE [Promise!Next]_Promise!vars
  BY <1>2, <1>3, <1>5, WorkerUnseen, UnseenMaps
<1>6. CASE MainStep
  <2>1. CASE SubmitFile \/ SearchFile
    BY <1>1, <1>2, <1>3, <2>1, TakeUpMaps DEF Promise!Next
  <2>2. CASE ReadStdin
    BY <1>2, <1>3, <2>2, StdinMaps, BusyTypes DEF Promise!Next
  <2>3. CASE Exit \/ (PoolCreated /\ mpc' = "exited")
    BY <1>2, <1>3, <2>3, ReturnMaps DEF Promise!Next
  <2> QED
    BY <1>1, <1>2, <1>3, <1>6, <2>1, <2>2, <2>3, MainUnseen, UnseenMaps
<1>7. CASE UNCHANGED vars
  <2>1. UNCHANGED <<poolVars, mainVars, searchVars>>
    BY <1>7 DEF vars
  <2>2. Waiting' = Waiting
    BY <1>2, <1>3, <2>1, WaitingKept DEF mainVars, searchVars, Passed
  <2>3. Busy' = Busy /\ Codes' = Codes /\ searched' = searched
    BY <2>1 DEF Busy, Codes, ExitCode, poolVars, mainVars, searchVars
  <2> QED
    BY <2>2, <2>3 DEF Promise!vars
<1> QED
  BY <1>4, <1>5, <1>6, <1>7 DEF Next, Stopped

LEMMA InitPromise == Init /\ AllInv => Promise!Init
<1> SUFFICES ASSUME Init, AllInv PROVE Promise!Init
  OBVIOUS
<1>1. Queued = 0 /\ Submitting = 0
  BY DEF Init, Pool!Init, Pool!NULL, Queued, Submitting
<1>2. \A s \in Searcher : Opening[s] = 0
  BY DEF Init, Opening
<1>3. SumOf(Opening) = 0
  BY <1>2, TriedTypes, Weights, SumOfNothing
<1>4. Waiting = 0
  BY <1>1, <1>3 DEF Waiting
<1>5. Busy = [s \in Searcher |-> NoFile] /\ Codes = {}
  BY DEF Init, Busy, Codes
<1> QED
  BY <1>4, <1>5 DEF Init, Promise!Init, Promise!Sources

\* The program keeps its promise, for every command line, number of threads and
\* order in which they work: it returns only when every file it took up was
\* opened and searched or could not be, with the exit code of what was searched
\* (src/main.c:145-201).
THEOREM RunKeepsPromise == Spec => ImplementsSearchRun
BY AllInvariant, InitTried, StepTried, InitEarly, StepEarly, InitPromise, StepPromise, PTL
   DEF Spec, ImplementsSearchRun, Promise!Spec

------------------------------------------------------------------------------
(* Deadlock *)

\* A worker runs an item exactly while it is in a search, and main is on its way
\* out of the pool once it has called destroy.
HaltInv ==
  /\ \A w \in Worker : wpc[w] = "run" => spc[w] # "none"
  /\ spc[Main] # "done"
  /\ mpc = "cleanup" /\ pooled => cpc # "idle"

\* The searches: a worker's begins and ends with its item.
LEMMA PlacesKept ==
  ASSUME AllInv, HaltInv, [Next]_vars
  PROVE  /\ \A w \in Worker : wpc'[w] = "run" => spc'[w] # "none"
         /\ spc'[Main] # "done"
<1>1. /\ spc \in [Searcher -> SearchPlaces]
      /\ wpc \in [Worker -> Pool!WorkerPlaces]
      /\ Main \in Searcher /\ Main \notin Worker /\ Worker \subseteq Searcher
  BY PoolFacts, RunAssumption DEF AllInv, RunInv, RunTypes, Searcher, Worker, Main
<1>2. /\ \A w \in Worker : wpc[w] = "run" => spc[w] # "none"
      /\ spc[Main] # "done"
  BY DEF HaltInv
<1>3. ASSUME NEW s \in Searcher, Search(s)
      PROVE  /\ \A w \in Worker : wpc'[w] = "run" => spc'[w] # "none"
             /\ spc'[Main] # "done"
  <2>1. wpc' = wpc
    BY <1>3 DEF Search, OpenFile, SearchData, AddMatches, AddFiles, AddMatched, Release,
       poolVars
  <2>2. \E to \in SearchPlaces :
          /\ spc' = [spc EXCEPT ![s] = to]
          /\ to = "none" => s = Main
          /\ to = "done" => s # Main
    BY <1>3 DEF Search, OpenFile, SearchData, AddMatches, AddFiles, AddMatched, Release,
       Move, SearchPlaces
  <2> QED
    BY <1>1, <1>2, <2>1, <2>2
<1>4. ASSUME NEW w \in Worker, WorkerStep(w)
      PROVE  /\ \A v \in Worker : wpc'[v] = "run" => spc'[v] # "none"
             /\ spc'[Main] # "done"
  <2>1. CASE Begin(w)
    <3>1. /\ wpc' = [wpc EXCEPT ![w] = "run"]
          /\ spc' = [spc EXCEPT ![w] = "open"]
      BY <2>1 DEF Begin, Pool!WorkerTake, Pool!Goto
    <3> QED
      BY <1>1, <1>2, <3>1
  <2>2. CASE End(w)
    <3>1. /\ wpc' = [wpc EXCEPT ![w] = "free"]
          /\ spc' = [spc EXCEPT ![w] = "none"]
      BY <2>2 DEF End, Move, Pool!WorkerRan, Pool!Goto
    <3> QED
      BY <1>1, <1>2, <3>1
  <2>3. CASE Lock(w) \/ Unlock(w) \/ Wakeup(w)
    <3>1. /\ \E to \in {"test", "parked", "exited", "lock"} : wpc' = [wpc EXCEPT ![w] = to]
          /\ spc' = spc
      BY <2>3 DEF Lock, Unlock, Wakeup, searchVars, Pool!WorkerLock, Pool!WorkerPark,
         Pool!WorkerExit, Pool!WorkerFree, Pool!SpuriousWakeup, Pool!Goto
    <3> QED
      BY <1>1, <1>2, <3>1
  <2> QED
    BY <1>4, <2>1, <2>2, <2>3 DEF WorkerStep
<1>5. CASE MainStep \/ UNCHANGED vars
  <2>1. \A v \in Worker : wpc'[v] = "run" => wpc[v] = "run"
    <3>1. CASE CreatePool
      BY <1>1, <1>5, <3>1 DEF CreatePool, Pool!Create, Pool!CreateAlloc,
         Pool!CreateNoMemory, Pool!CreateThread, Pool!CreateFails, Pool!CreateReturn,
         Pool!Goto, Pool!workerVars
    <3>2. CASE InsidePool
      BY <1>1, <3>2 DEF InsidePool, Pool!SubmitLink, Pool!WaitPoll, Pool!DestroyShutdown,
         Pool!DestroyJoin, Pool!DestroyJoinMissing, Pool!DestroyReturn, Pool!SignalOne,
         Pool!WakeAll, Pool!Goto, Pool!Worker, Worker, Pool!workerVars
    <3>3. CASE ~(CreatePool \/ InsidePool)
      <4>1. wpc' = wpc
        BY <1>5, <3>3 DEF MainStep, Start, PoolCreated, ReadStdin, ReadStdinFails,
           StdinSearched, ListFiles, CannotAccess, SubmitFile, SkipFile, SearchFile,
           LastFile, TakeLock, FreeList, ArgsDone, Teardown, Exit, Pool!SubmitAlloc,
           Pool!SubmitLock, Pool!WaitLock, Pool!DestroyLock, Pool!ClientLock,
           Pool!WaitCall, Pool!DestroyCall, Pool!workerVars, poolVars, vars
      <4> QED
        BY <4>1
    <3> QED
      BY <3>1, <3>2, <3>3
  <2>2. \/ spc' = spc
        \/ spc' = [spc EXCEPT ![Main] = "search"]
        \/ spc' = [spc EXCEPT ![Main] = "open"]
    BY <1>5 DEF MainStep, Start, CreatePool, PoolCreated, ReadStdin, ReadStdinFails,
       StdinSearched, ListFiles, CannotAccess, SubmitFile, SkipFile, SearchFile, LastFile,
       TakeLock, InsidePool, FreeList, ArgsDone, Teardown, Exit, searchVars, vars
  <2> QED
    BY <1>1, <1>2, <2>1, <2>2
<1> QED
  BY <1>3, <1>4, <1>5 DEF Next, Stopped

\* main goes to its clean-up by calling destroy, which it does not leave for idle.
LEMMA CleanupKept ==
  ASSUME AllInv, HaltInv, [Next]_vars, mpc' = "cleanup", pooled'
  PROVE  cpc' # "idle"
<1> USE DEF HaltInv, AllInv, RunInv, CallInv, Step
<1>1. CASE UNCHANGED <<mpc, pooled, cpc>>
  BY <1>1
<1>2. CASE TakeLock
  BY <1>2 DEF TakeLock, mainVars, Pool!SubmitLock, Pool!WaitLock, Pool!DestroyLock,
     Pool!ClientLock, Pool!Call
<1>3. CASE InsidePool
  BY <1>3 DEF InsidePool, mainVars, Pool!SubmitLink, Pool!WaitPoll, Pool!DestroyShutdown,
     Pool!DestroyJoin, Pool!DestroyJoinMissing, Pool!DestroyReturn, Pool!Call
<1>4. CASE MainStep /\ ~(TakeLock \/ InsidePool)
  BY <1>4 DEF MainStep, Start, CreatePool, PoolCreated, ReadStdin, ReadStdinFails,
     StdinSearched, ListFiles, CannotAccess, SubmitFile, SkipFile, SearchFile, LastFile,
     FreeList, ArgsDone, Teardown, Exit, Iterating, Pool!DestroyCall, Pool!Call, mainVars
<1>5. ASSUME NEW w \in Worker, WorkerStep(w) PROVE UNCHANGED <<mpc, pooled, cpc>>
  BY <1>5 DEF WorkerStep, Begin, End, Lock, Unlock, Wakeup, mainVars, Pool!WorkerTake,
     Pool!WorkerRan, Pool!WorkerLock, Pool!WorkerPark, Pool!WorkerExit, Pool!WorkerFree,
     Pool!SpuriousWakeup, Pool!clientVars
<1>6. ASSUME NEW s \in Searcher, Search(s) PROVE UNCHANGED <<mpc, pooled, cpc>>
  BY <1>6 DEF Search, OpenFile, SearchData, AddMatches, AddFiles, AddMatched, Release,
     mainVars, poolVars
<1>7. CASE UNCHANGED vars
  BY <1>1, <1>7 DEF vars, poolVars, mainVars
<1> QED
  BY <1>1, <1>2, <1>3, <1>4, <1>5, <1>6, <1>7 DEF Next, Stopped

LEMMA StepHalt == AllInv /\ HaltInv /\ [Next]_vars => HaltInv'
<1> SUFFICES ASSUME AllInv, HaltInv, [Next]_vars PROVE HaltInv'
  OBVIOUS
<1>1. /\ \A w \in Worker : wpc'[w] = "run" => spc'[w] # "none"
      /\ spc'[Main] # "done"
  BY PlacesKept
<1>2. mpc' = "cleanup" /\ pooled' => cpc' # "idle"
  BY CleanupKept
<1> QED
  BY <1>1, <1>2 DEF HaltInv

LEMMA InitHalt == Init => HaltInv
BY DEF Init, HaltInv, Pool!Init, Pool!Worker, Worker, Searcher

\* Inside a call of the pool, the call or a worker goes on, and the worker's
\* search with it.
LEMMA CallsGoOn ==
  ASSUME AllInv, HaltInv, cpc \notin {"idle", "gone", "crashed"}
  PROVE  \/ Pool!CallCanGoOn
         \/ \E w \in Worker : Pool!CanGoOn(w) /\ (wpc[w] = "run" => spc[w] # "none")
<1>1. Thm!NobodyStuck
  BY RunAssumption, Thm!CallGoesOn DEF AllInv
<1>2. Thm!CallCanGoOn => Pool!CallCanGoOn
  BY DEF Thm!CallCanGoOn, Pool!CallCanGoOn, Thm!Joinable, Pool!Joinable, Thm!NoThread,
     Pool!NoThread
<1>3. \A w \in Worker : Thm!CanGoOn(w) => Pool!CanGoOn(w)
  BY DEF Thm!CanGoOn, Pool!CanGoOn, Thm!NoThread, Pool!NoThread
<1> QED
  BY <1>1, <1>2, <1>3 DEF Thm!NobodyStuck, Thm!Worker, Worker, HaltInv

\* The program never comes to a halt before its end, whatever the command line,
\* the number of threads and their order, and with no spurious wakeup
\* (src/main.c:145-201).
THEOREM RunGoesOn == Spec => []NobodyStuck
<1>1. AllInv /\ HaltInv => NobodyStuck
  <2> SUFFICES ASSUME AllInv, HaltInv, Running, ~MainCanGoOn
               PROVE  \E w \in Worker : /\ Pool!CanGoOn(w)
                                        /\ wpc[w] = "run" => spc[w] # "none"
    BY DEF NobodyStuck
  <2>1. /\ mpc \in MainPlaces /\ mpc # "exited" /\ cpc # "crashed" /\ pooled \in BOOLEAN
        /\ cpc \in Pool!ClientPlaces
    BY DEF AllInv, WalkTypes, Running, Thm!IInv, Thm!TypeOK, Thm!ThreadTypeOK,
       Thm!ClientPlaces, Pool!ClientPlaces
  <2>2. spc[Main] \in {"none", "done"}
    BY DEF MainCanGoOn, AllInv, RunInv, SearchInv
  <2>3. /\ mpc \in {"create", "iterate", "drain", "teardown", "cleanup"}
        /\ mpc \in {"iterate", "drain", "teardown"} => pooled /\ cpc # "idle"
        /\ mpc = "cleanup" => pooled /\ cpc # "gone"
        /\ mpc = "create" => cpc \notin {"idle", "gone"}
    <3>1. spc[Main] = "none"
      BY <2>2 DEF HaltInv
    <3>2. mpc \notin {"start", "args", "stdin"}
      BY <3>1 DEF MainCanGoOn
    <3>3. mpc = "iterate" => ~(pooled => cpc = "idle")
      BY <3>1 DEF MainCanGoOn
    <3>4. mpc \in {"drain", "teardown"} => ~(pooled => cpc = "idle")
      BY DEF MainCanGoOn
    <3>5. mpc = "cleanup" => ~(pooled => cpc = "gone")
      BY DEF MainCanGoOn
    <3>6. mpc = "create" => cpc \notin {"idle", "gone"}
      BY DEF MainCanGoOn
    <3>7. mpc \in {"create", "iterate", "drain", "teardown", "cleanup"}
      BY <2>1, <3>2 DEF MainPlaces
    <3> QED
      BY <3>3, <3>4, <3>5, <3>6, <3>7
  <2>4. /\ pooled /\ mpc \in {"create", "iterate", "drain", "cleanup"}
        /\ cpc \notin {"idle", "gone", "crashed"}
    <3>1. CASE mpc = "create"
      BY <2>1, <2>3, <3>1 DEF AllInv, RunInv, CallInv
    <3>2. CASE mpc \in {"iterate", "drain"}
      BY <2>1, <2>3, <3>2 DEF AllInv, RunInv, CallInv
    <3>3. CASE mpc = "cleanup"
      BY <2>1, <2>3, <3>3 DEF HaltInv
    <3>4. mpc # "teardown"
      BY <2>1, <2>3 DEF AllInv, RunInv, CallInv, Pool!ClientPlaces
    <3> QED
      BY <2>3, <3>1, <3>2, <3>3, <3>4
  <2> QED
    BY <2>4, CallsGoOn DEF MainCanGoOn
<1> QED
  BY <1>1, InitHalt, StepHalt, AllInvariant, PTL DEF Spec
=============================================================================
