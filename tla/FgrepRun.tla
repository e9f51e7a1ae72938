------------------------------ MODULE FgrepRun ------------------------------
(***************************************************************************)
(* One run of the program: main (src/main.c lines 145-201) lists the files *)
(* of each argument, searches them itself or hands them to the thread pool *)
(* (module WorkPool, src/threadpool.c), waits, frees the list, and at the  *)
(* end destroys the pool and computes the exit code.  A search             *)
(* (fgrep_search_file and its worker wrapper in src/search.c) opens the    *)
(* file whose path the list owns, searches it, adds to the shared          *)
(* statistics and releases what it holds.                                  *)
(*                                                                         *)
(* A path is known by its place, <<argument, position in its list>>.  Once  *)
(* its list is freed, reading a path is undefined: it may still hold the   *)
(* same name, hold nothing that can be opened, or, the memory having been  *)
(* used for a list made since, hold the name of a file of that list.       *)
(***************************************************************************)
EXTENDS Integers, Sequences, FiniteSetsExt, TLC

CONSTANTS
  NumThreads,   \* the number of threads when there is more than one
  MaxItems,     \* bound on the work items of a run
  Files,        \* the files that exist, each the name of its own path
  ArgLists,     \* the possible command lines: sequences of listings of files
  Matches,      \* how many matches each file has
  Unreadable,   \* the files that cannot be opened, or are empty
  Short,        \* the files shorter than a fixed string (none if the search is
                \* by lines)
  Stdin         \* what main searches when there is no file argument

\* What a thread that has no file open reads, and what a path that is gone names.
NoFile == "no file"

ASSUME RunAssumption ==
  /\ NumThreads \in Nat \ {0}
  /\ MaxItems \in Nat
  /\ IsFiniteSet(Files)
  /\ Matches \in [Files \cup {Stdin} -> Nat]
  /\ Unreadable \subseteq Files
  /\ Short \subseteq Files \cup {Stdin}
  /\ Stdin \notin Files
  /\ NoFile \notin Files \cup {Stdin}
  /\ \A f \in Short : Matches[f] = 0
  /\ ArgLists \subseteq Seq(Seq(Files))

\* The variables of the thread pool, see WorkPool.
VARIABLES
  workHead, workTail, next, mem, allocated, mutex, shutdown, active, wpc, held,
  cpc, joined, created, ran

VARIABLES
  args,         \* the listing of every argument of the command line
  pooled,       \* does main use a pool (pool # NULL)?
  mpc,          \* where main is
  arg,          \* the argument main is at
  cursor,       \* the next file of its list
  freed,        \* the arguments whose list, with its paths, was freed
  refused,      \* the arguments whose list could not be made
  fwPath,       \* the path in the file_work_t of each work item
  spc,          \* where each searching thread is, inside fgrep_search_file
  current,      \* the path main searches when it has no pool
  reading,      \* the file each searching thread has open
  stats,        \* fgrep_stats_t, shared by all threads
  searched,     \* history: how often each file went through search_data
  opens,        \* history: how many searches have tried to open their path
  skipped       \* history: files dropped because memory ran out

poolVars == <<workHead, workTail, next, mem, allocated, mutex, shutdown, active,
              wpc, held, cpc, joined, created, ran>>
mainVars == <<args, pooled, mpc, arg, cursor, freed, refused, fwPath, current,
              skipped>>
searchVars == <<spc, reading, stats, searched, opens>>
vars == <<poolVars, mainVars, searchVars>>

Pool == INSTANCE WorkPool

Worker == 1..NumThreads
Main == 0
Searcher == Worker \cup {Main}
NoPath == <<0, 0>>

MainPlaces ==
  {"start", "create", "args", "stdin", "iterate", "drain", "teardown", "cleanup",
   "exited"}

\* Places of a searching thread: not searching, about to open the path, in
\* search_data, at each of the three additions to the statistics, about to
\* close the file, back from fgrep_search_file.
SearchPlaces ==
  {"none", "open", "search", "add_matches", "add_files", "add_matched", "release",
   "done"}

\* The place of every path of this run, and of none.
Paths ==
  {NoPath} \cup UNION {{<<a, i>> : i \in DOMAIN args[a]} : a \in DOMAIN args}

TypeOK ==
  /\ Pool!TypeOK
  /\ args \in ArgLists
  /\ pooled \in BOOLEAN
  /\ mpc \in MainPlaces
  /\ arg \in 1..Len(args) + 1
  /\ cursor \in Nat \ {0}
  /\ freed \subseteq 1..Len(args)
  /\ refused \subseteq 1..Len(args)
  /\ fwPath \in [1..MaxItems -> Paths]
  /\ spc \in [Searcher -> SearchPlaces]
  /\ current \in Paths
  /\ reading \in [Searcher -> Files \cup {Stdin, NoFile}]
  /\ stats \in [total_matches : Nat, total_files : Nat, files_matched : Nat]
  /\ searched \in [Files \cup {Stdin} -> Nat]
  /\ opens \in Nat
  /\ skipped \in Nat

Init ==
  /\ Pool!Init
  /\ args \in ArgLists
  /\ pooled = FALSE
  /\ mpc = "start"
  /\ arg = 1
  /\ cursor = 1
  /\ freed = {}
  /\ refused = {}
  /\ fwPath = [i \in 1..MaxItems |-> NoPath]
  /\ spc = [s \in Searcher |-> "none"]
  /\ current = NoPath
  /\ reading = [s \in Searcher |-> NoFile]
  /\ stats = [total_matches |-> 0, total_files |-> 0, files_matched |-> 0]
  /\ searched = [f \in Files \cup {Stdin} |-> 0]
  /\ opens = 0
  /\ skipped = 0

Step(from, to) ==
  /\ mpc = from
  /\ mpc' = to

ListedIn(a) == {args[a][i] : i \in DOMAIN args[a]}

\* The arguments whose list has been made.
Made ==
  {a \in DOMAIN args : a < arg \/ (a = arg /\ mpc \in {"iterate", "drain"})} \ refused
------------------------------------------------------------------------------
(* main *)

\* Whether there is a pool depends on -j, on -r and on the number of files.
Start ==
  /\ \E manyThreads, recursive \in BOOLEAN :
       pooled' = (manyThreads /\ (Len(args) > 1 \/ recursive))
  /\ Step("start", IF pooled' THEN "create" ELSE "args")
  /\ UNCHANGED <<poolVars, args, arg, cursor, freed, refused, fwPath, current,
                 skipped, searchVars>>

\* A step of fgrep_threadpool_create while main is inside it.
CreatePool ==
  /\ mpc = "create"
  /\ Pool!Create
  /\ UNCHANGED <<mainVars, searchVars>>

\* main goes on with the pool, or reports the failure and returns 1.
PoolCreated ==
  /\ \/ cpc = "idle" /\ Step("create", "args")
     \/ cpc = "gone" /\ Step("create", "exited")
  /\ UNCHANGED <<poolVars, args, pooled, arg, cursor, freed, refused, fwPath,
                 current, skipped, searchVars>>

\* Without file arguments main reads standard input and searches it itself,
\* even if there is a pool.
ReadStdin ==
  /\ args = <<>>
  /\ Step("args", "stdin")
  /\ spc' = [spc EXCEPT ![Main] = "search"]
  /\ reading' = [reading EXCEPT ![Main] = Stdin]
  /\ UNCHANGED <<poolVars, args, pooled, arg, cursor, freed, refused, fwPath,
                 current, skipped, stats, searched, opens>>

\* Standard input could not be buffered: nothing is searched.
ReadStdinFails ==
  /\ args = <<>>
  /\ Step("args", "teardown")
  /\ UNCHANGED <<poolVars, args, pooled, arg, cursor, freed, refused, fwPath,
                 current, skipped, searchVars>>

StdinSearched ==
  /\ spc[Main] = "none"
  /\ Step("stdin", "teardown")
  /\ UNCHANGED <<poolVars, args, pooled, arg, cursor, freed, refused, fwPath,
                 current, skipped, searchVars>>

\* fgrep_filelist_create succeeds.
ListFiles ==
  /\ arg \in DOMAIN args
  /\ Step("args", "iterate")
  /\ cursor' = 1
  /\ UNCHANGED <<poolVars, args, pooled, arg, freed, refused, fwPath, current,
                 skipped, searchVars>>

\* fgrep_filelist_create fails: the argument is reported and passed over.
CannotAccess ==
  /\ mpc = "args"
  /\ arg \in DOMAIN args
  /\ refused' = refused \cup {arg}
  /\ arg' = arg + 1
  /\ UNCHANGED <<poolVars, args, pooled, mpc, cursor, freed, fwPath, current,
                 skipped, searchVars>>

\* Mutant: the loop ends one file early.
AtEndEarly == cursor >= Len(args[arg])

\* fgrep_filelist_next returns NULL.
AtEnd == cursor > Len(args[arg])

\* main is in its loop over the list, and no call it made is unfinished.
Iterating ==
  /\ mpc = "iterate"
  /\ pooled => cpc = "idle"
  /\ spc[Main] = "none"
  /\ ~AtEnd

\* A file_work_t and a work item are allocated for the next file: the submit
\* goes on inside the pool.
SubmitFile ==
  /\ Iterating
  /\ pooled
  /\ Pool!SubmitAlloc
  /\ fwPath' = [fwPath EXCEPT ![allocated + 1] = <<arg, cursor>>]
  /\ cursor' = cursor + 1
  /\ UNCHANGED <<args, pooled, mpc, arg, freed, refused, current, skipped,
                 searchVars>>

\* One of the two allocations fails.  Neither is checked: the file is passed
\* over without a word.
SkipFile ==
  /\ Iterating
  /\ pooled
  /\ skipped' = skipped + 1
  /\ cursor' = cursor + 1
  /\ UNCHANGED <<poolVars, args, pooled, mpc, arg, freed, refused, fwPath,
                 current, searchVars>>

\* Without a pool main calls fgrep_search_file.
SearchFile ==
  /\ Iterating
  /\ ~pooled
  /\ current' = <<arg, cursor>>
  /\ cursor' = cursor + 1
  /\ spc' = [spc EXCEPT ![Main] = "open"]
  /\ UNCHANGED <<poolVars, args, pooled, mpc, arg, freed, refused, fwPath,
                 skipped, reading, stats, searched, opens>>

\* After the last file main waits for the pool, if there is one.
LastFile ==
  /\ Step("iterate", "drain")
  /\ AtEnd
  /\ pooled => cpc = "idle"
  /\ spc[Main] = "none"
  /\ IF pooled THEN Pool!WaitCall ELSE UNCHANGED poolVars
  /\ UNCHANGED <<args, pooled, arg, cursor, freed, refused, fwPath, current,
                 skipped, searchVars>>

\* main acquires work_mutex inside submit, wait or destroy.
TakeLock ==
  /\ Pool!SubmitLock \/ Pool!WaitLock \/ Pool!DestroyLock
  /\ UNCHANGED <<mainVars, searchVars>>

\* Any other step of submit, wait or destroy while main is inside it.
InsidePool ==
  /\ \/ Pool!SubmitLink \/ Pool!WaitPoll
     \/ Pool!DestroyShutdown \/ Pool!DestroyJoin \/ Pool!DestroyJoinMissing
     \/ Pool!DestroyReturn
  /\ UNCHANGED <<mainVars, searchVars>>

\* Mutant: the list is freed while main is still to wait.
DrainedTooSoon == mpc = "drain"

\* fgrep_threadpool_wait has returned, or there is no pool.
Drained == pooled => cpc = "idle"

\* fgrep_filelist_destroy frees the list and its paths.
FreeList ==
  /\ Drained
  /\ Step("drain", "args")
  /\ freed' = freed \cup {arg}
  /\ arg' = arg + 1
  /\ UNCHANGED <<poolVars, args, pooled, cursor, refused, fwPath, current,
                 skipped, searchVars>>

ArgsDone ==
  /\ args # <<>>
  /\ arg > Len(args)
  /\ Step("args", "teardown")
  /\ UNCHANGED <<poolVars, args, pooled, arg, cursor, freed, refused, fwPath,
                 current, skipped, searchVars>>

Teardown ==
  /\ Step("teardown", "cleanup")
  /\ IF pooled THEN Pool!DestroyCall ELSE UNCHANGED poolVars
  /\ UNCHANGED <<args, pooled, arg, cursor, freed, refused, fwPath, current,
                 skipped, searchVars>>

\* Mutant: the pool is shut down but its threads are not joined.
DestroyedUnjoined == pooled => cpc \in {"join", "gone"}

\* fgrep_threadpool_destroy has returned, or there is no pool.
Destroyed == pooled => cpc = "gone"

\* The pattern is destroyed, the exit code computed, and main returns.
Exit ==
  /\ Destroyed
  /\ Step("cleanup", "exited")
  /\ UNCHANGED <<poolVars, args, pooled, arg, cursor, freed, refused, fwPath,
                 current, skipped, searchVars>>
------------------------------------------------------------------------------
(* fgrep_search_file, in a worker or in main *)

\* main has not returned, and the process has not died.
Running == mpc # "exited" /\ cpc # "crashed"

Move(s, from, to) ==
  /\ Running
  /\ spc[s] = from
  /\ spc' = [spc EXCEPT ![s] = to]

PathOf(s) == IF s = Main THEN current ELSE fwPath[held[s]]

\* What a path may name when it is read.
Names(path) ==
  LET a == path[1]
      named == args[a][path[2]]
  IN  IF a \in freed
        THEN {named, NoFile} \cup UNION {ListedIn(b) : b \in {b \in Made : a < b}}
        ELSE {named}

\* fgrep_io_open: the file is mapped, or the search ends here.
OpenFile(s) ==
  /\ Running
  /\ spc[s] = "open"
  /\ \E f \in Names(PathOf(s)) :
       IF f \in Unreadable \cup {NoFile}
         THEN /\ spc' = [spc EXCEPT ![s] = "release"]
              /\ UNCHANGED reading
         ELSE /\ spc' = [spc EXCEPT ![s] = "search"]
              /\ reading' = [reading EXCEPT ![s] = f]
  /\ opens' = opens + 1
  /\ UNCHANGED <<poolVars, mainVars, stats, searched>>

\* search_data: a file shorter than the pattern returns before the statistics.
SearchData(s) ==
  /\ Move(s, "search", IF reading[s] \in Short THEN "release" ELSE "add_matches")
  /\ searched' = [searched EXCEPT ![reading[s]] = @ + 1]
  /\ UNCHANGED <<poolVars, mainVars, reading, stats, opens>>

\* The three atomic additions to the shared statistics.
AddMatches(s) ==
  /\ Move(s, "add_matches", "add_files")
  /\ stats' = [stats EXCEPT !.total_matches = @ + Matches[reading[s]]]
  /\ UNCHANGED <<poolVars, mainVars, reading, searched, opens>>

AddFiles(s) ==
  /\ Move(s, "add_files", "add_matched")
  /\ stats' = [stats EXCEPT !.total_files = @ + 1]
  /\ UNCHANGED <<poolVars, mainVars, reading, searched, opens>>

\* Mutant: a file counts as matched without a look at its count.
MatchedAlways(count) == 1

Matched(count) == IF count > 0 THEN 1 ELSE 0

AddMatched(s) ==
  /\ Move(s, "add_matched", "release")
  /\ stats' = [stats EXCEPT !.files_matched = @ + Matched(Matches[reading[s]])]
  /\ UNCHANGED <<poolVars, mainVars, reading, searched, opens>>

\* fgrep_io_close and, in a worker, free(fw); the search function returns.
Release(s) ==
  /\ Move(s, "release", IF s = Main THEN "none" ELSE "done")
  /\ reading' = [reading EXCEPT ![s] = NoFile]
  /\ UNCHANGED <<poolVars, mainVars, stats, searched, opens>>

Search(s) ==
  \/ OpenFile(s) \/ SearchData(s) \/ AddMatches(s) \/ AddFiles(s) \/ AddMatched(s)
  \/ Release(s)
------------------------------------------------------------------------------
(* worker_thread around the search *)

\* The worker calls fgrep_search_file_worker.
Begin(w) ==
  /\ Running
  /\ Pool!WorkerTake(w)
  /\ spc' = [spc EXCEPT ![w] = "open"]
  /\ UNCHANGED <<mainVars, reading, stats, searched, opens>>

\* The call returns.
End(w) ==
  /\ Pool!WorkerRan(w)
  /\ Move(w, "done", "none")
  /\ UNCHANGED <<mainVars, reading, stats, searched, opens>>

\* Steps of the worker that are not about the search.
Lock(w) ==
  /\ Running
  /\ Pool!WorkerLock(w)
  /\ UNCHANGED <<mainVars, searchVars>>

Wakeup(w) ==
  /\ Running
  /\ Pool!SpuriousWakeup(w)
  /\ UNCHANGED <<mainVars, searchVars>>

Unlock(w) ==
  /\ Running
  /\ Pool!WorkerPark(w) \/ Pool!WorkerExit(w) \/ Pool!WorkerFree(w)
  /\ UNCHANGED <<mainVars, searchVars>>
------------------------------------------------------------------------------
MainStep ==
  \/ Start \/ CreatePool \/ PoolCreated
  \/ ReadStdin \/ ReadStdinFails \/ StdinSearched
  \/ ListFiles \/ CannotAccess \/ SubmitFile \/ SkipFile \/ SearchFile
  \/ LastFile \/ TakeLock \/ InsidePool \/ FreeList \/ ArgsDone \/ Teardown \/ Exit

WorkerStep(w) == Begin(w) \/ End(w) \/ Lock(w) \/ Unlock(w) \/ Wakeup(w)

\* main has returned, or the process has died.
Stopped ==
  /\ ~Running
  /\ UNCHANGED vars

Next ==
  \/ MainStep
  \/ \E w \in Worker : WorkerStep(w)
  \/ \E s \in Searcher : Search(s)
  \/ Stopped

Spec == Init /\ [][Next]_vars

(***************************************************************************)
(* Fairness.  main and every thread go on when they can.  work_mutex is    *)
(* granted to a thread that waits for it while it is free again and again. *)
(* Nothing is assumed of spurious wakeups or of failures.                  *)
(***************************************************************************)
FairSpec ==
  /\ Spec
  /\ WF_vars(MainStep)
  /\ SF_vars(TakeLock)
  /\ \A s \in Searcher : WF_vars(Search(s))
  /\ \A w \in Worker :
       /\ SF_vars(Lock(w))
       /\ WF_vars(Unlock(w) \/ Begin(w) \/ End(w))
------------------------------------------------------------------------------
(* Correctness *)

\* main returned by way of the exit code.
Finished == mpc = "exited" /\ created = "FGREP_OK"

\* The files of every list that was made.
Listed == UNION {ListedIn(a) : a \in DOMAIN args \ refused}

\* The exit code: options -l and -v, then the statistics.
ExitCode(filesWithMatches, invert) ==
  IF \/ filesWithMatches /\ stats.files_matched = 0
     \/ ~invert /\ stats.total_matches = 0
     \/ invert /\ stats.files_matched > 0
  THEN 1
  ELSE 0

\* The sum of the values of a function.
SumOf(numbers) == FoldFunction(+, 0, numbers)

\* When main reads the statistics no search can still change them, and they
\* add up to what was searched: no addition of any thread is lost or late
\* (src/main.c:192-199, src/search.c:213-217).
StatsSettled ==
  Finished =>
    LET counted == (Files \cup {Stdin}) \ Short
    IN  /\ stats.total_matches = SumOf([f \in counted |-> searched[f] * Matches[f]])
        /\ stats.total_files = SumOf([f \in counted |-> searched[f]])
        /\ stats.files_matched =
             SumOf([f \in counted |-> IF Matches[f] > 0 THEN searched[f] ELSE 0])

\* Without -v the program exits with 0 exactly when some file it searched has
\* a match, with -l as without it (src/main.c:196-199).
ExitCodeTellsMatches ==
  Finished =>
    \A filesWithMatches \in BOOLEAN :
      ExitCode(filesWithMatches, FALSE) = 0 <=>
        \E f \in Files \cup {Stdin} : searched[f] > 0 /\ Matches[f] > 0

\* The pattern, the options, the statistics and the output mutex live in
\* main's frame: no thread is in a search when main returns, however create
\* or wait ended (src/main.c:137-143, 192-201).
ContextOutlivesSearches ==
  mpc = "exited" => \A s \in Searcher : spc[s] = "none"

\* A work item still in the queue has a live path: wait does not return
\* before every item is taken (src/main.c:187-188).
QueuedPathsLive ==
  \A i \in Pool!Listed : fwPath[i][1] \notin freed

\* At the end there were as many attempts to open a path, and files skipped for
\* want of memory, as files in the lists; and without a pool every file that can
\* be opened was searched as often as it is listed (src/main.c:165-189).
EveryFileIsTried ==
  Finished =>
    /\ opens + skipped =
         SumOf([a \in DOMAIN args |-> IF a \in refused THEN 0 ELSE Len(args[a])])
    /\ ~pooled /\ args # <<>> =>
         \A f \in Files \ Unreadable :
           searched[f] = Cardinality({p \in Paths \ {NoPath} :
                           p[1] \notin refused /\ args[p[1]][p[2]] = f})

\* main has a step that waits for no other thread: outside the pool's functions
\* it always should, inside them see WorkPool.
MainCanGoOn ==
  \/ mpc \in {"start", "args"}
  \/ mpc \in {"stdin", "iterate"} /\ spc[Main] \notin {"none", "done"}
  \/ mpc = "stdin" /\ spc[Main] = "none"
  \/ mpc = "iterate" /\ (pooled => cpc = "idle") /\ spc[Main] = "none"
  \/ mpc \in {"drain", "teardown"} /\ (pooled => cpc = "idle")
  \/ mpc = "cleanup" /\ (pooled => cpc = "gone")
  \/ mpc = "create" /\ cpc \in {"idle", "gone"}
  \/ mpc \in {"create", "iterate", "drain", "cleanup"} /\ pooled /\ Pool!CallCanGoOn

\* Until the program ends somebody can go on, without the help of a spurious
\* wakeup: main is never in a call of the pool whose end every worker sleeps
\* through, and never calls destroy, or returns, with a pool that is not ready
\* for it (src/main.c:145-201, src/threadpool.c:27-29, 83-89, 124-129).
NobodyStuck ==
  Running =>
    \/ MainCanGoOn
    \/ \E w \in Worker : Pool!CanGoOn(w) /\ (wpc[w] = "run" => spc[w] # "none")

\* The program ends: main returns, or the process dies in the join of a
\* thread that was never created.
Terminates == <>(mpc = "exited" \/ cpc = "crashed")

\* "Search for PATTERN in files." (src/main.c:18): unless memory ran out,
\* every listed file that can be opened is searched.
ListedFilesAreSearched ==
  Finished /\ skipped = 0 => \A f \in Listed \ Unreadable : searched[f] > 0
------------------------------------------------------------------------------
(* What the run promises *)

\* The files that wait: in the queue, in the hands of main, or of a search that
\* is about to open its path.
Queued == IF workHead = 0 THEN 0 ELSE workTail - workHead + 1
Submitting == IF cpc \in {"submit_lock", "submit"} THEN 1 ELSE 0
Opening == [s \in Searcher |-> IF spc[s] = "open" THEN 1 ELSE 0]
Waiting == Queued + Submitting + SumOf(Opening)

Busy == [s \in Searcher |-> IF spc[s] = "search" THEN reading[s] ELSE NoFile]

\* main returns 1 if it has no pool for want of threads (src/main.c:150).
Codes ==
  IF mpc # "exited" THEN {}
  ELSE IF created # "FGREP_OK" THEN {1}
  ELSE {ExitCode(filesWithMatches, FALSE) : filesWithMatches \in BOOLEAN}

Promise == INSTANCE SearchRun WITH waiting <- Waiting, busy <- Busy, codes <- Codes

\* The program implements SearchRun: no file that was taken up is still to be
\* opened or searched when main returns, at whatever place of the pool it is,
\* and no interleaving of the additions changes the exit code, nor does the
\* option -l (src/main.c:145-201).
ImplementsSearchRun == Promise!Spec
==============================================================================
