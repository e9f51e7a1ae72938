# Verification of fgrep

TLA+ models of the program in `src/src/` (a parallel `fgrep` in C), the TLC
runs that check them on small instances, and proofs of their main theorems that
TLAPS checks. Paths like `search.c` below are relative to `src/src/`.

## The system

| component | source | state | operations |
|---|---|---|---|
| main program | `main.c` | options, pattern, statistics, output mutex, list of the current argument | parse, create pool, list files, submit or search, wait, free, destroy, exit code |
| thread pool | `threadpool.c` | one linked list (`work_head`, `work_tail`), `work_mutex`, `cond`, `shutdown`, `active` | `create`, `submit`, `wait`, `destroy`, the loop of `worker_thread` |
| search by fixed string | `search.c` (79-220) | position, bit mask, count, output buffer | vector chunks, candidate bits, last bytes, flush, summary |
| search by lines | `search.c` (28-77), `regex_engine.c` | position, line number, count | next line, match, print, summary |
| vector byte search | `simd.c` | index | `memchr` for several vector widths, `simd_find_newline` |
| file list | `fileutil.c` | list of paths, frames of the recursive walk | `create`, `next`, `destroy` |
| file input | `io.c` | mapping or buffer | `open`, `open_stdin`, `close` |
| match output | `output.c`, its callers in `search.c` | the stream stdout, `output_mutex` | print a match, a count, a name |
| Horspool search | `bmh_simd.c`, called by its test only | none | `bmh_search` |
| not modelled | `cpu.c` (prints only), `kwset_engine.c` (not compiled), `grep-3.11/` (not built) | | |

How they interact. `main` makes a file list per argument and walks it with
`fgrep_filelist_next`. Without a pool it calls `fgrep_search_file` itself; with
one it allocates a `file_work_t`, which *points into the list* for its path, and
submits it. Workers take items under `work_mutex` and run
`fgrep_search_file_worker` outside it. All searches share the options, the
pattern, the statistics (atomic additions) and the stream, which live in `main`.
After each argument `main` calls `fgrep_threadpool_wait` and frees the list;
at the end it destroys the pool, then the pattern, and reads the statistics for
the exit code.

What is hard here: the list shared by all threads and its one signal per
submit; `wait`, which looks at the list only; paths freed while in use; failures
of `create` halfway; statistics that must be complete when read; the seams
between vector loops and byte loops; `-m`, which leaves one of two nested loops;
an output buffer flushed in the middle; line numbers in step with positions; lines
that several threads print piece by piece; a buffer that grows under short reads; the
recursive walk when an error or a removal meets it halfway. PROJECT.json lists
each at its line.

What makes each component correct:

- pool: items are started in the order of submission, each runs exactly once and
  is freed after it ran, and every call returns;
- main: no search outlives what it uses, the exit code tells what was found,
  every file of every list is tried;
- fixed search: the count is the number of occurrences; the printed lines are
  those of the matches, in order, no more than `-m`; lines that each fit the
  output buffer never overrun it;
- line search: exactly the wanted lines, whole, with their numbers;
- vector search: the first place of the byte;
- file list: every file once as far as names fit and directories can be read,
  every directory closed, termination;
- output: with the mutex no line is torn; each search's own output is what the usage
  asks for and in order in any case; the mutex is always given back;
- input: the search gets the beginning of standard input without gaps, nothing
  is read outside the buffer, and every way out gives back what was opened.

## Modules

| module | models | composed of |
|---|---|---|
| `TaskQueue` | what a client may rely on: the abstract specification of the pool | |
| `WorkPool` | `threadpool.c` | `Queue == INSTANCE TaskQueue` (refinement mapping) |
| `SearchRun` | what a run promises: the abstract specification of the program | |
| `FgrepRun` | `main.c` 145-201, `fgrep_search_file` and its worker wrapper | `Pool == INSTANCE WorkPool`, sharing its variables; `Promise == INSTANCE SearchRun` (refinement mapping) |
| `FixedScan` | `search_data` without `-i`, `-v` and regular expression | `Search == INSTANCE Bmh`, whose count it states the meaning of |
| `Memchr` | the loops of `simd.c` | |
| `LineScan` | `search_regex_impl`, `fgrep_pattern_match` | `Find == INSTANCE Memchr` on the rest of the text |
| `FileList` | `fileutil.c` | |
| `OutputLines` | `output.c`, and the printing of `search.c` and `main.c` 161 | |
| `FileInput` | `io.c` | |
| `Bmh` | `bmh_simd.c`, as a function | |
| `MC...` | the instance of each for TLC | |
| `WorkPoolProofs` | theorems of the pool, and the refinement | |
| `FgrepRunProofs` | theorems of a run | `Thm == INSTANCE WorkPoolProofs` |
| `MemchrProofs`, `LineScanProofs` | theorems of both searches for the end of a line, and of the lines | `Thm == INSTANCE MemchrProofs` |
| `FixedScanProofs`, `FileListProofs`, `FileInputProofs`, `OutputLinesProofs` | theorems of the module they are named for | |

Operators marked *Mutant* are variants of the definition that follows them with
a plausible mistake; the specifications do not use them. Each property of a
passing run is violated by at least one.

### WorkPool

Each action is the code between two points at which another thread can get in.
Acquiring `work_mutex` is an action (`SubmitLock`, `WorkerLock`, ...) and so is
the critical section that ends by releasing it or by parking in
`pthread_cond_wait` (`SubmitLink`, `WorkerTake`, `WorkerPark`, ...). An item is
known by the order of its allocation, NULL is 0, and `next` and `mem` are the
heap. `ran` counts, for the properties only, how often an item's function ran.
`SignalOne` wakes any one parked worker; `SpuriousWakeup` needs no signal.
`destroy` joins `num_threads` threads, also after `create` has failed with fewer:
`DestroyJoinMissing` is the undefined join, which may report an error or end the
process (`cpc = "crashed"`).

### FgrepRun

`main` takes the pool's steps (`CreatePool`, `TakeLock`, `InsidePool`, ...), and
the workers theirs, interleaved with the searches. A path is known by its place,
`<<argument, position>>`; reading the path of a freed list is undefined and
`Names` is what it may then name: the same file, nothing, or a file of a list
made since. A search opens the path, searches, and makes its three additions
to the statistics as separate steps. The inside of a search is left to the scan
modules: here a file has a number of matches. `SkipFile` is the case that malloc or
submit fails, which the code does not notice.

`FgrepRun` implements `SearchRun`, in which there are no lists, work items, locks or
statistics: files are taken up, opened in any order by whoever is free, and
searched; standard input is searched alone; the program returns only when nothing waits and
nobody searches, with the exit code that what was searched calls for. The mapping
counts a file as waiting while it is in the hands of `main`, in the queue, or with a thread
before its `open`; a searcher is busy while it goes through the data; the
exit codes are those with and without `-l`, so that the refinement says that they agree.
A run that stops because the pool could not be created returns 1 and has searched nothing.

The deadlock check of TLC says little here, since a parked worker may always wake up
spuriously and the end of the program is a stuttering step. `NobodyStuck` says
it in full: until the end, `main` or a worker is at a place where it waits for no other thread
and for no spurious wakeup. The places are spelled out (`MainCanGoOn`, `CanGoOn`,
`CallCanGoOn`) from the guards of the actions, as the prover cannot do ENABLED.

### FixedScan

The positions of a chunk whose first and last byte agree are the set `mask`;
`__builtin_ctz` takes the lowest. The branch for patterns of one byte counts with
`popcount` and has loops of its own; it agrees with the general one for
`nlen = 1` and is not modelled twice. A line in the buffer is known by the
match it was printed for; `outpos` follows the code's arithmetic. `High` holds the bytes
that are negative as `char`: `EqualsUnsigned` is the comparison of the last loops.
A line that does not fit the empty buffer either is copied past its end
(search.c:188): `Overrun`, after which the program counts as ended (`pc = "crashed"`)
and nothing is claimed of what it prints. `BufferHolds` says that only such a
line gets there, alone in the buffer.

### LineScan and Memchr

A `FindNewline` step is one step of `Memchr`, on the text from the current
position; all variants of `simd.c` are instances of the constant `Widths`.
`PatternMatch` cuts the line at a byte 0 for `regexec`, whose verdict is the
constant `Matching`; `ContainsFixed` follows the search of `-F`. `NoMemory` is the
failing copy of a long line, which counts as no match.

### FileList

`stack` holds the frames of `walk_dir` with their open directories. `Stat` gives
"gone" for a path through a removed node or with more symbolic links than the
system follows (`MaxLinks`). A path is the nodes it leads through; a frame keeps the
length of the string besides, as `snprintf` cuts that at PATH_MAX (`PathMax` is its
longest result, in bytes). `EntryPaths` says where the string leads: to the entry if its
name fits, else to the entry, if any, that has what is left of the name for a
name, or, if nothing is left of it, to the directory itself. `ReaddirFails` is an
error of `readdir`, which looks like the end of the directory. `MaxOpen` is how
many levels there are descriptors and stack for: a deeper `opendir` fails
(`OpenDirFails`) or the frames do not fit (`StackOverflow`, `pc = "crashed"`). The history
variables `cut` and `unread` record that a name was cut or a directory not read to its
end, so that `YieldsFilesOnce` can say what holds then and what does not.
`Vanish` is somebody else's removal, once in a run. `TreesAssumption` is what a file
system gives: the names in a directory are distinct, and a file has no entries.

### OutputLines

A record is what is printed at a time: a line, the summary of a file, the second
count of standard input. `Calls` says by which calls of stdio, each of them atomic
because a `FILE` has a lock of its own, and one entry of `stream` stands for the
outcome of one call. The search by lines prints with `fgrep_output_match`
inside the mutex if there is one; `Locked` is main.c:142, which passes the
mutex on only with `--color` or `-l`. The search for a fixed string writes blocks
of whole lines by one `fwrite` (`WriteBlock`, any number of them), without the
mutex. Without the mutex two threads may tear each other's lines of `-n`
apart; nothing in the repository promises otherwise, and `WholeLines` speaks
of the locked case. `OwnOutput` compares the text in the stream with what the usage
asks for, and names the three cases in which the program does something else (see
"Deviations").

### FileInput

`fgrep_io_open` has an action for each system call and for its failure;
`fgrep_io_open_stdin` for `realloc` and `read`, which may return any part of what is
left. `allocated` is what realloc was asked for and `cap` what the code takes for
it: they differ when the loop ends at the limit. The bytes in the buffer are
known by their place in the input. `CloseMapping` and `CloseBuffer` are
`fgrep_io_close`, which the caller runs after the search.

### Bmh

`bmh_search` keeps no state; it is a recursive function over the place the next
`memchr` starts at. `BmhCountsOccurrences` in `FixedScan` compares it with the
occurrences, on all the texts and patterns of the run `fixed_scan`.

## Runs

| run | instance | states | shows |
|---|---|---|---|
| `pool` | 3 threads, 3 items | 16 thousand | safety, the refinement of `TaskQueue`, and that items run and calls return |
| `create_failure` | 3 threads, 1 item | | *violated*: the failure of `create` may end the process |
| `program` | 2 threads, 3 items, 4 kinds of file, 4 command lines | 105 thousand | the whole program with and without a pool; the refinement of `SearchRun`; no deadlock |
| `listed_files` | the same | | *violated*: a listed file may not be searched |
| `fixed_scan` | all texts up to 5 bytes, patterns up to 3, over 3 bytes, vectors of 2 | 788 thousand | counting, naming, printing, buffer; the count of `bmh_search` |
| `last_bytes` | the same | | *violated*: matches after the last vector are not printed |
| `high_bytes` | the same | | *violated*: bytes from 128 on are not counted after the last vector |
| `line_scan` | all texts up to 5 bytes over 4 bytes, widths 3, 2, 1, buffer of 3 | 518 thousand | lines, numbers, limits, summary, newline search |
| `max_count` | the same | | *violated*: `-c -m N` may report N + 1 |
| `file_list` | 8 nodes, 7 trees, paths up to 8 bytes, 2 links, 5 levels | 3.9 thousand | the walk |
| `output` | 2 threads, 4 files with 2, 1, 1 and no lines, 8 sets of options, both searches | 182 thousand | whole lines, each search's output, repeated names, the mutex |
| `file_input` | files and inputs up to 10 bytes, buffers of 2, 4 and 8 | 352 | the buffer, the failures, what is given back |

Why the bounds are enough. Three workers and three items allow two workers in
an item while a third parks, a list of length 0, 1 and 2 or more, and a create that fails
after none, one or two threads. Two threads and three arguments (one of them
empty, two naming the same file) let a worker lag behind the freeing of a list
while the next is being made. A vector of two bytes in a text of five gives no,
one and two chunks and every length of rest; a pattern of three has an inner byte
for `memcmp`. A buffer of 8 is full after one line of some texts and after
several of others, and too small for the longest line with path and number. Widths 3, 2, 1 make the newline search pass through all its
loops; with a stack buffer of 3 some lines need the heap. One tree holds a link to the directory it is in, which can be followed
twice; others hold names that are cut to that of the file beside it, to one that
does not exist, and to nothing, so that the directory is entered again until the
five levels are used up. Four files for two threads let each
print while the other is in the middle of any of its lines or of its summary. A buffer that
doubles twice before its limit, with inputs up to two bytes longer than that, gives
reads that fill it exactly, fall short of it, and leave a rest behind.

Fairness. A thread that can go on does (weak fairness of its steps). A thread
waiting for `work_mutex` gets it if it is free again and again (strong fairness
of the lock): critical sections are a few instructions, and the polling `wait`
sleeps 100 microseconds between two of its own. Nothing is assumed of spurious
wakeups, of failures, of other processes, nor that the pool's client makes a
call. The scans and the walk are single threads, with weak fairness. The threads
that print have weak fairness of their steps and strong fairness of the lock, as
above: a mutex is held for a few calls of stdio.

The violated runs were confirmed on a build of the program where the outcome is
deterministic: `fgrep hello` prints nothing for a file with the single line `hello`;
`-c` with the byte E9 gives 0 for a short file that has it; `-c -m 1` gives 2.

Deviations. Where the code does not do what the usage or the reader expects, a run
shows it violated, or a property or theorem says what the code does instead:

| where | what | stated by |
|---|---|---|
| threadpool.c:87 | a failing `create` joins threads that do not exist | run `create_failure` |
| main.c:187 | paths are freed before they are read | run `listed_files` |
| search.c:143, 169 | matches in the last bytes are not printed | run `last_bytes` |
| search.c:105, 127 | bytes from 128 on are not counted in the last bytes | run `high_bytes` |
| search.c:44 | `-c -m N` prints N + 1 (search by lines) | run `max_count`, `CountIsAtMostOneOver` |
| search.c:94-130 | `-c -m N` ignores `-m` (fixed string), against main.c:32 | theorem `CountIgnoresLimit` |
| search.c:88 | `-c` and `-L` print nothing for a file shorter than the string, against main.c:25, 27 | `OwnOutput` |
| main.c:161 | the count of standard input is printed twice | `OwnOutput` |
| output.c:14 | `-l` names a file for every line (search by lines), against main.c:26 | `OwnOutput`, `NamesRepeated` |
| search.c:188 | a line of more than 64 KiB overruns the output buffer; `FGREP_MAX_LINE_LEN` (fgrep.h:9) is used nowhere | `Overrun`, `BufferHolds` |
| fileutil.c:44-45 | a cut name may stand for another file, or for the directory itself | `EntryPaths`, `YieldsFilesOnce`, `Terminates` |
| fileutil.c:41 | after an error of `readdir` files are missing, with status FGREP_OK | `ReaddirFails`, `YieldsFilesOnce` |
| main.c:176 | files skipped for want of memory are not reported | `SkipFile`, `EveryFileIsTried` |

## Proofs

TLAPS proves, for every value of the constants allowed by their assumptions:

- `WorkPoolProofs`: types, `ListWellFormed`, `ExactlyOnePlace`,
  `NoStrandedWork`, `DestroyCompletes`. None is inductive alone. The invariant
  `IInv` adds who holds the mutex (`MutexInv`: exactly the thread inside a
  critical section), that an item not yet linked is untouched (`FreshInv`) and
  a held one dispatched (`HeldInv`), and what the client's place says of the
  threads (`PhaseInv`: after shutdown none is parked; who has returned saw the
  list empty; joined ones have returned). An item being the number of its
  allocation, the list is an interval, `workHead..workTail`.
- `NobodyIsStuck` in the same module: who waits for the mutex waits for a thread in a
  critical section, and who joins a thread for one that was woken, by `MutexInv` and `PhaseInv`.
- `OnlyFailedCreateCrashes` in the same module: the undefined join that the run
  create_failure shows is out of reach of a client whose `create` succeeded, by
  `FullInv`: such a pool is destroyed with all its threads.
- `PoolImplementsQueue` in the same module: `Spec => Queue!Spec`, each action mapped
  to a step of the queue or to a stutter, from `IInv`.
- `FgrepRunProofs`: a run of the program is a run of the pool (`RunDrivesPool`),
  hence the pool's invariant holds in it; with it `RunInv` is inductive, which
  says inside which call `main` can be at each of its places, that a thread
  searches only while its item runs, and that the queue holds files of the
  current argument only. From it follow `ContextOutlivesSearches` and
  `QueuedPathsLive`.
  The exit code is right (`ExitCodeIsRight`) by `ExitInv`: the sum of the
  matches is 0 as long as no file with a match was searched or the thread
  that has searched one is still to add it (`SumInv`); `PathInv` and `FileInv` say that
  what is searched is a file. When `main` reads the sums, no thread is in a search.
  The sums themselves (`StatsAreSettled`) come from `SettleInv`: each statistic,
  plus what the searches under way are still to add to it, is what the files searched
  come to. `FilesAreTried`, which with a pool is about the number of attempts and not
  about single files, is of the same kind: `TriedInv` says that the files `main`
  has passed were tried or skipped, or wait in the queue, in `main`'s hands or before
  their `open`; `SequentialInv` counts, without a pool, the places passed for each
  file. Both rest on `WalkInv` (where `main` is in the command line) and on
  lemmas about sums over a finite set (`SumOf`), which are proved by taking a
  smallest set that refutes them, as no induction theorem can be used.
  That the program implements `SearchRun` (`RunKeepsPromise`) combines all of these: the
  files that wait are, by `TriedInv`, those passed less those opened or skipped, so that each
  step changes them as the mapped action does; at the end they are none because the pool
  has no threads left; the exit code is that of `ExitInv`. `EarlyInv` adds that nothing
  was searched when standard input is read or the creation of the pool fails.
  That nobody is stuck (`RunGoesOn`) is `NobodyIsStuck` of the pool, with `HaltInv`: a worker
  that runs an item is in a search, which goes on, and `main` does not come back from destroy.
- `FixedScanProofs`: `CountExact` from `CountInv`, which keeps the count equal to
  the cardinality of the occurrences seen so far (`Seen`): within a chunk, those
  whose bit is off again. `NamesTheRightFiles` follows from it and from `SummaryInv`.
  `TypeOK` and `BufferHolds` (`OnlyLongLinesOverrun`) come from `ScanInv`, with
  `RoomAssumption` (a line number and its colon fit the room reserved for it).
  `CountIgnoresLimit` says of the same patterns that `-m` has no part in what `-c` prints. `PrintsMatchesInOrder` comes from `PrintInv`: each printed
  match stands at its own rank among the occurrences (`InOrder`), the count is the
  number of those the scan is past until the limit (`WithinLimit`), and the
  bits left of a chunk are its upper candidates (`UpperBits`). `BmhCounts` is about the
  recursive function `bmh_search`: it is a function that satisfies its own equation, and
  the last place at which its value could differ from the number of ends of occurrences
  that are left leads to a contradiction; a bijection takes the ends to the occurrences.
- `MemchrProofs`, `LineScanProofs`: the newline search finds the first newline
  for every sequence of widths that ends with 1, and line number and position
  stay in step; the lemmas about `Memchr` are used through an instance. What is
  printed and counted comes from `ResultInv`: the count is the rank of the
  current line among the wanted ones, the printed lines are those of ranks 0, 1,
  ... up to the limit. With `-m` the count is therefore never more than one too large
  (`CountIsAtMostOneOver`), which bounds what the run max_count shows. The search of `-F` is a recursive function; that it
  finds a string exactly if it is there (`ScanFinds`) is proved from a
  function that satisfies its equation and the last place at which it could be wrong.
- `FileListProofs`: types, `DirectoriesAreClosed`, `RefusedForAReason`, from the
  frames of the walk: each is a directory the walk came to by the one below it,
  and the directories open are the frames (`DepthInv`, `WalkInv`, `ListInv`).
  That the list is complete (`YieldsFilesOnce`) is the invariant `YieldInv`: the frames
  lie along one path from the argument (`ChainInv`); everything below an entry the walk is
  past is listed (`CoverInv`), unless it was removed, a name was cut or `readdir`
  failed; as long as no name was cut, nothing below an entry still
  ahead is (`FreshInv`), so that no file can be listed again; and what `next` has given
  is the beginning of the list (`GivenInv`). A link to a directory above makes the same
  directory appear at several places of the path, so that the argument is about
  paths and never about nodes; that the walk ends is left to TLC.
- `FileInputProofs`: types, `TakesThePrefix`, `StaysInside`, `NothingLeaks`, from
  `LoopInv`: before each read the buffer is as large as its recorded size and not full.
- `OutputLinesProofs`: types and `WholeLines`. The thread inside a locked record
  holds the mutex (`MutexInv`), what the other search writes are whole lines
  (`BlocksInv`), and only the
  last entry of the stream can be the inside of a line, whose thread then holds
  the mutex and is about to write the next (`TornInv`). `OwnOutput` and `NamesRepeated`
  hold with the mutex and without, by a second invariant: each entry of the stream comes
  from one file that some thread has taken up (`PlaceInv`), what a thread is about to
  write is preceded exactly by what its file is to print before it (`FrontInv`), and the
  entries of one file are in that order (`OrderInv`), whatever is printed between them.

Assumed for a run: the files are finitely many, and the name that stands for no file
(`NoFile`) is neither a file nor standard input.

Every safety property of a passing run is proved, and the type invariants of the modules
whose runs do not check one. Only checked by TLC: liveness (everywhere), which the prover
cannot do, and of course what the violated runs show.

## Not modelled

Option parsing (its outcome is a parameter), text and colours of the output, the
inside of `regcomp` and `regexec`, a file truncated while it is mapped (io.c:19: a
signal the program does not handle), what a program does after it has written past
a buffer or its stack, and `cpu.c`. `kwset_engine.c` is not in `CMakeLists.txt`. `-w` and `-x` set
an option nobody reads. With `-v` the exit code is 1 if a line was selected
(main.c:199); `ExitCodeTellsMatches` is about runs without `-v`. A file shorter than the
pattern returns before the summary (search.c:88): it is in the models
(`SummaryCalls`, `TooShort`), so that `OwnOutput` names the missing line of `-c` or `-L` as an exception;
`NamesTheRightFiles` and `StatsSettled` leave such files out.

`grep-3.11/` is a copy of the sources of GNU grep that the benchmark compares with. Nothing of
it is compiled or linked into this program, and no file under `src/` refers to
it, so that there is no behaviour of this system to model there. It is all but about 1,300 of
the lines of code in the repository; of the program's own code what is listed above
is what is left out.

## Plan

Done, in this order: `TaskQueue`, `WorkPool`, its proofs and refinement;
`FgrepRun` and its proofs; `FixedScan`, `Memchr`, `LineScan` and their proofs;
`FileList`; `OutputLines`, `FileInput` and `Bmh`; the proofs about what is
printed, about the file list, the input, the output, the exit code, the statistics and
the files tried; `SearchRun` and its refinement; the absence of deadlock.

Left: an abstract specification of a search (count and set of lines) that
`FixedScan` and `LineScan` both implement.
