----------------------------- MODULE OutputLines -----------------------------
(***************************************************************************)
(* What several searching threads print to the one stream stdout           *)
(* (src/output.c and its callers in src/search.c).  A call of stdio is     *)
(* atomic, the stream having a lock of its own, but a line is printed by   *)
(* several calls.  They are kept together by output_mutex, which main      *)
(* passes on only with --color or -l (src/main.c:142).  The search for a   *)
(* fixed string writes whole lines, in blocks and without the mutex.       *)
(***************************************************************************)
EXTENDS Integers, Sequences, SequencesExt

CONSTANTS
  Thread,      \* the threads that search
  Free,        \* no thread: the mutex is free
  File,        \* the files, standard input included
  Stdin,
  WorkLists,   \* what may be searched: files in the order of dispatch
  Lines,       \* of each file, the lines to print: what is around the match
  Short,       \* the files shorter than a fixed string
  Options

OptionType ==
  [count_only : BOOLEAN, files_with_matches : BOOLEAN,
   files_without_match : BOOLEAN, line_number : BOOLEAN,
   color : BOOLEAN, isatty : BOOLEAN]

\* Are there bytes before and behind the match?
Shape == [before : BOOLEAN, after : BOOLEAN]

ASSUME OutputAssumption ==
  /\ Free \notin Thread
  /\ WorkLists \subseteq Seq(File)
  /\ Lines \in [File -> Seq(Shape)]
  /\ \A f \in Short : Lines[f] = <<>>
  /\ Options \subseteq OptionType

VARIABLES
  opts,
  byLines,     \* is the search by lines, or for a fixed string?
  work,        \* the file of each search, in the order of dispatch
  taken,       \* how many searches threads have begun
  pc,          \* where each thread is
  search,      \* the search each thread is at, by its place in work
  record,      \* what it prints next of it, see Pieces
  piece,       \* the next call of stdio for it
  mutex,       \* the thread that holds output_mutex
  stream       \* what was written: one entry for each call of stdio

inputs == <<opts, byLines, work>>
vars == <<inputs, taken, pc, search, record, piece, mutex, stream>>

Places == {"idle", "scan", "lock", "print"}

TypeOK ==
  /\ opts \in OptionType
  /\ byLines \in BOOLEAN
  /\ work \in Seq(File)
  /\ taken \in 0..Len(work)
  /\ pc \in [Thread -> Places]
  /\ search \in [Thread -> 0..taken]
  /\ record \in [Thread -> Nat \ {0}]
  /\ piece \in [Thread -> Nat \ {0}]
  /\ mutex \in Thread \cup {Free}
  /\ stream \in Seq([search : 1..taken, record : Nat \ {0}, piece : Nat \ {0}])

Init ==
  /\ opts \in Options
  /\ byLines \in BOOLEAN
  /\ work \in WorkLists
  /\ taken = 0
  /\ pc = [t \in Thread |-> "idle"]
  /\ search = [t \in Thread |-> 0]
  /\ record = [t \in Thread |-> 1]
  /\ piece = [t \in Thread |-> 1]
  /\ mutex = Free
  /\ stream = <<>>
------------------------------------------------------------------------------
(* The calls of stdio *)

If(condition, call) == IF condition THEN <<call>> ELSE <<>>

\* fgrep_output_match.
MatchCalls(shape) ==
  LET colored == opts.color /\ opts.isatty
  IN  IF opts.files_with_matches
        THEN <<"path">>
        ELSE If(colored, "path:") \o If(opts.line_number, "number:")
             \o (IF colored
                   THEN If(shape.before, "before") \o <<"red", "match", "reset">>
                        \o If(shape.after, "after")
                   ELSE <<"line">>)
             \o <<"newline">>

\* Mutant: with -l the search by lines leaves the name to the summary.
PrintsUnlessL ==
  ~opts.count_only /\ ~opts.files_without_match /\ ~opts.files_with_matches

\* Lines are printed at all, with either search.
Prints ==
  /\ ~opts.count_only
  /\ ~opts.files_without_match
  /\ byLines \/ ~opts.files_with_matches

LineCalls(shape) ==
  IF ~Prints THEN <<>> ELSE IF byLines THEN MatchCalls(shape) ELSE <<"whole line">>

\* The search looks into the file: one for a fixed string does not look into a
\* file shorter than that.
Examines(f) == byLines \/ f \notin Short

\* The branches for -c, -l and -L at the end of a search.
SummaryCalls(f) ==
  CASE ~Examines(f) -> <<>>
    [] Examines(f) /\ opts.count_only -> <<"count">>
    [] Examines(f) /\ ~opts.count_only /\ opts.files_with_matches /\ Lines[f] # <<>> -> <<"path">>
    [] Examines(f) /\ ~opts.count_only /\ opts.files_without_match /\ Lines[f] = <<>> -> <<"path">>
    [] OTHER -> <<>>

\* After standard input main prints the count once more.
MainCalls(f) == If(f = Stdin /\ opts.count_only, "count")

\* The records of a file: its lines, the summary, and what main adds.
SummaryRecord(f) == Len(Lines[f]) + 1
MainRecord(f) == Len(Lines[f]) + 2

Calls(f, r) ==
  CASE r = MainRecord(f) -> MainCalls(f)
    [] r = SummaryRecord(f) -> SummaryCalls(f)
    [] r \in DOMAIN Lines[f] -> LineCalls(Lines[f][r])
    [] OTHER -> <<>>

Entry(s, r, p) == [search |-> s, record |-> r, piece |-> p]

\* ctx->output_mutex is not NULL.
Locked == opts.color \/ opts.files_with_matches

\* Mutant: the mutex is taken for the summary only.
GuardsSummary(f, r) == Locked /\ r = SummaryRecord(f)

\* The mutex is taken around the record.
Guards(f, r) == Locked /\ r <= SummaryRecord(f) /\ (byLines \/ r = SummaryRecord(f))
------------------------------------------------------------------------------
(* The threads *)

FileOf(t) == work[search[t]]

\* A thread takes the next file.
Take(t) ==
  /\ pc[t] = "idle"
  /\ taken < Len(work)
  /\ taken' = taken + 1
  /\ search' = [search EXCEPT ![t] = taken + 1]
  /\ record' = [record EXCEPT ![t] = 1]
  /\ pc' = [pc EXCEPT ![t] = "scan"]
  /\ UNCHANGED <<inputs, piece, mutex, stream>>

\* There is something to print of the record: first take the mutex, if need be.
StartRecord(t) ==
  /\ pc[t] = "scan"
  /\ byLines \/ record[t] >= SummaryRecord(FileOf(t))
  /\ Calls(FileOf(t), record[t]) # <<>>
  /\ piece' = [piece EXCEPT ![t] = 1]
  /\ pc' = [pc EXCEPT ![t] = IF Guards(FileOf(t), record[t]) THEN "lock" ELSE "print"]
  /\ UNCHANGED <<inputs, taken, search, record, mutex, stream>>

\* On to the next record, or to the next file after the last.
Advance(t) ==
  /\ record' = [record EXCEPT ![t] = @ + 1]
  /\ pc' = [pc EXCEPT ![t] = IF record[t] = MainRecord(FileOf(t)) THEN "idle" ELSE "scan"]

PassRecord(t) ==
  /\ pc[t] = "scan"
  /\ Calls(FileOf(t), record[t]) = <<>>
  /\ Advance(t)
  /\ UNCHANGED <<inputs, taken, search, piece, mutex, stream>>

\* Mutant: the last line of a block is written again with the next block.
NextAfterRepeating(m) == m

NextAfter(m) == m + 1

\* The output buffer, with any number of lines, is written by one fwrite.
WriteBlock(t) ==
  /\ pc[t] = "scan"
  /\ ~byLines
  /\ Prints
  /\ \E m \in record[t]..Len(Lines[FileOf(t)]) :
       /\ stream' = stream \o [k \in 1..m + 1 - record[t] |->
                                 Entry(search[t], record[t] + k - 1, 1)]
       /\ record' = [record EXCEPT ![t] = NextAfter(m)]
  /\ UNCHANGED <<inputs, taken, pc, search, piece, mutex>>

Lock(t) ==
  /\ pc[t] = "lock"
  /\ mutex = Free
  /\ mutex' = t
  /\ pc' = [pc EXCEPT ![t] = "print"]
  /\ UNCHANGED <<inputs, taken, search, record, piece, stream>>

\* One call of stdio.
Write(t) ==
  /\ pc[t] = "print"
  /\ piece[t] <= Len(Calls(FileOf(t), record[t]))
  /\ stream' = Append(stream, Entry(search[t], record[t], piece[t]))
  /\ piece' = [piece EXCEPT ![t] = @ + 1]
  /\ UNCHANGED <<inputs, taken, pc, search, record, mutex>>

\* Mutant: with -L the branch ends without the unlock.
ReleaseButForL(t) ==
  mutex' = IF Guards(FileOf(t), record[t]) /\ ~opts.files_without_match THEN Free ELSE mutex

Release(t) ==
  mutex' = IF Guards(FileOf(t), record[t]) THEN Free ELSE mutex

\* The record is printed.
Unlock(t) ==
  /\ pc[t] = "print"
  /\ piece[t] > Len(Calls(FileOf(t), record[t]))
  /\ Release(t)
  /\ Advance(t)
  /\ UNCHANGED <<inputs, taken, search, piece, stream>>

Step(t) ==
  Take(t) \/ StartRecord(t) \/ PassRecord(t) \/ WriteBlock(t) \/ Write(t) \/ Unlock(t)

AllDone == taken = Len(work) /\ \A t \in Thread : pc[t] = "idle"

Done ==
  /\ AllDone
  /\ UNCHANGED vars

Next == Done \/ \E t \in Thread : Step(t) \/ Lock(t)

Spec == Init /\ [][Next]_vars

\* Every thread goes on, and a thread waiting for the mutex gets it if it is
\* free again and again.
FairSpec == Spec /\ \A t \in Thread : WF_vars(Step(t)) /\ SF_vars(Lock(t))
------------------------------------------------------------------------------
(* Correctness *)

Closes(e) == e.piece = Len(Calls(work[e.search], e.record))

\* With the mutex no line is torn: what follows the beginning of a line is the
\* rest of the same line, whoever else prints (src/search.c:46-52).
WholeLines ==
  Locked =>
    \A k \in 1..Len(stream) - 1 :
      ~Closes(stream[k]) =>
        stream[k + 1] = Entry(stream[k].search, stream[k].record, stream[k].piece + 1)

Before(d, e) == d.record < e.record \/ (d.record = e.record /\ d.piece < e.piece)

\* The calls by which a search has printed, and what one of them wrote.
PrintedBy(s) == {k \in 1..Len(stream) : stream[k].search = s}
Text(e) == Calls(work[e.search], e.record)[e.piece]

\* Search s has written one of these texts as part of record r.
Says(s, r, texts) ==
  \E k \in PrintedBy(s) : stream[k].record = r /\ Text(stream[k]) \in texts

\* Whatever the threads do to each other, the output of each search is in order
\* and nothing is repeated; at the end no line is broken off, and it is the
\* output the usage asks for (src/main.c:25-31): the lines, or with -l, -L and -c
\* the name if there are any, the name if there are none, or the count.
\* In three cases the code does something else, and so says this property:
\* -c and -L have nothing to say of a file that was not examined (search.c:88);
\* main prints the count of standard input again (main.c:161); and -l alone in
\* the search by lines gives the name for each line as well (output.c:14-18).
OwnOutput ==
  \A s \in 1..Len(work) :
    /\ \A j, k \in PrintedBy(s) : j < k => Before(stream[j], stream[k])
    /\ AllDone =>
         LET f == work[s]
             names == IF Lines[f] # <<>> THEN opts.files_with_matches
                                         ELSE opts.files_without_match
         IN  /\ \A k \in PrintedBy(s) :
                  ~Closes(stream[k]) =>
                    \E j \in PrintedBy(s) :
                      stream[j] = Entry(s, stream[k].record, stream[k].piece + 1)
             /\ \A r \in DOMAIN Lines[f] :
                  /\ Says(s, r, {"line", "whole line", "match"}) <=>
                       /\ ~opts.count_only
                       /\ ~opts.files_with_matches
                       /\ ~opts.files_without_match
                  /\ Says(s, r, {"path"}) <=>
                       /\ byLines
                       /\ opts.files_with_matches
                       /\ ~opts.files_without_match
                       /\ ~opts.count_only
             /\ Says(s, SummaryRecord(f), {"path"}) <=>
                  Examines(f) /\ names /\ ~opts.count_only
             /\ Says(s, SummaryRecord(f), {"count"}) <=> Examines(f) /\ opts.count_only
             /\ Says(s, MainRecord(f), {"count"}) <=> f = Stdin /\ opts.count_only

\* With -l the search by lines names a file once for every line and once more,
\* the search for a fixed string once; a file without a match is not named
\* (src/output.c:14-18, src/search.c:61-64, 203-206).
NamesRepeated ==
  AllDone /\ opts.files_with_matches /\ ~opts.count_only /\ ~opts.files_without_match =>
    \A s \in 1..Len(work) :
      LET lines == Len(Lines[work[s]])
      IN  Cardinality(PrintedBy(s)) =
            IF lines = 0 THEN 0 ELSE IF byLines THEN lines + 1 ELSE 1

\* Every search ends: no thread keeps the mutex.
Terminates == <>AllDone
==============================================================================
