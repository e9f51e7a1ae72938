------------------------------ MODULE FileInput ------------------------------
(***************************************************************************)
(* What a search reads, src/io.c: fgrep_io_open maps a file,               *)
(* fgrep_io_open_stdin collects standard input in a buffer that is doubled *)
(* when it is full, and fgrep_io_close gives back what either holds.  The  *)
(* caller opens, searches and closes (fgrep_search_file in src/search.c,   *)
(* main).                                                                  *)
(***************************************************************************)
EXTENDS Integers, Sequences

CONSTANTS
  InitialCap,   \* the first size of the buffer, 1 << 16
  Limit,        \* its last size, 1 << 20
  MaxInput      \* bound on the length of the input

ASSUME InputAssumption ==
  /\ InitialCap \in Nat \ {0}
  /\ Limit \in Nat
  /\ InitialCap <= Limit
  /\ MaxInput \in Nat

VARIABLES
  source,      \* "file" or "stdin"
  length,      \* the size of the file, or of all that standard input holds
  pc,
  st,          \* the status fgrep_io_open or fgrep_io_open_stdin returns
  fd,          \* is the file's descriptor open?
  mapped,      \* the size of the mapping
  allocated,   \* the size of the buffer on the heap
  cap,         \* what the code takes for that size
  buf,         \* the bytes in the buffer, each known by its place in the input
  failed       \* history: did a read fail?

vars == <<source, length, pc, st, fd, mapped, allocated, cap, buf, failed>>

Places == {"open", "fstat", "mmap", "realloc", "read", "opened", "refused", "closed"}

Statuses == {"FGREP_OK", "FGREP_ERR_NOMEM", "FGREP_ERR_IO"}

TypeOK ==
  /\ source \in {"file", "stdin"}
  /\ length \in 0..MaxInput
  /\ pc \in Places
  /\ st \in Statuses
  /\ fd \in BOOLEAN
  /\ mapped \in Nat
  /\ allocated \in Nat
  /\ cap \in Nat \ {0}
  /\ buf \in Seq(1..MaxInput)
  /\ failed \in BOOLEAN

Init ==
  /\ source \in {"file", "stdin"}
  /\ length \in 0..MaxInput
  /\ pc = IF source = "file" THEN "open" ELSE "realloc"
  /\ st = "FGREP_OK"
  /\ fd = FALSE
  /\ mapped = 0
  /\ allocated = 0
  /\ cap = InitialCap
  /\ buf = <<>>
  /\ failed = FALSE

Goto(from, to) ==
  /\ pc = from
  /\ pc' = to

Refuse(from, status) ==
  /\ Goto(from, "refused")
  /\ st' = status
------------------------------------------------------------------------------
(* fgrep_io_open *)

Open ==
  /\ Goto("open", "fstat")
  /\ fd' = TRUE
  /\ UNCHANGED <<source, length, st, mapped, allocated, cap, buf, failed>>

OpenFails ==
  /\ Refuse("open", "FGREP_ERR_IO")
  /\ UNCHANGED <<source, length, fd, mapped, allocated, cap, buf, failed>>

\* Mutant: an empty file is refused, but left open.
CloseFileNotEmpty == fd' = (length = 0)

CloseFile == fd' = FALSE

Fstat ==
  /\ Goto("fstat", "mmap")
  /\ length > 0
  /\ UNCHANGED <<source, length, st, fd, mapped, allocated, cap, buf, failed>>

\* The size cannot be had, or is 0.
FstatFails ==
  /\ Refuse("fstat", "FGREP_ERR_IO")
  /\ CloseFile
  /\ UNCHANGED <<source, length, mapped, allocated, cap, buf, failed>>

Mmap ==
  /\ Goto("mmap", "opened")
  /\ mapped' = length
  /\ UNCHANGED <<source, length, st, fd, allocated, cap, buf, failed>>

MmapFails ==
  /\ Refuse("mmap", "FGREP_ERR_IO")
  /\ CloseFile
  /\ UNCHANGED <<source, length, mapped, allocated, cap, buf, failed>>
------------------------------------------------------------------------------
(* fgrep_io_open_stdin *)

\* realloc is called before every read, to the same size if the last one
\* left room.
Realloc ==
  /\ Goto("realloc", "read")
  /\ allocated' = cap
  /\ UNCHANGED <<source, length, st, fd, mapped, cap, buf, failed>>

ReallocFails ==
  /\ Refuse("realloc", "FGREP_ERR_NOMEM")
  /\ allocated' = 0
  /\ UNCHANGED <<source, length, fd, mapped, cap, buf, failed>>

\* Mutant: every read starts at the beginning of the buffer.
ReceiveAtStart(n) == buf' = [k \in 1..n |-> Len(buf) + k]

\* The next n bytes go behind those in the buffer.
Receive(n) == buf' = buf \o [k \in 1..n |-> Len(buf) + k]

\* Mutant: the buffer counts as twice as large, but the loop reads on at once.
GrowWithoutRealloc(full) ==
  /\ cap' = IF full THEN 2 * cap ELSE cap
  /\ pc' = IF cap' > Limit THEN "opened" ELSE "read"

\* A full buffer is to be doubled, or is the last that is read.
Grow(full) ==
  /\ cap' = IF full THEN 2 * cap ELSE cap
  /\ pc' = IF cap' > Limit THEN "opened" ELSE "realloc"

\* read returns what there is, or part of it.
Read ==
  /\ pc = "read"
  /\ \E n \in 1..length - Len(buf) :
       /\ n <= cap - Len(buf)
       /\ Receive(n)
       /\ Grow(Len(buf) + n = cap)
  /\ UNCHANGED <<source, length, st, fd, mapped, allocated, failed>>

ReadEnd ==
  /\ Goto("read", "opened")
  /\ Len(buf) = length
  /\ UNCHANGED <<source, length, st, fd, mapped, allocated, cap, buf, failed>>

\* An error, an interruption by a signal included, is taken for the end.
ReadFails ==
  /\ Goto("read", "opened")
  /\ failed' = TRUE
  /\ UNCHANGED <<source, length, st, fd, mapped, allocated, cap, buf>>
------------------------------------------------------------------------------
(* fgrep_io_close, after the search *)

CloseMapping ==
  /\ source = "file"
  /\ Goto("opened", "closed")
  /\ mapped' = 0
  /\ CloseFile
  /\ UNCHANGED <<source, length, st, allocated, cap, buf, failed>>

CloseBuffer ==
  /\ source = "stdin"
  /\ Goto("opened", "closed")
  /\ allocated' = 0
  /\ buf' = <<>>
  /\ UNCHANGED <<source, length, st, fd, mapped, cap, failed>>

Ended == pc \in {"refused", "closed"}

Done ==
  /\ Ended
  /\ UNCHANGED vars

Next ==
  \/ Open \/ OpenFails \/ Fstat \/ FstatFails \/ Mmap \/ MmapFails
  \/ Realloc \/ ReallocFails \/ Read \/ ReadEnd \/ ReadFails
  \/ CloseMapping \/ CloseBuffer
  \/ Done

Spec == Init /\ [][Next]_vars
------------------------------------------------------------------------------
(* Correctness *)

\* Short reads and moves of the buffer leave no gap: what the search is given
\* of standard input is its beginning, and all of it unless a read failed or
\* the buffer is full and twice its size is above the limit (lines 40-51).
TakesThePrefix ==
  source = "stdin" /\ pc \in {"realloc", "read", "opened"} =>
    /\ \A k \in 1..Len(buf) : buf[k] = k
    /\ pc = "opened" => \/ failed
                        \/ Len(buf) = length
                        \/ Len(buf) = allocated /\ 2 * allocated > Limit

\* What is in the buffer, and what the next read may put there, is inside the
\* allocation, although the recorded size is twice the true one when the loop
\* ends at the limit (lines 41-49, 57).
StaysInside ==
  source = "stdin" /\ pc \in {"read", "opened"} =>
    /\ Len(buf) <= allocated
    /\ pc = "read" => cap = allocated /\ Len(buf) < cap /\ cap <= Limit

\* However the call ends, descriptor, mapping and buffer are given back once
\* the caller is through, and only then (lines 14-23, 42, 61-71).
NothingLeaks ==
  /\ Ended => ~fd /\ mapped = 0 /\ allocated = 0
  /\ pc = "opened" => IF source = "file" THEN fd /\ mapped = length ELSE allocated > 0
==============================================================================
