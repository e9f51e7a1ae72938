--------------------------- MODULE FileInputProofs ---------------------------
(***************************************************************************)
(* For buffers and inputs of any size: the search is given the beginning   *)
(* of its input, inside what was allocated for it, and everything is given *)
(* back in the end.                                                        *)
(***************************************************************************)
EXTENDS FileInput, SequenceTheorems, TLAPS

\* A file has a descriptor from open to the last close, and a mapping of its
\* size when it is opened.
FileInv ==
  source = "file" =>
    /\ pc \notin {"realloc", "read"}
    /\ fd <=> pc \in {"fstat", "mmap", "opened"}
    /\ mapped = IF pc = "opened" THEN length ELSE 0
    /\ allocated = 0
    /\ buf = <<>>

\* The buffer for standard input is never full at the head of the loop.
LoopInv ==
  /\ pc \in {"realloc", "read"} => Len(buf) < cap /\ cap <= Limit
  /\ pc = "read" => allocated = cap
  /\ pc = "opened" => /\ allocated > 0
                      /\ Len(buf) <= allocated
                      /\ \/ failed
                         \/ Len(buf) = length
                         \/ Len(buf) = allocated /\ 2 * allocated > Limit
  /\ pc \in {"refused", "closed"} => allocated = 0

StdinInv ==
  source = "stdin" =>
    /\ pc \notin {"open", "fstat", "mmap"}
    /\ ~fd
    /\ mapped = 0
    /\ Len(buf) <= length
    /\ \A k \in 1..Len(buf) : buf[k] = k
    /\ LoopInv

IInv == TypeOK /\ FileInv /\ StdinInv

LEMMA InitInv == Init => IInv
<1> SUFFICES ASSUME Init PROVE IInv
  OBVIOUS
<1>1. buf = <<>> /\ Len(buf) = 0 /\ buf \in Seq(1..MaxInput)
  BY DEF Init
<1>2. TypeOK
  BY <1>1, InputAssumption DEF Init, TypeOK, Places, Statuses
<1>3. FileInv
  BY DEF Init, FileInv
<1>4. StdinInv
  BY <1>1, InputAssumption DEF Init, StdinInv, LoopInv
<1> QED
  BY <1>2, <1>3, <1>4 DEF IInv

\* A read puts the next bytes of the input behind those in the buffer.
LEMMA ReceiveKeepsOrder ==
  ASSUME NEW b \in Seq(1..MaxInput), NEW n \in Nat, NEW len \in 0..MaxInput, MaxInput \in Nat,
         \A k \in 1..Len(b) : b[k] = k, Len(b) + n <= len
  PROVE  LET c == b \o [k \in 1..n |-> Len(b) + k]
         IN  /\ c \in Seq(1..MaxInput)
             /\ Len(c) = Len(b) + n
             /\ \A k \in 1..Len(c) : c[k] = k
<1> DEFINE more == [k \in 1..n |-> Len(b) + k]
<1>1. Len(b) \in Nat
  OBVIOUS
<1>2. more \in [1..n -> 1..MaxInput]
  BY <1>1
<1>3. more \in Seq(1..MaxInput) /\ Len(more) = n /\ \A k \in 1..n : more[k] = Len(b) + k
  BY <1>1, <1>2
<1> HIDE DEF more
<1>4. /\ b \o more \in Seq(1..MaxInput)
      /\ Len(b \o more) = Len(b) + n
      /\ \A k \in 1..Len(b) + n : (b \o more)[k] = IF k <= Len(b) THEN b[k] ELSE more[k - Len(b)]
  BY <1>3, ConcatProperties
<1>5. ASSUME NEW k \in 1..Len(b) + n PROVE (b \o more)[k] = k
  <2>1. CASE k <= Len(b)
    BY <1>1, <1>4, <2>1
  <2>2. CASE ~(k <= Len(b))
    <3>1. k - Len(b) \in 1..n
      BY <1>1, <2>2
    <3>2. more[k - Len(b)] = Len(b) + (k - Len(b))
      BY <1>3, <3>1
    <3> QED
      BY <1>1, <1>4, <2>2, <3>2
  <2> QED
    BY <2>1, <2>2
<1> QED
  BY <1>4, <1>5 DEF more

\* The loop of fgrep_io_open_stdin: one read.
LEMMA ReadKept ==
  ASSUME InputAssumption, IInv, Read
  PROVE  IInv'
<1>1. PICK n \in 1..length - Len(buf) :
        n <= cap - Len(buf) /\ Receive(n) /\ Grow(Len(buf) + n = cap)
  BY DEF Read
<1>2. pc = "read" /\ UNCHANGED <<source, length, st, fd, mapped, allocated, failed>>
  BY DEF Read
<1>3. source = "stdin"
  BY <1>2 DEF IInv, TypeOK, FileInv
<1>4. /\ Len(buf) \in Nat /\ length \in Nat /\ n \in Nat /\ cap \in Nat \ {0}
      /\ Limit \in Nat /\ length <= MaxInput
  BY <1>1, InputAssumption DEF IInv, TypeOK
<1>5. /\ buf' \in Seq(1..MaxInput)
      /\ Len(buf') = Len(buf) + n
      /\ \A k \in 1..Len(buf') : buf'[k] = k
  <2>1. \A k \in 1..Len(buf) : buf[k] = k
    BY <1>3 DEF IInv, StdinInv
  <2>2. Len(buf) + n <= length
    BY <1>1, <1>4
  <2>3. buf' = buf \o [k \in 1..n |-> Len(buf) + k]
    BY <1>1 DEF Receive
  <2>4. buf \in Seq(1..MaxInput) /\ length \in 0..MaxInput /\ MaxInput \in Nat
    BY InputAssumption DEF IInv, TypeOK
  <2> QED
    BY <1>4, <2>1, <2>2, <2>3, <2>4, ReceiveKeepsOrder
<1>6. /\ Len(buf) < cap /\ cap <= Limit /\ allocated = cap
  BY <1>2, <1>3 DEF IInv, StdinInv, LoopInv
<1>7. /\ cap' = IF Len(buf) + n = cap THEN 2 * cap ELSE cap
      /\ pc' = IF cap' > Limit THEN "opened" ELSE "realloc"
  BY <1>1 DEF Grow
<1>8. TypeOK'
  BY <1>2, <1>4, <1>5, <1>7 DEF IInv, TypeOK, Places
<1>9. LoopInv'
  <2>1. CASE cap' > Limit
    <3>1. cap' = 2 * cap /\ Len(buf') = cap
      BY <1>4, <1>5, <1>6, <1>7, <2>1
    <3>2. allocated' > 0 /\ Len(buf') = allocated' /\ 2 * allocated' > Limit
      BY <1>2, <1>4, <1>6, <2>1, <3>1
    <3> QED
      BY <1>2, <1>7, <2>1, <3>2 DEF LoopInv
  <2>2. CASE ~(cap' > Limit)
    <3>1. Len(buf') < cap' /\ cap' <= Limit
      BY <1>1, <1>4, <1>5, <1>6, <1>7, <2>2
    <3> QED
      BY <1>2, <1>7, <2>2, <3>1 DEF LoopInv
  <2> QED
    BY <2>1, <2>2
<1>10. StdinInv'
  <2>1. Len(buf') <= length'
    BY <1>1, <1>2, <1>4, <1>5
  <2>2. ~fd' /\ mapped' = 0 /\ pc' \notin {"open", "fstat", "mmap"}
    BY <1>2, <1>3, <1>7 DEF IInv, StdinInv
  <2> QED
    BY <1>5, <1>9, <2>1, <2>2 DEF StdinInv
<1> QED
  BY <1>2, <1>3, <1>8, <1>10 DEF IInv, FileInv

\* The buffer is given back.
LEMMA CloseBufferKept ==
  ASSUME IInv, CloseBuffer
  PROVE  IInv'
<1>1. Len(buf') = 0 /\ buf' = <<>> /\ buf' \in Seq(1..MaxInput)
  BY DEF CloseBuffer
<1>2. TypeOK'
  BY <1>1 DEF IInv, TypeOK, CloseBuffer, Goto, Places
<1>3. StdinInv'
  BY <1>1 DEF IInv, TypeOK, StdinInv, LoopInv, CloseBuffer, Goto
<1> QED
  BY <1>2, <1>3 DEF IInv, FileInv, CloseBuffer

LEMMA InvKept ==
  ASSUME InputAssumption, IInv, [Next]_vars
  PROVE  IInv'
<1> USE DEF IInv, TypeOK, FileInv, StdinInv, LoopInv, Goto, Refuse, CloseFile, Places,
      Statuses, InputAssumption
<1>1. CASE Open
  BY <1>1 DEF Open
<1>2. CASE OpenFails
  BY <1>2 DEF OpenFails
<1>3. CASE Fstat
  BY <1>3 DEF Fstat
<1>4. CASE FstatFails
  BY <1>4 DEF FstatFails
<1>5. CASE Mmap
  BY <1>5 DEF Mmap
<1>6. CASE MmapFails
  BY <1>6 DEF MmapFails
<1>7. CASE Realloc
  BY <1>7 DEF Realloc
<1>8. CASE ReallocFails
  BY <1>8 DEF ReallocFails
<1>9. CASE ReadEnd
  BY <1>9 DEF ReadEnd
<1>10. CASE ReadFails
  BY <1>10 DEF ReadFails
<1>11. CASE CloseMapping
  BY <1>11 DEF CloseMapping
<1>12. CASE Done \/ UNCHANGED vars
  BY <1>12 DEF Done, vars
<1> QED
  BY <1>1, <1>2, <1>3, <1>4, <1>5, <1>6, <1>7, <1>8, <1>9, <1>10, <1>11, <1>12,
     ReadKept, CloseBufferKept DEF Next

LEMMA Invariant == Spec => []IInv
<1>1. Init => IInv
  BY InitInv
<1>2. IInv /\ [Next]_vars => IInv'
  BY InvKept, InputAssumption
<1> QED
  BY <1>1, <1>2, PTL DEF Spec

\* Every state is well typed.
THEOREM TypeCorrect == Spec => []TypeOK
<1>1. IInv => TypeOK
  BY DEF IInv
<1> QED
  BY <1>1, Invariant, PTL

\* Whatever short reads the input comes in, and wherever the buffer stops
\* growing, the search is given the beginning of the input (src/io.c:40-51).
THEOREM InputIsPrefix == Spec => []TakesThePrefix
<1>1. IInv => TakesThePrefix
  BY DEF IInv, StdinInv, LoopInv, TakesThePrefix
<1> QED
  BY <1>1, Invariant, PTL

\* No read goes behind the allocation, and the search stays inside it, although
\* the recorded size may be twice the true one (src/io.c:41-57).
THEOREM BufferIsLargeEnough == Spec => []StaysInside
<1>1. IInv => StaysInside
  BY DEF IInv, TypeOK, StdinInv, LoopInv, StaysInside
<1> QED
  BY <1>1, Invariant, PTL

\* On every path the descriptor, the mapping and the buffer are given back, and
\* kept as long as the search needs them (src/io.c:14-23, 42, 61-71).
THEOREM EverythingIsClosed == Spec => []NothingLeaks
<1>1. IInv => NothingLeaks
  BY DEF IInv, TypeOK, FileInv, StdinInv, LoopInv, NothingLeaks, Ended
<1> QED
  BY <1>1, Invariant, PTL
==============================================================================
