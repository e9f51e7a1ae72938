------------------------------ MODULE FixedScan ------------------------------
(***************************************************************************)
(* The search of one file for a fixed string: search_data in src/search.c  *)
(* (lines 79-220) when the pattern is no regular expression and neither -i *)
(* nor -v is given.  The text is read in chunks of Lanes bytes: one vector *)
(* comparison gives the candidate positions of a chunk, which are verified *)
(* from the lowest up.  With -c, -l or -L the matches are counted, and a   *)
(* loop over single bytes finishes the text; else the line around every    *)
(* match goes to an output buffer, which is flushed when it is full.  The  *)
(* text is not bounded by that buffer: a line may be longer than it.       *)
(***************************************************************************)
EXTENDS Integers, Sequences, FiniteSets

\* The other search for a fixed string, measured by the same occurrences.
Search == INSTANCE Bmh

CONSTANTS
  Byte,         \* the bytes a text or a pattern consists of
  Newline,      \* the byte that ends a line
  High,         \* the bytes above 127, negative as char
  Lanes,        \* the bytes of a vector, 32 in the code
  MaxLen,       \* bound on the length of the text
  MaxNeedle,    \* bound on the length of the pattern
  Options,      \* the combinations of options of interest
  PathLen,      \* the length of the file's path
  LineNoRoom,   \* the room reserved for a line number, 24 in the code
  BufSize       \* OUTPUT_BUF_SIZE

OptionType ==
  [count_only : BOOLEAN, files_with_matches : BOOLEAN,
   files_without_match : BOOLEAN, line_number : BOOLEAN, max_count : Nat]

\* The decimal digits of a line number.
Digits(n) == CHOOSE d \in 1..20 : 10^(d - 1) <= n /\ n < 10^d

ASSUME ScanAssumption ==
  /\ Newline \in Byte
  /\ High \subseteq Byte \ {Newline}
  /\ Lanes \in Nat \ {0}
  /\ MaxLen \in Nat
  /\ MaxNeedle \in Nat
  /\ Options \subseteq OptionType
  /\ PathLen \in Nat
  /\ LineNoRoom \in Nat
  /\ BufSize \in Nat

\* The digits of a line number and a colon have room.
ASSUME RoomAssumption ==
  \A n \in 1..MaxLen + 1 : Digits(n) \in 1..LineNoRoom - 1

VARIABLES
  data, len,      \* the text
  needle, nlen,   \* the pattern
  opts,           \* the options
  pc,             \* where the search is
  pos,            \* the position of the current chunk or byte
  mask,           \* the candidates of the chunk that are left
  count,          \* the matches so far
  outbuf,         \* the matches whose lines are in the output buffer
  outpos,         \* the fill level of the output buffer
  written,        \* the matches whose lines were written out
  summary         \* which of the lines of -c, -l, -L was printed at the end

inputs == <<data, len, needle, nlen, opts>>
output == <<outbuf, outpos, written>>
vars == <<inputs, pc, pos, mask, count, output, summary>>

Places ==
  {"start", "chunk", "bits", "tail", "flush", "summary", "done", "crashed"}

TypeOK ==
  /\ len \in 0..MaxLen
  /\ data \in [0..len - 1 -> Byte]
  /\ nlen \in 0..MaxNeedle
  /\ needle \in [0..nlen - 1 -> Byte]
  /\ opts \in Options
  /\ pc \in Places
  /\ pos \in 0..len
  /\ mask \subseteq 0..Lanes - 1
  /\ count \in 0..len
  /\ outbuf \in Seq(0..MaxLen)
  /\ outpos \in Nat
  /\ written \in Seq(0..MaxLen)
  /\ summary \in {"none", "count", "match", "no_match"}

Init ==
  /\ len \in 0..MaxLen
  /\ data \in [0..len - 1 -> Byte]
  /\ nlen \in 0..MaxNeedle
  /\ needle \in [0..nlen - 1 -> Byte]
  /\ opts \in Options
  /\ pc = "start"
  /\ pos = 0
  /\ mask = {}
  /\ count = 0
  /\ outbuf = <<>>
  /\ outpos = 0
  /\ written = <<>>
  /\ summary = "none"

Goto(from, to) ==
  /\ pc = from
  /\ pc' = to

\* The branch of lines 94-130, which prints no lines.
Counting ==
  opts.count_only \/ opts.files_with_matches \/ opts.files_without_match
------------------------------------------------------------------------------
(* Chunks *)

\* An empty pattern, or one longer than the text: nothing is done at all.
TooShort ==
  /\ nlen = 0 \/ nlen > len
  /\ Goto("start", "done")
  /\ UNCHANGED <<inputs, pos, mask, count, output, summary>>

Begin ==
  /\ nlen > 0
  /\ nlen <= len
  /\ Goto("start", "chunk")
  /\ UNCHANGED <<inputs, pos, mask, count, output, summary>>

\* Another whole chunk fits, its last candidate included.
ChunkFits == pos + Lanes <= len - nlen + 1

\* The bits at which both the first and the last byte of the pattern agree.
Candidates ==
  {b \in 0..Lanes - 1 :
     data[pos + b] = needle[0] /\ data[pos + b + nlen - 1] = needle[nlen - 1]}

LoadChunk ==
  /\ ChunkFits
  /\ Goto("chunk", "bits")
  /\ mask' = Candidates
  /\ UNCHANGED <<inputs, pos, count, output, summary>>

\* The bit __builtin_ctz finds, and the position it stands for.
Lowest == CHOOSE b \in mask : \A c \in mask : b <= c
Position == pos + Lowest

\* Mutant: the bit stays set.
DropNothing == UNCHANGED mask

DropLowest == mask' = mask \ {Lowest}

\* The bytes between the first and the last one agree as well.
Verified(p) == \A j \in 1..nlen - 2 : data[p + j] = needle[j]

AtBit ==
  /\ pc = "bits"
  /\ mask # {}

Reject ==
  /\ AtBit
  /\ ~Verified(Position)
  /\ DropLowest
  /\ UNCHANGED <<inputs, pc, pos, count, output, summary>>

CountMatch ==
  /\ AtBit
  /\ Counting
  /\ Verified(Position)
  /\ count' = count + 1
  /\ DropLowest
  /\ UNCHANGED <<inputs, pc, pos, output, summary>>

\* Mutant: the limit is reached one match late.
LimitReachedLate == opts.max_count > 0 /\ count > opts.max_count

\* The next match is one too many for -m.
LimitReached == opts.max_count > 0 /\ count >= opts.max_count

\* The match is counted and the rest of the chunk, but not of the text, is
\* left out.
StopChunk ==
  /\ AtBit
  /\ ~Counting
  /\ Verified(Position)
  /\ LimitReached
  /\ count' = count + 1
  /\ mask' = {}
  /\ UNCHANGED <<inputs, pc, pos, output, summary>>

\* find_line_start, find_line_end and count_lines_to.
LineStart(p) ==
  CHOOSE s \in 0..p :
    /\ s = 0 \/ data[s - 1] = Newline
    /\ \A i \in s..p - 1 : data[i] # Newline

LineEnd(p) ==
  CHOOSE e \in p..len :
    /\ e = len \/ data[e] = Newline
    /\ \A i \in p..e - 1 : data[i] # Newline

LineNo(p) == 1 + Cardinality({i \in 0..p - 1 : data[i] = Newline})

LineLen(p) == LineEnd(p + nlen) - LineStart(p)

\* What a line is said to need in the buffer, and what it takes.
Needed(p) ==
  PathLen + (IF opts.line_number THEN LineNoRoom ELSE 0) + LineLen(p) + 2

Taken(p) ==
  PathLen + 1 + LineLen(p) + 1
  + IF opts.line_number THEN Digits(LineNo(LineStart(p))) + 1 ELSE 0

\* Mutant: the newline and the colon are not allowed for.
FullWithoutSeparators(p) == outpos + Needed(p) - 2 > BufSize

Full(p) == outpos + Needed(p) > BufSize

\* The buffer is written out.
FlushBuffer == written' = written \o outbuf

\* The line around the match goes to the buffer.
PrintMatch ==
  /\ AtBit
  /\ ~Counting
  /\ Verified(Position)
  /\ ~LimitReached
  /\ count' = count + 1
  /\ IF Full(Position)
       THEN /\ FlushBuffer
            /\ outbuf' = <<Position>>
            /\ outpos' = Taken(Position)
       ELSE /\ outbuf' = Append(outbuf, Position)
            /\ outpos' = outpos + Taken(Position)
            /\ UNCHANGED written
  /\ DropLowest
  /\ UNCHANGED <<inputs, pc, pos, summary>>

\* A line longer than the whole buffer is copied past its end, flushed or not:
\* PrintMatch if the bytes behind the buffer go unmissed, and else the end of
\* the process.
Overrun ==
  /\ AtBit
  /\ ~Counting
  /\ Verified(Position)
  /\ ~LimitReached
  /\ Taken(Position) > BufSize
  /\ pc' = "crashed"
  /\ UNCHANGED <<inputs, pos, mask, count, output, summary>>

ChunkDone ==
  /\ mask = {}
  /\ Goto("bits", "chunk")
  /\ pos' = pos + Lanes
  /\ UNCHANGED <<inputs, mask, count, output, summary>>

\* No chunk fits any more.  Only the counting branch looks at the rest.
LastChunkDone ==
  /\ ~ChunkFits
  /\ Goto("chunk", IF Counting THEN "tail" ELSE "flush")
  /\ UNCHANGED <<inputs, pos, mask, count, output, summary>>
------------------------------------------------------------------------------
(* The rest of the text, and the end *)

\* A char compared with an unsigned char: a byte above 127 is negative and
\* differs from every unsigned value, its own included.
EqualsUnsigned(c, u) == c = u /\ c \notin High

TailMatch ==
  /\ EqualsUnsigned(data[pos], needle[0])
  /\ EqualsUnsigned(data[pos + nlen - 1], needle[nlen - 1])
  /\ Verified(pos)

\* Mutant: the loop stops one position early.
TailLeftExclusive == pos + nlen < len

TailLeft == pos + nlen <= len

\* Mutant: the position is advanced behind a match only.
TailStepAfterMatch == pos' = IF TailMatch THEN pos + 1 ELSE pos

TailStep == pos' = pos + 1

TailByte ==
  /\ pc = "tail"
  /\ TailLeft
  /\ count' = IF TailMatch THEN count + 1 ELSE count
  /\ TailStep
  /\ UNCHANGED <<inputs, pc, mask, output, summary>>

TailDone ==
  /\ ~TailLeft
  /\ Goto("tail", "summary")
  /\ UNCHANGED <<inputs, pos, mask, count, output, summary>>

Flush ==
  /\ Goto("flush", "summary")
  /\ FlushBuffer
  /\ outbuf' = <<>>
  /\ outpos' = 0
  /\ UNCHANGED <<inputs, pos, mask, count, summary>>

\* Mutant: the test of -L is the wrong way round, and -l has no branch.
SummaryOfSwapped(n) ==
  CASE opts.count_only -> "count"
    [] ~opts.count_only /\ opts.files_without_match /\ n > 0 -> "no_match"
    [] OTHER -> "none"

SummaryOf(n) ==
  CASE opts.count_only -> "count"
    [] ~opts.count_only /\ opts.files_with_matches /\ n > 0 -> "match"
    [] ~opts.count_only /\ opts.files_without_match /\ n = 0 -> "no_match"
    [] OTHER -> "none"

Summary ==
  /\ Goto("summary", "done")
  /\ summary' = SummaryOf(count)
  /\ UNCHANGED <<inputs, pos, mask, count, output>>

Done ==
  /\ pc \in {"done", "crashed"}
  /\ UNCHANGED vars

Next ==
  \/ TooShort \/ Begin
  \/ LoadChunk \/ Reject \/ CountMatch \/ StopChunk \/ PrintMatch \/ Overrun
  \/ ChunkDone \/ LastChunkDone
  \/ TailByte \/ TailDone \/ Flush \/ Summary
  \/ Done

Spec == Init /\ [][Next]_vars

\* The thread that searches goes on.
FairSpec == Spec /\ WF_vars(Next)
------------------------------------------------------------------------------
(* Correctness *)

\* The definition the loops are measured by: the positions at which the
\* pattern occurs, overlapping ones included.
OccursAt(p) == \A j \in 0..nlen - 1 : data[p + j] = needle[j]

Occurrences == {p \in 0..len - nlen : OccursAt(p)}

\* The first and the last byte of the pattern are below 128.
PlainEnds == nlen > 0 => needle[0] \notin High /\ needle[nlen - 1] \notin High

\* The matches whose lines were printed so far, in the order of printing.
Printed == written \o outbuf

\* The positions the scan is past.
ScannedTo ==
  CASE pc = "bits" /\ mask # {} -> Position
    [] pc = "bits" /\ mask = {} -> pos + Lanes
    [] OTHER -> pos

\* With -c, -l or -L the vector loop and the loop over the last bytes count
\* every occurrence once, wherever it lies with respect to the chunks
\* (lines 99-105 and 112-129).  Nothing is claimed of -m: this branch never
\* looks at it, against "Stop after NUM matches per file" (src/main.c:32).
CountExact ==
  pc = "done" /\ Counting /\ opts.max_count = 0 /\ nlen > 0 /\ PlainEnds =>
    count = Cardinality(Occurrences)

\* -l names a file that was searched exactly if the pattern occurs in it, and
\* -L exactly if it does not (lines 203-210).
NamesTheRightFiles ==
  pc = "done" /\ 0 < nlen /\ nlen <= len /\ PlainEnds /\ ~opts.count_only =>
    /\ opts.files_with_matches => (summary = "match" <=> Occurrences # {})
    /\ opts.files_without_match => (summary = "no_match" <=> Occurrences = {})

\* Whatever the chunks and the flushes: what was printed are the matches the
\* scan is past, in their order and without repetition, and with -m only the
\* first of them (lines 140-196).
PrintsMatchesInOrder ==
  ~Counting /\ nlen > 0 /\ pc # "crashed" =>
    LET passed == {p \in Occurrences : p < ScannedTo}
        wanted == IF opts.max_count = 0 \/ Cardinality(passed) <= opts.max_count
                    THEN Cardinality(passed)
                    ELSE opts.max_count
    IN  /\ Len(Printed) = wanted
        /\ \A i \in 1..wanted :
             /\ Printed[i] \in passed
             /\ Cardinality({p \in passed : p < Printed[i]}) = i - 1

\* The estimate that decides on a flush is never below what a line takes: no
\* line is added to others it has no room behind, and past the end of the
\* buffer goes only a line that is too long for an empty one, which nothing
\* tests for (lines 154-159, 184-189).
BufferHolds ==
  outpos > BufSize => Len(outbuf) = 1 /\ Taken(outbuf[1]) > BufSize

\* bmh_search, started behind the first place a whole pattern fits at and led
\* from last byte to last byte, counts every occurrence once, overlapping ones
\* included (src/bmh_simd.c:14-46).
BmhCountsOccurrences ==
  pc = "start" /\ nlen > 0 =>
    Search!bmh_search(data, len, needle, nlen) = Cardinality(Occurrences)

\* The search ends, also when -m breaks off in the middle of a chunk.
Terminates == <>(pc \in {"done", "crashed"})

\* "Search for PATTERN in files." (src/main.c:18): without -m every
\* occurrence makes its line appear.
EveryMatchIsPrinted ==
  pc = "done" /\ ~Counting /\ nlen > 0 /\ opts.max_count = 0 =>
    \A p \in Occurrences : \E i \in 1..Len(written) : written[i] = p

\* "Print match count per file" (src/main.c:25): the count is that of the
\* matches, whatever bytes the pattern has.
CountsEveryMatch ==
  pc = "done" /\ opts.count_only /\ nlen > 0 /\ summary = "count" =>
    count = Cardinality(Occurrences)
==============================================================================
