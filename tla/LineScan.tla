------------------------------- MODULE LineScan -------------------------------
(***************************************************************************)
(* The line by line search of src/search.c (search_regex_impl, lines       *)
(* 28-77), taken for a regular expression, for -i and for -v.  Each line   *)
(* is cut off at the next newline (found by module Memchr), matched on its *)
(* own by fgrep_pattern_match (src/regex_engine.c) and printed if it is    *)
(* selected; at the end come the lines of -c, -l and -L.                   *)
(***************************************************************************)
EXTENDS Integers, Sequences, FiniteSetsExt

CONSTANTS
  Byte,        \* the bytes of a text
  Newline,     \* the byte that ends a line
  Nul,         \* the byte 0, at which regexec stops reading
  MaxLen,      \* bound on the length of the text
  Matching,    \* what regexec accepts: a set of sequences of bytes
  Needles,     \* fixed strings, for -F together with -i or -v
  StackBuf,    \* STACK_BUF_SIZE
  Options,     \* the combinations of options of interest
  Widths,      \* see Memchr
  NotFound

OptionType ==
  [count_only : BOOLEAN, files_with_matches : BOOLEAN,
   files_without_match : BOOLEAN, invert_match : BOOLEAN, max_count : Nat]

ASSUME LineAssumption ==
  /\ Newline \in Byte
  /\ Nul # Newline
  /\ MaxLen \in Nat
  /\ Matching \subseteq Seq(Byte \ {Newline})
  /\ Needles \subseteq Seq(Byte)
  /\ StackBuf \in Nat
  /\ Options \subseteq OptionType

VARIABLES
  data, len,     \* the text
  pattern,       \* the compiled pattern: a regular expression or a fixed string
  opts,          \* the options
  pc,            \* where the search is
  pos,           \* the start of the current line
  lineNo,        \* its number
  count,         \* the number of selected lines so far
  printed,       \* the lines handed to fgrep_output_match
  summary,       \* which of the lines of -c, -l, -L was printed at the end
  exhausted      \* history: was there no memory to match some line?

\* The state of the search for the end of the line, see Memchr.
VARIABLES loop, i, result, busy

inputs == <<data, len, pattern, opts>>
finding == <<loop, i, result, busy>>
vars == <<inputs, pc, pos, lineNo, count, printed, summary, exhausted, finding>>

Find == INSTANCE Memchr WITH
  bytes <- [j \in 0..len - pos - 1 |-> data[pos + j]],
  n <- len - pos,
  wanted <- Newline

ASSUME WidthAssumption == Find!WidthsEndWithOne

Places == {"start", "find", "match", "summary", "done"}

\* fgrep_pattern_compile: a regular expression has no fixed string.
Patterns ==
  {[is_regex |-> TRUE, fixed_str |-> <<>>]}
  \cup {[is_regex |-> FALSE, fixed_str |-> s] : s \in Needles}

\* What is handed to fgrep_output_match of a line.
Line == [no : 1..MaxLen + 1, first : 0..MaxLen, end : 0..MaxLen]

TypeOK ==
  /\ len \in 0..MaxLen
  /\ data \in [0..len - 1 -> Byte]
  /\ pattern \in Patterns
  /\ opts \in Options
  /\ pc \in Places
  /\ pos \in 0..len
  /\ lineNo \in 1..len + 1
  /\ count \in 0..len
  /\ printed \in Seq(Line)
  /\ summary \in {"none", "count", "match", "no_match"}
  /\ exhausted \in BOOLEAN
  /\ loop \in 1..Len(Widths)
  /\ i \in 0..len
  /\ result \in 0..len \cup {NotFound}
  /\ busy \in BOOLEAN

Init ==
  /\ len \in 0..MaxLen
  /\ data \in [0..len - 1 -> Byte]
  /\ pattern \in Patterns
  /\ opts \in Options
  /\ pc = "start"
  /\ pos = 0
  /\ lineNo = 1
  /\ count = 0
  /\ printed = <<>>
  /\ summary = "none"
  /\ exhausted = FALSE
  /\ loop = 1
  /\ i = 0
  /\ result = NotFound
  /\ busy = FALSE
------------------------------------------------------------------------------
(* fgrep_pattern_match *)

\* The text from s up to e, as a sequence.
Slice(s, e) == [j \in 1..e - s |-> data[s + j - 1]]

\* A line as regexec sees it: up to the first byte 0.
UpToNul(s, e) ==
  Slice(s, Min({e} \cup {k \in s..e - 1 : data[k] = Nul}))

\* fixed_string_insensitive_match: from one place of the first byte, which
\* memchr finds, to the next.  Despite its name it compares the bytes as they
\* are.
ContainsFixed(s, e) ==
  LET str == pattern.fixed_str
      firsts(k) == {m \in k..e - 1 : data[m] = str[1]}
      from[k \in s..e + 1] ==
        /\ k + Len(str) <= e
        /\ firsts(k) # {}
        /\ LET m == Min(firsts(k))
           IN  /\ m + Len(str) <= e
               /\ Slice(m, m + Len(str)) = str \/ from[m + 1]
  IN  Len(str) > 0 /\ Len(str) <= e - s /\ from[s]

\* fgrep_pattern_match, but for the case that memory runs out.
PatternMatch(s, e) ==
  IF pattern.is_regex THEN UpToNul(s, e) \in Matching ELSE ContainsFixed(s, e)

\* A line too long for the buffer on the stack is copied to the heap, for
\* which there may be no memory.
NeedsHeap(s, e) == pattern.is_regex /\ e - s >= StackBuf
------------------------------------------------------------------------------
(* search_regex_impl *)

\* The loop condition, and the call of simd_find_newline.
NextLine ==
  /\ pc = "start"
  /\ pos < len
  /\ pc' = "find"
  /\ Find!Call
  /\ UNCHANGED <<inputs, pos, lineNo, count, printed, summary, exhausted>>

FindNewline ==
  /\ pc = "find"
  /\ UNCHANGED <<pc, inputs, pos, lineNo, count, printed, summary, exhausted>>
  /\ Find!Next

Found ==
  /\ pc = "find"
  /\ ~busy
  /\ pc' = "match"
  /\ UNCHANGED <<inputs, pos, lineNo, count, printed, summary, exhausted, finding>>

\* Where the line ends: at the newline or at the end of the text.
LineEnd == IF result = NotFound THEN len ELSE pos + result

\* Mutant: the line number is advanced only with -n.
AdvanceUnnumbered ==
  IF result = NotFound
    THEN pc' = "summary" /\ UNCHANGED <<pos, lineNo>>
    ELSE pc' = "start" /\ pos' = LineEnd + 1 /\ UNCHANGED lineNo

\* On to the next line, or out of the loop after the last.
Advance ==
  IF result = NotFound
    THEN pc' = "summary" /\ UNCHANGED <<pos, lineNo>>
    ELSE pc' = "start" /\ pos' = LineEnd + 1 /\ lineNo' = lineNo + 1

\* Mutant: the limit counts one line more.
OverLimitLate(k) == opts.max_count > 0 /\ k > opts.max_count + 1

\* The line just counted is one more than -m allows.
OverLimit(k) == opts.max_count > 0 /\ k > opts.max_count

Prints == ~opts.count_only /\ ~opts.files_without_match

\* The line was matched with the given outcome.  A line that could not be
\* matched for want of memory counts as one without a match.
Matched(outcome) ==
  IF outcome = opts.invert_match
    THEN /\ Advance
         /\ UNCHANGED <<count, printed>>
    ELSE /\ count' = count + 1
         /\ IF OverLimit(count')
              THEN /\ pc' = "summary"
                   /\ UNCHANGED <<pos, lineNo, printed>>
              ELSE /\ Advance
                   /\ printed' = IF Prints
                        THEN Append(printed, [no |-> lineNo, first |-> pos, end |-> LineEnd])
                        ELSE printed

MatchLine ==
  /\ pc = "match"
  /\ Matched(PatternMatch(pos, LineEnd))
  /\ UNCHANGED <<inputs, summary, exhausted, finding>>

NoMemory ==
  /\ pc = "match"
  /\ NeedsHeap(pos, LineEnd)
  /\ Matched(FALSE)
  /\ exhausted' = TRUE
  /\ UNCHANGED <<inputs, summary, finding>>

\* The text ends, after a newline or because it is empty.
TextDone ==
  /\ pc = "start"
  /\ pos >= len
  /\ pc' = "summary"
  /\ UNCHANGED <<inputs, pos, lineNo, count, printed, summary, exhausted, finding>>

\* Mutant: there is no branch for -l.
SummaryOfUnnamed(k) ==
  CASE opts.count_only -> "count"
    [] ~opts.count_only /\ opts.files_without_match /\ k = 0 -> "no_match"
    [] OTHER -> "none"

SummaryOf(k) ==
  CASE opts.count_only -> "count"
    [] ~opts.count_only /\ opts.files_with_matches /\ k > 0 -> "match"
    [] ~opts.count_only /\ opts.files_without_match /\ k = 0 -> "no_match"
    [] OTHER -> "none"

Summary ==
  /\ pc = "summary"
  /\ pc' = "done"
  /\ summary' = SummaryOf(count)
  /\ UNCHANGED <<inputs, pos, lineNo, count, printed, exhausted, finding>>

Done ==
  /\ pc = "done"
  /\ UNCHANGED vars

Next ==
  \/ NextLine \/ FindNewline \/ Found \/ MatchLine \/ NoMemory \/ TextDone
  \/ Summary \/ Done

Spec == Init /\ [][Next]_vars

\* The thread that searches goes on.
FairSpec == Spec /\ WF_vars(Next)
------------------------------------------------------------------------------
(* Correctness *)

\* The definition the loop is measured by: a line starts at the start of the
\* text and after every newline but a final one, and ends before the next.
Starts == {s \in 0..len - 1 : s = 0 \/ data[s - 1] = Newline}
EndOf(s) == Min({len} \cup {k \in s..len - 1 : data[k] = Newline})
NumberOf(s) == 1 + Cardinality({k \in 0..s - 1 : data[k] = Newline})

\* A line matches if regexec accepts it, or if the fixed string is in it.
Matches(s) ==
  IF pattern.is_regex
    THEN UpToNul(s, EndOf(s)) \in Matching
    ELSE /\ pattern.fixed_str # <<>>
         /\ \E k \in s..EndOf(s) - Len(pattern.fixed_str) :
              Slice(k, k + Len(pattern.fixed_str)) = pattern.fixed_str

\* The lines that are wanted: those that match or, with -v, that do not.
Wanted == {s \in Starts : Matches(s) # opts.invert_match}

\* The wanted lines -m leaves: no more than max_count of them, the first.
Allowed ==
  {s \in Wanted :
     \/ opts.max_count = 0
     \/ Cardinality({t \in Wanted : t < s}) < opts.max_count}

\* The output is the wanted lines, each whole, with its number and in its
\* place, as many as -m allows, and nothing else (lines 36-56).
PrintsWantedLines ==
  pc = "done" /\ Prints /\ ~exhausted =>
    /\ Len(printed) = Cardinality(Allowed)
    /\ \A k \in DOMAIN printed :
         /\ printed[k].first \in Allowed
         /\ printed[k].end = EndOf(printed[k].first)
         /\ printed[k].no = NumberOf(printed[k].first)
         /\ Cardinality({s \in Allowed : s < printed[k].first}) = k - 1

\* Without -m the count is the number of wanted lines; with -m as without it -l
\* names the file exactly if there are any, and -L exactly if there are none
\* (lines 57-69).
SummarisesWantedLines ==
  pc = "done" /\ ~exhausted =>
    /\ opts.max_count = 0 => count = Cardinality(Wanted)
    /\ summary = "match" <=>
         ~opts.count_only /\ opts.files_with_matches /\ Wanted # {}
    /\ summary = "no_match" <=>
         ~opts.count_only /\ opts.files_without_match /\ Wanted = {}

\* At every line the position is the start of a line and the number is that
\* line's number, behind a line for which there was no memory as well
\* (lines 36-39, 54-55).
LinesStayInStep ==
  pc \in {"find", "match"} => lineNo = NumberOf(pos) /\ pos \in Starts

\* The newline that is found is the first one, whichever of the vector loops
\* finds it (src/simd.c:43-70, 116-120).
FindsFirstNewline == pc \in {"find", "match"} => Find!FindsFirst

\* The search ends.
Terminates == <>(pc = "done")

\* "Stop after NUM matches per file" (src/main.c:32): the count that is
\* printed does not exceed NUM.
CountRespectsLimit ==
  pc = "done" /\ summary = "count" /\ opts.max_count > 0 => count <= opts.max_count
==============================================================================
