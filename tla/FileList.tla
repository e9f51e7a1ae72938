------------------------------- MODULE FileList -------------------------------
(***************************************************************************)
(* The list of files of one argument, src/fileutil.c:                      *)
(* fgrep_filelist_create walks a directory depth first (walk_dir, with a   *)
(* frame of the C stack and an open directory per level) and appends every *)
(* regular file, fgrep_filelist_next runs over the list and                *)
(* fgrep_filelist_destroy frees it.  Meanwhile others may remove files and *)
(* directories: what was true of a path when stat was called need not be   *)
(* true when it is opened.                                                 *)
(***************************************************************************)
EXTENDS SequencesExt

CONSTANTS
  Node,       \* files and directories
  Root,       \* the argument
  Byte,
  Name,       \* of each node the name, a sequence of bytes
  Dot,        \* the byte a hidden name starts with
  Link,       \* the nodes that are symbolic links to what they stand for
  Trees,      \* the possible file systems: records [kind, entries]
  PathMax,    \* the longest path a buffer takes, PATH_MAX - 1 bytes
  MaxLinks,   \* the links the system follows in one path, 40 on Linux: a link
              \* to a directory above it makes paths of any length
  MaxOpen     \* the levels a process has descriptors and stack for

\* A locked directory cannot be opened.  A special file is neither regular nor
\* a directory.
Kinds == {"regular", "directory", "locked", "special", "gone"}

ASSUME ListAssumption ==
  /\ Root \in Node
  /\ Name \in [Node -> Seq(Byte) \ {<<>>}]
  /\ Link \subseteq Node
  /\ Trees \subseteq [kind : [Node -> Kinds], entries : [Node -> Seq(Node)]]
  /\ PathMax \in Nat /\ Len(Name[Root]) <= PathMax
  /\ MaxLinks \in Nat
  /\ MaxOpen \in Nat \ {0}

\* No two entries of a directory have the same name, and only directories have
\* entries.
ASSUME TreesAssumption ==
  \A t \in Trees, n \in Node :
    /\ IsInjective([k \in DOMAIN t.entries[n] |-> Name[t.entries[n][k]]])
    /\ t.kind[n] \in {"regular", "special"} => t.entries[n] = <<>>

Hidden == {n \in Node : Name[n][1] = Dot}

\* Every node of a path takes a byte at least, and all but the first a slash.
Path == UNION {[1..n -> Node] : n \in 1..(PathMax + 1) \div 2}

VARIABLES
  kind,        \* what each node is by now
  entries,     \* what readdir returns of each directory, in this order
  recursive,   \* the argument recursive
  pc,          \* where the caller is
  st,          \* the status walk_dir returns
  stack,       \* the frames of walk_dir: the directory, the length of dirpath,
               \* and the next entry
  opening,     \* the directory walk_dir is called for, and the length of dirpath
  openDirs,    \* the number of directories that are open
  list,        \* the paths in the list
  cursor,      \* the entry list->current points to
  yielded,     \* history: what fgrep_filelist_next has returned
  failed,      \* history: did an allocation or an opendir fail for want of
               \* resources, or was a node removed?
  cut,         \* history: did a name not fit behind dirpath?
  unread       \* history: did readdir fail before the end of a directory?

callVars == <<entries, recursive>>
listVars == <<list, cursor, yielded>>
pathVars == <<cut, unread>>
vars == <<callVars, kind, pc, st, stack, opening, openDirs, listVars, failed, pathVars>>

Places ==
  {"create", "open", "walk", "walked", "iterate", "refused", "destroyed", "crashed"}

Statuses == {"FGREP_OK", "FGREP_ERR_NOMEM", "FGREP_ERR_IO"}

TypeOK ==
  /\ kind \in [Node -> Kinds]
  /\ recursive \in BOOLEAN
  /\ pc \in Places
  /\ st \in Statuses
  /\ \A k \in DOMAIN stack :
       /\ stack[k].path \in Path
       /\ stack[k].size \in 1..PathMax
       /\ stack[k].entry \in Nat \ {0}
  /\ opening \in [path : Path, size : 1..PathMax]
  /\ openDirs \in 0..MaxOpen
  /\ \A k \in DOMAIN list : list[k] \in Path
  /\ cursor \in 1..Len(list) + 1
  /\ failed \in BOOLEAN
  /\ cut \in BOOLEAN
  /\ unread \in BOOLEAN

Init ==
  /\ \E t \in Trees : kind = t.kind /\ entries = t.entries
  /\ recursive \in BOOLEAN
  /\ pc = "create"
  /\ st = "FGREP_OK"
  /\ stack = <<>>
  /\ opening = [path |-> <<Root>>, size |-> Len(Name[Root])]
  /\ openDirs = 0
  /\ list = <<>>
  /\ cursor = 1
  /\ yielded = <<>>
  /\ failed = FALSE
  /\ cut = FALSE
  /\ unread = FALSE

\* stat: a path through a removed node, or with too many links, does not
\* resolve.
Stat(path) ==
  IF \/ \E k \in DOMAIN path : kind[path[k]] = "gone"
     \/ Cardinality({k \in DOMAIN path : path[k] \in Link}) > MaxLinks
    THEN "gone"
    ELSE kind[Last(path)]

\* Mutant: what is no regular file is taken for a directory.
IsNotRegular(path) == Stat(path) \in {"directory", "locked", "special"}

IsDirectory(path) == Stat(path) \in {"directory", "locked"}
------------------------------------------------------------------------------
(* fgrep_filelist_create *)

Refuse(status) ==
  /\ pc' = "refused"
  /\ st' = status

\* The list cannot be allocated.
CreateNoMemory ==
  /\ pc = "create"
  /\ Refuse("FGREP_ERR_NOMEM")
  /\ failed' = TRUE
  /\ UNCHANGED <<callVars, kind, stack, opening, openDirs, listVars, pathVars>>

\* The argument does not exist.
CreateMissing ==
  /\ pc = "create"
  /\ Stat(<<Root>>) = "gone"
  /\ Refuse("FGREP_ERR_IO")
  /\ UNCHANGED <<callVars, kind, stack, opening, openDirs, listVars, failed, pathVars>>

CreateDirectory ==
  /\ pc = "create"
  /\ IsDirectory(<<Root>>)
  /\ pc' = "open"
  /\ UNCHANGED <<callVars, kind, st, stack, opening, openDirs, listVars, failed, pathVars>>

\* add_file: the path is appended, or there is no memory for it.
AddFile(path) ==
  \/ /\ list' = Append(list, path)
     /\ UNCHANGED <<st, failed>>
  \/ /\ st' = "FGREP_ERR_NOMEM"
     /\ failed' = TRUE
     /\ UNCHANGED list

\* Any other argument is taken for a file.
CreateFile ==
  /\ pc = "create"
  /\ Stat(<<Root>>) \in {"regular", "special"}
  /\ AddFile(<<Root>>)
  /\ pc' = "walked"
  /\ UNCHANGED <<callVars, kind, stack, opening, openDirs, cursor, yielded, pathVars>>

\* The walk is over: the list is handed out, or destroyed if there was an error.
CreateReturn ==
  /\ pc = "walked"
  /\ IF st = "FGREP_OK"
       THEN /\ pc' = "iterate"
            /\ cursor' = 1
            /\ UNCHANGED <<st, list>>
       ELSE /\ Refuse(st)
            /\ list' = <<>>
            /\ UNCHANGED cursor
  /\ UNCHANGED <<callVars, kind, stack, opening, openDirs, yielded, failed, pathVars>>
------------------------------------------------------------------------------
(* walk_dir *)

Top == stack[Len(stack)]
EntriesOfTop == entries[Last(Top.path)]

\* opendir succeeds.
OpenDir ==
  /\ pc = "open"
  /\ Stat(opening.path) = "directory"
  /\ openDirs < MaxOpen
  /\ pc' = "walk"
  /\ stack' = Append(stack, [path |-> opening.path, size |-> opening.size, entry |-> 1])
  /\ openDirs' = openDirs + 1
  /\ UNCHANGED <<callVars, kind, st, opening, listVars, failed, pathVars>>

\* opendir fails: the directory is locked or was removed after stat, or
\* too many files are open.
OpenDirFails ==
  /\ pc = "open"
  /\ pc' = IF stack = <<>> THEN "walked" ELSE "walk"
  /\ st' = "FGREP_ERR_IO"
  /\ failed' = (failed \/ Stat(opening.path) = "directory")
  /\ UNCHANGED <<callVars, kind, stack, opening, openDirs, listVars, pathVars>>

\* The frames of all the levels, each with a buffer of PATH_MAX bytes, are too
\* much for the stack.
StackOverflow ==
  /\ pc = "open"
  /\ Len(stack) = MaxOpen
  /\ pc' = "crashed"
  /\ UNCHANGED <<callVars, kind, st, stack, opening, openDirs, listVars, failed, pathVars>>

\* readdir returns another entry of the directory.
HasEntry ==
  /\ pc = "walk"
  /\ st = "FGREP_OK"
  /\ Top.entry <= Len(EntriesOfTop)

Entry == EntriesOfTop[Top.entry]

Visible == Entry \notin Hidden

\* What the buffer has room for behind dirpath and the slash.
Room == PathMax - Top.size - 1
Fits == Len(Name[Entry]) <= Room

\* Mutant: the buffer is taken to be long enough for every path.
EntryPathsUncut ==
  {[path |-> Append(Top.path, Entry), size |-> Top.size + 1 + Len(Name[Entry])]}

\* snprintf: where the path of an entry leads.  Cut to the length of the buffer
\* it may be the path of another entry, or of none; and if not a byte of the
\* name is left, that of the directory itself.
EntryPaths ==
  IF Fits
    THEN {[path |-> Append(Top.path, Entry), size |-> Top.size + 1 + Len(Name[Entry])]}
    ELSE IF Room <= 0
      THEN {[path |-> Top.path, size |-> PathMax]}
      ELSE {[path |-> Append(Top.path, n), size |-> PathMax] :
              n \in {m \in Range(EntriesOfTop) : Name[m] = SubSeq(Name[Entry], 1, Room)}}

\* Mutant: the entry is looked at again and again.
PassOverNothing == UNCHANGED <<stack, cut>>

PassOver ==
  /\ stack' = [stack EXCEPT ![Len(stack)].entry = @ + 1]
  /\ cut' = (cut \/ (Visible /\ ~Fits))

\* Mutant: directories are entered without -r, too.
EntersAlways(path) == IsDirectory(path)

Enters(path) == recursive /\ IsDirectory(path)

\* A hidden name, a path stat cannot resolve, a special file, or a directory
\* without -r.
IgnoreEntry ==
  /\ HasEntry
  /\ Visible => \A e \in EntryPaths : ~Enters(e.path) /\ Stat(e.path) # "regular"
  /\ PassOver
  /\ UNCHANGED <<callVars, kind, pc, st, opening, openDirs, listVars, failed, unread>>

\* The walk goes on in a subdirectory.
EnterDirectory ==
  /\ HasEntry
  /\ Visible
  /\ \E e \in EntryPaths : Enters(e.path) /\ opening' = e
  /\ pc' = "open"
  /\ PassOver
  /\ UNCHANGED <<callVars, kind, st, openDirs, listVars, failed, unread>>

TakeFile ==
  /\ HasEntry
  /\ Visible
  /\ \E e \in EntryPaths : Stat(e.path) = "regular" /\ AddFile(e.path)
  /\ PassOver
  /\ UNCHANGED <<callVars, kind, pc, opening, openDirs, cursor, yielded, unread>>

\* Mutant: an error returns without closing the directory.
CloseOnSuccess == openDirs' = IF st = "FGREP_OK" THEN openDirs - 1 ELSE openDirs

Close == openDirs' = openDirs - 1

\* The directory is closed and the status passed to the level above, which
\* breaks its loop on an error.
Leave ==
  /\ Close
  /\ stack' = Front(stack)
  /\ pc' = IF Len(stack) = 1 THEN "walked" ELSE "walk"
  /\ UNCHANGED <<callVars, kind, st, opening, listVars, failed, cut>>

\* No entry is left, or an error broke the loop.
CloseDir ==
  /\ pc = "walk"
  /\ st # "FGREP_OK" \/ Top.entry > Len(EntriesOfTop)
  /\ Leave
  /\ UNCHANGED unread

\* An error of readdir looks like the end of the directory.
ReaddirFails ==
  /\ HasEntry
  /\ Leave
  /\ unread' = TRUE

------------------------------------------------------------------------------
(* fgrep_filelist_next, fgrep_filelist_destroy *)

NextFile ==
  /\ pc = "iterate"
  /\ cursor <= Len(list)
  /\ yielded' = Append(yielded, list[cursor])
  /\ cursor' = cursor + 1
  /\ UNCHANGED <<callVars, kind, pc, st, stack, opening, openDirs, list, failed, pathVars>>

\* next has returned NULL: main destroys the list.
Destroy ==
  /\ pc = "iterate"
  /\ cursor > Len(list)
  /\ pc' = "destroyed"
  /\ list' = <<>>
  /\ cursor' = 1
  /\ UNCHANGED <<callVars, kind, st, stack, opening, openDirs, yielded, failed, pathVars>>
------------------------------------------------------------------------------
Ended == pc \in {"refused", "destroyed", "crashed"}

\* Somebody removes a file or a directory.  (Once in a run.)
Vanish(n) ==
  /\ ~Ended
  /\ ~failed
  /\ kind[n] # "gone"
  /\ kind' = [kind EXCEPT ![n] = "gone"]
  /\ failed' = TRUE
  /\ UNCHANGED <<callVars, pc, st, stack, opening, openDirs, listVars, pathVars>>

Done ==
  /\ Ended
  /\ UNCHANGED vars

Code ==
  \/ CreateNoMemory \/ CreateMissing \/ CreateDirectory \/ CreateFile \/ CreateReturn
  \/ OpenDir \/ OpenDirFails \/ StackOverflow
  \/ IgnoreEntry \/ EnterDirectory \/ TakeFile \/ CloseDir \/ ReaddirFails
  \/ NextFile \/ Destroy

Next ==
  \/ Code
  \/ \E n \in Node : Vanish(n)
  \/ Done

Spec == Init /\ [][Next]_vars

\* main goes on.
FairSpec == Spec /\ WF_vars(Code)
------------------------------------------------------------------------------
(* Correctness *)

\* The paths a walk from the argument may follow: every step leads to a
\* visible entry.
Walkable ==
  {p \in Path :
     /\ p[1] = Root
     /\ \A k \in 1..Len(p) - 1 :
          /\ p[k + 1] \in Range(entries[p[k]])
          /\ p[k + 1] \notin Hidden}

\* The files below a directory: all of them with -r, else its own.
FilesBelow ==
  {p \in Walkable :
     Len(p) > 1 /\ Stat(p) = "regular" /\ (recursive \/ Len(p) = 2)}

\* A list that was made and read to its end has given nothing hidden and no
\* directory, and only files below the argument, without -r its own.  If every
\* name fitted, it has given no path twice; and if every directory could be read
\* to its end as well, each file that was there all the time, by every path that
\* leads to it (lines 41-57, 103-108).
YieldsFilesOnce ==
  pc = "destroyed" /\ Stat(<<Root>>) \in {"directory", "locked"} =>
    /\ \A p \in Range(yielded) :
         /\ p \in Walkable
         /\ recursive \/ Len(p) = 2
         /\ Stat(p) \in {"regular", "gone"}
    /\ ~cut => IsInjective(yielded)
    /\ ~cut /\ ~unread => FilesBelow \subseteq Range(yielded)

\* Every directory that was opened is closed again, whichever way the walk
\* ends, if the process lives on, and a walk never holds more directories than
\* it has frames (lines 35, 50-53, 59).
DirectoriesAreClosed ==
  /\ openDirs = Len(stack)
  /\ pc \notin {"open", "walk", "crashed"} => openDirs = 0

\* The argument is refused only for a reason: it does not exist, a directory
\* it may come to is locked, something was removed under it, or resources ran
\* out (lines 36, 68, 77-80).
RefusedForAReason ==
  pc = "refused" =>
    \/ failed
    \/ Stat(<<Root>>) = "gone"
    \/ \E p \in Walkable : (recursive \/ Len(p) = 1) /\ Stat(p) = "locked"

\* The walk ends: links to a directory above make longer and longer paths until
\* the system follows no more of them, and a directory whose path leaves no
\* room for a name is entered again and again until descriptors or the stack
\* run out.
Terminates == <>Ended
==============================================================================
