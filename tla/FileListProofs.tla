---------------------------- MODULE FileListProofs ----------------------------
(***************************************************************************)
(* The walk over any file system, which others may change meanwhile: every *)
(* directory is closed, the argument is refused only for a reason, and the *)
(* list has every file once.                                               *)
(***************************************************************************)
EXTENDS FileList, SequenceTheorems, FiniteSetTheorems, TLAPS

\* A directory of the walk; its path has a byte for each node and for each slash.
Place == {e \in [path : Path, size : 1..PathMax] : 2 * Len(e.path) - 1 <= e.size}

Frame ==
  {f \in [path : Path, size : 1..PathMax, entry : Nat \ {0}] : 2 * Len(f.path) - 1 <= f.size}

\* Every name fitted so far, and every directory was read to its end.
AllFit == ~cut
AllRead == ~unread

\* The frames of the stack are the directories that are open.  If no name was cut
\* they are the directories above the one that is opened or read.
DepthInv ==
  /\ openDirs = Len(stack)
  /\ Len(stack) <= MaxOpen
  /\ ~cut => \A k \in 1..Len(stack) : Len(stack[k].path) = k
  /\ ~cut /\ pc = "open" => Len(opening.path) = Len(stack) + 1
  /\ pc = "create" => opening.path = <<Root>>
  /\ pc = "walk" => Len(stack) > 0
  /\ pc \notin {"open", "walk", "crashed"} => Len(stack) = 0
  /\ pc # "iterate" => cursor = 1

Types ==
  /\ kind \in [Node -> Kinds]
  /\ entries \in [Node -> Seq(Node)]
  /\ recursive \in BOOLEAN
  /\ pc \in Places
  /\ st \in Statuses
  /\ stack \in Seq(Frame)
  /\ opening \in Place
  /\ list \in Seq(Path)
  /\ cursor \in 1..Len(list) + 1
  /\ failed \in BOOLEAN
  /\ cut \in BOOLEAN
  /\ unread \in BOOLEAN

TypeInv == Types /\ DepthInv
------------------------------------------------------------------------------
(* Paths *)

LEMMA Half ==
  ASSUME NEW m \in Nat, NEW n \in Nat
  PROVE  n \in 1..(m + 1) \div 2 <=> n >= 1 /\ 2 * n <= m + 1
<1> DEFINE h == (m + 1) \div 2
<1>1. h \in Nat /\ 2 * h <= m + 1 /\ m + 1 <= 2 * h + 1
  OBVIOUS
<1> HIDE DEF h
<1>2. n <= h <=> 2 * n <= m + 1
  BY <1>1
<1> QED
  BY <1>1, <1>2 DEF h

LEMMA PathIs ==
  ASSUME ListAssumption, NEW p
  PROVE  p \in Path <=> p \in Seq(Node) /\ Len(p) \in Nat \ {0} /\ 2 * Len(p) <= PathMax + 1
<1>0. PathMax \in Nat
  BY DEF ListAssumption
<1>1. ASSUME p \in Path
      PROVE  p \in Seq(Node) /\ Len(p) \in Nat \ {0} /\ 2 * Len(p) <= PathMax + 1
  <2>1. PICK n \in 1..(PathMax + 1) \div 2 : p \in [1..n -> Node]
    BY <1>1 DEF Path
  <2>2. n \in Nat /\ n >= 1 /\ 2 * n <= PathMax + 1
    <3>1. n \in Nat
      BY <1>0
    <3> QED
      BY <1>0, <3>1, Half
  <2>3. p \in Seq(Node) /\ Len(p) = n
    BY <2>1, <2>2
  <2> QED
    BY <2>2, <2>3
<1>2. ASSUME p \in Seq(Node), Len(p) \in Nat \ {0}, 2 * Len(p) <= PathMax + 1
      PROVE  p \in Path
  <2>1. p \in [1..Len(p) -> Node]
    BY <1>2
  <2>2. Len(p) \in 1..(PathMax + 1) \div 2
    BY <1>0, <1>2, Half
  <2> QED
    BY <2>1, <2>2 DEF Path
<1> QED
  BY <1>1, <1>2

LEMMA NameIs ==
  ASSUME ListAssumption, NEW n \in Node
  PROVE  Name[n] \in Seq(Byte) /\ Len(Name[n]) \in Nat \ {0}
<1>1. Name[n] \in Seq(Byte) \ {<<>>}
  BY DEF ListAssumption
<1> QED
  BY <1>1, EmptySeq

LEMMA RootIsPath ==
  ASSUME ListAssumption
  PROVE  <<Root>> \in Path /\ <<Root>> \in Walkable /\ Len(<<Root>>) = 1
<1>1. <<Root>> \in Seq(Node) /\ Len(<<Root>>) = 1 /\ <<Root>>[1] = Root
  BY DEF ListAssumption
<1>2. <<Root>> \in Path
  <2>1. Len(Name[Root]) \in Nat \ {0} /\ Len(Name[Root]) <= PathMax /\ PathMax \in Nat
    BY NameIs DEF ListAssumption
  <2>2. Len(<<Root>>) \in Nat \ {0} /\ 2 * Len(<<Root>>) <= PathMax + 1
    BY <1>1, <2>1
  <2> QED
    BY <1>1, <2>2, PathIs
<1> QED
  BY <1>1, <1>2 DEF Walkable

LEMMA TopIs ==
  ASSUME ListAssumption, TypeInv, HasEntry
  PROVE  /\ Len(stack) \in Nat \ {0}
         /\ Top \in Frame /\ Top = stack[Len(stack)]
         /\ Top.path \in Seq(Node) /\ Len(Top.path) \in Nat \ {0}
         /\ Last(Top.path) \in Node /\ Last(Top.path) = Top.path[Len(Top.path)]
         /\ EntriesOfTop = entries[Last(Top.path)] /\ EntriesOfTop \in Seq(Node)
         /\ Top.entry \in 1..Len(EntriesOfTop)
         /\ Entry = EntriesOfTop[Top.entry] /\ Entry \in Node
         /\ Entry \in Range(EntriesOfTop)
<1>1. Len(stack) \in Nat \ {0}
  BY DEF TypeInv, Types, DepthInv, HasEntry
<1>2. Top \in Frame /\ Top = stack[Len(stack)]
  BY <1>1, ElementOfSeq DEF TypeInv, Types, Top
<1>3. Top.path \in Seq(Node) /\ Len(Top.path) \in Nat \ {0} /\ Top.entry \in Nat \ {0}
  BY <1>2, PathIs DEF Frame
<1>4. Last(Top.path) \in Node /\ Last(Top.path) = Top.path[Len(Top.path)]
  <2>1. Len(Top.path) \in 1..Len(Top.path)
    BY <1>3
  <2> QED
    BY <1>3, <2>1, ElementOfSeq DEF Last
<1>5. EntriesOfTop \in Seq(Node)
  BY <1>4 DEF EntriesOfTop, TypeInv, Types
<1>6. Top.entry \in 1..Len(EntriesOfTop)
  BY <1>3, <1>5 DEF HasEntry
<1>7. Entry \in Node
  BY <1>5, <1>6, ElementOfSeq DEF Entry
<1>8. Entry \in Range(EntriesOfTop)
  BY <1>5, <1>6 DEF Entry, Range
<1> QED
  BY <1>1, <1>2, <1>3, <1>4, <1>5, <1>6, <1>7, <1>8 DEF EntriesOfTop, Entry

\* Where snprintf leads: to a directory entry, the name of which begins as the
\* one that was read, or back to the directory.
LEMMA EntryPathsAre ==
  ASSUME ListAssumption, TypeInv, HasEntry, NEW e \in EntryPaths
  PROVE  /\ e \in Place
         /\ \/ e.path = Top.path /\ ~Fits
            \/ \E m \in Range(EntriesOfTop) :
                 e.path = Append(Top.path, m) /\ Name[m][1] = Name[Entry][1]
         /\ Fits => e.path = Append(Top.path, Entry)
<1>1. /\ Top \in Frame /\ Top.path \in Seq(Node) /\ Len(Top.path) \in Nat \ {0}
      /\ Entry \in Node /\ Entry \in Range(EntriesOfTop) /\ EntriesOfTop \in Seq(Node)
  BY TopIs
<1>2. Top.size \in 1..PathMax /\ PathMax \in Nat /\ 2 * Len(Top.path) - 1 <= Top.size
      /\ Top.path \in Path
  BY <1>1 DEF Frame, ListAssumption
<1>3. Name[Entry] \in Seq(Byte) /\ Len(Name[Entry]) \in Nat \ {0}
  BY <1>1, NameIs
<1>4. Room \in Int /\ Room = PathMax - Top.size - 1
  BY <1>2 DEF Room
<1>5. ASSUME NEW m \in Node PROVE Append(Top.path, m) \in Seq(Node)
                                  /\ Len(Append(Top.path, m)) = Len(Top.path) + 1
  BY <1>1
<1>6. ASSUME NEW p \in Seq(Node), NEW l \in 1..PathMax, Len(p) \in Nat \ {0},
             2 * Len(p) - 1 <= l
      PROVE  [path |-> p, size |-> l] \in Place
  <2>1. p \in Path
    BY <1>2, <1>6, PathIs
  <2> QED
    BY <1>6, <2>1 DEF Place
<1>7. CASE Fits
  <2>1. e = [path |-> Append(Top.path, Entry), size |-> Top.size + 1 + Len(Name[Entry])]
    BY <1>7 DEF EntryPaths
  <2> DEFINE l == Top.size + 1 + Len(Name[Entry])
             p == Append(Top.path, Entry)
  <2>2. p \in Seq(Node) /\ Len(p) = Len(Top.path) + 1
    BY <1>1, <1>5
  <2>3. l \in 1..PathMax /\ 2 * (Len(Top.path) + 1) - 1 <= l
    <3>1. ASSUME NEW a \in Nat \ {0}, NEW b \in Nat \ {0}, NEW c \in 1..PathMax,
                 a <= PathMax - c - 1, 2 * b - 1 <= c
          PROVE  c + 1 + a \in 1..PathMax /\ 2 * (b + 1) - 1 <= c + 1 + a
      BY <1>2, <3>1
    <3> QED
      BY <1>1, <1>2, <1>3, <1>4, <1>7, <3>1 DEF Fits
  <2>4. e.path = p /\ e = [path |-> p, size |-> l]
    BY <2>1
  <2> HIDE DEF l, p
  <2>5. e \in Place
    <3>1. Len(p) \in Nat \ {0} /\ 2 * Len(p) - 1 <= l
      BY <1>1, <2>2, <2>3
    <3>2. [path |-> p, size |-> l] \in Place
      BY <1>6, <2>2, <2>3, <3>1
    <3> QED
      BY <2>4, <3>2
  <2> QED
    BY <1>1, <2>4, <2>5 DEF p
<1>8. CASE ~Fits /\ Room <= 0
  <2>1. e = [path |-> Top.path, size |-> PathMax] /\ e.path = Top.path
    BY <1>8 DEF EntryPaths
  <2>2. PathMax \in 1..PathMax /\ 2 * Len(Top.path) - 1 <= PathMax
    BY <1>1, <1>2
  <2>3. e \in Place
    BY <1>1, <1>6, <2>1, <2>2
  <2> QED
    BY <1>8, <2>1, <2>3
<1>9. CASE ~Fits /\ ~(Room <= 0)
  <2>1. PICK m \in Range(EntriesOfTop) :
          Name[m] = SubSeq(Name[Entry], 1, Room)
          /\ e = [path |-> Append(Top.path, m), size |-> PathMax]
    BY <1>9 DEF EntryPaths
  <2>2. m \in Node
    BY <1>1, <2>1, ElementOfSeq DEF Range
  <2>3. Name[m][1] = Name[Entry][1]
    <3>1. Room \in Nat /\ 1 <= Room /\ Room <= Len(Name[Entry])
      BY <1>3, <1>4, <1>9 DEF Fits
    <3> QED
      BY <1>3, <2>1, <3>1
  <2>4. PathMax \in 1..PathMax /\ 2 * (Len(Top.path) + 1) - 1 <= PathMax
    BY <1>1, <1>2, <1>4, <1>9
  <2> DEFINE p == Append(Top.path, m)
  <2>5. p \in Seq(Node) /\ Len(p) = Len(Top.path) + 1 /\ e = [path |-> p, size |-> PathMax]
        /\ e.path = p
    BY <1>5, <2>1, <2>2
  <2> HIDE DEF p
  <2>6. e \in Place
    <3>1. Len(p) \in Nat \ {0} /\ 2 * Len(p) - 1 <= PathMax
      BY <1>1, <2>4, <2>5
    <3>2. [path |-> p, size |-> PathMax] \in Place
      BY <1>6, <2>4, <2>5, <3>1
    <3> QED
      BY <2>5, <3>2
  <2> QED
    BY <1>9, <2>1, <2>3, <2>5, <2>6 DEF p
<1> QED
  BY <1>7, <1>8, <1>9

LEMMA PassOverKeeps ==
  ASSUME TypeInv, PassOver, Len(stack) > 0
  PROVE  /\ stack' \in Seq(Frame)
         /\ Len(stack') = Len(stack)
         /\ \A k \in 1..Len(stack) : stack'[k].path = stack[k].path
         /\ cut' \in BOOLEAN /\ (cut => cut')
<1>1. stack \in Seq(Frame) /\ Len(stack) \in 1..Len(stack)
  BY DEF TypeInv, Types
<1>2. stack[Len(stack)] \in Frame
  BY <1>1, ElementOfSeq
<1>3. ASSUME NEW f \in Frame
      PROVE  [f EXCEPT !.entry = @ + 1] \in Frame /\ [f EXCEPT !.entry = @ + 1].path = f.path
  BY <1>3 DEF Frame
<1>4. stack' = [stack EXCEPT ![Len(stack)] = [stack[Len(stack)] EXCEPT !.entry = @ + 1]]
  BY DEF PassOver
<1> DEFINE top == [stack[Len(stack)] EXCEPT !.entry = @ + 1]
<1> HIDE DEF top
<1>5. stack' = [stack EXCEPT ![Len(stack)] = top] /\ top \in Frame
      /\ top.path = stack[Len(stack)].path
  BY <1>2, <1>3, <1>4 DEF top
<1>6. cut' \in BOOLEAN /\ (cut => cut')
  BY Zenon DEF PassOver, TypeInv, Types
<1> QED
  BY <1>1, <1>5, <1>6
------------------------------------------------------------------------------
(* Types and depth *)

LEMMA AppendPath ==
  ASSUME NEW l \in Seq(Path), NEW p \in Path
  PROVE  Append(l, p) \in Seq(Path) /\ Len(Append(l, p)) = Len(l) + 1 /\ Len(l) \in Nat
BY AppendProperties

LEMMA InitTypes == Init => TypeInv
<1> SUFFICES ASSUME Init PROVE TypeInv
  OBVIOUS
<1>1. <<Root>> \in Path /\ Len(<<Root>>) = 1
  BY RootIsPath, ListAssumption
<1>2. kind \in [Node -> Kinds] /\ entries \in [Node -> Seq(Node)]
  BY ListAssumption DEF Init, ListAssumption
<1>3. stack = <<>> /\ list = <<>> /\ Len(stack) = 0 /\ Len(list) = 0
      /\ stack \in Seq(Frame) /\ list \in Seq(Path)
  BY DEF Init
<1>4. recursive \in BOOLEAN /\ failed \in BOOLEAN /\ cut \in BOOLEAN /\ unread \in BOOLEAN
  BY Zenon DEF Init
<1>5. pc \in Places /\ st \in Statuses /\ cursor \in 1..Len(list) + 1
  BY <1>3 DEF Init, Places, Statuses
<1>6. opening \in Place /\ opening.path = <<Root>>
  <2>1. Len(Name[Root]) \in 1..PathMax
    BY ListAssumption, NameIs DEF ListAssumption
  <2> DEFINE l == Len(Name[Root])
             r == <<Root>>
  <2>2. opening = [path |-> r, size |-> l]
    BY DEF Init
  <2>3. r \in Path /\ 2 * Len(r) - 1 <= l /\ l \in 1..PathMax
    BY <1>1, <2>1
  <2> HIDE DEF l, r
  <2>4. opening \in Place /\ opening.path = r
    BY <2>2, <2>3 DEF Place
  <2> QED
    BY <2>4 DEF r
<1>7. Types
  BY <1>2, <1>3, <1>4, <1>5, <1>6 DEF Types
<1>8. DepthInv
  BY <1>3, <1>6, ListAssumption DEF Init, DepthInv, ListAssumption
<1> QED
  BY <1>7, <1>8 DEF TypeInv

\* The steps of fgrep_filelist_create, _next and _destroy, and those of others,
\* leave the stack alone.
LEMMA OutsideKept ==
  ASSUME ListAssumption, TypeInv,
         \/ CreateNoMemory \/ CreateMissing \/ CreateDirectory \/ CreateFile \/ CreateReturn
         \/ NextFile \/ Destroy
         \/ \E n \in Node : Vanish(n)
         \/ UNCHANGED vars
  PROVE  TypeInv'
<1> USE RootIsPath DEF TypeInv, Types, DepthInv, Places, Statuses, Refuse, callVars, listVars,
                       pathVars
<1>1. CASE CreateNoMemory \/ CreateMissing
  BY <1>1 DEF CreateNoMemory, CreateMissing
<1>2. CASE CreateDirectory
  <2>1. /\ pc = "create" /\ pc' = "open" /\ opening'.path = <<Root>>
        /\ Len(stack') = 0 /\ Len(<<Root>>) = 1
    BY <1>2 DEF CreateDirectory
  <2> QED
    BY <1>2, <2>1 DEF CreateDirectory
<1>3. CASE CreateFile
  <2>1. /\ list' \in Seq(Path) /\ cursor' \in 1..Len(list') + 1
        /\ st' \in Statuses /\ failed' \in BOOLEAN
    <3>1. CASE list' = Append(list, <<Root>>) /\ UNCHANGED <<st, failed>>
      BY <1>3, <3>1, AppendPath DEF CreateFile
    <3>2. CASE list' = list /\ st' = "FGREP_ERR_NOMEM" /\ failed' = TRUE
      BY <1>3, <3>2 DEF CreateFile
    <3> QED
      BY <1>3, <3>1, <3>2 DEF CreateFile, AddFile
  <2> QED
    BY <1>3, <2>1 DEF CreateFile
<1>4. CASE CreateReturn
  <2>1. list' \in Seq(Path) /\ cursor' \in 1..Len(list') + 1
    <3>1. CASE st = "FGREP_OK"
      BY <1>4, <3>1 DEF CreateReturn
    <3>2. CASE st # "FGREP_OK"
      <4>1. list' = <<>> /\ cursor' = 1
        BY <1>4, <3>2 DEF CreateReturn
      <4> QED
        BY <4>1
    <3> QED
      BY <3>1, <3>2
  <2>2. pc' \in {"iterate", "refused"} /\ st' \in Statuses
        /\ (pc' # "iterate" => cursor' = cursor)
    BY <1>4 DEF CreateReturn
  <2> QED
    BY <1>4, <2>1, <2>2 DEF CreateReturn
<1>5. CASE NextFile
  BY <1>5 DEF NextFile
<1>6. CASE Destroy
  BY <1>6 DEF Destroy
<1>7. CASE \E n \in Node : Vanish(n)
  BY <1>7 DEF Vanish, Kinds
<1>8. CASE UNCHANGED vars
  BY <1>8 DEF vars
<1> QED
  BY <1>1, <1>2, <1>3, <1>4, <1>5, <1>6, <1>7, <1>8

LEMMA OpenKept ==
  ASSUME ListAssumption, TypeInv, OpenDir \/ OpenDirFails \/ StackOverflow
  PROVE  TypeInv'
<1>1. CASE OpenDir
  <2> DEFINE f == [path |-> opening.path, size |-> opening.size, entry |-> 1]
  <2>1. f \in Frame /\ f.path = opening.path
    BY DEF Frame, Place, TypeInv, Types
  <2>2. stack' = Append(stack, f) /\ stack \in Seq(Frame)
    BY <1>1 DEF OpenDir, TypeInv, Types
  <2> HIDE DEF f
  <2>3. /\ stack' \in Seq(Frame) /\ Len(stack') = Len(stack) + 1
        /\ \A k \in 1..Len(stack) : stack'[k] = stack[k]
        /\ stack'[Len(stack) + 1].path = opening.path
    BY <2>1, <2>2
  <2>4. MaxOpen \in Nat
    BY DEF ListAssumption
  <2> QED
    BY <1>1, <2>3, <2>4
    DEF OpenDir, TypeInv, Types, DepthInv, Places, callVars, listVars, pathVars
<1>2. CASE OpenDirFails
  <2>1. failed' \in BOOLEAN
    BY Zenon, <1>2 DEF OpenDirFails, TypeInv, Types
  <2>2. pc' = "walked" => stack = <<>>
    BY <1>2 DEF OpenDirFails
  <2>3. pc' = "walk" => Len(stack) > 0
    BY <1>2, EmptySeq DEF OpenDirFails, TypeInv, Types
  <2> QED
    BY <1>2, <2>1, <2>2, <2>3
    DEF OpenDirFails, TypeInv, Types, DepthInv, Places, Statuses, callVars, listVars, pathVars
<1>3. CASE StackOverflow
  BY <1>3 DEF StackOverflow, TypeInv, Types, DepthInv, Places, callVars, listVars, pathVars
<1> QED
  BY <1>1, <1>2, <1>3

\* A name that was not cut leads one level down.
LEMMA Uncut ==
  ASSUME ListAssumption, TypeInv, HasEntry, PassOver, AllFit', Visible
  PROVE  /\ Fits /\ AllFit
         /\ EntryPaths # {}
         /\ \A e \in EntryPaths : e.path = Append(Top.path, Entry)
<1>1. Fits /\ AllFit
  BY Zenon DEF PassOver, AllFit
<1> QED
  BY <1>1, EntryPathsAre DEF EntryPaths

LEMMA EntryKept ==
  ASSUME ListAssumption, TypeInv, IgnoreEntry \/ EnterDirectory \/ TakeFile
  PROVE  TypeInv'
<1>1. HasEntry /\ PassOver /\ pc = "walk"
  BY DEF IgnoreEntry, EnterDirectory, TakeFile, HasEntry
<1>2. /\ stack' \in Seq(Frame)
      /\ Len(stack') = Len(stack) /\ Len(stack) \in Nat \ {0}
      /\ \A k \in 1..Len(stack) : stack'[k].path = stack[k].path
      /\ cut' \in BOOLEAN /\ (cut => cut')
  BY <1>1, PassOverKeeps, TopIs DEF TypeInv, DepthInv
<1>3. CASE IgnoreEntry
  BY <1>1, <1>2, <1>3 DEF IgnoreEntry, TypeInv, Types, DepthInv, callVars, listVars
<1>4. CASE EnterDirectory
  <2>1. PICK e \in EntryPaths : opening' = e
    BY <1>4 DEF EnterDirectory
  <2>2. opening' \in Place
    BY <1>1, <2>1, EntryPathsAre
  <2>3. ASSUME ~cut' PROVE Len(opening'.path) = Len(stack) + 1
    <3>1. opening'.path = Append(Top.path, Entry) /\ ~cut
      BY <1>1, <1>4, <2>1, <2>3, Uncut DEF EnterDirectory, AllFit
    <3>2. Len(Top.path) = Len(stack) /\ Top.path \in Seq(Node) /\ Entry \in Node
      <4>1. 1..Len(stack) # {} /\ Len(stack) \in 1..Len(stack)
        BY <1>2
      <4>2. \A k \in 1..Len(stack) : Len(stack[k].path) = k
        BY <3>1 DEF TypeInv, DepthInv
      <4>3. Top.path \in Seq(Node) /\ Entry \in Node
        BY <1>1, TopIs
      <4> QED
        BY <4>1, <4>2, <4>3 DEF Top
    <3>3. Len(Append(Top.path, Entry)) = Len(Top.path) + 1
      BY <3>2, AppendProperties
    <3> QED
      BY <3>1, <3>2, <3>3
  <2> QED
    BY <1>2, <1>4, <2>2, <2>3
    DEF EnterDirectory, TypeInv, Types, DepthInv, Places, callVars, listVars
<1>5. CASE TakeFile
  <2>1. PICK e \in EntryPaths : AddFile(e.path)
    BY <1>5 DEF TakeFile
  <2>2. e.path \in Path
    BY <1>1, EntryPathsAre DEF Place
  <2>3. list' \in Seq(Path) /\ Len(list') \in Nat /\ Len(list') >= Len(list)
    <3>1. list' \in {list, Append(list, e.path)} /\ list \in Seq(Path)
      BY <2>1 DEF AddFile, TypeInv, Types
    <3>2. /\ Append(list, e.path) \in Seq(Path)
          /\ Len(Append(list, e.path)) = Len(list) + 1
          /\ Len(list) \in Nat
      BY <2>2, <3>1, AppendPath
    <3> QED
      BY <3>1, <3>2
  <2>4. st' \in Statuses /\ failed' \in BOOLEAN
    BY <2>1 DEF AddFile, TypeInv, Types, Statuses
  <2>5. cursor' \in 1..Len(list') + 1
    BY <1>5, <2>3 DEF TakeFile, TypeInv, Types
  <2>6. Types'
    BY <1>2, <1>5, <2>3, <2>4, <2>5 DEF TakeFile, TypeInv, Types, callVars
  <2>7. DepthInv'
    BY <1>1, <1>2, <1>5 DEF TakeFile, TypeInv, DepthInv
  <2> QED
    BY <2>6, <2>7 DEF TypeInv
<1> QED
  BY <1>3, <1>4, <1>5

LEMMA WithoutLast ==
  ASSUME NEW S, NEW s \in Seq(S), Len(s) \in Nat \ {0}
  PROVE  LET f == SubSeq(s, 1, Len(s) - 1)
         IN  /\ f \in Seq(S)
             /\ Len(f) = Len(s) - 1
             /\ \A k \in 1..Len(s) - 1 : f[k] = s[k]
<1> DEFINE n == Len(s) - 1
<1>1. n \in Int /\ n \in Nat /\ n - 1 + 1 = n /\ \A k \in 1..n : s[k] \in S /\ 1 + k - 1 = k
  OBVIOUS
<1> HIDE DEF n
<1>2. /\ SubSeq(s, 1, n) \in Seq(S)
      /\ Len(SubSeq(s, 1, n)) = IF 1 <= n THEN n - 1 + 1 ELSE 0
      /\ \A k \in 1..n - 1 + 1 : SubSeq(s, 1, n)[k] = s[1 + k - 1]
  BY <1>1, SubSeqProperties
<1>3. /\ Len(SubSeq(s, 1, n)) = n
      /\ \A k \in 1..n : SubSeq(s, 1, n)[k] = s[k]
  BY <1>1, <1>2
<1> QED
  BY <1>2, <1>3 DEF n

LEMMA CloseKept ==
  ASSUME ListAssumption, TypeInv, CloseDir \/ ReaddirFails
  PROVE  TypeInv'
<1>0. unread' \in BOOLEAN
  BY Zenon DEF CloseDir, ReaddirFails, TypeInv, Types
<1>1. /\ pc = "walk" /\ Leave
      /\ stack \in Seq(Frame) /\ Len(stack) \in Nat \ {0} /\ stack' = Front(stack)
  BY DEF CloseDir, ReaddirFails, HasEntry, Leave, TypeInv, Types, DepthInv
<1>2. /\ stack' \in Seq(Frame) /\ Len(stack') = Len(stack) - 1
      /\ \A k \in 1..Len(stack) - 1 : stack'[k] = stack[k]
  <2>1. stack' = SubSeq(stack, 1, Len(stack) - 1)
    BY <1>1 DEF Front
  <2> QED
    BY <1>1, <2>1, WithoutLast
<1>3. MaxOpen \in Nat
  BY DEF ListAssumption
<1>4. /\ UNCHANGED <<kind, entries, recursive, st, opening, list, cursor, failed, cut>>
      /\ openDirs' = openDirs - 1
      /\ pc' = IF Len(stack) = 1 THEN "walked" ELSE "walk"
  BY <1>1 DEF Leave, Close, callVars, listVars
<1>5. Types'
  BY <1>0, <1>2, <1>4 DEF TypeInv, Types, Places
<1>6. DepthInv'
  <2>1. openDirs' = Len(stack') /\ Len(stack') <= MaxOpen /\ Len(stack') = Len(stack) - 1
    BY <1>1, <1>2, <1>3, <1>4 DEF TypeInv, DepthInv
  <2>2. pc' = "walk" => Len(stack') > 0
    BY <1>1, <1>4, <2>1
  <2>3. pc' # "walk" => pc' = "walked" /\ Len(stack') = 0
    BY <1>1, <1>4, <2>1
  <2>4. ~cut' => \A k \in 1..Len(stack') : Len(stack'[k].path) = k
    BY <1>1, <1>2, <1>4 DEF TypeInv, DepthInv
  <2> QED
    BY <1>1, <1>4, <2>1, <2>2, <2>3, <2>4 DEF TypeInv, DepthInv
<1> QED
  BY <1>5, <1>6 DEF TypeInv

LEMMA TypesKept ==
  ASSUME ListAssumption, TypeInv, [Next]_vars
  PROVE  TypeInv'
BY OutsideKept, OpenKept, EntryKept, CloseKept DEF Next, Code, Done

LEMMA TypeInvariant == Spec => []TypeInv
<1>1. Init => TypeInv
  BY InitTypes
<1>2. TypeInv /\ [Next]_vars => TypeInv'
  BY TypesKept, ListAssumption
<1> QED
  BY <1>1, <1>2, PTL DEF Spec

\* Every state is well typed: no path is longer than the buffer, whatever
\* snprintf cuts, and no more directories are open than the process may have
\* (src/fileutil.c:35-36, 44-45).
THEOREM TypeCorrect == Spec => []TypeOK
<1>1. ASSUME TypeInv PROVE TypeOK
  <2>1. Len(stack) \in 0..MaxOpen
    BY <1>1, ListAssumption DEF TypeInv, Types, DepthInv, ListAssumption
  <2>2. \A k \in DOMAIN stack :
          /\ stack[k].path \in Path
          /\ stack[k].size \in 1..PathMax
          /\ stack[k].entry \in Nat \ {0}
    <3>1. \A k \in DOMAIN stack : stack[k] \in Frame
      BY <1>1, ElementOfSeq DEF TypeInv, Types
    <3> QED
      BY <3>1 DEF Frame
  <2>3. \A k \in DOMAIN list : list[k] \in Path
    BY <1>1, ElementOfSeq DEF TypeInv, Types
  <2>4. opening \in [path : Path, size : 1..PathMax]
    BY <1>1 DEF TypeInv, Types, Place
  <2> QED
    BY <1>1, <2>1, <2>2, <2>3, <2>4 DEF TypeInv, Types, DepthInv, TypeOK
<1> QED
  BY <1>1, TypeInvariant, PTL

\* On every path through walk_dir each directory that was opened is closed
\* (src/fileutil.c:35, 50-53, 59).
THEOREM AllDirectoriesClosed == Spec => []DirectoriesAreClosed
<1>1. TypeInv => DirectoriesAreClosed
  BY DEF TypeInv, DepthInv, DirectoriesAreClosed
<1> QED
  BY <1>1, TypeInvariant, PTL
------------------------------------------------------------------------------
(* Why an argument is refused, and what is listed *)

\* What stat says of every path.
StatOf == [p \in Path |-> Stat(p)]

Reason ==
  \/ failed
  \/ StatOf[<<Root>>] = "gone"
  \/ \E p \in Walkable : (recursive \/ Len(p) = 1) /\ StatOf[p] = "locked"

\* A path the walk may come to.
Reached(p) == p \in Walkable /\ (recursive \/ Len(p) <= 2)

\* The walk is on visible directories, which are there unless somebody removed
\* one, and a status is set only for a reason.
WalkInv ==
  /\ \A k \in 1..Len(stack) : stack[k].path \in Walkable
  /\ opening.path \in Walkable
  /\ recursive \/ (Len(opening.path) = 1 /\ \A k \in 1..Len(stack) : Len(stack[k].path) = 1)
  /\ pc = "open" => failed \/ StatOf[opening.path] \in {"directory", "locked"}
  /\ st # "FGREP_OK" => Reason
  /\ pc = "refused" => st # "FGREP_OK"

ListInv ==
  /\ \A k \in 1..Len(list) : Reached(list[k])
  /\ \A k \in DOMAIN yielded : Reached(yielded[k])
  /\ yielded \in Seq(Path)

IInv == TypeInv /\ WalkInv /\ ListInv

\* Wherever the path of an entry leads, cut or not, a walk through visible entries
\* comes to, and without -r it is an entry of the argument itself.
LEMMA EntryIsReached ==
  ASSUME ListAssumption, TypeInv, WalkInv, HasEntry, Visible, NEW e \in EntryPaths
  PROVE  /\ e \in Place
         /\ e.path \in Path
         /\ e.path \in Walkable
         /\ StatOf[e.path] = Stat(e.path)
         /\ recursive \/ Len(e.path) <= 2
<1>1. /\ Len(stack) \in Nat \ {0} /\ Top = stack[Len(stack)] /\ Top \in Frame
      /\ Top.path \in Seq(Node) /\ Len(Top.path) \in Nat \ {0}
      /\ Last(Top.path) = Top.path[Len(Top.path)]
      /\ EntriesOfTop = entries[Last(Top.path)] /\ EntriesOfTop \in Seq(Node)
      /\ Entry \in Node
  BY TopIs
<1>2. Top.path \in Walkable /\ (recursive \/ Len(Top.path) = 1)
  BY <1>1 DEF WalkInv
<1>3. Top.path[1] = Root
      /\ \A k \in 1..Len(Top.path) - 1 :
           /\ Top.path[k + 1] \in Range(entries[Top.path[k]])
           /\ Top.path[k + 1] \notin Hidden
  BY <1>2 DEF Walkable
<1>4. e \in Place /\ e.path \in Path
  BY EntryPathsAre DEF Place
<1>5. StatOf[e.path] = Stat(e.path)
  BY <1>4 DEF StatOf
<1>6. CASE e.path = Top.path
  BY <1>1, <1>2, <1>4, <1>5, <1>6
<1>7. ASSUME NEW m \in Range(EntriesOfTop),
             e.path = Append(Top.path, m), Name[m][1] = Name[Entry][1]
      PROVE  e.path \in Walkable /\ (recursive \/ Len(e.path) <= 2)
  <2> DEFINE L == Len(Top.path)
  <2>1. m \in Node
    BY <1>1, ElementOfSeq DEF Range
  <2>2. m \notin Hidden
    BY <1>1, <1>7, <2>1 DEF Visible, Hidden
  <2>3. /\ L \in Nat \ {0} /\ Len(e.path) = L + 1
        /\ \A k \in 1..L : e.path[k] = Top.path[k]
        /\ e.path[L + 1] = m
    BY <1>1, <1>7, <2>1
  <2>4. ASSUME NEW k \in 1..Len(e.path) - 1
        PROVE  e.path[k + 1] \in Range(entries[e.path[k]]) /\ e.path[k + 1] \notin Hidden
    <3> HIDE DEF L
    <3>1. CASE k = L
      BY <1>1, <1>7, <2>2, <2>3, <3>1 DEF L
    <3>2. CASE k # L
      <4>1. k \in 1..L - 1 /\ k \in 1..L /\ k + 1 \in 1..L
        BY <2>3, <3>2
      <4> QED
        BY <1>3, <2>3, <4>1 DEF L
    <3> QED
      BY <3>1, <3>2
  <2>5. e.path[1] = Root
    BY <1>3, <2>3
  <2>6. e.path \in Walkable
    BY <1>4, <2>4, <2>5 DEF Walkable
  <2> QED
    BY <1>2, <2>3, <2>6
<1> QED
  BY <1>4, <1>5, <1>6, <1>7, EntryPathsAre

LEMMA InitInv == Init => IInv
<1> SUFFICES ASSUME Init PROVE IInv
  OBVIOUS
<1>1. TypeInv
  BY InitTypes
<1>2. stack = <<>> /\ Len(stack) = 0 /\ list = <<>> /\ Len(list) = 0 /\ yielded = <<>>
      /\ DOMAIN yielded = {} /\ opening.path = <<Root>> /\ pc = "create" /\ st = "FGREP_OK"
      /\ yielded \in Seq(Path)
  BY DEF Init
<1>3. opening.path \in Walkable /\ Len(opening.path) = 1
  BY <1>2, RootIsPath, ListAssumption
<1>4. WalkInv
  BY <1>2, <1>3 DEF WalkInv
<1>5. ListInv
  BY <1>2 DEF ListInv
<1> QED
  BY <1>1, <1>4, <1>5 DEF IInv

\* What a path may be does not change.
LEMMA WalkableStays == UNCHANGED entries => Walkable' = Walkable
BY DEF Walkable, Path

\* Unless something is removed, stat goes on to say the same.
LEMMA StatStays == UNCHANGED kind => StatOf' = StatOf
BY DEF StatOf, Stat, Path

\* A reason remains one.
LEMMA ReasonStays ==
  ASSUME Reason, UNCHANGED <<entries, recursive>>, UNCHANGED kind \/ failed', failed => failed'
  PROVE  Reason'
<1>1. CASE failed'
  BY <1>1 DEF Reason
<1>2. CASE ~failed'
  BY <1>2, WalkableStays, StatStays DEF Reason
<1> QED
  BY <1>1, <1>2

\* Outside walk_dir a status is set for an argument that does not exist, or
\* when memory runs out.
LEMMA WalkKeptOutside ==
  ASSUME ListAssumption, IInv,
         \/ CreateNoMemory \/ CreateMissing \/ CreateDirectory \/ CreateFile \/ CreateReturn
         \/ NextFile \/ Destroy
         \/ \E n \in Node : Vanish(n)
         \/ UNCHANGED vars
  PROVE  WalkInv'
<1>1. UNCHANGED <<entries, recursive, stack, opening>>
  BY DEF CreateNoMemory, CreateMissing, CreateDirectory, CreateFile, CreateReturn, NextFile,
         Destroy, Vanish, vars, callVars, listVars
<1>2. Walkable' = Walkable
  BY <1>1, WalkableStays
<1>3. (UNCHANGED kind \/ failed') /\ (failed => failed')
  BY DEF CreateNoMemory, CreateMissing, CreateDirectory, CreateFile, CreateReturn, NextFile,
         Destroy, Vanish, vars, callVars, listVars, AddFile
<1>4. /\ \A k \in 1..Len(stack') : stack'[k].path \in Walkable'
      /\ opening'.path \in Walkable'
      /\ recursive' \/ (Len(opening'.path) = 1
                        /\ \A k \in 1..Len(stack') : Len(stack'[k].path) = 1)
  BY <1>1, <1>2 DEF IInv, WalkInv
<1>5. pc' = "open" => failed' \/ StatOf'[opening'.path] \in {"directory", "locked"}
  <2>1. CASE CreateDirectory
    <3>1. opening.path = <<Root>> /\ StatOf[<<Root>>] = Stat(<<Root>>) /\ UNCHANGED kind
      BY <2>1, RootIsPath DEF CreateDirectory, IInv, TypeInv, DepthInv, StatOf
    <3>2. Stat(<<Root>>) \in {"directory", "locked"}
      BY <2>1 DEF CreateDirectory, IsDirectory
    <3> QED
      BY <1>1, <3>1, <3>2, StatStays
  <2>2. CASE ~CreateDirectory
    <3>1. pc' = "open" => pc = "open"
      BY <2>2 DEF CreateNoMemory, CreateMissing, CreateFile, CreateReturn, NextFile,
                  Destroy, Vanish, vars, Refuse
    <3> QED
      BY <1>1, <1>3, <3>1, StatStays DEF IInv, WalkInv
  <2> QED
    BY <2>1, <2>2
<1>6. st' # "FGREP_OK" => Reason'
  <2>1. CASE CreateMissing
    <3>1. StatOf[<<Root>>] = "gone" /\ UNCHANGED kind
      BY <2>1, RootIsPath DEF CreateMissing, StatOf
    <3> QED
      BY <3>1, StatStays DEF Reason
  <2>2. CASE ~CreateMissing
    <3>1. st' = st \/ failed'
      BY <2>2 DEF CreateNoMemory, CreateDirectory, CreateFile, CreateReturn, NextFile,
                  Destroy, Vanish, vars, Refuse, AddFile
    <3>2. CASE failed'
      BY <3>2 DEF Reason
    <3>3. CASE st' = st
      BY <1>1, <1>3, <3>3, ReasonStays DEF IInv, WalkInv
    <3> QED
      BY <3>1, <3>2, <3>3
  <2> QED
    BY <2>1, <2>2
<1>7. pc' = "refused" => st' # "FGREP_OK"
  BY DEF CreateNoMemory, CreateMissing, CreateDirectory, CreateFile, CreateReturn, NextFile,
         Destroy, Vanish, vars, Refuse, IInv, WalkInv
<1> QED
  BY <1>4, <1>5, <1>6, <1>7 DEF WalkInv

\* A directory that is there and cannot be opened is locked, or resources ran
\* out.
LEMMA WalkKeptByOpen ==
  ASSUME ListAssumption, IInv, OpenDir \/ OpenDirFails \/ StackOverflow
  PROVE  WalkInv'
<1>1. UNCHANGED <<entries, recursive, kind, opening>> /\ pc = "open" /\ (failed => failed')
  <2>1. UNCHANGED <<entries, recursive, kind, opening>> /\ pc = "open"
    BY DEF OpenDir, OpenDirFails, StackOverflow, callVars, listVars
  <2>2. failed' = failed \/ failed' = (failed \/ Stat(opening.path) = "directory")
    BY DEF OpenDir, OpenDirFails, StackOverflow
  <2>3. failed => failed'
    BY Zenon, <2>2
  <2> QED
    BY <2>1, <2>3
<1>2. Walkable' = Walkable /\ StatOf' = StatOf
  BY <1>1, WalkableStays, StatStays
<1>3. /\ opening \in Place /\ opening.path \in Walkable /\ opening.path \in Path
      /\ recursive \/ (Len(opening.path) = 1
                       /\ \A k \in 1..Len(stack) : Len(stack[k].path) = 1)
      /\ failed \/ StatOf[opening.path] \in {"directory", "locked"}
      /\ stack \in Seq(Frame) /\ Len(stack) \in Nat
      /\ \A k \in 1..Len(stack) : stack[k].path \in Walkable
  BY <1>1 DEF IInv, WalkInv, TypeInv, Types, Place
<1>4. StatOf[opening.path] = Stat(opening.path)
  BY <1>3 DEF StatOf
<1>5. CASE OpenDir
  <2> DEFINE f == [path |-> opening.path, size |-> opening.size, entry |-> 1]
  <2>1. f.path = opening.path /\ f \in Frame
    BY <1>3 DEF Frame, Place
  <2>2. stack' = Append(stack, f)
    BY <1>5 DEF OpenDir
  <2> HIDE DEF f
  <2>3. /\ Len(stack') = Len(stack) + 1
        /\ \A k \in 1..Len(stack') : stack'[k].path \in Walkable
    BY <1>3, <2>1, <2>2
  <2>4. st' # "FGREP_OK" => Reason'
    BY <1>1, <1>5, ReasonStays DEF OpenDir, IInv, WalkInv
  <2>5. recursive' \/ (Len(opening'.path) = 1
                       /\ \A k \in 1..Len(stack') : Len(stack'[k].path) = 1)
    BY <1>1, <1>3, <2>1, <2>2, <2>3
  <2> QED
    BY <1>1, <1>2, <1>3, <1>5, <2>3, <2>4, <2>5 DEF OpenDir, WalkInv
<1>6. CASE OpenDirFails
  <2>1. UNCHANGED stack /\ st' = "FGREP_ERR_IO" /\ pc' \in {"walked", "walk"}
    BY <1>6 DEF OpenDirFails
  <2>2. failed' \/ StatOf[opening.path] = "locked"
    BY <1>3, <1>4, <1>6 DEF OpenDirFails
  <2>3. Reason'
    BY <1>1, <1>2, <1>3, <2>2 DEF Reason
  <2> QED
    BY <1>1, <1>2, <1>3, <2>1, <2>3 DEF WalkInv, IInv
<1>7. CASE StackOverflow
  <2>1. UNCHANGED <<stack, st, failed>> /\ pc' = "crashed"
    BY <1>7 DEF StackOverflow
  <2>2. st' # "FGREP_OK" => Reason'
    BY <1>1, <2>1, ReasonStays DEF IInv, WalkInv
  <2> QED
    BY <1>1, <1>2, <1>3, <2>1, <2>2 DEF WalkInv
<1> QED
  BY <1>5, <1>6, <1>7

LEMMA WalkKeptByEntry ==
  ASSUME ListAssumption, IInv, IgnoreEntry \/ EnterDirectory \/ TakeFile
  PROVE  WalkInv'
<1>1. /\ HasEntry /\ PassOver /\ pc = "walk" /\ st = "FGREP_OK"
      /\ UNCHANGED <<entries, recursive, kind>>
      /\ failed => failed'
  BY DEF IgnoreEntry, EnterDirectory, TakeFile, HasEntry, callVars, listVars, AddFile
<1>2. Walkable' = Walkable /\ StatOf' = StatOf
  BY <1>1, WalkableStays, StatStays
<1>3. /\ Len(stack') = Len(stack) /\ Len(stack) \in Nat \ {0}
      /\ \A k \in 1..Len(stack) : stack'[k].path = stack[k].path
  BY <1>1, PassOverKeeps, TopIs DEF IInv, TypeInv, DepthInv
<1>4. \A k \in 1..Len(stack') : stack'[k].path \in Walkable'
  BY <1>2, <1>3 DEF IInv, WalkInv
<1>5. st' # "FGREP_OK" => Reason'
  BY <1>1 DEF IgnoreEntry, EnterDirectory, TakeFile, AddFile, Reason
<1>6. CASE EnterDirectory
  <2>1. PICK e \in EntryPaths : Enters(e.path) /\ opening' = e
    BY <1>6 DEF EnterDirectory
  <2>2. Visible /\ pc' = "open"
    BY <1>6 DEF EnterDirectory
  <2>3. recursive /\ Stat(e.path) \in {"directory", "locked"}
    BY <2>1 DEF Enters, IsDirectory
  <2>4. opening'.path \in Walkable /\ StatOf[opening'.path] = Stat(e.path)
    BY <1>1, <2>1, <2>2, EntryIsReached DEF IInv
  <2> QED
    BY <1>1, <1>2, <1>4, <1>5, <2>2, <2>3, <2>4 DEF WalkInv
<1>7. CASE IgnoreEntry \/ TakeFile
  <2>1. UNCHANGED <<opening, pc>>
    BY <1>7 DEF IgnoreEntry, TakeFile
  <2> QED
    BY <1>1, <1>2, <1>3, <1>4, <1>5, <2>1 DEF WalkInv, IInv
<1> QED
  BY <1>6, <1>7

LEMMA WalkKeptByClose ==
  ASSUME ListAssumption, IInv, CloseDir \/ ReaddirFails
  PROVE  WalkInv'
<1>1. /\ UNCHANGED <<entries, recursive, kind, opening, st, failed>>
      /\ pc' \in {"walked", "walk"} /\ stack' = Front(stack)
      /\ stack \in Seq(Frame) /\ Len(stack) \in Nat \ {0}
  BY DEF CloseDir, ReaddirFails, HasEntry, Leave, callVars, listVars, IInv, TypeInv, Types,
         DepthInv
<1>2. stack' = SubSeq(stack, 1, Len(stack) - 1)
  BY <1>1 DEF Front
<1>3. /\ Len(stack') = Len(stack) - 1
      /\ \A k \in 1..Len(stack) - 1 : stack'[k] = stack[k]
  BY <1>1, <1>2, WithoutLast
<1>4. Walkable' = Walkable
  BY <1>1, WalkableStays
<1>5. \A k \in 1..Len(stack') : stack'[k].path \in Walkable'
  BY <1>1, <1>3, <1>4 DEF IInv, WalkInv
<1>6. st' # "FGREP_OK" => Reason'
  BY <1>1, ReasonStays DEF IInv, WalkInv
<1>7. recursive' \/ (Len(opening'.path) = 1
                     /\ \A k \in 1..Len(stack') : Len(stack'[k].path) = 1)
  BY <1>1, <1>3 DEF IInv, WalkInv
<1> QED
  BY <1>1, <1>4, <1>5, <1>6, <1>7 DEF IInv, WalkInv

LEMMA AppendReached ==
  ASSUME NEW l \in Seq(Path), NEW p \in Path, Reached(p),
         \A k \in 1..Len(l) : Reached(l[k])
  PROVE  \A k \in 1..Len(Append(l, p)) : Reached(Append(l, p)[k])
<1> SUFFICES ASSUME NEW k \in 1..Len(Append(l, p)) PROVE Reached(Append(l, p)[k])
  OBVIOUS
<1>1. k \in 1..Len(l) \/ k = Len(l) + 1
  BY AppendProperties
<1>2. Append(l, p)[k] = IF k = Len(l) + 1 THEN p ELSE l[k]
  BY <1>1, AppendProperties
<1> QED
  BY <1>1, <1>2

\* Only regular files the walk came to are added, and only what was added is
\* returned.
LEMMA ListKept ==
  ASSUME ListAssumption, IInv, [Next]_vars
  PROVE  ListInv'
<1> DEFINE AllReached(l) == \A k \in 1..Len(l) : Reached(l[k])
<1>1. UNCHANGED <<entries, recursive>>
  BY DEF Next, Code, CreateNoMemory, CreateMissing, CreateDirectory, CreateFile, CreateReturn,
         OpenDir, OpenDirFails, StackOverflow, IgnoreEntry, EnterDirectory, TakeFile,
         CloseDir, ReaddirFails, Leave, NextFile, Destroy, Vanish, Done, vars, callVars
<1>2. Walkable' = Walkable
  BY <1>1, WalkableStays
<1>3. AllReached(list) /\ AllReached(yielded) /\ list \in Seq(Path) /\ yielded \in Seq(Path)
  BY DEF IInv, ListInv, TypeInv, Types
<1>4. AllReached(list')
  <2>1. CASE UNCHANGED list
    BY <1>3, <2>1
  <2>2. CASE CreateFile /\ ~UNCHANGED list
    <3>1. list' = Append(list, <<Root>>)
      BY <2>2 DEF CreateFile, AddFile
    <3>2. Reached(<<Root>>) /\ <<Root>> \in Path
      BY RootIsPath DEF Reached
    <3> QED
      BY <1>3, <3>1, <3>2, AppendReached
  <2>3. CASE TakeFile /\ ~UNCHANGED list
    <3>1. PICK e \in EntryPaths : list' = Append(list, e.path)
      BY <2>3 DEF TakeFile, AddFile
    <3>2. HasEntry /\ Visible
      BY <2>3 DEF TakeFile
    <3>3. Reached(e.path) /\ e.path \in Path
      BY <3>2, EntryIsReached DEF Reached, IInv
    <3> QED
      BY <1>3, <3>1, <3>3, AppendReached
  <2>4. CASE CreateReturn \/ Destroy
    <3>1. list' = list \/ list' = <<>>
      BY <2>4 DEF CreateReturn, Destroy
    <3> QED
      BY <1>3, <3>1
  <2> QED
    BY <2>1, <2>2, <2>3, <2>4
    DEF Next, Code, CreateNoMemory, CreateMissing, CreateDirectory,
        OpenDir, OpenDirFails, StackOverflow, IgnoreEntry, EnterDirectory,
        CloseDir, ReaddirFails, Leave, NextFile,
        Vanish, Done, vars, listVars
<1>5. AllReached(yielded') /\ yielded' \in Seq(Path)
  <2>1. CASE UNCHANGED yielded
    BY <1>3, <2>1
  <2>2. CASE NextFile
    <3>1. yielded' = Append(yielded, list[cursor]) /\ cursor \in 1..Len(list)
      BY <2>2 DEF NextFile, IInv, TypeInv, Types
    <3>2. list[cursor] \in Path /\ Reached(list[cursor])
      BY <1>3, <3>1, ElementOfSeq
    <3>3. yielded' \in Seq(Path)
      BY <1>3, <3>1, <3>2, AppendPath
    <3> QED
      BY <1>3, <3>1, <3>2, <3>3, AppendReached
  <2> QED
    BY <2>1, <2>2
    DEF Next, Code, CreateNoMemory, CreateMissing, CreateDirectory, CreateFile, CreateReturn,
        OpenDir, OpenDirFails, StackOverflow, IgnoreEntry, EnterDirectory, TakeFile,
        CloseDir, ReaddirFails, Leave, Destroy, Vanish, Done, vars, listVars
<1> QED
  BY <1>1, <1>2, <1>4, <1>5 DEF ListInv, Reached

LEMMA Invariant == Spec => []IInv
<1>1. Init => IInv
  BY InitInv
<1>2. ASSUME IInv, [Next]_vars PROVE IInv'
  <2>1. TypeInv'
    BY <1>2, TypesKept, ListAssumption DEF IInv
  <2>2. WalkInv'
    BY <1>2, WalkKeptOutside, WalkKeptByOpen, WalkKeptByEntry, WalkKeptByClose, ListAssumption
    DEF Next, Code, Done
  <2>3. ListInv'
    BY <1>2, ListKept, ListAssumption
  <2> QED
    BY <2>1, <2>2, <2>3 DEF IInv
<1> QED
  BY <1>1, <1>2, PTL DEF Spec

\* For every file system, and whatever others remove: the argument is refused
\* only if it does not exist, a directory the walk came to is locked, something
\* was removed, or resources ran out (src/fileutil.c:36, 68, 77-80).
THEOREM RefusalHasAReason == Spec => []RefusedForAReason
<1>1. ASSUME IInv PROVE RefusedForAReason
  <2> SUFFICES ASSUME pc = "refused"
               PROVE  \/ failed
                      \/ Stat(<<Root>>) = "gone"
                      \/ \E p \in Walkable : (recursive \/ Len(p) = 1) /\ Stat(p) = "locked"
    BY DEF RefusedForAReason
  <2>1. Reason
    BY <1>1 DEF IInv, WalkInv
  <2>2. \A p \in Path : StatOf[p] = Stat(p)
    BY DEF StatOf
  <2>3. Walkable \subseteq Path /\ <<Root>> \in Path
    BY RootIsPath, ListAssumption DEF Walkable
  <2> QED
    BY <2>1, <2>2, <2>3 DEF Reason
<1> QED
  BY <1>1, Invariant, PTL

\* Every path fgrep_filelist_next returns leads from the argument through
\* visible entries, and without -r it is an entry of the argument itself
\* (src/fileutil.c:41-57).
THEOREM ReturnsWhatItReached ==
  Spec => [](\A k \in DOMAIN yielded : Reached(yielded[k]))
<1>1. IInv => \A k \in DOMAIN yielded : Reached(yielded[k])
  BY DEF IInv, ListInv
<1> QED
  BY <1>1, Invariant, PTL
------------------------------------------------------------------------------
(* The list has every file once *)

\* What a directory is as long as it is there, and what has no entries.
TreeInv ==
  \A m \in Node :
    /\ IsInjective(entries[m])
    /\ kind[m] \in {"regular", "special"} => entries[m] = <<>>

RootIsDirectory == kind[Root] \in {"directory", "locked"}

Walking == pc \in {"open", "walk"} /\ st = "FGREP_OK" /\ AllFit

\* The path of an entry, if its name is not cut.
EntryPath == Append(Top.path, Entry)

\* The path of the directory the walk is at, or is about to open.
Spine == IF pc = "open" THEN opening.path ELSE stack[Len(stack)].path

Listed == {list[i] : i \in 1..Len(list)}

Below ==
  {p \in Walkable : Len(p) > 1 /\ StatOf[p] = "regular" /\ (recursive \/ Len(p) = 2)}

\* The directories of the stack are those along the spine, and each frame is just
\* behind the entry the spine goes on with.
ChainInv ==
  Walking =>
    /\ \A k \in 1..Len(stack) : \A j \in 1..k : stack[k].path[j] = Spine[j]
    /\ \A k \in 1..Len(Spine) - 1 :
         /\ stack[k].entry - 1 \in 1..Len(entries[Spine[k]])
         /\ entries[Spine[k]][stack[k].entry - 1] = Spine[k + 1]
    /\ \A j \in 1..Len(Spine) : kind[Spine[j]] \in {"directory", "locked", "gone"}

\* If readdir never failed, every file below an entry that a frame is past is
\* listed, unless the spine goes through that entry.
CoverInv ==
  Walking /\ AllRead =>
    \A p \in Below : \A k \in 1..Len(stack) :
      /\ k < Len(p)
      /\ \A j \in 1..k : p[j] = Spine[j]
      /\ \E i \in 1..stack[k].entry - 1 : entries[Spine[k]][i] = p[k + 1]
      => \/ p \in Listed
         \/ k < Len(Spine) /\ p[k + 1] = Spine[k + 1]

\* What is listed below a directory of the spine is below an entry its frame is
\* past; of a directory that is still to be opened nothing is listed.
FreshInv ==
  Walking =>
    \A q \in Listed : \A k \in 1..Len(Spine) :
      k <= Len(q) /\ (\A j \in 1..k : q[j] = Spine[j]) =>
        /\ k <= Len(stack)
        /\ k < Len(q)
        /\ \E i \in 1..stack[k].entry - 1 : entries[Spine[k]][i] = q[k + 1]

Complete == RootIsDirectory /\ AllFit /\ AllRead

\* When the walk is over all files are listed, each once.
DoneInv ==
  /\ (pc = "walked" /\ st = "FGREP_OK") \/ pc = "iterate" =>
       (Complete => Below \subseteq Listed)
  /\ AllFit => \A i, j \in 1..Len(list) : list[i] = list[j] => i = j

\* Of a directory regular files are listed, each of which is there or was removed.
RegularInv ==
  RootIsDirectory =>
    /\ \A i \in 1..Len(list) : Len(list[i]) > 1 /\ StatOf[list[i]] \in {"regular", "gone"}
    /\ \A i \in 1..Len(yielded) : Len(yielded[i]) > 1 /\ StatOf[yielded[i]] \in {"regular", "gone"}

\* What is returned is the beginning of the list, and in the end all of it.
GivenInv ==
  /\ pc = "create" => st = "FGREP_OK" /\ list = <<>>
  /\ pc \in {"create", "open", "walk", "walked"} => yielded = <<>>
  /\ pc = "iterate" =>
       /\ Len(yielded) = cursor - 1
       /\ \A i \in 1..Len(yielded) : yielded[i] = list[i]
  /\ pc = "destroyed" =>
       /\ Complete => Below \subseteq {yielded[i] : i \in 1..Len(yielded)}
       /\ AllFit => \A i, j \in 1..Len(yielded) : yielded[i] = yielded[j] => i = j

YieldInv ==
  TreeInv /\ ChainInv /\ CoverInv /\ FreshInv /\ DoneInv /\ RegularInv /\ GivenInv

LEMMA SpineIs ==
  ASSUME ListAssumption, TypeInv, Walking
  PROVE  /\ Len(stack) \in Nat
         /\ Spine \in Path /\ Spine \in Seq(Node)
         /\ Len(Spine) = IF pc = "open" THEN Len(stack) + 1 ELSE Len(stack)
         /\ Len(Spine) \in Nat \ {0}
         /\ \A j \in 1..Len(Spine) : Spine[j] \in Node
         /\ \A k \in 1..Len(stack) : /\ stack[k].path \in Seq(Node)
                                     /\ Len(stack[k].path) = k
                                     /\ stack[k].entry \in Nat \ {0}
<1>1. Len(stack) \in Nat /\ \A k \in 1..Len(stack) : stack[k] \in Frame
  BY ElementOfSeq DEF TypeInv, Types
<1>2. \A k \in 1..Len(stack) : /\ stack[k].path \in Path
                               /\ stack[k].path \in Seq(Node)
                               /\ Len(stack[k].path) = k
                               /\ stack[k].entry \in Nat \ {0}
  BY <1>1, PathIs DEF TypeInv, DepthInv, Frame, Walking, AllFit
<1>3. Spine \in Path /\ Len(Spine) = IF pc = "open" THEN Len(stack) + 1 ELSE Len(stack)
  <2>1. CASE pc = "open"
    BY <2>1 DEF Spine, TypeInv, Types, DepthInv, Place, Walking, AllFit
  <2>2. CASE pc = "walk"
    <3>1. Len(stack) \in 1..Len(stack)
      BY <1>1, <2>2 DEF TypeInv, DepthInv
    <3> QED
      BY <1>2, <2>2, <3>1 DEF Spine
  <2> QED
    BY <2>1, <2>2 DEF Walking
<1>4. Spine \in Seq(Node) /\ Len(Spine) \in Nat \ {0}
  BY <1>3, PathIs
<1>5. \A j \in 1..Len(Spine) : Spine[j] \in Node
  BY <1>4, ElementOfSeq
<1> QED
  BY <1>1, <1>2, <1>3, <1>4, <1>5

\* A path that resolves to a regular file leads through what is there.
LEMMA StatIs ==
  ASSUME ListAssumption, NEW p \in Path
  PROVE  /\ StatOf[p] = Stat(p)
         /\ Len(p) \in Nat \ {0} /\ \A j \in 1..Len(p) : p[j] \in Node
         /\ StatOf[p] # "gone" => StatOf[p] = kind[p[Len(p)]]
         /\ StatOf[p] # "gone" => \A j \in 1..Len(p) : kind[p[j]] # "gone"
<1>1. p \in Seq(Node) /\ Len(p) \in Nat \ {0}
  BY PathIs
<1>2. \A j \in 1..Len(p) : p[j] \in Node
  BY <1>1, ElementOfSeq
<1>3. StatOf[p] = Stat(p)
  BY DEF StatOf
<1>4. DOMAIN p = 1..Len(p)
  BY <1>1
<1>5. Stat(p) # "gone" =>
        /\ Stat(p) = kind[p[Len(p)]]
        /\ \A j \in 1..Len(p) : kind[p[j]] # "gone"
  BY <1>4 DEF Stat, Last
<1> QED
  BY <1>1, <1>2, <1>3, <1>5

\* A file is below a directory: the path goes on from it by one of its entries.
LEMMA BelowIs ==
  ASSUME ListAssumption, TypeInv, NEW p \in Below
  PROVE  /\ p \in Path /\ p[1] = Root /\ Len(p) \in Nat /\ Len(p) > 1
         /\ \A j \in 1..Len(p) : p[j] \in Node
         /\ \A k \in 1..Len(p) - 1 :
              \E i \in 1..Len(entries[p[k]]) : entries[p[k]][i] = p[k + 1]
         /\ \A k \in 1..Len(p) - 1 : p[k + 1] \notin Hidden
         /\ kind[p[Len(p)]] = "regular" /\ \A j \in 1..Len(p) : kind[p[j]] # "gone"
         /\ recursive \/ Len(p) = 2
<1>1. p \in Path /\ p \in Walkable /\ Len(p) > 1 /\ StatOf[p] = "regular"
  BY DEF Below, Walkable
<1>2. Len(p) \in Nat \ {0} /\ \A j \in 1..Len(p) : p[j] \in Node
  BY <1>1, StatIs
<1>3. ASSUME NEW k \in 1..Len(p) - 1
      PROVE  \E i \in 1..Len(entries[p[k]]) : entries[p[k]][i] = p[k + 1]
  <2>1. p[k + 1] \in Range(entries[p[k]])
    BY <1>1 DEF Walkable
  <2>2. p[k] \in Node
    BY <1>2
  <2>3. entries[p[k]] \in Seq(Node)
    BY <2>2 DEF TypeInv, Types
  <2>4. DOMAIN entries[p[k]] = 1..Len(entries[p[k]])
    BY <2>3
  <2> QED
    BY <2>1, <2>4 DEF Range
<1> QED
  BY <1>1, <1>2, <1>3, StatIs DEF Below, Walkable

LEMMA InitYield == ListAssumption /\ TreesAssumption /\ Init => YieldInv
<1> SUFFICES ASSUME ListAssumption, TreesAssumption, Init PROVE YieldInv
  OBVIOUS
<1>1. TreeInv
  <2> SUFFICES ASSUME NEW m \in Node
               PROVE  /\ IsInjective(entries[m])
                      /\ kind[m] \in {"regular", "special"} => entries[m] = <<>>
    BY DEF TreeInv
  <2> DEFINE names == [k \in DOMAIN entries[m] |-> Name[entries[m][k]]]
  <2>1. IsInjective(names) /\ (kind[m] \in {"regular", "special"} => entries[m] = <<>>)
    BY DEF Init, TreesAssumption
  <2>2. \A a, b \in DOMAIN entries[m] : names[a] = names[b] => a = b
    BY <2>1 DEF IsInjective
  <2> QED
    BY <2>1, <2>2 DEF IsInjective
<1>2. /\ list = <<>> /\ yielded = <<>> /\ Len(list) = 0 /\ Len(yielded) = 0
      /\ pc = "create" /\ st = "FGREP_OK"
  BY DEF Init
<1> QED
  BY <1>1, <1>2 DEF YieldInv, ChainInv, CoverInv, FreshInv, DoneInv, RegularInv, GivenInv, Walking

\* Who removes a node takes files away and leaves no new ones.
LEMMA RemovalKeeps ==
  ASSUME ListAssumption, TypeInv, UNCHANGED <<entries, recursive>>,
         UNCHANGED kind \/ \E n \in Node : kind' = [kind EXCEPT ![n] = "gone"]
  PROVE  /\ \A m \in Node : kind'[m] = kind[m] \/ kind'[m] = "gone"
         /\ TreeInv => TreeInv'
         /\ RootIsDirectory' => RootIsDirectory
         /\ Below' \subseteq Below
         /\ \A p \in Path : StatOf'[p] = StatOf[p] \/ StatOf'[p] = "gone"
<1>1. \A m \in Node : kind'[m] = kind[m] \/ kind'[m] = "gone"
  BY DEF TypeInv, Types
<1>2. TreeInv => TreeInv'
  BY <1>1 DEF TreeInv
<1>3. RootIsDirectory' => RootIsDirectory
  BY <1>1 DEF RootIsDirectory, ListAssumption
<1>4. ASSUME NEW p \in Path
      PROVE  StatOf'[p] = StatOf[p] \/ StatOf'[p] = "gone"
  <2> DEFINE winding == Cardinality({k \in DOMAIN p : p[k] \in Link}) > MaxLinks
  <2>1. StatOf'[p] = IF (\E k \in DOMAIN p : kind'[p[k]] = "gone") \/ winding
                       THEN "gone" ELSE kind'[Last(p)]
    BY DEF StatOf, Stat, Path
  <2>2. StatOf[p] = IF (\E k \in DOMAIN p : kind[p[k]] = "gone") \/ winding
                      THEN "gone" ELSE kind[Last(p)]
    BY DEF StatOf, Stat, Path
  <2> HIDE DEF winding
  <2>3. p \in Seq(Node) /\ Len(p) \in 1..Len(p)
    BY PathIs
  <2>4. Last(p) \in Node /\ \A k \in DOMAIN p : p[k] \in Node
    BY <2>3, ElementOfSeq DEF Last
  <2> QED
    BY <1>1, <2>1, <2>2, <2>4
<1>5. Walkable' = Walkable
  BY WalkableStays
<1>6. Below' \subseteq Below
  <2>1. \A p \in Walkable : p \in Path
    BY DEF Walkable
  <2>2. \A p \in Path : StatOf'[p] = "regular" => StatOf[p] = "regular"
    BY <1>4
  <2> QED
    BY <1>5, <2>1, <2>2 DEF Below
<1> QED
  BY <1>1, <1>2, <1>3, <1>4, <1>6

\* A node that is removed changes nothing of the walk itself.
LEMMA YieldKeptByOthers ==
  ASSUME ListAssumption, IInv, YieldInv, (\E n \in Node : Vanish(n)) \/ UNCHANGED vars
  PROVE  YieldInv'
<1>1. UNCHANGED <<entries, recursive, stack, list, opening, pc, st, cursor, yielded, AllFit, AllRead>>
  BY DEF Vanish, vars, callVars, listVars, pathVars, AllFit, AllRead
<1>2. UNCHANGED kind \/ \E n \in Node : kind' = [kind EXCEPT ![n] = "gone"]
  BY DEF Vanish, vars, callVars, listVars
<1>3. /\ \A m \in Node : kind'[m] = kind[m] \/ kind'[m] = "gone"
      /\ TreeInv => TreeInv'
      /\ RootIsDirectory' => RootIsDirectory
      /\ Below' \subseteq Below
      /\ \A p \in Path : StatOf'[p] = StatOf[p] \/ StatOf'[p] = "gone"
  BY <1>1, <1>2, RemovalKeeps DEF IInv
<1>4. Listed' = Listed /\ Spine' = Spine /\ Walking' = Walking
  BY <1>1 DEF Listed, Spine, Walking
<1>5. TreeInv'
  BY <1>3 DEF YieldInv
<1>6. ChainInv'
  <2> SUFFICES ASSUME Walking PROVE ChainInv'
    BY <1>4 DEF ChainInv
  <2>1. \A j \in 1..Len(Spine) : Spine[j] \in Node
    BY SpineIs DEF IInv
  <2>2. \A j \in 1..Len(Spine) : kind'[Spine[j]] \in {"directory", "locked", "gone"}
    BY <1>3, <2>1 DEF YieldInv, ChainInv
  <2> QED
    BY <1>1, <1>4, <2>2 DEF YieldInv, ChainInv
<1>7. CoverInv'
  <2> SUFFICES ASSUME Walking', AllRead', NEW p \in Below', NEW k \in 1..Len(stack'),
                      k < Len(p), \A j \in 1..k : p[j] = Spine'[j],
                      \E i \in 1..stack'[k].entry - 1 : entries'[Spine'[k]][i] = p[k + 1]
               PROVE  p \in Listed' \/ (k < Len(Spine') /\ p[k + 1] = Spine'[k + 1])
    BY DEF CoverInv
  <2>1. /\ Walking /\ AllRead /\ p \in Below
        /\ stack' = stack /\ entries' = entries /\ Spine' = Spine /\ Listed' = Listed
    BY <1>1, <1>3, <1>4
  <2> QED
    BY <2>1 DEF YieldInv, CoverInv
<1>8. FreshInv'
  <2> SUFFICES ASSUME Walking', NEW q \in Listed', NEW k \in 1..Len(Spine'),
                      k <= Len(q), \A j \in 1..k : q[j] = Spine'[j]
               PROVE  /\ k <= Len(stack')
                      /\ k < Len(q)
                      /\ \E i \in 1..stack'[k].entry - 1 : entries'[Spine'[k]][i] = q[k + 1]
    BY DEF FreshInv
  <2>1. Walking /\ stack' = stack /\ entries' = entries /\ Spine' = Spine /\ Listed' = Listed
    BY <1>1, <1>4
  <2> QED
    BY <2>1 DEF YieldInv, FreshInv
<1>9. DoneInv'
  BY <1>1, <1>3, <1>4 DEF YieldInv, DoneInv, Complete
<1>10. RegularInv'
  <2>1. \A i \in 1..Len(list) : list[i] \in Path
    BY ElementOfSeq DEF IInv, TypeInv, Types
  <2>2. \A i \in 1..Len(yielded) : yielded[i] \in Path
    BY ElementOfSeq DEF IInv, ListInv
  <2> QED
    BY <1>1, <1>3, <2>1, <2>2 DEF YieldInv, RegularInv
<1>11. GivenInv'
  BY <1>1, <1>3 DEF YieldInv, GivenInv, Complete
<1> QED
  BY <1>5, <1>6, <1>7, <1>8, <1>9, <1>10, <1>11 DEF YieldInv

\* The file systems and the paths in them stay as they are while the code goes on.
LEMMA CodeKeepsTree ==
  ASSUME UNCHANGED <<kind, entries, recursive>>, TreeInv
  PROVE  TreeInv' /\ RootIsDirectory' = RootIsDirectory /\ Below' = Below /\ StatOf' = StatOf
<1>1. StatOf' = StatOf /\ Walkable' = Walkable
  BY StatStays, WalkableStays
<1> QED
  BY <1>1 DEF TreeInv, RootIsDirectory, Below

\* What is returned comes off the list in its order.
LEMMA YieldKeptOutside ==
  ASSUME ListAssumption, IInv, YieldInv,
         \/ CreateNoMemory \/ CreateMissing \/ CreateDirectory \/ CreateFile \/ CreateReturn
         \/ NextFile \/ Destroy
  PROVE  YieldInv'
<1>1. UNCHANGED <<kind, entries, recursive, stack, opening, AllFit, AllRead>>
  BY DEF CreateNoMemory, CreateMissing, CreateDirectory, CreateFile, CreateReturn, NextFile,
         Destroy, callVars, listVars, pathVars, AllFit, AllRead
<1>2. TreeInv' /\ RootIsDirectory' = RootIsDirectory /\ Below' = Below /\ StatOf' = StatOf
  BY <1>1, CodeKeepsTree DEF YieldInv
<1>3. list \in Seq(Path) /\ yielded \in Seq(Path) /\ Len(list) \in Nat /\ Len(yielded) \in Nat
      /\ cursor \in 1..Len(list) + 1
  BY DEF IInv, TypeInv, Types, ListInv
<1>4. pc = "create" =>
        /\ st = "FGREP_OK" /\ list = <<>> /\ yielded = <<>> /\ stack = <<>>
        /\ opening.path = <<Root>> /\ Len(list) = 0 /\ Len(yielded) = 0 /\ Len(stack) = 0
  BY EmptySeq DEF YieldInv, GivenInv, IInv, TypeInv, Types, DepthInv
<1>5. CASE CreateNoMemory \/ CreateMissing
  <2>1. pc' = "refused" /\ UNCHANGED <<list, yielded, cursor>> /\ pc = "create"
    BY <1>5 DEF CreateNoMemory, CreateMissing, Refuse, listVars
  <2> QED
    BY <1>2, <1>4, <2>1
    DEF YieldInv, ChainInv, CoverInv, FreshInv, DoneInv, RegularInv, GivenInv, Walking, Complete
<1>6. CASE CreateDirectory
  <2>1. /\ pc = "create" /\ pc' = "open" /\ UNCHANGED <<list, yielded, cursor, st>>
        /\ IsDirectory(<<Root>>)
    BY <1>6 DEF CreateDirectory, listVars
  <2>2. Spine' = <<Root>> /\ Len(Spine') = 1 /\ Spine'[1] = Root /\ Listed' = {}
        /\ Len(stack') = 0
    <3>1. list' = <<>> /\ Len(list') = 0 /\ Len(stack') = 0 /\ opening'.path = <<Root>>
      BY <1>1, <1>4, <2>1
    <3>2. Spine' = <<Root>>
      BY <2>1, <3>1 DEF Spine
    <3>3. Listed' = {}
      BY <3>1 DEF Listed
    <3> QED
      BY <3>1, <3>2, <3>3
  <2>3. kind'[Root] \in {"directory", "locked"}
    <3>1. Stat(<<Root>>) \in {"directory", "locked"}
      BY <2>1 DEF IsDirectory
    <3>2. Stat(<<Root>>) # "gone" => Stat(<<Root>>) = kind[Root]
      BY RootIsPath, StatIs
    <3> QED
      BY <1>1, <3>1, <3>2
  <2>4. ChainInv'
    BY <2>2, <2>3 DEF ChainInv
  <2>5. CoverInv' /\ FreshInv'
    BY <2>2 DEF CoverInv, FreshInv
  <2> QED
    BY <1>2, <1>4, <2>1, <2>4, <2>5 DEF YieldInv, DoneInv, RegularInv, GivenInv
<1>7. CASE CreateFile
  <2>1. pc = "create" /\ pc' = "walked" /\ UNCHANGED <<yielded, cursor>>
        /\ Stat(<<Root>>) \in {"regular", "special"}
        /\ (list' = Append(list, <<Root>>) \/ list' = list)
    BY <1>7 DEF CreateFile, AddFile
  <2>2. ~RootIsDirectory
    <3>1. Stat(<<Root>>) # "gone" => Stat(<<Root>>) = kind[Root]
      BY RootIsPath, StatIs
    <3> QED
      BY <2>1, <3>1 DEF RootIsDirectory
  <2>3. \A i, j \in 1..Len(list') : list'[i] = list'[j] => i = j
    BY <1>4, <2>1
  <2> QED
    BY <1>2, <1>4, <2>1, <2>2, <2>3
    DEF YieldInv, ChainInv, CoverInv, FreshInv, DoneInv, RegularInv, GivenInv, Walking, Complete
<1>8. CASE CreateReturn
  <2>1. pc = "walked" /\ UNCHANGED yielded /\ yielded = <<>> /\ Len(yielded) = 0
    BY <1>8 DEF CreateReturn, YieldInv, GivenInv
  <2>2. CASE st = "FGREP_OK"
    <3>1. pc' = "iterate" /\ cursor' = 1 /\ UNCHANGED list
      BY <1>8, <2>2 DEF CreateReturn
    <3>2. Listed' = Listed
      BY <3>1 DEF Listed
    <3> QED
      BY <1>1, <1>2, <2>1, <2>2, <3>1, <3>2
      DEF YieldInv, ChainInv, CoverInv, FreshInv, DoneInv, RegularInv, GivenInv, Walking,
          Complete
  <2>3. CASE st # "FGREP_OK"
    <3>1. pc' = "refused" /\ list' = <<>> /\ Len(list') = 0
      BY <1>8, <2>3 DEF CreateReturn, Refuse
    <3> QED
      BY <1>2, <2>1, <3>1
      DEF YieldInv, ChainInv, CoverInv, FreshInv, DoneInv, RegularInv, GivenInv, Walking, Complete
  <2> QED
    BY <2>2, <2>3
<1>9. CASE NextFile
  <2>1. /\ pc = "iterate" /\ UNCHANGED <<pc, st, list>> /\ cursor \in 1..Len(list)
        /\ yielded' = Append(yielded, list[cursor]) /\ cursor' = cursor + 1
    BY <1>3, <1>9 DEF NextFile
  <2>2. /\ Len(yielded) = cursor - 1 /\ list[cursor] \in Path
        /\ \A i \in 1..Len(yielded) : yielded[i] = list[i]
    BY <1>3, <2>1, ElementOfSeq DEF YieldInv, GivenInv
  <2>3. Len(yielded') = cursor /\ \A i \in 1..cursor : yielded'[i] = list[i]
    BY <1>3, <2>1, <2>2
  <2>4. Listed' = Listed
    BY <2>1 DEF Listed
  <2>5. DoneInv' /\ GivenInv'
    BY <1>1, <1>2, <2>1, <2>3, <2>4 DEF YieldInv, DoneInv, GivenInv, Complete
  <2>6. RegularInv'
    <3>1. RootIsDirectory =>
            \A i \in 1..Len(list) : Len(list[i]) > 1 /\ StatOf[list[i]] \in {"regular", "gone"}
      BY DEF YieldInv, RegularInv
    <3>2. \A i \in 1..cursor : i \in 1..Len(list)
      BY <1>3, <2>1
    <3> QED
      BY <1>2, <2>1, <2>3, <3>1, <3>2 DEF RegularInv
  <2> QED
    BY <1>2, <2>1, <2>5, <2>6 DEF YieldInv, ChainInv, CoverInv, FreshInv, Walking
<1>10. CASE Destroy
  <2>1. /\ pc = "iterate" /\ pc' = "destroyed" /\ list' = <<>> /\ Len(list') = 0
        /\ cursor > Len(list) /\ UNCHANGED yielded
    BY <1>10 DEF Destroy
  <2>2. Len(yielded) = Len(list) /\ \A i \in 1..Len(list) : yielded[i] = list[i]
    BY <1>3, <2>1 DEF YieldInv, GivenInv
  <2>3. {yielded[i] : i \in 1..Len(yielded)} = Listed
    BY <2>2 DEF Listed
  <2>4. GivenInv'
    BY <1>1, <1>2, <2>1, <2>2, <2>3 DEF YieldInv, DoneInv, GivenInv, Complete
  <2> QED
    BY <1>2, <2>1, <2>4
    DEF YieldInv, ChainInv, CoverInv, FreshInv, DoneInv, RegularInv, Walking
<1> QED
  BY <1>5, <1>6, <1>7, <1>8, <1>9, <1>10

\* The steps of walk_dir that add nothing to the list.
LEMMA RestKept ==
  ASSUME ListAssumption, IInv, YieldInv,
         UNCHANGED <<kind, entries, recursive, list, yielded>>,
         pc \in {"open", "walk"}, pc' \in {"open", "walk", "walked"},
         AllFit' => AllFit, AllRead' => AllRead,
         pc' = "walked" /\ st' = "FGREP_OK" /\ AllFit' /\ AllRead' =>
           (RootIsDirectory => Below \subseteq Listed)
  PROVE  /\ TreeInv' /\ DoneInv' /\ RegularInv' /\ GivenInv'
         /\ Below' = Below /\ Listed' = Listed
<1>1. TreeInv' /\ RootIsDirectory' = RootIsDirectory /\ Below' = Below /\ StatOf' = StatOf
  BY CodeKeepsTree DEF YieldInv
<1>2. Listed' = Listed
  BY DEF Listed
<1>3. DoneInv'
  BY <1>1, <1>2 DEF YieldInv, DoneInv, Complete
<1>4. RegularInv'
  BY <1>1 DEF YieldInv, RegularInv
<1>5. GivenInv'
  BY DEF YieldInv, GivenInv
<1> QED
  BY <1>1, <1>2, <1>3, <1>4, <1>5

\* A process that dies lists nothing more.
LEMMA YieldKeptByCrash ==
  ASSUME ListAssumption, IInv, YieldInv, StackOverflow
  PROVE  YieldInv'
<1>1. UNCHANGED <<kind, entries, recursive, list, yielded, AllFit, AllRead>> /\ pc' = "crashed"
  BY DEF StackOverflow, callVars, listVars, pathVars, AllFit, AllRead
<1>2. TreeInv' /\ RootIsDirectory' = RootIsDirectory /\ Below' = Below /\ StatOf' = StatOf
  BY <1>1, CodeKeepsTree DEF YieldInv
<1> QED
  BY <1>1, <1>2
  DEF YieldInv, ChainInv, CoverInv, FreshInv, DoneInv, RegularInv, GivenInv, Walking

\* Of a directory that was just opened nothing is listed and no entry is behind.
LEMMA YieldKeptByOpen ==
  ASSUME ListAssumption, IInv, YieldInv, OpenDir \/ OpenDirFails
  PROVE  YieldInv'
<1>1. /\ UNCHANGED <<kind, entries, recursive, list, yielded, opening, AllFit, AllRead>>
      /\ pc = "open" /\ pc' \in {"open", "walk", "walked"}
      /\ pc' = "walked" => st' = "FGREP_ERR_IO"
  BY DEF OpenDir, OpenDirFails, callVars, listVars, pathVars, AllFit, AllRead
<1>2. TreeInv' /\ DoneInv' /\ RegularInv' /\ GivenInv' /\ Below' = Below /\ Listed' = Listed
  BY <1>1, RestKept
<1>3. CASE OpenDirFails
  <2>1. ~Walking'
    BY <1>3 DEF OpenDirFails, Walking
  <2> QED
    BY <1>2, <2>1 DEF YieldInv, ChainInv, CoverInv, FreshInv
<1>4. CASE OpenDir /\ ~Walking'
  BY <1>2, <1>4 DEF YieldInv, ChainInv, CoverInv, FreshInv
<1>5. CASE OpenDir /\ Walking'
  <2> DEFINE f == [path |-> opening.path, size |-> opening.size, entry |-> 1]
             n == Len(stack)
  <2>1. Walking /\ pc' = "walk"
    BY <1>1, <1>5 DEF OpenDir, Walking
  <2>2. f.path = opening.path /\ f.entry = 1 /\ stack' = Append(stack, f)
    BY <1>5 DEF OpenDir
  <2> HIDE DEF f
  <2>3. /\ n \in Nat /\ Len(Spine) = n + 1 /\ Spine = opening.path
        /\ \A k \in 1..n : stack[k].entry \in Nat \ {0}
    BY <1>1, <2>1, SpineIs DEF IInv, Spine
  <2>4. /\ Len(stack') = n + 1 /\ stack'[n + 1] = f
        /\ \A k \in 1..n : stack'[k] = stack[k]
    BY <2>2, <2>3 DEF IInv, TypeInv, Types
  <2> HIDE DEF n
  <2>5. Spine' = Spine
    BY <2>1, <2>2, <2>3, <2>4 DEF Spine
  <2>6. ChainInv /\ CoverInv /\ FreshInv
    BY DEF YieldInv
  <2>7. ChainInv'
    <3>1. ASSUME NEW k \in 1..n + 1, NEW j \in 1..k
          PROVE  stack'[k].path[j] = Spine[j]
      <4>1. CASE k \in 1..n
        BY <2>1, <2>4, <2>6, <4>1 DEF ChainInv, n
      <4>2. CASE k = n + 1
        BY <2>2, <2>3, <2>4, <4>2
      <4> QED
        BY <2>3, <4>1, <4>2
    <3>2. ASSUME NEW k \in 1..n
          PROVE  /\ stack'[k].entry - 1 \in 1..Len(entries[Spine[k]])
                 /\ entries[Spine[k]][stack'[k].entry - 1] = Spine[k + 1]
      <4>1. k \in 1..Len(Spine) - 1
        BY <2>3
      <4> QED
        BY <2>1, <2>4, <2>6, <4>1 DEF ChainInv
    <3>3. \A j \in 1..Len(Spine) : kind[Spine[j]] \in {"directory", "locked", "gone"}
      BY <2>1, <2>6 DEF ChainInv
    <3>4. Len(Spine) - 1 = n
      BY <2>3
    <3> QED
      BY <1>1, <2>4, <2>5, <3>1, <3>2, <3>3, <3>4 DEF ChainInv
  <2>8. CoverInv'
    <3> SUFFICES ASSUME AllRead', NEW p \in Below', NEW k \in 1..Len(stack'),
                        k < Len(p), \A j \in 1..k : p[j] = Spine'[j],
                        NEW i \in 1..stack'[k].entry - 1, entries'[Spine'[k]][i] = p[k + 1]
                 PROVE  p \in Listed' \/ (k < Len(Spine') /\ p[k + 1] = Spine'[k + 1])
      BY DEF CoverInv
    <3>0. /\ AllRead /\ p \in Below /\ k \in 1..n + 1 /\ Listed' = Listed
          /\ Spine' = Spine /\ entries' = entries
      BY <1>1, <1>2, <2>4, <2>5
    <3>1. k # n + 1
      BY <2>2, <2>4
    <3>2. k \in 1..n
      BY <2>3, <3>0, <3>1
    <3>3. stack'[k] = stack[k]
      BY <2>4, <3>2
    <3>4. i \in 1..stack[k].entry - 1 /\ entries[Spine[k]][i] = p[k + 1]
      BY <3>0, <3>3
    <3>5. p \in Listed \/ (k < Len(Spine) /\ p[k + 1] = Spine[k + 1])
      BY <2>1, <2>6, <3>0, <3>2, <3>4 DEF CoverInv, n
    <3> QED
      BY <3>0, <3>5
  <2>9. FreshInv'
    <3> SUFFICES ASSUME NEW q \in Listed', NEW k \in 1..Len(Spine'),
                        k <= Len(q), \A j \in 1..k : q[j] = Spine'[j]
                 PROVE  /\ k <= Len(stack')
                        /\ k < Len(q)
                        /\ \E i \in 1..stack'[k].entry - 1 : entries'[Spine'[k]][i] = q[k + 1]
      BY DEF FreshInv
    <3>0. /\ q \in Listed /\ k \in 1..Len(Spine) /\ \A j \in 1..k : q[j] = Spine[j]
          /\ Len(stack') = n + 1 /\ entries' = entries /\ Spine' = Spine
      BY <1>1, <1>2, <2>4, <2>5
    <3>1. /\ k <= n
          /\ k < Len(q)
          /\ \E i \in 1..stack[k].entry - 1 : entries[Spine[k]][i] = q[k + 1]
      BY <2>1, <2>6, <3>0 DEF FreshInv, n
    <3>2. k \in 1..n /\ k <= n + 1
      BY <2>3, <3>0, <3>1
    <3>3. stack'[k] = stack[k]
      BY <2>4, <3>2
    <3> QED
      BY <3>0, <3>1, <3>2, <3>3
  <2> QED
    BY <1>2, <2>7, <2>8, <2>9 DEF YieldInv
<1> QED
  BY <1>3, <1>4, <1>5

\* Where the walk is when readdir has returned an entry.
LEMMA AtEntry ==
  ASSUME ListAssumption, IInv, HasEntry, PassOver, AllFit'
  PROVE  /\ Walking /\ Len(stack) \in Nat \ {0} /\ Len(Spine) = Len(stack)
         /\ Spine = Top.path /\ Top = stack[Len(stack)]
         /\ Top.entry \in 1..Len(entries[Spine[Len(stack)]])
         /\ Spine[Len(stack)] \in Node
         /\ Entry = entries[Spine[Len(stack)]][Top.entry] /\ Entry \in Node
         /\ Len(EntryPath) = Len(stack) + 1
         /\ \A j \in 1..Len(stack) : EntryPath[j] = Spine[j]
         /\ EntryPath[Len(stack) + 1] = Entry
         /\ Len(stack') = Len(stack)
         /\ \A k \in 1..Len(stack) : stack'[k].path = stack[k].path
         /\ \A k \in 1..Len(stack) :
              stack'[k].entry = IF k = Len(stack) THEN Top.entry + 1 ELSE stack[k].entry
<1>1. /\ Len(stack) \in Nat \ {0} /\ Top \in Frame /\ Len(Top.path) = Len(stack)
      /\ Top.path \in Seq(Node)
      /\ Entry \in Node /\ EntryPath = Append(Top.path, Entry)
      /\ Len(EntryPath) = Len(stack) + 1
  <2>1. /\ Len(stack) \in Nat \ {0} /\ Top \in Frame /\ Top = stack[Len(stack)]
        /\ Top.path \in Seq(Node) /\ Entry \in Node
    BY TopIs DEF IInv
  <2>2. Len(Top.path) = Len(stack)
    <3>1. AllFit
      BY Zenon DEF PassOver, AllFit
    <3>2. Len(stack) \in 1..Len(stack)
      BY <2>1
    <3> QED
      BY <2>1, <3>1, <3>2 DEF IInv, TypeInv, DepthInv, AllFit
  <2>3. EntryPath = Append(Top.path, Entry)
    BY DEF EntryPath
  <2>4. Len(EntryPath) = Len(stack) + 1
    BY <2>1, <2>2, <2>3, AppendProperties
  <2> QED
    BY <2>1, <2>2, <2>3, <2>4
<1>2. Walking /\ pc = "walk"
  <2>1. AllFit
    BY Zenon DEF PassOver, AllFit
  <2> QED
    BY <2>1 DEF HasEntry, Walking
<1>3. Spine = Top.path /\ Len(Spine) = Len(stack) /\ Top = stack[Len(stack)]
  BY <1>1, <1>2 DEF Spine, Top
<1>4. Last(Top.path) = Spine[Len(stack)]
  BY <1>1, <1>3 DEF Last
<1>5. Spine[Len(stack)] \in Node /\ Spine \in Seq(Node)
  <2>1. Len(stack) \in 1..Len(Spine)
    BY <1>1, <1>3
  <2> QED
    BY <1>2, <2>1, SpineIs DEF IInv
<1>6. entries[Spine[Len(stack)]] \in Seq(Node)
  BY <1>5 DEF IInv, TypeInv, Types
<1>7. Top.entry \in 1..Len(entries[Spine[Len(stack)]])
      /\ Entry = entries[Spine[Len(stack)]][Top.entry]
  BY <1>1, <1>4, <1>6 DEF HasEntry, EntriesOfTop, Entry, Frame
<1>8. /\ \A j \in 1..Len(stack) : EntryPath[j] = Spine[j]
      /\ EntryPath[Len(stack) + 1] = Entry
  BY <1>1, <1>3, <1>5
<1>9. /\ Len(stack') = Len(stack)
      /\ \A k \in 1..Len(stack) : stack'[k].path = stack[k].path
  BY <1>1, PassOverKeeps DEF IInv
<1>10. ASSUME NEW k \in 1..Len(stack)
       PROVE  stack'[k].entry = IF k = Len(stack) THEN Top.entry + 1 ELSE stack[k].entry
  <2>1. stack' = [stack EXCEPT ![Len(stack)] = [Top EXCEPT !.entry = @ + 1]]
    BY <1>3 DEF PassOver
  <2>2. [Top EXCEPT !.entry = @ + 1].entry = Top.entry + 1
    BY <1>1 DEF Frame
  <2> DEFINE top == [Top EXCEPT !.entry = @ + 1]
  <2>3. stack' = [stack EXCEPT ![Len(stack)] = top] /\ top.entry = Top.entry + 1
    BY <2>1, <2>2
  <2> HIDE DEF top
  <2>4. stack \in Seq(Frame)
    BY DEF IInv, TypeInv, Types
  <2> QED
    BY <1>1, <2>3, <2>4
<1> QED
  BY <1>1, <1>2, <1>3, <1>5, <1>7, <1>8, <1>9, <1>10

\* A file below the entry that is looked at is the entry itself, or the walk goes
\* on in it.
LEMMA ThroughEntry ==
  ASSUME ListAssumption, IInv, YieldInv, HasEntry, PassOver, AllFit', NEW p \in Below,
         Len(stack) < Len(p), \A j \in 1..Len(stack) : p[j] = Spine[j],
         p[Len(stack) + 1] = Entry
  PROVE  /\ Visible
         /\ (p = EntryPath /\ Stat(EntryPath) = "regular") \/ Enters(EntryPath)
<1> DEFINE n == Len(stack)
<1>1. /\ n \in Nat \ {0} /\ Len(EntryPath) = n + 1 /\ EntryPath[n + 1] = Entry /\ Entry \in Node
      /\ \A j \in 1..n : EntryPath[j] = Spine[j]
  BY AtEntry
<1>2. /\ p \in Path /\ Len(p) \in Nat /\ \A j \in 1..Len(p) : p[j] \in Node
      /\ \A k \in 1..Len(p) - 1 :
           \E i \in 1..Len(entries[p[k]]) : entries[p[k]][i] = p[k + 1]
      /\ \A k \in 1..Len(p) - 1 : p[k + 1] \notin Hidden
      /\ kind[p[Len(p)]] = "regular" /\ \A j \in 1..Len(p) : kind[p[j]] # "gone"
      /\ recursive \/ Len(p) = 2
  BY BelowIs DEF IInv
<1>3. n < Len(p) /\ (\A j \in 1..n : p[j] = Spine[j]) /\ p[n + 1] = Entry
  OBVIOUS
<1>4. EntryPath \in Seq(Node) /\ p \in Seq(Node)
  <2>1. Top.path \in Seq(Node)
    BY TopIs DEF IInv
  <2> QED
    BY <1>1, <1>2, <2>1, PathIs DEF EntryPath
<1> HIDE DEF n
<1>5. Visible
  <2>1. n \in 1..Len(p) - 1
    BY <1>1, <1>2, <1>3
  <2>2. p[n + 1] \notin Hidden
    BY <1>2, <2>1
  <2> QED
    BY <1>3, <2>2 DEF Visible
<1>6. ASSUME NEW j \in 1..n + 1 PROVE EntryPath[j] = p[j]
  <2>1. j \in 1..n \/ j = n + 1
    BY <1>1
  <2> QED
    BY <1>1, <1>3, <2>1
<1>7. Stat(EntryPath) = kind[Entry]
  <2>1. DOMAIN EntryPath = 1..n + 1 /\ DOMAIN p = 1..Len(p) /\ Len(p) \in Nat
    BY <1>1, <1>2, <1>4
  <2>2. \A k \in 1..n + 1 : k \in 1..Len(p) /\ EntryPath[k] = p[k]
    BY <1>1, <1>2, <1>3, <1>6
  <2>4. \A k \in DOMAIN EntryPath : kind[EntryPath[k]] # "gone"
    BY <1>2, <2>1, <2>2
  <2>5. ~(Cardinality({k \in DOMAIN EntryPath : EntryPath[k] \in Link}) > MaxLinks)
    <3> DEFINE all == {k \in DOMAIN p : p[k] \in Link}
               some == {k \in DOMAIN EntryPath : EntryPath[k] \in Link}
    <3>1. IsFiniteSet(DOMAIN p)
      BY <2>1, FS_Interval
    <3>2. some \subseteq all /\ all \subseteq DOMAIN p
      BY <2>1, <2>2
    <3>3. IsFiniteSet(all)
      BY <3>1, <3>2, FS_Subset
    <3> HIDE DEF some, all
    <3>4. /\ Cardinality(some) \in Nat /\ Cardinality(all) \in Nat
          /\ Cardinality(some) <= Cardinality(all)
      BY <3>2, <3>3, FS_Subset, FS_CardinalityType
    <3>5. ~(Cardinality(all) > MaxLinks)
      <4>1. Stat(p) # "gone"
        BY <1>2, StatIs DEF Below
      <4> QED
        BY <4>1 DEF Stat, all
    <3> QED
      BY <3>4, <3>5 DEF ListAssumption, some
  <2>3. Last(EntryPath) = Entry
    BY <1>1 DEF Last
  <2> QED
    BY <2>3, <2>4, <2>5 DEF Stat
<1>8. CASE Len(p) = n + 1
  <2>1. p = EntryPath
    BY <1>1, <1>4, <1>6, <1>8, SeqEqual
  <2>2. Stat(EntryPath) = "regular"
    BY <1>2, <1>3, <1>7, <1>8
  <2> QED
    BY <1>5, <2>1, <2>2
<1>9. CASE Len(p) # n + 1
  <2>1. n + 1 \in 1..Len(p) - 1 /\ n + 1 \in 1..Len(p)
    BY <1>1, <1>2, <1>3, <1>9
  <2>2. PICK i \in 1..Len(entries[Entry]) : TRUE
    BY <1>2, <1>3, <2>1
  <2>3. entries[Entry] # <<>>
    BY <2>2
  <2>4. kind[Entry] \notin {"regular", "special", "gone"}
    BY <1>1, <1>2, <1>3, <2>1, <2>3 DEF YieldInv, TreeInv
  <2>5. kind[Entry] \in {"directory", "locked"}
    BY <1>1, <2>4 DEF IInv, TypeInv, Types, Kinds
  <2>6. recursive
    <3>1. n \in Nat \ {0}
      BY <1>1
    <3>2. Len(p) \in Nat
      BY <1>2
    <3>3. \A a \in Nat \ {0}, b \in Nat : a + 1 \in 1..b - 1 => b # 2
      OBVIOUS
    <3>4. Len(p) # 2
      BY <2>1, <3>1, <3>2, <3>3, Zenon
    <3> QED
      BY <1>2, <3>4
  <2> QED
    BY <1>5, <1>7, <2>5, <2>6 DEF Enters, IsDirectory
<1> QED
  BY <1>8, <1>9

\* A frame that passes over an entry goes on to be behind the entries it was behind.
LEMMA PassedOver ==
  ASSUME ListAssumption, IInv, YieldInv, HasEntry, PassOver, AllFit'
  PROVE  /\ \A k \in 1..Len(stack) - 1 :
              /\ stack'[k].entry - 1 \in 1..Len(entries[Spine[k]])
              /\ entries[Spine[k]][stack'[k].entry - 1] = Spine[k + 1]
         /\ stack'[Len(stack)].entry - 1 \in 1..Len(entries[Spine[Len(stack)]])
         /\ entries[Spine[Len(stack)]][stack'[Len(stack)].entry - 1] = Entry
         /\ \A k \in 1..Len(stack) : \A j \in 1..k : stack'[k].path[j] = Spine[j]
         /\ AllRead => \A p \in Below : \A k \in 1..Len(stack) :
              /\ k < Len(p)
              /\ \A j \in 1..k : p[j] = Spine[j]
              /\ \E i \in 1..stack'[k].entry - 1 : entries[Spine[k]][i] = p[k + 1]
              => \/ p \in Listed
                 \/ k < Len(stack) /\ p[k + 1] = Spine[k + 1]
                 \/ k = Len(stack) /\ p[k + 1] = Entry
         /\ \A q \in Listed : \A k \in 1..Len(stack) :
              k <= Len(q) /\ (\A j \in 1..k : q[j] = Spine[j]) =>
                /\ k < Len(q)
                /\ \E i \in 1..stack'[k].entry - 1 : entries[Spine[k]][i] = q[k + 1]
                /\ k = Len(stack) => q[k + 1] # Entry
<1> DEFINE n == Len(stack)
<1>1. /\ n \in Nat \ {0} /\ Len(Spine) = n /\ Walking
      /\ Spine[n] \in Node /\ Top = stack[n]
      /\ Top.entry \in 1..Len(entries[Spine[n]]) /\ Entry = entries[Spine[n]][Top.entry]
      /\ \A k \in 1..n : stack'[k].path = stack[k].path
      /\ \A k \in 1..n : stack'[k].entry = IF k = n THEN Top.entry + 1 ELSE stack[k].entry
      /\ \A k \in 1..n : stack[k].entry \in Nat \ {0}
  BY AtEntry, SpineIs DEF IInv
<1>2. ChainInv /\ CoverInv /\ FreshInv /\ TreeInv
  BY DEF YieldInv
<1>3. /\ \A k \in 1..n : \A j \in 1..k : stack[k].path[j] = Spine[j]
      /\ \A k \in 1..n - 1 :
           /\ stack[k].entry - 1 \in 1..Len(entries[Spine[k]])
           /\ entries[Spine[k]][stack[k].entry - 1] = Spine[k + 1]
  BY <1>1, <1>2 DEF ChainInv
<1>4. IsInjective(entries[Spine[n]]) /\ entries[Spine[n]] \in Seq(Node)
  BY <1>1, <1>2 DEF TreeInv, IInv, TypeInv, Types
<1>5. \A i, j \in 1..Len(entries[Spine[n]]) :
         entries[Spine[n]][i] = entries[Spine[n]][j] => i = j
  BY <1>4 DEF IsInjective
<1>6. /\ n \in Nat \ {0} /\ Top.entry \in Nat /\ Top.entry = stack[n].entry
      /\ \A k \in 1..n : stack[k].entry \in Nat \ {0}
      /\ \A k \in 1..n :
           stack'[k].entry = IF k = n THEN stack[k].entry + 1 ELSE stack[k].entry
  BY <1>1
<1> HIDE DEF n
<1>7. ASSUME AllRead, NEW p \in Below, NEW k \in 1..n, k < Len(p), \A j \in 1..k : p[j] = Spine[j],
             NEW i \in 1..stack'[k].entry - 1, entries[Spine[k]][i] = p[k + 1]
      PROVE  \/ p \in Listed
             \/ k < n /\ p[k + 1] = Spine[k + 1]
             \/ k = n /\ p[k + 1] = Entry
  <2>1. CASE k = n /\ i = Top.entry
    BY <1>1, <1>7, <2>1
  <2>2. CASE ~(k = n /\ i = Top.entry)
    <3>1. i \in 1..stack[k].entry - 1
      <4>1. /\ stack[k].entry \in Nat \ {0} /\ i \in 1..stack'[k].entry - 1
            /\ stack'[k].entry = IF k = n THEN stack[k].entry + 1 ELSE stack[k].entry
        BY <1>6, <1>7
      <4>2. k = n => i # stack[k].entry
        BY <1>6, <2>2
      <4> QED
        BY <4>1, <4>2
    <3>2. p \in Listed \/ (k < n /\ p[k + 1] = Spine[k + 1])
      BY <1>1, <1>2, <1>7, <3>1 DEF CoverInv, n
    <3> QED
      BY <3>2
  <2> QED
    BY <2>1, <2>2
<1>8. ASSUME NEW q \in Listed, NEW k \in 1..n, k <= Len(q), \A j \in 1..k : q[j] = Spine[j]
      PROVE  /\ k < Len(q)
             /\ \E i \in 1..stack'[k].entry - 1 : entries[Spine[k]][i] = q[k + 1]
             /\ k = n => q[k + 1] # Entry
  <2>1. k < Len(q) /\ \E i \in 1..stack[k].entry - 1 : entries[Spine[k]][i] = q[k + 1]
    BY <1>1, <1>2, <1>8 DEF FreshInv
  <2>2. PICK i \in 1..stack[k].entry - 1 : entries[Spine[k]][i] = q[k + 1]
    BY <2>1
  <2>3. i \in 1..stack'[k].entry - 1
    BY <1>6, <2>2
  <2>4. k = n => q[k + 1] # Entry
    <3> SUFFICES ASSUME k = n, q[k + 1] = Entry PROVE FALSE
      OBVIOUS
    <3>0. /\ Top.entry \in 1..Len(entries[Spine[n]])
          /\ Len(entries[Spine[n]]) \in Nat
          /\ Entry = entries[Spine[n]][Top.entry]
      BY <1>1, <1>4
    <3>1. i \in 1..Len(entries[Spine[n]]) /\ i # Top.entry
      BY <1>6, <2>2, <3>0
    <3>2. entries[Spine[n]][i] = entries[Spine[n]][Top.entry]
      BY <2>2, <3>0
    <3> QED
      BY <1>1, <1>5, <3>1, <3>2
  <2> QED
    BY <2>1, <2>2, <2>3, <2>4
<1>9. \A k \in 1..n - 1 : k \in 1..n /\ k # n /\ stack'[k].entry = stack[k].entry
  BY <1>6
<1>10. stack'[n].entry - 1 = Top.entry
  <2>1. n \in 1..n
    BY <1>6
  <2>2. stack'[n].entry = stack[n].entry + 1
    BY <1>6, <2>1
  <2> QED
    BY <1>6, <2>2
<1>11. AllRead => \A p \in Below : \A k \in 1..n :
         /\ k < Len(p)
         /\ \A j \in 1..k : p[j] = Spine[j]
         /\ \E i \in 1..stack'[k].entry - 1 : entries[Spine[k]][i] = p[k + 1]
         => \/ p \in Listed
            \/ k < n /\ p[k + 1] = Spine[k + 1]
            \/ k = n /\ p[k + 1] = Entry
  BY <1>7
<1>12. \A q \in Listed : \A k \in 1..n :
         k <= Len(q) /\ (\A j \in 1..k : q[j] = Spine[j]) =>
           /\ k < Len(q)
           /\ \E i \in 1..stack'[k].entry - 1 : entries[Spine[k]][i] = q[k + 1]
           /\ k = n => q[k + 1] # Entry
  BY <1>8
<1>13. /\ \A k \in 1..n - 1 :
             /\ stack'[k].entry - 1 \in 1..Len(entries[Spine[k]])
             /\ entries[Spine[k]][stack'[k].entry - 1] = Spine[k + 1]
       /\ stack'[n].entry - 1 \in 1..Len(entries[Spine[n]])
       /\ entries[Spine[n]][stack'[n].entry - 1] = Entry
       /\ \A k \in 1..n : \A j \in 1..k : stack'[k].path[j] = Spine[j]
  <2>1. ASSUME NEW k \in 1..n - 1
        PROVE  /\ stack'[k].entry - 1 \in 1..Len(entries[Spine[k]])
               /\ entries[Spine[k]][stack'[k].entry - 1] = Spine[k + 1]
    <3>1. stack'[k].entry = stack[k].entry
      BY <1>9
    <3> QED
      BY <1>3, <3>1
  <2>2. ASSUME NEW k \in 1..n, NEW j \in 1..k PROVE stack'[k].path[j] = Spine[j]
    <3>1. stack'[k].path = stack[k].path
      BY <1>1
    <3> QED
      BY <1>3, <3>1
  <2>3. /\ stack'[n].entry - 1 \in 1..Len(entries[Spine[n]])
        /\ entries[Spine[n]][stack'[n].entry - 1] = Entry
    BY <1>1, <1>10
  <2> QED
    BY <2>1, <2>2, <2>3
<1> QED
  BY <1>11, <1>12, <1>13 DEF n

\* An entry that is passed over has no file below it; one that is entered becomes
\* the end of the spine.
LEMMA YieldKeptByPassing ==
  ASSUME ListAssumption, IInv, YieldInv, IgnoreEntry \/ EnterDirectory
  PROVE  YieldInv'
<1> DEFINE n == Len(stack)
<1>1. /\ HasEntry /\ PassOver
      /\ UNCHANGED <<kind, entries, recursive, list, yielded, st, AllRead>>
      /\ pc = "walk" /\ pc' \in {"open", "walk"} /\ (AllFit' => AllFit)
  <2>1. HasEntry /\ PassOver
    BY DEF IgnoreEntry, EnterDirectory
  <2>2. AllFit' => AllFit
    BY Zenon, <2>1 DEF PassOver, AllFit
  <2> QED
    BY <2>1, <2>2 DEF IgnoreEntry, EnterDirectory, HasEntry, callVars, listVars, AllRead
<1>2. TreeInv' /\ DoneInv' /\ RegularInv' /\ GivenInv' /\ Below' = Below /\ Listed' = Listed
  BY <1>1, RestKept
<1>0. CASE ~AllFit'
  BY <1>0, <1>2 DEF YieldInv, ChainInv, CoverInv, FreshInv, Walking
<1> SUFFICES ASSUME AllFit' PROVE YieldInv'
  BY <1>0
<1>3. /\ n \in Nat \ {0} /\ Len(Spine) = n /\ Walking /\ Spine = Top.path
      /\ Top = stack[n]
      /\ Len(EntryPath) = n + 1 /\ EntryPath[n + 1] = Entry
      /\ \A j \in 1..n : EntryPath[j] = Spine[j]
      /\ Len(stack') = n /\ \A k \in 1..n : stack'[k].path = stack[k].path
  BY <1>1, AtEntry
<1>4. /\ \A k \in 1..n - 1 :
           /\ stack'[k].entry - 1 \in 1..Len(entries[Spine[k]])
           /\ entries[Spine[k]][stack'[k].entry - 1] = Spine[k + 1]
      /\ stack'[n].entry - 1 \in 1..Len(entries[Spine[n]])
      /\ entries[Spine[n]][stack'[n].entry - 1] = Entry
      /\ \A k \in 1..n : \A j \in 1..k : stack'[k].path[j] = Spine[j]
  BY <1>1, PassedOver
<1>5. AllRead => \A p \in Below : \A k \in 1..n :
        /\ k < Len(p)
        /\ \A j \in 1..k : p[j] = Spine[j]
        /\ \E i \in 1..stack'[k].entry - 1 : entries[Spine[k]][i] = p[k + 1]
        => \/ p \in Listed
           \/ k < n /\ p[k + 1] = Spine[k + 1]
           \/ k = n /\ p[k + 1] = Entry
  BY <1>1, PassedOver
<1>6. \A q \in Listed : \A k \in 1..n :
        k <= Len(q) /\ (\A j \in 1..k : q[j] = Spine[j]) =>
          /\ k < Len(q)
          /\ \E i \in 1..stack'[k].entry - 1 : entries[Spine[k]][i] = q[k + 1]
          /\ k = n => q[k + 1] # Entry
  BY <1>1, PassedOver
<1>7. \A j \in 1..n : kind[Spine[j]] \in {"directory", "locked", "gone"}
  BY <1>3 DEF YieldInv, ChainInv
<1>8. CASE IgnoreEntry
  <2>1. Spine' = Spine
    <3>1. UNCHANGED pc
      BY <1>8 DEF IgnoreEntry
    <3>2. Spine' = stack'[n].path
      BY <1>1, <1>3, <3>1 DEF Spine
    <3> QED
      BY <1>3, <3>2
  <2> HIDE DEF n
  <2>2. ChainInv'
    <3>1. Len(stack') = n /\ Len(Spine') = n /\ Spine' = Spine /\ entries' = entries /\ kind' = kind
      BY <1>1, <1>3, <2>1
    <3>2. \A k \in 1..Len(stack') : \A j \in 1..k : stack'[k].path[j] = Spine'[j]
      BY <1>4, <3>1
    <3>3. \A k \in 1..Len(Spine') - 1 :
            /\ stack'[k].entry - 1 \in 1..Len(entries'[Spine'[k]])
            /\ entries'[Spine'[k]][stack'[k].entry - 1] = Spine'[k + 1]
      BY <1>4, <3>1
    <3>4. \A j \in 1..Len(Spine') : kind'[Spine'[j]] \in {"directory", "locked", "gone"}
      BY <1>7, <3>1
    <3> QED
      BY <3>2, <3>3, <3>4 DEF ChainInv
  <2>3. CoverInv'
    <3> SUFFICES ASSUME AllRead', NEW p \in Below', NEW k \in 1..Len(stack'),
                        k < Len(p), \A j \in 1..k : p[j] = Spine'[j],
                        \E i \in 1..stack'[k].entry - 1 : entries'[Spine'[k]][i] = p[k + 1]
                 PROVE  p \in Listed' \/ (k < Len(Spine') /\ p[k + 1] = Spine'[k + 1])
      BY DEF CoverInv
    <3>0. /\ AllRead /\ p \in Below /\ k \in 1..n /\ Listed' = Listed
          /\ Spine' = Spine /\ Len(Spine) = n /\ entries' = entries
      BY <1>1, <1>2, <1>3, <2>1
    <3>1. CASE k = n /\ p[k + 1] = Entry
      <4>1. Visible /\ (Stat(EntryPath) = "regular" \/ Enters(EntryPath))
        BY <1>1, <3>0, <3>1, ThroughEntry DEF n
      <4>2. PICK e \in EntryPaths : e.path = EntryPath
        BY <1>1, <4>1, Uncut DEF EntryPath, IInv
      <4> QED
        BY <1>8, <4>1, <4>2 DEF IgnoreEntry
    <3> QED
      <4>1. p \in Listed \/ (k < n /\ p[k + 1] = Spine[k + 1])
        BY <1>5, <3>0, <3>1
      <4> QED
        BY <3>0, <4>1
  <2>4. FreshInv'
    <3> SUFFICES ASSUME NEW q \in Listed', NEW k \in 1..Len(Spine'),
                        k <= Len(q), \A j \in 1..k : q[j] = Spine'[j]
                 PROVE  /\ k <= Len(stack')
                        /\ k < Len(q)
                        /\ \E i \in 1..stack'[k].entry - 1 : entries'[Spine'[k]][i] = q[k + 1]
      BY DEF FreshInv
    <3>0. /\ q \in Listed /\ k \in 1..n /\ Len(stack') = n /\ entries' = entries
          /\ \A j \in 1..k : q[j] = Spine[j]
      BY <1>1, <1>2, <1>3, <2>1
    <3>1. /\ k < Len(q)
          /\ \E i \in 1..stack'[k].entry - 1 : entries[Spine[k]][i] = q[k + 1]
      BY <1>6, <3>0
    <3> QED
      BY <1>3, <2>1, <3>0, <3>1
  <2> QED
    BY <1>2, <2>2, <2>3, <2>4 DEF YieldInv
<1>9. CASE EnterDirectory
  <2>1. opening'.path = EntryPath /\ pc' = "open" /\ Enters(EntryPath) /\ EntryPath \in Path
    <3>1. PICK e \in EntryPaths : Enters(e.path) /\ opening' = e
      BY <1>9 DEF EnterDirectory
    <3>2. Visible /\ pc' = "open"
      BY <1>9 DEF EnterDirectory
    <3>3. e.path = EntryPath /\ e.path \in Path
      BY <1>1, <3>2, Uncut, EntryPathsAre DEF EntryPath, IInv, Place
    <3> QED
      BY <3>1, <3>2, <3>3
  <2>2. Spine' = EntryPath
    BY <2>1 DEF Spine
  <2> HIDE DEF n
  <2>3. kind[Entry] \in {"directory", "locked"}
    <3>1. Stat(EntryPath) \in {"directory", "locked"}
      BY <2>1 DEF Enters, IsDirectory
    <3> QED
      BY <1>3, <2>1, <3>1, StatIs
  <2>4. ChainInv'
    <3>1. ASSUME NEW k \in 1..n, NEW j \in 1..k
          PROVE  stack'[k].path[j] = EntryPath[j]
      <4>1. j \in 1..n
        BY <1>3
      <4> QED
        BY <1>3, <1>4, <4>1
    <3>2. ASSUME NEW k \in 1..n
          PROVE  /\ stack'[k].entry - 1 \in 1..Len(entries[EntryPath[k]])
                 /\ entries[EntryPath[k]][stack'[k].entry - 1] = EntryPath[k + 1]
      <4>1. EntryPath[k] = Spine[k]
        BY <1>3
      <4>2. CASE k = n
        BY <1>3, <1>4, <4>1, <4>2
      <4>3. CASE k # n
        <5>1. k \in 1..n - 1 /\ k + 1 \in 1..n
          BY <1>3, <4>3
        <5> QED
          BY <1>3, <1>4, <4>1, <5>1
      <4> QED
        BY <4>2, <4>3
    <3>3. ASSUME NEW j \in 1..n + 1
          PROVE  kind[EntryPath[j]] \in {"directory", "locked", "gone"}
      <4>1. j \in 1..n \/ j = n + 1
        BY <1>3
      <4> QED
        BY <1>3, <1>7, <2>3, <4>1
    <3>4. Len(EntryPath) - 1 = n
      BY <1>3
    <3> QED
      BY <1>1, <1>3, <2>2, <3>1, <3>2, <3>3, <3>4 DEF ChainInv
  <2>5. CoverInv'
    <3> SUFFICES ASSUME AllRead, NEW p \in Below, NEW k \in 1..n,
                        k < Len(p), \A j \in 1..k : p[j] = EntryPath[j],
                        \E i \in 1..stack'[k].entry - 1 : entries[EntryPath[k]][i] = p[k + 1]
                 PROVE  p \in Listed \/ (k < n + 1 /\ p[k + 1] = EntryPath[k + 1])
      BY <1>1, <1>2, <1>3, <2>2 DEF CoverInv
    <3>1. ASSUME NEW j \in 1..k PROVE EntryPath[j] = Spine[j]
      <4>1. j \in 1..n
        BY <1>3
      <4> QED
        BY <1>3, <4>1
    <3>2. k \in 1..k /\ EntryPath[k] = Spine[k]
      BY <1>3
    <3>3. \/ p \in Listed
          \/ k < n /\ p[k + 1] = Spine[k + 1]
          \/ k = n /\ p[k + 1] = Entry
      BY <1>5, <3>1, <3>2
    <3>4. k < n => k + 1 \in 1..n
      BY <1>3
    <3> QED
      BY <1>3, <3>3, <3>4
  <2>6. FreshInv'
    <3> SUFFICES ASSUME NEW q \in Listed', NEW k \in 1..Len(Spine'),
                        k <= Len(q), \A j \in 1..k : q[j] = Spine'[j]
                 PROVE  /\ k <= Len(stack')
                        /\ k < Len(q)
                        /\ \E i \in 1..stack'[k].entry - 1 : entries'[Spine'[k]][i] = q[k + 1]
      BY DEF FreshInv
    <3>0. /\ q \in Listed /\ k \in 1..n + 1 /\ Len(stack') = n /\ entries' = entries
          /\ \A j \in 1..k : q[j] = EntryPath[j]
      BY <1>1, <1>2, <1>3, <2>2
    <3>1. CASE k \in 1..n
      <4>1. ASSUME NEW j \in 1..k PROVE q[j] = Spine[j]
        <5>1. j \in 1..n
          BY <1>3, <3>0, <3>1
        <5> QED
          BY <1>3, <3>0, <5>1
      <4>2. EntryPath[k] = Spine[k]
        BY <1>3, <3>0, <3>1
      <4>3. /\ k < Len(q)
            /\ \E i \in 1..stack'[k].entry - 1 : entries[Spine[k]][i] = q[k + 1]
        BY <1>6, <3>0, <3>1, <4>1
      <4>4. k <= Len(stack')
        BY <1>3, <3>0, <3>1
      <4> QED
        BY <2>2, <3>0, <4>2, <4>3, <4>4
    <3>2. CASE k = n + 1
      <4>1. \A j \in 1..n : q[j] = Spine[j]
        <5>1. \A j \in 1..n : j \in 1..k
          BY <1>3, <3>0, <3>2
        <5> QED
          BY <1>3, <3>0, <5>1
      <4>2. q[n + 1] = Entry
        BY <1>3, <3>0, <3>2
      <4>3. n \in 1..n /\ n <= Len(q)
        <5>1. Len(q) \in Nat
          BY <3>0, ElementOfSeq, PathIs DEF Listed, IInv, TypeInv, Types
        <5> QED
          BY <1>3, <3>2, <5>1
      <4> QED
        BY <1>6, <3>0, <4>1, <4>2, <4>3
    <3> QED
      BY <1>3, <3>0, <3>1, <3>2
  <2> QED
    BY <1>2, <2>4, <2>5, <2>6 DEF YieldInv
<1> QED
  BY <1>8, <1>9

\* The file that is appended is the only one below its entry, and was not listed.
LEMMA TakenInStep ==
  ASSUME ListAssumption, IInv, YieldInv, HasEntry, PassOver, AllFit', Visible,
         UNCHANGED <<kind, entries, recursive, yielded, pc, st, AllRead>>, pc = "walk",
         Below' = Below, EntryPath \in Path, Stat(EntryPath) = "regular",
         list \in Seq(Path), Len(list) \in Nat, Len(list') = Len(list) + 1,
         list'[Len(list) + 1] = EntryPath, \A i \in 1..Len(list) : list'[i] = list[i]
  PROVE  ChainInv' /\ CoverInv' /\ FreshInv' /\ DoneInv'
<1> DEFINE n == Len(stack)
<1>1. /\ n \in Nat \ {0} /\ Len(Spine) = n /\ Walking /\ Spine = Top.path
      /\ Top = stack[n]
      /\ Len(EntryPath) = n + 1 /\ EntryPath[n + 1] = Entry
      /\ \A j \in 1..n : EntryPath[j] = Spine[j]
      /\ Len(stack') = n /\ \A k \in 1..n : stack'[k].path = stack[k].path
  BY AtEntry
<1>2. /\ \A k \in 1..n - 1 :
           /\ stack'[k].entry - 1 \in 1..Len(entries[Spine[k]])
           /\ entries[Spine[k]][stack'[k].entry - 1] = Spine[k + 1]
      /\ stack'[n].entry - 1 \in 1..Len(entries[Spine[n]])
      /\ entries[Spine[n]][stack'[n].entry - 1] = Entry
      /\ \A k \in 1..n : \A j \in 1..k : stack'[k].path[j] = Spine[j]
  BY PassedOver
<1>3. AllRead => \A p \in Below : \A k \in 1..n :
        /\ k < Len(p)
        /\ \A j \in 1..k : p[j] = Spine[j]
        /\ \E i \in 1..stack'[k].entry - 1 : entries[Spine[k]][i] = p[k + 1]
        => \/ p \in Listed
           \/ k < n /\ p[k + 1] = Spine[k + 1]
           \/ k = n /\ p[k + 1] = Entry
  BY PassedOver
<1>4. \A q \in Listed : \A k \in 1..n :
        k <= Len(q) /\ (\A j \in 1..k : q[j] = Spine[j]) =>
          /\ k < Len(q)
          /\ \E i \in 1..stack'[k].entry - 1 : entries[Spine[k]][i] = q[k + 1]
          /\ k = n => q[k + 1] # Entry
  BY PassedOver
<1>5. \A j \in 1..n : kind[Spine[j]] \in {"directory", "locked", "gone"}
  BY <1>1 DEF YieldInv, ChainInv
<1>6. Spine' = Spine
  <2>1. Spine' = stack'[n].path
    BY <1>1 DEF Spine
  <2> QED
    BY <1>1, <2>1
<1> HIDE DEF n
<1>7. Listed' = Listed \union {EntryPath}
  <2>1. \A i \in 1..Len(list') : i \in 1..Len(list) \/ i = Len(list) + 1
    OBVIOUS
  <2>2. \A i \in 1..Len(list) : i \in 1..Len(list')
    OBVIOUS
  <2>3. Len(list) + 1 \in 1..Len(list')
    OBVIOUS
  <2> QED
    BY <2>1, <2>2, <2>3 DEF Listed
<1>8. EntryPath \notin Listed
  <2>1. n \in 1..n /\ n <= Len(EntryPath)
    BY <1>1
  <2> QED
    BY <1>1, <1>4, <2>1
<1>9. ChainInv'
  <2>1. Len(stack') = n /\ Len(Spine) = n /\ UNCHANGED <<kind, entries>>
    BY <1>1
  <2> SUFFICES /\ \A k \in 1..n : \A j \in 1..k : stack'[k].path[j] = Spine[j]
               /\ \A k \in 1..n - 1 :
                    /\ stack'[k].entry - 1 \in 1..Len(entries[Spine[k]])
                    /\ entries[Spine[k]][stack'[k].entry - 1] = Spine[k + 1]
               /\ \A j \in 1..n : kind[Spine[j]] \in {"directory", "locked", "gone"}
    BY <1>6, <2>1 DEF ChainInv
  <2> QED
    BY <1>2, <1>5
<1>10. CoverInv'
  <2> SUFFICES ASSUME AllRead', NEW p \in Below', NEW k \in 1..Len(stack'),
                      k < Len(p), \A j \in 1..k : p[j] = Spine'[j],
                      \E i \in 1..stack'[k].entry - 1 : entries'[Spine'[k]][i] = p[k + 1]
               PROVE  p \in Listed' \/ (k < Len(Spine') /\ p[k + 1] = Spine'[k + 1])
    BY DEF CoverInv
  <2>0. /\ AllRead /\ p \in Below /\ k \in 1..n /\ \A j \in 1..k : p[j] = Spine[j]
        /\ \E i \in 1..stack'[k].entry - 1 : entries[Spine[k]][i] = p[k + 1]
        /\ Len(Spine') = n /\ Spine' = Spine
    BY <1>1, <1>6 DEF AllRead
  <2>1. CASE k = n /\ p[k + 1] = Entry
    <3>1. p = EntryPath \/ Enters(EntryPath)
      BY <1>1, <2>0, <2>1, ThroughEntry DEF n
    <3>2. ~Enters(EntryPath)
      BY DEF Enters, IsDirectory
    <3> QED
      BY <1>7, <3>1, <3>2
  <2> QED
    BY <1>3, <1>7, <2>0, <2>1
<1>11. FreshInv'
  <2> SUFFICES ASSUME NEW q \in Listed', NEW k \in 1..Len(Spine'),
                      k <= Len(q), \A j \in 1..k : q[j] = Spine'[j]
               PROVE  /\ k <= Len(stack')
                      /\ k < Len(q)
                      /\ \E i \in 1..stack'[k].entry - 1 : entries'[Spine'[k]][i] = q[k + 1]
    BY DEF FreshInv
  <2>1. k \in 1..n /\ Len(stack') = n /\ entries' = entries /\ \A j \in 1..k : q[j] = Spine[j]
    BY <1>1, <1>6
  <2>2. /\ k < Len(q)
        /\ \E i \in 1..stack'[k].entry - 1 : entries[Spine[k]][i] = q[k + 1]
    <3>1. CASE q \in Listed
      BY <1>4, <2>1, <3>1
    <3>2. CASE q = EntryPath
      <4>1. k < Len(q)
        BY <1>1, <2>1, <3>2
      <4>2. /\ stack'[k].entry - 1 \in 1..Len(entries[Spine[k]])
            /\ entries[Spine[k]][stack'[k].entry - 1] = q[k + 1]
        <5>1. CASE k = n
          BY <1>1, <1>2, <3>2, <5>1
        <5>2. CASE k # n
          <6>1. k \in 1..n - 1 /\ k + 1 \in 1..n
            BY <1>1, <2>1, <5>2
          <6> QED
            BY <1>1, <1>2, <3>2, <6>1
        <5> QED
          BY <5>1, <5>2
      <4>3. stack'[k].entry - 1 \in 1..stack'[k].entry - 1
        BY <4>2
      <4> QED
        BY <4>1, <4>2, <4>3
    <3> QED
      BY <1>7, <3>1, <3>2
  <2> QED
    BY <1>1, <1>6, <2>1, <2>2
<1>12. DoneInv'
  <2>1. ASSUME NEW i \in 1..Len(list'), NEW j \in 1..Len(list'), list'[i] = list'[j]
        PROVE  i = j
    <3>1. \A h \in 1..Len(list') : h \in 1..Len(list) \/ h = Len(list) + 1
      OBVIOUS
    <3>2. \A h \in 1..Len(list) : list'[h] # EntryPath
      BY <1>8 DEF Listed
    <3>3. \A g, h \in 1..Len(list) : list[g] = list[h] => g = h
      BY <1>1 DEF YieldInv, DoneInv, Walking
    <3> QED
      BY <2>1, <3>1, <3>2, <3>3
  <2> QED
    BY <2>1 DEF DoneInv
<1> QED
  BY <1>9, <1>10, <1>11, <1>12
\* A file is appended, or there is no memory for it.
LEMMA YieldKeptByTaking ==
  ASSUME ListAssumption, IInv, YieldInv, TakeFile
  PROVE  YieldInv'
<1> DEFINE n == Len(stack)
<1>1. /\ HasEntry /\ PassOver /\ Visible
      /\ UNCHANGED <<kind, entries, recursive, yielded, pc, AllRead>> /\ pc = "walk"
      /\ AllFit' => AllFit
  <2>1. HasEntry /\ PassOver
    BY DEF TakeFile
  <2>2. AllFit' => AllFit
    BY Zenon, <2>1 DEF PassOver, AllFit
  <2> QED
    BY <2>1, <2>2 DEF TakeFile, HasEntry, callVars, AllRead
<1>2. PICK e \in EntryPaths : Stat(e.path) = "regular" /\ AddFile(e.path)
  BY DEF TakeFile
<1>3. /\ e.path \in Path /\ e.path \in Walkable /\ StatOf[e.path] = "regular"
      /\ list \in Seq(Path) /\ Len(list) \in Nat
  BY <1>1, <1>2, EntryIsReached DEF IInv, TypeInv, Types
<1>4. TreeInv' /\ RootIsDirectory' = RootIsDirectory /\ Below' = Below /\ StatOf' = StatOf
  BY <1>1, CodeKeepsTree DEF YieldInv
<1>5. CASE list' = list /\ st' = "FGREP_ERR_NOMEM"
  <2>1. ~Walking'
    BY <1>5 DEF Walking
  <2>2. TreeInv' /\ DoneInv' /\ RegularInv' /\ GivenInv'
    BY <1>1, <1>5, RestKept
  <2> QED
    BY <2>1, <2>2 DEF YieldInv, ChainInv, CoverInv, FreshInv
<1>6. CASE list' = Append(list, e.path) /\ UNCHANGED st
  <2>1. /\ Len(list') = Len(list) + 1 /\ list'[Len(list) + 1] = e.path
        /\ \A i \in 1..Len(list) : list'[i] = list[i]
        /\ \A i \in 1..Len(list') : i \in 1..Len(list) \/ i = Len(list) + 1
        /\ \A i \in 1..Len(list) : i \in 1..Len(list')
        /\ Len(list) + 1 \in 1..Len(list')
    BY <1>3, <1>6
  <2>2. RegularInv'
    <3>1. RootIsDirectory => Len(e.path) > 1
      <4>1. Len(e.path) \in Nat \ {0} /\ kind[e.path[Len(e.path)]] = "regular"
            /\ e.path[1] = Root
        BY <1>3, StatIs DEF Walkable
      <4>2. Len(e.path) = 1 \/ Len(e.path) > 1
        <5>1. \A l \in Nat \ {0} : l = 1 \/ l > 1
          OBVIOUS
        <5> QED
          BY <4>1, <5>1, Zenon
      <4>3. Len(e.path) = 1 => kind[Root] = "regular"
        BY <4>1, Zenon
      <4> QED
        BY <4>2, <4>3 DEF RootIsDirectory
    <3>2. RootIsDirectory =>
            \A i \in 1..Len(list') : Len(list'[i]) > 1 /\ StatOf[list'[i]] \in {"regular", "gone"}
      BY <1>3, <2>1, <3>1 DEF YieldInv, RegularInv
    <3>3. RootIsDirectory => \A i \in 1..Len(yielded) :
            Len(yielded[i]) > 1 /\ StatOf[yielded[i]] \in {"regular", "gone"}
      BY DEF YieldInv, RegularInv
    <3> QED
      BY <1>1, <1>4, <3>2, <3>3 DEF RegularInv
  <2>3. GivenInv'
    BY <1>1 DEF YieldInv, GivenInv
  <2>4. CASE ~AllFit'
    <3>1. DoneInv'
      BY <1>1, <2>4 DEF DoneInv
    <3> QED
      BY <1>4, <2>2, <2>3, <2>4, <3>1 DEF YieldInv, ChainInv, CoverInv, FreshInv, Walking
  <2>5. CASE AllFit'
    <3>1. e.path = EntryPath /\ AllFit
      BY <1>1, <2>5, Uncut DEF EntryPath, IInv
    <3>2. Stat(EntryPath) = "regular"
      BY <1>2, <3>1
    <3>3. ChainInv' /\ CoverInv' /\ FreshInv' /\ DoneInv'
      BY <1>1, <1>3, <1>4, <1>6, <2>1, <2>5, <3>1, <3>2, TakenInStep
    <3> QED
      BY <1>4, <2>2, <2>3, <3>3 DEF YieldInv
  <2> QED
    BY <2>4, <2>5
<1> QED
  BY <1>2, <1>5, <1>6 DEF AddFile

\* A directory is closed when all its entries are behind, if readdir did not fail:
\* then all the files below it are listed, and in the end those below the argument.
LEMMA YieldKeptByClose ==
  ASSUME ListAssumption, IInv, YieldInv, CloseDir \/ ReaddirFails
  PROVE  YieldInv'
<1> DEFINE n == Len(stack)
<1>1. /\ UNCHANGED <<kind, entries, recursive, list, yielded, st, AllFit>>
      /\ AllRead' => AllRead
      /\ pc = "walk" /\ pc' = IF n = 1 THEN "walked" ELSE "walk"
      /\ stack' = Front(stack)
      /\ n \in Nat \ {0} /\ stack \in Seq(Frame)
  <2>1. AllRead' => AllRead
    BY Zenon DEF CloseDir, ReaddirFails, AllRead
  <2> QED
    BY <2>1 DEF CloseDir, ReaddirFails, HasEntry, Leave, callVars, listVars, IInv, TypeInv,
                Types, DepthInv, AllFit
<1>2. CASE st # "FGREP_OK" \/ ~AllFit
  <2>1. /\ ~Walking' /\ (st' # "FGREP_OK" \/ ~AllFit')
        /\ pc' \in {"open", "walk", "walked"}
    BY <1>1, <1>2 DEF Walking
  <2>2. TreeInv' /\ DoneInv' /\ RegularInv' /\ GivenInv'
    BY <1>1, <2>1, RestKept
  <2> QED
    BY <2>1, <2>2 DEF YieldInv, ChainInv, CoverInv, FreshInv
<1>3. CASE st = "FGREP_OK" /\ AllFit
  <2>1. Walking /\ Spine = stack[n].path
    BY <1>1, <1>3 DEF Walking, Spine
  <2>2. /\ Len(Spine) = n /\ \A j \in 1..n : Spine[j] \in Node
        /\ \A k \in 1..n : stack[k].path \in Seq(Node) /\ Len(stack[k].path) = k
                           /\ stack[k].entry \in Nat \ {0}
    BY <1>1, <2>1, SpineIs DEF IInv
  <2>3. n \in 1..n /\ Top = stack[n]
    BY <1>1 DEF Top
  <2>4. /\ AllRead' => AllRead /\ stack[n].entry > Len(entries[Spine[n]])
        /\ entries[Spine[n]] \in Seq(Node)
    <3>1. Last(Top.path) = Spine[n]
      BY <2>1, <2>2, <2>3 DEF Last
    <3>2. AllRead' => AllRead /\ Top.entry > Len(EntriesOfTop)
      BY <1>3 DEF CloseDir, ReaddirFails, AllRead
    <3> QED
      BY <2>2, <2>3, <3>1, <3>2 DEF EntriesOfTop, IInv, TypeInv, Types
  <2>5. /\ n - 1 \in Nat /\ Len(stack') = n - 1
        /\ \A k \in 1..n - 1 : stack'[k] = stack[k]
    BY <1>1, WithoutLast DEF Front
  <2> HIDE DEF n
  <2>6. /\ \A k \in 1..n : \A j \in 1..k : stack[k].path[j] = Spine[j]
        /\ \A k \in 1..n - 1 :
             /\ stack[k].entry - 1 \in 1..Len(entries[Spine[k]])
             /\ entries[Spine[k]][stack[k].entry - 1] = Spine[k + 1]
        /\ \A j \in 1..n : kind[Spine[j]] \in {"directory", "locked", "gone"}
    BY <2>1, <2>2 DEF YieldInv, ChainInv, n
  \* What the closed directory was for is done.
  <2>7. ASSUME AllRead', NEW p \in Below, n < Len(p), \A j \in 1..n : p[j] = Spine[j]
        PROVE  p \in Listed
    <3>1. n \in 1..Len(p) - 1
      BY <1>1, <2>7, BelowIs DEF IInv
    <3>2. PICK i \in 1..Len(entries[p[n]]) : entries[p[n]][i] = p[n + 1]
      BY <3>1, BelowIs DEF IInv
    <3>3. p[n] = Spine[n]
      BY <2>3, <2>7
    <3>4. Len(entries[Spine[n]]) \in Nat /\ stack[n].entry \in Nat
      BY <2>2, <2>3, <2>4
    <3>5. i \in 1..stack[n].entry - 1
      <4>1. stack[n].entry > Len(entries[Spine[n]])
        BY <2>4, <2>7
      <4>2. i \in 1..Len(entries[Spine[n]])
        BY <3>2, <3>3
      <4> QED
        BY <3>4, <4>1, <4>2
    <3>6. \E h \in 1..stack[n].entry - 1 : entries[Spine[n]][h] = p[n + 1]
      BY <3>2, <3>3, <3>5
    <3>7. ~(n < Len(Spine))
      BY <1>1, <2>2
    <3> QED
      BY <2>1, <2>3, <2>4, <2>7, <3>6, <3>7 DEF YieldInv, CoverInv, n
  <2>8. CASE n = 1
    <3>1. ASSUME RootIsDirectory, AllRead', NEW p \in Below PROVE p \in Listed
      <4>1. p[1] = Root /\ Len(p) > 1
        BY BelowIs DEF IInv
      <4>2. stack[n].path \in Walkable
        BY <2>3 DEF IInv, WalkInv, n
      <4>3. Spine[1] = Root
        BY <2>1, <4>2 DEF Walkable
      <4> QED
        BY <2>7, <2>8, <3>1, <4>1, <4>3
    <3>2. ~Walking' /\ pc' = "walked"
      BY <1>1, <2>8 DEF Walking
    <3>3. TreeInv' /\ DoneInv' /\ RegularInv' /\ GivenInv'
      BY <1>1, <3>1, <3>2, RestKept
    <3> QED
      BY <3>2, <3>3 DEF YieldInv, ChainInv, CoverInv, FreshInv
  <2>9. CASE n # 1
    <3>1. pc' = "walk" /\ n - 1 \in 1..n - 1 /\ n - 1 \in 1..n
      BY <1>1, <2>9
    <3>2. /\ TreeInv' /\ DoneInv' /\ RegularInv' /\ GivenInv'
          /\ Below' = Below /\ Listed' = Listed
      BY <1>1, <3>1, RestKept
    <3>3. Spine' = stack[n - 1].path
      BY <2>5, <3>1 DEF Spine
    <3>4. Len(Spine') = n - 1 /\ \A j \in 1..n - 1 : Spine'[j] = Spine[j]
      BY <2>2, <2>6, <3>1, <3>3
    <3>5. ChainInv'
      <4>1. ASSUME NEW k \in 1..n - 1, NEW j \in 1..k
            PROVE  stack'[k].path[j] = Spine'[j]
        <5>1. k \in 1..n /\ j \in 1..n - 1
          BY <1>1
        <5> QED
          BY <2>5, <2>6, <3>4, <5>1
      <4>2. ASSUME NEW k \in 1..n - 1 - 1
            PROVE  /\ stack'[k].entry - 1 \in 1..Len(entries[Spine'[k]])
                   /\ entries[Spine'[k]][stack'[k].entry - 1] = Spine'[k + 1]
        <5>1. k \in 1..n - 1 /\ k + 1 \in 1..n - 1
          BY <1>1
        <5> QED
          BY <2>5, <2>6, <3>4, <5>1
      <4>3. ASSUME NEW j \in 1..n - 1
            PROVE  kind[Spine'[j]] \in {"directory", "locked", "gone"}
        <5>1. j \in 1..n
          BY <1>1
        <5> QED
          BY <2>6, <3>4, <5>1
      <4> QED
        BY <1>1, <2>5, <3>4, <4>1, <4>2, <4>3 DEF ChainInv
    <3>6. CoverInv'
      <4> SUFFICES ASSUME AllRead', NEW p \in Below', NEW k \in 1..Len(stack'),
                          k < Len(p), \A j \in 1..k : p[j] = Spine'[j],
                          \E i \in 1..stack'[k].entry - 1 : entries'[Spine'[k]][i] = p[k + 1]
                   PROVE  p \in Listed' \/ (k < Len(Spine') /\ p[k + 1] = Spine'[k + 1])
        BY DEF CoverInv
      <4>1. /\ AllRead /\ p \in Below
            /\ k \in 1..n - 1 /\ k \in 1..n /\ stack'[k] = stack[k]
            /\ \A j \in 1..k : j \in 1..n - 1
        BY <1>1, <2>4, <2>5, <3>2
      <4>2. /\ \A j \in 1..k : p[j] = Spine[j]
            /\ \E i \in 1..stack[k].entry - 1 : entries[Spine[k]][i] = p[k + 1]
        BY <1>1, <3>4, <4>1
      <4>3. p \in Listed \/ p[k + 1] = Spine[k + 1]
        BY <2>1, <4>1, <4>2 DEF YieldInv, CoverInv, n
      <4>4. CASE p \in Listed
        BY <3>2, <4>4
      <4>5. CASE p[k + 1] = Spine[k + 1] /\ k # n - 1
        <5>1. k + 1 \in 1..n - 1 /\ k < n - 1
          BY <1>1, <4>1, <4>5
        <5> QED
          BY <3>4, <4>5, <5>1
      <4>6. CASE p[k + 1] = Spine[k + 1] /\ k = n - 1
        <5>1. p[n] = Spine[n] /\ k + 1 = n
          BY <1>1, <4>6
        <5>2. ASSUME NEW j \in 1..n PROVE p[j] = Spine[j]
          <6>1. j \in 1..k \/ j = n
            BY <1>1, <4>6
          <6> QED
            BY <4>2, <5>1, <6>1
        <5>3. Len(p) \in Nat /\ kind[p[Len(p)]] = "regular"
          BY <4>1, BelowIs DEF IInv
        <5>4. Len(p) # n
          BY <2>3, <2>6, <5>1, <5>3
        <5>5. n < Len(p)
          BY <1>1, <4>6, <5>3, <5>4
        <5> QED
          BY <2>7, <3>2, <4>1, <5>2, <5>5
      <4> QED
        BY <4>3, <4>4, <4>5, <4>6
    <3>7. FreshInv'
      <4> SUFFICES ASSUME NEW q \in Listed', NEW k \in 1..Len(Spine'),
                          k <= Len(q), \A j \in 1..k : q[j] = Spine'[j]
                   PROVE  /\ k <= Len(stack')
                          /\ k < Len(q)
                          /\ \E i \in 1..stack'[k].entry - 1 : entries'[Spine'[k]][i] = q[k + 1]
        BY DEF FreshInv
      <4>1. /\ q \in Listed /\ k \in 1..n - 1 /\ k \in 1..n /\ stack'[k] = stack[k]
            /\ \A j \in 1..k : j \in 1..n - 1
        BY <1>1, <2>5, <3>2, <3>4
      <4>2. \A j \in 1..k : q[j] = Spine[j]
        BY <3>4, <4>1
      <4>3. k < Len(q) /\ \E i \in 1..stack[k].entry - 1 : entries[Spine[k]][i] = q[k + 1]
        BY <2>1, <2>2, <4>1, <4>2 DEF YieldInv, FreshInv
      <4>4. k <= Len(stack') /\ Spine'[k] = Spine[k] /\ entries' = entries
        <5>1. entries' = entries
          BY <1>1
        <5>2. n - 1 \in Nat /\ Len(stack') = n - 1
          BY <2>5
        <5> QED
          BY <3>4, <4>1, <5>1, <5>2
      <4>5. PICK i \in 1..stack[k].entry - 1 : entries[Spine[k]][i] = q[k + 1]
        BY <4>3
      <4>6. i \in 1..stack'[k].entry - 1 /\ entries'[Spine'[k]][i] = q[k + 1]
        BY <4>1, <4>4, <4>5
      <4> QED
        BY <4>3, <4>4, <4>6
    <3> QED
      BY <3>2, <3>5, <3>6, <3>7 DEF YieldInv
  <2> QED
    BY <2>8, <2>9
<1> QED
  BY <1>2, <1>3

LEMMA WholeInvariant == Spec => [](IInv /\ YieldInv)
<1>1. Init => YieldInv
  BY InitYield, ListAssumption, TreesAssumption
<1>2. ASSUME IInv, YieldInv, [Next]_vars PROVE YieldInv'
  <2> USE ListAssumption
  <2>1. CASE (\E n \in Node : Vanish(n)) \/ Done \/ UNCHANGED vars
    BY <1>2, <2>1, YieldKeptByOthers DEF Done
  <2>2. CASE \/ CreateNoMemory \/ CreateMissing \/ CreateDirectory \/ CreateFile \/ CreateReturn
             \/ NextFile \/ Destroy
    BY <1>2, <2>2, YieldKeptOutside
  <2>3. CASE OpenDir \/ OpenDirFails
    BY <1>2, <2>3, YieldKeptByOpen
  <2>7. CASE StackOverflow
    BY <1>2, <2>7, YieldKeptByCrash
  <2>4. CASE IgnoreEntry \/ EnterDirectory
    BY <1>2, <2>4, YieldKeptByPassing
  <2>5. CASE TakeFile
    BY <1>2, <2>5, YieldKeptByTaking
  <2>6. CASE CloseDir \/ ReaddirFails
    BY <1>2, <2>6, YieldKeptByClose
  <2> QED
    BY <1>2, <2>1, <2>2, <2>3, <2>4, <2>5, <2>6, <2>7 DEF Next, Code
<1> QED
  BY <1>1, <1>2, Invariant, PTL DEF Spec

LEMMA FilesAreBelow ==
  ASSUME ListAssumption
  PROVE  FilesBelow = Below
<1>1. \A p \in Walkable : StatOf[p] = Stat(p)
  BY DEF StatOf, Walkable
<1> QED
  BY <1>1 DEF FilesBelow, Below

\* For every file system, symbolic links to a directory above and removals during
\* the walk included: a list that was made and read to its end has given nothing
\* that is hidden or no file; if every name fitted behind its directory's path, each
\* path once; and if readdir never failed, each file that was there all the time, by
\* every path that leads to it (src/fileutil.c:41-57, 103-108).
THEOREM ListIsComplete == Spec => []YieldsFilesOnce
<1>1. ASSUME IInv, YieldInv PROVE YieldsFilesOnce
  <2> SUFFICES ASSUME pc = "destroyed", Stat(<<Root>>) \in {"directory", "locked"}
               PROVE  /\ \A p \in Range(yielded) :
                           /\ p \in Walkable
                           /\ recursive \/ Len(p) = 2
                           /\ Stat(p) \in {"regular", "gone"}
                      /\ ~cut => IsInjective(yielded)
                      /\ ~cut /\ ~unread => FilesBelow \subseteq Range(yielded)
    BY DEF YieldsFilesOnce
  <2>1. RootIsDirectory
    <3>1. Stat(<<Root>>) # "gone" => Stat(<<Root>>) = kind[Root]
      BY RootIsPath, StatIs, ListAssumption
    <3> QED
      BY <3>1 DEF RootIsDirectory
  <2>2. yielded \in Seq(Path) /\ DOMAIN yielded = 1..Len(yielded)
    BY <1>1 DEF IInv, ListInv
  <2>3. Range(yielded) = {yielded[i] : i \in 1..Len(yielded)}
    BY <2>2 DEF Range
  <2>4. /\ ~cut /\ ~unread => Below \subseteq {yielded[i] : i \in 1..Len(yielded)}
        /\ ~cut => \A i, j \in 1..Len(yielded) : yielded[i] = yielded[j] => i = j
    BY <1>1, <2>1 DEF YieldInv, GivenInv, Complete, AllFit, AllRead
  <2>5. ~cut /\ ~unread => FilesBelow \subseteq Range(yielded)
    BY <2>3, <2>4, FilesAreBelow, ListAssumption
  <2>6. ~cut => IsInjective(yielded)
    BY <2>2, <2>4 DEF IsInjective
  <2>7. ASSUME NEW i \in 1..Len(yielded)
        PROVE  /\ yielded[i] \in Walkable
               /\ recursive \/ Len(yielded[i]) = 2
               /\ Stat(yielded[i]) \in {"regular", "gone"}
    <3>1. yielded[i] \in Path
      BY <2>2, ElementOfSeq
    <3>2. Reached(yielded[i])
      BY <1>1, <2>2 DEF IInv, ListInv
    <3>3. Len(yielded[i]) > 1 /\ StatOf[yielded[i]] \in {"regular", "gone"}
      BY <1>1, <2>1 DEF YieldInv, RegularInv
    <3>4. Len(yielded[i]) \in Nat /\ StatOf[yielded[i]] = Stat(yielded[i])
      BY <3>1, StatIs, ListAssumption
    <3>5. Len(yielded[i]) <= 2 => Len(yielded[i]) = 2
      <4>1. \A l \in Nat : l > 1 /\ l <= 2 => l = 2
        OBVIOUS
      <4>2. Len(yielded[i]) \in Nat /\ Len(yielded[i]) > 1
        BY <3>3, <3>4
      <4> QED
        BY <4>1, <4>2
    <3>6. yielded[i] \in Walkable /\ (recursive \/ Len(yielded[i]) <= 2)
      BY <3>2 DEF Reached
    <3> QED
      BY <3>3, <3>4, <3>5, <3>6
  <2> QED
    BY <2>3, <2>5, <2>6, <2>7
<1> QED
  BY <1>1, WholeInvariant, PTL
================================================================================
