----------------------------- MODULE MCFileList -----------------------------
(***************************************************************************)
(* An argument with a file, a hidden file, a link and a directory with     *)
(* another file.  What the link leads to, and what the directories are and *)
(* hold, differs from tree to tree.                                        *)
(***************************************************************************)
EXTENDS FileList, TLC

CONSTANTS top, sub, nest, file, deep, long, dot, link

MCNode == {top, sub, nest, file, deep, long, dot, link}

\* The path of sub has four bytes, and a name in it three; that of nest seven,
\* which leaves nothing to a name.
MCName ==
  (top :> <<1>>) @@ (sub :> <<1, 1>>) @@ (nest :> <<2, 2>>) @@ (file :> <<2>>)
  @@ (deep :> <<1, 2, 3>>) @@ (long :> <<1, 2, 3, 4>>) @@ (dot :> <<0, 1>>)
  @@ (link :> <<3>>)
MCLink == {link}

Usual ==
  (top :> "directory") @@ (sub :> "directory") @@ (nest :> "directory")
  @@ (file :> "regular") @@ (deep :> "regular") @@ (long :> "regular")
  @@ (dot :> "regular") @@ (link :> "special")

None == [x \in MCNode |-> <<>>]

Plain == [None EXCEPT ![top] = <<dot, sub, link, file>>, ![sub] = <<deep, dot>>]

\* The link leads to the directory it is in.
Linked == [None EXCEPT ![top] = <<link, dot, file>>, ![link] = <<link, dot, file>>]

\* A name is cut to that of the file beside it.
Cut == [None EXCEPT ![top] = <<sub>>, ![sub] = <<long, deep>>]

\* A name is cut to one that does not exist, another one to nothing.
Nested == [None EXCEPT ![top] = <<sub>>, ![sub] = <<long, nest>>,
                        ![nest] = <<file, link>>]

MCTrees ==
  { [kind |-> Usual, entries |-> Plain],
    [kind |-> [Usual EXCEPT ![link] = "directory"], entries |-> Linked],
    [kind |-> Usual, entries |-> Cut],
    [kind |-> [Usual EXCEPT ![link] = "directory"], entries |-> Nested],
    [kind |-> [Usual EXCEPT ![sub] = "locked"], entries |-> Plain],
    [kind |-> [Usual EXCEPT ![top] = "regular"], entries |-> None],
    [kind |-> [Usual EXCEPT ![top] = "gone"], entries |-> None] }
=============================================================================
