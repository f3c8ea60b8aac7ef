----------------------------- MODULE WorkspaceTree -----------------------------
(***************************************************************************)
(* The tree of a user's Home as services/workspace_fs_service.py leaves it *)
(* after each operation. A path is a sequence of names; a tree says what   *)
(* is at every path of the instance. Contents, sizes and times are left    *)
(* out: the modules that need the content of a file add it.                *)
(***************************************************************************)
EXTENDS Naturals, Sequences

CONSTANTS Name,      \* names of entries
          Path,      \* bound: the paths of the instance, sequences of names
          Notebook   \* those that end in .ipynb

\* With a path the instance has the folders on the way to it.
ASSUME TreeAssumption ==
    /\ Path \subseteq Seq(Name) \ {<<>>}
    /\ \A p \in Path : \A n \in 1..Len(p) : SubSeq(p, 1, n) \in Path
    /\ Notebook \subseteq Path

Kinds == {"none", "file", "dir"}

\* p is q or lies on the way to it
Above(p, q) == Len(p) <= Len(q) /\ \A i \in 1..Len(p) : p[i] = q[i]

Parents(p) == {q \in Path : Above(q, p) /\ q # p}

\* What q is called when s is: the rest of q after d, below s
Rebase(q, d, s) == s \o SubSeq(q, Len(d) + 1, Len(q))

Exists(t, p) == t[p] # "none"

IsEmptyDir(t, p) == t[p] = "dir" /\ \A q \in Path : p \in Parents(q) => ~Exists(t, q)

\* mkdir(parents=True) raises where a file is in the way
CanHold(t, p) == \A q \in Parents(p) : t[q] # "file"

WithParents(t, p) == [q \in Path |-> IF q \in Parents(p) THEN "dir" ELSE t[q]]

\* Bug: the directories on the way are not made.
PutFileBare(t, p) == [t EXCEPT ![p] = "file"]

PutFile(t, p) == [WithParents(t, p) EXCEPT ![p] = "file"]

PutDir(t, p) == [WithParents(t, p) EXCEPT ![p] = "dir"]

RemoveTree(t, p) == [q \in Path |-> IF Above(p, q) THEN "none" ELSE t[q]]

\* The entries of s, once more below d
CopyTree(t, s, d) ==
    [q \in Path |-> IF Above(d, q)
                    THEN IF Rebase(q, d, s) \in Path THEN t[Rebase(q, d, s)] ELSE "none"
                    ELSE WithParents(t, d)[q]]

\* shutil.move refuses to move a directory into itself, after the parents were made
MoveTree(t, s, d) ==
    IF Above(s, d) THEN WithParents(t, d)
    ELSE [q \in Path |-> IF Above(s, q) THEN "none" ELSE CopyTree(t, s, d)[q]]

Files(t) == {p \in Path : t[p] = "file"}

\* What read_file needs: a file is there
Resolves(t, p) == t[p] = "file"

(***************************************************************************)
(* The conditions of the operations.                                       *)
(***************************************************************************)
CanWrite(t, p) == t[p] # "dir" /\ CanHold(t, p)

CanMakeDir(t, p) == t[p] # "file" /\ CanHold(t, p)

CanDelete(t, p, recursive) ==
    /\ Exists(t, p)
    /\ t[p] = "dir" /\ ~recursive => IsEmptyDir(t, p)

\* Bound: what lies below s fits below d.
Fits(t, s, d) ==
    \A q \in Path : Above(s, q) /\ Exists(t, q) => Rebase(q, s, d) \in Path

\* Bug: the target is not looked at.
CanMoveUnchecked(t, s, d) == Exists(t, s) /\ CanHold(t, d) /\ Fits(t, s, d)

CanMove(t, s, d) == Exists(t, s) /\ ~Exists(t, d) /\ CanHold(t, d) /\ Fits(t, s, d)

CanGenerate(t, p) == ~Exists(t, p) /\ CanHold(t, p)

\* Every entry lies in directories that are there.
TreeClosed(t) == \A p \in Path : Exists(t, p) => \A q \in Parents(p) : t[q] = "dir"
===============================================================================
