---------------------------- MODULE WorkspaceProofs ----------------------------
(***************************************************************************)
(* The files of a Home and the tasks that name them, for any names, any    *)
(* set of paths with the folders on the way to them, and any number of     *)
(* requests, items, tasks, clients, changes beside the API and failures.   *)
(* First the tree stays a tree; then the tasks keep naming files that      *)
(* exist; last, no file is lost but by a deletion.                         *)
(***************************************************************************)
EXTENDS WorkspaceProperties, TLAPS, SequenceTheorems, FiniteSetTheorems

-----------------------------------------------------------------------------
(* Paths. *)

LEMMA PathShape ==
    ASSUME NEW p \in Path
    PROVE  p \in Seq(Name) /\ Len(p) \in Nat \ {0}
  BY TreeAssumption

LEMMA AboveTransitive ==
    ASSUME NEW p \in Path, NEW q \in Path, NEW r \in Path, Above(p, q), Above(q, r)
    PROVE  Above(p, r)
  BY PathShape DEF Above

\* Of two paths on the way to a third one, one lies on the way to the other.
LEMMA AboveComparable ==
    ASSUME NEW p \in Path, NEW q \in Path, NEW r \in Path, Above(p, r), Above(q, r)
    PROVE  Above(p, q) \/ Above(q, p)
  <1>1. CASE Len(p) <= Len(q)
    BY <1>1, PathShape DEF Above
  <1>2. CASE Len(q) <= Len(p)
    BY <1>2, PathShape DEF Above
  <1> QED
    BY <1>1, <1>2, PathShape

LEMMA AboveReflexive ==
    ASSUME NEW p \in Path
    PROVE  Above(p, p)
  BY PathShape DEF Above

\* Two paths on the way to each other are one.
LEMMA AboveAntisymmetric ==
    ASSUME NEW p \in Path, NEW q \in Path, Above(p, q), Above(q, p)
    PROVE  p = q
  <1>1. Len(p) = Len(q) /\ \A i \in 1..Len(p) : p[i] = q[i]
    BY PathShape DEF Above
  <1> QED
    BY <1>1, PathShape

\* The parents of a parent are parents.
LEMMA ParentsTransitive ==
    ASSUME NEW p \in Path, NEW q \in Parents(p), NEW r \in Parents(q)
    PROVE  r \in Parents(p)
  <1>1. r \in Path /\ q \in Path /\ Above(r, q) /\ Above(q, p) /\ r # q
    BY DEF Parents
  <1>2. Above(r, p)
    BY <1>1, AboveTransitive
  <1>3. r # p
    BY <1>1, AboveAntisymmetric
  <1> QED
    BY <1>1, <1>2, <1>3 DEF Parents

\* What Rebase makes of a path, name by name.
LEMMA RebasedNames ==
    ASSUME NEW q \in Path, NEW d \in Path, NEW s \in Path, Above(d, q)
    PROVE  /\ Rebase(q, d, s) \in Seq(Name)
           /\ Len(Rebase(q, d, s)) = Len(s) + Len(q) - Len(d)
           /\ \A i \in 1..Len(Rebase(q, d, s)) :
                Rebase(q, d, s)[i] = IF i <= Len(s) THEN s[i] ELSE q[i - Len(s) + Len(d)]
  <1> DEFINE rest == SubSeq(q, Len(d) + 1, Len(q))
  <1>1. /\ q \in Seq(Name) /\ s \in Seq(Name)
        /\ Len(d) \in Nat /\ Len(q) \in Nat /\ Len(s) \in Nat /\ Len(d) <= Len(q)
    BY PathShape DEF Above
  <1>2. rest \in Seq(Name) /\ Len(rest) = Len(q) - Len(d)
        /\ \A i \in 1..Len(rest) : rest[i] = q[i + Len(d)]
    BY <1>1
  <1> HIDE DEF rest
  <1>3. s \o rest \in Seq(Name) /\ Len(s \o rest) = Len(s) + Len(rest)
        /\ \A i \in 1..(Len(s) + Len(rest)) :
             (s \o rest)[i] = IF i <= Len(s) THEN s[i] ELSE rest[i - Len(s)]
    <2>1. s \in Seq(Name) /\ rest \in Seq(Name)
      BY <1>1, <1>2
    <2> QED
      BY <2>1, ConcatProperties, Zenon
  <1>4. Rebase(q, d, s) = s \o rest
    BY DEF Rebase, rest
  <1>5. ASSUME NEW i \in 1..(Len(s) + Len(q) - Len(d))
        PROVE  (s \o rest)[i] = IF i <= Len(s) THEN s[i] ELSE q[i - Len(s) + Len(d)]
    <2>1. i \in 1..(Len(s) + Len(rest))
      BY <1>1, <1>2
    <2>2. CASE i <= Len(s)
      BY <2>1, <2>2, <1>3
    <2>3. CASE ~ (i <= Len(s))
      <3>1. i - Len(s) \in 1..Len(rest)
        BY <2>1, <2>3, <1>1, <1>2
      <3>2. rest[i - Len(s)] = q[i - Len(s) + Len(d)]
        BY <3>1, <1>2
      <3> QED
        BY <2>1, <2>3, <3>2, <1>1, <1>3
    <2> QED
      BY <2>2, <2>3
  <1>6. Len(s) + Len(rest) = Len(s) + Len(q) - Len(d)
    BY <1>1, <1>2
  <1> QED
    BY <1>3, <1>4, <1>5, <1>6

\* A path of the instance has its beginnings in the instance.
LEMMA BeginningInPath ==
    ASSUME NEW p \in Path, NEW q \in Seq(Name), Len(q) > 0, Above(q, p)
    PROVE  q \in Path
  <1>1. Len(q) \in 1..Len(p) /\ p \in Seq(Name)
    BY PathShape DEF Above
  <1>2. SubSeq(p, 1, Len(q)) = q
    BY <1>1 DEF Above
  <1> QED
    BY <1>1, <1>2, TreeAssumption

\* A folder below d, on the way to q, is called below s like a folder on the way to what
\* q is called.
LEMMA RebasedParent ==
    ASSUME NEW q \in Path, NEW r \in Parents(q), NEW d \in Path, NEW s \in Path,
           Above(d, r), Rebase(q, d, s) \in Path
    PROVE  Rebase(r, d, s) \in Parents(Rebase(q, d, s))
  <1> DEFINE a == Rebase(r, d, s)
             b == Rebase(q, d, s)
  <1>1. r \in Path /\ Above(r, q) /\ r # q /\ Above(d, q)
    BY AboveTransitive DEF Parents
  <1>2. Len(r) < Len(q)
    BY <1>1, AboveAntisymmetric, PathShape DEF Above
  <1>3. /\ Len(s) \in Nat \ {0} /\ Len(d) \in Nat /\ Len(q) \in Nat /\ Len(r) \in Nat
        /\ Len(d) <= Len(r)
        /\ \A i \in 1..Len(r) : r[i] = q[i]
    BY <1>1, PathShape DEF Above
  <1>4. /\ a \in Seq(Name)
        /\ Len(a) = Len(s) + Len(r) - Len(d)
        /\ \A i \in 1..Len(a) : a[i] = IF i <= Len(s) THEN s[i] ELSE r[i - Len(s) + Len(d)]
    BY <1>1, RebasedNames
  <1>5. /\ b \in Seq(Name)
        /\ Len(b) = Len(s) + Len(q) - Len(d)
        /\ \A i \in 1..Len(b) : b[i] = IF i <= Len(s) THEN s[i] ELSE q[i - Len(s) + Len(d)]
    BY <1>1, RebasedNames
  <1> HIDE DEF a, b
  <1>6. Len(a) < Len(b) /\ Len(a) > 0
    BY <1>2, <1>3, <1>4, <1>5
  <1>7. ASSUME NEW i \in 1..Len(a) PROVE a[i] = b[i]
    <2>1. i \in 1..Len(b)
      BY <1>3, <1>4, <1>5, <1>6
    <2>2. i > Len(s) => i - Len(s) + Len(d) \in 1..Len(r)
      BY <1>3, <1>4
    <2>3. CASE i <= Len(s)
      BY <1>4, <1>5, <2>1, <2>3
    <2>4. CASE i > Len(s)
      <3>1. a[i] = r[i - Len(s) + Len(d)] /\ b[i] = q[i - Len(s) + Len(d)]
        BY <1>3, <1>4, <1>5, <2>1, <2>4
      <3> QED
        BY <3>1, <2>2, <2>4, <1>3
    <2> QED
      BY <2>3, <2>4, <1>3
  <1>8. Above(a, b) /\ a # b
    <2>1. Len(a) \in Nat /\ Len(b) \in Nat
      BY <1>4, <1>5
    <2>2. Len(a) <= Len(b) /\ Len(a) # Len(b)
      BY <1>6, <2>1
    <2> QED
      BY <1>7, <2>2 DEF Above
  <1>9. a \in Path
    BY <1>4, <1>6, <1>8, BeginningInPath DEF b
  <1> QED
    BY <1>8, <1>9 DEF Parents, a, b

-----------------------------------------------------------------------------
(* What each operation makes of a tree whose entries lie in directories. *)

LEMMA WithParentsClosed ==
    ASSUME NEW t, TreeClosed(t), NEW p \in Path, CanHold(t, p)
    PROVE  TreeClosed(WithParents(t, p))
  <1> SUFFICES ASSUME NEW q \in Path, Exists(WithParents(t, p), q), NEW r \in Parents(q)
               PROVE  WithParents(t, p)[r] = "dir"
    BY DEF TreeClosed
  <1>1. r \in Path
    BY DEF Parents
  <1>2. CASE q \in Parents(p)
    BY <1>1, <1>2, ParentsTransitive DEF WithParents
  <1>3. CASE q \notin Parents(p)
    BY <1>1, <1>3 DEF WithParents, TreeClosed, Exists
  <1> QED
    BY <1>2, <1>3

\* The entry at the end of the way, put where no directory's place is taken by a file.
LEMMA PutClosed ==
    ASSUME NEW t \in [Path -> Kinds], TreeClosed(t), NEW p \in Path, CanHold(t, p),
           NEW kind \in {"file", "dir"}, kind = "file" => t[p] # "dir"
    PROVE  TreeClosed([WithParents(t, p) EXCEPT ![p] = kind])
  <1> DEFINE u == [WithParents(t, p) EXCEPT ![p] = kind]
  <1> SUFFICES ASSUME NEW q \in Path, Exists(u, q), NEW r \in Parents(q)
               PROVE  u[r] = "dir"
    BY DEF TreeClosed
  <1>1. r \in Path /\ Above(r, q) /\ r # q
    BY DEF Parents
  <1>2. \A x \in Path : u[x] = IF x = p THEN kind
                               ELSE IF x \in Parents(p) THEN "dir" ELSE t[x]
    BY DEF WithParents
  <1>3. TreeClosed(WithParents(t, p))
    BY WithParentsClosed
  <1>4. p \notin Parents(p)
    BY DEF Parents
  <1>5. CASE q = p
    BY <1>1, <1>2, <1>5
  <1>6. CASE q # p /\ q \in Parents(p)
    <2>1. r \in Parents(p)
      BY <1>6, ParentsTransitive
    <2> QED
      BY <1>1, <1>2, <1>4, <2>1
  <1>7. CASE q # p /\ q \notin Parents(p)
    <2>1. t[q] # "none"
      BY <1>2, <1>7 DEF Exists
    <2>2. t[r] = "dir"
      BY <2>1 DEF TreeClosed, Exists
    <2> QED
      BY <1>1, <1>2, <2>2
  <1> QED
    BY <1>5, <1>6, <1>7

LEMMA RemoveTreeClosed ==
    ASSUME NEW t, TreeClosed(t), NEW p \in Path
    PROVE  TreeClosed(RemoveTree(t, p))
  <1> SUFFICES ASSUME NEW q \in Path, Exists(RemoveTree(t, p), q), NEW r \in Parents(q)
               PROVE  RemoveTree(t, p)[r] = "dir"
    BY DEF TreeClosed
  <1>1. r \in Path /\ Above(r, q)
    BY DEF Parents
  <1>2. ~ Above(p, q) /\ Exists(t, q)
    BY DEF RemoveTree, Exists
  <1>3. ~ Above(p, r)
    BY <1>1, <1>2, AboveTransitive
  <1> QED
    BY <1>1, <1>2, <1>3 DEF RemoveTree, TreeClosed

\* The copy hangs below directories, and inside it what was a folder still is one.
LEMMA CopyTreeClosed ==
    ASSUME NEW t, TreeClosed(t), NEW s \in Path, NEW d \in Path,
           ~ Exists(t, d), CanHold(t, d)
    PROVE  TreeClosed(CopyTree(t, s, d))
  <1> SUFFICES ASSUME NEW q \in Path, Exists(CopyTree(t, s, d), q), NEW r \in Parents(q)
               PROVE  CopyTree(t, s, d)[r] = "dir"
    BY DEF TreeClosed
  <1>1. r \in Path /\ Above(r, q) /\ r # q
    BY DEF Parents
  <1>2. TreeClosed(WithParents(t, d))
    BY WithParentsClosed
  <1>3. CASE Above(d, q) /\ Above(d, r)
    <2>1. Rebase(q, d, s) \in Path /\ t[Rebase(q, d, s)] # "none"
      BY <1>3 DEF CopyTree, Exists
    <2>2. Rebase(r, d, s) \in Parents(Rebase(q, d, s))
      BY <1>3, <2>1, RebasedParent
    <2>3. t[Rebase(r, d, s)] = "dir" /\ Rebase(r, d, s) \in Path
      BY <2>1, <2>2 DEF TreeClosed, Exists, Parents
    <2> QED
      BY <1>1, <1>3, <2>3 DEF CopyTree
  <1>4. CASE Above(d, q) /\ ~ Above(d, r)
    <2>1. Above(r, d) /\ r # d
      BY <1>1, <1>4, AboveComparable, AboveReflexive
    <2>2. r \in Parents(d)
      BY <1>1, <2>1 DEF Parents
    <2> QED
      BY <1>1, <1>4, <2>2 DEF CopyTree, WithParents
  <1>5. CASE ~ Above(d, q)
    <2>1. ~ Above(d, r)
      BY <1>1, <1>5, AboveTransitive
    <2>2. Exists(WithParents(t, d), q)
      BY <1>5 DEF CopyTree, Exists
    <2>3. WithParents(t, d)[r] = "dir"
      BY <1>2, <2>2 DEF TreeClosed
    <2> QED
      BY <1>1, <2>1, <2>3 DEF CopyTree
  <1> QED
    BY <1>3, <1>4, <1>5

LEMMA MoveTreeClosed ==
    ASSUME NEW t, TreeClosed(t), NEW s \in Path, NEW d \in Path,
           ~ Exists(t, d), CanHold(t, d)
    PROVE  TreeClosed(MoveTree(t, s, d))
  <1>1. CASE Above(s, d)
    BY <1>1, WithParentsClosed DEF MoveTree
  <1>2. CASE ~ Above(s, d)
    <2>1. MoveTree(t, s, d) = RemoveTree(CopyTree(t, s, d), s)
      BY <1>2 DEF MoveTree, RemoveTree
    <2> QED
      BY <2>1, CopyTreeClosed, RemoveTreeClosed
  <1> QED
    BY <1>1, <1>2

-----------------------------------------------------------------------------
(* The tree. *)

LEMMA TreeTypes ==
    ASSUME NEW t \in [Path -> Kinds], NEW p \in Path, NEW d \in Path
    PROVE  /\ WithParents(t, p) \in [Path -> Kinds]
           /\ PutFile(t, p) \in [Path -> Kinds]
           /\ PutDir(t, p) \in [Path -> Kinds]
           /\ RemoveTree(t, p) \in [Path -> Kinds]
           /\ CopyTree(t, p, d) \in [Path -> Kinds]
           /\ MoveTree(t, p, d) \in [Path -> Kinds]
  <1>1. WithParents(t, p) \in [Path -> Kinds] /\ WithParents(t, d) \in [Path -> Kinds]
    BY DEF WithParents, Kinds
  <1>2. PutFile(t, p) \in [Path -> Kinds] /\ PutDir(t, p) \in [Path -> Kinds]
    BY <1>1 DEF PutFile, PutDir, Kinds
  <1>3. RemoveTree(t, p) \in [Path -> Kinds]
    BY DEF RemoveTree, Kinds
  <1>4. CopyTree(t, p, d) \in [Path -> Kinds]
    BY <1>1 DEF CopyTree, Kinds
  <1>5. MoveTree(t, p, d) \in [Path -> Kinds]
    BY <1>1, <1>4 DEF MoveTree, Kinds
  <1> QED
    BY <1>1, <1>2, <1>3, <1>4, <1>5

Tree == tree \in [Path -> Kinds] /\ HomeClosed

LEMMA TreeInductive == Tree /\ [FilesNext]_filesVars => Tree'
  <1> SUFFICES ASSUME Tree, [FilesNext]_filesVars PROVE Tree'
    OBVIOUS
  <1> USE DEF Tree, HomeClosed
  <1>1. CASE UNCHANGED tree
    BY <1>1 DEF TreeClosed
  <1>2. ASSUME NEW p \in Path, CanHold(tree, p), tree[p] # "dir", tree' = PutFile(tree, p)
        PROVE  Tree'
    BY <1>2, PutClosed, TreeTypes DEF PutFile
  <1>3. ASSUME NEW p \in Path, CanHold(tree, p), tree' = PutDir(tree, p)
        PROVE  Tree'
    BY <1>3, PutClosed, TreeTypes DEF PutDir
  <1>4. ASSUME NEW p \in Path, CanHold(tree, p), tree' = WithParents(tree, p)
        PROVE  Tree'
    BY <1>4, WithParentsClosed, TreeTypes
  <1>5. ASSUME NEW p \in Path, tree' = RemoveTree(tree, p)
        PROVE  Tree'
    BY <1>5, RemoveTreeClosed, TreeTypes
  <1>6. ASSUME NEW s \in Path, NEW d \in Path, CanMove(tree, s, d), tree' = CopyTree(tree, s, d)
        PROVE  Tree'
    BY <1>6, CopyTreeClosed, TreeTypes DEF CanMove
  <1>7. ASSUME NEW s \in Path, NEW d \in Path, CanMove(tree, s, d), tree' = MoveTree(tree, s, d)
        PROVE  Tree'
    BY <1>7, MoveTreeClosed, TreeTypes DEF CanMove
  <1>8. ASSUME NEW p \in Path,
               WriteFile(p) \/ MakeDir(p) \/ GenerateFile(p) \/ UploadFile(p) \/ ChangeOutside(p)
        PROVE  Tree'
    BY <1>2, <1>3, <1>4, <1>5, <1>8
       DEF WriteFile, MakeDir, GenerateFile, UploadFile, ChangeOutside, Disk, CanWrite,
           CanMakeDir, CanGenerate, Exists
  <1>9. ASSUME NEW s \in Path, NEW d \in Path, CopyEntry(s, d)
        PROVE  Tree'
    BY <1>6, <1>9 DEF CopyEntry, Disk
  <1>10. ASSUME NEW c \in Client, NEW s \in Path, NEW d \in Path,
                MoveEntry(c, s, d) \/ MoveIntoItself(c, s, d)
         PROVE  Tree'
    BY <1>7, <1>10 DEF MoveEntry, MoveIntoItself
  <1>11. ASSUME NEW c \in Client, NEW p \in Path, NEW recursive \in BOOLEAN,
                DeleteEntry(c, p, recursive)
         PROVE  Tree'
    BY <1>5, <1>11 DEF DeleteEntry
  <1> QED
    BY <1>1, <1>8, <1>9, <1>10, <1>11
       DEF FilesNext, filesVars, UpdateMetadata, SendBatch, RepathTasks, InvalidateReferencing,
           ValidateGraph, Commit, SavepointFails, RequestFails

\* Every entry of a Home lies in directories that are there: for any set of paths, any
\* number of clients and requests, whatever they copy, move or delete and whatever
\* changes the directory beside the API.
THEOREM HomeStaysClosed == FilesSpec => []HomeClosed
  <1>1. FilesInit => Tree
    BY DEF FilesInit, Tree, HomeClosed
  <1> QED
    BY <1>1, TreeInductive, PTL DEF FilesSpec, Tree

-----------------------------------------------------------------------------
(* The tasks of the workflow. *)

Live == {"DRAFT", "ACTIVE", "DISABLED"}

\* What the transaction of c leaves when it commits: a batch of moves has named the
\* tasks anew, or is about to; a batch of deletions has invalidated the workflow, or is
\* about to; a graph that is being saved has been looked at.
PendingResolves(c) ==
    /\ req[c].op = "save" => req[c].changed = Task /\ Resolving(req[c].refs, tree)
    /\ req[c].op = "move" /\ req[c].src = Nothing /\ SeenStatus(c) \in Live =>
         Resolving(SeenRefs(c), tree)
    /\ req[c].op = "move" /\ req[c].src # Nothing /\ SeenStatus(c) \in Live =>
         /\ Repathed(SeenRefs(c), req[c].src, req[c].dst) \in [Task -> PathOrNothing]
         /\ Resolving(Repathed(SeenRefs(c), req[c].src, req[c].dst), tree)
    /\ req[c].op = "delete" =>
         /\ req[c].changed = {}
         /\ SeenStatus(c) \in Live =>
              \A t \in Task : refs[t] # Nothing =>
                \/ Resolves(tree, refs[t])
                \/ req[c].src # Nothing /\ Above(req[c].src, refs[t])

IdleIsIdle == \A c \in Client : req[c].op = "idle" => req[c] = Idle

\* A move that is on disk has a source and a target.
MoveHasTarget ==
    \A c \in Client : req[c].op = "move" /\ req[c].src # Nothing => req[c].dst \in Path

RefsInv ==
    ~ disturbed =>
      /\ \A c, e \in Client : req[c] # Idle /\ req[e] # Idle => c = e
      /\ Quiet /\ status \in Live => Resolving(refs, tree)
      /\ \A c \in Client : PendingResolves(c)

FilesInv ==
    /\ FilesTypeOK
    /\ HomeClosed
    /\ IdleIsIdle
    /\ MoveHasTarget
    /\ RefsInv

\* Every file of t is one of u.
FilesKept(t, u) == \A p \in Path : Resolves(t, p) => Resolves(u, p)

LEMMA NothingIsNoPath == Nothing \notin Path
  BY TreeAssumption DEF Nothing

\* What only adds files breaks no name.
LEMMA KeptResolving ==
    ASSUME NEW t, NEW u, FilesKept(t, u), NEW names \in [Task -> PathOrNothing],
           Resolving(names, t)
    PROVE  Resolving(names, u)
  BY DEF FilesKept, Resolving, PathOrNothing

LEMMA AdditionsKeep ==
    ASSUME NEW t \in [Path -> Kinds], TreeClosed(t), NEW p \in Path, CanHold(t, p)
    PROVE  /\ FilesKept(t, WithParents(t, p))
           /\ FilesKept(t, PutFile(t, p))
           /\ t[p] # "file" => FilesKept(t, PutDir(t, p))
           /\ ~ Exists(t, p) => \A s \in Path : FilesKept(t, CopyTree(t, s, p))
  <1>1. FilesKept(t, WithParents(t, p))
    BY DEF FilesKept, WithParents, Resolves, CanHold
  <1>2. \A q \in Path : PutFile(t, p)[q] = IF q = p THEN "file" ELSE WithParents(t, p)[q]
    BY DEF PutFile, WithParents
  <1>3. \A q \in Path : PutDir(t, p)[q] = IF q = p THEN "dir" ELSE WithParents(t, p)[q]
    BY DEF PutDir, WithParents
  <1>4. ASSUME ~ Exists(t, p), NEW s \in Path
        PROVE  FilesKept(t, CopyTree(t, s, p))
    <2> SUFFICES ASSUME NEW q \in Path, t[q] = "file"
                 PROVE  CopyTree(t, s, p)[q] = "file"
      BY DEF FilesKept, Resolves
    <2>1. ~ Above(p, q)
      <3>1. SUFFICES ASSUME Above(p, q) PROVE FALSE
        OBVIOUS
      <3>2. p # q
        BY <1>4 DEF Exists
      <3>3. p \in Parents(q)
        BY <3>1, <3>2 DEF Parents
      <3> QED
        BY <1>4, <3>3 DEF TreeClosed, Exists
    <2>2. CopyTree(t, s, p)[q] = WithParents(t, p)[q]
      BY <2>1 DEF CopyTree
    <2> QED
      BY <1>1, <2>2 DEF FilesKept, Resolves
  <1> QED
    BY <1>1, <1>2, <1>3, <1>4 DEF FilesKept, Resolves

\* A path that is moved there and back is the same.
LEMMA RebaseBack ==
    ASSUME NEW q \in Path, NEW s \in Path, NEW d \in Path, Above(s, q), Rebase(q, s, d) \in Path
    PROVE  Above(d, Rebase(q, s, d)) /\ Rebase(Rebase(q, s, d), d, s) = q
  <1> DEFINE r == Rebase(q, s, d)
             b == Rebase(r, d, s)
  <1>1. /\ q \in Seq(Name) /\ s \in Seq(Name) /\ d \in Seq(Name)
        /\ Len(q) \in Nat /\ Len(s) \in Nat /\ Len(d) \in Nat
        /\ Len(s) <= Len(q)
        /\ \A i \in 1..Len(s) : s[i] = q[i]
    BY PathShape DEF Above
  <1>2. /\ Len(r) = Len(d) + Len(q) - Len(s)
        /\ \A i \in 1..Len(r) : r[i] = IF i <= Len(d) THEN d[i] ELSE q[i - Len(d) + Len(s)]
    BY RebasedNames
  <1> HIDE DEF r
  <1>3. Above(d, r)
    BY <1>1, <1>2 DEF Above
  <1>4. r \in Path
    BY DEF r
  <1>5. /\ b \in Seq(Name)
        /\ Len(b) = Len(s) + Len(r) - Len(d)
        /\ \A i \in 1..Len(b) : b[i] = IF i <= Len(s) THEN s[i] ELSE r[i - Len(s) + Len(d)]
    BY <1>3, <1>4, RebasedNames
  <1> HIDE DEF b
  <1>6. Len(b) = Len(q)
    BY <1>1, <1>2, <1>5
  <1>7. ASSUME NEW i \in 1..Len(b) PROVE b[i] = q[i]
    <2>1. CASE i <= Len(s)
      BY <1>1, <1>5, <2>1
    <2>2. CASE ~ (i <= Len(s))
      <3>1. i - Len(s) + Len(d) \in 1..Len(r)
        BY <1>1, <1>2, <1>6, <2>2
      <3>2. ~ (i - Len(s) + Len(d) <= Len(d)) /\ (i - Len(s) + Len(d)) - Len(d) + Len(s) = i
        BY <1>1, <1>6, <2>2
      <3>3. b[i] = r[i - Len(s) + Len(d)]
        BY <1>5, <2>2
      <3>4. r[i - Len(s) + Len(d)] = q[(i - Len(s) + Len(d)) - Len(d) + Len(s)]
        BY <1>2, <3>1, <3>2
      <3> QED
        BY <3>2, <3>3, <3>4
    <2> QED
      BY <2>1, <2>2
  <1>8. b = q
    BY <1>1, <1>5, <1>6, <1>7, SeqEqual
  <1> QED
    BY <1>3, <1>8 DEF r, b

\* Where the files of a tree are once s has become d.
LEMMA FileMoved ==
    ASSUME NEW t \in [Path -> Kinds], TreeClosed(t), NEW s \in Path, NEW d \in Path,
           CanMove(t, s, d), ~ Above(s, d), NEW q \in Path, t[q] = "file"
    PROVE  /\ Above(s, q) => Rebase(q, s, d) \in Path
                             /\ MoveTree(t, s, d)[Rebase(q, s, d)] = "file"
           /\ ~ Above(s, q) => ~ Above(d, q) /\ MoveTree(t, s, d)[q] = "file"
  <1>1. Exists(t, s) /\ ~ Exists(t, d) /\ CanHold(t, d) /\ Fits(t, s, d)
    BY DEF CanMove
  <1>2. \A x \in Path : MoveTree(t, s, d)[x] = IF Above(s, x) THEN "none" ELSE CopyTree(t, s, d)[x]
    BY DEF MoveTree
  <1>3. ASSUME Above(s, q)
        PROVE  Rebase(q, s, d) \in Path /\ MoveTree(t, s, d)[Rebase(q, s, d)] = "file"
    <2> DEFINE r == Rebase(q, s, d)
    <2>1. r \in Path
      BY <1>1, <1>3 DEF Fits, Exists
    <2>2. Above(d, r) /\ Rebase(r, d, s) = q
      BY <1>3, <2>1, RebaseBack
    <2> HIDE DEF r
    <2>3. ~ Above(s, r)
      <3>1. SUFFICES ASSUME Above(s, r) PROVE FALSE
        OBVIOUS
      <3>2. Above(d, s)
        BY <2>1, <2>2, <3>1, AboveComparable
      <3>3. d # s
        BY <1>1
      <3>4. d \in Parents(s)
        BY <3>2, <3>3 DEF Parents
      <3> QED
        BY <1>1, <3>4 DEF TreeClosed, Exists
    <2>4. CopyTree(t, s, d)[r] = t[q]
      BY <2>1, <2>2 DEF CopyTree
    <2>5. MoveTree(t, s, d)[r] = "file"
      BY <1>2, <1>3, <2>1, <2>3, <2>4
    <2> QED
      BY <2>1, <2>5 DEF r
  <1>4. ASSUME ~ Above(s, q)
        PROVE  MoveTree(t, s, d)[q] = "file"
    BY <1>1, <1>2, <1>4, AdditionsKeep DEF FilesKept, Resolves
  <1>5. ~ Above(d, q)
    <2>1. SUFFICES ASSUME Above(d, q) PROVE FALSE
      OBVIOUS
    <2>2. d = q \/ d \in Parents(q)
      BY <2>1 DEF Parents
    <2> QED
      BY <1>1, <2>2 DEF TreeClosed, Exists
  <1> QED
    BY <1>3, <1>4, <1>5

\* The tasks of what is moved find their files again under the new names, the others
\* keep theirs.
LEMMA MovedResolves ==
    ASSUME NEW t \in [Path -> Kinds], TreeClosed(t), NEW s \in Path, NEW d \in Path,
           CanMove(t, s, d), ~ Above(s, d),
           NEW names \in [Task -> PathOrNothing], Resolving(names, t)
    PROVE  /\ Repathed(names, s, d) \in [Task -> PathOrNothing]
           /\ Resolving(Repathed(names, s, d), MoveTree(t, s, d))
  <1>5. ASSUME NEW k \in Task
        PROVE  /\ Repathed(names, s, d)[k] \in PathOrNothing
               /\ Repathed(names, s, d)[k] # Nothing =>
                    MoveTree(t, s, d)[Repathed(names, s, d)[k]] = "file"
    <2>1. Repathed(names, s, d)[k] = IF names[k] # Nothing /\ Above(s, names[k])
                                       THEN Rebase(names[k], s, d) ELSE names[k]
      BY DEF Repathed
    <2>2. CASE names[k] = Nothing
      BY <2>1, <2>2 DEF PathOrNothing
    <2>3. CASE names[k] # Nothing
      <3>1. names[k] \in Path /\ t[names[k]] = "file"
        BY <2>3 DEF PathOrNothing, Resolving, Resolves
      <3>2. CASE Above(s, names[k])
        <4>1. Repathed(names, s, d)[k] = Rebase(names[k], s, d)
          BY <2>1, <2>3, <3>2
        <4> QED
          BY <3>1, <3>2, <4>1, FileMoved DEF PathOrNothing
      <3>3. CASE ~ Above(s, names[k])
        BY <2>1, <3>1, <3>3, FileMoved DEF PathOrNothing
      <3> QED
        BY <3>2, <3>3
    <2> QED
      BY <2>2, <2>3
  <1>6. Repathed(names, s, d) \in [Task -> PathOrNothing]
    BY <1>5 DEF Repathed
  <1> QED
    BY <1>5, <1>6 DEF Resolving, Resolves

\* What the transaction of a request that is going on reads is well-formed.
LEMMA SeenTypes ==
    ASSUME FilesTypeOK, NEW c \in Client
    PROVE  /\ SeenRefs(c) \in [Task -> PathOrNothing]
           /\ SeenStatus(c) \in Statuses
  BY DEF FilesTypeOK, SeenRefs, SeenStatus, Requests

-----------------------------------------------------------------------------
(* Steps that keep the invariant. *)

\* A step that may add files, and leaves the tasks and the requests alone.
LEMMA DiskStep ==
    ASSUME FilesInv, FilesTypeOK', HomeClosed', FilesKept(tree, tree'),
           UNCHANGED <<refs, status, req, disturbed>>
    PROVE  FilesInv'
  <1> USE DEF FilesInv
  <1>1. IdleIsIdle' /\ MoveHasTarget'
    BY DEF IdleIsIdle, MoveHasTarget
  <1>2. \A names \in [Task -> PathOrNothing] : Resolving(names, tree) => Resolving(names, tree')
    BY KeptResolving
  <1>3. ASSUME NEW c \in Client, PendingResolves(c)
        PROVE  PendingResolves(c)'
    <2>1. SeenRefs(c)' = SeenRefs(c) /\ SeenStatus(c)' = SeenStatus(c)
      BY DEF SeenRefs, SeenStatus
    <2>2. req[c].refs \in [Task -> PathOrNothing]
      BY DEF FilesTypeOK, Requests
    <2>3. \A k \in Task : refs[k] # Nothing /\ Resolves(tree, refs[k]) => Resolves(tree', refs[k])
      BY DEF FilesTypeOK, FilesKept, PathOrNothing
    <2>4. SeenRefs(c) \in [Task -> PathOrNothing]
      BY SeenTypes
    <2> DEFINE moved == Repathed(SeenRefs(c), req[c].src, req[c].dst)
    <2>5. Repathed(SeenRefs(c)', req'[c].src, req'[c].dst) = moved
      BY <2>1
    <2>6. req[c].op = "save" => req'[c].changed = Task /\ Resolving(req'[c].refs, tree')
      BY <1>2, <1>3, <2>2 DEF PendingResolves
    <2>7. req[c].op = "move" /\ req[c].src = Nothing /\ SeenStatus(c) \in Live =>
            Resolving(SeenRefs(c)', tree')
      BY <1>2, <1>3, <2>1, <2>4 DEF PendingResolves
    <2>8. req[c].op = "move" /\ req[c].src # Nothing /\ SeenStatus(c) \in Live =>
            moved \in [Task -> PathOrNothing] /\ Resolving(moved, tree')
      BY <1>2, <1>3 DEF PendingResolves
    <2> HIDE DEF moved
    <2> QED
      BY <1>3, <2>1, <2>3, <2>5, <2>6, <2>7, <2>8 DEF PendingResolves
  <1>4. Quiet' = Quiet
    BY DEF Quiet
  <1>5. RefsInv'
    BY <1>2, <1>3, <1>4 DEF RefsInv, FilesTypeOK
  <1> QED
    BY <1>1, <1>5

\* A step of the request of c, which nothing disturbs, or the one that sends or ends it.
LEMMA ClientStep ==
    ASSUME FilesTypeOK', HomeClosed', IdleIsIdle, MoveHasTarget, NEW c \in Client,
           \A e \in Client \ {c} : req'[e] = req[e],
           req'[c].op = "idle" => req'[c] = Idle,
           req'[c].op = "move" /\ req'[c].src # Nothing => req'[c].dst \in Path,
           ~ disturbed' => \A e \in Client \ {c} : req[e] = Idle,
           ~ disturbed' => PendingResolves(c)',
           ~ disturbed' /\ req'[c] = Idle /\ status' \in Live => Resolving(refs', tree')
    PROVE  FilesInv'
  <1>1. IdleIsIdle' /\ MoveHasTarget'
    BY DEF IdleIsIdle, MoveHasTarget
  <1>2. ASSUME ~ disturbed', NEW e \in Client \ {c}
        PROVE  PendingResolves(e)'
    <2>1. req'[e].op = "idle"
      BY <1>2 DEF Idle
    <2> QED
      BY <2>1 DEF PendingResolves
  <1>3. RefsInv'
    BY <1>2 DEF RefsInv, Quiet
  <1> QED
    BY <1>1, <1>3 DEF FilesInv

LEMMA IdleType == Idle \in Requests /\ Idle.op = "idle" /\ Idle.src = Nothing
  BY FilesAssumption DEF Idle, Requests, PathOrNothing

LEMMA RefsTypeInit == FilesInit => FilesTypeOK
  <1> SUFFICES ASSUME FilesInit PROVE FilesTypeOK
    OBVIOUS
  <1>1. tree \in [Path -> Kinds] /\ status \in Statuses /\ disturbed \in BOOLEAN
    BY DEF FilesInit, Statuses
  <1>2. refs \in [Task -> PathOrNothing]
    BY TreeAssumption DEF FilesInit, Ref, PathOrNothing
  <1>3. req \in [Client -> Requests]
    BY IdleType DEF FilesInit
  <1>4. requests \in 0..MaxRequests /\ outside \in 0..MaxOutside /\ faults \in 0..MaxFaults
    BY FilesAssumption DEF FilesInit
  <1> QED
    BY <1>1, <1>2, <1>3, <1>4 DEF FilesTypeOK

\* One request is changed, and what it becomes is well-formed.
LEMMA RequestTypes ==
    ASSUME req \in [Client -> Requests], NEW c \in Client, NEW r \in Requests,
           req' = [req EXCEPT ![c] = r]
    PROVE  req' \in [Client -> Requests] /\ req'[c] = r
           /\ \A e \in Client \ {c} : req'[e] = req[e]
  OBVIOUS

LEMMA DiskTypes ==
    ASSUME FilesInv, Tree', NEW t, Disk(t)
    PROVE  FilesTypeOK' /\ HomeClosed'
  BY FilesAssumption DEF FilesInv, FilesTypeOK, Tree, Disk, CountRequest

LEMMA DiskActions ==
    ASSUME FilesInv, Tree', NEW p \in Path, NEW s \in Path,
           WriteFile(p) \/ MakeDir(p) \/ GenerateFile(p) \/ UploadFile(p) \/ CopyEntry(s, p)
    PROVE  FilesInv'
  <1>1. tree \in [Path -> Kinds] /\ TreeClosed(tree)
    BY DEF FilesInv, FilesTypeOK, HomeClosed
  <1>2. PICK t : Disk(t) /\ FilesKept(tree, t)
    <2>1. CASE WriteFile(p) \/ GenerateFile(p)
      BY <1>1, <2>1, AdditionsKeep DEF WriteFile, GenerateFile, CanWrite, CanGenerate
    <2>2. CASE MakeDir(p)
      BY <1>1, <2>2, AdditionsKeep DEF MakeDir, CanMakeDir
    <2>3. CASE UploadFile(p)
      BY <1>1, <2>3, AdditionsKeep DEF UploadFile
    <2>4. CASE CopyEntry(s, p)
      BY <1>1, <2>4, AdditionsKeep DEF CopyEntry, CanMove
    <2> QED
      BY <2>1, <2>2, <2>3, <2>4
  <1>3. FilesTypeOK' /\ HomeClosed'
    BY <1>2, DiskTypes
  <1> QED
    BY <1>2, <1>3, DiskStep DEF Disk

LEMMA MetadataStep ==
    ASSUME FilesInv, NEW s \in Statuses, UpdateMetadata(s)
    PROVE  FilesInv'
  <1> USE DEF FilesInv
  <1>1. FilesTypeOK' /\ HomeClosed' /\ IdleIsIdle' /\ MoveHasTarget'
    BY FilesAssumption
    DEF UpdateMetadata, CountRequest, FilesTypeOK, HomeClosed, IdleIsIdle, MoveHasTarget
  <1>2. ASSUME ~ disturbed'
        PROVE  ~ disturbed /\ Quiet /\ status \in Live
    BY <1>2 DEF UpdateMetadata, FilesTypeOK, Statuses, Live
  <1>3. ASSUME ~ disturbed', NEW c \in Client
        PROVE  req'[c] = Idle /\ PendingResolves(c)'
    <2>1. req'[c] = Idle
      BY <1>2, <1>3 DEF Quiet, UpdateMetadata
    <2> QED
      BY <2>1 DEF PendingResolves, Idle
  <1>4. RefsInv'
    BY <1>2, <1>3 DEF RefsInv, UpdateMetadata
  <1> QED
    BY <1>1, <1>4

\* What the outside does, and what a fault leaves, is not covered: only types are.
LEMMA DisturbedStep ==
    ASSUME FilesTypeOK', HomeClosed', IdleIsIdle', MoveHasTarget', disturbed'
    PROVE  FilesInv'
  BY DEF FilesInv, RefsInv

LEMMA OutsideStep ==
    ASSUME FilesInv, Tree', NEW p \in Path, ChangeOutside(p)
    PROVE  FilesInv'
  <1>1. FilesTypeOK' /\ HomeClosed'
    BY FilesAssumption DEF FilesInv, FilesTypeOK, Tree, ChangeOutside
  <1>2. IdleIsIdle' /\ MoveHasTarget' /\ disturbed'
    BY DEF FilesInv, ChangeOutside, IdleIsIdle, MoveHasTarget
  <1> QED
    BY <1>1, <1>2, DisturbedStep

LEMMA FaultSteps ==
    ASSUME FilesInv, NEW c \in Client, SavepointFails(c) \/ RequestFails(c)
    PROVE  FilesInv'
  <1> USE DEF FilesInv
  <1>1. PICK r \in Requests : /\ req' = [req EXCEPT ![c] = r]
                              /\ r.src = Nothing
                              /\ r.op = "idle" => r = Idle
    <2>1. CASE SavepointFails(c)
      <3> DEFINE r == [req[c] EXCEPT !.src = Nothing, !.dst = Nothing]
      <3>1. r \in Requests /\ r.src = Nothing /\ r.op = req[c].op
        BY DEF FilesTypeOK, Requests, PathOrNothing
      <3>2. req[c].op # "idle"
        BY <2>1 DEF SavepointFails, IdleIsIdle, Idle
      <3>3. req' = [req EXCEPT ![c] = r]
        BY <2>1 DEF SavepointFails
      <3> QED
        BY <3>1, <3>2, <3>3
    <2>2. CASE RequestFails(c)
      BY <2>2, IdleType DEF RequestFails
    <2> QED
      BY <2>1, <2>2
  <1>2. /\ req' \in [Client -> Requests] /\ req'[c] = r
        /\ \A e \in Client \ {c} : req'[e] = req[e]
    BY <1>1, RequestTypes DEF FilesTypeOK
  <1>3. UNCHANGED <<tree, refs, status, requests, outside>> /\ disturbed' = TRUE
        /\ faults' \in 0..MaxFaults
    BY FilesAssumption DEF FilesTypeOK, SavepointFails, RequestFails
  <1>5. FilesTypeOK' /\ HomeClosed' /\ disturbed'
    BY <1>2, <1>3 DEF FilesTypeOK, HomeClosed
  <1>4. IdleIsIdle' /\ MoveHasTarget'
    BY <1>1, <1>2 DEF IdleIsIdle, MoveHasTarget
  <1> QED
    BY <1>4, <1>5, DisturbedStep

\* While c is at work and nothing disturbs, nobody else is.
LEMMA AloneAtWork ==
    ASSUME FilesInv, ~ disturbed, NEW c \in Client, req[c].op # "idle"
    PROVE  /\ \A e \in Client \ {c} : req[e] = Idle
           /\ PendingResolves(c)
  BY DEF FilesInv, RefsInv, Idle

LEMMA SendStep ==
    ASSUME FilesInv, NEW c \in Client, SendBatch(c)
    PROVE  FilesInv'
  <1> USE DEF FilesInv
  <1>1. PICK op \in {"move", "delete"}, n \in 1..MaxItems :
            req' = [req EXCEPT ![c].op = op, ![c].left = n]
    BY DEF SendBatch
  <1> DEFINE r == [Idle EXCEPT !.op = op, !.left = n]
  <1>2. req[c] = Idle
    BY DEF SendBatch, Begin
  <1>3. r \in Requests
    <2>1. n \in 0..MaxItems
      BY FilesAssumption
    <2>2. op \in {"idle", "move", "delete", "save"}
      OBVIOUS
    <2> QED
      BY <2>1, <2>2, IdleType DEF Requests
  <1>4. /\ r.op = op /\ r.src = Nothing /\ r.changed = {} /\ r.status = "keep"
        /\ r.refs = Idle.refs
    BY DEF Idle
  <1>5. req' = [req EXCEPT ![c] = r]
    BY <1>1, <1>2 DEF FilesTypeOK
  <1> HIDE DEF r
  <1>6. /\ req' \in [Client -> Requests] /\ req'[c] = r
        /\ \A e \in Client \ {c} : req'[e] = req[e]
    BY <1>3, <1>5, RequestTypes DEF FilesTypeOK
  <1>7. FilesTypeOK' /\ HomeClosed'
    BY <1>6, FilesAssumption DEF FilesTypeOK, HomeClosed, SendBatch, Begin, CountRequest
  <1>8. ASSUME ~ disturbed' PROVE ~ disturbed /\ Quiet
    BY <1>8 DEF SendBatch, FilesTypeOK
  <1>9. ASSUME ~ disturbed' PROVE PendingResolves(c)'
    <2>1. status \in Live => Resolving(refs, tree)
      BY <1>8, <1>9 DEF RefsInv
    <2>2. refs' = refs /\ status' = status /\ tree' = tree
      BY DEF SendBatch
    <2>3. SeenStatus(c)' = status
      BY <1>4, <1>6, <2>2 DEF SeenStatus
    <2>4. SeenRefs(c)' = refs
      BY <1>4, <1>6, <2>2 DEF SeenRefs, FilesTypeOK
    <2>5. op = "move" \/ op = "delete"
      OBVIOUS
    <2> QED
      BY <1>4, <1>6, <2>1, <2>2, <2>3, <2>4, <2>5 DEF PendingResolves, Resolving
  <1>10. ~ disturbed' => \A e \in Client \ {c} : req[e] = Idle
    BY <1>8 DEF Quiet
  <1>11. req'[c].op # "idle" /\ req'[c].src = Nothing /\ req'[c] # Idle
    BY <1>4, <1>6, IdleType
  <1> QED
    BY <1>6, <1>7, <1>9, <1>10, <1>11, ClientStep

LEMMA MoveStep ==
    ASSUME FilesInv, Tree', NEW c \in Client, NEW s \in Path, NEW d \in Path,
           MoveEntry(c, s, d)
    PROVE  FilesInv'
  <1> USE DEF FilesInv
  <1> DEFINE r == [req[c] EXCEPT !.left = @ - 1, !.src = s, !.dst = d]
  <1>1. req[c].op = "move" /\ req[c].left > 0 /\ req[c].src = Nothing
    BY DEF MoveEntry, Take
  <1>2. r \in Requests
    <2>1. req[c] \in Requests
      BY DEF FilesTypeOK
    <2>2. req[c].left - 1 \in 0..MaxItems
      BY <1>1, <2>1, FilesAssumption DEF Requests
    <2>3. s \in PathOrNothing /\ d \in PathOrNothing
      BY DEF PathOrNothing
    <2> QED
      BY <2>1, <2>2, <2>3 DEF Requests
  <1>3. /\ r.op = "move" /\ r.src = s /\ r.dst = d /\ r.changed = req[c].changed
        /\ r.status = req[c].status /\ r.refs = req[c].refs
    BY <1>1 DEF FilesTypeOK, Requests
  <1>4. req' = [req EXCEPT ![c] = r]
    BY DEF MoveEntry, Take, FilesTypeOK
  <1> HIDE DEF r
  <1>5. /\ req' \in [Client -> Requests] /\ req'[c] = r
        /\ \A e \in Client \ {c} : req'[e] = req[e]
    BY <1>2, <1>4, RequestTypes DEF FilesTypeOK
  <1>6. UNCHANGED <<refs, status, requests, outside, faults, disturbed>>
        /\ tree' = MoveTree(tree, s, d)
    BY DEF MoveEntry, Take
  <1>7. FilesTypeOK' /\ HomeClosed'
    BY <1>5, <1>6 DEF FilesTypeOK, Tree
  <1>8. s # Nothing
    BY NothingIsNoPath
  <1>9. ASSUME ~ disturbed' PROVE PendingResolves(c)'
    <2>1. PendingResolves(c)
      BY <1>1, <1>6, <1>9, AloneAtWork
    <2>2. SeenRefs(c)' = SeenRefs(c) /\ SeenStatus(c)' = SeenStatus(c)
      BY <1>3, <1>5, <1>6 DEF SeenRefs, SeenStatus
    <2> DEFINE moved == Repathed(SeenRefs(c), s, d)
    <2>3. SeenStatus(c) \in Live =>
            moved \in [Task -> PathOrNothing] /\ Resolving(moved, tree')
      <3>1. SUFFICES ASSUME SeenStatus(c) \in Live
                     PROVE  moved \in [Task -> PathOrNothing] /\ Resolving(moved, tree')
        OBVIOUS
      <3>2. Resolving(SeenRefs(c), tree) /\ SeenRefs(c) \in [Task -> PathOrNothing]
        BY <1>1, <2>1, <3>1, SeenTypes DEF PendingResolves
      <3>3. CanMove(tree, s, d) /\ ~ Above(s, d)
        BY DEF MoveEntry
      <3>4. tree \in [Path -> Kinds] /\ TreeClosed(tree)
        BY DEF FilesTypeOK, HomeClosed
      <3> QED
        BY <1>6, <3>2, <3>3, <3>4, MovedResolves
    <2>4. Repathed(SeenRefs(c)', req'[c].src, req'[c].dst) = moved
      BY <1>3, <1>5, <2>2
    <2> HIDE DEF moved
    <2> QED
      BY <1>3, <1>5, <1>8, <2>2, <2>3, <2>4 DEF PendingResolves
  <1>10. ~ disturbed' => \A e \in Client \ {c} : req[e] = Idle
    BY <1>1, <1>6, AloneAtWork
  <1>11. req'[c].op # "idle" /\ req'[c] # Idle /\ req'[c].dst \in Path
    BY <1>3, <1>5, IdleType
  <1> QED
    BY <1>5, <1>7, <1>9, <1>10, <1>11, ClientStep

LEMMA IntoItselfStep ==
    ASSUME FilesInv, Tree', NEW c \in Client, NEW s \in Path, NEW d \in Path,
           MoveIntoItself(c, s, d)
    PROVE  FilesInv'
  <1> USE DEF FilesInv
  <1>1. /\ req' \in [Client -> Requests] /\ req'[c] = Idle
        /\ \A e \in Client \ {c} : req'[e] = req[e]
    BY RequestTypes, IdleType DEF FilesTypeOK, MoveIntoItself
  <1>2. /\ UNCHANGED <<refs, status, requests, outside, faults>>
        /\ tree' = WithParents(tree, d)
        /\ disturbed' = (disturbed \/ req[c].changed # {} \/ req[c].status # "keep")
        /\ req[c].op = "move" /\ req[c].src = Nothing
    BY DEF MoveIntoItself, MoveTree
  <1>3. FilesTypeOK' /\ HomeClosed'
    BY <1>1, <1>2 DEF FilesTypeOK, Tree
  <1>4. ASSUME ~ disturbed', status' \in Live PROVE Resolving(refs', tree')
    <2>1. PendingResolves(c) /\ req[c].changed = {} /\ req[c].status = "keep"
      BY <1>2, <1>4, AloneAtWork
    <2>2. SeenRefs(c) = refs /\ SeenStatus(c) = status
      BY <2>1 DEF SeenRefs, SeenStatus, FilesTypeOK
    <2>3. Resolving(refs, tree)
      BY <1>2, <1>4, <2>1, <2>2 DEF PendingResolves
    <2>4. FilesKept(tree, tree')
      BY <1>2, AdditionsKeep DEF MoveIntoItself, CanMove, FilesTypeOK, HomeClosed
    <2> QED
      BY <1>2, <2>3, <2>4, KeptResolving DEF FilesTypeOK
  <1>5. ~ disturbed' => PendingResolves(c)'
    BY <1>1, IdleType DEF PendingResolves
  <1>6. ~ disturbed' => \A e \in Client \ {c} : req[e] = Idle
    BY <1>2, AloneAtWork
  <1> QED
    BY <1>1, <1>3, <1>4, <1>5, <1>6, IdleType, ClientStep

LEMMA DeleteStep ==
    ASSUME FilesInv, Tree', NEW c \in Client, NEW p \in Path, NEW recursive \in BOOLEAN,
           DeleteEntry(c, p, recursive)
    PROVE  FilesInv'
  <1> USE DEF FilesInv
  <1> DEFINE r == [req[c] EXCEPT !.left = @ - 1, !.src = p, !.dst = Nothing]
  <1>1. req[c].op = "delete" /\ req[c].left > 0 /\ req[c].src = Nothing
    BY DEF DeleteEntry, Take
  <1>2. r \in Requests
    <2>1. req[c] \in Requests
      BY DEF FilesTypeOK
    <2>2. req[c].left - 1 \in 0..MaxItems
      BY <1>1, <2>1, FilesAssumption DEF Requests
    <2>3. p \in PathOrNothing /\ Nothing \in PathOrNothing
      BY DEF PathOrNothing
    <2> QED
      BY <2>1, <2>2, <2>3 DEF Requests
  <1>3. /\ r.op = "delete" /\ r.src = p /\ r.changed = req[c].changed
        /\ r.status = req[c].status /\ r.refs = req[c].refs
    BY <1>1 DEF FilesTypeOK, Requests
  <1>4. req' = [req EXCEPT ![c] = r]
    BY DEF DeleteEntry, Take, FilesTypeOK
  <1> HIDE DEF r
  <1>5. /\ req' \in [Client -> Requests] /\ req'[c] = r
        /\ \A e \in Client \ {c} : req'[e] = req[e]
    BY <1>2, <1>4, RequestTypes DEF FilesTypeOK
  <1>6. UNCHANGED <<refs, status, requests, outside, faults, disturbed>>
        /\ tree' = RemoveTree(tree, p)
    BY DEF DeleteEntry, Take
  <1>7. FilesTypeOK' /\ HomeClosed'
    BY <1>5, <1>6 DEF FilesTypeOK, Tree
  <1>8. p # Nothing
    BY NothingIsNoPath
  <1>9. ASSUME ~ disturbed' PROVE PendingResolves(c)'
    <2>1. PendingResolves(c)
      BY <1>1, <1>6, <1>9, AloneAtWork
    <2>2. SeenStatus(c)' = SeenStatus(c)
      BY <1>3, <1>5, <1>6 DEF SeenStatus
    <2>3. ASSUME SeenStatus(c) \in Live, NEW t \in Task, refs[t] # Nothing
          PROVE  Resolves(tree', refs[t]) \/ Above(p, refs[t])
      <3>1. Resolves(tree, refs[t]) /\ refs[t] \in Path
        BY <1>1, <2>1, <2>3 DEF PendingResolves, FilesTypeOK, PathOrNothing
      <3> QED
        BY <1>6, <3>1 DEF Resolves, RemoveTree
    <2> QED
      BY <1>1, <1>3, <1>5, <1>6, <1>8, <2>1, <2>2, <2>3 DEF PendingResolves
  <1>10. ~ disturbed' => \A e \in Client \ {c} : req[e] = Idle
    BY <1>1, <1>6, AloneAtWork
  <1>11. req'[c].op = "delete" /\ req'[c] # Idle
    BY <1>3, <1>5, IdleType
  <1> QED
    BY <1>5, <1>7, <1>9, <1>10, <1>11, ClientStep

LEMMA RepathStep ==
    ASSUME FilesInv, NEW c \in Client, RepathTasks(c)
    PROVE  FilesInv'
  <1> USE DEF FilesInv
  <1> DEFINE seen == SeenRefs(c)
             new == Repathed(seen, req[c].src, req[c].dst)
             touched == {t \in Task : new[t] # seen[t]}
             mended == touched # {} /\ SeenStatus(c) = "INVALID" /\ Resolving(new, tree)
             r == [req[c] EXCEPT !.src = Nothing, !.dst = Nothing, !.refs = new,
                                 !.changed = @ \cup touched,
                                 !.status = IF mended THEN "DRAFT" ELSE @]
  <1>1. req[c].op = "move" /\ req[c].src # Nothing
    BY DEF RepathTasks
  <1>2. new \in [Task -> PathOrNothing] /\ req' = [req EXCEPT ![c] = r]
    <2>1. PICK sn \in {seen} :
            \E nw \in {Repathed(sn, req[c].src, req[c].dst)} \cap [Task -> PathOrNothing] :
                \E tc \in {{t \in Task : nw[t] # sn[t]}} :
                    req' = [req EXCEPT
                             ![c].src = Nothing, ![c].dst = Nothing, ![c].refs = nw,
                             ![c].changed = @ \cup tc,
                             ![c].status = IF /\ tc # {} /\ SeenStatus(c) = "INVALID"
                                              /\ Resolving(nw, tree)
                                           THEN "DRAFT" ELSE @]
      BY DEF RepathTasks
    <2>2. sn = seen
      OBVIOUS
    <2> HIDE DEF seen
    <2>3. PICK nw \in {Repathed(sn, req[c].src, req[c].dst)} \cap [Task -> PathOrNothing] :
                \E tc \in {{t \in Task : nw[t] # sn[t]}} :
                    req' = [req EXCEPT
                             ![c].src = Nothing, ![c].dst = Nothing, ![c].refs = nw,
                             ![c].changed = @ \cup tc,
                             ![c].status = IF /\ tc # {} /\ SeenStatus(c) = "INVALID"
                                              /\ Resolving(nw, tree)
                                           THEN "DRAFT" ELSE @]
      BY <2>1
    <2>4. nw = new /\ new \in [Task -> PathOrNothing]
      BY <2>2, <2>3
    <2> HIDE DEF new
    <2>5. req' = [req EXCEPT
                    ![c].src = Nothing, ![c].dst = Nothing, ![c].refs = new,
                    ![c].changed = @ \cup touched,
                    ![c].status = IF mended THEN "DRAFT" ELSE @]
      BY <2>2, <2>3, <2>4
    <2> HIDE DEF touched, mended
    <2> QED
      BY <2>4, <2>5 DEF FilesTypeOK
  <1>3. seen \in [Task -> PathOrNothing] /\ SeenStatus(c) \in Statuses
    BY SeenTypes
  <1> HIDE DEF seen, new
  <1>4. r \in Requests
    <2>1. req[c] \in Requests
      BY DEF FilesTypeOK
    <2>2. touched \subseteq Task /\ "DRAFT" \in Statuses /\ Nothing \in PathOrNothing
      BY DEF Statuses, PathOrNothing
    <2> HIDE DEF touched, mended
    <2> QED
      BY <1>2, <2>1, <2>2 DEF Requests
  <1>5. /\ r.op = "move" /\ r.src = Nothing /\ r.changed = req[c].changed \cup touched
        /\ r.status = (IF mended THEN "DRAFT" ELSE req[c].status) /\ r.refs = new
    BY <1>1 DEF FilesTypeOK, Requests
  <1> HIDE DEF r
  <1>6. /\ req' \in [Client -> Requests] /\ req'[c] = r
        /\ \A e \in Client \ {c} : req'[e] = req[e]
    BY <1>2, <1>4, RequestTypes DEF FilesTypeOK
  <1>7. UNCHANGED <<tree, refs, status, requests, outside, faults, disturbed>>
    BY DEF RepathTasks
  <1>8. FilesTypeOK' /\ HomeClosed'
    BY <1>6, <1>7 DEF FilesTypeOK, HomeClosed
  <1>9. ASSUME ~ disturbed' PROVE PendingResolves(c)'
    <2>1. PendingResolves(c)
      BY <1>1, <1>7, <1>9, AloneAtWork
    <2>2. SeenRefs(c)' = new
      <3>1. SeenRefs(c)' = [t \in Task |-> IF t \in req'[c].changed THEN req'[c].refs[t]
                                                                     ELSE refs'[t]]
        BY DEF SeenRefs
      <3>2. ASSUME NEW t \in Task, t \notin req'[c].changed PROVE refs[t] = new[t]
        <4>1. t \notin req[c].changed /\ t \notin touched
          BY <1>5, <1>6, <3>2
        <4>2. seen[t] = refs[t]
          BY <4>1 DEF seen, SeenRefs
        <4> QED
          BY <4>1, <4>2
      <3>3. SeenRefs(c)' = [t \in Task |-> new[t]]
        BY <1>5, <1>6, <1>7, <3>1, <3>2
      <3> QED
        BY <1>2, <3>3
    <2>3. SeenStatus(c)' \in Live => Resolving(new, tree)
      <3>1. CASE mended
        BY <3>1
      <3>2. CASE ~ mended
        <4>1. SeenStatus(c)' = SeenStatus(c)
          BY <1>5, <1>6, <1>7, <3>2 DEF SeenStatus
        <4> QED
          BY <1>1, <2>1, <4>1 DEF PendingResolves, new, seen
      <3> QED
        BY <3>1, <3>2
    <2> QED
      BY <1>5, <1>6, <1>7, <2>2, <2>3 DEF PendingResolves
  <1>10. ~ disturbed' => \A e \in Client \ {c} : req[e] = Idle
    BY <1>1, <1>7, AloneAtWork
  <1>11. req'[c].op = "move" /\ req'[c].src = Nothing /\ req'[c] # Idle
    BY <1>5, <1>6, IdleType
  <1> QED
    BY <1>6, <1>8, <1>9, <1>10, <1>11, ClientStep

LEMMA InvalidateStep ==
    ASSUME FilesInv, NEW c \in Client, InvalidateReferencing(c)
    PROVE  FilesInv'
  <1> USE DEF FilesInv
  <1> DEFINE named == \E t \in Task : refs[t] # Nothing /\ Above(req[c].src, refs[t])
             broken == SeenStatus(c) # "ARCHIVED" /\ named
             r == [req[c] EXCEPT !.src = Nothing,
                                 !.status = IF broken THEN "INVALID" ELSE @]
  <1>1. req[c].op = "delete" /\ req[c].src # Nothing
    BY DEF InvalidateReferencing
  <1>2. req' = [req EXCEPT ![c] = r]
    BY DEF InvalidateReferencing, FilesTypeOK
  <1>3. req[c] \in Requests
    BY DEF FilesTypeOK
  <1> HIDE DEF broken
  <1>4. r \in Requests
    BY <1>3 DEF Requests, Statuses, PathOrNothing
  <1>5. /\ r.op = "delete" /\ r.src = Nothing /\ r.changed = req[c].changed
        /\ r.status = (IF broken THEN "INVALID" ELSE req[c].status)
    BY <1>1, <1>3 DEF Requests
  <1> HIDE DEF r
  <1>6. /\ req' \in [Client -> Requests] /\ req'[c] = r
        /\ \A e \in Client \ {c} : req'[e] = req[e]
    BY <1>2, <1>4, RequestTypes DEF FilesTypeOK
  <1>7. UNCHANGED <<tree, refs, status, requests, outside, faults, disturbed>>
    BY DEF InvalidateReferencing
  <1>8. FilesTypeOK' /\ HomeClosed'
    BY <1>6, <1>7 DEF FilesTypeOK, HomeClosed
  <1>9. ASSUME ~ disturbed' PROVE PendingResolves(c)'
    <2>1. PendingResolves(c)
      BY <1>1, <1>7, <1>9, AloneAtWork
    <2>2. CASE broken
      <3>1. SeenStatus(c)' = "INVALID"
        BY <1>5, <1>6, <2>2 DEF SeenStatus
      <3> QED
        BY <1>1, <1>5, <1>6, <2>1, <3>1 DEF PendingResolves, Live
    <2>3. CASE ~ broken
      <3>1. SeenStatus(c)' = SeenStatus(c)
        BY <1>5, <1>6, <1>7, <2>3 DEF SeenStatus
      <3>2. SeenStatus(c) \in Live => ~ named
        BY <2>3 DEF broken, Live
      <3>3. SeenStatus(c) \in Live =>
              \A t \in Task : refs[t] # Nothing => Resolves(tree, refs[t])
        BY <1>1, <2>1, <3>2 DEF PendingResolves
      <3> QED
        BY <1>1, <1>5, <1>6, <1>7, <2>1, <3>1, <3>3 DEF PendingResolves
    <2> QED
      BY <2>2, <2>3
  <1>10. ~ disturbed' => \A e \in Client \ {c} : req[e] = Idle
    BY <1>1, <1>7, AloneAtWork
  <1>11. req'[c].op = "delete" /\ req'[c] # Idle
    BY <1>5, <1>6, IdleType
  <1> QED
    BY <1>6, <1>8, <1>9, <1>10, <1>11, ClientStep

LEMMA SaveStep ==
    ASSUME FilesInv, NEW c \in Client, NEW graph \in [Task -> Ref], ValidateGraph(c, graph)
    PROVE  FilesInv'
  <1> USE DEF FilesInv
  <1> DEFINE r == [Idle EXCEPT !.op = "save", !.refs = graph, !.changed = Task,
                               !.status = IF status = "INVALID" THEN "DRAFT" ELSE "keep"]
  <1>1. graph \in [Task -> PathOrNothing]
    BY TreeAssumption DEF Ref, PathOrNothing
  <1>2. r \in Requests
    BY <1>1, IdleType DEF Requests, Statuses
  <1>3. r.op = "save" /\ r.src = Nothing /\ r.refs = graph /\ r.changed = Task
    BY DEF Idle
  <1>4. req' = [req EXCEPT ![c] = r]
    BY DEF ValidateGraph
  <1> HIDE DEF r
  <1>5. /\ req' \in [Client -> Requests] /\ req'[c] = r
        /\ \A e \in Client \ {c} : req'[e] = req[e]
    BY <1>2, <1>4, RequestTypes DEF FilesTypeOK
  <1>6. /\ UNCHANGED <<tree, refs, status, outside, faults>>
        /\ requests' \in 0..MaxRequests
        /\ disturbed' = ~ Quiet
        /\ Resolving(graph, tree)
    BY FilesAssumption DEF ValidateGraph, Begin, CountRequest, FilesTypeOK
  <1>7. FilesTypeOK' /\ HomeClosed'
    BY <1>5, <1>6 DEF FilesTypeOK, HomeClosed
  <1>8. PendingResolves(c)'
    BY <1>3, <1>5, <1>6 DEF PendingResolves
  <1>9. ~ disturbed' => \A e \in Client \ {c} : req[e] = Idle
    BY <1>6 DEF Quiet
  <1>10. req'[c].op = "save" /\ req'[c] # Idle
    BY <1>3, <1>5, IdleType
  <1> QED
    BY <1>5, <1>7, <1>8, <1>9, <1>10, ClientStep

LEMMA CommitStep ==
    ASSUME FilesInv, NEW c \in Client, Commit(c)
    PROVE  FilesInv'
  <1> USE DEF FilesInv
  <1>1. /\ req' \in [Client -> Requests] /\ req'[c] = Idle
        /\ \A e \in Client \ {c} : req'[e] = req[e]
    BY RequestTypes, IdleType DEF FilesTypeOK, Commit
  <1>2. /\ UNCHANGED <<tree, requests, outside, faults, disturbed>>
        /\ refs' = SeenRefs(c) /\ status' = SeenStatus(c)
        /\ req[c].op # "idle" /\ req[c].src = Nothing
    BY DEF Commit
  <1>3. FilesTypeOK' /\ HomeClosed'
    BY <1>1, <1>2, SeenTypes DEF FilesTypeOK, HomeClosed
  <1>4. ASSUME ~ disturbed', status' \in Live PROVE Resolving(refs', tree')
    <2>1. PendingResolves(c)
      BY <1>2, <1>4, AloneAtWork
    <2>2. req[c].op \in {"move", "delete", "save"}
      BY <1>2 DEF FilesTypeOK, Requests
    <2>3. CASE req[c].op = "move"
      BY <1>2, <1>4, <2>1, <2>3 DEF PendingResolves
    <2>4. CASE req[c].op = "delete"
      <3>1. SeenRefs(c) = refs
        BY <2>1, <2>4 DEF PendingResolves, SeenRefs, FilesTypeOK
      <3> QED
        BY <1>2, <1>4, <2>1, <2>4, <3>1 DEF PendingResolves, Resolving
    <2>5. CASE req[c].op = "save"
      <3>1. SeenRefs(c) = req[c].refs
        BY <2>1, <2>5 DEF PendingResolves, SeenRefs, FilesTypeOK, Requests
      <3> QED
        BY <1>2, <2>1, <2>5, <3>1 DEF PendingResolves
    <2> QED
      BY <2>2, <2>3, <2>4, <2>5
  <1>5. PendingResolves(c)'
    BY <1>1, IdleType DEF PendingResolves
  <1>6. ~ disturbed' => \A e \in Client \ {c} : req[e] = Idle
    BY <1>2, AloneAtWork
  <1> QED
    BY <1>1, <1>3, <1>4, <1>5, <1>6, IdleType, ClientStep

LEMMA FilesInductive == FilesInv /\ [FilesNext]_filesVars => FilesInv'
  <1> SUFFICES ASSUME FilesInv, [FilesNext]_filesVars PROVE FilesInv'
    OBVIOUS
  <1>1. Tree'
    BY TreeInductive DEF FilesInv, FilesTypeOK, Tree
  <1>2. ASSUME NEW p \in Path, WriteFile(p) \/ MakeDir(p) \/ GenerateFile(p) \/ UploadFile(p)
        PROVE  FilesInv'
    BY <1>1, <1>2, DiskActions
  <1>3. ASSUME NEW s \in Path, NEW d \in Path, CopyEntry(s, d) PROVE FilesInv'
    BY <1>1, <1>3, DiskActions
  <1>4. ASSUME NEW p \in Path, ChangeOutside(p) PROVE FilesInv'
    BY <1>1, <1>4, OutsideStep
  <1>5. ASSUME NEW s \in Statuses, UpdateMetadata(s) PROVE FilesInv'
    BY <1>5, MetadataStep
  <1>6. ASSUME NEW c \in Client, SendBatch(c) PROVE FilesInv'
    BY <1>6, SendStep
  <1>7. ASSUME NEW c \in Client, NEW s \in Path, NEW d \in Path, MoveEntry(c, s, d)
        PROVE  FilesInv'
    BY <1>1, <1>7, MoveStep
  <1>8. ASSUME NEW c \in Client, NEW s \in Path, NEW d \in Path, MoveIntoItself(c, s, d)
        PROVE  FilesInv'
    BY <1>1, <1>8, IntoItselfStep
  <1>9. ASSUME NEW c \in Client, NEW p \in Path, NEW recursive \in BOOLEAN,
               DeleteEntry(c, p, recursive)
        PROVE  FilesInv'
    BY <1>1, <1>9, DeleteStep
  <1>10. ASSUME NEW c \in Client, RepathTasks(c) PROVE FilesInv'
    BY <1>10, RepathStep
  <1>11. ASSUME NEW c \in Client, InvalidateReferencing(c) PROVE FilesInv'
    BY <1>11, InvalidateStep
  <1>12. ASSUME NEW c \in Client, NEW graph \in [Task -> Ref], ValidateGraph(c, graph)
         PROVE  FilesInv'
    BY <1>12, SaveStep
  <1>13. ASSUME NEW c \in Client, Commit(c) PROVE FilesInv'
    BY <1>13, CommitStep
  <1>14. ASSUME NEW c \in Client, SavepointFails(c) \/ RequestFails(c) PROVE FilesInv'
    BY <1>14, FaultSteps
  <1>15. CASE UNCHANGED filesVars
    <2>1. UNCHANGED <<refs, status, req, disturbed>> /\ tree' = tree
          /\ FilesTypeOK' /\ HomeClosed'
      BY <1>15 DEF filesVars, FilesInv, FilesTypeOK, HomeClosed
    <2> QED
      BY <2>1, DiskStep DEF FilesKept
  <1> QED
    BY <1>2, <1>3, <1>4, <1>5, <1>6, <1>7, <1>8, <1>9, <1>10, <1>11, <1>12, <1>13, <1>14,
       <1>15 DEF FilesNext

LEMMA FilesInitially == FilesInit => FilesInv
  <1> SUFFICES ASSUME FilesInit PROVE FilesInv
    OBVIOUS
  <1>1. FilesTypeOK /\ HomeClosed
    BY RefsTypeInit DEF FilesInit, HomeClosed
  <1>2. \A c \in Client : req[c] = Idle
    BY DEF FilesInit
  <1>3. IdleIsIdle /\ MoveHasTarget
    BY <1>2, IdleType DEF IdleIsIdle, MoveHasTarget
  <1>4. \A c \in Client : PendingResolves(c)
    BY <1>2, IdleType DEF PendingResolves
  <1>5. status \in Live => Resolving(refs, tree)
    BY DEF FilesInit, Live
  <1> QED
    BY <1>1, <1>2, <1>3, <1>4, <1>5 DEF FilesInv, RefsInv

\* The disk, the tasks and the requests keep their types: a rename never gives a task a
\* path that is none, however often it and the folders above it are renamed.
THEOREM FileTypes == FilesSpec => []FilesTypeOK
  <1>1. FilesInv => FilesTypeOK
    BY DEF FilesInv
  <1> QED
    BY <1>1, FilesInitially, FilesInductive, PTL DEF FilesSpec

\* For any tree, any number of tasks and clients and batches of any length: once every
\* request has committed, the tasks of a live workflow name files that exist, unless
\* requests overlapped, a transaction failed or the disk was changed behind the API.
THEOREM ReferencesResolve == FilesSpec => []RefsResolve
  <1>1. FilesInv => RefsResolve
    BY DEF FilesInv, RefsInv, RefsResolve, Live
  <1> QED
    BY <1>1, FilesInitially, FilesInductive, PTL DEF FilesSpec

-----------------------------------------------------------------------------
(* No file is lost. *)

LEMMA FilesCounted ==
    ASSUME IsFiniteSet(Path), NEW t, NEW u, FilesKept(t, u)
    PROVE  Cardinality(Files(t)) <= Cardinality(Files(u))
  <1>1. Files(t) \subseteq Files(u) /\ Files(u) \subseteq Path
    BY DEF Files, FilesKept, Resolves
  <1> QED
    BY <1>1, FS_Subset

\* A move takes every file to a place of its own.
LEMMA FilesMoved ==
    ASSUME IsFiniteSet(Path), NEW t \in [Path -> Kinds], TreeClosed(t),
           NEW s \in Path, NEW d \in Path, CanMove(t, s, d), ~ Above(s, d)
    PROVE  Cardinality(Files(t)) <= Cardinality(Files(MoveTree(t, s, d)))
  <1> DEFINE u == MoveTree(t, s, d)
             to(q) == IF Above(s, q) THEN Rebase(q, s, d) ELSE q
             f == [q \in Files(t) |-> to(q)]
  <1>1. ASSUME NEW q \in Files(t) PROVE to(q) \in Files(u)
    BY FileMoved DEF Files
  <1>2. ASSUME NEW p \in Files(t), NEW q \in Files(t), to(p) = to(q) PROVE p = q
    <2>1. /\ p \in Path /\ q \in Path /\ t[p] = "file" /\ t[q] = "file"
          /\ Above(s, p) => Rebase(p, s, d) \in Path
          /\ Above(s, q) => Rebase(q, s, d) \in Path
          /\ ~ Above(s, p) => ~ Above(d, p)
          /\ ~ Above(s, q) => ~ Above(d, q)
      BY FileMoved DEF Files
    <2>2. /\ Above(s, p) => Above(d, Rebase(p, s, d)) /\ Rebase(Rebase(p, s, d), d, s) = p
          /\ Above(s, q) => Above(d, Rebase(q, s, d)) /\ Rebase(Rebase(q, s, d), d, s) = q
      BY <2>1, RebaseBack
    <2> QED
      BY <1>2, <2>1, <2>2
  <1> HIDE DEF u, to
  <1>3. f \in Injection(Files(t), Files(u))
    BY <1>1, <1>2 DEF Injection, IsInjective
  <1>4. IsFiniteSet(Files(u))
    BY FS_Subset DEF Files
  <1> QED
    BY <1>3, <1>4, FS_Injection DEF u

\* In any Home with finitely many paths, no request but a deletion lowers the number of
\* files: what is written, copied, moved, uploaded or generated never lands on a file
\* that was there, and a folder arrives with all its files.
THEOREM NothingIsLost == ASSUME IsFiniteSet(Path) PROVE FilesSpec => NothingOverwritten
  <1> DEFINE Kept == ~ Deleted /\ outside' = outside
                       => Cardinality(Files(tree)) <= Cardinality(Files(tree'))
  <1>1. FilesInv /\ [FilesNext]_filesVars => [Kept]_filesVars
    <2> SUFFICES ASSUME FilesInv, [FilesNext]_filesVars, ~ Deleted, outside' = outside
                 PROVE  Cardinality(Files(tree)) <= Cardinality(Files(tree'))
      OBVIOUS
    <2>1. tree \in [Path -> Kinds] /\ TreeClosed(tree) /\ outside \in Nat
      BY FilesAssumption DEF FilesInv, FilesTypeOK, HomeClosed
    <2>2. FilesKept(tree, tree') => Cardinality(Files(tree)) <= Cardinality(Files(tree'))
      BY FilesCounted
    <2>3. ASSUME NEW p \in Path, NEW s \in Path,
                 WriteFile(p) \/ MakeDir(p) \/ GenerateFile(p) \/ UploadFile(p)
                   \/ CopyEntry(s, p)
          PROVE  FilesKept(tree, tree')
      BY <2>1, <2>3, AdditionsKeep
      DEF WriteFile, MakeDir, GenerateFile, UploadFile, CopyEntry, CanWrite, CanMakeDir,
          CanGenerate, CanMove, Disk
    <2>4. ASSUME NEW p \in Path, ChangeOutside(p) PROVE FALSE
      BY <2>1, <2>4 DEF ChangeOutside
    <2>5. ASSUME NEW c \in Client, NEW s \in Path, NEW d \in Path, MoveEntry(c, s, d)
          PROVE  Cardinality(Files(tree)) <= Cardinality(Files(tree'))
      BY <2>1, <2>5, FilesMoved DEF MoveEntry
    <2>6. ASSUME NEW c \in Client, NEW s \in Path, NEW d \in Path, MoveIntoItself(c, s, d)
          PROVE  FilesKept(tree, tree')
      BY <2>1, <2>6, AdditionsKeep DEF MoveIntoItself, MoveTree, CanMove
    <2>7. ASSUME NEW c \in Client, NEW p \in Path, NEW recursive \in BOOLEAN,
                 DeleteEntry(c, p, recursive)
          PROVE  FALSE
      <3>1. req[c].op = "delete" /\ req[c].src = Nothing /\ req'[c].src = p
        BY <2>7 DEF DeleteEntry, Take, FilesInv, FilesTypeOK, Requests
      <3> QED
        BY <3>1, NothingIsNoPath DEF Deleted
    <2>8. ASSUME tree' = tree PROVE FilesKept(tree, tree')
      BY <2>8 DEF FilesKept
    <2>9. ASSUME NEW c \in Client,
                 \/ SendBatch(c) \/ RepathTasks(c) \/ InvalidateReferencing(c)
                 \/ \E graph \in [Task -> Ref] : ValidateGraph(c, graph)
                 \/ Commit(c) \/ SavepointFails(c) \/ RequestFails(c)
          PROVE  tree' = tree
      BY <2>9 DEF SendBatch, RepathTasks, InvalidateReferencing, ValidateGraph, Commit,
                  SavepointFails, RequestFails
    <2>10. ASSUME NEW s \in Statuses, UpdateMetadata(s) PROVE tree' = tree
      BY <2>10 DEF UpdateMetadata
    <2>11. CASE UNCHANGED filesVars
      BY <2>2, <2>8, <2>11 DEF filesVars
    <2> HIDE DEF Kept
    <2> QED
      BY <2>2, <2>3, <2>4, <2>5, <2>6, <2>7, <2>8, <2>9, <2>10, <2>11 DEF FilesNext
  <1> QED
    BY <1>1, FilesInitially, FilesInductive, PTL DEF FilesSpec, NothingOverwritten
=============================================================================
