------------------------------- MODULE GitProofs -------------------------------
(***************************************************************************)
(* Theorems about git in the Home and on GitHub: the types of the          *)
(* repositories, and that nothing but a discard loses a file's content.    *)
(***************************************************************************)
EXTENDS GitProperties, EditorProofs, FiniteSetTheorems, TLAPS

-----------------------------------------------------------------------------
(* Git in a Home: the graph of the commits. *)

\* Parents are older than their commit.
Older(cs) == \A c \in 1..Len(cs) : cs[c].parents \subseteq 1..c - 1

\* g is what Ancestors defines for the commits cs.
Lineage(cs, n, g) ==
    g = [c \in 0..n |-> IF c = 0 THEN {} ELSE {c} \cup UNION {g[p] : p \in cs[c].parents}]

LEMMA LineageExists ==
    ASSUME NEW S, NEW cs \in Seq(S), Older(cs)
    PROVE  \E g : Lineage(cs, Len(cs), g)
<1>0. Len(cs) \in Nat
  OBVIOUS
<1> DEFINE T == {n \in 0..Len(cs) : ~ \E g : Lineage(cs, n, g)}
<1>1. SUFFICES ASSUME T # {} PROVE FALSE
  BY <1>0
<1>2. PICK m \in T : \A n \in T : m <= n
  <2>1. T \in SUBSET Nat
    BY <1>0
  <2> HIDE DEF T
  <2> QED
    BY <1>1, <2>1, MinExists
<1>3. m \in 0..Len(cs) /\ ~ \E g : Lineage(cs, m, g)
  OBVIOUS
<1>4. CASE m = 0
  <2> DEFINE g == [c \in 0..0 |-> {}]
  <2>1. Lineage(cs, 0, g)
    BY DEF Lineage
  <2> QED
    BY <1>3, <1>4, <2>1
<1>5. CASE m # 0
  <2>1. m - 1 \in 0..Len(cs) /\ m - 1 \notin T
    BY <1>0, <1>2, <1>3, <1>5
  <2>2. PICK g : Lineage(cs, m - 1, g)
    BY <2>1
  <2> DEFINE own == {m} \cup UNION {g[p] : p \in cs[m].parents}
  <2> DEFINE h == [c \in 0..m |-> IF c = m THEN own ELSE g[c]]
  <2>3. \A c \in 0..m - 1 : h[c] = g[c]
    BY <1>0, <1>3
  <2>4. h[m] = own
    BY <1>0, <1>3
  <2>5. \A c \in 0..m - 1 : c # 0 =>
           g[c] = {c} \cup UNION {g[p] : p \in cs[c].parents}
    BY <2>2 DEF Lineage
  <2>6. g[0] = {}
    BY <1>0, <1>3, <1>5, <2>2 DEF Lineage
  <2>7. ASSUME NEW c \in 1..m PROVE {g[p] : p \in cs[c].parents} = {h[p] : p \in cs[c].parents}
    <3>1. \A p \in cs[c].parents : p \in 0..m - 1
      BY <1>0, <1>3, <2>7 DEF Older
    <3> HIDE DEF h
    <3> QED
      BY <2>3, <3>1
  <2>8. h = [c \in 0..m |-> h[c]]
    OBVIOUS
  <2> HIDE DEF h
  <2>9. ASSUME NEW c \in 0..m
        PROVE  h[c] = IF c = 0 THEN {} ELSE {c} \cup UNION {h[p] : p \in cs[c].parents}
    <3>1. CASE c = 0
      BY <1>0, <1>3, <1>5, <2>3, <2>6, <3>1
    <3>2. CASE c = m
      <4>1. h[m] = {m} \cup UNION {h[p] : p \in cs[m].parents}
        <5>1. m \in 1..m
          BY <1>0, <1>3, <1>5
        <5>2. {g[p] : p \in cs[m].parents} = {h[p] : p \in cs[m].parents}
          BY <2>7, <5>1
        <5> QED
          BY <2>4, <5>2
      <4> QED
        BY <1>5, <3>2, <4>1
    <3>3. CASE c # 0 /\ c # m
      <4>1. c \in 0..m - 1 /\ c \in 1..m
        BY <1>0, <1>3, <3>3
      <4> QED
        BY <2>3, <2>5, <2>7, <3>3, <4>1
    <3> QED
      BY <3>1, <3>2, <3>3
  <2>10. Lineage(cs, m, h)
    <3>1. h = [c \in 0..m |-> IF c = 0 THEN {} ELSE {c} \cup UNION {h[p] : p \in cs[c].parents}]
      BY <2>8, <2>9
    <3> QED
      BY <3>1 DEF Lineage
  <2> QED
    BY <1>3, <2>10
<1> QED
  BY <1>4, <1>5

LEMMA LineageIs ==
    ASSUME NEW cs, NEW n \in Nat, NEW g, Lineage(cs, n, g)
    PROVE  /\ g[0] = {}
           /\ \A c \in 1..n : g[c] = {c} \cup UNION {g[p] : p \in cs[c].parents}
<1> DEFINE own(c) == {c} \cup UNION {g[p] : p \in cs[c].parents}
<1>1. g = [c \in 0..n |-> IF c = 0 THEN {} ELSE own(c)]
  BY DEF Lineage
<1> HIDE DEF own
<1>2. g[0] = {} /\ \A c \in 1..n : g[c] = own(c)
  BY <1>1
<1> QED
  BY <1>2 DEF own

\* ds has the commits of cs, and some more.
Begins(cs, ds) ==
    /\ Len(cs) \in Nat /\ Len(ds) \in Nat /\ Len(cs) <= Len(ds)
    /\ \A c \in 1..Len(cs) : cs[c] = ds[c]

\* What a commit has behind it does not depend on the commits made after it.
LEMMA LineageKept ==
    ASSUME NEW cs, NEW ds, Older(cs), Begins(cs, ds), NEW g, NEW h,
           Lineage(cs, Len(cs), g), Lineage(ds, Len(ds), h)
    PROVE  \A c \in 0..Len(cs) : g[c] = h[c]
<1>1. PICK n, m : n = Len(cs) /\ m = Len(ds)
  OBVIOUS
<1>2. /\ n \in Nat /\ m \in Nat /\ n <= m /\ Lineage(cs, n, g) /\ Lineage(ds, m, h)
      /\ \A c \in 1..n : cs[c] = ds[c] /\ cs[c].parents \subseteq 1..c - 1
  BY <1>1 DEF Older, Begins
<1>3. SUFFICES \A c \in 0..n : g[c] = h[c]
  BY <1>1
<1> DEFINE T == {c \in 0..n : g[c] # h[c]}
<1>4. SUFFICES ASSUME T # {} PROVE FALSE
  OBVIOUS
<1>5. PICK c \in T : \A d \in T : c <= d
  <2>1. T \in SUBSET Nat
    BY <1>2
  <2> HIDE DEF T
  <2> QED
    BY <1>4, <2>1, MinExists
<1>6. c \in 0..n /\ g[c] # h[c] /\ \A d \in 0..n : g[d] # h[d] => c <= d
  BY <1>5
<1> HIDE DEF T
<1>7. g[0] = {} /\ h[0] = {}
  BY <1>2, LineageIs
<1>8. c \in 1..n /\ c \in 1..m
  <2>1. c # 0
    BY <1>6, <1>7
  <2> QED
    BY <1>2, <1>6, <2>1
<1>9. \A p \in cs[c].parents : g[p] = h[p]
  <2> TAKE p \in cs[c].parents
  <2>1. p \in 0..n /\ ~(c <= p)
    BY <1>2, <1>8
  <2> QED
    BY <1>6, <2>1
<1>10. {g[p] : p \in cs[c].parents} = {h[p] : p \in ds[c].parents}
  BY <1>2, <1>8, <1>9
<1>11. /\ g[c] = {c} \cup UNION {g[p] : p \in cs[c].parents}
      /\ h[c] = {c} \cup UNION {h[p] : p \in ds[c].parents}
  BY <1>2, <1>8, LineageIs
<1> QED
  BY <1>6, <1>10, <1>11

\* Ancestors are older, and those of an ancestor are among them.
LEMMA LineageOrdered ==
    ASSUME NEW cs, NEW n \in Nat, NEW g, Lineage(cs, n, g),
           \A c \in 1..n : cs[c].parents \subseteq 1..c - 1
    PROVE  \A c \in 0..n : /\ g[c] \subseteq 1..c
                           /\ c # 0 => c \in g[c]
                           /\ \A a \in g[c] : g[a] \subseteq g[c]
<1> DEFINE Good(c) == g[c] \subseteq 1..c /\ \A a \in g[c] : g[a] \subseteq g[c]
<1> DEFINE T == {c \in 0..n : ~Good(c)}
<1>0. /\ g[0] = {}
      /\ \A c \in 1..n : g[c] = {c} \cup UNION {g[p] : p \in cs[c].parents}
  BY LineageIs
<1>1. T = {}
  <2> SUFFICES ASSUME T # {} PROVE FALSE
    OBVIOUS
  <2>2. PICK c \in T : \A d \in T : c <= d
    <3>1. T \in SUBSET Nat
      OBVIOUS
    <3> HIDE DEF T
    <3> QED
      BY <3>1, MinExists
  <2>3. c \in 0..n /\ ~Good(c) /\ \A d \in 0..n : ~Good(d) => c <= d
    BY <2>2
  <2>4. c \in 1..n
    BY <1>0, <2>3
  <2>5. \A p \in cs[c].parents : p \in 1..c - 1 /\ Good(p)
    <3> TAKE p \in cs[c].parents
    <3>1. p \in 1..c - 1 /\ p \in 0..n /\ ~(c <= p)
      BY <2>4
    <3> QED
      BY <2>3, <3>1
  <2>6. ASSUME NEW x \in g[c] PROVE x \in 1..c
    <3>1. CASE x = c
      BY <2>4, <3>1
    <3>2. ASSUME NEW p \in cs[c].parents, x \in g[p] PROVE x \in 1..c
      BY <2>4, <2>5, <3>2
    <3> QED
      BY <1>0, <2>4, <2>6, <3>1, <3>2
  <2>7. \A a \in g[c] : g[a] \subseteq g[c]
    <3> TAKE a \in g[c]
    <3>1. CASE a = c
      BY <3>1
    <3>2. ASSUME NEW p \in cs[c].parents, a \in g[p] PROVE g[a] \subseteq g[c]
      BY <1>0, <2>4, <2>5, <3>2
    <3> QED
      BY <1>0, <2>4, <3>1, <3>2
  <2> QED
    BY <2>3, <2>6, <2>7
<1>2. \A c \in 0..n : Good(c)
  BY <1>1
<1>3. \A c \in 0..n : c # 0 => c \in g[c]
  BY <1>0
<1> QED
  BY <1>2, <1>3

(* The invariant. *)

RefsShape ==
    /\ commits \in Seq(CommitRecord) /\ Len(commits) <= MaxCommits /\ Older(commits)
    /\ branch \in [Branch -> 0..Len(commits)] /\ tracking \in [Branch -> 0..Len(commits)]
    /\ head \in Branch /\ merging \in 0..Len(commits)
    /\ hub \in [Repo -> [Branch -> 0..Len(commits)]]

FilesShape == index \in Snapshot /\ work \in Snapshot /\ unmerged \subseteq File

LinkShape ==
    /\ initialized \in BOOLEAN /\ origin \in Repo \cup {NoRepo}
    /\ account \in Repo \cup {NoRepo, "unlinked"}
    /\ edits \in 0..MaxGitEdits /\ gitFaults \in 0..MaxGitFaults

\* A Home without a repository has no branch.
Unborn == ~initialized => \A b \in Branch : branch[b] = 0

\* What origin was at when it was last asked is still on GitHub.
Fetches == \A b \in Branch : tracking[b] # 0 =>
               \E r \in Repo : tracking[b] \in Ancestors[hub[r][b]]

GitInv == RefsShape /\ FilesShape /\ LinkShape /\ Unborn /\ Fetches

LEMMA AncestorsAre ==
    ASSUME RefsShape
    PROVE  Lineage(commits, Len(commits), Ancestors)
<1>1. \E g : Lineage(commits, Len(commits), g)
  BY LineageExists DEF RefsShape
<1> QED
  BY <1>1 DEF Lineage, Ancestors

LEMMA AncestorsBecome ==
    ASSUME commits' \in Seq(CommitRecord), Older(commits')
    PROVE  Lineage(commits', Len(commits'), Ancestors')
<1>1. PICK cs : cs = commits'
  OBVIOUS
<1>2. \E g : Lineage(cs, Len(cs), g)
  BY <1>1, LineageExists
<1> QED
  BY <1>1, <1>2 DEF Lineage, Ancestors

LEMMA AncestorsOrdered ==
    ASSUME RefsShape
    PROVE  /\ Len(commits) \in Nat /\ Ancestors[0] = {}
           /\ \A c \in 0..Len(commits) : /\ Ancestors[c] \subseteq 1..c
                                         /\ c # 0 => c \in Ancestors[c]
                                         /\ \A a \in Ancestors[c] : Ancestors[a] \subseteq Ancestors[c]
<1>1. Len(commits) \in Nat /\ \A c \in 1..Len(commits) : commits[c].parents \subseteq 1..c - 1
  BY DEF RefsShape, Older
<1> QED
  BY <1>1, AncestorsAre, LineageOrdered, LineageIs

\* The commits stay, and at most one is made.
Grown ==
    \/ commits' = commits
    \/ /\ Len(commits) < MaxCommits
       /\ \E rec \in CommitRecord :
             rec.parents \subseteq 1..Len(commits) /\ commits' = Append(commits, rec)

LEMMA GrownKeeps ==
    ASSUME RefsShape, Grown
    PROVE  /\ commits' \in Seq(CommitRecord) /\ Older(commits')
           /\ Len(commits) \in Nat /\ Len(commits') \in Nat
           /\ Len(commits) <= Len(commits') /\ Len(commits') <= MaxCommits
           /\ \A c \in 1..Len(commits) : commits'[c] = commits[c]
<1>1. commits \in Seq(CommitRecord) /\ Len(commits) \in Nat /\ Len(commits) <= MaxCommits
  BY DEF RefsShape
<1>2. CASE commits' = commits
  BY <1>1, <1>2 DEF RefsShape, Older
<1>3. ASSUME NEW rec \in CommitRecord, rec.parents \subseteq 1..Len(commits),
             commits' = Append(commits, rec), Len(commits) < MaxCommits
      PROVE  /\ commits' \in Seq(CommitRecord) /\ Older(commits')
             /\ Len(commits') = Len(commits) + 1
             /\ \A c \in 1..Len(commits) : commits'[c] = commits[c]
  <2> HIDE DEF CommitRecord
  <2>1. /\ commits' \in Seq(CommitRecord) /\ Len(commits') = Len(commits) + 1
        /\ \A c \in 1..Len(commits) : commits'[c] = commits[c]
        /\ commits'[Len(commits) + 1] = rec
    BY <1>1, <1>3
  <2>2. ASSUME NEW c \in 1..Len(commits') PROVE commits'[c].parents \subseteq 1..c - 1
    <3>1. CASE c \in 1..Len(commits)
      BY <2>1, <3>1 DEF RefsShape, Older
    <3>2. CASE c = Len(commits) + 1
      BY <1>1, <1>3, <2>1, <3>2
    <3> QED
      BY <1>1, <2>1, <3>1, <3>2
  <2> QED
    BY <2>1, <2>2 DEF Older
<1>4. MaxCommits \in Nat
  BY GitAssumption
<1> QED
  BY <1>1, <1>2, <1>3, <1>4 DEF Grown

LEMMA GrownAncestors ==
    ASSUME RefsShape, Grown
    PROVE  /\ \A c \in 0..Len(commits) : Ancestors'[c] = Ancestors[c]
           /\ \A c \in 0..Len(commits') :
                 /\ c # 0 => c \in Ancestors'[c]
                 /\ \A a \in Ancestors'[c] : Ancestors'[a] \subseteq Ancestors'[c]
<1>1. PICK cs, ds, n, m : cs = commits /\ ds = commits' /\ n = Len(commits) /\ m = Len(commits')
  OBVIOUS
<1>2. /\ n \in Nat /\ m \in Nat /\ n <= m /\ Older(cs) /\ Older(ds)
      /\ \A c \in 1..n : cs[c] = ds[c]
  BY <1>1, GrownKeeps DEF RefsShape
<1>3. PICK g, h : g = Ancestors /\ h = Ancestors'
  OBVIOUS
<1>4. Lineage(cs, n, g) /\ Lineage(ds, m, h)
  BY <1>1, <1>3, AncestorsAre, AncestorsBecome, GrownKeeps
<1>5. /\ \A c \in 1..n : cs[c].parents \subseteq 1..c - 1
      /\ \A c \in 1..m : ds[c].parents \subseteq 1..c - 1
  BY <1>1, <1>2 DEF Older
<1>6. \A c \in 0..n : g[c] = h[c]
  <2>1. Begins(cs, ds)
    BY <1>1, <1>2 DEF Begins
  <2> QED
    BY <1>1, <1>2, <1>4, <2>1, LineageKept
<1>7. \A c \in 0..m : /\ c # 0 => c \in h[c]
                      /\ \A a \in h[c] : h[a] \subseteq h[c]
  BY <1>2, <1>4, <1>5, LineageOrdered
<1> QED
  BY <1>1, <1>3, <1>6, <1>7

\* A commit is made with what is in the Home.
LEMMA CommitMade ==
    ASSUME RefsShape, NEW files \in Snapshot, NEW parents \in SUBSET (0..Len(commits)),
           NewCommit(files, parents)
    PROVE  /\ Grown /\ Len(commits') = Len(commits) + 1
           /\ \A p \in parents : p = 0 \/ p \in Ancestors'[Len(commits')]
<1> DEFINE rec == [files |-> files, parents |-> parents \ {0}]
<1>1. /\ Len(commits) \in Nat /\ Len(commits) <= MaxCommits /\ commits \in Seq(CommitRecord)
      /\ MaxCommits \in Nat
  BY GitAssumption DEF RefsShape
<1>2. rec.parents = parents \ {0} /\ rec.parents \subseteq 1..Len(commits) /\ rec \in CommitRecord
  BY <1>1 DEF CommitRecord
<1>3. Len(commits) < MaxCommits /\ commits' = Append(commits, rec)
  BY DEF NewCommit
<1> HIDE DEF rec
<1>4. Grown
  BY <1>2, <1>3 DEF Grown
<1>5. Len(commits') = Len(commits) + 1 /\ commits'[Len(commits) + 1] = rec
  <2> HIDE DEF CommitRecord
  <2> QED
    BY <1>1, <1>2, <1>3
<1>6. PICK ds, m, h : ds = commits' /\ m = Len(commits') /\ h = Ancestors'
  OBVIOUS
<1>7. m \in Nat /\ Lineage(ds, m, h)
  BY <1>4, <1>6, GrownKeeps, AncestorsBecome
<1>8. m \in 1..m /\ h[m] = {m} \cup UNION {h[p] : p \in ds[m].parents}
  BY <1>1, <1>5, <1>6, <1>7, LineageIs
<1>9. ASSUME NEW p \in parents, p # 0 PROVE p \in h[m]
  <2>1. p \in ds[m].parents /\ p \in 0..Len(commits')
    BY <1>1, <1>2, <1>5, <1>6, <1>9
  <2>2. p \in h[p]
    BY <1>4, <1>6, <1>9, <2>1, GrownAncestors
  <2> QED
    BY <1>8, <2>1, <2>2
<1> QED
  BY <1>4, <1>5, <1>6, <1>9

(* What a step does to the references and to the files. *)

HubForward ==
    \A r \in Repo : \A b \in Branch : hub[r][b] # 0 => hub[r][b] \in Ancestors'[hub'[r][b]]

BranchForward == \A b \in Branch : branch[b] # 0 => branch[b] \in Ancestors'[branch'[b]]

TrackingFollows ==
    \A b \in Branch : tracking'[b] # tracking[b] => \E r \in Repo : tracking'[b] = hub'[r][b]

NoneLost == \A f \in File : ~Lost(f, Kept)

\* A commit that is kept and has not moved leads where it led, and further back.
LEMMA Onward ==
    ASSUME RefsShape, Grown
    PROVE  /\ \A c \in 0..Len(commits) : c # 0 => c \in Ancestors'[c]
           /\ \A c \in 0..Len(commits) : \A d \in 0..Len(commits') :
                 c \in Ancestors'[d] => Ancestors[c] \subseteq Ancestors'[d]
           /\ \A c, d \in 0..Len(commits) : c \in Ancestors[d] => c \in Ancestors'[d]
           /\ \A c \in 0..Len(commits) : c \in 0..Len(commits')
<1>1. Len(commits) \in Nat /\ Len(commits') \in Nat /\ Len(commits) <= Len(commits')
  BY GrownKeeps
<1>2. \A c \in 0..Len(commits) : c \in 0..Len(commits')
  BY <1>1
<1> QED
  BY <1>2, GrownAncestors

LEMMA StillFetches ==
    ASSUME GitInv, RefsShape', Grown, HubForward, TrackingFollows
    PROVE  Fetches'
<1>1. SUFFICES ASSUME NEW b \in Branch, tracking'[b] # 0
               PROVE  \E r \in Repo : tracking'[b] \in Ancestors'[hub'[r][b]]
  BY DEF Fetches
<1>2. /\ tracking' \in [Branch -> 0..Len(commits')]
      /\ \A r \in Repo : hub'[r][b] \in 0..Len(commits') /\ hub[r][b] \in 0..Len(commits)
      /\ RefsShape
  BY DEF GitInv, RefsShape
<1>3. CASE tracking'[b] # tracking[b]
  <2>1. PICK r \in Repo : tracking'[b] = hub'[r][b]
    BY <1>3 DEF TrackingFollows
  <2>2. hub'[r][b] \in Ancestors'[hub'[r][b]]
    BY <1>1, <1>2, <2>1, GrownAncestors
  <2> QED
    BY <2>1, <2>2
<1>4. CASE tracking'[b] = tracking[b]
  <2>1. PICK r \in Repo : tracking[b] \in Ancestors[hub[r][b]]
    BY <1>1, <1>4 DEF GitInv, Fetches
  <2>2. hub[r][b] # 0
    BY <1>2, <2>1, AncestorsOrdered
  <2>3. Ancestors[hub[r][b]] \subseteq Ancestors'[hub'[r][b]]
    BY <1>2, <2>2, Onward DEF HubForward
  <2> QED
    BY <1>4, <2>1, <2>3
<1> QED
  BY <1>3, <1>4

LEMMA KeptStays ==
    ASSUME GitInv, RefsShape', Grown, HubForward, BranchForward
    PROVE  Kept \subseteq Kept'
<1>0. /\ RefsShape /\ Fetches /\ Ancestors[0] = {}
      /\ \A b \in Branch : branch[b] \in 0..Len(commits) /\ branch'[b] \in 0..Len(commits')
      /\ \A r \in Repo : \A b \in Branch : hub[r][b] \in 0..Len(commits)
                                           /\ hub'[r][b] \in 0..Len(commits')
  BY AncestorsOrdered DEF GitInv, RefsShape
<1>1. ASSUME NEW b \in Branch, NEW x \in Ancestors'[branch'[b]] PROVE x \in Kept'
  BY <1>1 DEF Kept, Held
<1>2. ASSUME NEW r \in Repo, NEW b \in Branch, NEW x \in Ancestors'[hub'[r][b]] PROVE x \in Kept'
  <2>1. x \in Held(hub[r])'
    BY <1>2 DEF Held
  <2> QED
    BY <2>1 DEF Kept
<1>3. ASSUME NEW b \in Branch, NEW x \in Ancestors[branch[b]] PROVE x \in Kept'
  <2>1. branch[b] # 0
    BY <1>0, <1>3
  <2>2. x \in Ancestors'[branch'[b]]
    BY <1>0, <1>3, <2>1, Onward DEF BranchForward
  <2> QED
    BY <1>1, <2>2
<1>4. ASSUME NEW r \in Repo, NEW b \in Branch, NEW x \in Ancestors[hub[r][b]] PROVE x \in Kept'
  <2>1. hub[r][b] # 0
    BY <1>0, <1>4
  <2>2. x \in Ancestors'[hub'[r][b]]
    BY <1>0, <1>4, <2>1, Onward DEF HubForward
  <2> QED
    BY <1>2, <2>2
<1>5. ASSUME NEW b \in Branch, NEW x \in Ancestors[tracking[b]] PROVE x \in Kept'
  <2>1. tracking[b] # 0
    BY <1>0, <1>5
  <2>2. PICK r \in Repo : tracking[b] \in Ancestors[hub[r][b]]
    BY <1>0, <2>1 DEF Fetches
  <2>3. x \in Ancestors[hub[r][b]]
    BY <1>0, <1>5, <2>2, AncestorsOrdered
  <2> QED
    BY <1>4, <2>3
<1>6. ASSUME NEW x \in Kept
      PROVE  \/ \E b \in Branch : x \in Ancestors[branch[b]] \/ x \in Ancestors[tracking[b]]
             \/ \E r \in Repo : \E b \in Branch : x \in Ancestors[hub[r][b]]
  BY <1>6 DEF Kept, Held
<1>7. ASSUME NEW x \in Kept PROVE x \in Kept'
  BY <1>3, <1>4, <1>5, <1>6
<1> QED
  BY <1>7

\* The steps that leave all references where they are
LEMMA RefsRest ==
    ASSUME GitInv, UNCHANGED <<commits, branch, tracking, hub>>
    PROVE  Grown /\ HubForward /\ BranchForward /\ TrackingFollows
<1>1. Grown
  BY DEF Grown
<1>2. RefsShape
  BY DEF GitInv
<1>3. HubForward
  BY <1>1, <1>2, Onward DEF RefsShape, HubForward
<1>4. BranchForward
  BY <1>1, <1>2, Onward DEF RefsShape, BranchForward
<1> QED
  BY <1>1, <1>3, <1>4 DEF TrackingFollows

LEMMA FilesTyped ==
    ASSUME RefsShape, NEW c \in 0..Len(commits)
    PROVE  FilesOf(c) \in Snapshot
<1>1. CASE c = 0
  BY <1>1, GitAssumption DEF FilesOf, NoFiles, Snapshot, Version, Missing
<1>2. CASE c # 0
  <2>1. commits[c] \in CommitRecord
    <3>1. c \in 1..Len(commits) /\ commits \in Seq(CommitRecord)
      BY <1>2 DEF RefsShape
    <3> HIDE DEF CommitRecord
    <3> QED
      BY <3>1
  <2> QED
    BY <1>2, <2>1 DEF FilesOf, CommitRecord
<1> QED
  BY <1>1, <1>2

\* git changes only the files that are as the commit checked out has them.
LEMMA ReplaceKeeps ==
    ASSUME GitInv, NEW to \in Snapshot, Replace(FilesOf(Tip), to)
    PROVE  index' \in Snapshot /\ work' \in Snapshot /\ NoneLost
<1>1. RefsShape /\ index \in Snapshot /\ work \in Snapshot /\ Tip \in 0..Len(commits)
  BY DEF GitInv, RefsShape, FilesShape, Tip
<1>2. FilesOf(Tip) \in Snapshot
  BY <1>1, FilesTyped
<1>3. index' \in Snapshot /\ work' \in Snapshot
  BY <1>1 DEF Replace, Snapshot
<1>4. ASSUME NEW f \in File, Lost(f, Kept) PROVE FALSE
  <2>1. work[f] = FilesOf(Tip)[f] /\ work[f] # Missing
    BY <1>1, <1>4 DEF Lost, Replace, Free, Snapshot
  <2>2. Tip # 0
    BY <2>1 DEF FilesOf, NoFiles
  <2>3. Tip \in Kept
    <3>1. Tip \in Ancestors[branch[head]]
      BY <1>1, <2>2, AncestorsOrdered DEF Tip
    <3>2. head \in Branch
      BY <1>1 DEF RefsShape
    <3> QED
      BY <3>1, <3>2 DEF Kept, Held
  <2> QED
    BY <1>4, <2>1, <2>3 DEF Lost
<1> QED
  BY <1>3, <1>4 DEF NoneLost

LEMMA FilesRest ==
    ASSUME UNCHANGED work
    PROVE  NoneLost
BY DEF NoneLost, Lost

\* What has to be shown of a step
Sound ==
    /\ GitInv'
    /\ Links \/ Kept \subseteq Kept'
    /\ Edits \/ Discards \/ \A f \in File \ unmerged : Lost(f, Kept) => AbortsStaged(f)

LEMMA SoundStep ==
    ASSUME GitInv, RefsShape', FilesShape', LinkShape', Unborn', Grown, HubForward,
           TrackingFollows, Links \/ BranchForward,
           Edits \/ Discards \/ NoneLost
    PROVE  Sound
BY StillFetches, KeptStays DEF Sound, GitInv, NoneLost

(* The steps. *)

LEMMA EditSound ==
    ASSUME GitInv, NEW f \in File, NEW v \in 0..MaxVersions, Edit(f, v)
    PROVE  Sound
<1>1. v \in Version
  BY GitAssumption DEF Version
<1>2. RefsShape' /\ Unborn'
  BY DEF GitInv, Edit, refsOfGit, RefsShape, Unborn
<1>3. FilesShape'
  BY <1>1 DEF GitInv, FilesShape, Edit, Snapshot
<1>4. LinkShape' /\ Edits
  BY GitAssumption DEF GitInv, LinkShape, Edit, refsOfGit, Edits
<1> QED
  BY <1>2, <1>3, <1>4, RefsRest, SoundStep DEF Edit, refsOfGit

LEMMA EnsureRepoSound ==
    ASSUME GitInv, EnsureRepo
    PROVE  Sound
<1>1. /\ RefsShape /\ work \in Snapshot /\ head \in Branch /\ Len(commits) \in Nat
      /\ NewCommit(work, {}) /\ ~initialized
  BY AncestorsOrdered DEF GitInv, RefsShape, FilesShape, EnsureRepo
<1>2. Grown /\ Len(commits') = Len(commits) + 1
  BY <1>1, CommitMade
<1>3. /\ commits' \in Seq(CommitRecord) /\ Older(commits') /\ Len(commits') <= MaxCommits
      /\ Len(commits') \in Nat /\ \A c \in 0..Len(commits) : c \in 0..Len(commits')
  BY <1>1, <1>2, GrownKeeps
<1>4. /\ branch' = [branch EXCEPT ![head] = Len(commits')]
      /\ UNCHANGED <<head, tracking, origin, work, unmerged, merging, hub, account, edits,
                     gitFaults>>
      /\ index' = work /\ initialized' = TRUE
  BY DEF EnsureRepo, others
<1>5. RefsShape'
  BY <1>1, <1>3, <1>4 DEF RefsShape
<1>6. FilesShape' /\ LinkShape' /\ Unborn'
  BY <1>4 DEF GitInv, FilesShape, LinkShape, Unborn
<1>7. \A b \in Branch : branch[b] = 0
  BY <1>1 DEF GitInv, Unborn
<1>8. HubForward
  BY <1>1, <1>2, <1>4, Onward DEF RefsShape, HubForward
<1> QED
  BY <1>2, <1>4, <1>5, <1>6, <1>7, <1>8, FilesRest, SoundStep DEF BranchForward, TrackingFollows

LEMMA EnsureRepoStopsSound ==
    ASSUME GitInv, EnsureRepoStops
    PROVE  Sound
<1>1. /\ UNCHANGED <<commits, branch, head, tracking, origin, work, unmerged, merging, hub,
                     account, edits>>
      /\ index' \in {index, work} /\ initialized' = TRUE
      /\ gitFaults < MaxGitFaults /\ gitFaults' = gitFaults + 1
  BY DEF EnsureRepoStops, GitFault
<1>2. RefsShape' /\ FilesShape' /\ Unborn'
  BY <1>1 DEF GitInv, RefsShape, FilesShape, Unborn
<1>3. LinkShape'
  BY <1>1, GitAssumption DEF GitInv, LinkShape
<1> QED
  BY <1>1, <1>2, <1>3, RefsRest, FilesRest, SoundStep

LEMMA CreateBranchSound ==
    ASSUME GitInv, NEW b \in Branch, CreateBranch(b)
    PROVE  Sound
<1>1. /\ UNCHANGED <<commits, tracking, initialized, origin, index, work, unmerged, merging, hub,
                     account, edits, gitFaults>>
      /\ branch' = [branch EXCEPT ![b] = Tip] /\ head' = b /\ branch[b] = 0 /\ initialized
  BY DEF CreateBranch, filesOfGit, others
<1>2. RefsShape /\ Tip \in 0..Len(commits)
  BY DEF GitInv, RefsShape, Tip
<1>3. RefsShape'
  BY <1>1, <1>2 DEF RefsShape
<1>4. FilesShape' /\ LinkShape' /\ Unborn'
  BY <1>1 DEF GitInv, FilesShape, LinkShape, Unborn
<1>5. Grown
  BY <1>1 DEF Grown
<1>6. HubForward /\ TrackingFollows
  BY <1>1, <1>2, <1>5, Onward DEF RefsShape, HubForward, TrackingFollows
<1>7. BranchForward
  BY <1>1, <1>2, <1>5, Onward DEF RefsShape, BranchForward
<1> QED
  BY <1>1, <1>3, <1>4, <1>5, <1>6, <1>7, FilesRest, SoundStep

LEMMA CheckoutSound ==
    ASSUME GitInv, NEW b \in Branch, Checkout(b)
    PROVE  Sound
<1>1. PICK c : /\ c = IF branch[b] # 0 THEN branch[b] ELSE tracking[b]
               /\ Replace(FilesOf(Tip), FilesOf(c))
               /\ branch' = [branch EXCEPT ![b] = c]
  BY DEF Checkout
<1>2. /\ UNCHANGED <<commits, tracking, initialized, origin, unmerged, hub, account, edits,
                     gitFaults>>
      /\ head' = b /\ merging' = 0 /\ initialized
  BY DEF Checkout, others
<1>3. RefsShape /\ c \in 0..Len(commits) /\ Len(commits) \in Nat
  BY <1>1, AncestorsOrdered DEF GitInv, RefsShape
<1>4. FilesOf(c) \in Snapshot
  BY <1>3, FilesTyped
<1>5. index' \in Snapshot /\ work' \in Snapshot /\ NoneLost
  BY <1>1, <1>4, ReplaceKeeps
<1>6. RefsShape'
  BY <1>1, <1>2, <1>3 DEF RefsShape
<1>7. FilesShape' /\ LinkShape' /\ Unborn'
  BY <1>2, <1>5 DEF GitInv, FilesShape, LinkShape, Unborn
<1>8. Grown
  BY <1>2 DEF Grown
<1>9. HubForward /\ TrackingFollows
  BY <1>2, <1>3, <1>8, Onward DEF RefsShape, HubForward, TrackingFollows
<1>10. BranchForward
  BY <1>1, <1>2, <1>3, <1>8, Onward DEF RefsShape, BranchForward
<1> QED
  BY <1>5, <1>6, <1>7, <1>8, <1>9, <1>10, SoundStep

LEMMA CommitSound ==
    ASSUME GitInv, NEW paths \in SUBSET File, Commit(paths)
    PROVE  Sound
<1>1. PICK added, staged :
        /\ staged = [f \in File |-> IF f \in added THEN work[f] ELSE index[f]]
        /\ index' = staged /\ unmerged' = unmerged \ added
        /\ IF unmerged' = {} /\ (staged # FilesOf(Tip) \/ merging # 0)
           THEN /\ NewCommit(staged, {Tip, merging})
                /\ branch' = [branch EXCEPT ![head] = Len(commits')]
                /\ merging' = 0
           ELSE UNCHANGED <<commits, branch, merging>>
  BY DEF Commit
<1>2. /\ UNCHANGED <<head, tracking, initialized, origin, work, hub, account, edits, gitFaults>>
      /\ initialized
  BY DEF Commit, others
<1>3. /\ RefsShape /\ Len(commits) \in Nat /\ Tip \in 0..Len(commits) /\ head \in Branch
      /\ merging \in 0..Len(commits)
  BY AncestorsOrdered DEF GitInv, RefsShape, Tip
<1>4. staged \in Snapshot
  BY <1>1 DEF GitInv, FilesShape, Snapshot
<1>5. FilesShape' /\ LinkShape' /\ Unborn'
  BY <1>1, <1>2, <1>4 DEF GitInv, FilesShape, LinkShape, Unborn
<1>6. CASE UNCHANGED <<commits, branch, merging>>
  <2>1. RefsShape'
    BY <1>2, <1>3, <1>6 DEF RefsShape
  <2> QED
    BY <1>2, <1>5, <1>6, <2>1, RefsRest, FilesRest, SoundStep
<1>7. CASE /\ NewCommit(staged, {Tip, merging})
           /\ branch' = [branch EXCEPT ![head] = Len(commits')] /\ merging' = 0
  <2>1. /\ Grown /\ Len(commits') = Len(commits) + 1
        /\ Tip = 0 \/ Tip \in Ancestors'[Len(commits')]
    BY <1>3, <1>4, <1>7, CommitMade
  <2>2. /\ commits' \in Seq(CommitRecord) /\ Older(commits') /\ Len(commits') <= MaxCommits
        /\ Len(commits') \in Nat /\ \A c \in 0..Len(commits) : c \in 0..Len(commits')
    BY <1>3, <2>1, GrownKeeps
  <2>3. RefsShape'
    BY <1>2, <1>3, <1>7, <2>2 DEF RefsShape
  <2>4. HubForward /\ TrackingFollows
    BY <1>2, <1>3, <2>1, Onward DEF RefsShape, HubForward, TrackingFollows
  <2>5. BranchForward
    <3>1. ASSUME NEW b \in Branch, branch[b] # 0 PROVE branch[b] \in Ancestors'[branch'[b]]
      <4>1. CASE b = head
        BY <1>3, <1>7, <2>1, <3>1, <4>1 DEF RefsShape, Tip
      <4>2. CASE b # head
        BY <1>3, <1>7, <2>1, <3>1, <4>2, Onward DEF RefsShape
      <4> QED
        BY <4>1, <4>2
    <3> QED
      BY <3>1 DEF BranchForward
  <2> QED
    BY <1>2, <1>5, <2>1, <2>3, <2>4, <2>5, FilesRest, SoundStep
<1> QED
  BY <1>1, <1>6, <1>7

LEMMA DiscardSound ==
    ASSUME GitInv, NEW paths \in SUBSET File, Discard(paths)
    PROVE  Sound
<1>1. UNCHANGED <<commits, branch, head, tracking, initialized, origin, index, unmerged, merging,
                  hub, account, edits, gitFaults>>
  BY DEF Discard, refsOfGit, others
<1>2. Discards
  BY DEF Discards
<1>3. work' \in Snapshot
  <2>1. Missing \in Version
    BY GitAssumption DEF Missing, Version
  <2> QED
    BY <2>1 DEF Discard, GitInv, FilesShape, Snapshot
<1>4. RefsShape' /\ FilesShape' /\ LinkShape' /\ Unborn'
  BY <1>1, <1>3 DEF GitInv, RefsShape, FilesShape, LinkShape, Unborn
<1> QED
  BY <1>1, <1>2, <1>4, RefsRest, SoundStep

LEMMA AbortMergeSound ==
    ASSUME GitInv, AbortMerge
    PROVE  Sound
<1>1. /\ UNCHANGED <<commits, branch, head, tracking, initialized, origin, hub, account, edits,
                     gitFaults>>
      /\ index' = FilesOf(Tip) /\ unmerged' = {} /\ merging' = 0
      /\ work' = [f \in File |-> IF index[f] # FilesOf(Tip)[f] \/ f \in unmerged
                                 THEN FilesOf(Tip)[f] ELSE work[f]]
  BY DEF AbortMerge, refsOfGit, others
<1>2. RefsShape /\ FilesOf(Tip) \in Snapshot /\ Len(commits) \in Nat
  BY FilesTyped, AncestorsOrdered DEF GitInv, RefsShape, Tip
<1>3. FilesShape'
  BY <1>1, <1>2 DEF GitInv, FilesShape, Snapshot
<1>4. RefsShape' /\ LinkShape' /\ Unborn'
  BY <1>1, <1>2 DEF GitInv, RefsShape, LinkShape, Unborn
<1>5. /\ Grown /\ HubForward /\ BranchForward /\ TrackingFollows
  BY <1>1, RefsRest
<1>6. ASSUME NEW f \in File \ unmerged, Lost(f, Kept) PROVE AbortsStaged(f)
  <2>1. index[f] # FilesOf(Tip)[f]
    BY <1>1, <1>6 DEF Lost
  <2>2. index[f] = work[f]
    BY <1>6, <2>1 DEF AbortMerge
  <2> QED
    BY <2>2 DEF AbortsStaged
<1> QED
  BY <1>3, <1>4, <1>5, <1>6, StillFetches, KeptStays DEF Sound, GitInv

LEMMA AccountSound ==
    ASSUME GitInv, Connect \/ Disconnect
    PROVE  Sound
<1>1. /\ UNCHANGED <<commits, branch, head, tracking, initialized, origin, index, work, unmerged,
                     merging, hub, edits, gitFaults>>
      /\ account' \in {NoRepo, "unlinked"}
  BY DEF Connect, Disconnect, refsOfGit, filesOfGit
<1>2. RefsShape' /\ FilesShape' /\ LinkShape' /\ Unborn'
  BY <1>1 DEF GitInv, RefsShape, FilesShape, LinkShape, Unborn
<1> QED
  BY <1>1, <1>2, RefsRest, FilesRest, SoundStep

LEMMA HubCommitSound ==
    ASSUME GitInv, NEW r \in Repo, NEW b \in Branch, NEW f \in File, NEW v \in 1..MaxVersions,
           HubCommit(r, b, f, v)
    PROVE  Sound
<1> DEFINE files == [FilesOf(hub[r][b]) EXCEPT ![f] = v]
<1>1. /\ UNCHANGED <<branch, head, tracking, initialized, origin, index, work, unmerged, merging,
                     account, gitFaults>>
      /\ edits < MaxGitEdits /\ edits' = edits + 1
      /\ NewCommit(files, {hub[r][b]}) /\ hub' = [hub EXCEPT ![r][b] = Len(commits')]
  BY DEF HubCommit, refsOfGit, filesOfGit
<1>2. RefsShape /\ Len(commits) \in Nat /\ hub[r][b] \in 0..Len(commits)
  BY AncestorsOrdered DEF GitInv, RefsShape
<1>3. files \in Snapshot
  <2>1. FilesOf(hub[r][b]) \in Snapshot /\ v \in Version
    BY <1>2, FilesTyped, GitAssumption DEF Version
  <2> QED
    BY <2>1 DEF Snapshot
<1> HIDE DEF files
<1>4. /\ Grown /\ Len(commits') = Len(commits) + 1
      /\ hub[r][b] = 0 \/ hub[r][b] \in Ancestors'[Len(commits')]
  BY <1>1, <1>2, <1>3, CommitMade
<1>5. /\ commits' \in Seq(CommitRecord) /\ Older(commits') /\ Len(commits') <= MaxCommits
      /\ Len(commits') \in Nat /\ \A c \in 0..Len(commits) : c \in 0..Len(commits')
  BY <1>2, <1>4, GrownKeeps
<1>6. /\ hub'[r][b] = Len(commits')
      /\ \A t \in Repo : \A a \in Branch : <<t, a>> # <<r, b>> => hub'[t][a] = hub[t][a]
      /\ hub' \in [Repo -> [Branch -> 0..Len(commits')]]
  BY <1>1, <1>2, <1>5 DEF RefsShape
<1>7. RefsShape'
  BY <1>1, <1>2, <1>5, <1>6 DEF RefsShape
<1>8. FilesShape' /\ Unborn'
  BY <1>1 DEF GitInv, FilesShape, Unborn
<1>9. LinkShape'
  BY <1>1, GitAssumption DEF GitInv, LinkShape
<1>10. HubForward
  <2>1. ASSUME NEW t \in Repo, NEW a \in Branch, hub[t][a] # 0
        PROVE  hub[t][a] \in Ancestors'[hub'[t][a]]
    <3>1. CASE <<t, a>> = <<r, b>>
      BY <1>4, <1>6, <2>1, <3>1
    <3>2. CASE <<t, a>> # <<r, b>>
      <4>1. hub'[t][a] = hub[t][a] /\ hub[t][a] \in 0..Len(commits)
        BY <1>2, <1>6, <3>2 DEF RefsShape
      <4>2. hub[t][a] \in Ancestors'[hub[t][a]]
        BY <1>2, <1>4, <2>1, <4>1, Onward
      <4> QED
        BY <4>1, <4>2
    <3> QED
      BY <3>1, <3>2
  <2> QED
    BY <2>1 DEF HubForward
<1>11. BranchForward /\ TrackingFollows
  BY <1>1, <1>2, <1>4, Onward DEF RefsShape, BranchForward, TrackingFollows
<1> QED
  BY <1>1, <1>4, <1>7, <1>8, <1>9, <1>10, <1>11, FilesRest, SoundStep

LEMMA PushSound ==
    ASSUME GitInv, Push
    PROVE  Sound
<1>1. PICK r \in Repo :
        /\ Tip # 0
        /\ hub[r][head] # 0 => hub[r][head] \in Ancestors[Tip]
        /\ hub' = [hub EXCEPT ![r][head] = Tip]
        /\ tracking' = [tracking EXCEPT ![head] = Tip]
  BY DEF Push
<1>2. UNCHANGED <<commits, branch, head, initialized, origin, index, work, unmerged, merging,
                  account, edits, gitFaults>>
  BY DEF Push, filesOfGit
<1>3. /\ RefsShape /\ Len(commits) \in Nat /\ Tip \in 0..Len(commits) /\ head \in Branch
      /\ hub[r][head] \in 0..Len(commits)
  BY AncestorsOrdered DEF GitInv, RefsShape, Tip
<1>4. /\ hub'[r][head] = Tip
      /\ \A t \in Repo : \A a \in Branch : <<t, a>> # <<r, head>> => hub'[t][a] = hub[t][a]
      /\ hub' \in [Repo -> [Branch -> 0..Len(commits)]]
      /\ tracking' \in [Branch -> 0..Len(commits)] /\ tracking'[head] = Tip
      /\ \A a \in Branch : a # head => tracking'[a] = tracking[a]
  BY <1>1, <1>3 DEF RefsShape
<1>5. RefsShape'
  BY <1>2, <1>3, <1>4 DEF RefsShape
<1>6. FilesShape' /\ LinkShape' /\ Unborn'
  BY <1>2 DEF GitInv, FilesShape, LinkShape, Unborn
<1>7. Grown
  BY <1>2 DEF Grown
<1>8. HubForward
  <2>1. ASSUME NEW t \in Repo, NEW a \in Branch, hub[t][a] # 0
        PROVE  hub[t][a] \in Ancestors'[hub'[t][a]]
    <3>1. CASE <<t, a>> = <<r, head>>
      <4>1. t = r /\ a = head
        BY <3>1
      <4>2. hub[r][head] \in Ancestors'[Tip]
        BY <1>1, <1>3, <1>7, <2>1, <4>1, Onward
      <4> QED
        BY <1>4, <4>1, <4>2
    <3>2. CASE <<t, a>> # <<r, head>>
      <4>1. hub'[t][a] = hub[t][a] /\ hub[t][a] \in 0..Len(commits)
        BY <1>3, <1>4, <3>2 DEF RefsShape
      <4>2. hub[t][a] \in Ancestors'[hub[t][a]]
        BY <1>3, <1>7, <2>1, <4>1, Onward
      <4> QED
        BY <4>1, <4>2
    <3> QED
      BY <3>1, <3>2
  <2> QED
    BY <2>1 DEF HubForward
<1>9. BranchForward
  BY <1>2, <1>3, <1>7, Onward DEF RefsShape, BranchForward
<1>10. TrackingFollows
  BY <1>4 DEF TrackingFollows
<1> QED
  BY <1>2, <1>5, <1>6, <1>7, <1>8, <1>9, <1>10, FilesRest, SoundStep

LEMMA MergedTyped ==
    ASSUME RefsShape, NEW c \in 0..Len(commits), NEW d \in 0..Len(commits)
    PROVE  [f \in File |-> Merged(c, d, f)] \in Snapshot
<1>1. FilesOf(c) \in Snapshot /\ FilesOf(d) \in Snapshot
  BY FilesTyped
<1>2. Marked \in Version
  BY GitAssumption DEF Marked, Version
<1>3. ASSUME NEW f \in File PROVE Merged(c, d, f) \in Version
  <2>1. FilesOf(c)[f] \in Version /\ FilesOf(d)[f] \in Version
    BY <1>1 DEF Snapshot
  <2> QED
    BY <1>2, <2>1 DEF Merged
<1> QED
  BY <1>3 DEF Snapshot

\* A merge moves the branch forward, whatever it does to the files.
LEMMA MergeForward ==
    ASSUME GitInv, NEW c \in 0..Len(commits), NEW unrelated, MergeCommit(c, unrelated)
    PROVE  /\ Grown /\ BranchForward /\ FilesShape' /\ NoneLost
           /\ branch' \in [Branch -> 0..Len(commits')] /\ merging' \in 0..Len(commits')
<1>1. /\ RefsShape /\ FilesShape /\ Len(commits) \in Nat /\ Tip \in 0..Len(commits)
      /\ head \in Branch /\ Tip = branch[head]
  BY AncestorsOrdered DEF GitInv, RefsShape, Tip
<1>2. CASE UNCHANGED <<commits, branch, filesOfGit>>
  <2>1. UNCHANGED <<commits, branch, index, work, unmerged, merging>>
    BY <1>2 DEF filesOfGit
  <2>2. Grown
    BY <2>1 DEF Grown
  <2>3. BranchForward
    BY <1>1, <2>1, <2>2, Onward DEF RefsShape, BranchForward
  <2>4. FilesShape'
    BY <1>1, <2>1 DEF FilesShape
  <2> QED
    BY <1>1, <2>1, <2>2, <2>3, <2>4, FilesRest DEF RefsShape
<1>3. CASE /\ Tip = 0 \/ Tip \in Ancestors[c] \ {c}
           /\ Replace(FilesOf(Tip), FilesOf(c))
           /\ branch' = [branch EXCEPT ![head] = c]
           /\ UNCHANGED <<commits, unmerged, merging>>
  <2>1. index' \in Snapshot /\ work' \in Snapshot /\ NoneLost
    BY <1>1, <1>3, FilesTyped, ReplaceKeeps
  <2>2. Grown
    BY <1>3 DEF Grown
  <2>3. ASSUME NEW b \in Branch, branch[b] # 0 PROVE branch[b] \in Ancestors'[branch'[b]]
    <3>1. CASE b = head
      BY <1>1, <1>3, <2>2, <2>3, <3>1, Onward DEF RefsShape
    <3>2. CASE b # head
      BY <1>1, <1>3, <2>2, <2>3, <3>2, Onward DEF RefsShape
    <3> QED
      BY <3>1, <3>2
  <2>4. branch' \in [Branch -> 0..Len(commits')] /\ merging' \in 0..Len(commits')
    BY <1>1, <1>3 DEF RefsShape
  <2>5. FilesShape'
    BY <1>1, <1>3, <2>1 DEF FilesShape
  <2> QED
    BY <2>1, <2>2, <2>3, <2>4, <2>5 DEF BranchForward
<1>4. ASSUME NEW result, result = [f \in File |-> Merged(Tip, c, f)],
             Replace(FilesOf(Tip), result), unmerged' = Conflicts(Tip, c)
      PROVE  FilesShape' /\ NoneLost /\ result \in Snapshot
  <2>1. result \in Snapshot
    BY <1>1, <1>4, MergedTyped
  <2>2. index' \in Snapshot /\ work' \in Snapshot /\ NoneLost
    BY <1>4, <2>1, ReplaceKeeps
  <2>3. unmerged' \subseteq File
    BY <1>4 DEF Conflicts
  <2> QED
    BY <2>1, <2>2, <2>3 DEF FilesShape
<1>5. ASSUME NEW result, result = [f \in File |-> Merged(Tip, c, f)],
             Replace(FilesOf(Tip), result), unmerged' = Conflicts(Tip, c),
             NewCommit(result, {Tip, c}), branch' = [branch EXCEPT ![head] = Len(commits')],
             UNCHANGED merging
      PROVE  /\ Grown /\ BranchForward /\ FilesShape' /\ NoneLost
             /\ branch' \in [Branch -> 0..Len(commits')] /\ merging' \in 0..Len(commits')
  <2>1. FilesShape' /\ NoneLost /\ result \in Snapshot
    BY <1>4, <1>5
  <2>2. /\ Grown /\ Len(commits') = Len(commits) + 1
        /\ Tip = 0 \/ Tip \in Ancestors'[Len(commits')]
    BY <1>1, <1>5, <2>1, CommitMade
  <2>3. Len(commits') \in Nat /\ \A d \in 0..Len(commits) : d \in 0..Len(commits')
    BY <1>1, <2>2, GrownKeeps
  <2>4. ASSUME NEW b \in Branch, branch[b] # 0 PROVE branch[b] \in Ancestors'[branch'[b]]
    <3>1. CASE b = head
      BY <1>1, <1>5, <2>2, <2>4, <3>1 DEF RefsShape
    <3>2. CASE b # head
      BY <1>1, <1>5, <2>2, <2>4, <3>2, Onward DEF RefsShape
    <3> QED
      BY <3>1, <3>2
  <2>5. branch' \in [Branch -> 0..Len(commits')] /\ merging' \in 0..Len(commits')
    BY <1>1, <1>5, <2>3 DEF RefsShape
  <2> QED
    BY <2>1, <2>2, <2>4, <2>5 DEF BranchForward
<1>6. ASSUME NEW result, result = [f \in File |-> Merged(Tip, c, f)],
             Replace(FilesOf(Tip), result), unmerged' = Conflicts(Tip, c),
             merging' = c, UNCHANGED <<commits, branch>>
      PROVE  /\ Grown /\ BranchForward /\ FilesShape' /\ NoneLost
             /\ branch' \in [Branch -> 0..Len(commits')] /\ merging' \in 0..Len(commits')
  <2>1. FilesShape' /\ NoneLost
    BY <1>4, <1>6
  <2>2. Grown
    BY <1>6 DEF Grown
  <2>3. BranchForward
    BY <1>1, <1>6, <2>2, Onward DEF RefsShape, BranchForward
  <2> QED
    BY <1>1, <1>6, <2>1, <2>2, <2>3 DEF RefsShape
<1> QED
  BY <1>2, <1>3, <1>5, <1>6 DEF MergeCommit

\* What the fetch of a branch is followed by
LEMMA FetchedSound ==
    ASSUME GitInv, NEW r \in Repo, NEW b \in Branch, Fetched(r, b), UNCHANGED hub, Grown,
           branch' \in [Branch -> 0..Len(commits')], merging' \in 0..Len(commits'), head' \in Branch,
           FilesShape', LinkShape', initialized, initialized' = initialized,
           NoneLost, Links \/ BranchForward
    PROVE  Sound
<1>1. RefsShape /\ Len(commits) \in Nat
  BY AncestorsOrdered DEF GitInv, RefsShape
<1>2. /\ commits' \in Seq(CommitRecord) /\ Older(commits') /\ Len(commits') <= MaxCommits
      /\ Len(commits') \in Nat /\ \A c \in 0..Len(commits) : c \in 0..Len(commits')
  BY <1>1, GrownKeeps
<1>3. RefsShape'
  BY <1>1, <1>2 DEF RefsShape, Fetched
<1>4. HubForward
  BY <1>1, Onward DEF RefsShape, HubForward
<1>5. TrackingFollows
  BY <1>1 DEF RefsShape, Fetched, TrackingFollows
<1> QED
  BY <1>3, <1>4, <1>5, SoundStep DEF Unborn

LEMMA PullSound ==
    ASSUME GitInv, Pull
    PROVE  Sound
<1>1. PICK r \in Repo : Fetched(r, head) /\ MergeCommit(hub[r][head], FALSE)
  BY DEF Pull
<1>2. /\ UNCHANGED <<head, initialized, origin, hub, account, edits, gitFaults>> /\ initialized
  BY DEF Pull, others
<1>3. head \in Branch /\ hub[r][head] \in 0..Len(commits)
  BY DEF GitInv, RefsShape
<1>4. /\ Grown /\ BranchForward /\ FilesShape' /\ NoneLost
      /\ branch' \in [Branch -> 0..Len(commits')] /\ merging' \in 0..Len(commits')
  BY <1>1, <1>3, MergeForward
<1>5. LinkShape'
  BY <1>2 DEF GitInv, LinkShape
<1> QED
  BY <1>1, <1>2, <1>3, <1>4, <1>5, FetchedSound

LEMMA PullStopsSound ==
    ASSUME GitInv, PullStops
    PROVE  Sound
<1>1. PICK r \in Repo : Fetched(r, head)
  BY DEF PullStops
<1>2. /\ UNCHANGED <<commits, branch, head, initialized, origin, index, work, unmerged, merging,
                     hub, account, edits>>
      /\ initialized /\ gitFaults < MaxGitFaults /\ gitFaults' = gitFaults + 1
  BY DEF PullStops, filesOfGit, GitFault
<1>3. /\ RefsShape /\ FilesShape /\ head \in Branch /\ Grown
  BY <1>2 DEF GitInv, RefsShape, Grown
<1>4. BranchForward
  BY <1>2, <1>3, Onward DEF RefsShape, BranchForward
<1>5. LinkShape'
  BY <1>2, GitAssumption DEF GitInv, LinkShape
<1>6. FilesShape' /\ branch' \in [Branch -> 0..Len(commits')] /\ merging' \in 0..Len(commits')
  BY <1>2, <1>3 DEF RefsShape, FilesShape
<1> QED
  BY <1>1, <1>2, <1>3, <1>4, <1>5, <1>6, FilesRest, FetchedSound

LEMMA LinkRemoteSound ==
    ASSUME GitInv, NEW r \in Repo, NEW b \in Branch, LinkRemote(r, b)
    PROVE  Sound
<1>1. /\ UNCHANGED <<initialized, hub, edits, gitFaults>> /\ initialized
      /\ account' = r /\ origin' = r /\ Fetched(r, b)
  BY DEF LinkRemote
<1>2. Links
  BY DEF Links
<1>3. LinkShape'
  BY <1>1 DEF GitInv, LinkShape
<1>4. RefsShape /\ FilesShape /\ hub[r][b] \in 0..Len(commits) /\ Len(commits) \in Nat
  BY AncestorsOrdered DEF GitInv, RefsShape
<1>5. CASE Adopt(b, hub[r][b])
  <2>1. FilesOf(hub[r][b]) \in Snapshot
    BY <1>4, FilesTyped
  <2>2. index' \in Snapshot /\ work' \in Snapshot /\ NoneLost
    BY <1>5, <2>1, ReplaceKeeps DEF Adopt
  <2>3. /\ branch' = [branch EXCEPT ![b] = hub[r][b]] /\ head' = b /\ merging' = 0
        /\ UNCHANGED <<commits, unmerged>>
    BY <1>5 DEF Adopt
  <2>4. Grown
    BY <2>3 DEF Grown
  <2>5. FilesShape' /\ branch' \in [Branch -> 0..Len(commits')] /\ merging' \in 0..Len(commits')
    BY <1>4, <2>2, <2>3 DEF RefsShape, FilesShape
  <2> QED
    BY <1>1, <1>2, <1>3, <2>2, <2>3, <2>4, <2>5, FetchedSound
<1>6. CASE MergeCommit(hub[r][b], TRUE) /\ UNCHANGED head
  <2>1. /\ Grown /\ BranchForward /\ FilesShape' /\ NoneLost
        /\ branch' \in [Branch -> 0..Len(commits')] /\ merging' \in 0..Len(commits')
    BY <1>4, <1>6, MergeForward
  <2>2. head' \in Branch
    BY <1>4, <1>6 DEF RefsShape
  <2> QED
    BY <1>1, <1>2, <1>3, <2>1, <2>2, FetchedSound
<1> QED
  BY <1>5, <1>6 DEF LinkRemote

LEMMA LinkStopsSound ==
    ASSUME GitInv, NEW r \in Repo, NEW b \in Branch, LinkStops(r, b)
    PROVE  Sound
<1>1. /\ UNCHANGED <<commits, branch, head, initialized, index, work, unmerged, merging,
                     hub, account, edits>>
      /\ initialized /\ gitFaults < MaxGitFaults /\ gitFaults' = gitFaults + 1 /\ origin' = r
      /\ UNCHANGED tracking \/ Fetched(r, b)
  BY DEF LinkStops, filesOfGit, GitFault
<1>2. /\ RefsShape /\ FilesShape /\ head \in Branch /\ Grown
  BY <1>1 DEF GitInv, RefsShape, Grown
<1>3. BranchForward
  BY <1>1, <1>2, Onward DEF RefsShape, BranchForward
<1>4. LinkShape'
  BY <1>1, GitAssumption DEF GitInv, LinkShape
<1>5. FilesShape' /\ branch' \in [Branch -> 0..Len(commits')] /\ merging' \in 0..Len(commits')
  BY <1>1, <1>2 DEF RefsShape, FilesShape
<1>6. CASE UNCHANGED tracking
  <2>1. RefsShape' /\ Unborn'
    BY <1>1, <1>2, <1>6 DEF RefsShape, Unborn
  <2> QED
    BY <1>1, <1>4, <1>5, <1>6, <2>1, RefsRest, FilesRest, SoundStep
<1>7. CASE Fetched(r, b)
  BY <1>1, <1>2, <1>3, <1>4, <1>5, <1>7, FilesRest, FetchedSound
<1> QED
  BY <1>1, <1>6, <1>7

LEMMA GitStep ==
    ASSUME GitInv, [GitNext]_gitVars
    PROVE  GitInv' /\ [Sound]_gitVars
<1>1. CASE UNCHANGED gitVars
  <2>1. UNCHANGED <<commits, branch, head, tracking, initialized, origin, index, work, unmerged,
                    merging, hub, account, edits, gitFaults>>
    BY <1>1 DEF gitVars
  <2>2. RefsShape' /\ FilesShape' /\ LinkShape' /\ Unborn'
    BY <2>1 DEF GitInv, RefsShape, FilesShape, LinkShape, Unborn
  <2>3. Fetches'
    BY <2>1, <2>2, RefsRest, StillFetches
  <2> QED
    BY <1>1, <2>2, <2>3 DEF GitInv
<1>2. CASE GitNext
  <2>1. ASSUME NEW f \in File, NEW v \in 0..MaxVersions, Edit(f, v) PROVE Sound
    BY <2>1, EditSound
  <2>2. ASSUME NEW b \in Branch, CreateBranch(b) \/ Checkout(b) PROVE Sound
    BY <2>2, CreateBranchSound, CheckoutSound
  <2>3. ASSUME NEW paths \in SUBSET File, Commit(paths) \/ Discard(paths) PROVE Sound
    BY <2>3, CommitSound, DiscardSound
  <2>4. ASSUME NEW r \in Repo, NEW b \in Branch,
               \/ \E f \in File, v \in 1..MaxVersions : HubCommit(r, b, f, v)
               \/ LinkRemote(r, b) \/ LinkStops(r, b)
        PROVE  Sound
    BY <2>4, HubCommitSound, LinkRemoteSound, LinkStopsSound
  <2>5. Sound
    BY <1>2, <2>1, <2>2, <2>3, <2>4, EnsureRepoSound, EnsureRepoStopsSound, AbortMergeSound,
       AccountSound, PushSound, PullSound, PullStopsSound DEF GitNext
  <2> QED
    BY <2>5 DEF Sound
<1> QED
  BY <1>1, <1>2

LEMMA GitStarts == GitInit => GitInv
<1> SUFFICES ASSUME GitInit PROVE GitInv
  OBVIOUS
<1>1. <<>> \in Seq(CommitRecord) /\ Len(<<>>) = 0
  OBVIOUS
<1>2. NoFiles \in Snapshot
  BY GitAssumption DEF NoFiles, Snapshot, Version, Missing
<1>3. RefsShape
  BY <1>1, GitAssumption DEF GitInit, RefsShape, Older
<1>4. FilesShape /\ LinkShape
  <2>1. FilesShape
    BY <1>2 DEF GitInit, FilesShape
  <2>2. 0 \in 0..MaxGitEdits /\ 0 \in 0..MaxGitFaults
    BY GitAssumption
  <2>3. LinkShape
    BY <2>2 DEF GitInit, LinkShape
  <2> QED
    BY <2>1, <2>3
<1>5. Unborn /\ Fetches
  BY DEF GitInit, Unborn, Fetches
<1> QED
  BY <1>3, <1>4, <1>5 DEF GitInv

LEMMA GitAlways == GitSpec => []GitInv /\ [][Sound]_gitVars
<1>1. GitInv /\ [GitNext]_gitVars => GitInv' /\ [Sound]_gitVars
  BY GitStep
<1> QED
  BY <1>1, GitStarts, PTL DEF GitSpec

\* The commits and the references have the types that GitTypeOK gives them, for any number of
\* files, branches and repositories.
THEOREM GitTypes == GitSpec => []GitTypeOK
<1>1. GitInv => GitTypeOK
  <2> SUFFICES ASSUME GitInv PROVE GitTypeOK
    OBVIOUS
  <2>1. Len(commits) \in Nat /\ \A c \in 0..Len(commits) : c \in CommitId
    BY AncestorsOrdered, GitAssumption DEF GitInv, RefsShape, CommitId
  <2> QED
    BY <2>1 DEF GitInv, RefsShape, FilesShape, LinkShape, GitTypeOK
<1> QED
  BY <1>1, GitAlways, PTL

\* For any number of files, branches and repositories: only the link of a repository can leave
\* a commit without a reference, and what was not committed is overwritten by a discard, or by
\* the abort of a merge, alone.
THEOREM NothingGetsLost == GitSpec => NothingLost
<1>1. [Sound]_gitVars =>
        [ /\ Links \/ Kept \subseteq Kept'
          /\ \/ Edits \/ Discards
             \/ \A f \in File \ unmerged : Lost(f, Kept) => AbortsStaged(f) ]_gitVars
  BY DEF Sound
<1> QED
  BY <1>1, GitAlways, PTL DEF NothingLost
=============================================================================
