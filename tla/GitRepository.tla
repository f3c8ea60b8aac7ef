----------------------------- MODULE GitRepository -----------------------------
(***************************************************************************)
(* Git in a Home: services/git_service.py, api/routes/git.py and the       *)
(* account of services/github. An operation holds the lock of the Home     *)
(* from its first git command to its last, so it is one action; the ways   *)
(* in which it stops half way are disjuncts of it. What git itself does    *)
(* (checkout, merge, add, commit) is modelled as the code uses it.         *)
(***************************************************************************)
EXTENDS Naturals, Sequences, FiniteSets

CONSTANTS File, Branch, Initial,  \* Initial: the branch git init makes
          Repo,          \* repositories on GitHub
          MaxVersions,   \* bound: contents of a file
          MaxCommits,    \* bound
          MaxGitEdits,   \* bound: changes to the files
          MaxGitFaults   \* bound: operations that fail on the network or the clock

ASSUME GitAssumption ==
    /\ {MaxVersions, MaxCommits, MaxGitEdits, MaxGitFaults} \subseteq Nat
    /\ Initial \in Branch

NoRepo == "none"
Missing == 0                      \* the file is not there
Marked == MaxVersions + 1         \* the file holds conflict markers
Version == 0..MaxVersions + 1
Snapshot == [File -> Version]
NoFiles == [f \in File |-> Missing]
CommitId == 0..MaxCommits         \* 0: none

VARIABLES commits,   \* every commit made, here or on GitHub, oldest first
          branch, head, tracking,       \* refs/heads, HEAD, refs/remotes/origin
          initialized, origin,          \* .git exists; url of the remote
          index, work, unmerged,        \* staged, on disk, in conflict
          merging,                      \* MERGE_HEAD
          hub,       \* the branches on GitHub
          account,   \* repo_full_name of the connected account
          edits, gitFaults

gitVars == <<commits, branch, head, tracking, initialized, origin, index, work, unmerged,
             merging, hub, account, edits, gitFaults>>

refsOfGit == <<branch, head, tracking, initialized, origin>>
filesOfGit == <<index, work, unmerged, merging>>
others == <<hub, account, edits, gitFaults>>

CommitRecord == [files : Snapshot, parents : SUBSET (1..MaxCommits)]

GitTypeOK ==
    /\ commits \in Seq(CommitRecord) /\ Len(commits) <= MaxCommits
    /\ branch \in [Branch -> CommitId] /\ head \in Branch /\ tracking \in [Branch -> CommitId]
    /\ initialized \in BOOLEAN /\ origin \in Repo \cup {NoRepo}
    /\ index \in Snapshot /\ work \in Snapshot /\ unmerged \subseteq File
    /\ merging \in CommitId
    /\ hub \in [Repo -> [Branch -> CommitId]]
    /\ account \in Repo \cup {NoRepo, "unlinked"}
    /\ edits \in 0..MaxGitEdits /\ gitFaults \in 0..MaxGitFaults

GitInit ==
    /\ commits = <<>>
    /\ branch = [b \in Branch |-> 0] /\ tracking = [b \in Branch |-> 0] /\ head = Initial
    /\ initialized = FALSE /\ origin = NoRepo
    /\ index = NoFiles /\ work = NoFiles /\ unmerged = {} /\ merging = 0
    /\ hub = [r \in Repo |-> [b \in Branch |-> 0]]
    /\ account = NoRepo /\ edits = 0 /\ gitFaults = 0

(***************************************************************************)
(* The commit graph.                                                       *)
(***************************************************************************)
FilesOf(c) == IF c = 0 THEN NoFiles ELSE commits[c].files

Ancestors[c \in 0..Len(commits)] ==
    IF c = 0 THEN {} ELSE {c} \cup UNION {Ancestors[p] : p \in commits[c].parents}

Tip == branch[head]

\* Bug: a first commit with a parent
NewCommitAlways(files, parents) ==
    /\ Len(commits) < MaxCommits
    /\ commits' = Append(commits, [files |-> files, parents |-> parents])

NewCommit(files, parents) ==
    /\ Len(commits) < MaxCommits
    /\ commits' = Append(commits, [files |-> files, parents |-> parents \ {0}])

Newest(S) == IF S = {} THEN 0 ELSE CHOOSE c \in S : \A o \in S : o <= c

MergeBase(a, b) == Newest(Ancestors[a] \cap Ancestors[b])

\* git merge of theirs into ours, file by file
Merged(ours, theirs, f) ==
    LET o == FilesOf(ours)[f]
        t == FilesOf(theirs)[f]
        base == FilesOf(MergeBase(ours, theirs))[f]
    IN IF t \in {base, o} THEN o ELSE IF o = base THEN t ELSE Marked

Conflicts(ours, theirs) == {f \in File : Merged(ours, theirs, f) = Marked
                                            /\ Marked \notin {FilesOf(ours)[f], FilesOf(theirs)[f]}}

\* Bug: checkout --force
FreeAlways(from, to) == TRUE

\* Changing the files from one snapshot to another: git refuses when it would overwrite
\* what is not committed.
Free(from, to) == \A f \in File : from[f] # to[f] => (index[f] = from[f] /\ work[f] = from[f])

Replace(from, to) ==
    /\ Free(from, to)
    /\ index' = [f \in File |-> IF from[f] # to[f] THEN to[f] ELSE index[f]]
    /\ work' = [f \in File |-> IF from[f] # to[f] THEN to[f] ELSE work[f]]

(***************************************************************************)
(* The operations.                                                         *)
(***************************************************************************)
GitFault == gitFaults < MaxGitFaults /\ gitFaults' = gitFaults + 1

\* The file API, a kernel or an execution writes or removes a file.
Edit(f, v) ==
    /\ edits < MaxGitEdits /\ edits' = edits + 1
    /\ work[f] # v
    /\ work' = [work EXCEPT ![f] = v]
    /\ UNCHANGED <<refsOfGit, commits, index, unmerged, merging, hub, account, gitFaults>>

\* git init, config, add -A and commit, once
EnsureRepo ==
    /\ ~initialized /\ initialized' = TRUE
    /\ NewCommit(work, {})
    /\ branch' = [branch EXCEPT ![head] = Len(commits')]
    /\ index' = work
    /\ UNCHANGED <<head, tracking, origin, work, unmerged, merging, others>>

\* It stops after git init: the .git that is there keeps it from being tried again.
EnsureRepoStops ==
    /\ ~initialized /\ initialized' = TRUE
    /\ GitFault
    /\ index' \in {index, work}
    /\ UNCHANGED <<commits, branch, head, tracking, origin, work, unmerged, merging,
                   hub, account, edits>>

CreateBranch(b) ==
    /\ initialized /\ branch[b] = 0 /\ b # head /\ unmerged = {}
    /\ branch' = [branch EXCEPT ![b] = Tip]
    /\ head' = b
    /\ UNCHANGED <<commits, tracking, initialized, origin, filesOfGit, others>>

\* A branch known from origin alone is made here first.
Checkout(b) ==
    /\ initialized /\ unmerged = {} /\ b # head
    /\ \E c \in {IF branch[b] # 0 THEN branch[b] ELSE tracking[b]} :
          /\ c # 0
          /\ Replace(FilesOf(Tip), FilesOf(c))
          /\ branch' = [branch EXCEPT ![b] = c]
    /\ head' = b
    /\ merging' = 0
    /\ UNCHANGED <<commits, tracking, initialized, origin, unmerged, others>>

\* No paths: everything. The commit takes the whole index, and ends a merge.
Commit(paths) ==
    /\ initialized
    /\ \E added \in {IF paths = {} THEN File ELSE paths} :
          \E staged \in {[f \in File |-> IF f \in added THEN work[f] ELSE index[f]]} :
              /\ index' = staged
              /\ unmerged' = unmerged \ added
              /\ \A f \in paths : work[f] # Missing \/ index[f] # Missing
              /\ IF unmerged' = {} /\ (staged # FilesOf(Tip) \/ merging # 0)
                 THEN /\ NewCommit(staged, {Tip, merging})
                      /\ branch' = [branch EXCEPT ![head] = Len(commits')]
                      /\ merging' = 0
                 ELSE UNCHANGED <<commits, branch, merging>>
    /\ UNCHANGED <<head, tracking, initialized, origin, work, others>>

\* git checkout -- paths restores them all or, when one of them is not tracked or in
\* conflict, none; git clean removes those that are not tracked. Neither is checked.
Discard(paths) ==
    /\ initialized
    /\ \E named \in {IF paths = {} THEN {f \in File : index[f] # Missing} ELSE paths} :
          \E restored \in {IF \A f \in named : index[f] # Missing /\ f \notin unmerged
                           THEN named ELSE {}} :
              work' = [f \in File |->
                         IF f \in restored THEN index[f]
                         ELSE IF f \in (IF paths = {} THEN File ELSE paths)
                                 /\ index[f] = Missing /\ f \notin unmerged
                         THEN Missing ELSE work[f]]
    /\ UNCHANGED <<commits, refsOfGit, index, unmerged, merging, others>>

\* git merge --abort refuses when a file the merge changed was edited since.
AbortMerge ==
    /\ merging # 0
    /\ \A f \in File \ unmerged : index[f] # FilesOf(Tip)[f] => work[f] = index[f]
    /\ index' = FilesOf(Tip)
    /\ work' = [f \in File |-> IF index[f] # FilesOf(Tip)[f] \/ f \in unmerged
                               THEN FilesOf(Tip)[f] ELSE work[f]]
    /\ unmerged' = {} /\ merging' = 0
    /\ UNCHANGED <<commits, refsOfGit, others>>

(***************************************************************************)
(* GitHub.                                                                 *)
(***************************************************************************)
Connect == account = NoRepo /\ account' = "unlinked"
           /\ UNCHANGED <<commits, refsOfGit, filesOfGit, hub, edits, gitFaults>>

Disconnect == account # NoRepo /\ account' = NoRepo
              /\ UNCHANGED <<commits, refsOfGit, filesOfGit, hub, edits, gitFaults>>

\* Somebody else pushes.
HubCommit(r, b, f, v) ==
    /\ edits < MaxGitEdits /\ edits' = edits + 1
    /\ FilesOf(hub[r][b])[f] # v
    /\ NewCommit([FilesOf(hub[r][b]) EXCEPT ![f] = v], {hub[r][b]})
    /\ hub' = [hub EXCEPT ![r][b] = Len(commits')]
    /\ UNCHANGED <<refsOfGit, filesOfGit, account, gitFaults>>

Reachable(r) == account # NoRepo /\ origin = r /\ r # NoRepo

\* HEAD:branch, never forced
Push ==
    \E r \in Repo :
        /\ Reachable(r) /\ Tip # 0
        /\ hub[r][head] # 0 => hub[r][head] \in Ancestors[Tip]
        /\ hub' = [hub EXCEPT ![r][head] = Tip]
        /\ tracking' = [tracking EXCEPT ![head] = Tip]
        /\ UNCHANGED <<commits, branch, head, initialized, origin, filesOfGit,
                       account, edits, gitFaults>>

\* git merge of a commit: up to date, fast forward, merge commit or conflicts. Unrelated
\* histories are refused unless allowed.
MergeCommit(c, unrelated) ==
    /\ unmerged = {} /\ merging = 0
    /\ \/ c \in Ancestors[Tip] /\ UNCHANGED <<commits, branch, filesOfGit>>
       \/ /\ Tip = 0 \/ Tip \in Ancestors[c] \ {c}
          /\ Replace(FilesOf(Tip), FilesOf(c))
          /\ branch' = [branch EXCEPT ![head] = c]
          /\ UNCHANGED <<commits, unmerged, merging>>
       \/ /\ Tip # 0 /\ c \notin Ancestors[Tip] /\ Tip \notin Ancestors[c]
          /\ unrelated \/ MergeBase(Tip, c) # 0
          /\ index = FilesOf(Tip)
          /\ \E result \in {[f \in File |-> Merged(Tip, c, f)]} :
                /\ Replace(FilesOf(Tip), result)
                /\ unmerged' = Conflicts(Tip, c)
                /\ IF Conflicts(Tip, c) = {}
                   THEN /\ NewCommit(result, {Tip, c})
                        /\ branch' = [branch EXCEPT ![head] = Len(commits')]
                        /\ UNCHANGED merging
                   ELSE merging' = c /\ UNCHANGED <<commits, branch>>

Fetched(r, b) == tracking' = [tracking EXCEPT ![b] = hub[r][b]]

\* The branch is the one checked out.
Pull ==
    \E r \in Repo :
        /\ Reachable(r) /\ initialized /\ hub[r][head] # 0
        /\ Fetched(r, head)
        /\ MergeCommit(hub[r][head], FALSE)
        /\ UNCHANGED <<head, initialized, origin, others>>

\* The fetch is done, the merge refused
PullStops ==
    \E r \in Repo :
        /\ Reachable(r) /\ initialized /\ hub[r][head] # 0 /\ GitFault
        /\ Fetched(r, head)
        /\ UNCHANGED <<commits, branch, head, initialized, origin, filesOfGit,
                       hub, account, edits>>

OnlyInitial == Cardinality(Ancestors[Tip]) <= 1

\* checkout -B branch origin/branch
Adopt(b, c) ==
    /\ unmerged = {}
    /\ Replace(FilesOf(Tip), FilesOf(c))
    /\ branch' = [branch EXCEPT ![b] = c]
    /\ head' = b
    /\ merging' = 0
    /\ UNCHANGED <<commits, unmerged>>

\* link_repo and init_from_remote, for a Home that has a repository (git_init and the
\* first command of init_from_remote are EnsureRepo)
LinkRemote(r, b) ==
    /\ initialized /\ account # NoRepo /\ hub[r][b] # 0
    /\ account' = r /\ origin' = r
    /\ Fetched(r, b)
    /\ IF OnlyInitial THEN Adopt(b, hub[r][b])
       ELSE MergeCommit(hub[r][b], TRUE) /\ UNCHANGED head
    /\ UNCHANGED <<initialized, hub, edits, gitFaults>>

\* A git command after set-url fails: the transaction is rolled back, the url stays.
LinkStops(r, b) ==
    /\ initialized /\ account # NoRepo /\ GitFault
    /\ origin' = r
    /\ \/ UNCHANGED tracking
       \/ hub[r][b] # 0 /\ Fetched(r, b)
    /\ UNCHANGED <<commits, branch, head, initialized, filesOfGit, hub, account, edits>>

GitNext ==
    \/ \E f \in File, v \in 0..MaxVersions : Edit(f, v)
    \/ EnsureRepo
    \/ EnsureRepoStops
    \/ \E b \in Branch : CreateBranch(b) \/ Checkout(b)
    \/ \E paths \in SUBSET File : Commit(paths) \/ Discard(paths)
    \/ AbortMerge
    \/ Connect
    \/ Disconnect
    \/ \E r \in Repo, b \in Branch :
          \/ \E f \in File, v \in 1..MaxVersions : HubCommit(r, b, f, v)
          \/ LinkRemote(r, b)
          \/ LinkStops(r, b)
    \/ Push
    \/ Pull
    \/ PullStops

GitSpec == GitInit /\ [][GitNext]_gitVars
===============================================================================
