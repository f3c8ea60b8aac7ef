----------------------------- MODULE GitProperties -----------------------------
(* What the git operations of a Home keep safe, and what they do not. *)
EXTENDS GitRepository

\* The commits that a branch of the Home, of origin or of GitHub leads to
Held(refs) == UNION {Ancestors[refs[b]] : b \in Branch}

Kept == Held(branch) \cup Held(tracking) \cup UNION {Held(hub[r]) : r \in Repo}

Links == \E r \in Repo, b \in Branch : LinkRemote(r, b)

Edits == edits' # edits

Discards == \E paths \in SUBSET File : Discard(paths)

Lost(f, commitsHeld) ==
    /\ work[f] # Missing /\ work'[f] # work[f]
    /\ \A c \in commitsHeld : FilesOf(c)[f] # work[f]

\* A commit refused because of other files in conflict has staged this one, and the abort of
\* the merge takes it for the merge's.
AbortsStaged(f) == AbortMerge /\ index[f] = work[f]

\* No operation makes a commit unreachable, but for the link of a repository; and what the
\* user has on disk and has not committed is lost to the discard of it alone, or to the
\* abort of a merge when it was staged: checkout, pull, link and the rest refuse to
\* overwrite it. A file in conflict may go.
NothingLost ==
    [][ /\ Links \/ Kept \subseteq Kept'
        /\ \/ Edits \/ Discards
           \/ \A f \in File \ unmerged : Lost(f, Kept) => AbortsStaged(f) ]_gitVars

\* What init_from_remote says: it adopts the remote branch only while nothing but the
\* automatic commit is there, no work of the user. That commit holds the files the Home had:
\* when the branch has the name of the one git init made, they are on no branch any more.
LinkKeepsFiles == [][Links => \A f \in File \ unmerged : ~Lost(f, Kept')]_gitVars
================================================================================
