-------------------------- MODULE WorkspaceProperties --------------------------
(* What the file API promises to the workflows of a Home, and what it does not. *)
EXTENDS WorkspaceFiles, FiniteSets

\* Every entry of the Home lies in directories that are there, whatever the requests of
\* the file API and the processes beside it do.
HomeClosed == TreeClosed(tree)

\* Once every request has committed, the tasks of a workflow that is not INVALID or
\* ARCHIVED name files that exist, through renames, moves and deletions of the files and of
\* the folders above them, if no request overlapped another one, no transaction failed and
\* nothing changed the disk behind the API since the graph was last saved.
RefsResolve ==
    Quiet /\ ~disturbed /\ status \in {"DRAFT", "ACTIVE", "DISABLED"}
        => Resolving(refs, tree)

Deleted == \E c \in Client : req[c].src = Nothing /\ req'[c].src # Nothing
                                /\ req[c].op = "delete"

\* Moves, copies, uploads and generated files never cost the user a file, at the target
\* or in a folder that is moved: only a deletion does, or a process beside the API.
NothingOverwritten ==
    [][~Deleted /\ outside' = outside
           => Cardinality(Files(tree)) <= Cardinality(Files(tree'))]_filesVars

================================================================================
