----------------------------- MODULE WorkspaceFiles -----------------------------
(***************************************************************************)
(* The files of a Home and the workflow whose tasks name them:             *)
(* api/routes/workspaces.py and services/workflow_service.py. The disk     *)
(* changes at once; the tasks change with the transaction of the request,  *)
(* which commits after the handler. What a request has flushed and not yet *)
(* committed is kept with the request.                                     *)
(***************************************************************************)
EXTENDS WorkspaceTree

CONSTANTS Client,       \* requests in progress, one per client
          Task,         \* tasks of the workflow
          MaxRequests,  \* bound: requests
          MaxItems,     \* bound: items of a batch request
          MaxOutside,   \* bound: changes not made by the file API
          MaxFaults     \* bound: transactions that fail

ASSUME FilesAssumption == {MaxRequests, MaxItems, MaxOutside, MaxFaults} \subseteq Nat

Statuses == {"DRAFT", "ACTIVE", "DISABLED", "ARCHIVED", "INVALID"}

Nothing == <<>>   \* a task without notebook_path, an item not yet taken

Ref == Notebook \cup {Nothing}

VARIABLES tree,      \* the disk
          refs,      \* notebook_path of every task
          status,    \* of the workflow
          req,       \* what every client's request is doing
          requests, outside, faults,
          disturbed  \* references may have been broken behind the code's back

filesVars == <<tree, refs, status, req, requests, outside, faults, disturbed>>

\* A request that the client has not sent. left: items the request may still take;
\* src and dst: the item that is on disk and not in the transaction (dst is Nothing for
\* a deletion); refs, status: what the transaction will commit.
Idle == [op |-> "idle", left |-> 0, src |-> Nothing, dst |-> Nothing,
         refs |-> [t \in Task |-> Nothing], status |-> "keep", changed |-> {}]

PathOrNothing == Path \cup {Nothing}

Requests ==
    [op : {"idle", "move", "delete", "save"}, left : 0..MaxItems,
     src : PathOrNothing, dst : PathOrNothing,
     refs : [Task -> PathOrNothing], status : Statuses \cup {"keep"}, changed : SUBSET Task]

FilesTypeOK ==
    /\ tree \in [Path -> Kinds]
    /\ refs \in [Task -> PathOrNothing]
    /\ status \in Statuses
    /\ req \in [Client -> Requests]
    /\ requests \in 0..MaxRequests /\ outside \in 0..MaxOutside /\ faults \in 0..MaxFaults
    /\ disturbed \in BOOLEAN

Resolving(names, t) == \A k \in Task : names[k] # Nothing => Resolves(t, names[k])

\* A Home with any files, and a graph that was saved: then, or before files went away.
FilesInit ==
    /\ tree \in {t \in [Path -> Kinds] : TreeClosed(t)}
    /\ refs \in [Task -> Ref]
    /\ status \in {"DRAFT", "INVALID"} /\ (status = "DRAFT" => Resolving(refs, tree))
    /\ req = [c \in Client |-> Idle]
    /\ requests = 0 /\ outside = 0 /\ faults = 0
    /\ disturbed = FALSE

Quiet == \A c \in Client : req[c] = Idle

CountRequest == requests < MaxRequests /\ requests' = requests + 1

(***************************************************************************)
(* Requests that touch the disk alone.                                     *)
(***************************************************************************)
Disk(t) ==
    /\ CountRequest
    /\ tree' = t
    /\ UNCHANGED <<refs, status, req, outside, faults, disturbed>>

WriteFile(p) == CanWrite(tree, p) /\ Disk(PutFile(tree, p))

MakeDir(p) == CanMakeDir(tree, p) /\ Disk(PutDir(tree, p))

CopyEntry(s, d) == CanMove(tree, s, d) /\ Disk(CopyTree(tree, s, d))

GenerateFile(p) == CanGenerate(tree, p) /\ Disk(PutFile(tree, p))

\* An upload beyond the limit, or over a directory, leaves the parents it has made.
UploadFile(p) ==
    /\ CanHold(tree, p)
    /\ \/ tree[p] # "dir" /\ Disk(PutFile(tree, p))
       \/ Disk(WithParents(tree, p))

(***************************************************************************)
(* Requests that also change the tasks. A single rename or deletion is a   *)
(* batch of one.                                                           *)
(***************************************************************************)
Begin(c) == req[c] = Idle /\ CountRequest

\* What the transaction of c reads: its own rows first.
SeenRefs(c) == [t \in Task |-> IF t \in req[c].changed THEN req[c].refs[t] ELSE refs[t]]

SeenStatus(c) == IF req[c].status = "keep" THEN status ELSE req[c].status

SendBatch(c) ==
    \E op \in {"move", "delete"}, n \in 1..MaxItems :
        /\ Begin(c)
        /\ disturbed' = (disturbed \/ ~Quiet)
        /\ req' = [req EXCEPT ![c].op = op, ![c].left = n]
        /\ UNCHANGED <<tree, refs, status, outside, faults>>

Take(c, op, s, d) ==
    /\ req[c].op = op /\ req[c].left > 0 /\ req[c].src = Nothing
    /\ req' = [req EXCEPT ![c].left = @ - 1, ![c].src = s, ![c].dst = d]
    /\ UNCHANGED <<refs, status, requests, outside, faults, disturbed>>

MoveEntry(c, s, d) ==
    /\ CanMove(tree, s, d) /\ ~Above(s, d)
    /\ Take(c, "move", s, d)
    /\ tree' = MoveTree(tree, s, d)

\* The error of a directory moved into itself is not among those the batch catches:
\* the request ends, and its transaction with it.
MoveIntoItself(c, s, d) ==
    /\ req[c].op = "move" /\ req[c].left > 0 /\ req[c].src = Nothing
    /\ CanMove(tree, s, d) /\ Above(s, d)
    /\ tree' = MoveTree(tree, s, d)
    /\ req' = [req EXCEPT ![c] = Idle]
    /\ disturbed' = (disturbed \/ req[c].changed # {} \/ req[c].status # "keep")
    /\ UNCHANGED <<refs, status, requests, outside, faults>>

DeleteEntry(c, p, recursive) ==
    /\ CanDelete(tree, p, recursive)
    /\ Take(c, "delete", p, Nothing)
    /\ tree' = RemoveTree(tree, p)

\* Bug: only the tasks of the very path are renamed, not those below a folder.
RepathedExact(seen, s, d) == [t \in Task |-> IF seen[t] = s THEN d ELSE seen[t]]

\* repath_tasks: every task at or below src; then _revalidate_workflow, for a workflow
\* with a task that changed.
Repathed(seen, s, d) ==
    [t \in Task |-> IF seen[t] # Nothing /\ Above(s, seen[t])
                    THEN Rebase(seen[t], s, d) ELSE seen[t]]

RepathTasks(c) ==
    /\ req[c].op = "move" /\ req[c].src # Nothing
    /\ \E seen \in {SeenRefs(c)} :
          \E new \in {Repathed(seen, req[c].src, req[c].dst)} \cap [Task -> PathOrNothing] :
              \E touched \in {{t \in Task : new[t] # seen[t]}} :
                  req' = [req EXCEPT
                             ![c].src = Nothing, ![c].dst = Nothing, ![c].refs = new,
                             ![c].changed = @ \cup touched,
                             ![c].status = IF /\ touched # {} /\ SeenStatus(c) = "INVALID"
                                              /\ Resolving(new, tree)
                                           THEN "DRAFT" ELSE @]
    /\ UNCHANGED <<tree, refs, status, requests, outside, faults, disturbed>>

\* invalidate_referencing
InvalidateReferencing(c) ==
    /\ req[c].op = "delete" /\ req[c].src # Nothing
    /\ req' = [req EXCEPT
                  ![c].src = Nothing,
                  ![c].status = IF /\ SeenStatus(c) # "ARCHIVED"
                                   /\ \E t \in Task : /\ refs[t] # Nothing
                                                      /\ Above(req[c].src, refs[t])
                                THEN "INVALID" ELSE @]
    /\ UNCHANGED <<tree, refs, status, requests, outside, faults, disturbed>>

\* save_graph, up to its last flush: every path must be a file on disk. What was broken
\* is mended, if nothing else is going on.
ValidateGraph(c, graph) ==
    /\ Begin(c)
    /\ disturbed' = ~Quiet
    /\ Resolving(graph, tree)
    /\ req' = [req EXCEPT ![c] = [Idle EXCEPT !.op = "save", !.refs = graph,
                                              !.changed = Task,
                                              !.status = IF status = "INVALID"
                                                         THEN "DRAFT" ELSE "keep"]]
    /\ UNCHANGED <<tree, refs, status, outside, faults>>

\* The transaction commits once the handler has returned.
Commit(c) ==
    /\ req[c].op # "idle" /\ req[c].src = Nothing
    /\ refs' = SeenRefs(c)
    /\ status' = SeenStatus(c)
    /\ req' = [req EXCEPT ![c] = Idle]
    /\ UNCHANGED <<tree, requests, outside, faults, disturbed>>

\* The savepoint of an item fails and is only logged.
SavepointFails(c) ==
    /\ req[c].src # Nothing
    /\ faults < MaxFaults /\ faults' = faults + 1
    /\ req' = [req EXCEPT ![c].src = Nothing, ![c].dst = Nothing]
    /\ disturbed' = TRUE
    /\ UNCHANGED <<tree, refs, status, requests, outside>>

\* The process or the commit fails after the files were moved.
RequestFails(c) ==
    /\ req[c].op # "idle"
    /\ faults < MaxFaults /\ faults' = faults + 1
    /\ req' = [req EXCEPT ![c] = Idle]
    /\ disturbed' = TRUE
    /\ UNCHANGED <<tree, refs, status, requests, outside>>

\* PUT /workflows/{id}: any status, whatever the files are
UpdateMetadata(s) ==
    /\ CountRequest
    /\ status' = s
    /\ disturbed' = (disturbed \/ status \in {"INVALID", "ARCHIVED"} \/ ~Quiet)
    /\ UNCHANGED <<tree, refs, req, outside, faults>>

\* A kernel, an execution or git works in the same directory.
ChangeOutside(p) ==
    /\ outside < MaxOutside /\ outside' = outside + 1
    /\ \/ CanWrite(tree, p) /\ tree' = PutFile(tree, p)
       \/ Exists(tree, p) /\ tree' = RemoveTree(tree, p)
    /\ disturbed' = TRUE
    /\ UNCHANGED <<refs, status, req, requests, faults>>

FilesNext ==
    \/ \E p \in Path :
          \/ WriteFile(p)
          \/ MakeDir(p)
          \/ GenerateFile(p)
          \/ UploadFile(p)
          \/ ChangeOutside(p)
    \/ \E s, d \in Path : CopyEntry(s, d)
    \/ \E s \in Statuses : UpdateMetadata(s)
    \/ \E c \in Client :
          \/ SendBatch(c)
          \/ \E s, d \in Path : MoveEntry(c, s, d) \/ MoveIntoItself(c, s, d)
          \/ \E p \in Path, recursive \in BOOLEAN : DeleteEntry(c, p, recursive)
          \/ RepathTasks(c)
          \/ InvalidateReferencing(c)
          \/ \E graph \in [Task -> Ref] : ValidateGraph(c, graph)
          \/ Commit(c)
          \/ SavepointFails(c)
          \/ RequestFails(c)

FilesSpec == FilesInit /\ [][FilesNext]_filesVars
===============================================================================
