---------------------------- MODULE JobOrchestrator ----------------------------
(***************************************************************************)
(* One job: a run of a workflow's graph by services/job_orchestrator.py,   *)
(* between the job loops of the workers and the requests of the API. All   *)
(* of them may call sync_and_advance; the lock of the job's row (FOR       *)
(* UPDATE SKIP LOCKED) lets one of them in.                                *)
(*                                                                         *)
(* Executions appear as the rows that sync_and_advance reads. They move by *)
(* ExecutionLifecycle, which the execution pipeline is checked to          *)
(* implement, once their message is pushed.                                *)
(*                                                                         *)
(* The locked transaction is two steps: taking the lock, with the reads of *)
(* the tasks and the cancel key, then everything else. An execution that   *)
(* is read earlier than the commit has the effect of an earlier sync.      *)
(***************************************************************************)
EXTENDS ExecutionStateMachine, WorkflowGraph

CONSTANTS Loops,       \* job loops, one per worker process
          Clients,     \* concurrent API requests
          JobOps,      \* the operations the clients issue
          MaxRuns,     \* bound: executions a task may have, one per run of the job
          MaxCrashes   \* bound: processes that die in the middle of an operation

AllJobOps == {"run", "cancel", "retry", "delete", "cancel_execution"}

ASSUME JobAssumption ==
    /\ Executions = Tasks \X (1..MaxRuns)
    /\ JobOps \subseteq AllJobOps
    /\ MaxRuns \in Nat \ {0}
    /\ MaxCrashes \in Nat

VARIABLES edges,      \* workflow_dependencies
          job,        \* the status column of the job
          jobTask,    \* per task: the status and execution_id columns of its JobTask
          exec,       \* per execution: the status and attempt columns
          pushed,     \* executions whose message has been enqueued
          jobKey,     \* whether the job's cancel key is set
          signalled,  \* executions whose cancel key has been set
          announced,  \* dedupe keys of the notifications created for the job
          proc,       \* per job loop and request: where it is
          crashes     \* processes that died so far

execVars == <<exec, pushed, signalled>>
jobVars == <<edges, job, jobTask, jobKey, announced>>
vars == <<execVars, jobVars, proc, crashes>>

Procs == Loops \cup Clients

JobStatuses == {"QUEUED", "RUNNING", "SUCCESS", "FAILED", "CANCELLED"}

TaskStatuses == {"PENDING", "QUEUED", "RUNNING", "SUCCESS", "FAILED", "CANCELLED", "SKIPPED"}

\* Mutant: a skipped task is not over.
TaskTerminalButSkipped == {"SUCCESS", "FAILED", "CANCELLED"}

\* JOB_TERMINAL, JOBTASK_TERMINAL, JOBTASK_BLOCKING_FAILURE, _RETRYABLE_TASK_STATES
JobTerminal == {"SUCCESS", "FAILED", "CANCELLED"}
TaskTerminal == {"SUCCESS", "FAILED", "CANCELLED", "SKIPPED"}
Blocking == {"FAILED", "CANCELLED", "SKIPPED"}
Retryable == {"FAILED", "CANCELLED", "SKIPPED"}

NoExec == <<>>

JobTask == [status : TaskStatuses, exec : Executions \cup {NoExec}]

Absent == [status |-> "NONE", attempt |-> 0]

ExecRow == [status : Statuses, attempt : 1..MaxAttempt] \cup {Absent}

\* idempotency_key: the execution scopes a JOB_FAILED when there is one, else the job
Key == [event : {"WORKFLOW_FAILED", "JOB_FAILED"}, scope : Executions \cup {NoExec}]

Idle == [pc |-> "idle"]

\* "push": committed executions still to enqueue; final: "NONE", or the status the
\* job was finalized with.
Proc ==
    {Idle}
      \cup [pc : {"cancel", "uncancel", "sync", "delete", "notify"}]
      \cup [pc : {"reset"}, seen : [Tasks -> JobTask]]
      \cup [pc : {"locked"}, cancelling : BOOLEAN, seen : [Tasks -> JobTask]]
      \cup [pc : {"push"}, left : SUBSET Executions, final : JobTerminal \cup {"NONE"}]
      \cup [pc : {"clear"}, final : JobTerminal]
      \cup [pc : {"announce"}, left : SUBSET Key]

JobTypeOK ==
    /\ edges \in Graphs
    /\ job \in JobStatuses \cup {"NONE", "DELETED"}
    /\ jobTask \in [Tasks -> JobTask]
    /\ exec \in [Executions -> ExecRow]
    /\ pushed \subseteq Executions
    /\ jobKey \in BOOLEAN
    /\ signalled \subseteq Executions
    /\ announced \subseteq Key
    /\ proc \in [Procs -> Proc]
    /\ crashes \in 0..MaxCrashes

Init ==
    /\ edges = {}
    /\ job = "NONE"
    /\ jobTask = [t \in Tasks |-> [status |-> "PENDING", exec |-> NoExec]]
    /\ exec = [x \in Executions |-> Absent]
    /\ pushed = {}
    /\ jobKey = FALSE
    /\ signalled = {}
    /\ announced = {}
    /\ proc = [p \in Procs |-> Idle]
    /\ crashes = 0

Goto(p, state) == proc' = [proc EXCEPT ![p] = state]

Exists == job \in JobStatuses

Locked == \E p \in Procs : proc[p].pc = "locked"

Launched(t) == {x \in Executions : x[1] = t /\ exec[x] # Absent}

\* The id that _launch_task would create for t.
Fresh(t) == <<t, Cardinality(Launched(t)) + 1>>

TasksIn(tasks, statuses) == {t \in Tasks : tasks[t].status \in statuses}

-----------------------------------------------------------------------------
(* What a transaction writes. *)

\* _launch_task: an execution for every task of `ready`, but for those of
\* `unreadable`, whose notebook is gone.
Launch(tasks, ready, unreadable) ==
    [t \in Tasks |->
       IF t \in unreadable THEN [tasks[t] EXCEPT !.status = "FAILED"]
       ELSE IF t \in ready THEN [status |-> "QUEUED", exec |-> Fresh(t)]
       ELSE tasks[t]]

\* create_for_workspace, create_raw
CreateExecutions(ids) ==
    exec' = [x \in Executions |->
               IF x \in ids THEN [status |-> "QUEUED", attempt |-> 1] ELSE exec[x]]

\* What the caller of a committed transaction still has to do.
After(ids, final) ==
    IF ids # {} THEN [pc |-> "push", left |-> ids, final |-> final]
    ELSE IF final # "NONE" THEN [pc |-> "clear", final |-> final]
    ELSE Idle

\* _map_exec_status; the retry that may follow a failure is not waited for.
MapExecStatus(status) ==
    IF status \in {"SUCCESS", "CANCELLED"} THEN status ELSE "FAILED"

\* Step 1 of the sync: the statuses of the executions go to their tasks.
Synced(task) ==
    LET status == exec[task.exec].status IN
      IF task.status \notin {"QUEUED", "RUNNING"} \/ task.exec = NoExec THEN task
      ELSE IF status = "RUNNING" THEN [task EXCEPT !.status = "RUNNING"]
      ELSE IF status \in {"SUCCESS", "FAILED", "TIMEOUT", "CANCELLED"}
        THEN [task EXCEPT !.status = MapExecStatus(status)]
      ELSE task

\* Mutant: a dependency that has started is good enough.
ReadyWhenStarted(synced, skipped) ==
    {t \in TasksIn(synced, {"PENDING"}) \ skipped :
       Preds(edges, t) \cap TasksIn(synced, {"PENDING"}) = {}}

\* Step 3: the tasks whose dependencies have all succeeded.
Ready(synced, skipped) ==
    {t \in TasksIn(synced, {"PENDING"}) \ skipped :
       Preds(edges, t) \subseteq TasksIn(synced, {"SUCCESS"})}

\* Mutant: the first failure finalizes the job.
FinalStatusEarly(tasks, cancelling) ==
    IF TasksIn(tasks, {"FAILED"}) # {} THEN "FAILED"
    ELSE IF TasksIn(tasks, TaskTerminal) # Tasks THEN "NONE"
    ELSE IF cancelling \/ TasksIn(tasks, {"CANCELLED"}) # {} THEN "CANCELLED"
    ELSE "SUCCESS"

\* Step 4: the status a job with these tasks is finalized with, if it is over.
FinalStatus(tasks, cancelling) ==
    IF TasksIn(tasks, TaskTerminal) # Tasks THEN "NONE"
    ELSE IF cancelling \/ TasksIn(tasks, {"CANCELLED"}) # {} THEN "CANCELLED"
    ELSE IF TasksIn(tasks, {"SUCCESS"}) = Tasks THEN "SUCCESS"
    ELSE "FAILED"

-----------------------------------------------------------------------------
(* Workflows and the start of a job. *)

jobFrame == <<edges, jobKey, announced, pushed, signalled, crashes>>

\* save_graph, on the tasks the workflow has. An edit of the graph of a job that has
\* been started is left out.
SaveGraph ==
    /\ job = "NONE"
    /\ \E E \in Graphs : ValidDag(E) /\ edges' = E
    /\ UNCHANGED <<execVars, job, jobTask, jobKey, announced, proc, crashes>>

\* start_job: the job, its tasks and the executions of the roots are committed.
StartJob(c) ==
    /\ "run" \in JobOps
    /\ proc[c] = Idle
    /\ job = "NONE"
    /\ LET ready == {t \in Tasks : Preds(edges, t) = {}} IN
         \E unreadable \in SUBSET ready :
           LET ids == {Fresh(t) : t \in ready \ unreadable} IN
             /\ jobTask' = Launch(jobTask, ready, unreadable)
             /\ CreateExecutions(ids)
             /\ Goto(c, After(ids, "NONE"))
    /\ job' = IF Tasks = {} THEN "SUCCESS" ELSE "RUNNING"
    /\ UNCHANGED jobFrame

-----------------------------------------------------------------------------
(* sync_and_advance. *)

syncFrame == <<edges, job, jobTask, exec, signalled, crashes>>

\* Mutant: the row is read without FOR UPDATE.
SyncLockShared(p) ==
    /\ proc[p].pc = "sync" \/ (p \in Loops /\ proc[p] = Idle)
    /\ job = "RUNNING"
    /\ Goto(p, [pc |-> "locked", cancelling |-> jobKey, seen |-> jobTask])
    /\ UNCHANGED <<execVars, jobVars, crashes>>

\* lock_if_running, tasks_for and _is_cancelling
SyncLock(p) ==
    /\ proc[p].pc = "sync" \/ (p \in Loops /\ proc[p] = Idle)
    /\ job = "RUNNING"
    /\ ~ Locked
    /\ Goto(p, [pc |-> "locked", cancelling |-> jobKey, seen |-> jobTask])
    /\ UNCHANGED <<execVars, jobVars, crashes>>

\* Not running (any more), or somebody else is at it.
SyncSkipped(c) ==
    /\ proc[c].pc = "sync"
    /\ job # "RUNNING" \/ Locked
    /\ Goto(c, Idle)
    /\ UNCHANGED <<execVars, jobVars, crashes>>

\* The end of the locked transaction: a job whose tasks are all over is finalized.
CommitSync(p, tasks, ids, final) ==
    /\ jobTask' = tasks
    /\ CreateExecutions(ids)
    /\ job' = IF final = "NONE" THEN job ELSE final
    /\ Goto(p, After(ids, final))

\* The tasks of a job that is being cancelled: nothing more is launched.
Cancelled(seen) ==
    [t \in Tasks |-> IF seen[t].status = "PENDING"
                       THEN [seen[t] EXCEPT !.status = "CANCELLED"] ELSE Synced(seen[t])]

\* What runs is signalled.
SyncCancelling(p) ==
    /\ proc[p].pc = "locked" /\ proc[p].cancelling
    /\ \E tasks \in {Cancelled(proc[p].seen)} :
         /\ signalled' = signalled \cup
              ({tasks[t].exec : t \in TasksIn(tasks, {"QUEUED", "RUNNING"})} \ {NoExec})
         /\ CommitSync(p, tasks, {}, FinalStatus(tasks, TRUE))
    /\ UNCHANGED <<edges, jobKey, announced, pushed, crashes>>

\* The tasks of a job that goes on: what cannot run any more is skipped, what has
\* become ready is launched.
Advances(seen) ==
    LET synced == [t \in Tasks |-> Synced(seen[t])]
        skipped == Downstream(edges, TasksIn(synced, Blocking), TasksIn(synced, {"PENDING"}))
        ready == Ready(synced, skipped)
        kept == [t \in Tasks |-> IF t \in skipped
                                   THEN [synced[t] EXCEPT !.status = "SKIPPED"] ELSE synced[t]]
    IN  {[tasks |-> Launch(kept, ready, unreadable),
          ids |-> {Fresh(t) : t \in ready \ unreadable}] : unreadable \in SUBSET ready}

SyncAdvance(p) ==
    /\ proc[p].pc = "locked" /\ ~ proc[p].cancelling
    /\ \E next \in Advances(proc[p].seen) :
         CommitSync(p, next.tasks, next.ids, FinalStatus(next.tasks, FALSE))
    /\ UNCHANGED jobFrame

\* The executions just committed are enqueued one by one ...
Push(p) ==
    /\ proc[p].pc = "push"
    /\ \E x \in proc[p].left :
         /\ pushed' = pushed \cup {x}
         /\ Goto(p, After(proc[p].left \ {x}, proc[p].final))
    /\ UNCHANGED <<syncFrame, jobKey, announced>>

\* ... the cancel key of a finalized job goes, whoever set it ...
ClearKey(p) ==
    /\ proc[p].pc = "clear"
    /\ jobKey' = FALSE
    /\ Goto(p, IF proc[p].final = "FAILED" THEN [pc |-> "notify"] ELSE Idle)
    /\ UNCHANGED <<syncFrame, pushed, announced>>

\* ... and _notify_final reads which tasks failed ...
NotifyRead(p) ==
    /\ proc[p].pc = "notify"
    /\ Goto(p, IF ~ Exists THEN Idle
               ELSE [pc |-> "announce",
                     left |-> {[event |-> "WORKFLOW_FAILED", scope |-> NoExec]} \cup
                                {[event |-> "JOB_FAILED", scope |-> jobTask[t].exec] :
                                   t \in TasksIn(jobTask, {"FAILED"})}])
    /\ UNCHANGED <<execVars, jobVars, crashes>>

\* Mutant: one notification per event, whatever its scope.
AnnounceOnce(p) ==
    /\ proc[p].pc = "announce"
    /\ \E k \in proc[p].left :
         /\ announced' = IF Exists /\ k.event \notin {a.event : a \in announced}
                            THEN announced \cup {k} ELSE announced
         /\ Goto(p, IF proc[p].left = {k} THEN Idle
                    ELSE [proc[p] EXCEPT !.left = @ \ {k}])
    /\ UNCHANGED <<syncFrame, pushed, jobKey>>

\* ... and creates their notifications, each in its own transaction, as long as the
\* job is still there. A key that exists already creates none.
Announce(p) ==
    /\ proc[p].pc = "announce"
    /\ \E k \in proc[p].left :
         /\ announced' = IF Exists THEN announced \cup {k} ELSE announced
         /\ Goto(p, IF proc[p].left = {k} THEN Idle
                    ELSE [proc[p] EXCEPT !.left = @ \ {k}])
    /\ UNCHANGED <<syncFrame, pushed, jobKey>>

SyncProceeds(p) ==
    \/ SyncCancelling(p) \/ SyncAdvance(p)
    \/ Push(p) \/ ClearKey(p) \/ NotifyRead(p) \/ Announce(p)

-----------------------------------------------------------------------------
(* The API handlers. *)

apiFrame == <<edges, announced, execVars, crashes>>

\* POST /cancel: a job that is not over gets the key, then a sync.
CancelRead(c) ==
    /\ "cancel" \in JobOps
    /\ proc[c] = Idle
    /\ Exists /\ job \notin JobTerminal
    /\ Goto(c, [pc |-> "cancel"])
    /\ UNCHANGED <<apiFrame, job, jobTask, jobKey>>

CancelSet(c) ==
    /\ proc[c].pc = "cancel"
    /\ jobKey' = TRUE
    /\ Goto(c, [pc |-> "sync"])
    /\ UNCHANGED <<apiFrame, job, jobTask>>

\* POST /retry: reset_for_retry reads the job and its tasks, without a lock ...
RetryRead(c) ==
    /\ "retry" \in JobOps
    /\ proc[c] = Idle
    /\ job \in {"FAILED", "CANCELLED"}
    /\ \A t \in TasksIn(jobTask, Retryable) : Cardinality(Launched(t)) < MaxRuns
    /\ Goto(c, [pc |-> "reset", seen |-> jobTask])
    /\ UNCHANGED <<apiFrame, job, jobTask, jobKey>>

\* The columns of a task that the UPDATE of reset_for_retry changes: those that
\* differ from what was read.
Rearmed(t, seen) ==
    IF seen.status \notin Retryable THEN jobTask[t]
    ELSE [status |-> "PENDING",
          exec |-> IF seen.exec = NoExec THEN jobTask[t].exec ELSE NoExec]

\* ... writes what it read, once nobody holds the job's row ...
RetryReset(c) ==
    /\ proc[c].pc = "reset"
    /\ ~ Locked
    /\ LET seen == proc[c].seen IN
         \/ /\ Exists
            /\ \A t \in TasksIn(seen, Retryable) : Cardinality(Launched(t)) < MaxRuns
            /\ jobTask' = [t \in Tasks |-> Rearmed(t, seen[t])]
            /\ job' = "RUNNING"
            /\ Goto(c, [pc |-> "uncancel"])
         \/ ~ Exists /\ Goto(c, Idle) /\ UNCHANGED <<job, jobTask>>
    /\ UNCHANGED <<apiFrame, jobKey>>

\* ... and drops the cancel key before its own sync.
RetryUncancel(c) ==
    /\ proc[c].pc = "uncancel"
    /\ jobKey' = FALSE
    /\ Goto(c, [pc |-> "sync"])
    /\ UNCHANGED <<apiFrame, job, jobTask>>

\* DELETE: the job must be over; its executions stay.
DeleteRead(c) ==
    /\ "delete" \in JobOps
    /\ proc[c] = Idle
    /\ job \in JobTerminal
    /\ Goto(c, [pc |-> "delete"])
    /\ UNCHANGED <<apiFrame, job, jobTask, jobKey>>

DeleteCommit(c) ==
    /\ proc[c].pc = "delete"
    /\ ~ Locked
    /\ job' = IF Exists THEN "DELETED" ELSE job
    /\ jobKey' = FALSE
    /\ Goto(c, Idle)
    /\ UNCHANGED <<apiFrame, jobTask>>

RequestArrives(c) == StartJob(c) \/ CancelRead(c) \/ RetryRead(c) \/ DeleteRead(c)

RequestProceeds(c) ==
    \/ CancelSet(c) \/ RetryReset(c) \/ RetryUncancel(c) \/ DeleteCommit(c)
    \/ SyncLock(c) \/ SyncSkipped(c)

-----------------------------------------------------------------------------
(* The world outside: executions, the TTL of the key, processes that die. *)

Life(x) == INSTANCE ExecutionLifecycle
             WITH status <- exec[x].status, attempt <- exec[x].attempt

\* An execution moves by its lifecycle: it starts after its message is pushed; its
\* signal cancels it when it runs, POST /executions/{id}/cancel at any time. A
\* TIMEOUT is left out: whoever reads it here takes it for a FAILED. The signal of
\* an execution that is over means nothing.
ExecutionMoves(x) ==
    /\ exec[x] # Absent
    /\ \E r \in ExecRow :
         /\ exec' = [exec EXCEPT ![x] = r]
         /\ r.status # "TIMEOUT"
         /\ signalled' = IF r.status \in TerminalStatuses THEN signalled \ {x} ELSE signalled
         /\ Life(x)!Moved \/ Life(x)!Requeued
         /\ r.status = "RUNNING" => x \in pushed
         /\ r.status = "CANCELLED" =>
              \/ exec[x].status = "RUNNING" /\ x \in signalled
              \/ "cancel_execution" \in JobOps
    /\ UNCHANGED <<pushed, jobVars, proc, crashes>>

\* An attempt that waits or runs goes on.
ExecutionGoesOn(x) == exec[x].status \in {"QUEUED", "RUNNING"} /\ ExecutionMoves(x)

\* The TTL of an hour: it outlives the cancel of a job, not a forgotten key.
KeyExpires ==
    /\ jobKey
    /\ job # "RUNNING"
    /\ jobKey' = FALSE
    /\ UNCHANGED <<apiFrame, job, jobTask, proc>>

\* A process dies between two steps; an open transaction rolls back.
Crash(p) ==
    /\ crashes < MaxCrashes
    /\ proc[p] # Idle
    /\ crashes' = crashes + 1
    /\ Goto(p, Idle)
    /\ UNCHANGED <<execVars, jobVars>>

-----------------------------------------------------------------------------

Next ==
    \/ SaveGraph
    \/ \E p \in Procs : SyncProceeds(p) \/ Crash(p)
    \/ \E l \in Loops : SyncLock(l)
    \/ \E c \in Clients : RequestArrives(c) \/ RequestProceeds(c)
    \/ \E x \in Executions : ExecutionMoves(x)
    \/ KeyExpires

Spec == Init /\ [][Next]_vars

(***************************************************************************)
(* The job loop of a worker polls the running jobs every two seconds, and  *)
(* an operation in progress goes on (weak fairness); so does an attempt    *)
(* that waits or runs, which is what run settles shows of the pipeline.    *)
(* Nothing obliges a failed execution to be retried or a request to come.  *)
(***************************************************************************)
FairSpec ==
    /\ Spec
    /\ \A p \in Procs : WF_vars(SyncProceeds(p))
    /\ \A l \in Loops : WF_vars(SyncLock(l))
    /\ \A c \in Clients : WF_vars(RequestProceeds(c))
    /\ \A x \in Executions : WF_vars(ExecutionGoesOn(x))
=============================================================================
