------------------------------- MODULE JobProofs -------------------------------
(***************************************************************************)
(* Theorems about a job, for any graph and any number of tasks, job loops, *)
(* requests, runs and crashes.                                             *)
(***************************************************************************)
EXTENDS JobProperties, FiniteSetTheorems, WellFoundedInduction, TLAPS

-----------------------------------------------------------------------------
(* The inductive invariant. *)

\* The executions of a task are numbered without gaps.
Numbered == \A t \in Tasks : \A x \in Launched(t) : x[2] <= Cardinality(Launched(t))

\* A task that waits has an execution to spare.
PendingRoom ==
    \A t \in TasksIn(jobTask, {"PENDING"}) : Cardinality(Launched(t)) < MaxRuns

\* One process holds the job's row, and nobody else writes what it read.
LockHeld ==
    \A p \in Procs : proc[p].pc = "locked" =>
      /\ job = "RUNNING"
      /\ proc[p].seen = jobTask
      /\ \A q \in Procs : proc[q].pc = "locked" => q = p

\* Before the start nothing has been launched.
NotStarted ==
    job = "NONE" =>
      /\ \A x \in Executions : exec[x] = Absent
      /\ TasksIn(jobTask, {"PENDING"}) = Tasks

\* A task that succeeded has an execution that did; it refers to its own executions.
SuccessHeld ==
    \A t \in Tasks :
      /\ jobTask[t].exec \in Launched(t) \cup {NoExec}
      /\ jobTask[t].status = "SUCCESS" =>
           \E x \in Launched(t) : exec[x].status = "SUCCESS"

JobInv ==
    /\ JobTypeOK
    /\ Numbered
    /\ PendingRoom
    /\ LockHeld
    /\ NotStarted
    /\ SuccessHeld
    /\ DependenciesRespected

\* What a single client adds, when an execution that failed stays failed.
OneClient == \A c, d \in Clients : c = d

\* The only execution of a task that waits or runs is the one the task refers to,
\* and the task has not ended either.
UnfinishedHeld ==
    \A t \in Tasks : \A x \in Launched(t) : Unfinished(x) =>
      jobTask[t].exec = x /\ jobTask[t].status \in {"QUEUED", "RUNNING"}

\* When a job is over so are its tasks.
TasksOver == job \in JobTerminal => TasksIn(jobTask, TaskTerminal) = Tasks

\* What a retry has read is still so when it writes.
ResetCurrent ==
    \A c \in Clients : proc[c].pc = "reset" /\ Exists =>
      job \in {"FAILED", "CANCELLED"} /\ proc[c].seen = jobTask

SettledInv ==
    /\ UnfinishedHeld
    /\ TasksOver
    /\ ResetCurrent

-----------------------------------------------------------------------------
(* Shapes of the records. *)

\* What the phase of a process says about its other fields.
LEMMA ProcFields ==
    ASSUME NEW s \in Proc
    PROVE  /\ s.pc \in {"reset", "locked"} => s.seen \in [Tasks -> JobTask]
           /\ s.pc = "locked" => s.cancelling \in BOOLEAN
           /\ s.pc = "push" => /\ s.left \subseteq Executions
                               /\ s.final \in JobTerminal \cup {"NONE"}
           /\ s.pc = "clear" => s.final \in JobTerminal
           /\ s.pc = "announce" => /\ s.left \subseteq Key
                                   /\ s = [pc |-> "announce", left |-> s.left]
  BY DEF Proc, Idle

\* A process may be moved to any of these states.
LEMMA ProcStates ==
    /\ Idle \in Proc
    /\ \A pc \in {"cancel", "uncancel", "sync", "delete", "notify"} : [pc |-> pc] \in Proc
    /\ \A f \in [Tasks -> JobTask] :
         /\ [pc |-> "reset", seen |-> f] \in Proc
         /\ \A b \in BOOLEAN : [pc |-> "locked", cancelling |-> b, seen |-> f] \in Proc
    /\ \A f \in JobTerminal : [pc |-> "clear", final |-> f] \in Proc
    /\ \A ids \in SUBSET Executions : \A f \in JobTerminal \cup {"NONE"} :
         [pc |-> "push", left |-> ids, final |-> f] \in Proc
    /\ \A keys \in SUBSET Key : [pc |-> "announce", left |-> keys] \in Proc
  BY DEF Proc

\* What is left to do after a commit is never done under the lock.
LEMMA AfterStates ==
    ASSUME NEW ids \in SUBSET Executions, NEW final \in JobTerminal \cup {"NONE"}
    PROVE  /\ After(ids, final) \in Proc
           /\ After(ids, final).pc \in {"idle", "push", "clear"}
  BY ProcStates DEF After, Idle

LEMMA ExecFields ==
    ASSUME NEW r \in ExecRow, r # Absent
    PROVE  r \in [status : Statuses, attempt : 1..MaxAttempt]
  BY DEF ExecRow

-----------------------------------------------------------------------------
(* Executions: what is launched, and how an execution is created. *)

\* A task has finitely many executions, at most as many as runs.
LEMMA LaunchedFinite ==
    ASSUME NEW t \in Tasks
    PROVE  IsFiniteSet(Launched(t)) /\ Cardinality(Launched(t)) \in Nat
  <1>1. IsFiniteSet(Executions)
    <2>1. 1 \in Int /\ MaxRuns \in Int
      BY JobAssumption
    <2>2. IsFiniteSet(1..MaxRuns)
      BY <2>1, FS_Interval
    <2>3. IsFiniteSet(Tasks \X (1..MaxRuns))
      BY <2>2, TasksAssumption, FS_Product
    <2> QED
      BY <2>3, JobAssumption
  <1>2. Launched(t) \subseteq Executions
    BY DEF Launched
  <1> QED
    BY <1>1, <1>2, FS_Subset, FS_CardinalityType

\* The next execution of a task that has runs left is a new one, of that task.
LEMMA FreshIsNew ==
    ASSUME Numbered, NEW t \in Tasks, Cardinality(Launched(t)) < MaxRuns
    PROVE  /\ Fresh(t) \in Executions
           /\ Fresh(t)[1] = t
           /\ Fresh(t) \notin Launched(t)
  <1>1. Cardinality(Launched(t)) + 1 \in 1..MaxRuns
    BY LaunchedFinite, JobAssumption
  <1>2. Fresh(t) \in Executions /\ Fresh(t)[1] = t
        /\ Fresh(t)[2] = Cardinality(Launched(t)) + 1
    BY <1>1, JobAssumption DEF Fresh
  <1> QED
    BY <1>2, LaunchedFinite DEF Numbered

\* Creating the next execution of each task of a set.
LEMMA Creation ==
    ASSUME Numbered, exec \in [Executions -> ExecRow],
           NEW L \in SUBSET Tasks,
           \A t \in L : Cardinality(Launched(t)) < MaxRuns,
           CreateExecutions({Fresh(t) : t \in L})
    PROVE  /\ exec' \in [Executions -> ExecRow]
           /\ {Fresh(t) : t \in L} \subseteq Executions
           /\ \A t \in Tasks : \A x \in Launched(t) : exec'[x] = exec[x]
           /\ \A t \in L : Launched(t)' = Launched(t) \cup {Fresh(t)}
           /\ \A t \in L : exec'[Fresh(t)] = [status |-> "QUEUED", attempt |-> 1]
           /\ \A t \in Tasks \ L : Launched(t)' = Launched(t)
           /\ Numbered'
  <1> DEFINE ids == {Fresh(t) : t \in L}
             row == [status |-> "QUEUED", attempt |-> 1]
  <1>1. ids \subseteq Executions
    BY FreshIsNew
  <1>2. row \in ExecRow /\ row # Absent
    BY RetryPolicyAssumption DEF ExecRow, Statuses, Absent
  <1>3. exec' \in [Executions -> ExecRow]
    BY <1>2 DEF CreateExecutions
  <1>4. \A x \in Executions : exec'[x] = IF x \in ids THEN row ELSE exec[x]
    BY DEF CreateExecutions
  <1>5. \A t \in Tasks : \A x \in Launched(t) : x \notin ids
    BY FreshIsNew DEF Launched
  <1>6. \A t \in Tasks : \A x \in Launched(t) : exec'[x] = exec[x]
    BY <1>4, <1>5 DEF Launched
  <1>7. \A t \in L : exec'[Fresh(t)] = row
    BY <1>1, <1>4
  <1>8. \A t \in Tasks : Launched(t)' = Launched(t) \cup {x \in ids : x[1] = t}
    BY <1>1, <1>2, <1>4 DEF Launched
  <1>9. \A t \in L : {x \in ids : x[1] = t} = {Fresh(t)}
    BY FreshIsNew
  <1>10. \A t \in Tasks \ L : {x \in ids : x[1] = t} = {}
    BY FreshIsNew
  <1>11. \A t \in Tasks : Launched(t)' = IF t \in L THEN Launched(t) \cup {Fresh(t)}
                                         ELSE Launched(t)
    BY <1>8, <1>9, <1>10
  <1>12. Numbered'
    <2> SUFFICES ASSUME NEW t \in Tasks, NEW x \in Launched(t)'
                 PROVE  x[2] <= Cardinality(Launched(t)')
      BY DEF Numbered
    <2>1. CASE t \notin L
      BY <2>1, <1>11 DEF Numbered
    <2>2. CASE t \in L
      <3>1. Fresh(t)[2] = Cardinality(Launched(t)) + 1
        BY DEF Fresh
      <3>2. Cardinality(Launched(t)') = Cardinality(Launched(t)) + 1
        BY <2>2, <1>11, LaunchedFinite, FreshIsNew, FS_AddElement
      <3>3. x \in Launched(t) => x[2] <= Cardinality(Launched(t)) /\ x[2] \in Nat
        BY JobAssumption DEF Numbered, Launched
      <3> QED
        BY <2>2, <1>11, <3>1, <3>2, <3>3, LaunchedFinite
    <2> QED
      BY <2>1, <2>2
  <1> QED
    BY <1>1, <1>3, <1>6, <1>7, <1>11, <1>12

-----------------------------------------------------------------------------
(* Tasks: what a transaction of the orchestrator makes of them. *)

\* Step 1 of the sync changes the status of a task only, and only of one that has
\* been launched and whose execution has moved.
LEMMA SyncedTask ==
    ASSUME NEW task \in JobTask
    PROVE  /\ Synced(task) \in JobTask
           /\ Synced(task).exec = task.exec
           /\ Synced(task).status = "PENDING" <=> task.status = "PENDING"
           /\ Synced(task).status = "SUCCESS" =>
                \/ task.status = "SUCCESS"
                \/ task.exec # NoExec /\ exec[task.exec].status = "SUCCESS"
           /\ /\ task.status \in {"QUEUED", "RUNNING"}
              /\ exec[task.exec].status \in {"QUEUED", "RUNNING"}
              => Synced(task).status \in {"QUEUED", "RUNNING"}
  BY DEF Synced, JobTask, TaskStatuses, MapExecStatus

\* A job is finalized when all of its tasks are over.
LEMMA FinalStatuses ==
    ASSUME NEW tasks, NEW cancelling
    PROVE  /\ FinalStatus(tasks, cancelling) \in JobTerminal \cup {"NONE"}
           /\ FinalStatus(tasks, cancelling) # "NONE" => TasksIn(tasks, TaskTerminal) = Tasks
  BY DEF FinalStatus, JobTerminal

-----------------------------------------------------------------------------
(* Steps that keep the invariant, by what they write. *)

\* A step that moves a process, or nobody, and leaves tasks and executions alone.
LEMMA QuietStep ==
    ASSUME JobInv, JobTypeOK', UNCHANGED <<edges, job, jobTask, exec>>,
           \/ UNCHANGED proc
           \/ \E p \in Procs : \E s \in Proc : Goto(p, s) /\ s.pc # "locked"
    PROVE  JobInv'
  <1> USE DEF JobInv
  <1>1. \A t \in Tasks : Launched(t)' = Launched(t)
    BY DEF Launched
  <1>2. \A q \in Procs : proc'[q].pc = "locked" => proc'[q] = proc[q]
    BY DEF Goto, JobTypeOK
  <1>3. LockHeld'
    BY <1>2 DEF LockHeld
  <1>4. Numbered' /\ PendingRoom' /\ NotStarted' /\ SuccessHeld' /\ DependenciesRespected'
    BY <1>1 DEF Numbered, PendingRoom, NotStarted, SuccessHeld, DependenciesRespected,
                TasksIn, Launched
  <1> QED
    BY <1>3, <1>4

\* The commit of a transaction that creates an execution for each task of L.
LEMMA CommitStep ==
    ASSUME JobInv,
           NEW p \in Procs, NEW s \in Proc, Goto(p, s), s.pc # "locked",
           \A q \in Procs : proc[q].pc = "locked" => q = p,
           job' \in JobStatuses,
           jobTask' \in [Tasks -> JobTask],
           signalled' \subseteq Executions,
           UNCHANGED <<edges, jobKey, announced, pushed, crashes>>,
           NEW L \in SUBSET Tasks,
           CreateExecutions({Fresh(t) : t \in L}),
           \A t \in L : jobTask[t].status = "PENDING",
           \A t \in L : jobTask'[t].status = "QUEUED" /\ jobTask'[t].exec = Fresh(t),
           \A t \in L : \A d \in Preds(edges, t) :
             \E x \in Launched(d) : exec[x].status = "SUCCESS",
           \A t \in Tasks \ L :
             /\ jobTask'[t].exec \in {jobTask[t].exec, NoExec}
             /\ jobTask'[t].status = "PENDING" => Cardinality(Launched(t)) < MaxRuns
             /\ jobTask'[t].status = "SUCCESS" =>
                  \/ jobTask[t].status = "SUCCESS"
                  \/ jobTask[t].exec # NoExec /\ exec[jobTask[t].exec].status = "SUCCESS"
    PROVE  JobInv'
  <1> USE DEF JobInv
  <1>1. \A t \in L : Cardinality(Launched(t)) < MaxRuns
    BY DEF PendingRoom, TasksIn
  <1>2. exec \in [Executions -> ExecRow]
    BY DEF JobTypeOK
  <1>3. /\ exec' \in [Executions -> ExecRow]
        /\ \A t \in Tasks : \A x \in Launched(t) : exec'[x] = exec[x]
        /\ \A t \in L : Launched(t)' = Launched(t) \cup {Fresh(t)}
        /\ \A t \in L : exec'[Fresh(t)] = [status |-> "QUEUED", attempt |-> 1]
        /\ \A t \in Tasks \ L : Launched(t)' = Launched(t)
        /\ Numbered'
    BY <1>1, <1>2, Creation
  <1>4. JobTypeOK'
    BY <1>3 DEF JobTypeOK, Goto
  <1>5. PendingRoom'
    <2> SUFFICES ASSUME NEW t \in Tasks, jobTask'[t].status = "PENDING"
                 PROVE  Cardinality(Launched(t)') < MaxRuns
      BY DEF PendingRoom, TasksIn
    <2>1. t \notin L
      OBVIOUS
    <2> QED
      BY <2>1, <1>3 DEF PendingRoom, TasksIn
  <1>6. LockHeld'
    BY DEF LockHeld, Goto, JobTypeOK
  <1>7. NotStarted'
    BY DEF NotStarted, JobStatuses
  <1>8. \A t \in Tasks : (\E x \in Launched(t) : exec[x].status = "SUCCESS") =>
                           (\E x \in Launched(t)' : exec'[x].status = "SUCCESS")
    BY <1>3
  <1>9. SuccessHeld'
    <2> SUFFICES ASSUME NEW t \in Tasks
                 PROVE  /\ jobTask'[t].exec \in Launched(t)' \cup {NoExec}
                        /\ jobTask'[t].status = "SUCCESS" =>
                             \E x \in Launched(t)' : exec'[x].status = "SUCCESS"
      BY DEF SuccessHeld
    <2>1. CASE t \in L
      BY <2>1, <1>3
    <2>2. CASE t \notin L
      <3>1. jobTask[t].exec \in Launched(t) \cup {NoExec}
        BY DEF SuccessHeld
      <3>2. jobTask'[t].status = "SUCCESS" =>
              \E x \in Launched(t) : exec[x].status = "SUCCESS"
        BY <2>2, <3>1 DEF SuccessHeld
      <3> QED
        BY <2>2, <1>3, <1>8, <3>1, <3>2
    <2> QED
      BY <2>1, <2>2
  <1>10. DependenciesRespected'
    <2> SUFFICES ASSUME NEW t \in Tasks, Launched(t)' # {}, NEW d \in Preds(edges, t)
                 PROVE  \E x \in Launched(d)' : exec'[x].status = "SUCCESS"
      BY DEF DependenciesRespected
    <2>1. d \in Tasks
      BY DEF Preds
    <2>2. \E x \in Launched(d) : exec[x].status = "SUCCESS"
      BY <1>3 DEF DependenciesRespected
    <2> QED
      BY <2>1, <2>2, <1>8
  <1> QED
    BY <1>3, <1>4, <1>5, <1>6, <1>7, <1>9, <1>10

\* What such a commit leaves of a running job: a task whose execution has not ended
\* keeps it, and a job that is finalized has no task that is not over.
Settles(p, s, L) ==
    /\ Goto(p, s) /\ s.pc \notin {"reset", "locked"}
    /\ job \in {"NONE", "RUNNING"}
    /\ CreateExecutions({Fresh(t) : t \in L})
    /\ \A t \in L : jobTask[t].status = "PENDING"
    /\ \A t \in L : jobTask'[t].status = "QUEUED" /\ jobTask'[t].exec = Fresh(t)
    /\ \A t \in Tasks \ L :
         /\ jobTask[t].status \in {"QUEUED", "RUNNING"}
         /\ exec[jobTask[t].exec].status \in {"QUEUED", "RUNNING"}
         => /\ jobTask'[t].status \in {"QUEUED", "RUNNING"}
            /\ jobTask'[t].exec = jobTask[t].exec
    /\ job' \in JobTerminal => TasksIn(jobTask', TaskTerminal) = Tasks

\* A commit that creates no execution.
LEMMA NoCreation ==
    ASSUME exec \in [Executions -> ExecRow]
    PROVE  /\ {Fresh(t) : t \in {}} = {}
           /\ CreateExecutions({}) <=> UNCHANGED exec
  BY DEF CreateExecutions

-----------------------------------------------------------------------------
(* The steps. *)

LEMMA JobInit == Init => JobInv
  <1> SUFFICES ASSUME Init PROVE JobInv
    OBVIOUS
  <1> USE DEF Init
  <1>1. JobTypeOK
    <2>1. edges \in Graphs
      BY DEF Graphs
    <2>2. jobTask \in [Tasks -> JobTask]
      BY DEF JobTask, TaskStatuses
    <2>3. exec \in [Executions -> ExecRow]
      BY DEF ExecRow
    <2>4. proc \in [Procs -> Proc] /\ crashes \in 0..MaxCrashes
      BY ProcStates, JobAssumption
    <2> QED
      BY <2>1, <2>2, <2>3, <2>4 DEF JobTypeOK
  <1>2. \A t \in Tasks : Launched(t) = {}
    BY DEF Launched
  <1>3. \A t \in Tasks : Cardinality(Launched(t)) = 0
    BY <1>2, FS_EmptySet
  <1>4. Numbered /\ PendingRoom /\ LockHeld /\ NotStarted
    BY <1>2, <1>3, JobAssumption DEF Numbered, PendingRoom, LockHeld, NotStarted, TasksIn, Idle
  <1>5. SuccessHeld /\ DependenciesRespected
    BY <1>2 DEF SuccessHeld, DependenciesRespected
  <1> QED
    BY <1>1, <1>4, <1>5 DEF JobInv

LEMMA SaveGraphStep ==
    ASSUME JobInv, SaveGraph
    PROVE  JobInv'
  <1> USE DEF JobInv, SaveGraph, execVars
  <1>1. JobTypeOK'
    BY DEF JobTypeOK
  <1>2. \A t \in Tasks : Launched(t)' = {}
    BY DEF NotStarted, Launched
  <1>3. Numbered' /\ DependenciesRespected'
    BY <1>2 DEF Numbered, DependenciesRespected
  <1>4. PendingRoom' /\ LockHeld' /\ NotStarted' /\ SuccessHeld'
    BY DEF PendingRoom, LockHeld, NotStarted, SuccessHeld, TasksIn, Launched
  <1> QED
    BY <1>1, <1>3, <1>4

LEMMA StartJobStep ==
    ASSUME JobInv, NEW c \in Clients, StartJob(c)
    PROVE  /\ JobInv'
           /\ \E L \in SUBSET Tasks : \E s \in Proc : Settles(c, s, L)
  <1> USE DEF JobInv
  <1> DEFINE ready == {t \in Tasks : Preds(edges, t) = {}}
  <1>1. PICK unreadable \in SUBSET ready :
          /\ jobTask' = Launch(jobTask, ready, unreadable)
          /\ CreateExecutions({Fresh(t) : t \in ready \ unreadable})
          /\ Goto(c, After({Fresh(t) : t \in ready \ unreadable}, "NONE"))
    BY DEF StartJob
  <1> DEFINE L == ready \ unreadable
             ids == {Fresh(t) : t \in L}
  <1>2. L \in SUBSET Tasks
    OBVIOUS
  <1>3. \A t \in Tasks : jobTask[t].status = "PENDING" /\ jobTask[t] \in JobTask
    BY DEF StartJob, NotStarted, TasksIn, JobTypeOK
  <1>4. \A t \in Tasks : Cardinality(Launched(t)) < MaxRuns
    BY <1>3 DEF PendingRoom, TasksIn
  <1>5. ids \in SUBSET Executions
    BY <1>4, FreshIsNew
  <1>6. After(ids, "NONE") \in Proc /\ After(ids, "NONE").pc \notin {"locked", "reset"}
    BY <1>5, AfterStates
  <1>7. \A t \in Tasks : Fresh(t) \in Executions
    BY <1>4, FreshIsNew
  <1>8. jobTask' \in [Tasks -> JobTask]
    BY <1>1, <1>3, <1>7 DEF Launch, JobTask, TaskStatuses
  <1>9. \A t \in L : jobTask'[t].status = "QUEUED" /\ jobTask'[t].exec = Fresh(t)
    BY <1>1 DEF Launch
  <1>10. \A t \in Tasks \ L : jobTask'[t].exec = jobTask[t].exec
                              /\ jobTask'[t].status \in {"PENDING", "FAILED"}
    BY <1>1, <1>3 DEF Launch, JobTask
  <1>11. job' \in JobStatuses /\ UNCHANGED <<edges, jobKey, announced, pushed, signalled, crashes>>
    BY DEF StartJob, jobFrame, JobStatuses
  <1>12. \A q \in Procs : proc[q].pc # "locked"
    BY DEF StartJob, LockHeld
  <1>13. \A t \in L : Preds(edges, t) = {}
    OBVIOUS
  <1>14. c \in Procs /\ signalled' \subseteq Executions
    BY <1>11 DEF Procs, JobTypeOK
  <1>15. job' \in JobTerminal => TasksIn(jobTask', TaskTerminal) = Tasks
    BY DEF StartJob, JobTerminal, TasksIn
  <1>16. CreateExecutions(ids) /\ Goto(c, After(ids, "NONE"))
    BY <1>1
  <1> HIDE DEF L
  <1>17. JobInv'
    BY <1>2, <1>3, <1>4, <1>6, <1>8, <1>9, <1>10, <1>11, <1>12, <1>13, <1>14, <1>16, CommitStep
  <1>18. Settles(c, After(ids, "NONE"), L)
    BY <1>2, <1>3, <1>6, <1>9, <1>15, <1>16 DEF Settles, StartJob
  <1> QED
    BY <1>2, <1>6, <1>17, <1>18

LEMMA SyncLockStep ==
    ASSUME JobInv, NEW p \in Procs, SyncLock(p)
    PROVE  JobInv'
  <1> USE DEF JobInv
  <1> DEFINE s == [pc |-> "locked", cancelling |-> jobKey, seen |-> jobTask]
  <1>1. /\ Goto(p, s)
        /\ UNCHANGED <<exec, pushed, signalled, edges, job, jobTask, jobKey, announced, crashes>>
    BY DEF SyncLock, execVars, jobVars
  <1>2. s \in Proc
    BY ProcStates DEF JobTypeOK
  <1>3. JobTypeOK'
    BY <1>1, <1>2 DEF JobTypeOK, Goto
  <1>4. job = "RUNNING" /\ \A q \in Procs : proc[q].pc # "locked"
    BY DEF SyncLock, Locked
  <1>5. LockHeld'
    BY <1>1, <1>4 DEF LockHeld, Goto, JobTypeOK
  <1>6. \A t \in Tasks : Launched(t)' = Launched(t)
    BY <1>1 DEF Launched
  <1>7. Numbered' /\ PendingRoom' /\ NotStarted' /\ SuccessHeld' /\ DependenciesRespected'
    BY <1>1, <1>6 DEF Numbered, PendingRoom, NotStarted, SuccessHeld, DependenciesRespected,
                      TasksIn, Launched
  <1> QED
    BY <1>3, <1>5, <1>7

\* What the lock guarantees the process that holds it.
LEMMA UnderLock ==
    ASSUME JobInv, NEW p \in Procs, proc[p].pc = "locked"
    PROVE  /\ job = "RUNNING"
           /\ proc[p].seen = jobTask
           /\ jobTask \in [Tasks -> JobTask]
           /\ \A q \in Procs : proc[q].pc = "locked" => q = p
  BY DEF JobInv, LockHeld, JobTypeOK

LEMMA SyncCancellingStep ==
    ASSUME JobInv, NEW p \in Procs, SyncCancelling(p)
    PROVE  /\ JobInv'
           /\ \E L \in SUBSET Tasks : \E s \in Proc : Settles(p, s, L)
  <1> DEFINE tasks == Cancelled(jobTask)
             final == FinalStatus(tasks, TRUE)
             s == After({}, final)
  <1>1. proc[p].pc = "locked"
    BY DEF SyncCancelling
  <1>2. /\ jobTask' = tasks
        /\ CreateExecutions({})
        /\ job' = IF final = "NONE" THEN job ELSE final
        /\ Goto(p, s)
        /\ signalled' = signalled \cup
             ({tasks[t].exec : t \in TasksIn(tasks, {"QUEUED", "RUNNING"})} \ {NoExec})
        /\ UNCHANGED <<edges, jobKey, announced, pushed, crashes>>
    BY <1>1, UnderLock DEF SyncCancelling, CommitSync
  <1>3. \A t \in Tasks :
          tasks[t] = IF jobTask[t].status = "PENDING"
                       THEN [jobTask[t] EXCEPT !.status = "CANCELLED"] ELSE Synced(jobTask[t])
    BY DEF Cancelled
  <1>4. \A t \in Tasks : jobTask[t] \in JobTask
    BY <1>1, UnderLock
  <1>5. \A t \in Tasks :
          /\ tasks[t] \in JobTask
          /\ tasks[t].exec = jobTask[t].exec
          /\ tasks[t].status # "PENDING"
          /\ tasks[t].status = "SUCCESS" =>
               \/ jobTask[t].status = "SUCCESS"
               \/ jobTask[t].exec # NoExec /\ exec[jobTask[t].exec].status = "SUCCESS"
          /\ /\ jobTask[t].status \in {"QUEUED", "RUNNING"}
             /\ exec[jobTask[t].exec].status \in {"QUEUED", "RUNNING"}
             => tasks[t].status \in {"QUEUED", "RUNNING"}
    <2> SUFFICES ASSUME NEW t \in Tasks
                 PROVE  /\ tasks[t] \in JobTask
                        /\ tasks[t].exec = jobTask[t].exec
                        /\ tasks[t].status # "PENDING"
                        /\ tasks[t].status = "SUCCESS" =>
                             \/ jobTask[t].status = "SUCCESS"
                             \/ /\ jobTask[t].exec # NoExec
                                /\ exec[jobTask[t].exec].status = "SUCCESS"
                        /\ /\ jobTask[t].status \in {"QUEUED", "RUNNING"}
                           /\ exec[jobTask[t].exec].status \in {"QUEUED", "RUNNING"}
                           => tasks[t].status \in {"QUEUED", "RUNNING"}
      OBVIOUS
    <2>1. CASE jobTask[t].status = "PENDING"
      BY <2>1, <1>3, <1>4 DEF JobTask, TaskStatuses
    <2>2. CASE jobTask[t].status # "PENDING"
      <3> HIDE DEF tasks
      <3>1. tasks[t] = Synced(jobTask[t])
        BY <2>2, <1>3
      <3>2. jobTask[t] \in JobTask
        BY <1>4
      <3> QED
        BY <2>2, <3>1, <3>2, SyncedTask
    <2> QED
      BY <2>1, <2>2
  <1>6. tasks \in [Tasks -> JobTask]
    BY <1>5 DEF Cancelled
  <1> HIDE DEF tasks
  <1>7. /\ final \in JobTerminal \cup {"NONE"}
        /\ final # "NONE" => TasksIn(tasks, TaskTerminal) = Tasks
    BY FinalStatuses
  <1>8. s \in Proc /\ s.pc \notin {"locked", "reset"}
    BY <1>7, AfterStates
  <1>9. job' \in JobStatuses
    BY <1>1, <1>2, <1>7, UnderLock DEF JobStatuses, JobTerminal
  <1>10. signalled' \subseteq Executions
    BY <1>2, <1>5 DEF JobInv, JobTypeOK, TasksIn, JobTask
  <1>11. exec \in [Executions -> ExecRow]
    BY DEF JobInv, JobTypeOK
  <1>12. {Fresh(t) : t \in {}} = {}
    BY <1>11, NoCreation
  <1>13. job' \in JobTerminal => TasksIn(jobTask', TaskTerminal) = Tasks
    BY <1>1, <1>2, <1>7, UnderLock DEF JobTerminal
  <1> HIDE DEF s, final
  <1>14. JobInv'
    BY <1>1, <1>2, <1>5, <1>6, <1>8, <1>9, <1>10, <1>12, UnderLock, CommitStep
  <1>15. Settles(p, s, {})
    BY <1>1, <1>2, <1>5, <1>8, <1>12, <1>13, UnderLock DEF Settles
  <1> QED
    BY <1>8, <1>14, <1>15

LEMMA SyncAdvanceStep ==
    ASSUME JobInv, NEW p \in Procs, SyncAdvance(p)
    PROVE  /\ JobInv'
           /\ \E L \in SUBSET Tasks : \E s \in Proc : Settles(p, s, L)
  <1> DEFINE synced == [t \in Tasks |-> Synced(jobTask[t])]
             skipped == Downstream(edges, TasksIn(synced, Blocking), TasksIn(synced, {"PENDING"}))
             ready == Ready(synced, skipped)
             kept == [t \in Tasks |-> IF t \in skipped
                                        THEN [synced[t] EXCEPT !.status = "SKIPPED"]
                                        ELSE synced[t]]
  <1>1. proc[p].pc = "locked"
    BY DEF SyncAdvance
  <1>2. PICK unreadable \in SUBSET ready :
          CommitSync(p, Launch(kept, ready, unreadable), {Fresh(t) : t \in ready \ unreadable},
                     FinalStatus(Launch(kept, ready, unreadable), FALSE))
    <2>1. PICK next \in Advances(jobTask) :
            CommitSync(p, next.tasks, next.ids, FinalStatus(next.tasks, FALSE))
      BY <1>1, UnderLock DEF SyncAdvance
    <2>2. Advances(jobTask) =
            {[tasks |-> Launch(kept, ready, unreadable),
              ids |-> {Fresh(t) : t \in ready \ unreadable}] : unreadable \in SUBSET ready}
      BY Zenon DEF Advances
    <2> HIDE DEF synced, skipped, ready, kept
    <2>3. PICK unreadable \in SUBSET ready :
            next = [tasks |-> Launch(kept, ready, unreadable),
                    ids |-> {Fresh(t) : t \in ready \ unreadable}]
      BY <2>2
    <2> QED
      BY <2>1, <2>3
  <1> DEFINE L == ready \ unreadable
             ids == {Fresh(t) : t \in L}
             tasks == Launch(kept, ready, unreadable)
             final == FinalStatus(tasks, FALSE)
             s == After(ids, final)
  <1>3. /\ jobTask' = tasks
        /\ CreateExecutions(ids)
        /\ job' = IF final = "NONE" THEN job ELSE final
        /\ Goto(p, s)
        /\ UNCHANGED <<edges, jobKey, announced, pushed, signalled, crashes>>
    BY <1>2 DEF SyncAdvance, CommitSync, jobFrame
  <1>4. \A t \in Tasks : jobTask[t] \in JobTask
    BY <1>1, UnderLock
  <1>5. \A t \in Tasks : synced[t] = Synced(jobTask[t])
    OBVIOUS
  <1>6. \A t \in ready : t \in Tasks /\ synced[t].status = "PENDING" /\ t \notin skipped
    BY DEF Ready, TasksIn
  <1>7. \A t \in ready : \A d \in Preds(edges, t) : d \in Tasks /\ synced[d].status = "SUCCESS"
    BY DEF Ready, TasksIn
  <1> HIDE DEF synced, skipped, ready
  <1>8. \A t \in Tasks :
          /\ synced[t] \in JobTask
          /\ synced[t].exec = jobTask[t].exec
          /\ synced[t].status = "PENDING" <=> jobTask[t].status = "PENDING"
          /\ synced[t].status = "SUCCESS" =>
               \/ jobTask[t].status = "SUCCESS"
               \/ jobTask[t].exec # NoExec /\ exec[jobTask[t].exec].status = "SUCCESS"
    BY <1>4, <1>5, SyncedTask
  <1>9. \A t \in ready : jobTask[t].status = "PENDING"
    BY <1>6, <1>8
  <1>10. \A t \in ready : Cardinality(Launched(t)) < MaxRuns
    BY <1>6, <1>9 DEF JobInv, PendingRoom, TasksIn
  <1>11. \A t \in ready : Fresh(t) \in Executions
    BY <1>6, <1>10, FreshIsNew DEF JobInv
  <1>12. L \in SUBSET Tasks /\ ids \in SUBSET Executions
    BY <1>6, <1>11
  <1>13. \A t \in Tasks :
           kept[t] = IF t \in skipped THEN [synced[t] EXCEPT !.status = "SKIPPED"]
                     ELSE synced[t]
    OBVIOUS
  <1> HIDE DEF kept
  <1>14. \A t \in Tasks :
           /\ kept[t] \in JobTask
           /\ kept[t].exec = jobTask[t].exec
           /\ kept[t].status = "PENDING" => jobTask[t].status = "PENDING"
           /\ kept[t].status = "SUCCESS" =>
                \/ jobTask[t].status = "SUCCESS"
                \/ jobTask[t].exec # NoExec /\ exec[jobTask[t].exec].status = "SUCCESS"
    <2> SUFFICES ASSUME NEW t \in Tasks
                 PROVE  /\ kept[t] \in JobTask
                        /\ kept[t].exec = jobTask[t].exec
                        /\ kept[t].status = "PENDING" => jobTask[t].status = "PENDING"
                        /\ kept[t].status = "SUCCESS" =>
                             \/ jobTask[t].status = "SUCCESS"
                             \/ /\ jobTask[t].exec # NoExec
                                /\ exec[jobTask[t].exec].status = "SUCCESS"
      OBVIOUS
    <2>1. CASE t \in skipped
      <3>1. kept[t] = [synced[t] EXCEPT !.status = "SKIPPED"] /\ synced[t] \in JobTask
        BY <2>1, <1>8, <1>13
      <3>2. kept[t] \in JobTask /\ kept[t].exec = synced[t].exec /\ kept[t].status = "SKIPPED"
        BY <3>1 DEF JobTask, TaskStatuses
      <3> QED
        BY <3>2, <1>8
    <2>2. CASE t \notin skipped
      BY <2>2, <1>8, <1>13
    <2> QED
      BY <2>1, <2>2
  <1>15. \A t \in Tasks :
           tasks[t] = IF t \in unreadable THEN [kept[t] EXCEPT !.status = "FAILED"]
                      ELSE IF t \in L THEN [status |-> "QUEUED", exec |-> Fresh(t)]
                      ELSE kept[t]
    BY DEF Launch
  <1>16. tasks = [t \in Tasks |-> tasks[t]]
    BY DEF Launch
  <1>17. \A t \in L : t \notin unreadable /\ Fresh(t) \in Executions
    BY <1>11
  <1> HIDE DEF tasks, L
  <1>18. \A t \in Tasks : tasks[t] \in JobTask
    <2> SUFFICES ASSUME NEW t \in Tasks PROVE tasks[t] \in JobTask
      OBVIOUS
    <2>1. CASE t \in unreadable
      <3>1. tasks[t] = [kept[t] EXCEPT !.status = "FAILED"] /\ kept[t] \in JobTask
        BY <2>1, <1>14, <1>15
      <3>2. tasks[t] \in JobTask /\ tasks[t].exec = kept[t].exec /\ tasks[t].status = "FAILED"
        BY <3>1 DEF JobTask, TaskStatuses
      <3> QED
        BY <3>2, <1>14
    <2>2. CASE t \notin unreadable
      <3>1. CASE t \in L
        <4>1. tasks[t] = [status |-> "QUEUED", exec |-> Fresh(t)] /\ Fresh(t) \in Executions
          BY <2>2, <3>1, <1>15, <1>17
        <4> QED
          BY <4>1 DEF JobTask, TaskStatuses
      <3>2. CASE t \notin L
        BY <2>2, <3>2, <1>14, <1>15
      <3> QED
        BY <3>1, <3>2
    <2> QED
      BY <2>1, <2>2
  <1>19. \A t \in L : tasks[t].status = "QUEUED" /\ tasks[t].exec = Fresh(t)
    <2> SUFFICES ASSUME NEW t \in L
                 PROVE  tasks[t].status = "QUEUED" /\ tasks[t].exec = Fresh(t)
      OBVIOUS
    <2>1. tasks[t] = [status |-> "QUEUED", exec |-> Fresh(t)]
      BY <1>12, <1>15, <1>17
    <2> QED
      BY <2>1
  <1>20. \A t \in Tasks \ L :
           /\ tasks[t].exec = jobTask[t].exec
           /\ tasks[t].status = "PENDING" => jobTask[t].status = "PENDING"
           /\ tasks[t].status = "SUCCESS" =>
                \/ jobTask[t].status = "SUCCESS"
                \/ jobTask[t].exec # NoExec /\ exec[jobTask[t].exec].status = "SUCCESS"
    <2> SUFFICES ASSUME NEW t \in Tasks \ L
                 PROVE  /\ tasks[t].exec = jobTask[t].exec
                        /\ tasks[t].status = "PENDING" => jobTask[t].status = "PENDING"
                        /\ tasks[t].status = "SUCCESS" =>
                             \/ jobTask[t].status = "SUCCESS"
                             \/ /\ jobTask[t].exec # NoExec
                                /\ exec[jobTask[t].exec].status = "SUCCESS"
      OBVIOUS
    <2>1. CASE t \in unreadable
      <3>1. tasks[t] = [kept[t] EXCEPT !.status = "FAILED"] /\ kept[t] \in JobTask
        BY <2>1, <1>14, <1>15
      <3>2. tasks[t] \in JobTask /\ tasks[t].exec = kept[t].exec /\ tasks[t].status = "FAILED"
        BY <3>1 DEF JobTask, TaskStatuses
      <3> QED
        BY <3>2, <1>14
    <2>2. CASE t \notin unreadable
      BY <2>2, <1>14, <1>15
    <2> QED
      BY <2>1, <2>2
  <1>21. \A t \in Tasks \ L : tasks[t].status = "PENDING" => Cardinality(Launched(t)) < MaxRuns
    BY <1>20 DEF JobInv, PendingRoom, TasksIn
  <1>22. \A d \in Tasks : synced[d].status = "SUCCESS" =>
           \E x \in Launched(d) : exec[x].status = "SUCCESS"
    BY <1>8 DEF JobInv, SuccessHeld
  <1>23. \A t \in L : /\ jobTask[t].status = "PENDING"
                      /\ \A d \in Preds(edges, t) :
                           \E x \in Launched(d) : exec[x].status = "SUCCESS"
    BY <1>7, <1>9, <1>22 DEF L
  <1>24. /\ final \in JobTerminal \cup {"NONE"}
         /\ final # "NONE" => TasksIn(tasks, TaskTerminal) = Tasks
    BY FinalStatuses
  <1>25. s \in Proc /\ s.pc \notin {"locked", "reset"}
    BY <1>12, <1>24, AfterStates
  <1>26. job' \in JobStatuses
    BY <1>1, <1>3, <1>24, UnderLock DEF JobStatuses, JobTerminal
  <1>27. signalled' \subseteq Executions
    BY <1>3 DEF JobInv, JobTypeOK
  <1>28. jobTask' \in [Tasks -> JobTask]
    BY <1>3, <1>16, <1>18
  <1>29. \A q \in Procs : proc[q].pc = "locked" => q = p
    BY <1>1, UnderLock
  <1> HIDE DEF s, final
  <1>30. /\ \A t \in L : jobTask'[t].status = "QUEUED" /\ jobTask'[t].exec = Fresh(t)
         /\ \A t \in Tasks \ L :
              /\ jobTask'[t].exec \in {jobTask[t].exec, NoExec}
              /\ jobTask'[t].status = "PENDING" => Cardinality(Launched(t)) < MaxRuns
              /\ jobTask'[t].status = "SUCCESS" =>
                   \/ jobTask[t].status = "SUCCESS"
                   \/ jobTask[t].exec # NoExec /\ exec[jobTask[t].exec].status = "SUCCESS"
    BY <1>3, <1>19, <1>20, <1>21
  <1>31. JobInv'
    BY <1>3, <1>12, <1>23, <1>25, <1>26, <1>27, <1>28, <1>29, <1>30, CommitStep
  <1>32. ASSUME NEW t \in Tasks \ L,
                jobTask[t].status \in {"QUEUED", "RUNNING"},
                exec[jobTask[t].exec].status \in {"QUEUED", "RUNNING"}
         PROVE  tasks[t].status \in {"QUEUED", "RUNNING"} /\ tasks[t].exec = jobTask[t].exec
    <2>1. synced[t].status \in {"QUEUED", "RUNNING"}
      BY <1>4, <1>5, <1>32, SyncedTask
    <2>2. t \notin skipped
      BY <2>1 DEF skipped, Downstream, TasksIn
    <2>3. t \notin unreadable
      BY <2>1, <1>6
    <2>4. kept[t] = synced[t]
      BY <2>2, <1>13
    <2>5. tasks[t] = kept[t]
      BY <2>3, <1>15
    <2> QED
      BY <2>1, <2>4, <2>5, <1>8
  <1>33. job' \in JobTerminal => TasksIn(jobTask', TaskTerminal) = Tasks
    BY <1>1, <1>3, <1>24, UnderLock DEF JobTerminal
  <1>34. job = "RUNNING"
    BY <1>1, UnderLock
  <1>35. Settles(p, s, L)
    BY <1>3, <1>23, <1>25, <1>30, <1>32, <1>33, <1>34 DEF Settles
  <1> QED
    BY <1>12, <1>25, <1>31, <1>35

\* What follows a commit, and the requests that only move themselves.
LEMMA QuietProcStep ==
    ASSUME JobInv, NEW p \in Procs,
           \/ SyncSkipped(p) \/ Push(p) \/ ClearKey(p) \/ NotifyRead(p) \/ Announce(p)
           \/ CancelRead(p) \/ CancelSet(p) \/ RetryRead(p) \/ RetryUncancel(p)
           \/ DeleteRead(p) \/ Crash(p)
    PROVE  JobInv'
  <1> USE DEF execVars, jobVars, syncFrame, apiFrame
  <1>1. JobTypeOK
    BY DEF JobInv
  <1>2. proc[p] \in Proc
    BY <1>1 DEF JobTypeOK
  <1>3. UNCHANGED <<edges, job, jobTask, exec>>
    BY DEF SyncSkipped, Push, ClearKey, NotifyRead, Announce, CancelRead, CancelSet,
           RetryRead, RetryUncancel, DeleteRead, Crash
  <1>4. CASE SyncSkipped(p)
    <2>1. JobTypeOK'
      BY <1>1, <1>4, ProcStates DEF SyncSkipped, JobTypeOK, Goto
    <2> QED
      BY <1>3, <1>4, <2>1, ProcStates, QuietStep DEF SyncSkipped, Idle
  <1>5. CASE Push(p)
    <2>1. proc[p].left \subseteq Executions /\ proc[p].final \in JobTerminal \cup {"NONE"}
      BY <1>2, <1>5, ProcFields DEF Push
    <2>2. PICK x \in proc[p].left :
            pushed' = pushed \cup {x} /\ Goto(p, After(proc[p].left \ {x}, proc[p].final))
      BY <1>5 DEF Push
    <2> DEFINE s == After(proc[p].left \ {x}, proc[p].final)
    <2>3. s \in Proc /\ s.pc # "locked"
      BY <2>1, AfterStates
    <2> HIDE DEF s
    <2>4. JobTypeOK'
      BY <1>1, <1>5, <2>1, <2>2, <2>3 DEF Push, JobTypeOK, Goto, s
    <2> QED
      BY <1>3, <2>2, <2>3, <2>4, QuietStep DEF s
  <1>6. CASE ClearKey(p)
    <2> DEFINE s == IF proc[p].final = "FAILED" THEN [pc |-> "notify"] ELSE Idle
    <2>1. s \in Proc /\ s.pc # "locked"
      BY ProcStates DEF Idle
    <2>2. Goto(p, s)
      BY <1>6 DEF ClearKey
    <2> HIDE DEF s
    <2>3. JobTypeOK'
      BY <1>1, <1>6, <2>1, <2>2 DEF ClearKey, JobTypeOK, Goto
    <2> QED
      BY <1>3, <2>1, <2>2, <2>3, QuietStep
  <1>7. CASE NotifyRead(p)
    <2> DEFINE keys == {[event |-> "WORKFLOW_FAILED", scope |-> NoExec]} \cup
                          {[event |-> "JOB_FAILED", scope |-> jobTask[t].exec] :
                             t \in TasksIn(jobTask, {"FAILED"})}
               s == IF ~ Exists THEN Idle ELSE [pc |-> "announce", left |-> keys]
    <2>1. \A t \in Tasks : jobTask[t].exec \in Executions \cup {NoExec}
      BY <1>1 DEF JobTypeOK, JobTask
    <2>2. keys \in SUBSET Key
      BY <2>1 DEF Key, TasksIn
    <2>3. s \in Proc /\ s.pc # "locked"
      BY <2>2, ProcStates DEF Idle
    <2>4. Goto(p, s)
      BY <1>7 DEF NotifyRead
    <2> HIDE DEF s
    <2>5. JobTypeOK'
      BY <1>1, <1>7, <2>3, <2>4 DEF NotifyRead, JobTypeOK, Goto
    <2> QED
      BY <1>3, <2>3, <2>4, <2>5, QuietStep
  <1>8. CASE Announce(p)
    <2>1. proc[p].left \subseteq Key /\ proc[p] = [pc |-> "announce", left |-> proc[p].left]
      BY <1>2, <1>8, ProcFields DEF Announce
    <2>2. PICK k \in proc[p].left :
            /\ announced' = IF Exists THEN announced \cup {k} ELSE announced
            /\ Goto(p, IF proc[p].left = {k} THEN Idle ELSE [proc[p] EXCEPT !.left = @ \ {k}])
      BY <1>8 DEF Announce
    <2> DEFINE s == IF proc[p].left = {k} THEN Idle ELSE [proc[p] EXCEPT !.left = @ \ {k}]
    <2>3. [proc[p] EXCEPT !.left = @ \ {k}] = [pc |-> "announce", left |-> proc[p].left \ {k}]
      BY <2>1
    <2>4. proc[p].left \ {k} \in SUBSET Key
      BY <2>1
    <2>5. s \in Proc /\ s.pc # "locked"
      BY <2>3, <2>4, ProcStates DEF Idle
    <2> HIDE DEF s
    <2>6. JobTypeOK'
      BY <1>1, <1>8, <2>1, <2>2, <2>5 DEF Announce, JobTypeOK, Goto, s
    <2> QED
      BY <1>3, <2>2, <2>5, <2>6, QuietStep DEF s
  <1>9. CASE CancelRead(p) \/ CancelSet(p) \/ RetryUncancel(p) \/ DeleteRead(p)
    <2>1. PICK pc \in {"cancel", "sync", "delete"} : Goto(p, [pc |-> pc])
      BY <1>9 DEF CancelRead, CancelSet, RetryUncancel, DeleteRead
    <2>2. JobTypeOK'
      BY <1>1, <1>9, <2>1, ProcStates
         DEF CancelRead, CancelSet, RetryUncancel, DeleteRead, JobTypeOK, Goto
    <2> QED
      BY <1>3, <2>1, <2>2, ProcStates, QuietStep
  <1>10. CASE RetryRead(p)
    <2> DEFINE s == [pc |-> "reset", seen |-> jobTask]
    <2>1. s \in Proc /\ s.pc # "locked"
      BY <1>1, ProcStates DEF JobTypeOK
    <2>2. Goto(p, s)
      BY <1>10 DEF RetryRead
    <2> HIDE DEF s
    <2>3. JobTypeOK'
      BY <1>1, <1>10, <2>1, <2>2 DEF RetryRead, JobTypeOK, Goto
    <2> QED
      BY <1>3, <2>1, <2>2, <2>3, QuietStep
  <1>11. CASE Crash(p)
    <2>1. JobTypeOK'
      BY <1>1, <1>11, ProcStates, JobAssumption DEF Crash, JobTypeOK, Goto
    <2> QED
      BY <1>3, <1>11, <2>1, ProcStates, QuietStep DEF Crash, Idle
  <1> QED
    BY <1>4, <1>5, <1>6, <1>7, <1>8, <1>9, <1>10, <1>11

LEMMA RetryResetStep ==
    ASSUME JobInv, NEW c \in Clients, RetryReset(c)
    PROVE  JobInv'
  <1>1. JobTypeOK /\ exec \in [Executions -> ExecRow]
    BY DEF JobInv, JobTypeOK
  <1>2. c \in Procs /\ proc[c] \in Proc
    BY <1>1 DEF Procs, JobTypeOK
  <1>3. /\ UNCHANGED <<edges, announced, exec, pushed, signalled, crashes, jobKey>>
        /\ \A q \in Procs : proc[q].pc # "locked"
    BY DEF RetryReset, apiFrame, execVars, Locked
  <1>4. CASE ~ Exists /\ Goto(c, Idle) /\ UNCHANGED <<job, jobTask>>
    <2>1. JobTypeOK'
      BY <1>1, <1>2, <1>3, <1>4, ProcStates DEF JobTypeOK, Goto
    <2> QED
      BY <1>2, <1>3, <1>4, <2>1, ProcStates, QuietStep DEF Idle
  <1> DEFINE seen == proc[c].seen
             s == [pc |-> "uncancel"]
  <1>5. CASE /\ \A t \in TasksIn(seen, Retryable) : Cardinality(Launched(t)) < MaxRuns
             /\ jobTask' = [t \in Tasks |-> Rearmed(t, seen[t])]
             /\ job' = "RUNNING"
             /\ Goto(c, s)
    <2>1. s \in Proc /\ s.pc # "locked"
      BY ProcStates
    <2>2. \A t \in Tasks : jobTask[t] \in JobTask
      BY <1>1 DEF JobTypeOK
    <2>3. \A t \in Tasks :
            /\ jobTask'[t] \in JobTask
            /\ jobTask'[t].exec \in {jobTask[t].exec, NoExec}
            /\ jobTask'[t].status = "PENDING" => Cardinality(Launched(t)) < MaxRuns
            /\ jobTask'[t].status = "SUCCESS" => jobTask[t].status = "SUCCESS"
      <3> SUFFICES ASSUME NEW t \in Tasks
                   PROVE  /\ jobTask'[t] \in JobTask
                          /\ jobTask'[t].exec \in {jobTask[t].exec, NoExec}
                          /\ jobTask'[t].status = "PENDING" => Cardinality(Launched(t)) < MaxRuns
                          /\ jobTask'[t].status = "SUCCESS" => jobTask[t].status = "SUCCESS"
        OBVIOUS
      <3>1. jobTask'[t] = Rearmed(t, seen[t])
        BY <1>5
      <3>2. CASE seen[t].status \notin Retryable
        BY <3>1, <3>2, <2>2 DEF Rearmed, JobInv, PendingRoom, TasksIn
      <3>3. CASE seen[t].status \in Retryable
        <4>1. Cardinality(Launched(t)) < MaxRuns
          BY <1>5, <3>3 DEF TasksIn
        <4> QED
          BY <3>1, <3>3, <4>1, <2>2 DEF Rearmed, JobTask, TaskStatuses
      <3> QED
        BY <3>2, <3>3
    <2>4. jobTask' \in [Tasks -> JobTask]
      BY <1>5, <2>3
    <2>5. job' \in JobStatuses /\ signalled' \subseteq Executions
      BY <1>1, <1>3, <1>5 DEF JobStatuses, JobTypeOK
    <2>6. {Fresh(t) : t \in {}} = {} /\ CreateExecutions({})
      BY <1>1, <1>3, NoCreation
    <2> HIDE DEF s
    <2> QED
      BY <1>2, <1>3, <1>5, <2>1, <2>3, <2>4, <2>5, <2>6, CommitStep
  <1> QED
    BY <1>4, <1>5 DEF RetryReset

LEMMA DeleteCommitStep ==
    ASSUME JobInv, NEW c \in Clients, DeleteCommit(c)
    PROVE  JobInv'
  <1> USE DEF JobInv
  <1>1. /\ UNCHANGED <<edges, announced, exec, pushed, signalled, crashes, jobTask>>
        /\ \A q \in Procs : proc[q].pc # "locked"
        /\ job' = IF Exists THEN "DELETED" ELSE job
        /\ jobKey' = FALSE
        /\ Goto(c, Idle)
    BY DEF DeleteCommit, apiFrame, execVars, Locked
  <1>2. JobTypeOK'
    BY <1>1, ProcStates DEF JobTypeOK, Goto
  <1>3. \A t \in Tasks : Launched(t)' = Launched(t)
    BY <1>1 DEF Launched
  <1>4. LockHeld'
    BY <1>1 DEF LockHeld, Goto, JobTypeOK, Idle
  <1>5. Numbered' /\ PendingRoom' /\ NotStarted' /\ SuccessHeld' /\ DependenciesRespected'
    BY <1>1, <1>3 DEF Numbered, PendingRoom, NotStarted, SuccessHeld, DependenciesRespected,
                      TasksIn, Launched
  <1> QED
    BY <1>2, <1>4, <1>5

\* What a move of an execution can be.
LEMMA Moves ==
    ASSUME exec \in [Executions -> ExecRow], NEW x \in Executions, ExecutionMoves(x)
    PROVE  /\ exec[x] # Absent /\ exec[x].status # "SUCCESS"
           /\ exec' \in [Executions -> ExecRow]
           /\ exec'[x] # Absent
           /\ \A y \in Executions \ {x} : exec'[y] = exec[y]
           /\ exec'[x].status = "QUEUED" => exec[x].attempt <= MaxRetries
           /\ exec'[x].status = "RUNNING" => Unfinished(x)
  <1>1. PICK r \in ExecRow :
          /\ exec' = [exec EXCEPT ![x] = r]
          /\ Life(x)!Moved \/ Life(x)!Requeued
    BY DEF ExecutionMoves
  <1>2. exec'[x] = r /\ exec' \in [Executions -> ExecRow]
        /\ \A y \in Executions \ {x} : exec'[y] = exec[y]
    BY <1>1
  <1>3. exec[x] # Absent
    BY DEF ExecutionMoves
  <1>4. CASE Life(x)!Moved
    BY <1>2, <1>3, <1>4
       DEF Life!Moved, Life!CanTransition, Life!Successors, Life!Statuses, Absent, Unfinished
  <1>5. CASE Life(x)!Requeued
    BY <1>2, <1>3, <1>5 DEF Life!Requeued, Life!FailedStatuses, Absent, Unfinished
  <1> QED
    BY <1>1, <1>2, <1>3, <1>4, <1>5

LEMMA ExecutionMovesStep ==
    ASSUME JobInv, NEW x \in Executions, ExecutionMoves(x)
    PROVE  JobInv'
  <1> USE DEF JobInv
  <1>1. /\ UNCHANGED <<edges, job, jobTask, jobKey, announced, pushed, proc, crashes>>
        /\ signalled' \subseteq signalled
    BY DEF ExecutionMoves, jobVars
  <1>2. /\ exec[x] # Absent /\ exec[x].status # "SUCCESS"
        /\ exec' \in [Executions -> ExecRow]
        /\ exec'[x] # Absent
        /\ \A y \in Executions \ {x} : exec'[y] = exec[y]
    BY Moves DEF JobTypeOK
  <1>3. JobTypeOK'
    BY <1>1, <1>2 DEF JobTypeOK
  <1>4. \A t \in Tasks : Launched(t)' = Launched(t)
    BY <1>2 DEF Launched
  <1>5. \A t \in Tasks : (\E y \in Launched(t) : exec[y].status = "SUCCESS") =>
                           (\E y \in Launched(t)' : exec'[y].status = "SUCCESS")
    BY <1>2, <1>4 DEF Launched
  <1>6. Numbered' /\ PendingRoom' /\ LockHeld' /\ NotStarted'
    BY <1>1, <1>2, <1>4 DEF Numbered, PendingRoom, LockHeld, NotStarted, TasksIn
  <1>7. SuccessHeld'
    BY <1>1, <1>4, <1>5 DEF SuccessHeld
  <1>8. DependenciesRespected'
    <2> SUFFICES ASSUME NEW t \in Tasks, Launched(t)' # {}, NEW d \in Preds(edges, t)
                 PROVE  \E y \in Launched(d)' : exec'[y].status = "SUCCESS"
      BY <1>1 DEF DependenciesRespected
    <2>1. d \in Tasks
      BY DEF Preds
    <2> QED
      BY <2>1, <1>4, <1>5 DEF DependenciesRespected
  <1> QED
    BY <1>3, <1>6, <1>7, <1>8

LEMMA KeyExpiresStep == JobInv /\ KeyExpires => JobInv'
  <1> SUFFICES ASSUME JobInv, KeyExpires PROVE JobInv'
    OBVIOUS
  <1>1. JobTypeOK' /\ UNCHANGED <<edges, job, jobTask, exec, proc>>
    BY DEF KeyExpires, apiFrame, execVars, JobInv, JobTypeOK
  <1> QED
    BY <1>1, QuietStep

LEMMA JobInvInductive == JobInv /\ [Next]_vars => JobInv'
  <1> SUFFICES ASSUME JobInv, [Next]_vars PROVE JobInv'
    OBVIOUS
  <1>1. CASE SaveGraph
    BY <1>1, SaveGraphStep
  <1>2. ASSUME NEW p \in Procs, SyncProceeds(p) \/ Crash(p)
        PROVE  JobInv'
    BY <1>2, SyncCancellingStep, SyncAdvanceStep, QuietProcStep DEF SyncProceeds
  <1>3. ASSUME NEW l \in Loops, SyncLock(l)
        PROVE  JobInv'
    BY <1>3, SyncLockStep DEF Procs
  <1>4. ASSUME NEW c \in Clients, RequestArrives(c) \/ RequestProceeds(c)
        PROVE  JobInv'
    <2>1. c \in Procs
      BY DEF Procs
    <2>2. CASE StartJob(c)
      BY <2>2, StartJobStep
    <2>3. CASE SyncLock(c)
      BY <2>1, <2>3, SyncLockStep
    <2>4. CASE RetryReset(c)
      BY <2>4, RetryResetStep
    <2>5. CASE DeleteCommit(c)
      BY <2>5, DeleteCommitStep
    <2> QED
      BY <1>4, <2>1, <2>2, <2>3, <2>4, <2>5, QuietProcStep DEF RequestArrives, RequestProceeds
  <1>5. ASSUME NEW x \in Executions, ExecutionMoves(x)
        PROVE  JobInv'
    BY <1>5, ExecutionMovesStep
  <1>6. CASE KeyExpires
    BY <1>6, KeyExpiresStep
  <1>7. CASE UNCHANGED vars
    <2>1. UNCHANGED <<edges, job, jobTask, exec, proc>> /\ JobTypeOK'
      BY <1>7 DEF vars, execVars, jobVars, JobInv, JobTypeOK
    <2> QED
      BY <2>1, QuietStep
  <1> QED
    BY <1>1, <1>2, <1>3, <1>4, <1>5, <1>6, <1>7 DEF Next

LEMMA JobInvHolds == Spec => []JobInv
  BY JobInit, JobInvInductive, PTL DEF Spec

\* The rows of a job, its tasks and their executions, and the position of every
\* process, keep the types the code gives them.
THEOREM JobTypes == Spec => []JobTypeOK
  BY JobInvHolds, PTL DEF JobInv

\* No task runs before everything it depends on has succeeded: for any graph, any
\* number of job loops and of concurrent cancels, retries and deletes, any number of
\* runs of the job, and whatever attempts an execution gets.
THEOREM DependenciesAreRespected == Spec => []DependenciesRespected
  BY JobInvHolds, PTL DEF JobInv

-----------------------------------------------------------------------------
(* One client, and no automatic retries. *)

LEMMA SettledInit == Init => SettledInv
  BY DEF Init, SettledInv, UnfinishedHeld, TasksOver, ResetCurrent, Launched, Unfinished,
         Absent, Idle, JobTerminal, Procs

\* A step that leaves the job, its tasks and the executions alone and begins no reset.
LEMMA QuietSettled ==
    ASSUME JobInv, SettledInv, UNCHANGED <<job, jobTask, exec>>,
           \/ UNCHANGED proc
           \/ \E p \in Procs, s \in Proc : Goto(p, s) /\ s.pc # "reset"
    PROVE  SettledInv'
  <1>1. proc \in [Procs -> Proc]
    BY DEF JobInv, JobTypeOK
  <1>2. \A c \in Clients : proc'[c].pc = "reset" => proc'[c] = proc[c]
    BY <1>1 DEF Goto, Procs
  <1> QED
    BY <1>2 DEF SettledInv, UnfinishedHeld, TasksOver, ResetCurrent, Launched, Unfinished,
                TasksIn, Exists

\* A commit of a running job, or the one that starts it.
LEMMA CommitSettled ==
    ASSUME JobInv, SettledInv, OneClient, NEW p \in Procs, NEW L \in SUBSET Tasks, NEW s \in Proc,
           Settles(p, s, L),
           job = "RUNNING" \/ p \in Clients
    PROVE  SettledInv'
  <1>1. proc \in [Procs -> Proc] /\ exec \in [Executions -> ExecRow]
    BY DEF JobInv, JobTypeOK
  <1>2. \A t \in L : Cardinality(Launched(t)) < MaxRuns
    BY DEF JobInv, PendingRoom, TasksIn, Settles
  <1>3. /\ \A t \in Tasks : \A x \in Launched(t) : exec'[x] = exec[x]
        /\ \A t \in L : Launched(t)' = Launched(t) \cup {Fresh(t)}
        /\ \A t \in Tasks \ L : Launched(t)' = Launched(t)
    BY <1>1, <1>2, Creation DEF JobInv, Settles
  <1>4. UnfinishedHeld'
    <2> SUFFICES ASSUME NEW t \in Tasks, NEW x \in Launched(t)',
                        exec'[x].status \in {"QUEUED", "RUNNING"}
                 PROVE  jobTask'[t].exec = x /\ jobTask'[t].status \in {"QUEUED", "RUNNING"}
      BY DEF UnfinishedHeld, Unfinished
    <2>1. x \in Launched(t) => jobTask[t].exec = x /\ jobTask[t].status \in {"QUEUED", "RUNNING"}
                               /\ exec[x].status \in {"QUEUED", "RUNNING"}
      BY <1>3 DEF SettledInv, UnfinishedHeld, Unfinished
    <2>2. CASE t \in L
      <3>1. x \notin Launched(t)
        BY <2>1, <2>2 DEF Settles
      <3> QED
        BY <1>3, <2>2, <3>1 DEF Settles
    <2>3. CASE t \notin L
      BY <1>3, <2>1, <2>3 DEF Settles
    <2> QED
      BY <2>2, <2>3
  <1>5. TasksOver'
    BY DEF TasksOver, Settles, TasksIn
  <1>6. ResetCurrent'
    <2> SUFFICES ASSUME NEW c \in Clients, proc'[c].pc = "reset" PROVE FALSE
      BY DEF ResetCurrent
    <2>1. c # p /\ proc[c].pc = "reset"
      BY <1>1 DEF Settles, Goto, Procs
    <2>2. job = "RUNNING"
      BY <2>1 DEF OneClient
    <2> QED
      BY <2>1, <2>2 DEF SettledInv, ResetCurrent, Exists, JobStatuses
  <1> QED
    BY <1>4, <1>5, <1>6 DEF SettledInv

LEMMA RetryReadSettled ==
    ASSUME JobInv, SettledInv, OneClient, NEW c \in Clients, RetryRead(c)
    PROVE  SettledInv'
  <1>1. proc \in [Procs -> Proc]
    BY DEF JobInv, JobTypeOK
  <1>2. /\ UNCHANGED <<job, jobTask, exec>>
        /\ job \in {"FAILED", "CANCELLED"}
        /\ proc' = [proc EXCEPT ![c] = [pc |-> "reset", seen |-> jobTask]]
    BY DEF RetryRead, apiFrame, execVars, Goto
  <1>3. \A d \in Clients : d = c /\ proc'[d].seen = jobTask
    BY <1>1, <1>2 DEF OneClient, Procs
  <1> QED
    BY <1>2, <1>3 DEF SettledInv, UnfinishedHeld, TasksOver, ResetCurrent, Launched, Unfinished,
                      TasksIn

LEMMA RetryResetSettled ==
    ASSUME JobInv, SettledInv, OneClient, NEW c \in Clients, RetryReset(c)
    PROVE  SettledInv'
  <1>1. proc \in [Procs -> Proc] /\ proc[c].pc = "reset" /\ UNCHANGED exec
    BY DEF JobInv, JobTypeOK, RetryReset, apiFrame, execVars
  <1>2. CASE ~ Exists /\ Goto(c, Idle) /\ UNCHANGED <<job, jobTask>>
    BY <1>1, <1>2, QuietSettled, ProcStates DEF Procs, Idle
  <1>3. CASE /\ Exists
             /\ jobTask' = [t \in Tasks |-> Rearmed(t, proc[c].seen[t])]
             /\ job' = "RUNNING"
             /\ Goto(c, [pc |-> "uncancel"])
    <2>1. job \in {"FAILED", "CANCELLED"}
      BY <1>1, <1>3 DEF SettledInv, ResetCurrent
    <2>2. \A t \in Tasks : jobTask[t].status \notin {"QUEUED", "RUNNING"}
      BY <2>1 DEF SettledInv, TasksOver, TasksIn, JobTerminal, TaskTerminal
    <2>3. \A t \in Tasks : \A x \in Launched(t) : ~ Unfinished(x)
      BY <2>2 DEF SettledInv, UnfinishedHeld
    <2>4. UnfinishedHeld'
      BY <1>1, <2>3 DEF UnfinishedHeld, Launched, Unfinished
    <2>5. TasksOver'
      BY <1>3 DEF TasksOver, JobTerminal
    <2>6. \A d \in Clients : proc'[d].pc = "uncancel"
      BY <1>1, <1>3 DEF Goto, OneClient, Procs
    <2> QED
      BY <2>4, <2>5, <2>6 DEF SettledInv, ResetCurrent
  <1> QED
    BY <1>2, <1>3 DEF RetryReset

LEMMA DeleteCommitSettled ==
    ASSUME JobInv, SettledInv, OneClient, NEW c \in Clients, DeleteCommit(c)
    PROVE  SettledInv'
  <1>1. /\ proc \in [Procs -> Proc]
        /\ UNCHANGED <<jobTask, exec>>
        /\ job' = IF Exists THEN "DELETED" ELSE job
        /\ Goto(c, Idle)
    BY DEF JobInv, JobTypeOK, DeleteCommit, apiFrame, execVars
  <1>2. \A d \in Clients : proc'[d] = Idle
    BY <1>1 DEF Goto, OneClient, Procs
  <1>3. job' \notin JobTerminal
    BY <1>1 DEF Exists, JobStatuses, JobTerminal
  <1> QED
    BY <1>1, <1>2, <1>3 DEF SettledInv, UnfinishedHeld, TasksOver, ResetCurrent, Launched,
                            Unfinished, Idle

\* An execution that has ended stays so.
LEMMA MovesSettled ==
    ASSUME JobInv, SettledInv, MaxRetries = 0, NEW x \in Executions, ExecutionMoves(x)
    PROVE  SettledInv'
  <1>1. UNCHANGED <<job, jobTask, proc>> /\ exec \in [Executions -> ExecRow]
    BY DEF ExecutionMoves, jobVars, JobInv, JobTypeOK
  <1>2. /\ exec[x] # Absent
        /\ exec'[x] # Absent
        /\ exec'[x].status = "QUEUED" => exec[x].attempt <= MaxRetries
        /\ exec'[x].status = "RUNNING" => Unfinished(x)
        /\ \A y \in Executions \ {x} : exec'[y] = exec[y]
    BY <1>1, Moves
  <1>3. exec[x].attempt \in 1..MaxAttempt
    BY <1>1, <1>2, ExecFields
  <1>4. exec'[x].status # "QUEUED"
    BY <1>2, <1>3, RetryPolicyAssumption
  <1>5. \A t \in Tasks : Launched(t)' = Launched(t)
    BY <1>2 DEF Launched
  <1>6. \A y \in Executions : exec'[y].status \in {"QUEUED", "RUNNING"} => Unfinished(y)
    BY <1>2, <1>4 DEF Unfinished
  <1>7. UnfinishedHeld'
    BY <1>1, <1>5, <1>6 DEF SettledInv, UnfinishedHeld, Unfinished, Launched
  <1> QED
    BY <1>1, <1>7 DEF SettledInv, TasksOver, ResetCurrent, TasksIn, Exists

\* The steps that move a process and nothing a commit writes, and begin no reset.
LEMMA ProcMoves ==
    ASSUME JobInv, NEW p \in Procs,
           \/ SyncSkipped(p) \/ Push(p) \/ ClearKey(p) \/ NotifyRead(p) \/ Announce(p)
           \/ CancelRead(p) \/ CancelSet(p) \/ RetryUncancel(p) \/ DeleteRead(p)
           \/ Crash(p) \/ SyncLock(p)
    PROVE  proc'[p].pc # "reset" /\ Goto(p, proc'[p]) /\ proc'[p] \in Proc
  <1> USE DEF execVars, jobVars, syncFrame, apiFrame
  <1>1. JobTypeOK' /\ proc[p] \in Proc
    BY QuietProcStep, SyncLockStep DEF JobInv, JobTypeOK
  <1>2. proc \in [Procs -> Proc]
    BY DEF JobInv, JobTypeOK
  <1>3. CASE Push(p)
    <2>1. proc[p].left \subseteq Executions /\ proc[p].final \in JobTerminal \cup {"NONE"}
      BY <1>1, <1>3, ProcFields DEF Push
    <2> QED
      BY <1>1, <1>2, <1>3, <2>1, AfterStates DEF Push, Goto, JobTypeOK
  <1>4. CASE Announce(p)
    <2>1. proc[p].pc = "announce"
          /\ proc[p] = [pc |-> "announce", left |-> proc[p].left]
      BY <1>1, <1>4, ProcFields DEF Announce
    <2>2. PICK k \in proc[p].left :
            Goto(p, IF proc[p].left = {k} THEN Idle ELSE [proc[p] EXCEPT !.left = @ \ {k}])
      BY <1>4 DEF Announce
    <2>3. [proc[p] EXCEPT !.left = @ \ {k}].pc = "announce"
      BY <2>1
    <2> QED
      BY <1>1, <1>2, <2>2, <2>3 DEF Goto, Idle, JobTypeOK
  <1> QED
    BY <1>1, <1>2, <1>3, <1>4
       DEF SyncSkipped, ClearKey, NotifyRead, CancelRead, CancelSet, RetryUncancel,
           DeleteRead, Crash, SyncLock, Goto, Idle, JobTypeOK

LEMMA SettledInvInductive ==
    ASSUME OneClient, MaxRetries = 0
    PROVE  JobInv /\ SettledInv /\ [Next]_vars => SettledInv'
  <1> SUFFICES ASSUME JobInv, SettledInv, [Next]_vars PROVE SettledInv'
    OBVIOUS
  <1> USE DEF execVars, jobVars, syncFrame, apiFrame
  <1>1. CASE SaveGraph \/ KeyExpires \/ UNCHANGED vars
    BY <1>1, QuietSettled DEF SaveGraph, KeyExpires, vars
  <1>2. ASSUME NEW p \in Procs, SyncCancelling(p) \/ SyncAdvance(p)
        PROVE  SettledInv'
    <2>1. job = "RUNNING"
      BY <1>2, UnderLock DEF SyncCancelling, SyncAdvance
    <2> QED
      BY <1>2, <2>1, SyncCancellingStep, SyncAdvanceStep, CommitSettled
  <1>3. ASSUME NEW p \in Procs,
               \/ SyncSkipped(p) \/ Push(p) \/ ClearKey(p) \/ NotifyRead(p) \/ Announce(p)
               \/ CancelRead(p) \/ CancelSet(p) \/ RetryUncancel(p) \/ DeleteRead(p)
               \/ Crash(p) \/ SyncLock(p)
        PROVE  SettledInv'
    <2>1. UNCHANGED <<job, jobTask, exec>>
      BY <1>3 DEF SyncSkipped, Push, ClearKey, NotifyRead, Announce, CancelRead, CancelSet,
                  RetryUncancel, DeleteRead, Crash, SyncLock
    <2>2. proc'[p].pc # "reset" /\ Goto(p, proc'[p]) /\ proc'[p] \in Proc
      BY <1>3, ProcMoves
    <2> QED
      BY <2>1, <2>2, QuietSettled
  <1>4. ASSUME NEW c \in Clients, StartJob(c)
        PROVE  SettledInv'
    BY <1>4, StartJobStep, CommitSettled DEF Procs
  <1>5. ASSUME NEW c \in Clients, RetryRead(c) \/ RetryReset(c) \/ DeleteCommit(c)
        PROVE  SettledInv'
    BY <1>5, RetryReadSettled, RetryResetSettled, DeleteCommitSettled
  <1>6. ASSUME NEW x \in Executions, ExecutionMoves(x)
        PROVE  SettledInv'
    BY <1>6, MovesSettled
  <1>7. Clients \subseteq Procs /\ Loops \subseteq Procs
    BY DEF Procs
  <1> QED
    BY <1>1, <1>2, <1>3, <1>4, <1>5, <1>6, <1>7
       DEF Next, SyncProceeds, RequestArrives, RequestProceeds

LEMMA SettledInvHolds ==
    ASSUME OneClient, MaxRetries = 0
    PROVE  Spec => [](JobInv /\ SettledInv)
  <1>1. JobInv /\ SettledInv /\ [Next]_vars => (JobInv /\ SettledInv)'
    BY SettledInvInductive, JobInvInductive
  <1> QED
    BY <1>1, JobInit, SettledInit, PTL DEF Spec

\* A task never has two executions that wait or run, for any graph, any number of job
\* loops and runs: as long as the requests come one after the other, and no failed
\* execution is retried behind the orchestrator's back.
THEOREM OneExecution ==
    ASSUME OneClient, MaxRetries = 0
    PROVE  Spec => []OneExecutionPerTask
  <1>1. JobInv /\ SettledInv => OneExecutionPerTask
    <2> SUFFICES ASSUME SettledInv, NEW t \in Tasks
                 PROVE  Cardinality({x \in Launched(t) : Unfinished(x)}) <= 1
      BY DEF OneExecutionPerTask
    <2>1. {x \in Launched(t) : Unfinished(x)} \subseteq {jobTask[t].exec}
      BY DEF SettledInv, UnfinishedHeld
    <2>2. IsFiniteSet({jobTask[t].exec}) /\ Cardinality({jobTask[t].exec}) = 1
      BY FS_Singleton
    <2> QED
      BY <2>1, <2>2, FS_Subset
  <1> QED
    BY <1>1, SettledInvHolds, PTL

\* A job that is over has stopped, under the same two conditions: run jobs_window shows
\* an automatic retry that breaks it.
THEOREM OverIsOver ==
    ASSUME OneClient, MaxRetries = 0
    PROVE  Spec => []OverMeansOver
  <1>1. JobInv /\ SettledInv => OverMeansOver
    BY DEF SettledInv, UnfinishedHeld, TasksOver, OverMeansOver, TasksIn, TaskTerminal
  <1> QED
    BY <1>1, SettledInvHolds, PTL
-----------------------------------------------------------------------------
(* What is skipped, and why. *)

\* No counterexample is the least one.
LEMMA LeastFails ==
    ASSUME NEW T \in SUBSET Nat, \A n \in T : \E m \in T : m < n
    PROVE  T = {}
  <1> DEFINE R == {ss \in Nat \X Nat : ss[1] < ss[2]}
  <1>1. IsWellFoundedOn(R, Nat)
    BY NatLessThanWellFounded DEF OpToRel
  <1>2. \A x, y \in Nat : x < y => <<x, y>> \in R
    OBVIOUS
  <1> HIDE DEF R
  <1>3. SUFFICES ASSUME T # {} PROVE FALSE
    OBVIOUS
  <1>4. PICK n \in T : \A m \in T : ~ (<<m, n>> \in R)
    BY <1>1, <1>3, WFMin
  <1>5. PICK m \in T : m < n
    OBVIOUS
  <1> QED
    BY <1>2, <1>4, <1>5

\* One round of the loop that skips tasks.
Round(E, waiting, reached) == reached \cup {t \in waiting : Preds(E, t) \cap reached # {}}

\* g holds what the first n rounds reach.
Rounds(E, blocked, waiting, n, g) ==
    g = [k \in 0..n |-> IF k = 0 THEN blocked ELSE Round(E, waiting, g[k - 1])]

LEMMA RoundsExist ==
    ASSUME NEW E, NEW blocked, NEW waiting
    PROVE  \A n \in Nat : \E g : Rounds(E, blocked, waiting, n, g)
  <1> DEFINE T == {n \in Nat : ~ \E g : Rounds(E, blocked, waiting, n, g)}
  <1>1. ASSUME NEW n \in T PROVE \E m \in T : m < n
    <2>1. n \in Nat /\ ~ \E g : Rounds(E, blocked, waiting, n, g)
      OBVIOUS
    <2>2. n # 0
      <3>1. Rounds(E, blocked, waiting, 0, [k \in 0..0 |-> blocked])
        BY DEF Rounds
      <3> QED
        BY <2>1, <3>1
    <2>3. n - 1 \in Nat /\ n - 1 < n
      BY <2>1, <2>2
    <2>4. ASSUME NEW g, Rounds(E, blocked, waiting, n - 1, g) PROVE FALSE
      <3> DEFINE h == [k \in 0..n |-> IF k = n THEN Round(E, waiting, g[n - 1]) ELSE g[k]]
      <3>1. \A k \in 0..n - 1 :
              g[k] = IF k = 0 THEN blocked ELSE Round(E, waiting, g[k - 1])
        BY <2>4 DEF Rounds
      <3>2. \A k \in 0..n : h[k] = IF k = n THEN Round(E, waiting, g[n - 1]) ELSE g[k]
        OBVIOUS
      <3>3. h = [k \in 0..n |-> h[k]]
        OBVIOUS
      <3> HIDE DEF h
      <3>4. ASSUME NEW k \in 0..n
            PROVE  h[k] = IF k = 0 THEN blocked ELSE Round(E, waiting, h[k - 1])
        <4>1. CASE k = n
          <5>1. n - 1 \in 0..n /\ n - 1 # n
            BY <2>1, <2>2
          <5>2. h[n - 1] = g[n - 1]
            BY <3>2, <5>1
          <5> QED
            BY <2>2, <3>2, <4>1, <5>2
        <4>2. CASE k # n /\ k # 0
          <5>1. k \in 0..n - 1 /\ k - 1 \in 0..n /\ k - 1 # n
            BY <2>1, <4>2
          <5> QED
            BY <3>1, <3>2, <4>2, <5>1
        <4>3. CASE k # n /\ k = 0
          <5>1. 0 \in 0..n - 1
            BY <2>3
          <5> QED
            BY <3>1, <3>2, <4>3, <5>1
        <4> QED
          BY <4>1, <4>2, <4>3
      <3>5. Rounds(E, blocked, waiting, n, h)
        BY <3>3, <3>4 DEF Rounds
      <3> QED
        BY <2>1, <3>5
    <2>5. n - 1 \in T
      BY <2>3, <2>4
    <2> QED
      BY <2>3, <2>5
  <1>2. T \in SUBSET Nat
    OBVIOUS
  <1>3. T = {}
    <2> HIDE DEF T
    <2> QED
      BY <1>1, <1>2, LeastFails
  <1> QED
    BY <1>3

\* They agree where both are defined.
LEMMA RoundsAgree ==
    ASSUME NEW E, NEW blocked, NEW waiting, NEW m \in Nat, NEW n \in Nat, m <= n,
           NEW g, Rounds(E, blocked, waiting, m, g),
           NEW h, Rounds(E, blocked, waiting, n, h)
    PROVE  \A k \in 0..m : g[k] = h[k]
  <1> DEFINE T == {k \in 0..m : g[k] # h[k]}
  <1>1. \A k \in 0..m : g[k] = IF k = 0 THEN blocked ELSE Round(E, waiting, g[k - 1])
    BY DEF Rounds
  <1>2. \A k \in 0..m : h[k] = IF k = 0 THEN blocked ELSE Round(E, waiting, h[k - 1])
    <2>1. \A k \in 0..m : k \in 0..n
      OBVIOUS
    <2> QED
      BY <2>1 DEF Rounds
  <1>3. ASSUME NEW k \in T PROVE \E j \in T : j < k
    <2>1. k \in 0..m /\ g[k] # h[k]
      OBVIOUS
    <2>2. k # 0
      BY <1>1, <1>2, <2>1
    <2>3. k - 1 \in 0..m /\ k - 1 < k
      BY <2>1, <2>2
    <2>4. g[k - 1] # h[k - 1]
      BY <1>1, <1>2, <2>1, <2>2
    <2> QED
      BY <2>3, <2>4
  <1>4. T \in SUBSET Nat
    OBVIOUS
  <1>5. T = {}
    <2> HIDE DEF T
    <2> QED
      BY <1>3, <1>4, LeastFails
  <1> QED
    BY <1>5

\* What the loop skips depends on something that is blocked, or skipped with it.
LEMMA DownstreamHasCauses ==
    ASSUME NEW E, NEW blocked, NEW waiting, blocked \cap waiting = {}
    PROVE  /\ Downstream(E, blocked, waiting) \subseteq waiting
           /\ \A t \in Downstream(E, blocked, waiting) :
                Preds(E, t) \cap (blocked \cup Downstream(E, blocked, waiting)) # {}
  <1> DEFINE IsReach(f) ==
               f = [n \in Nat |-> IF n = 0 THEN blocked
                                  ELSE f[n - 1] \cup {t \in waiting : Preds(E, t) \cap f[n - 1] # {}}]
             G(n) == CHOOSE g : Rounds(E, blocked, waiting, n, g)
             all == [n \in Nat |-> G(n)[n]]
  <1>1. \A n \in Nat : Rounds(E, blocked, waiting, n, G(n))
    BY RoundsExist
  <1>2. \A n \in Nat : all[n] = G(n)[n]
    OBVIOUS
  <1>3. all = [n \in Nat |-> all[n]]
    OBVIOUS
  <1> HIDE DEF G, all
  <1>4. ASSUME NEW n \in Nat
        PROVE  all[n] = IF n = 0 THEN blocked ELSE Round(E, waiting, all[n - 1])
    <2>1. \A k \in 0..n : G(n)[k] = IF k = 0 THEN blocked ELSE Round(E, waiting, G(n)[k - 1])
      BY <1>1 DEF Rounds
    <2>2. n \in 0..n
      OBVIOUS
    <2>3. CASE n = 0
      BY <1>2, <2>1, <2>2, <2>3
    <2>4. CASE n # 0
      <3>1. n - 1 \in Nat /\ n - 1 <= n /\ n - 1 \in 0..n - 1
        BY <2>4
      <3>2. G(n - 1)[n - 1] = G(n)[n - 1]
        BY <1>1, <3>1, RoundsAgree
      <3> QED
        BY <1>2, <2>1, <2>2, <2>4, <3>1, <3>2
    <2> QED
      BY <2>3, <2>4
  <1>5. IsReach(all)
    BY <1>3, <1>4 DEF Round
  <1> DEFINE reach == CHOOSE f : IsReach(f)
  <1>6. IsReach(reach)
    <2> HIDE DEF IsReach
    <2> QED
      BY <1>5
  <1>7. \A n \in Nat : reach[n] = IF n = 0 THEN blocked ELSE Round(E, waiting, reach[n - 1])
    BY <1>6 DEF Round
  <1>8. Downstream(E, blocked, waiting) = reach[Cardinality(Tasks)] \cap waiting
    BY DEF Downstream
  <1> HIDE DEF reach
  <1>9. Cardinality(Tasks) \in Nat
    BY TasksAssumption, FS_CardinalityType
  <1> DEFINE Caused(n) == \A t \in reach[n] \cap waiting :
                            Preds(E, t) \cap (blocked \cup (reach[n] \cap waiting)) # {}
             Within(n) == reach[n] \subseteq blocked \cup waiting
             T == {n \in Nat : ~ (Caused(n) /\ Within(n))}
  <1>10. ASSUME NEW n \in T PROVE \E m \in T : m < n
    <2>1. n \in Nat
      OBVIOUS
    <2>2. CASE n = 0
      BY <1>7, <2>2
    <2>3. CASE n # 0
      <3>1. n - 1 \in Nat /\ n - 1 < n
        BY <2>1, <2>3
      <3>2. reach[n] = Round(E, waiting, reach[n - 1])
        BY <1>7, <2>1, <2>3
      <3>3. ASSUME Caused(n - 1), Within(n - 1) PROVE FALSE
        <4>1. reach[n - 1] \subseteq reach[n] /\ Within(n)
          BY <3>2, <3>3 DEF Round
        <4>2. ASSUME NEW t \in reach[n] \cap waiting
              PROVE  Preds(E, t) \cap (blocked \cup (reach[n] \cap waiting)) # {}
          <5>1. CASE t \in reach[n - 1]
            BY <3>3, <4>1, <5>1
          <5>2. CASE t \notin reach[n - 1]
            <6>1. Preds(E, t) \cap reach[n - 1] # {}
              BY <3>2, <5>2 DEF Round
            <6> QED
              BY <3>3, <4>1, <6>1
          <5> QED
            BY <5>1, <5>2
        <4> QED
          BY <4>1, <4>2
      <3> QED
        BY <3>1, <3>3
    <2> QED
      BY <2>2, <2>3
  <1>11. T \in SUBSET Nat
    OBVIOUS
  <1>12. T = {}
    <2> HIDE DEF T
    <2> QED
      BY <1>10, <1>11, LeastFails
  <1>13. Caused(Cardinality(Tasks))
    BY <1>9, <1>12
  <1> QED
    BY <1>8, <1>13

ActiveStatuses == {"QUEUED", "RUNNING", "SUCCESS"}

\* Whatever was launched stands on tasks that have succeeded.
Grounded(tasks) ==
    \A t \in TasksIn(tasks, ActiveStatuses) : Preds(edges, t) \subseteq TasksIn(tasks, {"SUCCESS"})

Caused(tasks) ==
    \A t \in TasksIn(tasks, {"SKIPPED"}) : Preds(edges, t) \cap TasksIn(tasks, Blocking) # {}

\* What a retry has read may be old when it writes, but it was of a job that was over.
CauseInv ==
    /\ TasksOver
    /\ Grounded(jobTask) /\ Caused(jobTask)
    /\ \A c \in Clients : proc[c].pc = "reset" =>
         /\ job # "NONE"
         /\ TasksIn(proc[c].seen, TaskTerminal) = Tasks
         /\ Grounded(proc[c].seen)

LEMMA CausesStart == Init => CauseInv
  BY DEF Init, CauseInv, TasksOver, JobTerminal, Grounded, Caused, TasksIn, ActiveStatuses, Idle,
         Procs

\* A step that leaves the job, its tasks and the graph alone and begins no reset.
LEMMA QuietCauses ==
    ASSUME JobInv, CauseInv, UNCHANGED <<edges, job, jobTask>>,
           \/ UNCHANGED proc
           \/ \E p \in Procs, s \in Proc : Goto(p, s) /\ s.pc # "reset"
    PROVE  CauseInv'
  <1>1. proc \in [Procs -> Proc]
    BY DEF JobInv, JobTypeOK
  <1>2. \A c \in Clients : proc'[c].pc = "reset" => proc'[c] = proc[c]
    BY <1>1 DEF Goto, Procs
  <1> QED
    BY <1>2 DEF CauseInv, TasksOver, Grounded, Caused, TasksIn, Preds

\* What a commit of the orchestrator does to the statuses of the tasks.
Advance ==
    /\ \A t \in TasksIn(jobTask, {"SUCCESS"} \cup Blocking) :
         jobTask'[t].status = jobTask[t].status
    /\ \A t \in Tasks : jobTask'[t].status \in ActiveStatuses =>
         \/ jobTask[t].status \in ActiveStatuses
         \/ \A d \in Preds(edges, t) : jobTask'[d].status = "SUCCESS"
    /\ \A t \in Tasks : jobTask'[t].status = "SKIPPED" =>
         \/ jobTask[t].status = "SKIPPED"
         \/ \E d \in Preds(edges, t) : jobTask'[d].status \in Blocking

LEMMA AdvanceCauses ==
    ASSUME JobInv, CauseInv, Advance, UNCHANGED edges, job' # "NONE", TasksOver',
           NEW p \in Procs, NEW s \in Proc, Goto(p, s), s.pc # "reset"
    PROVE  CauseInv'
  <1>1. proc \in [Procs -> Proc]
    BY DEF JobInv, JobTypeOK
  <1>2. \A c \in Clients : proc'[c].pc = "reset" => proc'[c] = proc[c]
    BY <1>1 DEF Goto, Procs
  <1>3. \A t \in Tasks : Preds(edges, t)' = Preds(edges, t) /\ Preds(edges, t) \subseteq Tasks
    BY DEF Preds
  <1>4. Grounded(jobTask)'
    <2> SUFFICES ASSUME NEW t \in Tasks, jobTask'[t].status \in ActiveStatuses,
                        NEW d \in Preds(edges, t)
                 PROVE  jobTask'[d].status = "SUCCESS"
      BY <1>3 DEF Grounded, TasksIn
    <2>1. CASE jobTask[t].status \in ActiveStatuses
      <3>1. d \in TasksIn(jobTask, {"SUCCESS"})
        BY <2>1 DEF CauseInv, Grounded, TasksIn
      <3> QED
        BY <3>1 DEF Advance, TasksIn
    <2> QED
      BY <2>1 DEF Advance
  <1>5. Caused(jobTask)'
    <2> SUFFICES ASSUME NEW t \in Tasks, jobTask'[t].status = "SKIPPED"
                 PROVE  \E d \in Preds(edges, t) : jobTask'[d].status \in Blocking
      BY <1>3 DEF Caused, TasksIn
    <2>1. CASE jobTask[t].status = "SKIPPED"
      <3>1. PICK d \in Preds(edges, t) : d \in TasksIn(jobTask, Blocking)
        BY <2>1 DEF CauseInv, Caused, TasksIn
      <3> QED
        BY <3>1 DEF Advance, TasksIn
    <2> QED
      BY <2>1 DEF Advance
  <1>6. ASSUME NEW c \in Clients, proc'[c].pc = "reset"
        PROVE  TasksIn(proc'[c].seen, TaskTerminal) = Tasks /\ Grounded(proc[c].seen)'
    BY <1>2, <1>3, <1>6 DEF CauseInv, Grounded, TasksIn
  <1> QED
    BY <1>4, <1>5, <1>6 DEF CauseInv

LEMMA StartCauses ==
    ASSUME JobInv, CauseInv, NEW c \in Clients, StartJob(c)
    PROVE  CauseInv'
  <1> DEFINE ready == {t \in Tasks : Preds(edges, t) = {}}
  <1>1. PICK unreadable \in SUBSET ready : jobTask' = Launch(jobTask, ready, unreadable)
    BY DEF StartJob
  <1>2. \A t \in Tasks : jobTask[t].status = "PENDING" /\ jobTask[t] \in JobTask
    BY DEF StartJob, JobInv, NotStarted, TasksIn, JobTypeOK
  <1>3. \A t \in ready \ unreadable : jobTask'[t].status = "QUEUED"
    BY <1>1 DEF Launch
  <1>4. \A t \in Tasks \ (ready \ unreadable) : jobTask'[t].status \in {"PENDING", "FAILED"}
    BY <1>1, <1>2 DEF Launch, JobTask
  <1>5. Advance
    BY <1>2, <1>3, <1>4 DEF Advance, TasksIn, ActiveStatuses, Blocking
  <1>6. JobInv' /\ \E L \in SUBSET Tasks : \E s \in Proc : Settles(c, s, L)
    BY StartJobStep
  <1>7. PICK L \in SUBSET Tasks, s \in Proc : Settles(c, s, L)
    BY <1>6
  <1>8. TasksOver' /\ Goto(c, s) /\ s.pc # "reset"
    BY <1>7 DEF Settles, TasksOver, TasksIn
  <1>9. UNCHANGED edges /\ job' # "NONE" /\ c \in Procs
    BY DEF StartJob, jobFrame, Procs
  <1> QED
    BY <1>5, <1>8, <1>9, AdvanceCauses

\* The statuses a sync gives to what is launched already.
LEMMA SyncedStatus ==
    ASSUME NEW task \in JobTask
    PROVE  /\ task.status \in {"SUCCESS"} \cup Blocking => Synced(task).status = task.status
           /\ Synced(task).status \in ActiveStatuses <=>
                \/ task.status \in ActiveStatuses /\ Synced(task).status \in ActiveStatuses
           /\ Synced(task).status = "SKIPPED" => task.status = "SKIPPED"
  BY DEF Synced, JobTask, TaskStatuses, MapExecStatus, Blocking, ActiveStatuses

LEMMA SyncCauses ==
    ASSUME JobInv, CauseInv, NEW p \in Procs, SyncCancelling(p) \/ SyncAdvance(p), Advance
    PROVE  CauseInv'
  <1>1. PICK L \in SUBSET Tasks, s \in Proc : Settles(p, s, L)
    BY SyncCancellingStep, SyncAdvanceStep
  <1>2. TasksOver' /\ Goto(p, s) /\ s.pc # "reset"
    BY <1>1 DEF Settles, TasksOver, TasksIn
  <1>3. job = "RUNNING" /\ UNCHANGED edges
    BY UnderLock DEF SyncCancelling, SyncAdvance, jobFrame
  <1>4. job' # "NONE"
    <2>1. \A tasks, cancelling : FinalStatus(tasks, cancelling) \in JobTerminal \cup {"NONE"}
      BY FinalStatuses
    <2>2. \E tasks, ids, b : CommitSync(p, tasks, ids, FinalStatus(tasks, b))
      BY DEF SyncCancelling, SyncAdvance
    <2> QED
      BY <1>3, <2>1, <2>2 DEF CommitSync, JobTerminal
  <1> QED
    BY <1>2, <1>3, <1>4, AdvanceCauses

LEMMA CancellingCauses ==
    ASSUME JobInv, CauseInv, NEW p \in Procs, SyncCancelling(p)
    PROVE  CauseInv'
  <1>1. jobTask' = Cancelled(jobTask) /\ \A t \in Tasks : jobTask[t] \in JobTask
    BY UnderLock DEF SyncCancelling, CommitSync
  <1>2. \A t \in Tasks :
          jobTask'[t] = IF jobTask[t].status = "PENDING"
                          THEN [jobTask[t] EXCEPT !.status = "CANCELLED"] ELSE Synced(jobTask[t])
    BY <1>1 DEF Cancelled
  <1>3. \A t \in Tasks : IF jobTask[t].status = "PENDING" THEN jobTask'[t].status = "CANCELLED"
                         ELSE jobTask'[t].status = Synced(jobTask[t]).status
    BY <1>1, <1>2 DEF JobTask
  <1>4. Advance
    BY <1>1, <1>3, SyncedStatus DEF Advance, TasksIn, ActiveStatuses, Blocking
  <1> QED
    BY <1>4, SyncCauses

LEMMA AdvancingCauses ==
    ASSUME JobInv, CauseInv, NEW p \in Procs, SyncAdvance(p)
    PROVE  CauseInv'
  <1> DEFINE synced == [t \in Tasks |-> Synced(jobTask[t])]
             blocked == TasksIn(synced, Blocking)
             waiting == TasksIn(synced, {"PENDING"})
             skipped == Downstream(edges, blocked, waiting)
             ready == Ready(synced, skipped)
             kept == [t \in Tasks |-> IF t \in skipped
                                        THEN [synced[t] EXCEPT !.status = "SKIPPED"]
                                        ELSE synced[t]]
  <1>1. proc[p].pc = "locked"
    BY DEF SyncAdvance
  <1>2. PICK unreadable \in SUBSET ready : jobTask' = Launch(kept, ready, unreadable)
    <2>1. PICK next \in Advances(jobTask) : jobTask' = next.tasks
      BY <1>1, UnderLock DEF SyncAdvance, CommitSync
    <2>2. Advances(jobTask) =
            {[tasks |-> Launch(kept, ready, unreadable),
              ids |-> {Fresh(t) : t \in ready \ unreadable}] : unreadable \in SUBSET ready}
      BY Zenon DEF Advances
    <2> HIDE DEF synced, blocked, waiting, skipped, ready, kept
    <2> QED
      BY <2>1, <2>2
  <1>3. \A t \in Tasks : jobTask[t] \in JobTask
    BY <1>1, UnderLock
  <1>4. \A t \in Tasks : synced[t] = Synced(jobTask[t])
    OBVIOUS
  <1>5. /\ \A t \in blocked : synced[t].status \in Blocking
        /\ \A t \in waiting : synced[t].status = "PENDING"
        /\ blocked \subseteq Tasks /\ waiting \subseteq Tasks
    BY DEF TasksIn
  <1>6. \A t \in Tasks : synced[t].status \in Blocking => t \in blocked
    BY DEF TasksIn
  <1>7. blocked \cap waiting = {}
    BY <1>5 DEF Blocking
  <1>8. \A t \in ready : /\ t \in waiting /\ t \notin skipped
                         /\ \A d \in Preds(edges, t) : d \in Tasks /\ synced[d].status = "SUCCESS"
    BY DEF Ready, TasksIn
  <1> HIDE DEF synced, blocked, waiting
  <1>9. /\ skipped \subseteq waiting
        /\ \A t \in skipped : Preds(edges, t) \cap (blocked \cup skipped) # {}
    BY <1>7, DownstreamHasCauses
  <1> HIDE DEF skipped, ready
  <1>10. \A t \in Tasks : kept[t] = IF t \in skipped THEN [synced[t] EXCEPT !.status = "SKIPPED"]
                                    ELSE synced[t]
    OBVIOUS
  <1>11. \A t \in Tasks :
           jobTask'[t] = IF t \in unreadable THEN [kept[t] EXCEPT !.status = "FAILED"]
                         ELSE IF t \in ready THEN [status |-> "QUEUED", exec |-> Fresh(t)]
                         ELSE kept[t]
    BY <1>2 DEF Launch
  <1> HIDE DEF kept
  <1>12. \A t \in Tasks : synced[t] \in JobTask
    BY <1>3, <1>4, SyncedTask
  <1>13. \A t \in skipped : kept[t].status = "SKIPPED"
    BY <1>5, <1>9, <1>10, <1>12 DEF JobTask
  <1>14. \A t \in Tasks \ skipped : kept[t].status = synced[t].status
    BY <1>10
  <1>15. \A t \in Tasks \ ready : jobTask'[t] = kept[t]
    BY <1>11
  <1>16. \A t \in ready : jobTask'[t].status \in {"QUEUED", "FAILED"}
    <2> SUFFICES ASSUME NEW t \in ready PROVE jobTask'[t].status \in {"QUEUED", "FAILED"}
      OBVIOUS
    <2>1. t \in Tasks /\ kept[t] \in JobTask
      BY <1>5, <1>8, <1>10, <1>12
    <2>2. [kept[t] EXCEPT !.status = "FAILED"].status = "FAILED"
      BY <2>1 DEF JobTask
    <2>3. [status |-> "QUEUED", exec |-> Fresh(t)].status = "QUEUED"
      OBVIOUS
    <2> QED
      BY <1>11, <2>1, <2>2, <2>3
  <1>17. ASSUME NEW t \in Tasks, synced[t].status # "PENDING"
         PROVE  jobTask'[t].status = synced[t].status
    BY <1>5, <1>8, <1>9, <1>14, <1>15, <1>17
  <1>18. \A t \in TasksIn(jobTask, {"SUCCESS"} \cup Blocking) :
           jobTask'[t].status = jobTask[t].status
    <2> SUFFICES ASSUME NEW t \in Tasks, jobTask[t].status \in {"SUCCESS"} \cup Blocking
                 PROVE  jobTask'[t].status = jobTask[t].status
      BY DEF TasksIn
    <2>1. synced[t].status = jobTask[t].status
      BY <1>3, <1>4, SyncedStatus
    <2> QED
      BY <1>17, <2>1 DEF Blocking
  <1>19. ASSUME NEW t \in Tasks, jobTask'[t].status \in ActiveStatuses,
                jobTask[t].status \notin ActiveStatuses
         PROVE  \A d \in Preds(edges, t) : jobTask'[d].status = "SUCCESS"
    <2>1. synced[t].status \notin ActiveStatuses
      BY <1>3, <1>4, <1>19, SyncedStatus
    <2>2. t \in ready
      <3>1. CASE t \in skipped
        BY <1>13, <1>15, <1>19, <3>1, <2>1, <1>8 DEF ActiveStatuses
      <3>2. CASE t \notin skipped /\ t \notin ready
        BY <1>14, <1>15, <1>19, <2>1, <3>2
      <3> QED
        BY <3>1, <3>2
    <2> QED
      BY <1>8, <1>17, <2>2
  <1>20. ASSUME NEW t \in Tasks, jobTask'[t].status = "SKIPPED", jobTask[t].status # "SKIPPED"
         PROVE  \E d \in Preds(edges, t) : jobTask'[d].status \in Blocking
    <2>1. synced[t].status # "SKIPPED"
      BY <1>3, <1>4, <1>20, SyncedStatus
    <2>2. t \in skipped
      BY <1>14, <1>15, <1>16, <1>20, <2>1
    <2>3. PICK d \in Preds(edges, t) : d \in blocked \cup skipped
      BY <1>9, <2>2
    <2>4. CASE d \in skipped
      <3>1. d \in Tasks /\ d \notin ready
        BY <1>5, <1>8, <1>9, <2>4
      <3> QED
        BY <1>13, <1>15, <2>4, <3>1 DEF Blocking
    <2>5. CASE d \in blocked
      BY <1>5, <1>17, <2>5 DEF Blocking
    <2> QED
      BY <2>3, <2>4, <2>5
  <1>21. Advance
    BY <1>18, <1>19, <1>20 DEF Advance
  <1> QED
    BY <1>21, SyncCauses

LEMMA RetryReadCauses ==
    ASSUME JobInv, CauseInv, NEW c \in Clients, RetryRead(c)
    PROVE  CauseInv'
  <1>1. proc \in [Procs -> Proc] /\ Clients \subseteq Procs
    BY DEF JobInv, JobTypeOK, Procs
  <1>2. /\ UNCHANGED <<edges, job, jobTask>>
        /\ job \in {"FAILED", "CANCELLED"}
        /\ proc' = [proc EXCEPT ![c] = [pc |-> "reset", seen |-> jobTask]]
    BY DEF RetryRead, apiFrame, Goto
  <1>3. TasksIn(jobTask, TaskTerminal) = Tasks
    BY <1>2 DEF CauseInv, TasksOver, JobTerminal
  <1>4. \A d \in Clients : proc'[d] = proc[d] \/ proc'[d].seen = jobTask
    BY <1>1, <1>2
  <1> QED
    BY <1>2, <1>3, <1>4 DEF CauseInv, TasksOver, Grounded, Caused, TasksIn, Preds

\* A retry that writes what it read long ago takes back a task with everything above it.
LEMMA RetryResetCauses ==
    ASSUME JobInv, CauseInv, NEW c \in Clients, RetryReset(c)
    PROVE  CauseInv'
  <1>1. proc \in [Procs -> Proc] /\ Clients \subseteq Procs /\ UNCHANGED edges
    BY DEF JobInv, JobTypeOK, Procs, RetryReset, apiFrame
  <1>2. CASE ~ Exists /\ Goto(c, Idle) /\ UNCHANGED <<job, jobTask>>
    BY <1>1, <1>2, QuietCauses, ProcStates DEF Idle
  <1> DEFINE seen == proc[c].seen
  <1>3. CASE /\ jobTask' = [t \in Tasks |-> Rearmed(t, seen[t])]
             /\ job' = "RUNNING"
             /\ Goto(c, [pc |-> "uncancel"])
    <2>1. /\ TasksIn(seen, TaskTerminal) = Tasks
          /\ \A t \in Tasks : seen[t].status = "SUCCESS" =>
               \A d \in Preds(edges, t) : seen[d].status = "SUCCESS"
      BY DEF RetryReset, CauseInv, Grounded, TasksIn, ActiveStatuses
    <2>2. \A t \in Tasks : seen[t].status \in Retryable \/ seen[t].status = "SUCCESS"
      BY <2>1 DEF TasksIn, TaskTerminal, Retryable
    <2> HIDE DEF seen
    <2>3. \A t \in Tasks : seen[t].status \in Retryable => jobTask'[t].status = "PENDING"
      BY <1>3 DEF Rearmed
    <2>4. \A t \in Tasks : seen[t].status = "SUCCESS" => jobTask'[t] = jobTask[t]
      BY <1>3 DEF Rearmed, Retryable
    <2>5. ASSUME NEW t \in Tasks, jobTask'[t].status # "PENDING"
          PROVE  /\ jobTask'[t] = jobTask[t]
                 /\ \A d \in Preds(edges, t) : d \in Tasks /\ jobTask'[d] = jobTask[d]
      BY <2>1, <2>2, <2>3, <2>4, <2>5 DEF Preds
    <2>6. Grounded(jobTask)'
      BY <1>1, <2>5 DEF CauseInv, Grounded, TasksIn, ActiveStatuses
    <2>7. Caused(jobTask)'
      BY <1>1, <2>5 DEF CauseInv, Caused, TasksIn
    <2>8. TasksOver'
      BY <1>3 DEF TasksOver, JobTerminal
    <2>9. \A d \in Clients : proc'[d].pc = "reset" => proc'[d] = proc[d]
      BY <1>1, <1>3 DEF Goto
    <2> QED
      BY <1>1, <1>3, <2>6, <2>7, <2>8, <2>9 DEF CauseInv, Grounded, TasksIn
  <1> QED
    BY <1>2, <1>3 DEF RetryReset

LEMMA DeleteCommitCauses ==
    ASSUME JobInv, CauseInv, NEW c \in Clients, DeleteCommit(c)
    PROVE  CauseInv'
  <1>1. /\ proc \in [Procs -> Proc] /\ Clients \subseteq Procs
        /\ UNCHANGED <<edges, jobTask>>
        /\ job' = IF Exists THEN "DELETED" ELSE job
        /\ Goto(c, Idle)
    BY DEF JobInv, JobTypeOK, DeleteCommit, apiFrame, Procs
  <1>2. \A d \in Clients : proc'[d].pc = "reset" => proc'[d] = proc[d]
    BY <1>1 DEF Goto, Idle
  <1>3. job' # "NONE" \/ job' = job
    BY <1>1
  <1>4. job' \notin JobTerminal
    BY <1>1 DEF Exists, JobStatuses, JobTerminal
  <1> QED
    BY <1>1, <1>2, <1>3, <1>4 DEF CauseInv, TasksOver, Grounded, Caused, TasksIn

LEMMA CausesNext == JobInv /\ CauseInv /\ [Next]_vars => CauseInv'
  <1> SUFFICES ASSUME JobInv, CauseInv, [Next]_vars PROVE CauseInv'
    OBVIOUS
  <1> USE DEF execVars, jobVars, syncFrame, apiFrame
  <1>1. CASE SaveGraph
    <2>1. \A t \in Tasks : jobTask[t].status = "PENDING"
      BY <1>1 DEF SaveGraph, JobInv, NotStarted, TasksIn
    <2>2. \A c \in Clients : proc'[c].pc # "reset"
      BY <1>1 DEF SaveGraph, CauseInv
    <2> QED
      BY <1>1, <2>1, <2>2 DEF SaveGraph, CauseInv, TasksOver, Grounded, Caused, TasksIn,
                              ActiveStatuses, JobTerminal
  <1>2. CASE KeyExpires \/ UNCHANGED vars
    BY <1>2, QuietCauses DEF KeyExpires, vars
  <1>3. ASSUME NEW x \in Executions, ExecutionMoves(x)
        PROVE  CauseInv'
    BY <1>3, QuietCauses DEF ExecutionMoves
  <1>4. ASSUME NEW p \in Procs,
               \/ SyncSkipped(p) \/ Push(p) \/ ClearKey(p) \/ NotifyRead(p) \/ Announce(p)
               \/ CancelRead(p) \/ CancelSet(p) \/ RetryUncancel(p) \/ DeleteRead(p)
               \/ Crash(p) \/ SyncLock(p)
        PROVE  CauseInv'
    <2>1. UNCHANGED <<edges, job, jobTask>>
      BY <1>4 DEF SyncSkipped, Push, ClearKey, NotifyRead, Announce, CancelRead, CancelSet,
                  RetryUncancel, DeleteRead, Crash, SyncLock
    <2>2. proc'[p].pc # "reset" /\ Goto(p, proc'[p]) /\ proc'[p] \in Proc
      BY <1>4, ProcMoves
    <2> QED
      BY <2>1, <2>2, QuietCauses
  <1>5. Clients \subseteq Procs /\ Loops \subseteq Procs
    BY DEF Procs
  <1> QED
    BY <1>1, <1>2, <1>3, <1>4, <1>5, CancellingCauses, AdvancingCauses, StartCauses,
       RetryReadCauses, RetryResetCauses, DeleteCommitCauses
       DEF Next, SyncProceeds, RequestArrives, RequestProceeds

\* A task is skipped only below one that failed, was cancelled or was skipped itself, for any
\* graph, any requests that overlap and any automatic retries: a retry that writes what it
\* read before another one takes back what was skipped together with its cause.
THEOREM SkipsAreCaused == Spec => []SkipsHaveACause
  <1>1. JobInv /\ CauseInv /\ [Next]_vars => (JobInv /\ CauseInv)'
    BY JobInvInductive, CausesNext
  <1>2. CauseInv => SkipsHaveACause
    BY DEF CauseInv, Caused, SkipsHaveACause
  <1> QED
    BY <1>1, <1>2, JobInit, CausesStart, PTL DEF Spec

=============================================================================
