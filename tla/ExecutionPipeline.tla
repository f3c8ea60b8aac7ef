--------------------------- MODULE ExecutionPipeline ---------------------------
(***************************************************************************)
(* The life of an execution across the API processes, the workers (consume *)
(* loop, notebook tasks, recovery loop), the Postgres row and the Redis    *)
(* queue. A step is one transaction or one Redis command: between two of   *)
(* them every other process may move, and the process itself may die.      *)
(***************************************************************************)
EXTENDS ExecutionQueue, ExecutionRows, FiniteSets

CONSTANTS Workers,    \* worker processes
          Capacity,   \* max_concurrent_executions: permits of a worker's semaphore
          Clients,    \* concurrent API requests
          ApiOps,     \* the operations the clients issue
          Beating,    \* task phases in which a live task's heartbeat cannot be late
          Faults,     \* the kinds of failure considered
          MaxFaults   \* bound: how many failures a behaviour may have

AllApiOps == {"submit", "retry", "cancel", "delete"}
AllFaults == {"crash", "stop", "raise", "unreadable", "pump", "ack", "api"}

\* The notebook process lives; "muted": nobody reads its output any more.
NotebookPhases == {"executing", "muted"}
RunPhases == {"installing", "finishing"} \cup NotebookPhases

ASSUME PipelineAssumption ==
    /\ IsFiniteSet(Workers)
    /\ IsFiniteSet(Clients)
    /\ Capacity \in Nat \ {0}
    /\ ApiOps \subseteq AllApiOps
    /\ Beating \subseteq RunPhases
    /\ Faults \subseteq AllFaults
    /\ MaxFaults \in Nat

VARIABLES consumer,   \* per worker: where _consume_loop is
          task,       \* per permit of a worker: the _process coroutine that holds it
          effects,    \* per worker: Redis effects its recovery pass still owes
          client,     \* per API request: where its handler is
          faults      \* failures so far

procVars == <<consumer, task, effects, client, faults>>
vars == <<queueVars, rowVars, procVars>>

Slots == Workers \X (1..Capacity)

Idle == [pc |-> "idle"]
Leaked == [pc |-> "leaked"]    \* the permit was never released
Down == [pc |-> "down"]

Task ==
    {Idle, Leaked}
      \cup [pc : {"leased", "installing", "executing", "muted", "clearing", "acking"},
            msg : Message]
      \cup [pc : {"finishing", "deciding"}, msg : Message,
            outcome : Successors["RUNNING"]]
      \cup [pc : {"applying"}, msg : Message,
            seen : [status : Statuses, attempt : 1..MaxRetries]]
      \cup [pc : {"retrying", "burying"}, msg : Message, target : Message]

Consumer == [pc : {"promote", "lease", "stopping", "down"}]
              \cup [pc : {"push"}, msg : Message]

Effect == [kind : {"retry", "dead"}, target : Message]

Client == {Idle} \cup [pc : {"enqueue"}, msg : Message]
            \cup [pc : {"retry"}, exec : Executions,
                  seen : [status : FailedStatuses, attempt : 1..(MaxAttempt - 1)]]
            \cup [pc : {"cancel", "d_cancel"}, exec : Executions,
                  seen : [status : {"QUEUED"}, attempt : 1..MaxAttempt]]
            \cup [pc : {"signal", "d_key", "d_signal", "d_wait", "d_read", "d_commit"},
                  exec : Executions]

TypeOK ==
    /\ QueueTypeOK
    /\ RowsTypeOK
    /\ consumer \in [Workers -> Consumer]
    /\ task \in [Slots -> Task]
    /\ effects \in [Workers -> SUBSET Effect]
    /\ client \in [Clients -> Client]
    /\ faults \in 0..MaxFaults

Init ==
    /\ QueueInit
    /\ RowsInit
    /\ consumer = [w \in Workers |-> [pc |-> "promote"]]
    /\ task = [s \in Slots |-> Idle]
    /\ effects = [w \in Workers |-> {}]
    /\ client = [c \in Clients |-> Idle]
    /\ faults = 0

Goto(s, t) == task' = [task EXCEPT ![s] = t]
At(s, pc) == [pc |-> pc, msg |-> task[s].msg]
ConsumerAt(w, pc) == consumer' = [consumer EXCEPT ![w] = [pc |-> pc]]
ClientAt(c, state) == client' = [client EXCEPT ![c] = state]

Msg(e, attempt) == [exec |-> e, attempt |-> attempt]

-----------------------------------------------------------------------------
(* The consume loop of a worker. *)

Consuming(w) == consumer[w].pc \in {"promote", "push", "lease"}

\* promote_due removes a due entry ...
PromoteRemove(w) ==
    /\ consumer[w].pc = "promote"
    /\ \E m \in Message :
         /\ RemoveDue(m)
         /\ consumer' = [consumer EXCEPT ![w] = [pc |-> "push", msg |-> m]]
    /\ UNCHANGED <<main, processing, dlq, cancelKey, rowVars, task, effects, client, faults>>

\* ... and only then pushes it: it is nowhere in Redis in between.
PromotePush(w) ==
    /\ consumer[w].pc = "push"
    /\ Enqueue(consumer[w].msg)
    /\ ConsumerAt(w, "promote")
    /\ UNCHANGED <<processing, delayed, dlq, cancelKey, rowVars, task, effects, client, faults>>

\* Nothing (more) is due.
PromoteDone(w) ==
    /\ consumer[w].pc = "promote"
    /\ ConsumerAt(w, "lease")
    /\ UNCHANGED <<queueVars, rowVars, task, effects, client, faults>>

FreeSlots(w) == {s \in Slots : s[1] = w /\ task[s] = Idle}

\* sem.acquire, the BLMOVE, and the _process task that takes the permit over
LeaseNext(w) ==
    /\ consumer[w].pc = "lease"
    /\ \E s \in FreeSlots(w) :
         Lease /\ Goto(s, [pc |-> "leased", msg |-> Head(main)])
    /\ ConsumerAt(w, "promote")
    /\ UNCHANGED <<delayed, dlq, cancelKey, rowVars, effects, client, faults>>

\* the BLMOVE times out: the permit goes back
LeaseEmpty(w) ==
    /\ consumer[w].pc = "lease"
    /\ FreeSlots(w) # {}
    /\ main = <<>>
    /\ ConsumerAt(w, "promote")
    /\ UNCHANGED <<queueVars, rowVars, task, effects, client, faults>>

\* After SIGTERM the loop waits for its tasks, then the process ends.
Drained(w) ==
    /\ consumer[w].pc = "stopping"
    /\ effects[w] = {}
    /\ \A s \in Slots : s[1] = w => task[s] \in {Idle, Leaked}
    /\ ConsumerAt(w, "down")
    /\ task' = [s \in Slots |-> IF s[1] = w THEN Idle ELSE task[s]]
    /\ UNCHANGED <<queueVars, rowVars, effects, client, faults>>

Restart(w) ==
    /\ consumer[w] = Down
    /\ ConsumerAt(w, "promote")
    /\ UNCHANGED <<queueVars, rowVars, task, effects, client, faults>>

ConsumerStep(w) ==
    \/ PromoteRemove(w) \/ PromotePush(w) \/ PromoteDone(w)
    \/ LeaseNext(w) \/ LeaseEmpty(w) \/ Drained(w) \/ Restart(w)

-----------------------------------------------------------------------------
(* A task: ExecutionManager.run and the finally block of _process. *)

taskFrame == <<main, delayed, dlq, consumer, effects, client, faults>>

\* _start finds the row QUEUED and commits RUNNING ...
Start(s) ==
    /\ task[s].pc = "leased"
    /\ MarkRunning(task[s].msg.exec, task[s].msg.attempt)
    /\ Goto(s, At(s, "installing"))
    /\ UNCHANGED <<taskFrame, processing, cancelKey>>

\* Mutant: a message is also dropped when a cancel was requested.
RejectCancelled(s) ==
    /\ task[s].pc = "leased"
    /\ \/ ~ CanTransition(row[task[s].msg.exec].status, "RUNNING")
       \/ task[s].msg.exec \in cancelKey
    /\ Goto(s, At(s, "clearing"))
    /\ UNCHANGED <<taskFrame, rowVars, processing, cancelKey>>

\* ... or raises ConflictError, and run drops the cancel request.
Reject(s) ==
    /\ task[s].pc = "leased"
    /\ ~ CanTransition(row[task[s].msg.exec].status, "RUNNING")
    /\ Goto(s, At(s, "clearing"))
    /\ UNCHANGED <<taskFrame, rowVars, processing, cancelKey>>

\* _install_dependencies: pip, with no heartbeat running
InstallEnds(s) ==
    /\ task[s].pc = "installing"
    /\ \/ Goto(s, At(s, "executing"))
       \/ Goto(s, [pc |-> "finishing", msg |-> task[s].msg, outcome |-> "FAILED"])
    /\ UNCHANGED <<taskFrame, rowVars, processing, cancelKey>>

\* one round of _heartbeat_loop; it stops with the notebook
Heartbeat(s) ==
    /\ task[s].pc \in NotebookPhases
    /\ Beat(task[s].msg.exec)
    /\ UNCHANGED <<queueVars, procVars>>

\* the notebook process ends by itself or by its timeout ...
RunEnds(s) ==
    /\ task[s].pc \in NotebookPhases
    /\ \E outcome \in {"SUCCESS", "FAILED", "TIMEOUT"} :
         Goto(s, [pc |-> "finishing", msg |-> task[s].msg, outcome |-> outcome])
    /\ UNCHANGED <<taskFrame, rowVars, processing, cancelKey>>

\* ... or _cancel_watch sees the key and it is killed.
RunCancelled(s) ==
    /\ task[s].pc \in NotebookPhases
    /\ task[s].msg.exec \in cancelKey
    /\ Goto(s, [pc |-> "finishing", msg |-> task[s].msg, outcome |-> "CANCELLED"])
    /\ UNCHANGED <<taskFrame, rowVars, processing, cancelKey>>

\* The transaction of _finish, or of mark_cancelled: the row as it is now decides.
FinishRow(s) ==
    /\ task[s].pc = "finishing"
    /\ LET outcome == task[s].outcome IN
         /\ Finish(task[s].msg.exec, outcome)
         /\ \/ outcome = "SUCCESS" /\ Goto(s, At(s, "acking"))
            \/ outcome = "CANCELLED" /\ Goto(s, At(s, "clearing"))
            \/ /\ outcome \in FailedStatuses
               /\ Goto(s, [pc |-> "deciding", msg |-> task[s].msg, outcome |-> outcome])
    /\ UNCHANGED <<taskFrame, processing, cancelKey>>

\* ConflictError out of run: _process logs it and acknowledges.
FinishConflict(s) ==
    /\ task[s].pc = "finishing"
    /\ ~ CanTransition(row[task[s].msg.exec].status, task[s].outcome)
    /\ Goto(s, At(s, "acking"))
    /\ UNCHANGED <<taskFrame, rowVars, processing, cancelKey>>

\* _handle_failure, a transaction of its own: decide_and_apply reads the row ...
Decide(s) ==
    /\ task[s].pc = "deciding"
    /\ LET e == task[s].msg.exec IN
         \E class \in ClassesOf(task[s].outcome) :
           Goto(s, IF ~ Exists(e) THEN At(s, "acking")
                   ELSE IF ShouldRetry(row[e].attempt, class)
                     THEN [pc |-> "applying", msg |-> task[s].msg, seen |-> row[e]]
                     ELSE [pc |-> "burying", msg |-> task[s].msg,
                           target |-> Msg(e, row[e].attempt)])
    /\ UNCHANGED <<taskFrame, rowVars, processing, cancelKey>>

\* ... and requeues it on the strength of that read.
Apply(s) ==
    /\ task[s].pc = "applying"
    /\ LET e == task[s].msg.exec
           seen == task[s].seen
       IN /\ RequeueSeen(e, seen)
          /\ Goto(s, [pc |-> "retrying", msg |-> task[s].msg,
                      target |-> Msg(e, seen.attempt + 1)])
    /\ UNCHANGED <<taskFrame, processing, cancelKey>>

ApplyConflict(s) ==
    /\ task[s].pc = "applying"
    /\ \/ ~ Exists(task[s].msg.exec)
       \/ ~ CanTransition(task[s].seen.status, "QUEUED")
    /\ Goto(s, At(s, "acking"))
    /\ UNCHANGED <<taskFrame, rowVars, processing, cancelKey>>

\* The Redis effect of the decision, after its commit.
ScheduleRetry(s) ==
    /\ task[s].pc = "retrying"
    /\ EnqueueDelayed(task[s].target)
    /\ Goto(s, At(s, "acking"))
    /\ UNCHANGED <<main, processing, dlq, cancelKey, rowVars, consumer, effects, client, faults>>

Bury(s) ==
    /\ task[s].pc = "burying"
    /\ DeadLetter(task[s].target)
    /\ Goto(s, At(s, "acking"))
    /\ UNCHANGED <<main, processing, delayed, cancelKey, rowVars, consumer, effects, client, faults>>

DropCancel(s) ==
    /\ task[s].pc = "clearing"
    /\ ClearCancel(task[s].msg.exec)
    /\ Goto(s, At(s, "acking"))
    /\ UNCHANGED <<taskFrame, rowVars, processing>>

\* Mutant: the permit is not released.
AckWithoutRelease(s) ==
    /\ task[s].pc = "acking"
    /\ Ack(task[s].msg)
    /\ Goto(s, Leaked)
    /\ UNCHANGED <<taskFrame, rowVars, cancelKey>>

AckAndRelease(s) ==
    /\ task[s].pc = "acking"
    /\ Ack(task[s].msg)
    /\ Goto(s, Idle)
    /\ UNCHANGED <<taskFrame, rowVars, cancelKey>>

\* What a live worker does next without waiting for the notebook to end.
TaskProceeds(s) ==
    \/ Start(s) \/ Reject(s) \/ InstallEnds(s) \/ RunCancelled(s)
    \/ FinishRow(s) \/ FinishConflict(s)
    \/ Decide(s) \/ Apply(s) \/ ApplyConflict(s)
    \/ ScheduleRetry(s) \/ Bury(s) \/ DropCancel(s) \/ AckAndRelease(s)

TaskStep(s) == TaskProceeds(s) \/ RunEnds(s) \/ Heartbeat(s)

-----------------------------------------------------------------------------
(* Time and the recovery loop. *)

\* The lease runs out: no heartbeat of this execution for that long.
LeaseExpires(e) ==
    /\ row[e].status = "RUNNING"
    /\ lease[e] = "fresh"
    /\ \A s \in Slots : task[s].pc \in Beating => task[s].msg.exec # e
    /\ lease' = [lease EXCEPT ![e] = "expired"]
    /\ UNCHANGED <<row, queueVars, procVars>>

\* recover_stale_executions, its one transaction; SKIP LOCKED may leave some rows out.
Recover(w) ==
    /\ Consuming(w)
    /\ effects[w] = {}
    /\ \E S \in SUBSET {e \in Executions : Stale(e)} :
         /\ S # {}
         /\ ForceFailAndDecide(S)
         /\ effects' = [effects EXCEPT ![w] =
              {[kind |-> IF Recovered(e).status = "QUEUED" THEN "retry" ELSE "dead",
                target |-> Msg(e, Recovered(e).attempt)] : e \in S}]
    /\ UNCHANGED <<queueVars, consumer, task, client, faults>>

\* The effects of the pass, one by one, after the commit.
RecoveryEffect(w) ==
    /\ \E x \in effects[w] :
         /\ \/ x.kind = "retry" /\ EnqueueDelayed(x.target) /\ UNCHANGED dlq
            \/ x.kind = "dead" /\ DeadLetter(x.target) /\ UNCHANGED delayed
         /\ effects' = [effects EXCEPT ![w] = @ \ {x}]
    /\ UNCHANGED <<main, processing, cancelKey, rowVars, consumer, task, client, faults>>

RecoveryStep(w) == Recover(w) \/ RecoveryEffect(w)

-----------------------------------------------------------------------------
(* The API handlers. Each reads the row in its first step and acts on what  *)
(* it read in the next ones.                                                *)

apiFrame == <<processing, delayed, dlq, lease, consumer, task, effects, faults>>

Arrives(c, op) == op \in ApiOps /\ client[c] = Idle

\* POST /execute: the row is committed, then the message pushed.
Submit(c) ==
    /\ Arrives(c, "submit")
    /\ \E e \in Executions :
         Create(e) /\ ClientAt(c, [pc |-> "enqueue", msg |-> Msg(e, 1)])
    /\ UNCHANGED <<apiFrame, main, cancelKey>>

PushMessage(c) ==
    /\ client[c].pc = "enqueue"
    /\ Enqueue(client[c].msg)
    /\ ClientAt(c, Idle)
    /\ UNCHANGED <<apiFrame, row, cancelKey>>

\* POST /retry
RetryRead(c) ==
    /\ Arrives(c, "retry")
    /\ \E e \in Executions :
         /\ row[e].status \in FailedStatuses
         /\ row[e].attempt < MaxAttempt
         /\ ClientAt(c, [pc |-> "retry", exec |-> e, seen |-> row[e]])
    /\ UNCHANGED <<apiFrame, row, main, cancelKey>>

RetryApply(c) ==
    /\ client[c].pc = "retry"
    /\ LET e == client[c].exec
           seen == client[c].seen
       IN \/ /\ RequeueSeen(e, seen)
             /\ ClientAt(c, [pc |-> "enqueue", msg |-> Msg(e, seen.attempt + 1)])
          \/ ~ Exists(e) /\ ClientAt(c, Idle) /\ UNCHANGED row
    /\ UNCHANGED <<apiFrame, main, cancelKey>>

\* POST /cancel: what is neither terminal nor QUEUED gets the signal.
CancelRead(c) ==
    /\ Arrives(c, "cancel")
    /\ \E e \in Executions :
         /\ Exists(e) /\ row[e].status \notin TerminalStatuses
         /\ ClientAt(c, IF row[e].status = "QUEUED"
                          THEN [pc |-> "cancel", exec |-> e, seen |-> row[e]]
                          ELSE [pc |-> "signal", exec |-> e])
    /\ UNCHANGED <<apiFrame, row, main, cancelKey>>

CancelApply(c) ==
    /\ client[c].pc \in {"cancel", "d_cancel"}
    /\ LET e == client[c].exec IN
         \/ /\ CancelSeen(e, client[c].seen)
            /\ ClientAt(c, IF client[c].pc = "cancel" THEN Idle
                           ELSE [pc |-> "d_key", exec |-> e])
         \/ ~ Exists(e) /\ ClientAt(c, Idle) /\ UNCHANGED row
    /\ UNCHANGED <<apiFrame, main, cancelKey>>

\* request_cancel: the end of a cancel, a step of a delete
Signal(c) ==
    /\ client[c].pc \in {"signal", "d_key", "d_signal"}
    /\ LET e == client[c].exec IN
         /\ RequestCancel(e)
         /\ \/ client[c].pc = "signal" /\ ClientAt(c, Idle)
            \/ client[c].pc = "d_key" /\ ClientAt(c, [pc |-> "d_read", exec |-> e])
            \/ client[c].pc = "d_signal" /\ ClientAt(c, [pc |-> "d_wait", exec |-> e])
    /\ UNCHANGED <<apiFrame, row, main>>

\* DELETE: cancel_for_delete settles the row first ...
DeleteRead(c) ==
    /\ Arrives(c, "delete")
    /\ \E e \in Executions :
         \/ /\ row[e].status = "QUEUED"
            /\ ClientAt(c, [pc |-> "d_cancel", exec |-> e, seen |-> row[e]])
         \/ row[e].status = "RUNNING" /\ ClientAt(c, [pc |-> "d_signal", exec |-> e])
         \/ /\ row[e].status \in DeletableStatuses
            /\ ClientAt(c, [pc |-> "d_read", exec |-> e])
    /\ UNCHANGED <<apiFrame, row, main, cancelKey>>

\* ... polling until it is over, or giving up with a 409 ...
DeleteWait(c) ==
    /\ client[c].pc = "d_wait"
    /\ \/ /\ row[client[c].exec].status \in DeletableStatuses \cup {"DELETED"}
          /\ ClientAt(c, [pc |-> "d_read", exec |-> client[c].exec])
       \/ /\ row[client[c].exec].status \in {"QUEUED", "RUNNING"}
          /\ ClientAt(c, Idle)
    /\ UNCHANGED <<apiFrame, row, main, cancelKey>>

\* ... then delete tests a fresh read, and removes the row and the key.
DeleteTest(c) ==
    /\ client[c].pc = "d_read"
    /\ ClientAt(c, IF row[client[c].exec].status \in DeletableStatuses
                     THEN [pc |-> "d_commit", exec |-> client[c].exec] ELSE Idle)
    /\ UNCHANGED <<apiFrame, row, main, cancelKey>>

DeleteCommit(c) ==
    /\ client[c].pc = "d_commit"
    /\ row' = [row EXCEPT ![client[c].exec].status = "DELETED"]
    /\ ClearCancel(client[c].exec)
    /\ ClientAt(c, Idle)
    /\ UNCHANGED <<apiFrame, main>>

ClientArrives(c) ==
    Submit(c) \/ RetryRead(c) \/ CancelRead(c) \/ DeleteRead(c)

ClientProceeds(c) ==
    \/ PushMessage(c) \/ RetryApply(c) \/ CancelApply(c) \/ Signal(c)
    \/ DeleteWait(c) \/ DeleteTest(c) \/ DeleteCommit(c)

\* Mutant: a TTL shorter than the poll of _cancel_watch.
KeyExpiresSoon(e) ==
    /\ e \in cancelKey
    /\ ClearCancel(e)
    /\ UNCHANGED <<main, processing, delayed, dlq, rowVars, procVars>>

\* The TTL of a cancel key, an hour: no live task leaves it unseen for that long.
KeyExpires(e) ==
    /\ e \in cancelKey
    /\ \A s \in Slots : task[s].pc \in NotebookPhases => task[s].msg.exec # e
    /\ ClearCancel(e)
    /\ UNCHANGED <<main, processing, delayed, dlq, rowVars, procVars>>

-----------------------------------------------------------------------------
(* Failures, at most MaxFaults of them. *)

Fault(kind) ==
    /\ kind \in Faults
    /\ faults < MaxFaults
    /\ faults' = faults + 1

\* The worker process dies; what it was doing is forgotten.
Crash(w) ==
    /\ Fault("crash")
    /\ consumer[w] # Down
    /\ ConsumerAt(w, "down")
    /\ task' = [s \in Slots |-> IF s[1] = w THEN Idle ELSE task[s]]
    /\ effects' = [effects EXCEPT ![w] = {}]
    /\ UNCHANGED <<queueVars, rowVars, client>>

\* SIGTERM
Stop(w) ==
    /\ Fault("stop")
    /\ consumer[w].pc \in {"promote", "lease"}
    /\ ConsumerAt(w, "stopping")
    /\ UNCHANGED <<queueVars, rowVars, task, effects, client>>

\* A Postgres or Redis call of the task raises: _process acknowledges all the same.
TaskRaises(s) ==
    /\ Fault("raise")
    /\ task[s].pc \notin {"idle", "leaked", "acking"}
    /\ Goto(s, At(s, "acking"))
    /\ UNCHANGED <<queueVars, rowVars, consumer, effects, client>>

\* _start cannot read the notebook file: its transaction rolls back to QUEUED.
NotebookUnreadable(s) ==
    /\ Fault("unreadable")
    /\ task[s].pc = "leased"
    /\ CanTransition(row[task[s].msg.exec].status, "RUNNING")
    /\ Goto(s, At(s, "acking"))
    /\ UNCHANGED <<queueVars, rowVars, consumer, effects, client>>

\* on_line raises on one line (Redis, Postgres, a line over the stream limit): the
\* coroutine that reads the output is gone and nobody looks at it, so a notebook
\* that goes on printing blocks on its full pipe.
PumpDies(s) ==
    /\ Fault("pump")
    /\ task[s].pc = "executing"
    /\ Goto(s, At(s, "muted"))
    /\ UNCHANGED <<queueVars, rowVars, consumer, effects, client>>

\* The LREM of the finally block raises: sem.release is never reached.
AckRaises(s) ==
    /\ Fault("ack")
    /\ task[s].pc = "acking"
    /\ Goto(s, Leaked)
    /\ UNCHANGED <<queueVars, rowVars, consumer, effects, client>>

\* The API process dies between two steps of a request.
RequestDies(c) ==
    /\ Fault("api")
    /\ client[c] # Idle
    /\ ClientAt(c, Idle)
    /\ UNCHANGED <<queueVars, rowVars, consumer, task, effects>>

FaultStep ==
    \/ \E w \in Workers : Crash(w) \/ Stop(w)
    \/ \E s \in Slots : TaskRaises(s) \/ NotebookUnreadable(s) \/ PumpDies(s) \/ AckRaises(s)
    \/ \E c \in Clients : RequestDies(c)

-----------------------------------------------------------------------------

Next ==
    \/ \E w \in Workers : ConsumerStep(w) \/ RecoveryStep(w)
    \/ \E s \in Slots : TaskStep(s)
    \/ \E c \in Clients : ClientArrives(c) \/ ClientProceeds(c)
    \/ \E e \in Executions : LeaseExpires(e) \/ KeyExpires(e)
    \/ FaultStep

Spec == Init /\ [][Next]_vars

(***************************************************************************)
(* The asyncio loops of a process keep running (weak fairness); a delayed  *)
(* entry is due after a bounded backoff, so promote_due finds it in some   *)
(* round even though every round may also end before it is due (strong     *)
(* fairness). Nothing is assumed of the notebook itself, nor that a worker *)
(* that is down comes back.                                                *)
(***************************************************************************)
LiveSpec ==
    /\ Spec
    /\ \A w \in Workers :
         /\ WF_vars(consumer[w] # Down /\ ConsumerStep(w))
         /\ WF_vars(Recover(w))
         /\ WF_vars(RecoveryEffect(w))
    /\ SF_vars(\E w \in Workers : PromoteRemove(w))
    /\ \A s \in Slots : WF_vars(TaskProceeds(s))
    /\ \A c \in Clients : WF_vars(ClientProceeds(c))
    /\ \A e \in Executions : WF_vars(LeaseExpires(e))

\* As LiveSpec, for notebooks that terminate as long as they can print; without
\* EXECUTION_TIMEOUT_S, as configured by default, a blocked one may stay.
TerminatingSpec ==
    LiveSpec /\ \A s \in Slots : WF_vars(task[s].pc = "executing" /\ RunEnds(s))
==============================================================================
