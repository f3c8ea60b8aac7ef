--------------------------- MODULE ExecutionProofs ---------------------------
(***************************************************************************)
(* Theorems about the execution pipeline, for any number of executions,    *)
(* workers, permits, requests, retries and failures: the rows and their    *)
(* leases first, then the messages that start executions (at most one for  *)
(* an execution, for the attempt of its row; a QUEUED row has one) and the *)
(* tasks that run them (one at most for an execution).                     *)
(***************************************************************************)
EXTENDS ExecutionProperties, FiniteSetTheorems, TLAPS

-----------------------------------------------------------------------------
(* Shapes of the records. *)

\* What the phase of a task says about its other fields.
LEMMA TaskFields ==
    ASSUME NEW t \in Task
    PROVE  /\ t.pc \notin {"idle", "leaked"} => t.msg \in Message
           /\ t.pc \in {"finishing", "deciding"} => t.outcome \in Successors["RUNNING"]
           /\ t.pc = "applying" => t.seen \in [status : Statuses, attempt : 1..MaxRetries]
           /\ t.pc \in {"retrying", "burying"} => t.target \in Message
  BY DEF Task, Idle, Leaked

\* A task may be moved to any of these states.
LEMMA TaskStates ==
    ASSUME NEW m \in Message
    PROVE  /\ Idle \in Task /\ Leaked \in Task
           /\ \A p \in {"leased", "installing", "executing", "muted", "clearing", "acking"} :
                [pc |-> p, msg |-> m] \in Task
           /\ \A o \in Successors["RUNNING"] : \A p \in {"finishing", "deciding"} :
                [pc |-> p, msg |-> m, outcome |-> o] \in Task
           /\ \A r \in [status : Statuses, attempt : 1..MaxRetries] :
                [pc |-> "applying", msg |-> m, seen |-> r] \in Task
           /\ \A t \in Message : \A p \in {"retrying", "burying"} :
                [pc |-> p, msg |-> m, target |-> t] \in Task
  BY DEF Task

LEMMA ClientFields ==
    ASSUME NEW k \in Client
    PROVE  /\ k.pc = "enqueue" => k.msg \in Message
           /\ k.pc \in {"retry", "cancel", "d_cancel", "signal", "d_key", "d_signal",
                       "d_wait", "d_read", "d_commit"} => k.exec \in Executions
           /\ k.pc = "retry" =>
                k.seen \in [status : FailedStatuses, attempt : 1..(MaxAttempt - 1)]
           /\ k.pc \in {"cancel", "d_cancel"} =>
                k.seen \in [status : {"QUEUED"}, attempt : 1..MaxAttempt]
  BY DEF Client, Idle

LEMMA BagOperations ==
    ASSUME NEW bag \in Bag, NEW m \in Message
    PROVE  Put(bag, m) \in Bag /\ Take(bag, m) \in Bag
  BY DEF Bag, Put, Take

\* A row that exists has a legal attempt number; so has the message of its retry.
LEMMA RowFields ==
    ASSUME NEW r \in RowOrNone, r.status \in Statuses
    PROVE  r \in Row
  BY DEF RowOrNone, Row, Absent, Statuses

-----------------------------------------------------------------------------
(* Type correctness. *)

\* The invariant in two halves: what Redis and Postgres hold, what processes hold.
ProcTypeOK ==
    /\ consumer \in [Workers -> Consumer]
    /\ task \in [Slots -> Task]
    /\ effects \in [Workers -> SUBSET Effect]
    /\ client \in [Clients -> Client]
    /\ faults \in 0..MaxFaults

LEMMA InitTypes == Init => TypeOK
  <1> USE RetryPolicyAssumption, PipelineAssumption
  <1>1. EmptyBag \in Bag
    BY DEF EmptyBag, Bag
  <1>2. Init => QueueTypeOK /\ RowsTypeOK
    BY <1>1 DEF Init, QueueInit, RowsInit, QueueTypeOK, RowsTypeOK, RowOrNone
  <1>3. Init => ProcTypeOK
    BY DEF Init, ProcTypeOK, Consumer, Task, Client, Idle
  <1> QED
    BY <1>2, <1>3 DEF TypeOK, ProcTypeOK

LEMMA ConsumerTypes ==
    ASSUME TypeOK, NEW w \in Workers, ConsumerStep(w)
    PROVE  TypeOK'
  <1> USE DEF TypeOK, QueueTypeOK, RowsTypeOK, rowVars, queueVars
  <1>1. ASSUME PromoteRemove(w) PROVE TypeOK'
    BY <1>1, BagOperations DEF PromoteRemove, RemoveDue, Consumer
  <1>2. ASSUME PromotePush(w) PROVE TypeOK'
    <2>1. consumer[w].msg \in Message
      BY <1>2 DEF PromotePush, Consumer
    <2> QED
      BY <1>2, <2>1 DEF PromotePush, Enqueue, ConsumerAt, Consumer
  <1>3. ASSUME PromoteDone(w) PROVE TypeOK'
    BY <1>3 DEF PromoteDone, ConsumerAt, Consumer
  <1>4. ASSUME LeaseNext(w) PROVE TypeOK'
    <2>1. PICK s \in FreeSlots(w) : Lease /\ Goto(s, [pc |-> "leased", msg |-> Head(main)])
      BY <1>4 DEF LeaseNext
    <2>2. Head(main) \in Message /\ main' \in Seq(Message)
      BY <2>1 DEF Lease
    <2>3. processing' \in Bag
      BY <2>1, <2>2, BagOperations DEF Lease
    <2>4. task' \in [Slots -> Task]
      BY <2>1, <2>2, TaskStates DEF Goto, FreeSlots
    <2> QED
      BY <1>4, <2>2, <2>3, <2>4 DEF LeaseNext, ConsumerAt, Consumer
  <1>5. ASSUME LeaseEmpty(w) PROVE TypeOK'
    BY <1>5 DEF LeaseEmpty, ConsumerAt, Consumer
  <1>6. ASSUME Drained(w) PROVE TypeOK'
    BY <1>6 DEF Drained, ConsumerAt, Consumer, Task
  <1>7. ASSUME Restart(w) PROVE TypeOK'
    BY <1>7 DEF Restart, ConsumerAt, Consumer
  <1> QED
    BY <1>1, <1>2, <1>3, <1>4, <1>5, <1>6, <1>7 DEF ConsumerStep

\* A task step that moves only the task, to a legal state.
LEMMA TaskMoves ==
    ASSUME TypeOK, NEW s \in Slots, NEW t \in Task, Goto(s, t),
           UNCHANGED <<taskFrame, rowVars, processing, cancelKey>>
    PROVE  TypeOK'
  BY DEF TypeOK, QueueTypeOK, RowsTypeOK, Goto, taskFrame, rowVars

LEMMA TaskTypes ==
    ASSUME TypeOK, NEW s \in Slots, TaskStep(s)
    PROVE  TypeOK'
  <1> USE RetryPolicyAssumption
  <1> DEFINE m == task[s].msg
             e == m.exec
  <1>0. task[s] \in Task
    BY DEF TypeOK
  <1>m. task[s].pc \notin {"idle", "leaked"} => m \in Message /\ e \in Executions
    <2>1. task[s].pc \notin {"idle", "leaked"} => m \in Message
      BY <1>0, TaskFields
    <2> QED
      BY <2>1 DEF Message
  <1>1. ASSUME Start(s) PROVE TypeOK'
    <2>1. m \in Message /\ e \in Executions /\ m.attempt \in 1..MaxAttempt
      BY <1>1, <1>m DEF Start, Message
    <2>2. row' \in [Executions -> RowOrNone] /\ lease' \in [Executions -> {"fresh", "expired"}]
      BY <1>1, <2>1 DEF Start, MarkRunning, TypeOK, RowsTypeOK, RowOrNone, Row, Statuses
    <2>3. task' \in [Slots -> Task]
      BY <1>1, <2>1, TaskStates DEF Start, Goto, At, TypeOK
    <2> QED
      BY <1>1, <2>2, <2>3 DEF Start, TypeOK, QueueTypeOK, RowsTypeOK, taskFrame
  <1>2. ASSUME Reject(s) PROVE TypeOK'
    <2>1. At(s, "clearing") \in Task
      BY <1>2, <1>m, TaskStates DEF Reject, At
    <2> QED
      BY <1>2, <2>1, TaskMoves DEF Reject
  <1>3. ASSUME InstallEnds(s) PROVE TypeOK'
    <2>1. /\ At(s, "executing") \in Task
          /\ [pc |-> "finishing", msg |-> m, outcome |-> "FAILED"] \in Task
      BY <1>3, <1>m, TaskStates DEF InstallEnds, At, Successors
    <2> QED
      BY <1>3, <2>1, TaskMoves DEF InstallEnds
  <1>4. ASSUME Heartbeat(s) PROVE TypeOK'
    BY <1>4, <1>m DEF Heartbeat, Beat, TypeOK, QueueTypeOK, RowsTypeOK, queueVars, procVars
  <1>5. ASSUME RunEnds(s) PROVE TypeOK'
    <2>1. PICK o \in {"SUCCESS", "FAILED", "TIMEOUT"} :
            Goto(s, [pc |-> "finishing", msg |-> m, outcome |-> o])
      BY <1>5 DEF RunEnds
    <2>2. [pc |-> "finishing", msg |-> m, outcome |-> o] \in Task
      BY <1>5, <1>m, TaskStates DEF RunEnds, NotebookPhases, Successors
    <2> QED
      BY <1>5, <2>1, <2>2, TaskMoves DEF RunEnds
  <1>6. ASSUME RunCancelled(s) PROVE TypeOK'
    <2>1. [pc |-> "finishing", msg |-> m, outcome |-> "CANCELLED"] \in Task
      BY <1>6, <1>m, TaskStates DEF RunCancelled, NotebookPhases, Successors
    <2> QED
      BY <1>6, <2>1, TaskMoves DEF RunCancelled
  <1>7. ASSUME FinishRow(s) PROVE TypeOK'
    <2>1. m \in Message /\ e \in Executions /\ task[s].outcome \in Successors["RUNNING"]
      BY <1>0, <1>7, <1>m, TaskFields DEF FinishRow
    <2>2. row' \in [Executions -> RowOrNone] /\ lease' = lease
      <3>1. row[e] \in Row
        BY <1>7, <2>1, RowFields DEF FinishRow, Finish, CanTransition, TypeOK, RowsTypeOK
      <3>2. task[s].outcome \in Statuses
        BY <2>1 DEF Successors, Statuses
      <3> QED
        BY <1>7, <2>1, <3>1, <3>2
           DEF FinishRow, Finish, SetStatus, TypeOK, RowsTypeOK, RowOrNone, Row
    <2>3. task' \in [Slots -> Task]
      BY <1>7, <2>1, TaskStates DEF FinishRow, Goto, At, TypeOK
    <2> QED
      BY <1>7, <2>2, <2>3 DEF FinishRow, TypeOK, QueueTypeOK, RowsTypeOK, taskFrame
  <1>8. ASSUME FinishConflict(s) PROVE TypeOK'
    <2>1. At(s, "acking") \in Task
      BY <1>8, <1>m, TaskStates DEF FinishConflict, At
    <2> QED
      BY <1>8, <2>1, TaskMoves DEF FinishConflict
  <1>9. ASSUME Decide(s) PROVE TypeOK'
    <2>1. m \in Message /\ e \in Executions
      BY <1>9, <1>m DEF Decide
    <2>2. PICK class \in ClassesOf(task[s].outcome) :
            Goto(s, IF ~ Exists(e) THEN At(s, "acking")
                    ELSE IF ShouldRetry(row[e].attempt, class)
                      THEN [pc |-> "applying", msg |-> m, seen |-> row[e]]
                      ELSE [pc |-> "burying", msg |-> m,
                            target |-> Msg(e, row[e].attempt)])
      BY <1>9 DEF Decide
    <2>3. At(s, "acking") \in Task
      BY <2>1, TaskStates DEF At
    <2>4. ASSUME Exists(e) PROVE row[e] \in Row
      BY <2>1, <2>4, RowFields DEF Exists, TypeOK, RowsTypeOK
    <2>5. ASSUME Exists(e), ShouldRetry(row[e].attempt, class)
          PROVE  [pc |-> "applying", msg |-> m, seen |-> row[e]] \in Task
      <3>1. row[e] \in [status : Statuses, attempt : 1..MaxRetries]
        BY <2>4, <2>5 DEF ShouldRetry, Row
      <3> QED
        BY <2>1, <3>1, TaskStates
    <2>6. ASSUME Exists(e)
          PROVE  [pc |-> "burying", msg |-> m, target |-> Msg(e, row[e].attempt)] \in Task
      <3>1. Msg(e, row[e].attempt) \in Message
        BY <2>1, <2>4, <2>6 DEF Msg, Message, Row
      <3> QED
        BY <2>1, <3>1, TaskStates
    <2> QED
      BY <1>9, <2>2, <2>3, <2>5, <2>6, TaskMoves DEF Decide
  <1>10. ASSUME Apply(s) PROVE TypeOK'
    <2>1. /\ m \in Message /\ e \in Executions
          /\ task[s].seen.attempt + 1 \in 1..MaxAttempt
      BY <1>0, <1>10, <1>m, TaskFields DEF Apply
    <2>2. row' \in [Executions -> RowOrNone] /\ lease' = lease
      BY <1>10, <2>1 DEF Apply, RequeueSeen, TypeOK, RowsTypeOK, RowOrNone, Row, Statuses
    <2>3. Msg(e, task[s].seen.attempt + 1) \in Message
      BY <2>1 DEF Msg, Message
    <2>4. task' \in [Slots -> Task]
      BY <1>10, <2>1, <2>3, TaskStates DEF Apply, Goto, TypeOK
    <2> QED
      BY <1>10, <2>2, <2>4 DEF Apply, TypeOK, QueueTypeOK, RowsTypeOK, taskFrame
  <1>11. ASSUME ApplyConflict(s) PROVE TypeOK'
    <2>1. At(s, "acking") \in Task
      BY <1>11, <1>m, TaskStates DEF ApplyConflict, At
    <2> QED
      BY <1>11, <2>1, TaskMoves DEF ApplyConflict
  <1>12. ASSUME ScheduleRetry(s) \/ Bury(s) PROVE TypeOK'
    <2>0. task[s].pc \in {"retrying", "burying"}
      BY <1>12 DEF ScheduleRetry, Bury
    <2>1. At(s, "acking") \in Task /\ task[s].target \in Message
      BY <1>0, <2>0, <1>m, TaskStates, TaskFields DEF At
    <2>2. delayed' \in Bag /\ dlq' \in Bag
      BY <1>12, <2>1, BagOperations
         DEF ScheduleRetry, Bury, EnqueueDelayed, DeadLetter, TypeOK, QueueTypeOK
    <2> QED
      BY <1>12, <2>1, <2>2
         DEF ScheduleRetry, Bury, Goto, TypeOK, QueueTypeOK, RowsTypeOK, rowVars
  <1>13. ASSUME DropCancel(s) PROVE TypeOK'
    <2>1. At(s, "acking") \in Task
      BY <1>13, <1>m, TaskStates DEF DropCancel, At
    <2> QED
      BY <1>13, <2>1
         DEF DropCancel, ClearCancel, Goto, TypeOK, QueueTypeOK, RowsTypeOK, rowVars, taskFrame
  <1>14. ASSUME AckAndRelease(s) PROVE TypeOK'
    <2>1. processing' \in Bag
      BY <1>14, <1>m, BagOperations DEF AckAndRelease, Ack, TypeOK, QueueTypeOK
    <2> QED
      BY <1>14, <2>1, TaskStates
         DEF AckAndRelease, Goto, TypeOK, QueueTypeOK, RowsTypeOK, rowVars, taskFrame, Task
  <1> QED
    BY <1>1, <1>2, <1>3, <1>4, <1>5, <1>6, <1>7, <1>8, <1>9, <1>10, <1>11, <1>12, <1>13, <1>14
       DEF TaskStep, TaskProceeds

LEMMA RecoveryTypes ==
    ASSUME TypeOK, NEW w \in Workers, RecoveryStep(w)
    PROVE  TypeOK'
  <1> USE RetryPolicyAssumption
  <1>1. ASSUME Recover(w) PROVE TypeOK'
    <2>1. PICK S \in SUBSET {e \in Executions : Stale(e)} :
            /\ ForceFailAndDecide(S)
            /\ effects' = [effects EXCEPT ![w] =
                 {[kind |-> IF Recovered(e).status = "QUEUED" THEN "retry" ELSE "dead",
                   target |-> Msg(e, Recovered(e).attempt)] : e \in S}]
      BY <1>1 DEF Recover
    <2>2. ASSUME NEW e \in S
          PROVE  Recovered(e) \in Row /\ e \in Executions
      <3>1. row[e] \in Row
        BY <2>2, RowFields DEF Stale, Statuses, TypeOK, RowsTypeOK
      <3> QED
        BY <3>1, <2>2 DEF Recovered, ShouldRetry, Row, Statuses
    <2>3. row' \in [Executions -> RowOrNone] /\ lease' = lease
      BY <2>1, <2>2 DEF ForceFailAndDecide, TypeOK, RowsTypeOK, RowOrNone
    <2>4. ASSUME NEW e \in S
          PROVE  [kind |-> IF Recovered(e).status = "QUEUED" THEN "retry" ELSE "dead",
                  target |-> Msg(e, Recovered(e).attempt)] \in Effect
      BY <2>2 DEF Effect, Msg, Message, Row
    <2>5. effects' \in [Workers -> SUBSET Effect]
      BY <2>1, <2>4 DEF TypeOK
    <2> QED
      BY <1>1, <2>3, <2>5 DEF Recover, TypeOK, QueueTypeOK, RowsTypeOK, queueVars
  <1>2. ASSUME RecoveryEffect(w) PROVE TypeOK'
    <2>1. PICK x \in effects[w] :
            /\ \/ x.kind = "retry" /\ EnqueueDelayed(x.target) /\ UNCHANGED dlq
               \/ x.kind = "dead" /\ DeadLetter(x.target) /\ UNCHANGED delayed
            /\ effects' = [effects EXCEPT ![w] = @ \ {x}]
      BY <1>2 DEF RecoveryEffect
    <2>2. x.target \in Message
      BY DEF TypeOK, Effect
    <2>3. delayed' \in Bag /\ dlq' \in Bag
      BY <2>1, <2>2, BagOperations DEF EnqueueDelayed, DeadLetter, TypeOK, QueueTypeOK
    <2> QED
      BY <1>2, <2>1, <2>3 DEF RecoveryEffect, TypeOK, QueueTypeOK, RowsTypeOK, rowVars
  <1> QED
    BY <1>1, <1>2 DEF RecoveryStep

LEMMA TimeTypes ==
    ASSUME TypeOK, NEW e \in Executions, LeaseExpires(e) \/ KeyExpires(e)
    PROVE  TypeOK'
  BY DEF LeaseExpires, KeyExpires, ClearCancel, TypeOK, QueueTypeOK, RowsTypeOK,
         queueVars, rowVars, procVars

\* A request step that moves only the request, to a legal state.
LEMMA ClientMoves ==
    ASSUME TypeOK, NEW c \in Clients, NEW k \in Client, ClientAt(c, k),
           UNCHANGED <<apiFrame, row, main>>, cancelKey' \subseteq Executions
    PROVE  TypeOK'
  BY DEF TypeOK, QueueTypeOK, RowsTypeOK, ClientAt, apiFrame

\* A request step that moves the request and writes one row.
LEMMA ClientWrites ==
    ASSUME TypeOK, NEW c \in Clients, NEW k \in Client, ClientAt(c, k),
           row' \in [Executions -> RowOrNone],
           UNCHANGED <<apiFrame, main>>, cancelKey' \subseteq Executions
    PROVE  TypeOK'
  BY DEF TypeOK, QueueTypeOK, RowsTypeOK, ClientAt, apiFrame

LEMMA ClientStates ==
    /\ Idle \in Client
    /\ \A m \in Message : [pc |-> "enqueue", msg |-> m] \in Client
    /\ \A e \in Executions :
         /\ \A r \in [status : FailedStatuses, attempt : 1..(MaxAttempt - 1)] :
              [pc |-> "retry", exec |-> e, seen |-> r] \in Client
         /\ \A r \in [status : {"QUEUED"}, attempt : 1..MaxAttempt] :
              \A p \in {"cancel", "d_cancel"} : [pc |-> p, exec |-> e, seen |-> r] \in Client
         /\ \A p \in {"signal", "d_key", "d_signal", "d_wait", "d_read", "d_commit"} :
              [pc |-> p, exec |-> e] \in Client
  BY DEF Client

LEMMA ArrivalTypes ==
    ASSUME TypeOK, NEW c \in Clients, ClientArrives(c)
    PROVE  TypeOK'
  <1> USE RetryPolicyAssumption
  <1>0. cancelKey \subseteq Executions
    BY DEF TypeOK, QueueTypeOK
  <1>1. ASSUME Submit(c) PROVE TypeOK'
    <2>1. PICK e \in Executions :
            Create(e) /\ ClientAt(c, [pc |-> "enqueue", msg |-> Msg(e, 1)])
      BY <1>1 DEF Submit
    <2>2. [pc |-> "enqueue", msg |-> Msg(e, 1)] \in Client
      <3>1. Msg(e, 1) \in Message
        BY DEF Msg, Message
      <3> QED
        BY <3>1, ClientStates
    <2>3. row' \in [Executions -> RowOrNone]
      BY <2>1 DEF Create, TypeOK, RowsTypeOK, RowOrNone, Row, Statuses
    <2> QED
      BY <1>0, <1>1, <2>1, <2>2, <2>3, ClientWrites DEF Submit
  <1>2. ASSUME RetryRead(c) PROVE TypeOK'
    <2>1. PICK e \in Executions :
            /\ row[e].status \in FailedStatuses
            /\ row[e].attempt < MaxAttempt
            /\ ClientAt(c, [pc |-> "retry", exec |-> e, seen |-> row[e]])
      BY <1>2 DEF RetryRead
    <2>2. row[e] \in [status : FailedStatuses, attempt : 1..(MaxAttempt - 1)]
      <3>1. row[e] \in Row
        BY <2>1, RowFields DEF FailedStatuses, Statuses, TypeOK, RowsTypeOK
      <3> QED
        BY <2>1, <3>1 DEF Row
    <2>3. [pc |-> "retry", exec |-> e, seen |-> row[e]] \in Client
      BY <2>2, ClientStates
    <2> QED
      BY <1>0, <1>2, <2>1, <2>3, ClientMoves DEF RetryRead
  <1>3. ASSUME NEW e \in Executions, row[e].status = "QUEUED"
        PROVE  \A p \in {"cancel", "d_cancel"} : [pc |-> p, exec |-> e, seen |-> row[e]] \in Client
    <2>1. row[e] \in Row
      BY <1>3, RowFields DEF Statuses, TypeOK, RowsTypeOK
    <2>2. row[e] \in [status : {"QUEUED"}, attempt : 1..MaxAttempt]
      BY <1>3, <2>1 DEF Row
    <2> QED
      BY <2>2, ClientStates
  <1>4. ASSUME CancelRead(c) PROVE TypeOK'
    <2>1. PICK e \in Executions :
            ClientAt(c, IF row[e].status = "QUEUED"
                         THEN [pc |-> "cancel", exec |-> e, seen |-> row[e]]
                         ELSE [pc |-> "signal", exec |-> e])
      BY <1>4 DEF CancelRead
    <2>2. [pc |-> "signal", exec |-> e] \in Client
      BY ClientStates
    <2> QED
      BY <1>0, <1>3, <1>4, <2>1, <2>2, ClientMoves DEF CancelRead
  <1>5. ASSUME DeleteRead(c) PROVE TypeOK'
    <2>1. PICK e \in Executions :
            \/ /\ row[e].status = "QUEUED"
               /\ ClientAt(c, [pc |-> "d_cancel", exec |-> e, seen |-> row[e]])
            \/ ClientAt(c, [pc |-> "d_signal", exec |-> e])
            \/ ClientAt(c, [pc |-> "d_read", exec |-> e])
      BY <1>5 DEF DeleteRead
    <2>2. [pc |-> "d_signal", exec |-> e] \in Client /\ [pc |-> "d_read", exec |-> e] \in Client
      BY ClientStates
    <2> QED
      BY <1>0, <1>3, <1>5, <2>1, <2>2, ClientMoves DEF DeleteRead
  <1> QED
    BY <1>1, <1>2, <1>4, <1>5 DEF ClientArrives

LEMMA ProceedTypes ==
    ASSUME TypeOK, NEW c \in Clients, ClientProceeds(c)
    PROVE  TypeOK'
  <1> USE RetryPolicyAssumption
  <1> DEFINE k == client[c]
             e == k.exec
  <1>0. cancelKey \subseteq Executions /\ k \in Client
    BY DEF TypeOK, QueueTypeOK
  <1>1. ASSUME PushMessage(c) PROVE TypeOK'
    <2>1. k.msg \in Message
      BY <1>0, <1>1, ClientFields DEF PushMessage
    <2>2. main' \in Seq(Message)
      BY <1>1, <2>1 DEF PushMessage, Enqueue, TypeOK, QueueTypeOK
    <2> QED
      BY <1>1, <2>2, ClientStates
         DEF PushMessage, ClientAt, TypeOK, QueueTypeOK, RowsTypeOK, apiFrame
  <1>2. ASSUME RetryApply(c) PROVE TypeOK'
    <2>1. e \in Executions /\ k.seen.attempt + 1 \in 1..MaxAttempt
      BY <1>0, <1>2, ClientFields DEF RetryApply
    <2>2. row' \in [Executions -> RowOrNone]
      BY <1>2, <2>1 DEF RetryApply, RequeueSeen, TypeOK, RowsTypeOK, RowOrNone, Row, Statuses
    <2>3. [pc |-> "enqueue", msg |-> Msg(e, k.seen.attempt + 1)] \in Client
      <3>1. Msg(e, k.seen.attempt + 1) \in Message
        BY <2>1 DEF Msg, Message
      <3> QED
        BY <3>1, ClientStates
    <2>4. \E k2 \in Client : ClientAt(c, k2)
      BY <1>2, <2>3, ClientStates DEF RetryApply
    <2> QED
      BY <1>0, <1>2, <2>2, <2>4, ClientWrites DEF RetryApply
  <1>3. ASSUME CancelApply(c) PROVE TypeOK'
    <2>1. e \in Executions
      BY <1>0, <1>3, ClientFields DEF CancelApply
    <2>2. row' \in [Executions -> RowOrNone]
      <3>1. ASSUME Exists(e) PROVE row[e] \in Row
        BY <2>1, <3>1, RowFields DEF Exists, TypeOK, RowsTypeOK
      <3> QED
        BY <1>3, <2>1, <3>1
           DEF CancelApply, CancelSeen, SetStatus, TypeOK, RowsTypeOK, RowOrNone, Row, Statuses
    <2>3. \E k2 \in Client : ClientAt(c, k2)
      BY <1>3, <2>1, ClientStates DEF CancelApply
    <2> QED
      BY <1>0, <1>3, <2>2, <2>3, ClientWrites DEF CancelApply
  <1>4. ASSUME Signal(c) PROVE TypeOK'
    <2>1. e \in Executions
      BY <1>0, <1>4, ClientFields DEF Signal
    <2>2. cancelKey' \subseteq Executions
      BY <1>0, <1>4, <2>1 DEF Signal, RequestCancel
    <2>3. \E k2 \in Client : ClientAt(c, k2)
      BY <1>4, <2>1, ClientStates DEF Signal
    <2> QED
      BY <1>4, <2>2, <2>3, ClientMoves DEF Signal
  <1>5. ASSUME DeleteWait(c) \/ DeleteTest(c) PROVE TypeOK'
    <2>1. e \in Executions
      BY <1>0, <1>5, ClientFields DEF DeleteWait, DeleteTest
    <2>2. \E k2 \in Client : ClientAt(c, k2)
      BY <1>5, <2>1, ClientStates DEF DeleteWait, DeleteTest
    <2> QED
      BY <1>0, <1>5, <2>2, ClientMoves DEF DeleteWait, DeleteTest
  <1>6. ASSUME DeleteCommit(c) PROVE TypeOK'
    <2>1. e \in Executions
      BY <1>0, <1>6, ClientFields DEF DeleteCommit
    <2>2. row' \in [Executions -> RowOrNone]
      <3>1. [row[e] EXCEPT !.status = "DELETED"] \in RowOrNone
        BY <2>1 DEF TypeOK, RowsTypeOK, RowOrNone, Row, Absent
      <3> QED
        BY <1>6, <2>1, <3>1 DEF DeleteCommit, TypeOK, RowsTypeOK
    <2> QED
      BY <1>0, <1>6, <2>2, ClientStates, ClientWrites DEF DeleteCommit, ClearCancel
  <1> QED
    BY <1>1, <1>2, <1>3, <1>4, <1>5, <1>6 DEF ClientProceeds

LEMMA FaultTypes ==
    ASSUME TypeOK, FaultStep
    PROVE  TypeOK'
  <1> USE DEF TypeOK, QueueTypeOK, RowsTypeOK, queueVars, rowVars
  <1>0. ASSUME NEW kind, Fault(kind) PROVE faults' \in 0..MaxFaults
    BY <1>0, PipelineAssumption DEF Fault
  <1>1. ASSUME NEW w \in Workers, Crash(w) PROVE TypeOK'
    BY <1>0, <1>1, Zenon, SMT DEF Crash, ConsumerAt, Consumer, Task
  <1>2. ASSUME NEW w \in Workers, Stop(w) PROVE TypeOK'
    BY <1>0, <1>2 DEF Stop, ConsumerAt, Consumer
  <1>3. ASSUME NEW s \in Slots, TaskRaises(s) \/ NotebookUnreadable(s) \/ PumpDies(s) PROVE TypeOK'
    <2>1. At(s, "acking") \in Task
      BY <1>3, TaskFields, TaskStates DEF TaskRaises, NotebookUnreadable, PumpDies, At
    <2>2. /\ \/ Goto(s, At(s, "acking"))
             \/ Goto(s, At(s, "muted")) /\ At(s, "muted") \in Task
          /\ faults' \in 0..MaxFaults
          /\ UNCHANGED <<queueVars, rowVars, consumer, effects, client>>
      <3>1. PumpDies(s) => At(s, "muted") \in Task
        BY TaskFields, TaskStates DEF PumpDies, At
      <3> QED
        BY <1>0, <1>3, <3>1 DEF TaskRaises, NotebookUnreadable, PumpDies
    <2> QED
      BY <2>1, <2>2 DEF Goto
  <1>4. ASSUME NEW s \in Slots, AckRaises(s) PROVE TypeOK'
    BY <1>0, <1>4 DEF AckRaises, Goto, Task
  <1>5. ASSUME NEW c \in Clients, RequestDies(c) PROVE TypeOK'
    BY <1>0, <1>5, ClientStates DEF RequestDies, ClientAt
  <1> QED
    BY <1>1, <1>2, <1>3, <1>4, <1>5 DEF FaultStep

LEMMA StepTypes == TypeOK /\ [Next]_vars => TypeOK'
  <1>1. ASSUME TypeOK, UNCHANGED vars PROVE TypeOK'
    BY <1>1 DEF vars, queueVars, rowVars, procVars, TypeOK, QueueTypeOK, RowsTypeOK
  <1> QED
    BY <1>1, ConsumerTypes, RecoveryTypes, TaskTypes, ArrivalTypes, ProceedTypes,
       TimeTypes, FaultTypes DEF Next

\* Type correctness: whatever the interleaving and the failures, the queue, the
\* rows and the processes hold only what their code can hold; in particular no
\* attempt number and no message goes past MaxAttempt.
THEOREM TypeCorrect == Spec => []TypeOK
  BY InitTypes, StepTypes, PTL DEF Spec

-----------------------------------------------------------------------------
(* The failed attempts. *)

\* The phases between the commit of a failure and the end of its handling.
FailurePhases == {"deciding", "applying", "burying"}

Fails(s, e) == task[s].pc \in FailurePhases /\ task[s].msg.exec = e

Owes(w, x, e) == x \in effects[w] /\ x.kind = "dead" /\ x.target.exec = e

\* A failed attempt is in the hands of one task, of one recovery pass or of
\* the DLQ, and its row stays failed for as long as it is.
OneHandler(e) ==
    LET failed(a) == row[e].status \in FailedStatuses /\ row[e].attempt = a IN
      /\ \A s \in Slots : Fails(s, e) =>
           /\ row[e].status \in FailedStatuses
           /\ task[s].pc = "burying" => task[s].target = Msg(e, row[e].attempt)
           /\ \A r \in Slots : Fails(r, e) => r = s
           /\ \A w \in Workers : \A x \in effects[w] : ~ Owes(w, x, e)
      /\ \A w \in Workers : \A x \in effects[w] : Owes(w, x, e) =>
           /\ failed(x.target.attempt)
           /\ \A v \in Workers : \A y \in effects[v] : Owes(v, y, e) => v = w
      /\ \A a \in 1..MaxAttempt : dlq[Msg(e, a)] > 0 =>
           /\ dlq[Msg(e, a)] = 1
           /\ failed(a)
           /\ \A s \in Slots : ~ Fails(s, e)
           /\ \A w \in Workers : \A x \in effects[w] : ~ Owes(w, x, e)

\* No request but a submission is under way.
OnlySubmits == \A c \in Clients : client[c].pc \in {"idle", "enqueue"}

FailureInv == OnlySubmits /\ \A e \in Executions : OneHandler(e)

LEMMA InitFailures == Init => FailureInv
  BY DEF Init, QueueInit, EmptyBag, Idle, FailureInv, OnlySubmits, OneHandler, Fails, Owes,
         FailurePhases, Message, Msg

\* Nothing is known to have failed of an execution whose row is not failed.
LEMMA NoFailure ==
    ASSUME NEW e \in Executions, OneHandler(e), row[e].status \notin FailedStatuses
    PROVE  /\ \A s \in Slots : ~ Fails(s, e)
           /\ \A w \in Workers : \A x \in effects[w] : ~ Owes(w, x, e)
           /\ \A a \in 1..MaxAttempt : ~ (dlq[Msg(e, a)] > 0)
  BY DEF OneHandler

\* A step that leaves the row and the DLQ entries of e alone, and starts no
\* handling of a failure of e.
LEMMA SameHandler ==
    ASSUME NEW e \in Executions, OneHandler(e),
           row'[e] = row[e],
           \A a \in 1..MaxAttempt : dlq'[Msg(e, a)] = dlq[Msg(e, a)],
           \A s \in Slots : Fails(s, e)' => task'[s] = task[s],
           \A w \in Workers : \A x \in effects'[w] : Owes(w, x, e)' => x \in effects[w]
    PROVE  OneHandler(e)'
  <1>1. \A s \in Slots : Fails(s, e)' => Fails(s, e)
    BY DEF Fails
  <1>2. \A w \in Workers : \A x \in effects'[w] : Owes(w, x, e)' => Owes(w, x, e) /\ x \in effects[w]
    BY DEF Owes
  <1> QED
    BY <1>1, <1>2 DEF OneHandler, Msg

\* A step after which no task, pass or DLQ entry knows of a failure of e.
LEMMA NoHandler ==
    ASSUME NEW e \in Executions,
           \A s \in Slots : ~ Fails(s, e)',
           \A w \in Workers : \A x \in effects'[w] : ~ Owes(w, x, e)',
           \A a \in 1..MaxAttempt : ~ (dlq'[Msg(e, a)] > 0)
    PROVE  OneHandler(e)'
  BY DEF OneHandler, Msg

\* Neither the rows, nor the DLQ, nor the effects owed change, and a task that
\* moves does not enter the handling of a failure.
LEMMA FailureFrame ==
    ASSUME FailureInv, OnlySubmits', UNCHANGED <<row, dlq>>,
           \A s \in Slots : task'[s].pc \in FailurePhases => task'[s] = task[s],
           \A w \in Workers : effects'[w] \subseteq effects[w]
    PROVE  FailureInv'
  <1>1. ASSUME NEW e \in Executions PROVE OneHandler(e)'
    <2>1. \A s \in Slots : Fails(s, e)' => task'[s] = task[s]
      BY DEF Fails
    <2> QED
      BY <2>1, SameHandler DEF FailureInv
  <1> QED
    BY <1>1 DEF FailureInv

LEMMA ConsumerFailures ==
    ASSUME TypeOK, FailureInv, NEW w \in Workers, ConsumerStep(w)
    PROVE  FailureInv'
  <1>1. UNCHANGED <<row, dlq, effects, client>>
    BY DEF ConsumerStep, PromoteRemove, PromotePush, PromoteDone, LeaseNext, LeaseEmpty,
           Drained, Restart, rowVars, queueVars
  <1>2. \A s \in Slots : task'[s].pc \in FailurePhases => task'[s] = task[s]
    <2>1. ASSUME LeaseNext(w) PROVE \A s \in Slots : task'[s].pc \in FailurePhases => task'[s] = task[s]
      BY <2>1 DEF LeaseNext, Goto, FailurePhases, TypeOK
    <2>2. ASSUME Drained(w) PROVE \A s \in Slots : task'[s].pc \in FailurePhases => task'[s] = task[s]
      BY <2>2 DEF Drained, Idle, FailurePhases
    <2> QED
      BY <2>1, <2>2 DEF ConsumerStep, PromoteRemove, PromotePush, PromoteDone, LeaseEmpty, Restart
  <1> QED
    BY <1>1, <1>2, FailureFrame DEF FailureInv, OnlySubmits

LEMMA TimeFailures ==
    ASSUME FailureInv, NEW e \in Executions, LeaseExpires(e) \/ KeyExpires(e)
    PROVE  FailureInv'
  <1>1. UNCHANGED <<row, dlq, task, effects, client>>
    BY DEF LeaseExpires, KeyExpires, rowVars, queueVars, procVars
  <1> QED
    BY <1>1, FailureFrame DEF FailureInv, OnlySubmits

LEMMA FaultFailures ==
    ASSUME TypeOK, FailureInv, FaultStep
    PROVE  FailureInv'
  <1>1. UNCHANGED <<row, dlq>>
    BY DEF FaultStep, Crash, Stop, TaskRaises, NotebookUnreadable, PumpDies, AckRaises, RequestDies,
           rowVars, queueVars
  <1>2. \A s \in Slots : task'[s].pc \in FailurePhases => task'[s] = task[s]
    BY DEF FaultStep, Crash, Stop, TaskRaises, NotebookUnreadable, PumpDies, AckRaises, RequestDies,
           Goto, At, Idle, Leaked, FailurePhases, TypeOK
  <1>3. \A w \in Workers : effects'[w] \subseteq effects[w]
    BY DEF FaultStep, Crash, Stop, TaskRaises, NotebookUnreadable, PumpDies, AckRaises, RequestDies, TypeOK
  <1>4. OnlySubmits'
    BY DEF FaultStep, Crash, Stop, TaskRaises, NotebookUnreadable, PumpDies, AckRaises, RequestDies,
           ClientAt, Idle, FailureInv, OnlySubmits, TypeOK
  <1> QED
    BY <1>1, <1>2, <1>3, <1>4, FailureFrame

LEMMA ClientFailures ==
    ASSUME TypeOK, FailureInv, ApiOps \subseteq {"submit"}, NEW c \in Clients,
           ClientArrives(c) \/ ClientProceeds(c)
    PROVE  FailureInv'
  <1>1. CASE Submit(c)
    <2>1. PICK e \in Executions :
            Create(e) /\ ClientAt(c, [pc |-> "enqueue", msg |-> Msg(e, 1)])
      BY <1>1 DEF Submit
    <2>2. UNCHANGED <<dlq, task, effects>> /\ \A f \in Executions \ {e} : row'[f] = row[f]
      BY <1>1, <2>1 DEF Submit, Create, apiFrame, TypeOK, RowsTypeOK
    <2>3. OnlySubmits'
      BY <2>1 DEF ClientAt, FailureInv, OnlySubmits, TypeOK
    <2>4. OneHandler(e)'
      BY <2>1, <2>2, NoFailure, NoHandler DEF Create, FailedStatuses, FailureInv, Fails, Owes
    <2>5. ASSUME NEW f \in Executions \ {e} PROVE OneHandler(f)'
      BY <2>2, SameHandler DEF FailureInv
    <2> QED
      BY <2>3, <2>4, <2>5 DEF FailureInv
  <1>2. CASE PushMessage(c)
    <2>1. UNCHANGED <<row, dlq, task, effects>>
      BY <1>2 DEF PushMessage, apiFrame
    <2>2. OnlySubmits'
      BY <1>2 DEF PushMessage, ClientAt, Idle, FailureInv, OnlySubmits, TypeOK
    <2> QED
      BY <2>1, <2>2, FailureFrame
  <1> QED
    BY <1>1, <1>2
       DEF ClientArrives, ClientProceeds, RetryRead, CancelRead, DeleteRead, Arrives,
           RetryApply, CancelApply, Signal, DeleteWait, DeleteTest, DeleteCommit,
           FailureInv, OnlySubmits

\* A task step on execution e does not concern the failures of the others.
LEMMA OtherExecutions ==
    ASSUME TypeOK, FailureInv, NEW s \in Slots, NEW e \in Executions, NEW t, Goto(s, t),
           t.pc \in FailurePhases => t.msg.exec = e,
           UNCHANGED effects,
           \A f \in Executions \ {e} : row'[f] = row[f],
           \A f \in Executions \ {e} : \A a \in 1..MaxAttempt : dlq'[Msg(f, a)] = dlq[Msg(f, a)]
    PROVE  \A f \in Executions \ {e} : OneHandler(f)'
  <1>1. ASSUME NEW f \in Executions \ {e}, NEW r \in Slots, Fails(r, f)'
        PROVE  task'[r] = task[r]
    BY <1>1 DEF Fails, Goto, TypeOK
  <1> QED
    BY <1>1, SameHandler DEF FailureInv

LEMMA TaskFailures ==
    ASSUME TypeOK, FailureInv, NEW s \in Slots, TaskStep(s)
    PROVE  FailureInv'
  <1> DEFINE m == task[s].msg
             Frames == \/ Reject(s) \/ InstallEnds(s) \/ Heartbeat(s) \/ RunEnds(s)
                       \/ RunCancelled(s) \/ FinishConflict(s) \/ ApplyConflict(s)
                       \/ ScheduleRetry(s) \/ DropCancel(s) \/ AckAndRelease(s)
  <1>0. task[s] \in Task /\ task \in [Slots -> Task] /\ row \in [Executions -> RowOrNone]
    BY DEF TypeOK, RowsTypeOK
  <1>c. UNCHANGED client => OnlySubmits'
    BY DEF FailureInv, OnlySubmits
  <1>1. ASSUME Frames PROVE FailureInv'
    <2>1. UNCHANGED <<row, dlq, effects, client>>
      BY <1>1 DEF Reject, InstallEnds, Heartbeat, Beat, RunEnds, RunCancelled, FinishConflict,
                  ApplyConflict, ScheduleRetry, DropCancel, AckAndRelease, taskFrame, rowVars,
                  queueVars, procVars
    <2>2. \A r \in Slots : task'[r].pc \in FailurePhases => task'[r] = task[r]
      BY <1>0, <1>1
         DEF Reject, InstallEnds, Heartbeat, RunEnds, RunCancelled, FinishConflict, ApplyConflict,
             ScheduleRetry, DropCancel, AckAndRelease, Goto, At, Idle, FailurePhases, procVars
    <2> QED
      BY <1>c, <2>1, <2>2, FailureFrame
  <1> SUFFICES ASSUME ~ Frames PROVE FailureInv'
    BY <1>1
  <1>e. PICK e \in Executions : e = m.exec
    <2>1. task[s].pc \notin {"idle", "leaked"}
      BY DEF TaskStep, TaskProceeds, Start, FinishRow, Decide, Apply, Bury
    <2>2. m \in Message
      BY <1>0, <2>1, TaskFields
    <2> QED
      BY <2>2 DEF Message
  <1>2. ASSUME Start(s) PROVE FailureInv'
    <2>1. /\ e \in Executions
          /\ row[e].status \notin FailedStatuses
          /\ \A f \in Executions \ {e} : row'[f] = row[f]
          /\ UNCHANGED <<dlq, effects, client>>
          /\ Goto(s, At(s, "installing"))
      BY <1>0, <1>2, <1>e
         DEF Start, MarkRunning, CanTransition, Successors, FailedStatuses, Statuses, taskFrame
    <2>2. OneHandler(e)'
      BY <1>0, <2>1, NoFailure, NoHandler DEF FailureInv, Goto, At, Fails, Owes, FailurePhases
    <2>3. \A f \in Executions \ {e} : OneHandler(f)'
      BY <2>1, OtherExecutions DEF At, FailurePhases
    <2> QED
      BY <1>c, <2>1, <2>2, <2>3 DEF FailureInv
  <1>3. ASSUME FinishRow(s) PROVE FailureInv'
    <2> DEFINE o == task[s].outcome
    <2>1. /\ e \in Executions
          /\ row[e].status \notin FailedStatuses
          /\ row'[e].status = o
          /\ \A f \in Executions \ {e} : row'[f] = row[f]
          /\ UNCHANGED <<dlq, effects, client>>
      <3>1. e \in Executions /\ o \in Successors["RUNNING"]
        BY <1>0, <1>3, <1>e, TaskFields DEF FinishRow
      <3>2. CanTransition(row[e].status, o)
        BY <1>3, <1>e DEF FinishRow, Finish
      <3>3. row[e].status \notin FailedStatuses
        BY <3>1, <3>2 DEF CanTransition, Successors, FailedStatuses, Statuses
      <3>4. row' = [row EXCEPT ![e].status = o] /\ row[e] \in Row
        BY <1>0, <1>3, <1>e, <3>1, <3>2, RowFields
           DEF FinishRow, Finish, SetStatus, CanTransition
      <3> QED
        BY <1>0, <1>3, <3>1, <3>3, <3>4 DEF FinishRow, taskFrame, Row
    <2>2. /\ \A r \in Slots : ~ Fails(r, e)
          /\ \A w \in Workers : \A x \in effects[w] : ~ Owes(w, x, e)
          /\ \A a \in 1..MaxAttempt : ~ (dlq[Msg(e, a)] > 0)
      BY <2>1, NoFailure DEF FailureInv
    <2>3. CASE Goto(s, At(s, "acking")) \/ Goto(s, At(s, "clearing"))
      <3>1. OneHandler(e)'
        BY <1>0, <2>1, <2>2, <2>3, NoHandler DEF Goto, At, Fails, Owes, FailurePhases
      <3>2. \A f \in Executions \ {e} : OneHandler(f)'
        BY <2>1, <2>3, OtherExecutions DEF At, FailurePhases
      <3> QED
        BY <1>c, <2>1, <3>1, <3>2 DEF FailureInv
    <2>4. CASE o \in FailedStatuses /\ Goto(s, [pc |-> "deciding", msg |-> m, outcome |-> o])
      <3>1. \A r \in Slots : Fails(r, e)' => r = s /\ task'[r].pc = "deciding"
        BY <1>0, <2>2, <2>4 DEF Goto, Fails
      <3>2. OneHandler(e)'
        BY <2>1, <2>2, <2>4, <3>1 DEF OneHandler, Owes, Msg
      <3>3. \A f \in Executions \ {e} : OneHandler(f)'
        BY <1>e, <2>1, <2>4, OtherExecutions
      <3> QED
        BY <1>c, <2>1, <3>2, <3>3 DEF FailureInv
    <2> QED
      BY <1>3, <2>3, <2>4 DEF FinishRow
  <1>4. ASSUME Decide(s) PROVE FailureInv'
    <2>1. PICK t : /\ Goto(s, t)
                   /\ t.msg = m
                   /\ t.pc = "burying" => t.target = Msg(e, row[e].attempt)
      BY <1>4, <1>e DEF Decide, At
    <2>2. e \in Executions /\ UNCHANGED <<row, dlq, effects, client>>
      BY <1>4, <1>e DEF Decide, taskFrame, rowVars
    <2>3. \A r \in Slots : Fails(r, e)' =>
            Fails(r, e) /\ (task'[r].pc = "burying" => \/ task'[r] = task[r]
                                                       \/ task'[r].target = Msg(e, row[e].attempt))
      BY <1>0, <1>4, <2>1 DEF Decide, Goto, Fails, FailurePhases
    <2>4. OneHandler(e)'
      BY <2>2, <2>3 DEF FailureInv, OneHandler, Fails, Owes, Msg
    <2>5. \A f \in Executions \ {e} : OneHandler(f)'
      BY <1>e, <2>1, <2>2, OtherExecutions
    <2> QED
      BY <1>c, <2>2, <2>4, <2>5 DEF FailureInv
  <1>5. ASSUME Apply(s) PROVE FailureInv'
    <2>1. /\ e \in Executions
          /\ Fails(s, e)
          /\ \A f \in Executions \ {e} : row'[f] = row[f]
          /\ UNCHANGED <<dlq, effects, client>>
          /\ \E t : Goto(s, t) /\ t.pc = "retrying"
      BY <1>0, <1>5, <1>e DEF Apply, RequeueSeen, taskFrame, Fails, FailurePhases
    <2>2. OneHandler(e)'
      <3>1. \A r \in Slots : Fails(r, e) => r = s
        BY <2>1 DEF FailureInv, OneHandler
      <3>2. \A r \in Slots : ~ Fails(r, e)'
        BY <1>0, <2>1, <3>1 DEF Goto, Fails, FailurePhases
      <3>3. \A w \in Workers : \A x \in effects[w] : ~ Owes(w, x, e)
        BY <2>1 DEF FailureInv, OneHandler
      <3>4. \A a \in 1..MaxAttempt : ~ (dlq[Msg(e, a)] > 0)
        BY <2>1 DEF FailureInv, OneHandler
      <3> QED
        BY <2>1, <3>2, <3>3, <3>4, NoHandler DEF Owes
    <2>3. \A f \in Executions \ {e} : OneHandler(f)'
      BY <2>1, OtherExecutions DEF FailurePhases
    <2> QED
      BY <1>c, <2>1, <2>2, <2>3 DEF FailureInv
  <1>6. ASSUME Bury(s) PROVE FailureInv'
    <2>1. /\ e \in Executions
          /\ Fails(s, e)
          /\ task[s].target = Msg(e, row[e].attempt)
          /\ task[s].target \in Message
          /\ UNCHANGED <<row, effects, client>>
          /\ Goto(s, At(s, "acking"))
          /\ dlq' = Put(dlq, task[s].target)
      BY <1>0, <1>6, <1>e, TaskFields
         DEF Bury, DeadLetter, Fails, FailurePhases, FailureInv, OneHandler, rowVars
    <2>2. /\ row[e].status \in FailedStatuses
          /\ \A r \in Slots : Fails(r, e) => r = s
          /\ \A w \in Workers : \A x \in effects[w] : ~ Owes(w, x, e)
          /\ \A a \in 1..MaxAttempt : ~ (dlq[Msg(e, a)] > 0)
      BY <2>1 DEF FailureInv, OneHandler
    <2>3. \A r \in Slots : ~ Fails(r, e)'
      BY <1>0, <2>1, <2>2 DEF Goto, At, Fails, FailurePhases
    <2>4. \A a \in 1..MaxAttempt :
            dlq'[Msg(e, a)] > 0 => a = row[e].attempt /\ dlq'[Msg(e, a)] = 1
      BY <2>1, <2>2 DEF Put, Bag, Msg, Message, TypeOK, QueueTypeOK
    <2>5. OneHandler(e)'
      BY <2>1, <2>2, <2>3, <2>4 DEF OneHandler, Owes, Msg
    <2>6. \A f \in Executions \ {e} : \A a \in 1..MaxAttempt : dlq'[Msg(f, a)] = dlq[Msg(f, a)]
      BY <2>1 DEF Put, Bag, Msg, Message, TypeOK, QueueTypeOK
    <2>7. \A f \in Executions \ {e} : OneHandler(f)'
      BY <2>1, <2>6, OtherExecutions DEF At, FailurePhases
    <2> QED
      BY <1>c, <2>1, <2>5, <2>7 DEF FailureInv
  <1> QED
    BY <1>1, <1>2, <1>3, <1>4, <1>5, <1>6 DEF TaskStep, TaskProceeds

LEMMA RecoveryFailures ==
    ASSUME TypeOK, FailureInv, NEW w \in Workers, RecoveryStep(w)
    PROVE  FailureInv'
  <1>0. OnlySubmits'
    BY DEF RecoveryStep, Recover, RecoveryEffect, FailureInv, OnlySubmits
  <1>1. ASSUME Recover(w) PROVE FailureInv'
    <2> DEFINE Owed(e) == [kind |-> IF Recovered(e).status = "QUEUED" THEN "retry" ELSE "dead",
                           target |-> Msg(e, Recovered(e).attempt)]
    <2>1. PICK S \in SUBSET {e \in Executions : Stale(e)} :
            /\ ForceFailAndDecide(S)
            /\ effects' = [effects EXCEPT ![w] = {Owed(e) : e \in S}]
      BY <1>1 DEF Recover
    <2>2. UNCHANGED <<dlq, task>> /\ effects[w] = {}
      BY <1>1 DEF Recover, queueVars
    <2>3. ASSUME NEW e \in Executions, NEW v \in Workers, NEW x \in effects'[v], Owes(v, x, e)'
          PROVE  \/ x \in effects[v]
                 \/ v = w /\ e \in S /\ x = Owed(e) /\ Recovered(e).status # "QUEUED"
      BY <2>1, <2>3 DEF Owes, Msg, TypeOK
    <2>4. ASSUME NEW e \in Executions \ S PROVE OneHandler(e)'
      <3>1. row'[e] = row[e]
        BY <2>1 DEF ForceFailAndDecide
      <3> QED
        BY <2>2, <2>3, <3>1, SameHandler DEF FailureInv
    <2>5. ASSUME NEW e \in S PROVE OneHandler(e)'
      <3>1. /\ \A s \in Slots : ~ Fails(s, e)
            /\ \A v \in Workers : \A x \in effects[v] : ~ Owes(v, x, e)
            /\ \A a \in 1..MaxAttempt : ~ (dlq[Msg(e, a)] > 0)
        BY NoFailure DEF Stale, FailedStatuses, FailureInv
      <3>2. \A s \in Slots : ~ Fails(s, e)'
        BY <2>2, <3>1 DEF Fails
      <3>3. row'[e] = Recovered(e)
        BY <2>1 DEF ForceFailAndDecide
      <3>4. \A v \in Workers : \A x \in effects'[v] : Owes(v, x, e)' =>
              v = w /\ x = Owed(e) /\ Recovered(e).status # "QUEUED"
        BY <2>3, <3>1 DEF Owes
      <3>5. Recovered(e).status # "QUEUED" => Recovered(e).status \in FailedStatuses
        BY DEF Recovered, FailedStatuses
      <3> QED
        BY <2>2, <3>1, <3>2, <3>3, <3>4, <3>5 DEF OneHandler, Msg
    <2> QED
      BY <1>0, <2>4, <2>5 DEF FailureInv
  <1>2. ASSUME RecoveryEffect(w) PROVE FailureInv'
    <2>1. PICK x \in effects[w] :
            /\ \/ x.kind = "retry" /\ EnqueueDelayed(x.target) /\ UNCHANGED dlq
               \/ x.kind = "dead" /\ DeadLetter(x.target) /\ UNCHANGED delayed
            /\ effects' = [effects EXCEPT ![w] = @ \ {x}]
      BY <1>2 DEF RecoveryEffect
    <2>2. UNCHANGED <<row, task>> /\ \A v \in Workers : effects'[v] \subseteq effects[v]
      BY <1>2, <2>1 DEF RecoveryEffect, rowVars, TypeOK
    <2>3. CASE UNCHANGED dlq
      BY <1>0, <2>2, <2>3, FailureFrame
    <2>4. CASE x.kind = "dead" /\ DeadLetter(x.target)
      <3>1. PICK e \in Executions : e = x.target.exec /\ x.target \in Message
        BY DEF TypeOK, Effect, Message
      <3>2. /\ row[e].status \in FailedStatuses
            /\ x.target = Msg(e, row[e].attempt)
            /\ \A s \in Slots : ~ Fails(s, e)
            /\ \A a \in 1..MaxAttempt : ~ (dlq[Msg(e, a)] > 0)
            /\ \A v \in Workers : \A y \in effects[v] : Owes(v, y, e) => v = w /\ y = x
        <4>1. Owes(w, x, e) /\ OneHandler(e)
          BY <2>4, <3>1 DEF Owes, FailureInv
        <4>2. ASSUME NEW y \in effects[w], Owes(w, y, e) PROVE y = x
          BY <3>1, <4>1, <4>2 DEF Owes, OneHandler, TypeOK, Effect, Message
        <4> QED
          BY <3>1, <4>1, <4>2 DEF OneHandler, Msg, Message
      <3>3. \A v \in Workers : \A y \in effects'[v] : ~ Owes(v, y, e)'
        BY <2>1, <2>2, <3>2 DEF Owes, TypeOK
      <3>4. \A a \in 1..MaxAttempt :
              dlq'[Msg(e, a)] > 0 => a = row[e].attempt /\ dlq'[Msg(e, a)] = 1
        BY <2>4, <3>1, <3>2 DEF DeadLetter, Put, Bag, Msg, Message, TypeOK, QueueTypeOK
      <3>5. OneHandler(e)'
        BY <2>2, <3>2, <3>3, <3>4 DEF OneHandler, Fails, Msg
      <3>6. \A f \in Executions \ {e} : \A a \in 1..MaxAttempt : dlq'[Msg(f, a)] = dlq[Msg(f, a)]
        BY <2>4, <3>1 DEF DeadLetter, Put, Bag, Msg, Message, TypeOK, QueueTypeOK
      <3>7. \A f \in Executions \ {e} : OneHandler(f)'
        BY <2>2, <3>6, SameHandler DEF FailureInv
      <3> QED
        BY <1>0, <3>5, <3>7 DEF FailureInv
    <2> QED
      BY <2>1, <2>3, <2>4
  <1> QED
    BY <1>1, <1>2 DEF RecoveryStep

LEMMA StepFailures ==
    ASSUME ApiOps \subseteq {"submit"}, TypeOK, FailureInv, [Next]_vars
    PROVE  FailureInv'
  <1>1. ASSUME UNCHANGED vars PROVE FailureInv'
    BY <1>1, FailureFrame DEF vars, queueVars, rowVars, procVars, FailureInv, OnlySubmits
  <1> QED
    BY <1>1, ConsumerFailures, RecoveryFailures, TaskFailures, ClientFailures,
       TimeFailures, FaultFailures DEF Next

LEMMA FailuresHaveOneHandler ==
    ASSUME ApiOps \subseteq {"submit"}
    PROVE  Spec => [](TypeOK /\ FailureInv)
  <1>1. Init => TypeOK /\ FailureInv
    BY InitTypes, InitFailures
  <1>2. TypeOK /\ FailureInv /\ [Next]_vars => (TypeOK /\ FailureInv)'
    BY StepTypes, StepFailures
  <1> QED
    BY <1>1, <1>2, PTL DEF Spec

\* The DLQ is final as long as nobody retries, cancels or deletes by hand: with
\* any number of workers, crashes, lost leases and late tasks, an execution is
\* put on it at most once, for the attempt its row shows as failed, and nothing
\* still means to requeue or bury it.
THEOREM DeadLettersStay ==
    ASSUME ApiOps \subseteq {"submit"}
    PROVE  Spec => []DeadLettersFinal
  <1>1. TypeOK /\ FailureInv => DeadLettersFinal
    <2> SUFFICES ASSUME FailureInv, NEW m \in Message, dlq[m] > 0
                 PROVE  /\ dlq[m] = 1
                        /\ row[m.exec].status \in FailedStatuses
                        /\ row[m.exec].attempt = m.attempt
                        /\ Handlers(m.exec) = {} /\ Buriers(m.exec) = {}
                        /\ BuryingPasses(m.exec) = {}
      BY DEF DeadLettersFinal
    <2>1. m = Msg(m.exec, m.attempt) /\ m.exec \in Executions /\ m.attempt \in 1..MaxAttempt
      BY DEF Message, Msg
    <2> QED
      BY <2>1 DEF FailureInv, OneHandler, Handlers, Buriers, BuryingPasses, Works, Fails,
                  FailurePhases, Owes
  <1> QED
    BY <1>1, FailuresHaveOneHandler, PTL

\* The status written by a step is one the state machine allows.
LegalStep ==
    \A e \in Executions :
      row'[e].status # row[e].status => LegalTransition(row[e].status, row'[e].status)

LEMMA TaskTransitions ==
    ASSUME TypeOK, FailureInv, NEW s \in Slots, TaskStep(s)
    PROVE  LegalStep
  <1>0. task[s] \in Task /\ row \in [Executions -> RowOrNone]
    BY DEF TypeOK, RowsTypeOK
  <1>1. ASSUME Start(s) PROVE LegalStep
    BY <1>0, <1>1 DEF Start, MarkRunning, LegalStep, LegalTransition
  <1>2. ASSUME FinishRow(s) PROVE LegalStep
    BY <1>0, <1>2 DEF FinishRow, Finish, SetStatus, LegalStep, LegalTransition
  <1>3. ASSUME Apply(s) PROVE LegalStep
    <2>1. PICK e \in Executions : e = task[s].msg.exec
      <3>1. task[s].msg \in Message
        BY <1>0, <1>3, TaskFields DEF Apply
      <3> QED
        BY <3>1 DEF Message
    <2>2. row[e].status \in FailedStatuses
      BY <1>3, <2>1 DEF Apply, FailureInv, OneHandler, Fails, FailurePhases
    <2>3. LegalTransition(row[e].status, "QUEUED")
      BY <2>2 DEF LegalTransition, CanTransition, Successors, FailedStatuses, Statuses
    <2>4. \A f \in Executions :
            \/ row'[f].status = row[f].status
            \/ f = e /\ row'[f].status = "QUEUED"
      BY <1>0, <1>3, <2>1 DEF Apply, RequeueSeen
    <2> QED
      BY <2>3, <2>4 DEF LegalStep
  <1>4. ASSUME UNCHANGED row PROVE LegalStep
    BY <1>4 DEF LegalStep
  <1> QED
    BY <1>1, <1>2, <1>3, <1>4
       DEF TaskStep, TaskProceeds, Reject, InstallEnds, Heartbeat, Beat, RunEnds, RunCancelled,
           FinishConflict, Decide, ApplyConflict, ScheduleRetry, Bury, DropCancel,
           AckAndRelease, taskFrame, rowVars

LEMMA StepTransitions ==
    ASSUME ApiOps \subseteq {"submit"}, TypeOK, FailureInv, Next
    PROVE  LegalStep
  <1>1. ASSUME UNCHANGED row PROVE LegalStep
    BY <1>1 DEF LegalStep
  <1>2. ASSUME NEW w \in Workers, Recover(w) PROVE LegalStep
    BY <1>2 DEF Recover, ForceFailAndDecide, Recovered, Stale, LegalStep, LegalTransition,
                CanTransition, Successors, Statuses
  <1>3. ASSUME NEW c \in Clients, ClientArrives(c) \/ ClientProceeds(c) PROVE LegalStep
    <2>1. CASE Submit(c)
      BY <2>1 DEF Submit, Create, LegalStep, LegalTransition, TypeOK, RowsTypeOK
    <2>2. CASE PushMessage(c)
      BY <1>1, <2>2 DEF PushMessage
    <2> QED
      BY <1>3, <2>1, <2>2
         DEF ClientArrives, ClientProceeds, RetryRead, CancelRead, DeleteRead, Arrives,
             RetryApply, CancelApply, Signal, DeleteWait, DeleteTest, DeleteCommit,
             FailureInv, OnlySubmits
  <1>4. ASSUME \/ \E w \in Workers : ConsumerStep(w) \/ RecoveryEffect(w)
               \/ \E e \in Executions : LeaseExpires(e) \/ KeyExpires(e)
               \/ FaultStep
        PROVE  UNCHANGED row
    BY <1>4 DEF ConsumerStep, PromoteRemove, PromotePush, PromoteDone, LeaseNext, LeaseEmpty,
                Drained, Restart, RecoveryEffect, LeaseExpires, KeyExpires, FaultStep, Crash,
                Stop, TaskRaises, NotebookUnreadable, PumpDies, AckRaises, RequestDies, rowVars
  <1> QED
    BY <1>1, <1>2, <1>3, <1>4, TaskTransitions DEF Next, RecoveryStep

\* Without manual operations every status change is one the transition table
\* allows: an automatic retry requeues only a row that is still failed, however
\* the workers, the recovery passes and the failures interleave.
THEOREM TransitionsStayLegal ==
    ASSUME ApiOps \subseteq {"submit"}
    PROVE  Spec => OnlyLegalTransitions
  <1>1. TypeOK /\ FailureInv /\ [Next]_vars => [LegalStep]_row
    BY StepTransitions DEF vars, rowVars
  <1>2. [][LegalStep]_row => OnlyLegalTransitions
    BY PTL DEF LegalStep, OnlyLegalTransitions
  <1> QED
    BY <1>1, <1>2, FailuresHaveOneHandler, PTL DEF Spec

-----------------------------------------------------------------------------
(* The places a message can be in. *)

InMain(m) == \E i \in 1..Len(main) : main[i] = m

\* Holder k of kind p has a copy of m: the summands of Deliveries, one by one.
Holds(p, k, m) ==
    \/ p = "main" /\ k = "main" /\ InMain(m)
    \/ p = "delayed" /\ k = "delayed" /\ delayed[m] > 0
    \/ p = "push" /\ k \in Workers /\ consumer[k] = [pc |-> "push", msg |-> m]
    \/ p = "leased" /\ k \in Slots /\ task[k] = [pc |-> "leased", msg |-> m]
    \/ p = "retrying" /\ k \in Slots /\ task[k].pc = "retrying" /\ task[k].target = m
    \/ p = "owed" /\ k \in Workers /\ [kind |-> "retry", target |-> m] \in effects[k]
    \/ p = "enqueue" /\ k \in Clients /\ client[k] = [pc |-> "enqueue", msg |-> m]

\* The queue holds no execution twice.
MainDistinct == \A i, j \in 1..Len(main) : main[i].exec = main[j].exec => i = j

\* There is one copy of one message of e, for the attempt its row shows.
OneCopy(e) ==
    \A m \in Message : \A p, k : m.exec = e /\ Holds(p, k, m) =>
      /\ row[e].status \in {"QUEUED", "CANCELLED"}
      /\ row[e].attempt = m.attempt
      /\ \A n \in Message : \A q, l :
           n.exec = e /\ Holds(q, l, n) => p = q /\ k = l /\ m = n

\* What a handler read of a failed row is still what the row shows.
SeenIsRow ==
    \A s \in Slots : task[s].pc = "applying" => task[s].seen = row[task[s].msg.exec]

DeliveryInv ==
    /\ MainDistinct
    /\ \A m \in Message : delayed[m] <= 1
    /\ \A e \in Executions : OneCopy(e)
    /\ SeenIsRow

LEMMA EnqueueMain ==
    ASSUME TypeOK, NEW m \in Message, Enqueue(m)
    PROVE  /\ \A n \in Message : InMain(n)' <=> InMain(n) \/ n = m
           /\ MainDistinct /\ (\A i \in 1..Len(main) : main[i].exec # m.exec) => MainDistinct'
  <1>1. main \in Seq(Message) /\ main' = <<m>> \o main
    BY DEF TypeOK, QueueTypeOK, Enqueue
  <1>2. /\ Len(main') = Len(main) + 1 /\ Len(main) \in Nat
        /\ main'[1] = m
        /\ \A i \in 1..Len(main) : main'[i + 1] = main[i]
    BY <1>1
  <1>3. \A i \in 1..Len(main') : i = 1 \/ (i - 1 \in 1..Len(main) /\ main'[i] = main[i - 1])
    BY <1>2
  <1>4. \A n \in Message : InMain(n)' => InMain(n) \/ n = m
    BY <1>2, <1>3 DEF InMain
  <1>5. \A n \in Message : InMain(n) => InMain(n)'
    BY <1>2 DEF InMain
  <1>6. InMain(m)'
    <2>1. 1 \in 1..Len(main') /\ main'[1] = m
      BY <1>2
    <2> QED
      BY <2>1 DEF InMain
  <1>7. MainDistinct /\ (\A i \in 1..Len(main) : main[i].exec # m.exec) => MainDistinct'
    <2> SUFFICES ASSUME MainDistinct, \A i \in 1..Len(main) : main[i].exec # m.exec,
                        NEW i \in 1..Len(main'), NEW j \in 1..Len(main'),
                        main'[i].exec = main'[j].exec
                 PROVE  i = j
      BY DEF MainDistinct
    <2>1. (i = 1 /\ j = 1) \/ (i # 1 /\ j # 1)
      BY <1>2, <1>3
    <2>2. ASSUME i # 1, j # 1 PROVE i - 1 = j - 1
      <3>1. /\ i - 1 \in 1..Len(main) /\ main'[i] = main[i - 1]
            /\ j - 1 \in 1..Len(main) /\ main'[j] = main[j - 1]
        BY <1>3, <2>2
      <3> QED
        BY <3>1 DEF MainDistinct
    <2> QED
      BY <1>2, <2>1, <2>2
  <1> QED
    BY <1>4, <1>5, <1>6, <1>7

LEMMA LeaseMain ==
    ASSUME TypeOK, Lease, NEW h, h = Head(main)
    PROVE  /\ h \in Message /\ InMain(h)
           /\ \A n \in Message : InMain(n)' => InMain(n)
           /\ \A n \in Message : InMain(n) => InMain(n)' \/ n = h
           /\ MainDistinct => MainDistinct' /\ ~ InMain(h)'
  <1>1. main \in Seq(Message) /\ main # <<>> /\ main' = Tail(main)
    BY DEF TypeOK, QueueTypeOK, Lease
  <1>2. /\ Len(main) \in Nat \ {0} /\ Len(main') = Len(main) - 1
        /\ h = main[1] /\ h \in Message
        /\ \A i \in 1..Len(main') : main'[i] = main[i + 1]
    BY <1>1
  <1>3. \A i \in 1..Len(main) : i = 1 \/ (i - 1 \in 1..Len(main') /\ main'[i - 1] = main[i])
    BY <1>2
  <1>4. InMain(h)
    <2>1. 1 \in 1..Len(main) /\ main[1] = h
      BY <1>2
    <2> QED
      BY <2>1 DEF InMain
  <1>5. \A n \in Message : InMain(n)' => InMain(n)
    BY <1>2 DEF InMain
  <1>6. \A n \in Message : InMain(n) => InMain(n)' \/ n = h
    BY <1>2, <1>3 DEF InMain
  <1>7. MainDistinct => MainDistinct'
    <2> SUFFICES ASSUME MainDistinct, NEW i \in 1..Len(main'), NEW j \in 1..Len(main'),
                        main'[i].exec = main'[j].exec
                 PROVE  i = j
      BY DEF MainDistinct
    <2>1. i + 1 \in 1..Len(main) /\ j + 1 \in 1..Len(main)
      BY <1>2
    <2>2. i + 1 = j + 1
      BY <1>2, <2>1 DEF MainDistinct
    <2> QED
      BY <1>2, <2>2
  <1>8. MainDistinct => ~ InMain(h)'
    <2> SUFFICES ASSUME MainDistinct, NEW i \in 1..Len(main'), main'[i] = h
                 PROVE  FALSE
      BY DEF InMain
    <2>1. 1 \in 1..Len(main) /\ i + 1 \in 1..Len(main) /\ i \in Nat \ {0}
      BY <1>2
    <2>2. main[1] = main[i + 1]
      BY <1>2
    <2>3. 1 = i + 1
      BY <2>1, <2>2 DEF MainDistinct
    <2> QED
      BY <2>1, <2>3
  <1> QED
    BY <1>2, <1>4, <1>5, <1>6, <1>7, <1>8

\* A step that leaves the row of e alone and gives nobody a copy.
LEMMA CopiesStay ==
    ASSUME NEW e \in Executions, OneCopy(e), row'[e] = row[e],
           \A n \in Message : \A r, j : n.exec = e /\ Holds(r, j, n)' => Holds(r, j, n)
    PROVE  OneCopy(e)'
  BY DEF OneCopy

\* The step hands the copy of m that <<p, k>> holds over to <<q, l>>.
HandsOver(m, p, k, q, l) ==
    /\ Holds(p, k, m) /\ ~ Holds(p, k, m)'
    /\ \A n \in Message : \A r, j :
         Holds(r, j, n)' => Holds(r, j, n) \/ (n = m /\ r = q /\ j = l)

LEMMA CopyMoves ==
    ASSUME \A e \in Executions : OneCopy(e), UNCHANGED row,
           NEW m \in Message, NEW p, NEW k, NEW q, NEW l,
           HandsOver(m, p, k, q, l)
    PROVE  \A e \in Executions : OneCopy(e)'
  <1> USE DEF HandsOver
  <1>1. ASSUME NEW e \in Executions, m.exec # e PROVE OneCopy(e)'
    BY <1>1, CopiesStay
  <1>2. ASSUME NEW e \in Executions, m.exec = e PROVE OneCopy(e)'
    <2>1. \A n \in Message : \A r, j :
            n.exec = e /\ Holds(r, j, n)' => n = m /\ r = q /\ j = l
      BY <1>2 DEF OneCopy
    <2>2. row[e].status \in {"QUEUED", "CANCELLED"} /\ row[e].attempt = m.attempt
      BY <1>2 DEF OneCopy
    <2> QED
      BY <2>1, <2>2 DEF OneCopy
  <1> QED
    BY <1>1, <1>2

\* A step that queues an execution of which there is no copy.
LEMMA CopyAppears ==
    ASSUME NEW e \in Executions, NEW m \in Message, NEW q, NEW l,
           \A n \in Message : \A r, j : n.exec = e => ~ Holds(r, j, n),
           \A n \in Message : \A r, j :
             n.exec = e /\ Holds(r, j, n)' => Holds(r, j, n) \/ (n = m /\ r = q /\ j = l),
           row'[e].status = "QUEUED", row'[e].attempt = m.attempt
    PROVE  OneCopy(e)'
  BY DEF OneCopy

LEMMA NoCopy ==
    ASSUME NEW e \in Executions,
           \A n \in Message : \A r, j : n.exec = e => ~ Holds(r, j, n)'
    PROVE  OneCopy(e)'
  BY DEF OneCopy

\* There is no copy of an execution that is not waiting to start.
LEMMA NothingHeld ==
    ASSUME NEW e \in Executions, OneCopy(e), row[e].status \notin {"QUEUED", "CANCELLED"}
    PROVE  \A n \in Message : \A r, j : n.exec = e => ~ Holds(r, j, n)
  BY DEF OneCopy

-----------------------------------------------------------------------------
(* What the steps do to the copies. *)

\* A task that moves on its own gives up the copy it had.
LEMMA TaskHolds ==
    ASSUME TypeOK, NEW s \in Slots, NEW t, Goto(s, t), t.pc \notin {"leased", "retrying"},
           UNCHANGED <<main, delayed, consumer, effects, client>>
    PROVE  \A n \in Message : \A r, j :
             Holds(r, j, n)' => Holds(r, j, n) /\ ~ (r \in {"leased", "retrying"} /\ j = s)
  BY DEF Holds, InMain, Goto, TypeOK

\* A worker whose tasks are gone, and its consumer at no message.
LEMMA WorkerHolds ==
    ASSUME TypeOK, NEW w \in Workers, UNCHANGED <<main, delayed, client>>,
           task' = task \/ task' = [s \in Slots |-> IF s[1] = w THEN Idle ELSE task[s]],
           \A v \in Workers : effects'[v] \subseteq effects[v],
           \A v \in Workers : consumer'[v] = consumer[v] \/ consumer'[v].pc # "push"
    PROVE  \A n \in Message : \A r, j : Holds(r, j, n)' => Holds(r, j, n)
  BY DEF Holds, InMain, Idle, TypeOK

-----------------------------------------------------------------------------
(* The delivery invariant, action by action. *)

LEMMA InitDelivery == Init => DeliveryInv
  <1>1. Init => \A m \in Message : \A p, k : ~ Holds(p, k, m)
    BY DEF Init, QueueInit, EmptyBag, Holds, InMain, Idle
  <1>2. Init => MainDistinct /\ SeenIsRow /\ \A m \in Message : delayed[m] <= 1
    BY DEF Init, QueueInit, EmptyBag, MainDistinct, SeenIsRow, Idle
  <1> QED
    BY <1>1, <1>2 DEF DeliveryInv, OneCopy

\* A step that gives nobody a copy and touches neither the rows nor the queue.
LEMMA DeliveryFrame ==
    ASSUME DeliveryInv, UNCHANGED <<row, main, delayed>>,
           \A n \in Message : \A r, j : Holds(r, j, n)' => Holds(r, j, n),
           \A s \in Slots : task'[s].pc = "applying" => task'[s] = task[s]
    PROVE  DeliveryInv'
  <1>1. \A e \in Executions : OneCopy(e)'
    BY CopiesStay DEF DeliveryInv
  <1> QED
    BY <1>1 DEF DeliveryInv, MainDistinct, SeenIsRow

LEMMA ConsumerDelivery ==
    ASSUME TypeOK, DeliveryInv, NEW w \in Workers, ConsumerStep(w)
    PROVE  DeliveryInv'
  <1>1. ASSUME PromoteRemove(w) PROVE DeliveryInv'
    <2>1. PICK m \in Message :
            /\ RemoveDue(m)
            /\ consumer' = [consumer EXCEPT ![w] = [pc |-> "push", msg |-> m]]
      BY <1>1 DEF PromoteRemove
    <2>2. UNCHANGED <<row, main, task, effects, client>>
      BY <1>1 DEF PromoteRemove, rowVars
    <2>3. \A n \in Message : delayed'[n] <= 1 /\ (delayed'[n] > 0 => n # m /\ delayed[n] > 0)
      BY <2>1 DEF RemoveDue, Take, Bag, TypeOK, QueueTypeOK, DeliveryInv
    <2>4. Holds("delayed", "delayed", m) /\ ~ Holds("delayed", "delayed", m)'
      BY <2>1, <2>3 DEF Holds, RemoveDue
    <2>5. \A n \in Message : \A r, j :
            Holds(r, j, n)' => Holds(r, j, n) \/ (n = m /\ r = "push" /\ j = w)
      BY <2>1, <2>2, <2>3 DEF Holds, InMain, TypeOK
    <2>6. \A e \in Executions : OneCopy(e)'
      <3>1. HandsOver(m, "delayed", "delayed", "push", w)
        BY <2>4, <2>5 DEF HandsOver
      <3> QED
        BY <2>2, <3>1, CopyMoves DEF DeliveryInv
    <2> QED
      BY <2>2, <2>3, <2>6 DEF DeliveryInv, MainDistinct, SeenIsRow
  <1>2. ASSUME PromotePush(w) PROVE DeliveryInv'
    <2> DEFINE m == consumer[w].msg
    <2>1. PICK n \in Message : n = m /\ consumer[w] = [pc |-> "push", msg |-> n]
      BY <1>2 DEF PromotePush, TypeOK, Consumer
    <2>2. /\ UNCHANGED <<row, delayed, task, effects, client>>
          /\ Enqueue(n)
          /\ consumer' = [consumer EXCEPT ![w] = [pc |-> "promote"]]
      BY <1>2, <2>1 DEF PromotePush, ConsumerAt, rowVars
    <2>3. Holds("push", w, n) /\ ~ Holds("push", w, n)'
      BY <2>1, <2>2 DEF Holds, TypeOK
    <2>4. \A i \in 1..Len(main) : main[i].exec # n.exec
      <3> SUFFICES ASSUME NEW i \in 1..Len(main), main[i].exec = n.exec PROVE FALSE
        OBVIOUS
      <3>1. main[i] \in Message /\ Holds("main", "main", main[i])
        BY DEF Holds, InMain, TypeOK, QueueTypeOK
      <3>2. OneCopy(n.exec)
        BY DEF DeliveryInv, Message
      <3> QED
        BY <2>3, <3>1, <3>2 DEF OneCopy
    <2>5. MainDistinct' /\ \A x \in Message : InMain(x)' <=> InMain(x) \/ x = n
      BY <2>2, <2>4, EnqueueMain DEF DeliveryInv
    <2>6. \A x \in Message : \A r, j :
            Holds(r, j, x)' => Holds(r, j, x) \/ (x = n /\ r = "main" /\ j = "main")
      BY <2>2, <2>5 DEF Holds, TypeOK
    <2>7. \A e \in Executions : OneCopy(e)'
      <3>1. HandsOver(n, "push", w, "main", "main")
        BY <2>3, <2>6 DEF HandsOver
      <3> QED
        BY <2>2, <3>1, CopyMoves DEF DeliveryInv
    <2> QED
      BY <2>2, <2>5, <2>7 DEF DeliveryInv, SeenIsRow
  <1>3. ASSUME LeaseNext(w) PROVE DeliveryInv'
    <2>1. PICK s \in FreeSlots(w) : Lease /\ Goto(s, [pc |-> "leased", msg |-> Head(main)])
      BY <1>3 DEF LeaseNext
    <2>2. PICK h : h = Head(main)
      OBVIOUS
    <2>3. /\ UNCHANGED <<row, delayed, effects, client>>
          /\ consumer' = [consumer EXCEPT ![w] = [pc |-> "promote"]]
      BY <1>3 DEF LeaseNext, ConsumerAt, rowVars
    <2>4. /\ h \in Message /\ InMain(h) /\ ~ InMain(h)' /\ MainDistinct'
          /\ \A n \in Message : InMain(n)' => InMain(n)
      BY <2>1, <2>2, LeaseMain DEF DeliveryInv
    <2>5. Holds("main", "main", h) /\ ~ Holds("main", "main", h)'
      BY <2>4 DEF Holds
    <2>6. task' = [task EXCEPT ![s] = [pc |-> "leased", msg |-> h]] /\ s \in Slots
      BY <2>1, <2>2 DEF Goto, FreeSlots
    <2>7. \A n \in Message : \A r, j :
            Holds(r, j, n)' => Holds(r, j, n) \/ (n = h /\ r = "leased" /\ j = s)
      BY <2>3, <2>4, <2>6 DEF Holds, TypeOK
    <2>8. \A e \in Executions : OneCopy(e)'
      <3>1. HandsOver(h, "main", "main", "leased", s)
        BY <2>5, <2>7 DEF HandsOver
      <3> QED
        BY <2>3, <2>4, <3>1, CopyMoves DEF DeliveryInv
    <2>9. SeenIsRow'
      BY <2>3, <2>6 DEF SeenIsRow, DeliveryInv, TypeOK
    <2> QED
      BY <2>3, <2>4, <2>8, <2>9 DEF DeliveryInv
  <1>4. ASSUME PromoteDone(w) \/ LeaseEmpty(w) \/ Drained(w) \/ Restart(w) PROVE DeliveryInv'
    <2>1. /\ UNCHANGED <<row, main, delayed, effects, client>>
          /\ task' = task \/ task' = [s \in Slots |-> IF s[1] = w THEN Idle ELSE task[s]]
          /\ \A v \in Workers : consumer'[v] = consumer[v] \/ consumer'[v].pc # "push"
      BY <1>4 DEF PromoteDone, LeaseEmpty, Drained, Restart, ConsumerAt, queueVars, rowVars, TypeOK
    <2>2. \A n \in Message : \A r, j : Holds(r, j, n)' => Holds(r, j, n)
      BY <2>1, WorkerHolds
    <2>3. \A s \in Slots : task'[s].pc = "applying" => task'[s] = task[s]
      BY <2>1 DEF Idle
    <2> QED
      BY <2>1, <2>2, <2>3, DeliveryFrame
  <1> QED
    BY <1>1, <1>2, <1>3, <1>4 DEF ConsumerStep

\* A task step on execution e after which nobody has a copy of e.
LEMMA CopyConsumed ==
    ASSUME TypeOK, DeliveryInv, NEW s \in Slots, NEW e \in Executions, NEW t, Goto(s, t),
           t.pc \notin {"leased", "retrying", "applying"},
           UNCHANGED <<main, delayed, consumer, effects, client>>,
           \A f \in Executions \ {e} : row'[f] = row[f],
           \A n \in Message : \A r, j : n.exec = e => ~ Holds(r, j, n)',
           \A r \in Slots : task[r].pc = "applying" => task[r].msg.exec # e
    PROVE  DeliveryInv'
  <1>1. ASSUME NEW f \in Executions \ {e} PROVE OneCopy(f)'
    BY TaskHolds, CopiesStay DEF DeliveryInv
  <1>2. OneCopy(e)'
    BY NoCopy
  <1>3. \A r \in Slots : task'[r].pc = "applying" => task'[r] = task[r]
    BY DEF Goto, TypeOK
  <1>4. SeenIsRow'
    <2> SUFFICES ASSUME NEW r \in Slots, task'[r].pc = "applying"
                 PROVE  task'[r].seen = row'[task'[r].msg.exec]
      BY DEF SeenIsRow
    <2>1. task'[r] = task[r] /\ task[r].msg \in Message
      BY <1>3, TaskFields DEF TypeOK
    <2>2. task[r].msg.exec \in Executions \ {e}
      BY <2>1 DEF Message
    <2> QED
      BY <2>1, <2>2 DEF SeenIsRow, DeliveryInv
  <1> QED
    BY <1>1, <1>2, <1>4 DEF DeliveryInv, MainDistinct

LEMMA TaskDelivery ==
    ASSUME TypeOK, FailureInv, DeliveryInv, NEW s \in Slots, TaskStep(s)
    PROVE  DeliveryInv'
  <1> DEFINE m == task[s].msg
             Frames == \/ Reject(s) \/ InstallEnds(s) \/ Heartbeat(s) \/ RunEnds(s)
                       \/ RunCancelled(s) \/ FinishConflict(s) \/ ApplyConflict(s)
                       \/ Bury(s) \/ DropCancel(s) \/ AckAndRelease(s)
  <1>0. task[s] \in Task /\ task \in [Slots -> Task] /\ row \in [Executions -> RowOrNone]
    BY DEF TypeOK, RowsTypeOK
  <1>1. ASSUME Frames PROVE DeliveryInv'
    <2>1. UNCHANGED <<row, main, delayed, consumer, effects, client>>
      BY <1>1 DEF Reject, InstallEnds, Heartbeat, Beat, RunEnds, RunCancelled, FinishConflict,
                  ApplyConflict, Bury, DropCancel, AckAndRelease, taskFrame, rowVars,
                  queueVars, procVars
    <2>2. task' = task \/ \E t : Goto(s, t) /\ t.pc \notin {"leased", "retrying", "applying"}
      BY <1>1
         DEF Reject, InstallEnds, Heartbeat, RunEnds, RunCancelled, FinishConflict, ApplyConflict,
             Bury, DropCancel, AckAndRelease, At, Idle, procVars
    <2>3. \A n \in Message : \A r, j : Holds(r, j, n)' => Holds(r, j, n)
      <3>1. CASE task' = task
        BY <2>1, <3>1 DEF Holds, InMain
      <3>2. CASE \E t : Goto(s, t) /\ t.pc \notin {"leased", "retrying", "applying"}
        BY <2>1, <3>2, TaskHolds
      <3> QED
        BY <2>2, <3>1, <3>2
    <2>4. \A r \in Slots : task'[r].pc = "applying" => task'[r] = task[r]
      BY <1>0, <2>2 DEF Goto
    <2> QED
      BY <2>1, <2>3, <2>4, DeliveryFrame
  <1> SUFFICES ASSUME ~ Frames PROVE DeliveryInv'
    BY <1>1
  <1>e. m \in Message /\ \E e \in Executions : e = m.exec
    <2>1. task[s].pc \notin {"idle", "leaked"}
      BY DEF TaskStep, TaskProceeds, Start, FinishRow, Decide, Apply, ScheduleRetry
    <2>2. m \in Message
      BY <1>0, <2>1, TaskFields
    <2> QED
      BY <2>2 DEF Message
  <1>f. PICK e \in Executions : e = m.exec
    BY <1>e
  <1>2. ASSUME Start(s) PROVE DeliveryInv'
    <2>1. /\ row[e].status = "QUEUED"
          /\ \A f \in Executions \ {e} : row'[f] = row[f]
          /\ UNCHANGED <<main, delayed, consumer, effects, client>>
          /\ Goto(s, At(s, "installing"))
      BY <1>0, <1>2, <1>f DEF Start, MarkRunning, CanTransition, Successors, Statuses, taskFrame
    <2>2. Holds("leased", s, m)
      BY <1>0, <1>2, <1>e DEF Start, Holds, Task, Idle, Leaked
    <2>3. /\ \A n \in Message : \A r, j : Holds(r, j, n)' => Holds(r, j, n)
          /\ \A n \in Message : ~ Holds("leased", s, n)'
      BY <2>1, TaskHolds DEF At
    <2>4. \A n \in Message : \A r, j : n.exec = e => ~ Holds(r, j, n)'
      BY <1>e, <1>f, <2>2, <2>3 DEF DeliveryInv, OneCopy
    <2>5. \A r \in Slots : task[r].pc = "applying" => task[r].msg.exec # e
      BY <2>1, NoFailure DEF FailureInv, Fails, FailurePhases, FailedStatuses
    <2> QED
      BY <2>1, <2>4, <2>5, CopyConsumed DEF At
  <1>3. ASSUME FinishRow(s) PROVE DeliveryInv'
    <2>1. /\ \A f \in Executions \ {e} : row'[f] = row[f]
          /\ UNCHANGED <<main, delayed, consumer, effects, client>>
          /\ \E t : Goto(s, t) /\ t.pc \notin {"leased", "retrying", "applying"}
      BY <1>0, <1>3, <1>f DEF FinishRow, Finish, SetStatus, At, taskFrame
    <2>2. task[s].outcome \in Successors["RUNNING"]
      BY <1>0, <1>3, TaskFields DEF FinishRow
    <2>3. \/ row[e].status = "RUNNING"
          \/ row[e].status = "QUEUED" /\ task[s].outcome = "CANCELLED"
      BY <1>3, <1>f, <2>2 DEF FinishRow, Finish, CanTransition, Successors, Statuses
    <2>4. \A r \in Slots : task[r].pc = "applying" => task[r].msg.exec # e
      BY <2>3, NoFailure DEF FailureInv, Fails, FailurePhases, FailedStatuses
    <2>5. CASE row[e].status = "RUNNING"
      <3>1. \A n \in Message : \A r, j : n.exec = e => ~ Holds(r, j, n)'
        BY <2>1, <2>5, NothingHeld, TaskHolds DEF DeliveryInv
      <3> QED
        BY <2>1, <2>4, <3>1, CopyConsumed
    <2>6. CASE row[e].status = "QUEUED" /\ task[s].outcome = "CANCELLED"
      <3>1. \A n \in Message : \A r, j : Holds(r, j, n)' => Holds(r, j, n)
        BY <2>1, TaskHolds
      <3>2. row'[e].status = "CANCELLED" /\ row'[e].attempt = row[e].attempt
        <4>1. row[e] \in Row
          BY <1>0, <2>6, RowFields DEF Statuses
        <4> QED
          BY <1>0, <1>3, <1>f, <2>6, <4>1 DEF FinishRow, Finish, SetStatus, Row
      <3>3. OneCopy(e)'
        BY <3>1, <3>2 DEF DeliveryInv, OneCopy
      <3>4. ASSUME NEW f \in Executions \ {e} PROVE OneCopy(f)'
        BY <2>1, <3>1, CopiesStay DEF DeliveryInv
      <3>5. SeenIsRow'
        <4> SUFFICES ASSUME NEW r \in Slots, task'[r].pc = "applying"
                     PROVE  task'[r].seen = row'[task'[r].msg.exec]
          BY DEF SeenIsRow
        <4>1. task'[r] = task[r] /\ task[r].msg \in Message
          BY <1>0, <2>1, TaskFields DEF Goto
        <4>2. task[r].msg.exec \in Executions \ {e}
          BY <2>4, <4>1 DEF Message
        <4> QED
          BY <2>1, <4>1, <4>2 DEF SeenIsRow, DeliveryInv
      <3> QED
        BY <2>1, <3>3, <3>4, <3>5 DEF DeliveryInv, MainDistinct
    <2> QED
      BY <2>3, <2>5, <2>6
  <1>4. ASSUME Decide(s) PROVE DeliveryInv'
    <2>1. PICK t : /\ Goto(s, t)
                   /\ t.msg = m
                   /\ t.pc \notin {"leased", "retrying"}
                   /\ t.pc = "applying" => t.seen = row[e]
      BY <1>4, <1>f DEF Decide, At
    <2>2. UNCHANGED <<row, main, delayed, consumer, effects, client>>
      BY <1>4 DEF Decide, taskFrame, rowVars
    <2>3. \A n \in Message : \A r, j : Holds(r, j, n)' => Holds(r, j, n)
      BY <2>1, <2>2, TaskHolds
    <2>4. \A f \in Executions : OneCopy(f)'
      BY <2>2, <2>3, CopiesStay DEF DeliveryInv
    <2>5. SeenIsRow'
      BY <1>0, <1>f, <2>1, <2>2 DEF SeenIsRow, DeliveryInv, Goto
    <2> QED
      BY <2>2, <2>4, <2>5 DEF DeliveryInv, MainDistinct
  <1>5. ASSUME Apply(s) PROVE DeliveryInv'
    <2> DEFINE a == task[s].seen.attempt + 1
    <2>1. /\ Fails(s, e)
          /\ row' = [row EXCEPT ![e] = [status |-> "QUEUED", attempt |-> a]]
          /\ UNCHANGED <<main, delayed, consumer, effects, client>>
          /\ Goto(s, [pc |-> "retrying", msg |-> m, target |-> Msg(e, a)])
      BY <1>5, <1>f DEF Apply, RequeueSeen, taskFrame, Fails, FailurePhases
    <2>2. Msg(e, a) \in Message
      <3>1. task[s].seen.attempt \in 1..MaxRetries
        BY <1>0, <1>5, TaskFields DEF Apply
      <3> QED
        BY <3>1, RetryPolicyAssumption DEF Msg, Message
    <2>3. row[e].status \in FailedStatuses /\ \A r \in Slots : Fails(r, e) => r = s
      BY <2>1 DEF FailureInv, OneHandler
    <2>4. \A n \in Message : \A r, j : n.exec = e => ~ Holds(r, j, n)
      BY <2>3, NothingHeld DEF DeliveryInv, FailedStatuses
    <2>5. \A n \in Message : \A r, j :
            Holds(r, j, n)' => Holds(r, j, n) \/ (n = Msg(e, a) /\ r = "retrying" /\ j = s)
      BY <1>0, <2>1 DEF Holds, InMain, Goto
    <2>6. OneCopy(e)'
      BY <1>0, <2>1, <2>2, <2>4, <2>5, CopyAppears DEF Msg
    <2>7. ASSUME NEW f \in Executions \ {e} PROVE OneCopy(f)'
      BY <1>0, <2>1, <2>5, CopiesStay DEF DeliveryInv, Msg
    <2>8. SeenIsRow'
      <3> SUFFICES ASSUME NEW r \in Slots, task'[r].pc = "applying"
                   PROVE  task'[r].seen = row'[task'[r].msg.exec]
        BY DEF SeenIsRow
      <3>1. r # s /\ task'[r] = task[r] /\ task[r].msg \in Message
        BY <1>0, <2>1, TaskFields DEF Goto
      <3>2. task[r].msg.exec \in Executions \ {e}
        BY <2>3, <3>1 DEF Message, Fails, FailurePhases
      <3> QED
        BY <1>0, <2>1, <3>1, <3>2 DEF SeenIsRow, DeliveryInv
    <2> QED
      BY <2>1, <2>6, <2>7, <2>8 DEF DeliveryInv, MainDistinct
  <1>6. ASSUME ScheduleRetry(s) PROVE DeliveryInv'
    <2>1. PICK n \in Message : n = task[s].target
      BY <1>0, <1>6, TaskFields DEF ScheduleRetry
    <2>2. /\ UNCHANGED <<row, main, consumer, effects, client>>
          /\ delayed' = Put(delayed, n)
          /\ Goto(s, At(s, "acking"))
      BY <1>6, <2>1 DEF ScheduleRetry, EnqueueDelayed, rowVars
    <2>3. Holds("retrying", s, n) /\ ~ Holds("retrying", s, n)'
      BY <1>0, <1>6, <2>1, <2>2 DEF ScheduleRetry, Holds, Goto, At
    <2>4. ~ (delayed[n] > 0)
      BY <2>3 DEF DeliveryInv, OneCopy, Holds, Message
    <2>5. \A x \in Message :
            delayed'[x] <= 1 /\ (delayed'[x] > 0 => x = n \/ delayed[x] > 0)
      BY <2>2, <2>4 DEF Put, Bag, TypeOK, QueueTypeOK, DeliveryInv
    <2>6. \A x \in Message : \A r, j :
            Holds(r, j, x)' => Holds(r, j, x) \/ (x = n /\ r = "delayed" /\ j = "delayed")
      BY <1>0, <2>2, <2>5 DEF Holds, InMain, Goto, At
    <2>7. \A f \in Executions : OneCopy(f)'
      <3>1. HandsOver(n, "retrying", s, "delayed", "delayed")
        BY <2>3, <2>6 DEF HandsOver
      <3> QED
        BY <2>2, <3>1, CopyMoves DEF DeliveryInv
    <2>8. SeenIsRow'
      BY <1>0, <2>2 DEF SeenIsRow, DeliveryInv, Goto, At
    <2> QED
      BY <2>2, <2>5, <2>7, <2>8 DEF DeliveryInv, MainDistinct
  <1> QED
    BY <1>1, <1>2, <1>3, <1>4, <1>5, <1>6 DEF TaskStep, TaskProceeds

LEMMA ClientDelivery ==
    ASSUME TypeOK, FailureInv, DeliveryInv, ApiOps \subseteq {"submit"}, NEW c \in Clients,
           ClientArrives(c) \/ ClientProceeds(c)
    PROVE  DeliveryInv'
  <1>1. CASE Submit(c)
    <2>1. PICK e \in Executions :
            Create(e) /\ ClientAt(c, [pc |-> "enqueue", msg |-> Msg(e, 1)])
      BY <1>1 DEF Submit
    <2>2. /\ UNCHANGED <<main, delayed, consumer, task, effects>>
          /\ client' = [client EXCEPT ![c] = [pc |-> "enqueue", msg |-> Msg(e, 1)]]
          /\ row[e].status = "NONE"
          /\ row' = [row EXCEPT ![e] = [status |-> "QUEUED", attempt |-> 1]]
      BY <1>1, <2>1 DEF Submit, Create, ClientAt, apiFrame
    <2>3. Msg(e, 1) \in Message
      BY RetryPolicyAssumption DEF Msg, Message
    <2>4. \A n \in Message : \A r, j :
            Holds(r, j, n)' => Holds(r, j, n) \/ (n = Msg(e, 1) /\ r = "enqueue" /\ j = c)
      BY <2>2 DEF Holds, InMain, TypeOK
    <2>5. OneCopy(e)'
      <3>1. \A n \in Message : \A r, j : n.exec = e => ~ Holds(r, j, n)
        BY <2>2, NothingHeld DEF DeliveryInv
      <3>2. row'[e].status = "QUEUED" /\ row'[e].attempt = Msg(e, 1).attempt
        BY <2>2 DEF Msg, TypeOK, RowsTypeOK
      <3> QED
        BY <2>3, <2>4, <3>1, <3>2, CopyAppears
    <2>6. ASSUME NEW f \in Executions \ {e} PROVE OneCopy(f)'
      BY <2>2, <2>4, CopiesStay DEF DeliveryInv, Msg, TypeOK, RowsTypeOK
    <2>7. SeenIsRow'
      <3> SUFFICES ASSUME NEW s \in Slots, task[s].pc = "applying"
                   PROVE  row'[task[s].msg.exec] = row[task[s].msg.exec]
        BY <2>2 DEF SeenIsRow, DeliveryInv
      <3>1. task[s].msg.exec \in Executions
        BY TaskFields DEF TypeOK, Message
      <3>2. task[s].msg.exec # e
        BY <2>2, NoFailure DEF FailureInv, Fails, FailurePhases, FailedStatuses
      <3> QED
        BY <2>2, <3>1, <3>2 DEF TypeOK, RowsTypeOK
    <2> QED
      BY <2>2, <2>5, <2>6, <2>7 DEF DeliveryInv, MainDistinct
  <1>2. CASE PushMessage(c)
    <2>1. PICK n \in Message : client[c] = [pc |-> "enqueue", msg |-> n]
      BY <1>2 DEF PushMessage, TypeOK, Client, Idle
    <2>2. /\ UNCHANGED <<row, delayed, consumer, task, effects>>
          /\ Enqueue(n)
          /\ client' = [client EXCEPT ![c] = Idle]
      BY <1>2, <2>1 DEF PushMessage, ClientAt, apiFrame
    <2>3. Holds("enqueue", c, n) /\ ~ Holds("enqueue", c, n)'
      BY <2>1, <2>2 DEF Holds, Idle, TypeOK
    <2>4. \A i \in 1..Len(main) : main[i].exec # n.exec
      <3> SUFFICES ASSUME NEW i \in 1..Len(main), main[i].exec = n.exec PROVE FALSE
        OBVIOUS
      <3>1. main[i] \in Message /\ Holds("main", "main", main[i])
        BY DEF Holds, InMain, TypeOK, QueueTypeOK
      <3>2. OneCopy(n.exec)
        BY DEF DeliveryInv, Message
      <3> QED
        BY <2>3, <3>1, <3>2 DEF OneCopy
    <2>5. MainDistinct' /\ \A x \in Message : InMain(x)' <=> InMain(x) \/ x = n
      BY <2>2, <2>4, EnqueueMain DEF DeliveryInv
    <2>6. \A x \in Message : \A r, j :
            Holds(r, j, x)' => Holds(r, j, x) \/ (x = n /\ r = "main" /\ j = "main")
      BY <2>2, <2>5 DEF Holds, Idle, TypeOK
    <2>7. \A e \in Executions : OneCopy(e)'
      <3>1. HandsOver(n, "enqueue", c, "main", "main")
        BY <2>3, <2>6 DEF HandsOver
      <3> QED
        BY <2>2, <3>1, CopyMoves DEF DeliveryInv
    <2> QED
      BY <2>2, <2>5, <2>7 DEF DeliveryInv, SeenIsRow
  <1> QED
    BY <1>1, <1>2
       DEF ClientArrives, ClientProceeds, RetryRead, CancelRead, DeleteRead, Arrives,
           RetryApply, CancelApply, Signal, DeleteWait, DeleteTest, DeleteCommit,
           FailureInv, OnlySubmits

LEMMA RecoveryDelivery ==
    ASSUME TypeOK, FailureInv, DeliveryInv, NEW w \in Workers, RecoveryStep(w)
    PROVE  DeliveryInv'
  <1>1. ASSUME Recover(w) PROVE DeliveryInv'
    <2> DEFINE Owed(e) == [kind |-> IF Recovered(e).status = "QUEUED" THEN "retry" ELSE "dead",
                           target |-> Msg(e, Recovered(e).attempt)]
    <2>1. PICK S \in SUBSET {e \in Executions : Stale(e)} :
            /\ ForceFailAndDecide(S)
            /\ effects' = [effects EXCEPT ![w] = {Owed(e) : e \in S}]
      BY <1>1 DEF Recover
    <2>2. UNCHANGED <<main, delayed, consumer, task, client>> /\ effects[w] = {}
      BY <1>1 DEF Recover, queueVars
    <2>3. ASSUME NEW n \in Message, NEW r, NEW j, Holds(r, j, n)'
          PROVE  \/ Holds(r, j, n)
                 \/ /\ r = "owed" /\ j = w /\ n.exec \in S
                    /\ n = Msg(n.exec, Recovered(n.exec).attempt)
                    /\ Recovered(n.exec).status = "QUEUED"
      <3>1. CASE r = "owed" /\ j = w
        <4>1. PICK e \in S : [kind |-> "retry", target |-> n] = Owed(e)
          BY <2>1, <2>3, <3>1 DEF Holds, TypeOK
        <4>2. n = Msg(e, Recovered(e).attempt) /\ Recovered(e).status = "QUEUED"
          BY <4>1
        <4>3. n.exec = e
          BY <4>2 DEF Msg
        <4> QED
          BY <3>1, <4>2, <4>3
      <3>2. CASE ~ (r = "owed" /\ j = w)
        BY <2>1, <2>2, <2>3, <3>2 DEF Holds, InMain, TypeOK
      <3> QED
        BY <3>1, <3>2
    <2>4. ASSUME NEW e \in Executions \ S PROVE OneCopy(e)'
      <3>1. row'[e] = row[e]
        BY <2>1 DEF ForceFailAndDecide
      <3> QED
        BY <2>3, <3>1, CopiesStay DEF DeliveryInv
    <2>5. ASSUME NEW e \in S PROVE OneCopy(e)'
      <3>1. \A n \in Message : \A r, j : n.exec = e => ~ Holds(r, j, n)
        BY NothingHeld DEF Stale, DeliveryInv
      <3>2. row'[e] = Recovered(e)
        BY <2>1 DEF ForceFailAndDecide
      <3>3. \A n \in Message : \A r, j : n.exec = e /\ Holds(r, j, n)' =>
              /\ r = "owed" /\ j = w /\ n = Msg(e, Recovered(e).attempt)
              /\ Recovered(e).status = "QUEUED"
        BY <2>3, <3>1
      <3> QED
        BY <3>2, <3>3 DEF OneCopy, Msg
    <2>6. SeenIsRow'
      <3> SUFFICES ASSUME NEW s \in Slots, task[s].pc = "applying"
                   PROVE  row'[task[s].msg.exec] = row[task[s].msg.exec]
        BY <2>2 DEF SeenIsRow, DeliveryInv
      <3>1. task[s].msg.exec \in Executions
        BY TaskFields DEF TypeOK, Message
      <3>2. task[s].msg.exec \notin S
        BY NoFailure DEF Stale, FailureInv, Fails, FailurePhases, FailedStatuses
      <3> QED
        BY <2>1, <3>1, <3>2 DEF ForceFailAndDecide
    <2> QED
      BY <2>2, <2>4, <2>5, <2>6 DEF DeliveryInv, MainDistinct
  <1>2. ASSUME RecoveryEffect(w) PROVE DeliveryInv'
    <2>1. PICK x \in effects[w] :
            /\ \/ x.kind = "retry" /\ EnqueueDelayed(x.target) /\ UNCHANGED dlq
               \/ x.kind = "dead" /\ DeadLetter(x.target) /\ UNCHANGED delayed
            /\ effects' = [effects EXCEPT ![w] = @ \ {x}]
      BY <1>2 DEF RecoveryEffect
    <2>2. UNCHANGED <<row, main, consumer, task, client>>
      BY <1>2 DEF RecoveryEffect, rowVars
    <2>3. CASE UNCHANGED delayed
      <3>1. \A n \in Message : \A r, j : Holds(r, j, n)' => Holds(r, j, n)
        BY <2>1, <2>2, <2>3 DEF Holds, InMain, TypeOK
      <3> QED
        BY <2>2, <2>3, <3>1, DeliveryFrame
    <2>4. CASE x.kind = "retry" /\ EnqueueDelayed(x.target)
      <3>1. PICK n \in Message : x = [kind |-> "retry", target |-> n]
        BY <2>4 DEF TypeOK, Effect
      <3>2. Holds("owed", w, n) /\ ~ Holds("owed", w, n)'
        BY <2>1, <3>1 DEF Holds, TypeOK
      <3>3. ~ (delayed[n] > 0)
        <4>1. OneCopy(n.exec) /\ Holds("owed", w, n)
          BY <3>2 DEF DeliveryInv, Message
        <4>2. ~ Holds("delayed", "delayed", n)
          BY <4>1 DEF OneCopy
        <4> QED
          BY <4>2 DEF Holds
      <3>4. \A y \in Message :
              delayed'[y] <= 1 /\ (delayed'[y] > 0 => y = n \/ delayed[y] > 0)
        BY <2>4, <3>1, <3>3 DEF EnqueueDelayed, Put, Bag, TypeOK, QueueTypeOK, DeliveryInv
      <3>5. \A y \in Message : \A r, j :
              Holds(r, j, y)' => Holds(r, j, y) \/ (y = n /\ r = "delayed" /\ j = "delayed")
        <4>1. \A v \in Workers : effects'[v] \subseteq effects[v]
          BY <2>1 DEF TypeOK
        <4> QED
          BY <2>2, <3>4, <4>1 DEF Holds, InMain
      <3>6. \A f \in Executions : OneCopy(f)'
        <4>1. HandsOver(n, "owed", w, "delayed", "delayed")
          BY <3>2, <3>5 DEF HandsOver
        <4> QED
          BY <2>2, <4>1, CopyMoves DEF DeliveryInv
      <3> QED
        BY <2>2, <3>4, <3>6 DEF DeliveryInv, MainDistinct, SeenIsRow
    <2> QED
      BY <2>1, <2>3, <2>4
  <1> QED
    BY <1>1, <1>2 DEF RecoveryStep

LEMMA TimeDelivery ==
    ASSUME DeliveryInv, NEW e \in Executions, LeaseExpires(e) \/ KeyExpires(e)
    PROVE  DeliveryInv'
  <1>1. UNCHANGED <<row, main, delayed, consumer, task, effects, client>>
    BY DEF LeaseExpires, KeyExpires, rowVars, queueVars, procVars
  <1>2. \A n \in Message : \A r, j : Holds(r, j, n)' => Holds(r, j, n)
    BY <1>1 DEF Holds, InMain
  <1> QED
    BY <1>1, <1>2, DeliveryFrame

\* A failure loses a copy or leaves it where it is.
LEMMA FaultHolds ==
    ASSUME TypeOK, FaultStep
    PROVE  /\ UNCHANGED <<row, main, delayed>>
           /\ \A n \in Message : \A r, j : Holds(r, j, n)' => Holds(r, j, n)
           /\ \A s \in Slots : task'[s].pc = "applying" => task'[s] = task[s]
  <1> DEFINE Lossless == \A n \in Message : \A r, j : Holds(r, j, n)' => Holds(r, j, n)
             Kept == \A s \in Slots : task'[s].pc = "applying" => task'[s] = task[s]
  <1>1. UNCHANGED <<row, main, delayed>>
    BY DEF FaultStep, Crash, Stop, TaskRaises, NotebookUnreadable, PumpDies, AckRaises, RequestDies,
           rowVars, queueVars
  <1>2. ASSUME NEW w \in Workers, Crash(w) \/ Stop(w) PROVE Lossless /\ Kept
    <2>1. /\ UNCHANGED client
          /\ task' = task \/ task' = [s \in Slots |-> IF s[1] = w THEN Idle ELSE task[s]]
          /\ \A v \in Workers : effects'[v] \subseteq effects[v]
          /\ \A v \in Workers : consumer'[v] = consumer[v] \/ consumer'[v].pc # "push"
      BY <1>2 DEF Crash, Stop, ConsumerAt, TypeOK
    <2>2. Kept
      BY <2>1 DEF Idle
    <2> QED
      BY <1>1, <2>1, <2>2, WorkerHolds
  <1>3. ASSUME NEW s \in Slots,
               TaskRaises(s) \/ NotebookUnreadable(s) \/ PumpDies(s) \/ AckRaises(s)
        PROVE  Lossless /\ Kept
    <2>1. /\ UNCHANGED <<consumer, effects, client>>
          /\ \E t : Goto(s, t) /\ t.pc \notin {"leased", "retrying", "applying"}
      BY <1>3 DEF TaskRaises, NotebookUnreadable, PumpDies, AckRaises, At, Leaked
    <2>2. Kept
      BY <2>1 DEF Goto, TypeOK
    <2> QED
      BY <1>1, <2>1, <2>2, TaskHolds
  <1>4. ASSUME NEW c \in Clients, RequestDies(c) PROVE Lossless /\ Kept
    BY <1>1, <1>4 DEF RequestDies, ClientAt, Idle, Holds, InMain, TypeOK
  <1> QED
    BY <1>1, <1>2, <1>3, <1>4 DEF FaultStep

LEMMA StepDelivery ==
    ASSUME ApiOps \subseteq {"submit"}, TypeOK, FailureInv, DeliveryInv, [Next]_vars
    PROVE  DeliveryInv'
  <1>1. ASSUME UNCHANGED vars PROVE DeliveryInv'
    <2>1. UNCHANGED <<row, main, delayed, consumer, task, effects, client>>
      BY <1>1 DEF vars, queueVars, rowVars, procVars
    <2>2. \A n \in Message : \A r, j : Holds(r, j, n)' => Holds(r, j, n)
      BY <2>1 DEF Holds, InMain
    <2> QED
      BY <2>1, <2>2, DeliveryFrame
  <1>2. ASSUME FaultStep PROVE DeliveryInv'
    BY <1>2, FaultHolds, DeliveryFrame
  <1> QED
    BY <1>1, <1>2, ConsumerDelivery, RecoveryDelivery, TaskDelivery, ClientDelivery, TimeDelivery
       DEF Next

LEMMA DeliveryInvariant ==
    ASSUME ApiOps \subseteq {"submit"}
    PROVE  Spec => [](TypeOK /\ FailureInv /\ DeliveryInv)
  <1>1. Init => TypeOK /\ FailureInv /\ DeliveryInv
    BY InitTypes, InitFailures, InitDelivery
  <1>2. TypeOK /\ FailureInv /\ DeliveryInv /\ [Next]_vars => (TypeOK /\ FailureInv /\ DeliveryInv)'
    BY StepTypes, StepFailures, StepDelivery
  <1> QED
    BY <1>1, <1>2, PTL DEF Spec

-----------------------------------------------------------------------------
(* Counting. *)

LEMMA AtMostOne ==
    ASSUME NEW S, \A x, y \in S : x = y
    PROVE  Cardinality(S) \in {0, 1} /\ (Cardinality(S) = 0 <=> S = {})
  <1>1. CASE S = {}
    BY <1>1, FS_EmptySet
  <1>2. ASSUME NEW x \in S PROVE Cardinality(S) = 1
    <2>1. S = {x}
      OBVIOUS
    <2> QED
      BY <2>1, FS_Singleton
  <1> QED
    BY <1>1, <1>2

LEMMA OneDelivery ==
    ASSUME DeliveryInv, NEW e \in Executions, NEW a \in 1..MaxAttempt, delayed \in Bag
    PROVE  /\ Deliveries(e, a) <= 1
           /\ Deliveries(e, a) > 0 => \E p, k : Holds(p, k, Msg(e, a))
  <1> DEFINE m == Msg(e, a)
             Main == {i \in 1..Len(main) : main[i] = m}
             Pushing == {w \in Workers : consumer[w] = [pc |-> "push", msg |-> m]}
             Leased == {s \in Slots : task[s] = [pc |-> "leased", msg |-> m]}
             Retrying == {s \in Slots : task[s].pc = "retrying" /\ task[s].target = m}
             Owing == {w \in Workers : [kind |-> "retry", target |-> m] \in effects[w]}
             Enqueuing == {c \in Clients : client[c] = [pc |-> "enqueue", msg |-> m]}
             In(p) == \E k : Holds(p, k, m)
  <1>1. m \in Message /\ m.exec = e
    BY DEF Msg, Message
  <1>2. \A p, q, k, l : Holds(p, k, m) /\ Holds(q, l, m) => p = q /\ k = l
    BY <1>1 DEF DeliveryInv, OneCopy
  <1>3. Cardinality(Main) \in {0, 1} /\ (Cardinality(Main) # 0 => In("main"))
    <2>1. \A i, j \in Main : i = j
      BY DEF DeliveryInv, MainDistinct
    <2>2. Main # {} => Holds("main", "main", m)
      BY DEF Holds, InMain
    <2> QED
      BY <2>1, <2>2, AtMostOne
  <1>4. delayed[m] \in {0, 1} /\ (delayed[m] # 0 => In("delayed"))
    <2>1. delayed[m] \in {0, 1}
      BY <1>1 DEF DeliveryInv, Bag
    <2>2. delayed[m] # 0 => Holds("delayed", "delayed", m)
      BY <2>1 DEF Holds
    <2> QED
      BY <2>1, <2>2
  <1>5. Cardinality(Pushing) \in {0, 1} /\ (Cardinality(Pushing) # 0 => In("push"))
    <2>1. \A w \in Pushing : Holds("push", w, m)
      BY DEF Holds
    <2> QED
      BY <1>2, <2>1, AtMostOne
  <1>6. Cardinality(Leased) \in {0, 1} /\ (Cardinality(Leased) # 0 => In("leased"))
    <2>1. \A s \in Leased : Holds("leased", s, m)
      BY DEF Holds
    <2> QED
      BY <1>2, <2>1, AtMostOne
  <1>7. Cardinality(Retrying) \in {0, 1} /\ (Cardinality(Retrying) # 0 => In("retrying"))
    <2>1. \A s \in Retrying : Holds("retrying", s, m)
      BY DEF Holds
    <2> QED
      BY <1>2, <2>1, AtMostOne
  <1>8. Cardinality(Owing) \in {0, 1} /\ (Cardinality(Owing) # 0 => In("owed"))
    <2>1. \A w \in Owing : Holds("owed", w, m)
      BY DEF Holds
    <2> QED
      BY <1>2, <2>1, AtMostOne
  <1>9. Cardinality(Enqueuing) \in {0, 1} /\ (Cardinality(Enqueuing) # 0 => In("enqueue"))
    <2>1. \A c \in Enqueuing : Holds("enqueue", c, m)
      BY DEF Holds
    <2> QED
      BY <1>2, <2>1, AtMostOne
  <1>10. \A p, q : In(p) /\ In(q) => p = q
    BY <1>2
  <1>11. Deliveries(e, a) = Cardinality(Main) + delayed[m] + Cardinality(Pushing)
            + Cardinality(Leased) + Cardinality(Retrying) + Cardinality(Owing)
            + Cardinality(Enqueuing)
    BY DEF Deliveries
  <1>12. (\E p : In(p)) \/ Deliveries(e, a) = 0
    <2> HIDE DEF In, Main, Pushing, Leased, Retrying, Owing, Enqueuing
    <2> QED
      BY <1>3, <1>4, <1>5, <1>6, <1>7, <1>8, <1>9, <1>11
  <1>13. Deliveries(e, a) <= 1
    <2> HIDE DEF In, Main, Pushing, Leased, Retrying, Owing, Enqueuing
    <2>1. ASSUME NEW p, In(p) PROVE \A q : In(q) => q = p
      BY <1>10, <2>1
    <2> QED
      BY <1>3, <1>4, <1>5, <1>6, <1>7, <1>8, <1>9, <1>11, <1>12, <2>1
  <1> QED
    BY <1>12, <1>13

\* An execution is never delivered twice as long as nobody retries, cancels or
\* deletes it by hand: with any number of workers, crashes, lost leases and late
\* tasks, at most one message can start it, for the attempt its row is queued for,
\* and none once it runs or has ended.
THEOREM DeliveredOnce ==
    ASSUME ApiOps \subseteq {"submit"}
    PROVE  Spec => []SingleDelivery
  <1>1. TypeOK /\ DeliveryInv => SingleDelivery
    <2> SUFFICES ASSUME TypeOK, DeliveryInv, NEW e \in Executions, NEW a \in 1..MaxAttempt
                 PROVE  /\ Deliveries(e, a) <= 1
                        /\ Deliveries(e, a) > 0 =>
                             row[e].status \in {"QUEUED", "CANCELLED"} /\ row[e].attempt = a
      BY DEF SingleDelivery
    <2>1. Msg(e, a) \in Message /\ Msg(e, a).exec = e /\ Msg(e, a).attempt = a
      BY DEF Msg, Message
    <2>2. \A p, k : Holds(p, k, Msg(e, a)) =>
            row[e].status \in {"QUEUED", "CANCELLED"} /\ row[e].attempt = a
      BY <2>1 DEF DeliveryInv, OneCopy
    <2> QED
      BY <2>2, OneDelivery DEF TypeOK, QueueTypeOK
  <1> QED
    BY <1>1, DeliveryInvariant, PTL

-----------------------------------------------------------------------------
(* The pipeline implements the lifecycle of ExecutionLifecycle. *)

\* A step of an observed row, or one that it does not see.
LifeStep(e) == [Life(e)!Next]_<<row[e].status, row[e].attempt>>

\* The three steps of a life, told by the row before and after.
LEMMA LifeSteps ==
    ASSUME NEW e \in Executions,
           \/ row'[e] = row[e]
           \/ /\ row[e] = Absent
              /\ row'[e].status = "QUEUED" /\ row'[e].attempt = 1
           \/ /\ row[e].status \in {"QUEUED", "RUNNING"}
              /\ CanTransition(row[e].status, row'[e].status)
              /\ row'[e].attempt = row[e].attempt
           \/ /\ row[e].status \in FailedStatuses \cup {"RUNNING"}
              /\ row[e].attempt <= MaxRetries
              /\ row'[e].status = "QUEUED" /\ row'[e].attempt = row[e].attempt + 1
    PROVE  LifeStep(e)
  <1> USE DEF LifeStep, Life!Next
  <1>1. CASE row'[e] = row[e]
    BY <1>1
  <1>2. CASE row[e] = Absent /\ row'[e].status = "QUEUED" /\ row'[e].attempt = 1
    BY <1>2 DEF Absent, Life!Created
  <1>3. CASE /\ row[e].status \in {"QUEUED", "RUNNING"}
             /\ CanTransition(row[e].status, row'[e].status)
             /\ row'[e].attempt = row[e].attempt
    BY <1>3 DEF Life!Moved, Life!CanTransition, Life!Statuses, Life!Successors,
                CanTransition, Statuses, Successors
  <1>4. CASE /\ row[e].status \in FailedStatuses \cup {"RUNNING"}
             /\ row[e].attempt <= MaxRetries
             /\ row'[e].status = "QUEUED" /\ row'[e].attempt = row[e].attempt + 1
    BY <1>4 DEF Life!Requeued, Life!FailedStatuses, FailedStatuses
  <1> QED
    BY <1>1, <1>2, <1>3, <1>4

LEMMA TaskLife ==
    ASSUME TypeOK, FailureInv, DeliveryInv, NEW s \in Slots, TaskStep(s), NEW f \in Executions
    PROVE  LifeStep(f)
  <1> DEFINE m == task[s].msg
  <1>0. task[s] \in Task /\ row \in [Executions -> RowOrNone]
    BY DEF TypeOK, RowsTypeOK
  <1>1. ASSUME UNCHANGED row PROVE LifeStep(f)
    BY <1>1, LifeSteps
  <1>2. ASSUME Start(s) PROVE LifeStep(f)
    <2>1. PICK e \in Executions : e = m.exec /\ m \in Message
      BY <1>0, <1>2, TaskFields DEF Start, Message
    <2>2. Holds("leased", s, m)
      BY <1>0, <1>2 DEF Start, Holds, Task, Idle, Leaked
    <2>3. row[e].attempt = m.attempt
      BY <2>1, <2>2 DEF DeliveryInv, OneCopy
    <2>4. row' = [row EXCEPT ![e] = [status |-> "RUNNING", attempt |-> m.attempt]]
      BY <1>2, <2>1 DEF Start, MarkRunning
    <2>5. row[e].status = "QUEUED" /\ CanTransition("QUEUED", "RUNNING")
      BY <1>2, <2>1 DEF Start, MarkRunning, CanTransition, Successors, Statuses
    <2>6. CASE f = e
      BY <1>0, <2>3, <2>4, <2>5, <2>6, LifeSteps
    <2>7. CASE f # e
      BY <1>0, <2>4, <2>7, LifeSteps
    <2> QED
      BY <2>6, <2>7
  <1>3. ASSUME FinishRow(s) PROVE LifeStep(f)
    <2>1. PICK e \in Executions : e = m.exec /\ task[s].outcome \in Successors["RUNNING"]
      BY <1>0, <1>3, TaskFields DEF FinishRow, Message
    <2>2. /\ CanTransition(row[e].status, task[s].outcome)
          /\ row' = [row EXCEPT ![e].status = task[s].outcome]
      BY <1>3, <2>1 DEF FinishRow, Finish, SetStatus
    <2>3. row[e].status \in {"QUEUED", "RUNNING"}
      BY <2>1, <2>2 DEF CanTransition, Successors, Statuses
    <2>4. row[e] \in Row
      BY <1>0, <2>3, RowFields DEF Statuses
    <2>5. CASE f = e
      <3>1. row'[e].status = task[s].outcome /\ row'[e].attempt = row[e].attempt
        BY <1>0, <2>2, <2>4 DEF Row
      <3> QED
        BY <2>2, <2>3, <2>5, <3>1, LifeSteps
    <2>6. CASE f # e
      BY <1>0, <2>2, <2>6, LifeSteps
    <2> QED
      BY <2>5, <2>6
  <1>4. ASSUME Apply(s) PROVE LifeStep(f)
    <2>1. PICK e \in Executions : e = m.exec
      BY <1>0, <1>4, TaskFields DEF Apply, Message
    <2>2. row[e].status \in FailedStatuses
      BY <1>4, <2>1 DEF Apply, FailureInv, OneHandler, Fails, FailurePhases
    <2>3. task[s].seen = row[e] /\ row[e].attempt \in 1..MaxRetries
      BY <1>0, <1>4, <2>1, TaskFields DEF Apply, DeliveryInv, SeenIsRow
    <2>4. row' = [row EXCEPT ![e] = [status |-> "QUEUED", attempt |-> row[e].attempt + 1]]
      BY <1>4, <2>1, <2>3 DEF Apply, RequeueSeen
    <2>5. row[e].attempt <= MaxRetries
      BY <2>3, RetryPolicyAssumption
    <2>6. CASE f = e
      BY <1>0, <2>2, <2>4, <2>5, <2>6, LifeSteps
    <2>7. CASE f # e
      BY <1>0, <2>4, <2>7, LifeSteps
    <2> QED
      BY <2>6, <2>7
  <1> QED
    BY <1>1, <1>2, <1>3, <1>4
       DEF TaskStep, TaskProceeds, Reject, InstallEnds, Heartbeat, Beat, RunEnds, RunCancelled,
           FinishConflict, Decide, ApplyConflict, ScheduleRetry, Bury, DropCancel,
           AckAndRelease, taskFrame, rowVars

LEMMA StepLife ==
    ASSUME ApiOps \subseteq {"submit"}, TypeOK, FailureInv, DeliveryInv, Next,
           NEW f \in Executions
    PROVE  LifeStep(f)
  <1>1. ASSUME UNCHANGED row PROVE LifeStep(f)
    BY <1>1, LifeSteps
  <1>2. ASSUME NEW w \in Workers, Recover(w) PROVE LifeStep(f)
    <2>1. PICK S \in SUBSET {e \in Executions : Stale(e)} : ForceFailAndDecide(S)
      BY <1>2 DEF Recover
    <2>2. CASE f \notin S
      BY <2>1, <2>2, LifeSteps DEF ForceFailAndDecide
    <2>3. CASE f \in S
      <3>1. row[f].status = "RUNNING" /\ row'[f] = Recovered(f)
        BY <2>1, <2>3 DEF ForceFailAndDecide, Stale
      <3>2. CASE ShouldRetry(row[f].attempt, LeaseExpiredClass)
        BY <3>1, <3>2, LifeSteps DEF Recovered, ShouldRetry
      <3>3. CASE ~ ShouldRetry(row[f].attempt, LeaseExpiredClass)
        <4>1. CanTransition("RUNNING", "FAILED")
          BY DEF CanTransition, Statuses, Successors
        <4> QED
          BY <3>1, <3>3, <4>1, LifeSteps DEF Recovered
      <3> QED
        BY <3>2, <3>3
    <2> QED
      BY <2>2, <2>3
  <1>3. ASSUME NEW c \in Clients, ClientArrives(c) \/ ClientProceeds(c) PROVE LifeStep(f)
    <2>1. CASE Submit(c)
      <3>1. PICK e \in Executions : Create(e)
        BY <2>1 DEF Submit
      <3>2. /\ row[e] = Absent
            /\ row' = [row EXCEPT ![e] = [status |-> "QUEUED", attempt |-> 1]]
        BY <3>1 DEF Create, TypeOK, RowsTypeOK, RowOrNone, Row, Absent, Statuses
      <3>3. CASE f = e
        BY <3>2, <3>3, LifeSteps DEF TypeOK, RowsTypeOK
      <3>4. CASE f # e
        BY <3>2, <3>4, LifeSteps DEF TypeOK, RowsTypeOK
      <3> QED
        BY <3>3, <3>4
    <2>2. CASE PushMessage(c)
      BY <1>1, <2>2 DEF PushMessage
    <2> QED
      BY <1>3, <2>1, <2>2
         DEF ClientArrives, ClientProceeds, RetryRead, CancelRead, DeleteRead, Arrives,
             RetryApply, CancelApply, Signal, DeleteWait, DeleteTest, DeleteCommit,
             FailureInv, OnlySubmits
  <1>4. ASSUME \/ \E w \in Workers : ConsumerStep(w) \/ RecoveryEffect(w)
               \/ \E e \in Executions : LeaseExpires(e) \/ KeyExpires(e)
               \/ FaultStep
        PROVE  UNCHANGED row
    BY <1>4 DEF ConsumerStep, PromoteRemove, PromotePush, PromoteDone, LeaseNext, LeaseEmpty,
                Drained, Restart, RecoveryEffect, LeaseExpires, KeyExpires, FaultStep, Crash,
                Stop, TaskRaises, NotebookUnreadable, PumpDies, AckRaises, RequestDies, rowVars
  <1> QED
    BY <1>1, <1>2, <1>3, <1>4, TaskLife DEF Next, RecoveryStep

\* The pipeline implements ExecutionLifecycle, the life an observer of the row is
\* promised, as long as nobody retries, cancels or deletes by hand: an attempt
\* starts under the number it was queued with, each retry is numbered one higher,
\* and no attempt is queued past MaxRetries + 1, whatever fails.
THEOREM PipelineFollowsLifecycle ==
    ASSUME ApiOps \subseteq {"submit"}
    PROVE  Spec => FollowsLifecycle
  <1>1. Init => \A e \in Executions : Life(e)!Init
    <2>1. Init => \A e \in Executions : row[e] = Absent
      BY DEF Init, RowsInit
    <2>2. ASSUME NEW e \in Executions, row[e] = Absent PROVE Life(e)!Init
      BY <2>2 DEF Absent, Life!Init
    <2> QED
      BY <2>1, <2>2
  <1>2. TypeOK /\ FailureInv /\ DeliveryInv /\ [Next]_vars =>
          [\A e \in Executions : [Life(e)!Next]_<<row[e].status, row[e].attempt>>]_row
    BY StepLife DEF LifeStep, vars, rowVars
  <1> QED
    BY <1>1, <1>2, DeliveryInvariant, PTL DEF Spec, FollowsLifecycle

-----------------------------------------------------------------------------
(* A QUEUED row has a message, whatever the clients do. *)

\* Somebody has a copy of a message of e.
Queued(e) ==
    row[e].status = "QUEUED" =>
      \E m \in Message : m.exec = e /\ \E p, k : Holds(p, k, m)

QueuedInv == \A e \in Executions : Queued(e)

\* The step takes no copy of a message of e, or gives it to somebody else.
Keeps(e) ==
    \A m \in Message : \A p, k :
      m.exec = e /\ Holds(p, k, m) => \E q, l : Holds(q, l, m)'

LEMMA StillQueued ==
    ASSUME NEW e \in Executions, Queued(e), Keeps(e),
           row'[e].status = "QUEUED" => row[e].status = "QUEUED"
    PROVE  Queued(e)'
  BY DEF Queued, Keeps

LEMMA NowQueued ==
    ASSUME NEW e \in Executions, NEW m \in Message, m.exec = e, NEW p, NEW k, Holds(p, k, m)'
    PROVE  Queued(e)'
  BY DEF Queued

\* A task that moves on takes at most the copy it had.
LEMMA TaskKeeps ==
    ASSUME TypeOK, NEW s \in Slots, \E t : Goto(s, t),
           UNCHANGED <<main, delayed, consumer, effects, client>>,
           NEW e \in Executions,
           \/ task[s].pc \notin {"leased", "retrying"}
           \/ task[s].pc = "leased" /\ task[s].msg.exec # e
    PROVE  Keeps(e)
  <1> SUFFICES ASSUME NEW m \in Message, NEW p, NEW k, m.exec = e, Holds(p, k, m)
               PROVE  Holds(p, k, m)'
    BY DEF Keeps
  <1>1. ~ (p \in {"leased", "retrying"} /\ k = s)
    BY DEF Holds
  <1>2. \A r \in Slots : r # s => task'[r] = task[r]
    BY DEF Goto, TypeOK
  <1> QED
    BY <1>1, <1>2 DEF Holds, InMain

LEMMA ConsumerKeeps ==
    ASSUME TypeOK, NEW w \in Workers, ConsumerStep(w), NEW e \in Executions
    PROVE  Keeps(e) /\ row' = row
  <1>0. row' = row
    BY DEF ConsumerStep, PromoteRemove, PromotePush, PromoteDone, LeaseNext, LeaseEmpty,
           Drained, Restart, rowVars
  <1>1. ASSUME PromoteRemove(w) PROVE Keeps(e)
    <2>1. PICK m \in Message :
            /\ RemoveDue(m)
            /\ consumer' = [consumer EXCEPT ![w] = [pc |-> "push", msg |-> m]]
      BY <1>1 DEF PromoteRemove
    <2>2. UNCHANGED <<main, task, effects, client>> /\ consumer[w].pc = "promote"
      BY <1>1 DEF PromoteRemove
    <2>3. \A n \in Message : delayed[n] > 0 => n = m \/ delayed'[n] > 0
      BY <2>1 DEF RemoveDue, Take, Bag, TypeOK, QueueTypeOK
    <2>4. Holds("push", w, m)'
      BY <2>1 DEF Holds, TypeOK
    <2>5. \A n \in Message : \A p, k : Holds(p, k, n) => Holds(p, k, n)' \/ n = m
      BY <2>1, <2>2, <2>3 DEF Holds, InMain, TypeOK
    <2> QED
      BY <2>4, <2>5 DEF Keeps
  <1>2. ASSUME PromotePush(w) PROVE Keeps(e)
    <2>1. PICK n \in Message : consumer[w] = [pc |-> "push", msg |-> n]
      BY <1>2 DEF PromotePush, TypeOK, Consumer
    <2>2. /\ UNCHANGED <<delayed, task, effects, client>>
          /\ Enqueue(n)
          /\ consumer' = [consumer EXCEPT ![w] = [pc |-> "promote"]]
      BY <1>2, <2>1 DEF PromotePush, ConsumerAt
    <2>3. \A x \in Message : InMain(x)' <=> InMain(x) \/ x = n
      BY <2>2, EnqueueMain
    <2>4. Holds("main", "main", n)'
      BY <2>3 DEF Holds
    <2>5. \A x \in Message : \A p, k : Holds(p, k, x) => Holds(p, k, x)' \/ x = n
      BY <2>1, <2>2, <2>3 DEF Holds, TypeOK
    <2> QED
      BY <2>4, <2>5 DEF Keeps
  <1>3. ASSUME LeaseNext(w) PROVE Keeps(e)
    <2>1. PICK s \in FreeSlots(w) : Lease /\ Goto(s, [pc |-> "leased", msg |-> Head(main)])
      BY <1>3 DEF LeaseNext
    <2>2. PICK h : h = Head(main)
      OBVIOUS
    <2>3. /\ UNCHANGED <<delayed, effects, client>>
          /\ consumer' = [consumer EXCEPT ![w] = [pc |-> "promote"]] /\ consumer[w].pc = "lease"
          /\ task' = [task EXCEPT ![s] = [pc |-> "leased", msg |-> h]]
          /\ s \in Slots /\ task[s] = Idle
      BY <1>3, <2>1, <2>2 DEF LeaseNext, ConsumerAt, Goto, FreeSlots
    <2>4. \A n \in Message : InMain(n) => InMain(n)' \/ n = h
      BY <2>1, <2>2, LeaseMain
    <2>5. Holds("leased", s, h)'
      BY <2>3 DEF Holds, TypeOK
    <2>6. \A n \in Message : \A p, k : Holds(p, k, n) => Holds(p, k, n)' \/ n = h
      BY <2>3, <2>4 DEF Holds, Idle, TypeOK
    <2> QED
      BY <2>5, <2>6 DEF Keeps
  <1>4. ASSUME PromoteDone(w) \/ LeaseEmpty(w) \/ Drained(w) \/ Restart(w) PROVE Keeps(e)
    <2>1. /\ UNCHANGED <<main, delayed, effects, client>>
          /\ \A s \in Slots : task'[s] = task[s] \/ task[s] \in {Idle, Leaked}
          /\ \A v \in Workers : consumer'[v] = consumer[v] \/ consumer[v].pc # "push"
      BY <1>4 DEF PromoteDone, LeaseEmpty, Drained, Restart, Down, ConsumerAt, queueVars, TypeOK
    <2>2. \A n \in Message : \A p, k : Holds(p, k, n) => Holds(p, k, n)'
      BY <2>1 DEF Holds, InMain, Idle, Leaked
    <2> QED
      BY <2>2 DEF Keeps
  <1> QED
    BY <1>0, <1>1, <1>2, <1>3, <1>4 DEF ConsumerStep

LEMMA TaskQueued ==
    ASSUME TypeOK, QueuedInv, NEW s \in Slots, TaskStep(s), NEW f \in Executions
    PROVE  Queued(f)'
  <1> DEFINE m == task[s].msg
             Frames == \/ InstallEnds(s) \/ Heartbeat(s) \/ RunEnds(s) \/ RunCancelled(s)
                       \/ FinishConflict(s) \/ Decide(s) \/ ApplyConflict(s)
                       \/ Bury(s) \/ DropCancel(s) \/ AckAndRelease(s)
  <1>0. task[s] \in Task /\ task \in [Slots -> Task] /\ row \in [Executions -> RowOrNone]
    BY DEF TypeOK, RowsTypeOK
  <1>q. Queued(f)
    BY DEF QueuedInv
  <1>1. ASSUME Frames PROVE Queued(f)'
    <2>1. UNCHANGED <<row, main, delayed, consumer, effects, client>>
      BY <1>1 DEF InstallEnds, Heartbeat, Beat, RunEnds, RunCancelled, FinishConflict, Decide,
                  ApplyConflict, Bury, DropCancel, AckAndRelease, taskFrame, rowVars,
                  queueVars, procVars
    <2>2. task' = task \/ (task[s].pc \notin {"leased", "retrying"} /\ \E t : Goto(s, t))
      BY <1>1
         DEF InstallEnds, Heartbeat, RunEnds, RunCancelled, FinishConflict, Decide, ApplyConflict,
             Bury, DropCancel, AckAndRelease, procVars, NotebookPhases
    <2>3. Keeps(f)
      <3>1. CASE task' = task
        BY <2>1, <3>1 DEF Keeps, Holds, InMain
      <3>2. CASE task[s].pc \notin {"leased", "retrying"} /\ \E t : Goto(s, t)
        BY <2>1, <3>2, TaskKeeps
      <3> QED
        BY <2>2, <3>1, <3>2
    <2> QED
      BY <1>q, <2>1, <2>3, StillQueued
  <1> SUFFICES ASSUME ~ Frames PROVE Queued(f)'
    BY <1>1
  <1>f. PICK e \in Executions : e = m.exec
    <2>1. task[s].pc \notin {"idle", "leaked"}
      BY DEF TaskStep, TaskProceeds, Start, Reject, FinishRow, Apply, ScheduleRetry
    <2>2. m \in Message
      BY <1>0, <2>1, TaskFields
    <2> QED
      BY <2>2 DEF Message
  <1>2. ASSUME Start(s) \/ Reject(s) PROVE Queued(f)'
    <2>1. /\ \A g \in Executions \ {e} : row'[g] = row[g]
          /\ row'[e].status # "QUEUED"
          /\ UNCHANGED <<main, delayed, consumer, effects, client>>
          /\ task[s].pc = "leased" /\ \E t : Goto(s, t)
      BY <1>0, <1>2, <1>f
         DEF Start, Reject, MarkRunning, CanTransition, Successors, Statuses, taskFrame, rowVars
    <2>2. CASE f = e
      BY <2>1, <2>2 DEF Queued
    <2>3. CASE f # e
      <3>1. Keeps(f)
        BY <1>f, <2>1, <2>3, TaskKeeps
      <3> QED
        BY <1>q, <2>1, <2>3, <3>1, StillQueued
    <2> QED
      BY <2>2, <2>3
  <1>3. ASSUME FinishRow(s) PROVE Queued(f)'
    <2>1. task[s].outcome \in Successors["RUNNING"]
      BY <1>0, <1>3, TaskFields DEF FinishRow
    <2>2. /\ row' = [row EXCEPT ![e].status = task[s].outcome]
          /\ UNCHANGED <<main, delayed, consumer, effects, client>>
          /\ task[s].pc = "finishing" /\ \E t : Goto(s, t)
      BY <1>3, <1>f DEF FinishRow, Finish, SetStatus, taskFrame
    <2>3. row[e] \in Row
      BY <1>0, <1>3, <1>f, RowFields DEF FinishRow, Finish, CanTransition
    <2>4. row'[f].status = "QUEUED" => row[f].status = "QUEUED"
      BY <1>0, <2>1, <2>2, <2>3 DEF Successors, Row
    <2>5. Keeps(f)
      BY <2>2, TaskKeeps
    <2> QED
      BY <1>q, <2>4, <2>5, StillQueued
  <1>4. ASSUME Apply(s) PROVE Queued(f)'
    <2> DEFINE a == task[s].seen.attempt + 1
    <2>1. /\ row' = [row EXCEPT ![e] = [status |-> "QUEUED", attempt |-> a]]
          /\ UNCHANGED <<main, delayed, consumer, effects, client>>
          /\ task[s].pc = "applying"
          /\ Goto(s, [pc |-> "retrying", msg |-> m, target |-> Msg(e, a)])
      BY <1>4, <1>f DEF Apply, RequeueSeen, taskFrame
    <2>2. PICK n \in Message : n = Msg(e, a) /\ n.exec = e
      <3>1. task[s].seen.attempt \in 1..MaxRetries
        BY <1>0, <1>4, TaskFields DEF Apply
      <3>2. Msg(e, a) \in Message /\ Msg(e, a).exec = e
        BY <3>1, RetryPolicyAssumption DEF Msg, Message
      <3> QED
        BY <3>2
    <2>3. CASE f = e
      <3>1. Holds("retrying", s, n)'
        BY <1>0, <2>1, <2>2 DEF Holds, Goto
      <3> QED
        BY <2>2, <2>3, <3>1, NowQueued
    <2>4. CASE f # e
      <3>1. Keeps(f)
        BY <2>1, TaskKeeps
      <3>2. row'[f] = row[f]
        BY <1>0, <2>1, <2>4
      <3> QED
        BY <1>q, <3>1, <3>2, StillQueued
    <2> QED
      BY <2>3, <2>4
  <1>5. ASSUME ScheduleRetry(s) PROVE Queued(f)'
    <2>1. PICK n \in Message : n = task[s].target
      BY <1>0, <1>5, TaskFields DEF ScheduleRetry
    <2>2. /\ UNCHANGED <<row, main, consumer, effects, client>>
          /\ task[s].pc = "retrying"
          /\ delayed' = Put(delayed, n)
          /\ Goto(s, At(s, "acking"))
      BY <1>5, <2>1 DEF ScheduleRetry, EnqueueDelayed, rowVars
    <2>3. delayed'[n] > 0 /\ \A x \in Message : delayed[x] > 0 => delayed'[x] > 0
      BY <2>2 DEF Put, Bag, TypeOK, QueueTypeOK
    <2>4. Holds("delayed", "delayed", n)'
      BY <2>3 DEF Holds
    <2>5. \A x \in Message : \A p, k : Holds(p, k, x) => Holds(p, k, x)' \/ x = n
      BY <1>0, <2>1, <2>2, <2>3 DEF Holds, InMain, Goto
    <2>6. Keeps(f)
      BY <2>4, <2>5 DEF Keeps
    <2> QED
      BY <1>q, <2>2, <2>6, StillQueued
  <1> QED
    BY <1>1, <1>2, <1>3, <1>4, <1>5 DEF TaskStep, TaskProceeds

LEMMA RecoveryQueued ==
    ASSUME TypeOK, QueuedInv, NEW w \in Workers, RecoveryStep(w), NEW f \in Executions
    PROVE  Queued(f)'
  <1>q. Queued(f)
    BY DEF QueuedInv
  <1>1. ASSUME Recover(w) PROVE Queued(f)'
    <2> DEFINE Owed(e) == [kind |-> IF Recovered(e).status = "QUEUED" THEN "retry" ELSE "dead",
                           target |-> Msg(e, Recovered(e).attempt)]
    <2>1. PICK S \in SUBSET {e \in Executions : Stale(e)} :
            /\ ForceFailAndDecide(S)
            /\ effects' = [effects EXCEPT ![w] = {Owed(e) : e \in S}]
      BY <1>1 DEF Recover
    <2>2. UNCHANGED <<main, delayed, consumer, task, client>> /\ effects[w] = {}
      BY <1>1 DEF Recover, queueVars
    <2>3. Keeps(f)
      <3>1. \A v \in Workers : effects[v] \subseteq effects'[v]
        BY <2>1, <2>2 DEF TypeOK
      <3>2. \A n \in Message : \A p, k : Holds(p, k, n) => Holds(p, k, n)'
        BY <2>2, <3>1 DEF Holds, InMain
      <3> QED
        BY <3>2 DEF Keeps
    <2>4. CASE f \notin S
      <3>1. row'[f] = row[f]
        BY <2>1, <2>4 DEF ForceFailAndDecide
      <3> QED
        BY <1>q, <2>3, <3>1, StillQueued
    <2>5. CASE f \in S
      <3>1. row'[f] = Recovered(f) /\ row[f].status = "RUNNING" /\ row[f] \in RowOrNone
        BY <2>1, <2>5 DEF ForceFailAndDecide, Stale, TypeOK, RowsTypeOK
      <3>2. CASE Recovered(f).status = "QUEUED"
        <4>1. PICK m \in Message : m = Msg(f, Recovered(f).attempt) /\ m.exec = f
          <5>1. row[f] \in Row
            BY <3>1, RowFields DEF Statuses
          <5>2. Recovered(f).attempt \in 1..MaxAttempt
            BY <3>2, <5>1, RetryPolicyAssumption DEF Recovered, ShouldRetry, Row
          <5>3. /\ Msg(f, Recovered(f).attempt) \in Message
                /\ Msg(f, Recovered(f).attempt).exec = f
            BY <5>2 DEF Msg, Message
          <5> QED
            BY <5>3
        <4>2. [kind |-> "retry", target |-> m] \in effects'[w]
          BY <2>1, <2>5, <3>2, <4>1 DEF TypeOK
        <4>3. Holds("owed", w, m)'
          BY <4>2 DEF Holds
        <4> QED
          BY <4>1, <4>3, NowQueued
      <3>3. CASE Recovered(f).status # "QUEUED"
        BY <3>1, <3>3 DEF Queued
      <3> QED
        BY <3>2, <3>3
    <2> QED
      BY <2>4, <2>5
  <1>2. ASSUME RecoveryEffect(w) PROVE Queued(f)'
    <2>1. PICK x \in effects[w] :
            /\ \/ x.kind = "retry" /\ EnqueueDelayed(x.target) /\ UNCHANGED dlq
               \/ x.kind = "dead" /\ DeadLetter(x.target) /\ UNCHANGED delayed
            /\ effects' = [effects EXCEPT ![w] = @ \ {x}]
      BY <1>2 DEF RecoveryEffect
    <2>2. UNCHANGED <<row, main, consumer, task, client>>
      BY <1>2 DEF RecoveryEffect, rowVars
    <2>3. CASE x.kind = "dead" /\ UNCHANGED delayed
      <3>1. \A n \in Message : \A p, k : Holds(p, k, n) => Holds(p, k, n)'
        BY <2>1, <2>2, <2>3 DEF Holds, InMain, TypeOK
      <3>2. Keeps(f)
        BY <3>1 DEF Keeps
      <3> QED
        BY <1>q, <2>2, <3>2, StillQueued
    <2>4. CASE x.kind = "retry" /\ EnqueueDelayed(x.target)
      <3>1. PICK n \in Message : x = [kind |-> "retry", target |-> n]
        BY <2>4 DEF TypeOK, Effect
      <3>2. delayed'[n] > 0 /\ \A y \in Message : delayed[y] > 0 => delayed'[y] > 0
        BY <2>4, <3>1 DEF EnqueueDelayed, Put, Bag, TypeOK, QueueTypeOK
      <3>3. Holds("delayed", "delayed", n)'
        BY <3>2 DEF Holds
      <3>4. \A y \in Message : \A v \in Workers :
              [kind |-> "retry", target |-> y] \in effects[v] =>
                [kind |-> "retry", target |-> y] \in effects'[v] \/ y = n
        BY <2>1, <3>1 DEF TypeOK
      <3>5. \A y \in Message : \A p, k : Holds(p, k, y) => Holds(p, k, y)' \/ y = n
        BY <2>2, <3>2, <3>4 DEF Holds, InMain
      <3>6. Keeps(f)
        BY <3>3, <3>5 DEF Keeps
      <3> QED
        BY <1>q, <2>2, <3>6, StillQueued
    <2> QED
      BY <2>1, <2>3, <2>4
  <1> QED
    BY <1>1, <1>2 DEF RecoveryStep

\* A request that moves on with no message in its hands takes no copy.
LEMMA ClientKeeps ==
    ASSUME TypeOK, NEW c \in Clients, client[c].pc # "enqueue", \E k : ClientAt(c, k),
           UNCHANGED <<main, delayed, consumer, task, effects>>,
           NEW e \in Executions
    PROVE  Keeps(e)
  <1>1. \A d \in Clients : d # c => client'[d] = client[d]
    BY DEF ClientAt, TypeOK
  <1>2. ASSUME NEW m \in Message, NEW p, NEW k, Holds(p, k, m) PROVE Holds(p, k, m)'
    BY <1>1, <1>2 DEF Holds, InMain
  <1> QED
    BY <1>2 DEF Keeps

\* A request that queues e puts the message in its own hands.
LEMMA ClientQueues ==
    ASSUME TypeOK, NEW c \in Clients, client[c].pc # "enqueue",
           NEW e \in Executions, NEW m \in Message, m.exec = e,
           ClientAt(c, [pc |-> "enqueue", msg |-> m]),
           UNCHANGED <<main, delayed, consumer, task, effects>>,
           \A f \in Executions \ {e} : row'[f] = row[f],
           NEW f \in Executions, Queued(f)
    PROVE  Queued(f)'
  <1>1. Holds("enqueue", c, m)'
    BY DEF Holds, ClientAt, TypeOK
  <1>2. Keeps(f)
    BY ClientKeeps
  <1>3. CASE f = e
    BY <1>1, <1>3, NowQueued
  <1>4. CASE f # e
    BY <1>2, <1>4, StillQueued
  <1> QED
    BY <1>3, <1>4

LEMMA ClientQueued ==
    ASSUME TypeOK, QueuedInv, NEW c \in Clients, ClientArrives(c) \/ ClientProceeds(c),
           NEW f \in Executions
    PROVE  Queued(f)'
  <1>0. client[c] \in Client /\ row \in [Executions -> RowOrNone]
    BY DEF TypeOK, RowsTypeOK
  <1>q. Queued(f)
    BY DEF QueuedInv
  <1>1. ASSUME Submit(c) PROVE Queued(f)'
    <2>1. PICK e \in Executions :
            Create(e) /\ ClientAt(c, [pc |-> "enqueue", msg |-> Msg(e, 1)])
      BY <1>1 DEF Submit
    <2>2. Msg(e, 1) \in Message /\ Msg(e, 1).exec = e
      BY RetryPolicyAssumption DEF Msg, Message
    <2>3. /\ UNCHANGED <<main, delayed, consumer, task, effects>>
          /\ client[c].pc # "enqueue"
          /\ \A g \in Executions \ {e} : row'[g] = row[g]
      BY <1>0, <1>1, <2>1 DEF Submit, Arrives, Idle, Create, apiFrame
    <2> QED
      BY <1>q, <2>1, <2>2, <2>3, ClientQueues
  <1>2. ASSUME PushMessage(c) PROVE Queued(f)'
    <2>1. PICK n \in Message : client[c] = [pc |-> "enqueue", msg |-> n]
      BY <1>0, <1>2 DEF PushMessage, Client, Idle
    <2>2. /\ UNCHANGED <<row, delayed, consumer, task, effects>>
          /\ Enqueue(n)
          /\ client' = [client EXCEPT ![c] = Idle]
      BY <1>2, <2>1 DEF PushMessage, ClientAt, apiFrame
    <2>3. \A x \in Message : InMain(x)' <=> InMain(x) \/ x = n
      BY <2>2, EnqueueMain
    <2>4. Holds("main", "main", n)'
      BY <2>3 DEF Holds
    <2>5. \A x \in Message : \A p, k : Holds(p, k, x) => Holds(p, k, x)' \/ x = n
      BY <2>1, <2>2, <2>3 DEF Holds, TypeOK
    <2>6. Keeps(f)
      BY <2>4, <2>5 DEF Keeps
    <2> QED
      BY <1>q, <2>2, <2>6, StillQueued
  <1>3. ASSUME RetryApply(c) PROVE Queued(f)'
    <2> DEFINE e == client[c].exec
               seen == client[c].seen
    <2>1. /\ UNCHANGED <<main, delayed, consumer, task, effects>>
          /\ client[c].pc = "retry"
          /\ e \in Executions
          /\ seen.attempt \in 1..(MaxAttempt - 1)
      BY <1>0, <1>3, ClientFields DEF RetryApply, apiFrame
    <2>2. CASE UNCHANGED row /\ ClientAt(c, Idle)
      <3>1. Keeps(f)
        BY <2>1, <2>2, ClientKeeps
      <3> QED
        BY <1>q, <2>2, <3>1, StillQueued
    <2>3. CASE /\ RequeueSeen(e, seen)
               /\ ClientAt(c, [pc |-> "enqueue", msg |-> Msg(e, seen.attempt + 1)])
      <3>1. Msg(e, seen.attempt + 1) \in Message /\ Msg(e, seen.attempt + 1).exec = e
        BY <2>1, RetryPolicyAssumption DEF Msg, Message
      <3>2. \A g \in Executions \ {e} : row'[g] = row[g]
        BY <1>0, <2>3 DEF RequeueSeen
      <3> QED
        BY <1>q, <2>1, <2>3, <3>1, <3>2, ClientQueues
    <2> QED
      BY <1>3, <2>2, <2>3 DEF RetryApply
  <1>4. ASSUME CancelApply(c) PROVE Queued(f)'
    <2>1. /\ UNCHANGED <<main, delayed, consumer, task, effects>>
          /\ client[c].pc \in {"cancel", "d_cancel"} /\ \E k : ClientAt(c, k)
          /\ client[c].exec \in Executions
      BY <1>0, <1>4, ClientFields DEF CancelApply, apiFrame
    <2>2. row'[f].status = "QUEUED" => row[f].status = "QUEUED"
      <3>1. CASE UNCHANGED row
        BY <3>1
      <3>2. CASE CancelSeen(client[c].exec, client[c].seen)
        <4>1. row[client[c].exec] \in Row
          BY <1>0, <2>1, <3>2, RowFields DEF CancelSeen, Exists
        <4> QED
          BY <1>0, <2>1, <3>2, <4>1 DEF CancelSeen, SetStatus, Row
      <3> QED
        BY <1>4, <3>1, <3>2 DEF CancelApply
    <2>3. Keeps(f)
      BY <2>1, ClientKeeps
    <2> QED
      BY <1>q, <2>2, <2>3, StillQueued
  <1>5. ASSUME DeleteCommit(c) PROVE Queued(f)'
    <2>1. /\ UNCHANGED <<main, delayed, consumer, task, effects>>
          /\ client[c].pc = "d_commit" /\ \E k : ClientAt(c, k)
          /\ client[c].exec \in Executions
          /\ row' = [row EXCEPT ![client[c].exec].status = "DELETED"]
      BY <1>0, <1>5, ClientFields DEF DeleteCommit, apiFrame
    <2>2. row'[f].status = "QUEUED" => row[f].status = "QUEUED"
      <3>1. row[client[c].exec] \in RowOrNone
        BY <1>0, <2>1
      <3> QED
        BY <1>0, <2>1, <3>1 DEF RowOrNone, Row, Absent
    <2>3. Keeps(f)
      BY <2>1, ClientKeeps
    <2> QED
      BY <1>q, <2>2, <2>3, StillQueued
  <1>6. ASSUME \/ RetryRead(c) \/ CancelRead(c) \/ DeleteRead(c) \/ Signal(c)
               \/ DeleteWait(c) \/ DeleteTest(c)
        PROVE  Queued(f)'
    <2>1. /\ UNCHANGED <<row, main, delayed, consumer, task, effects>>
          /\ client[c].pc # "enqueue"
      BY <1>6 DEF RetryRead, CancelRead, DeleteRead, Arrives, Idle, Signal, DeleteWait, DeleteTest,
                  apiFrame
    <2>e. \E k : ClientAt(c, k)
      <3>1. CASE Signal(c) \/ DeleteWait(c) \/ DeleteTest(c)
        BY <3>1 DEF Signal, DeleteWait, DeleteTest
      <3>2. CASE RetryRead(c) \/ CancelRead(c) \/ DeleteRead(c)
        BY <3>2 DEF RetryRead, CancelRead, DeleteRead
      <3> QED
        BY <1>6, <3>1, <3>2
    <2>2. Keeps(f)
      BY <2>1, <2>e, ClientKeeps
    <2> QED
      BY <1>q, <2>1, <2>2, StillQueued
  <1> QED
    BY <1>1, <1>2, <1>3, <1>4, <1>5, <1>6 DEF ClientArrives, ClientProceeds

\* The failures that lose no message.
Harmless == {"stop", "pump", "ack"}

LEMMA QuietQueued ==
    ASSUME TypeOK, QueuedInv, Faults \subseteq Harmless, NEW f \in Executions,
           \/ UNCHANGED vars
           \/ \E e \in Executions : LeaseExpires(e) \/ KeyExpires(e)
           \/ FaultStep
    PROVE  Queued(f)'
  <1>q. Queued(f)
    BY DEF QueuedInv
  <1>1. ASSUME UNCHANGED <<row, main, delayed, consumer, task, effects, client>>
        PROVE  Queued(f)'
    <2>1. Keeps(f)
      BY <1>1 DEF Keeps, Holds, InMain
    <2> QED
      BY <1>q, <1>1, <2>1, StillQueued
  <1>2. ASSUME NEW w \in Workers, Stop(w) PROVE Queued(f)'
    <2>1. /\ UNCHANGED <<row, main, delayed, task, effects, client>>
          /\ consumer[w].pc # "push"
          /\ consumer' = [consumer EXCEPT ![w] = [pc |-> "stopping"]]
      BY <1>2 DEF Stop, ConsumerAt, queueVars, rowVars
    <2>2. \A n \in Message : \A p, k : Holds(p, k, n) => Holds(p, k, n)'
      BY <2>1 DEF Holds, InMain, TypeOK
    <2>3. Keeps(f)
      BY <2>2 DEF Keeps
    <2> QED
      BY <1>q, <2>1, <2>3, StillQueued
  <1>3. ASSUME NEW s \in Slots, PumpDies(s) \/ AckRaises(s) PROVE Queued(f)'
    <2>1. /\ UNCHANGED <<row, main, delayed, consumer, effects, client>>
          /\ task[s].pc \notin {"leased", "retrying"} /\ \E t : Goto(s, t)
      BY <1>3 DEF PumpDies, AckRaises, queueVars, rowVars
    <2>2. Keeps(f)
      BY <2>1, TaskKeeps
    <2> QED
      BY <1>q, <2>1, <2>2, StillQueued
  <1>4. CASE UNCHANGED vars
    BY <1>1, <1>4 DEF vars, queueVars, rowVars, procVars
  <1>5. CASE \E e \in Executions : LeaseExpires(e) \/ KeyExpires(e)
    BY <1>1, <1>5 DEF LeaseExpires, KeyExpires, queueVars, rowVars, procVars
  <1>6. CASE FaultStep
    <2>1. \A kind : Fault(kind) => kind \in Harmless
      BY DEF Fault
    <2> QED
      BY <1>2, <1>3, <1>6, <2>1
         DEF FaultStep, Crash, TaskRaises, NotebookUnreadable, RequestDies, Harmless
  <1> QED
    BY <1>4, <1>5, <1>6

LEMMA StepQueued ==
    ASSUME Faults \subseteq Harmless, TypeOK, QueuedInv, [Next]_vars
    PROVE  QueuedInv'
  <1> SUFFICES ASSUME NEW f \in Executions PROVE Queued(f)'
    BY DEF QueuedInv
  <1>1. ASSUME NEW w \in Workers, ConsumerStep(w) PROVE Queued(f)'
    <2>1. Keeps(f) /\ row' = row
      BY <1>1, ConsumerKeeps
    <2> QED
      BY <2>1, StillQueued DEF QueuedInv
  <1> QED
    BY <1>1, RecoveryQueued, TaskQueued, ClientQueued, QuietQueued DEF Next

\* There is something to count.
LEMMA HeldCounts ==
    ASSUME TypeOK, NEW m \in Message, NEW p, NEW k, Holds(p, k, m)
    PROVE  Deliveries(m.exec, m.attempt) > 0
  <1> DEFINE Main == {i \in 1..Len(main) : main[i] = m}
             Pushing == {w \in Workers : consumer[w] = [pc |-> "push", msg |-> m]}
             Leased == {s \in Slots : task[s] = [pc |-> "leased", msg |-> m]}
             Retrying == {s \in Slots : task[s].pc = "retrying" /\ task[s].target = m}
             Owing == {w \in Workers : [kind |-> "retry", target |-> m] \in effects[w]}
             Enqueuing == {c \in Clients : client[c] = [pc |-> "enqueue", msg |-> m]}
  <1>1. ASSUME NEW S, NEW T \in SUBSET S, IsFiniteSet(S)
        PROVE  Cardinality(T) \in Nat /\ (T # {} => Cardinality(T) > 0)
    BY <1>1, FS_Subset, FS_CardinalityType, FS_EmptySet
  <1>2. IsFiniteSet(Slots)
    <2>1. IsFiniteSet(1..Capacity) /\ IsFiniteSet(Workers)
      BY PipelineAssumption, FS_Interval
    <2> QED
      BY <2>1, FS_Product DEF Slots
  <1>3. Cardinality(Main) \in Nat /\ (Main # {} => Cardinality(Main) > 0)
    <2>1. IsFiniteSet(1..Len(main))
      BY FS_Interval DEF TypeOK, QueueTypeOK
    <2> QED
      BY <1>1, <2>1
  <1>4. Cardinality(Pushing) \in Nat /\ (Pushing # {} => Cardinality(Pushing) > 0)
    BY <1>1, PipelineAssumption
  <1>5. Cardinality(Leased) \in Nat /\ (Leased # {} => Cardinality(Leased) > 0)
    BY <1>1, <1>2
  <1>6. Cardinality(Retrying) \in Nat /\ (Retrying # {} => Cardinality(Retrying) > 0)
    BY <1>1, <1>2
  <1>7. Cardinality(Owing) \in Nat /\ (Owing # {} => Cardinality(Owing) > 0)
    BY <1>1, PipelineAssumption
  <1>8. Cardinality(Enqueuing) \in Nat /\ (Enqueuing # {} => Cardinality(Enqueuing) > 0)
    BY <1>1, PipelineAssumption
  <1>9. delayed[m] \in Nat
    BY DEF TypeOK, QueueTypeOK, Bag
  <1>10. \/ Main # {} \/ delayed[m] > 0 \/ Pushing # {} \/ Leased # {} \/ Retrying # {}
         \/ Owing # {} \/ Enqueuing # {}
    BY DEF Holds, InMain
  <1>11. Deliveries(m.exec, m.attempt) = Cardinality(Main) + delayed[m] + Cardinality(Pushing)
            + Cardinality(Leased) + Cardinality(Retrying) + Cardinality(Owing)
            + Cardinality(Enqueuing)
    <2>1. Msg(m.exec, m.attempt) = m
      BY DEF Msg, Message
    <2> QED
      BY <2>1 DEF Deliveries
  <1> QED
    <2> HIDE DEF Main, Pushing, Leased, Retrying, Owing, Enqueuing
    <2> QED
      BY <1>3, <1>4, <1>5, <1>6, <1>7, <1>8, <1>9, <1>10, <1>11

\* A QUEUED row always has a message on its way, whatever the clients submit,
\* retry, cancel or delete in whatever order, and through graceful stops, output
\* pumps that die and acknowledgements that fail: no stale retry, lost race or
\* rejected duplicate consumes the last message of a row that waits for it.
THEOREM QueuedStaysDelivered ==
    ASSUME Faults \subseteq Harmless
    PROVE  Spec => []QueuedIsDelivered
  <1>1. Init => TypeOK /\ QueuedInv
    BY InitTypes DEF Init, RowsInit, Absent, QueuedInv, Queued
  <1>2. TypeOK /\ QueuedInv /\ [Next]_vars => (TypeOK /\ QueuedInv)'
    BY StepTypes, StepQueued
  <1>3. TypeOK /\ QueuedInv => QueuedIsDelivered
    <2> SUFFICES ASSUME TypeOK, QueuedInv, NEW e \in Executions, row[e].status = "QUEUED"
                 PROVE  \E a \in 1..MaxAttempt : Deliveries(e, a) > 0
      BY DEF QueuedIsDelivered
    <2>1. PICK m \in Message : m.exec = e /\ \E p, k : Holds(p, k, m)
      BY DEF QueuedInv, Queued
    <2>2. Deliveries(m.exec, m.attempt) > 0
      BY <2>1, HeldCounts
    <2>3. m.attempt \in 1..MaxAttempt
      BY DEF Message
    <2> QED
      BY <2>1, <2>2, <2>3
  <1> QED
    BY <1>1, <1>2, <1>3, PTL DEF Spec

-----------------------------------------------------------------------------
(* Who runs an execution. *)

\* The phases from the start of an attempt to the end of its handling.
EngagedPhases == RunPhases \cup {"deciding", "applying"}

Engaged(s, e) == task[s].pc \in EngagedPhases /\ task[s].msg.exec = e

\* One task is engaged with e; while it runs, the row is its own unless a stale
\* cancel or delete has overwritten it, and its lease is fresh.
OneEngaged(e) ==
    \A s \in Slots : Engaged(s, e) =>
      /\ \A r \in Slots : Engaged(r, e) => r = s
      /\ task[s].pc \in RunPhases =>
           /\ row[e].status \in {"RUNNING", "CANCELLED", "DELETED"}
           /\ row[e].status = "RUNNING" =>
                lease[e] = "fresh" /\ row[e].attempt = task[s].msg.attempt
      /\ task[s].pc \notin RunPhases =>
           row[e].status \in FailedStatuses \cup {"CANCELLED", "DELETED"}

RunnerInv ==
    /\ \A c \in Clients : client[c].pc # "retry"
    /\ \A e \in Executions : OneEngaged(e)

LEMMA NobodyEngaged ==
    ASSUME NEW e \in Executions, \A s \in Slots : ~ Engaged(s, e)'
    PROVE  OneEngaged(e)'
  BY DEF OneEngaged

\* A step that starts nothing on e and leaves its row and its fresh lease alone.
LEMMA SameEngaged ==
    ASSUME NEW e \in Executions, OneEngaged(e), row'[e] = row[e],
           lease'[e] = lease[e] \/ lease'[e] = "fresh",
           \A s \in Slots : Engaged(s, e)' =>
             /\ Engaged(s, e)
             /\ task'[s].msg = task[s].msg
             /\ task'[s].pc \in RunPhases <=> task[s].pc \in RunPhases
    PROVE  OneEngaged(e)'
  BY DEF OneEngaged

\* A stale cancel or delete overwrites the row, not who is engaged.
LEMMA Overwritten ==
    ASSUME NEW e \in Executions, OneEngaged(e), row'[e].status \in {"CANCELLED", "DELETED"},
           UNCHANGED task
    PROVE  OneEngaged(e)'
  BY DEF OneEngaged, Engaged

LEMMA QuietRunners ==
    ASSUME RunnerInv, UNCHANGED row, UNCHANGED client,
           \A e \in Executions : lease'[e] = lease[e] \/ lease'[e] = "fresh",
           \A s \in Slots : task'[s].pc \in EngagedPhases =>
             /\ task[s].pc \in EngagedPhases
             /\ task'[s].msg = task[s].msg
             /\ task'[s].pc \in RunPhases <=> task[s].pc \in RunPhases
    PROVE  RunnerInv'
  <1>1. ASSUME NEW e \in Executions PROVE OneEngaged(e)'
    BY SameEngaged DEF RunnerInv, Engaged
  <1> QED
    BY <1>1 DEF RunnerInv

LEMMA WorkerRunners ==
    ASSUME TypeOK, RunnerInv,
           \/ \E w \in Workers : ConsumerStep(w) \/ RecoveryEffect(w)
           \/ \E e \in Executions : KeyExpires(e)
           \/ UNCHANGED vars
    PROVE  RunnerInv'
  <1>1. UNCHANGED <<row, lease, client>>
    BY DEF ConsumerStep, PromoteRemove, PromotePush, PromoteDone, LeaseNext, LeaseEmpty,
           Drained, Restart, RecoveryEffect, KeyExpires, vars, rowVars, procVars
  <1>2. \A s \in Slots : task'[s] = task[s] \/ task'[s].pc \in {"idle", "leased"}
    BY DEF ConsumerStep, PromoteRemove, PromotePush, PromoteDone, LeaseNext, LeaseEmpty,
           Drained, Restart, RecoveryEffect, KeyExpires, vars, procVars, Goto, Idle, TypeOK
  <1> QED
    BY <1>1, <1>2, QuietRunners DEF EngagedPhases, RunPhases, NotebookPhases

LEMMA TaskRunners ==
    ASSUME TypeOK, RunnerInv, NEW s \in Slots, TaskStep(s)
    PROVE  RunnerInv'
  <1> DEFINE m == task[s].msg
             Frames == \/ Reject(s) \/ InstallEnds(s) \/ Heartbeat(s) \/ RunEnds(s)
                       \/ RunCancelled(s) \/ FinishConflict(s) \/ Decide(s)
                       \/ ApplyConflict(s) \/ ScheduleRetry(s) \/ Bury(s) \/ DropCancel(s)
                       \/ AckAndRelease(s)
  <1>0. /\ task[s] \in Task /\ task \in [Slots -> Task]
        /\ row \in [Executions -> RowOrNone] /\ lease \in [Executions -> {"fresh", "expired"}]
    BY DEF TypeOK, RowsTypeOK
  <1>1. ASSUME Frames PROVE RunnerInv'
    <2>1. UNCHANGED <<row, client>>
      BY <1>1 DEF Reject, InstallEnds, Heartbeat, Beat, RunEnds, RunCancelled, FinishConflict,
                  Decide, ApplyConflict, ScheduleRetry, Bury, DropCancel, AckAndRelease,
                  taskFrame, rowVars, queueVars, procVars
    <2>2. \A e \in Executions : lease'[e] = lease[e] \/ lease'[e] = "fresh"
      BY <1>0, <1>1
         DEF Reject, InstallEnds, Heartbeat, Beat, RunEnds, RunCancelled, FinishConflict,
             Decide, ApplyConflict, ScheduleRetry, Bury, DropCancel, AckAndRelease,
             taskFrame, rowVars, queueVars, procVars
    <2>3. \/ task' = task
          \/ \E t : Goto(s, t) /\ t.pc \notin EngagedPhases
          \/ \E t : /\ Goto(s, t) /\ t.msg = m
                   /\ t.pc \in RunPhases /\ task[s].pc \in RunPhases
          \/ \E t : /\ Goto(s, t) /\ t.msg = m
                   /\ t.pc \in {"applying"} /\ task[s].pc = "deciding"
      <3> USE DEF EngagedPhases, RunPhases, NotebookPhases
      <3>1. CASE InstallEnds(s) \/ RunEnds(s) \/ RunCancelled(s)
        BY <3>1 DEF InstallEnds, RunEnds, RunCancelled, At
      <3>2. CASE Heartbeat(s)
        BY <3>2 DEF Heartbeat, procVars
      <3>3. CASE Decide(s)
        BY <3>3 DEF Decide, At
      <3>4. CASE \/ Reject(s) \/ FinishConflict(s) \/ ApplyConflict(s)
                 \/ ScheduleRetry(s) \/ Bury(s) \/ DropCancel(s) \/ AckAndRelease(s)
        BY <3>4 DEF Reject, FinishConflict, ApplyConflict, ScheduleRetry, Bury, DropCancel,
                    AckAndRelease, At, Idle
      <3> QED
        BY <1>1, <3>1, <3>2, <3>3, <3>4
    <2>4. \A r \in Slots : task'[r].pc \in EngagedPhases =>
            /\ task[r].pc \in EngagedPhases
            /\ task'[r].msg = task[r].msg
            /\ task'[r].pc \in RunPhases <=> task[r].pc \in RunPhases
      BY <1>0, <2>3 DEF Goto, EngagedPhases, RunPhases, NotebookPhases
    <2> QED
      BY <2>1, <2>2, <2>4, QuietRunners
  <1> SUFFICES ASSUME ~ Frames PROVE RunnerInv'
    BY <1>1
  <1>c. UNCHANGED client => \A c \in Clients : client'[c].pc # "retry"
    BY DEF RunnerInv
  <1>e. PICK e \in Executions : e = m.exec
    <2>1. task[s].pc \notin {"idle", "leaked"}
      BY DEF TaskStep, TaskProceeds, Start, FinishRow, Apply
    <2>2. m \in Message
      BY <1>0, <2>1, TaskFields
    <2> QED
      BY <2>2 DEF Message
  <1>o. ASSUME NEW t, Goto(s, t), t.pc \in EngagedPhases => t.msg.exec = e,
               NEW f \in Executions \ {e}, row'[f] = row[f], lease'[f] = lease[f]
        PROVE  OneEngaged(f)'
    <2>1. \A r \in Slots : Engaged(r, f)' => r # s
      BY <1>0, <1>o DEF Engaged, Goto
    <2>2. \A r \in Slots : r # s => task'[r] = task[r]
      BY <1>0, <1>o DEF Goto
    <2> QED
      BY <1>o, <2>1, <2>2, SameEngaged DEF RunnerInv, Engaged
  <1>2. ASSUME Start(s) PROVE RunnerInv'
    <2>1. /\ row[e].status = "QUEUED"
          /\ row' = [row EXCEPT ![e] = [status |-> "RUNNING", attempt |-> m.attempt]]
          /\ lease' = [lease EXCEPT ![e] = "fresh"]
          /\ UNCHANGED client
          /\ Goto(s, At(s, "installing"))
      BY <1>2, <1>e DEF Start, MarkRunning, CanTransition, Successors, Statuses, taskFrame
    <2>2. \A r \in Slots : ~ Engaged(r, e)
      BY <2>1 DEF RunnerInv, OneEngaged, FailedStatuses
    <2>3. /\ \A r \in Slots : Engaged(r, e)' => r = s
          /\ task'[s].pc = "installing" /\ task'[s].msg = m
      BY <1>0, <2>1, <2>2 DEF Engaged, Goto, At
    <2>4. row'[e].status = "RUNNING" /\ row'[e].attempt = m.attempt /\ lease'[e] = "fresh"
      BY <1>0, <2>1
    <2>5. OneEngaged(e)'
      BY <2>3, <2>4 DEF OneEngaged, RunPhases
    <2>6. ASSUME NEW f \in Executions \ {e} PROVE OneEngaged(f)'
      BY <1>0, <1>e, <1>o, <2>1 DEF At
    <2> QED
      BY <1>c, <2>1, <2>5, <2>6 DEF RunnerInv
  <1>3. ASSUME FinishRow(s) PROVE RunnerInv'
    <2> DEFINE o == task[s].outcome
    <2>1. /\ o \in Successors["RUNNING"]
          /\ CanTransition(row[e].status, o)
          /\ row' = [row EXCEPT ![e].status = o]
          /\ UNCHANGED <<lease, client>>
          /\ \E t : /\ Goto(s, t)
                   /\ \/ t.pc \notin EngagedPhases
                      \/ t.pc = "deciding" /\ t.msg = m /\ o \in FailedStatuses
      BY <1>0, <1>3, <1>e, TaskFields
         DEF FinishRow, Finish, SetStatus, At, taskFrame, EngagedPhases, RunPhases, NotebookPhases
    <2>2. Engaged(s, e) /\ task[s].pc \in RunPhases
      BY <1>3, <1>e DEF FinishRow, Engaged, EngagedPhases, RunPhases
    <2>3. \A r \in Slots : Engaged(r, e) => r = s
      BY <2>2 DEF RunnerInv, OneEngaged
    <2>4. row'[e].status = o
      <3>1. row[e] \in Row
        BY <1>0, <2>1, RowFields DEF CanTransition
      <3> QED
        BY <1>0, <2>1, <3>1 DEF Row
    <2>5. PICK t : /\ Goto(s, t)
                   /\ \/ t.pc \notin EngagedPhases
                      \/ t.pc = "deciding" /\ t.msg = m /\ o \in FailedStatuses
      BY <2>1
    <2>6. /\ task'[s] = t
          /\ \A r \in Slots : Engaged(r, e)' => r = s
      BY <1>0, <2>3, <2>5 DEF Engaged, Goto
    <2>7. OneEngaged(e)'
      BY <2>4, <2>5, <2>6
         DEF OneEngaged, Engaged, EngagedPhases, RunPhases, NotebookPhases
    <2>8. ASSUME NEW f \in Executions \ {e} PROVE OneEngaged(f)'
      BY <1>0, <1>e, <1>o, <2>1, <2>5
    <2> QED
      BY <1>c, <2>1, <2>7, <2>8 DEF RunnerInv
  <1>4. ASSUME Apply(s) PROVE RunnerInv'
    <2>1. /\ \A f \in Executions \ {e} : row'[f] = row[f]
          /\ UNCHANGED <<lease, client>>
          /\ \E t : Goto(s, t) /\ t.pc = "retrying"
          /\ Engaged(s, e)
      BY <1>0, <1>4, <1>e DEF Apply, RequeueSeen, taskFrame, Engaged, EngagedPhases
    <2>2. \A r \in Slots : Engaged(r, e) => r = s
      BY <2>1 DEF RunnerInv, OneEngaged
    <2>3. PICK t : Goto(s, t) /\ t.pc \notin EngagedPhases
      BY <2>1 DEF EngagedPhases, RunPhases, NotebookPhases
    <2>4. \A r \in Slots : ~ Engaged(r, e)'
      BY <1>0, <2>2, <2>3 DEF Engaged, Goto
    <2>5. ASSUME NEW f \in Executions \ {e} PROVE OneEngaged(f)'
      BY <1>o, <2>1, <2>3
    <2> QED
      BY <1>c, <2>1, <2>4, <2>5, NobodyEngaged DEF RunnerInv
  <1> QED
    BY <1>1, <1>2, <1>3, <1>4 DEF TaskStep, TaskProceeds

\* A row the recovery pass takes has nobody engaged with it.
LEMMA StaleIsFree ==
    ASSUME RunnerInv, NEW e \in Executions, Stale(e), NEW s \in Slots
    PROVE  ~ Engaged(s, e)
  BY DEF RunnerInv, OneEngaged, Stale, FailedStatuses

LEMMA RecoverRunners ==
    ASSUME TypeOK, RunnerInv, NEW w \in Workers, Recover(w)
    PROVE  RunnerInv'
  <1>1. PICK S \in SUBSET {e \in Executions : Stale(e)} : ForceFailAndDecide(S)
    BY DEF Recover
  <1>2. UNCHANGED <<task, lease, client>>
    BY <1>1 DEF Recover, ForceFailAndDecide
  <1>3. ASSUME NEW e \in S PROVE OneEngaged(e)'
    <2>1. \A s \in Slots : ~ Engaged(s, e)'
      BY <1>2, StaleIsFree DEF Engaged
    <2> QED
      BY <2>1, NobodyEngaged
  <1>4. ASSUME NEW e \in Executions \ S PROVE OneEngaged(e)'
    <2>1. row'[e] = row[e]
      BY <1>1 DEF ForceFailAndDecide
    <2> QED
      BY <1>2, <2>1, SameEngaged DEF RunnerInv, Engaged
  <1> QED
    BY <1>2, <1>3, <1>4 DEF RunnerInv

LEMMA ExpiryRunners ==
    ASSUME RunPhases \subseteq Beating, TypeOK, RunnerInv, NEW e \in Executions, LeaseExpires(e)
    PROVE  RunnerInv'
  <1>1. /\ UNCHANGED <<row, task, client>>
        /\ row[e].status = "RUNNING"
        /\ \A f \in Executions \ {e} : lease'[f] = lease[f]
        /\ \A s \in Slots : task[s].pc \in RunPhases => task[s].msg.exec # e
    BY DEF LeaseExpires, procVars, TypeOK, RowsTypeOK
  <1>2. \A s \in Slots : ~ Engaged(s, e)
    BY <1>1 DEF RunnerInv, OneEngaged, Engaged, FailedStatuses
  <1>3. OneEngaged(e)'
    BY <1>1, <1>2, NobodyEngaged DEF Engaged
  <1>4. ASSUME NEW f \in Executions \ {e} PROVE OneEngaged(f)'
    BY <1>1, SameEngaged DEF RunnerInv, Engaged
  <1> QED
    BY <1>1, <1>3, <1>4 DEF RunnerInv

LEMMA FaultRunners ==
    ASSUME TypeOK, RunnerInv, FaultStep
    PROVE  RunnerInv'
  <1>1. UNCHANGED <<row, lease>>
    BY DEF FaultStep, Crash, Stop, TaskRaises, NotebookUnreadable, PumpDies, AckRaises, RequestDies,
           rowVars
  <1>2. \A c \in Clients : client'[c].pc # "retry"
    BY DEF FaultStep, Crash, Stop, TaskRaises, NotebookUnreadable, PumpDies, AckRaises, RequestDies,
           ClientAt, Idle, RunnerInv, TypeOK
  <1>3. \A s \in Slots :
          \/ task'[s] = task[s]
          \/ task'[s].pc \in {"idle", "leaked", "acking"}
          \/ task[s].pc = "executing" /\ task'[s] = At(s, "muted")
    BY DEF FaultStep, Crash, Stop, TaskRaises, NotebookUnreadable, PumpDies, AckRaises, RequestDies,
           Goto, At, Idle, Leaked, TypeOK
  <1>4. ASSUME NEW e \in Executions PROVE OneEngaged(e)'
    <2>1. \A s \in Slots : Engaged(s, e)' =>
            /\ Engaged(s, e)
            /\ task'[s].msg = task[s].msg
            /\ task'[s].pc \in RunPhases <=> task[s].pc \in RunPhases
      <3> SUFFICES ASSUME NEW s \in Slots, Engaged(s, e)'
                   PROVE  /\ Engaged(s, e)
                          /\ task'[s].msg = task[s].msg
                          /\ task'[s].pc \in RunPhases <=> task[s].pc \in RunPhases
        OBVIOUS
      <3>1. CASE task'[s] = task[s]
        BY <3>1 DEF Engaged
      <3>2. CASE task'[s].pc \in {"idle", "leaked", "acking"}
        BY <3>2 DEF Engaged, EngagedPhases, RunPhases, NotebookPhases
      <3>3. CASE task[s].pc = "executing" /\ task'[s] = At(s, "muted")
        <4>1. task'[s].pc = "muted" /\ task'[s].msg = task[s].msg
          BY <3>3 DEF At
        <4> QED
          BY <3>3, <4>1 DEF Engaged, EngagedPhases, RunPhases, NotebookPhases
      <3> QED
        BY <1>3, <3>1, <3>2, <3>3
    <2> QED
      BY <1>1, <2>1, SameEngaged DEF RunnerInv
  <1> QED
    BY <1>2, <1>4 DEF RunnerInv

LEMMA ClientRunners ==
    ASSUME "retry" \notin ApiOps, TypeOK, RunnerInv, NEW c \in Clients,
           ClientArrives(c) \/ ClientProceeds(c)
    PROVE  RunnerInv'
  <1>0. /\ client[c] \in Client /\ client \in [Clients -> Client]
        /\ row \in [Executions -> RowOrNone]
    BY DEF TypeOK, RowsTypeOK
  <1>1. ~ RetryRead(c) /\ ~ RetryApply(c)
    BY DEF RetryRead, Arrives, RetryApply, RunnerInv
  <1>2. UNCHANGED <<task, lease>>
    BY <1>1 DEF ClientArrives, ClientProceeds, Submit, CancelRead, DeleteRead, PushMessage,
                CancelApply, Signal, DeleteWait, DeleteTest, DeleteCommit, apiFrame
  <1>3. \A d \in Clients : client'[d].pc # "retry"
    <2>1. PICK k : ClientAt(c, k) /\ k.pc # "retry"
      <3>1. CASE Submit(c)
        <4>1. PICK e \in Executions : ClientAt(c, [pc |-> "enqueue", msg |-> Msg(e, 1)])
          BY <3>1 DEF Submit
        <4> QED
          BY <4>1
      <3>2. CASE PushMessage(c)
        BY <3>2 DEF PushMessage, Idle
      <3>3. CASE CancelRead(c)
        <4>1. PICK e \in Executions :
                ClientAt(c, IF row[e].status = "QUEUED"
                              THEN [pc |-> "cancel", exec |-> e, seen |-> row[e]]
                              ELSE [pc |-> "signal", exec |-> e])
          BY <3>3 DEF CancelRead
        <4> QED
          BY <4>1
      <3>4. CASE DeleteRead(c)
        BY <3>4 DEF DeleteRead
      <3>5. CASE CancelApply(c) \/ Signal(c)
        BY <3>5 DEF CancelApply, Signal, Idle
      <3>6. CASE DeleteWait(c) \/ DeleteTest(c) \/ DeleteCommit(c)
        BY <3>6 DEF DeleteWait, DeleteTest, DeleteCommit, Idle
      <3> QED
        BY <1>1, <3>1, <3>2, <3>3, <3>4, <3>5, <3>6 DEF ClientArrives, ClientProceeds
    <2> QED
      BY <1>0, <2>1 DEF ClientAt, RunnerInv
  <1>4. ASSUME NEW f \in Executions
        PROVE  \/ row'[f] = row[f]
               \/ row[f].status = "NONE"
               \/ row'[f].status \in {"CANCELLED", "DELETED"}
    <2>1. CASE Submit(c)
      BY <1>0, <2>1 DEF Submit, Create
    <2>2. CASE CancelApply(c)
      <3>1. client[c].exec \in Executions
        BY <1>0, <2>2, ClientFields DEF CancelApply
      <3>2. CASE UNCHANGED row
        BY <3>2
      <3>3. CASE CancelSeen(client[c].exec, client[c].seen)
        <4>1. row[client[c].exec] \in Row
          BY <1>0, <3>1, <3>3, RowFields DEF CancelSeen, Exists
        <4> QED
          BY <1>0, <3>1, <3>3, <4>1 DEF CancelSeen, SetStatus, Row
      <3> QED
        BY <2>2, <3>2, <3>3 DEF CancelApply
    <2>3. CASE DeleteCommit(c)
      <3>1. row[client[c].exec] \in RowOrNone /\ client[c].exec \in Executions
        BY <1>0, <2>3, ClientFields DEF DeleteCommit
      <3> QED
        BY <1>0, <2>3, <3>1 DEF DeleteCommit, RowOrNone, Row, Absent
    <2>4. CASE UNCHANGED row
      BY <2>4
    <2> QED
      BY <1>1, <2>1, <2>2, <2>3, <2>4
         DEF ClientArrives, ClientProceeds, CancelRead, DeleteRead, PushMessage, Signal,
             DeleteWait, DeleteTest
  <1>5. ASSUME NEW f \in Executions PROVE OneEngaged(f)'
    <2>1. CASE row'[f] = row[f]
      BY <1>2, <2>1, SameEngaged DEF RunnerInv, Engaged
    <2>2. CASE row[f].status = "NONE"
      <3>1. \A s \in Slots : ~ Engaged(s, f)
        BY <2>2 DEF RunnerInv, OneEngaged, FailedStatuses
      <3> QED
        BY <1>2, <3>1, NobodyEngaged DEF Engaged
    <2>3. CASE row'[f].status \in {"CANCELLED", "DELETED"}
      BY <1>2, <2>3, Overwritten DEF RunnerInv
    <2> QED
      BY <1>4, <2>1, <2>2, <2>3
  <1> QED
    BY <1>3, <1>5 DEF RunnerInv

LEMMA StepRunners ==
    ASSUME RunPhases \subseteq Beating, "retry" \notin ApiOps, TypeOK, RunnerInv, [Next]_vars
    PROVE  RunnerInv'
  BY WorkerRunners, TaskRunners, RecoverRunners, ExpiryRunners, FaultRunners, ClientRunners
     DEF Next, RecoveryStep

LEMMA RunnersStayAlone ==
    ASSUME RunPhases \subseteq Beating, "retry" \notin ApiOps
    PROVE  Spec => [](TypeOK /\ RunnerInv)
  <1>1. Init => TypeOK /\ RunnerInv
    BY InitTypes DEF Init, RowsInit, Idle, RunnerInv, OneEngaged, Engaged, EngagedPhases,
                     RunPhases, NotebookPhases
  <1>2. TypeOK /\ RunnerInv /\ [Next]_vars => (TypeOK /\ RunnerInv)'
    BY StepTypes, StepRunners
  <1> QED
    BY <1>1, <1>2, PTL DEF Spec

\* With a heartbeat that covers every phase of a task, two tasks never run the
\* same execution, and a running task runs the attempt its row shows: through
\* every failure, and however cancels and deletes race with the start, the end
\* and the automatic retry of an attempt. Only a manual retry can break it.
THEOREM RunnersAreAlone ==
    ASSUME RunPhases \subseteq Beating, "retry" \notin ApiOps
    PROVE  Spec => []OneRunner
  <1>1. RunnerInv => OneRunner
    <2> SUFFICES ASSUME RunnerInv, NEW e \in Executions
                 PROVE  LET runners == {s \in Slots : Works(s, e) /\ task[s].pc \in RunPhases} IN
                          /\ Cardinality(runners) <= 1
                          /\ \A s \in runners :
                               row[e].status = "RUNNING" => row[e].attempt = task[s].msg.attempt
      BY DEF OneRunner
    <2> DEFINE runners == {s \in Slots : Works(s, e) /\ task[s].pc \in RunPhases}
    <2>1. \A s \in runners : Engaged(s, e)
      BY DEF Works, Engaged, EngagedPhases
    <2>2. \A s, r \in runners : s = r
      BY <2>1 DEF RunnerInv, OneEngaged
    <2>3. Cardinality(runners) <= 1
      BY <2>2, AtMostOne
    <2>4. \A s \in runners : row[e].status = "RUNNING" => row[e].attempt = task[s].msg.attempt
      BY <2>1 DEF RunnerInv, OneEngaged
    <2> QED
      BY <2>3, <2>4
  <1> QED
    BY <1>1, RunnersStayAlone, PTL

\* The recovery pass takes only what was abandoned: under the same assumptions an
\* attempt that a living task works on is failed or requeued by a step of that
\* task, never under it.
THEOREM OnlyAbandonedIsRecovered ==
    ASSUME RunPhases \subseteq Beating, "retry" \notin ApiOps
    PROVE  Spec => RecoversAbandoned
  <1> DEFINE Spared(e) ==
               row[e].status = "RUNNING" /\ row'[e].status \in {"QUEUED", "FAILED"} =>
                 \A s \in Slots :
                   Works(s, e) /\ task[s].pc \in RunPhases /\ task[s].msg = Msg(e, row[e].attempt)
                     => task'[s] # task[s]
  <1>1. ASSUME TypeOK, RunnerInv, [Next]_vars, NEW e \in Executions PROVE Spared(e)
    <2> SUFFICES ASSUME row[e].status = "RUNNING", row'[e].status \in {"QUEUED", "FAILED"},
                        NEW s \in Slots, Works(s, e), task[s].pc \in RunPhases
                 PROVE  task'[s] # task[s]
      OBVIOUS
    <2>0. /\ row'[e] # row[e] /\ row \in [Executions -> RowOrNone]
          /\ task \in [Slots -> Task]
      BY <1>1 DEF TypeOK, RowsTypeOK
    <2>1. Engaged(s, e) /\ \A r \in Slots : Engaged(r, e) => r = s
      BY <1>1 DEF Works, Engaged, EngagedPhases, RunnerInv, OneEngaged
    <2>2. ASSUME NEW w \in Workers, Recover(w) PROVE FALSE
      <3>1. ~ Stale(e)
        BY <1>1, <2>1, StaleIsFree
      <3> QED
        BY <2>0, <2>2, <3>1 DEF Recover, ForceFailAndDecide
    <2>3. ASSUME NEW c \in Clients, ClientArrives(c) \/ ClientProceeds(c) PROVE FALSE
      <3> USE DEF TypeOK
      <3>1. client[c] \in Client
        BY <1>1
      <3>2. ~ RetryRead(c) /\ ~ RetryApply(c)
        BY <1>1 DEF RetryRead, Arrives, RetryApply, RunnerInv
      <3>3. CASE Submit(c)
        BY <2>0, <3>3 DEF Submit, Create
      <3>4. CASE CancelApply(c)
        <4>1. client[c].exec \in Executions
          BY <3>1, <3>4, ClientFields DEF CancelApply
        <4>2. CancelSeen(client[c].exec, client[c].seen)
          BY <2>0, <3>4 DEF CancelApply
        <4>3. row[client[c].exec] \in Row
          BY <2>0, <4>1, <4>2, RowFields DEF CancelSeen, Exists
        <4> QED
          BY <2>0, <4>1, <4>2, <4>3 DEF CancelSeen, SetStatus, Row
      <3>5. CASE DeleteCommit(c)
        <4>1. client[c].exec \in Executions /\ row[client[c].exec] \in RowOrNone
          BY <2>0, <3>1, <3>5, ClientFields DEF DeleteCommit
        <4> QED
          BY <2>0, <3>5, <4>1 DEF DeleteCommit, RowOrNone, Row, Absent
      <3> QED
        BY <2>0, <2>3, <3>2, <3>3, <3>4, <3>5
           DEF ClientArrives, ClientProceeds, CancelRead, DeleteRead, PushMessage, Signal,
               DeleteWait, DeleteTest
    <2>4. ASSUME NEW r \in Slots, TaskStep(r) PROVE task'[s] # task[s]
      <3>1. CASE Start(r)
        BY <2>0, <3>1 DEF Start, MarkRunning, CanTransition, Successors, Statuses
      <3>2. CASE FinishRow(r)
        <4>1. Engaged(r, e)
          BY <2>0, <3>2 DEF FinishRow, Finish, SetStatus, Engaged, EngagedPhases, RunPhases
        <4>2. r = s
          BY <2>1, <4>1
        <4>3. task'[s].pc \in {"acking", "clearing", "deciding"}
          BY <2>0, <3>2, <4>2 DEF FinishRow, Goto, At
        <4> QED
          BY <3>2, <4>2, <4>3 DEF FinishRow
      <3>3. CASE Apply(r)
        <4>1. Engaged(r, e) /\ task[r].pc = "applying"
          BY <2>0, <3>3 DEF Apply, RequeueSeen, Engaged, EngagedPhases
        <4> QED
          BY <2>1, <4>1 DEF RunPhases, NotebookPhases
      <3> QED
        BY <2>0, <2>4, <3>1, <3>2, <3>3
           DEF TaskStep, TaskProceeds, Reject, InstallEnds, Heartbeat, Beat, RunEnds, RunCancelled,
               FinishConflict, Decide, ApplyConflict, ScheduleRetry, Bury, DropCancel,
               AckAndRelease, taskFrame, rowVars
    <2>5. ASSUME \/ \E w \in Workers : ConsumerStep(w) \/ RecoveryEffect(w)
                 \/ \E f \in Executions : LeaseExpires(f) \/ KeyExpires(f)
                 \/ FaultStep \/ UNCHANGED vars
          PROVE  FALSE
      BY <2>0, <2>5
         DEF ConsumerStep, PromoteRemove, PromotePush, PromoteDone, LeaseNext, LeaseEmpty,
             Drained, Restart, RecoveryEffect, LeaseExpires, KeyExpires, FaultStep, Crash,
             Stop, TaskRaises, NotebookUnreadable, PumpDies, AckRaises, RequestDies, rowVars, vars
    <2> QED
      BY <1>1, <2>2, <2>3, <2>4, <2>5 DEF Next, RecoveryStep
  <1>2. TypeOK /\ RunnerInv /\ [Next]_vars => [\A e \in Executions : Spared(e)]_row
    BY <1>1
  <1>3. [][\A e \in Executions : Spared(e)]_row => RecoversAbandoned
    BY PTL DEF RecoversAbandoned
  <1> QED
    BY <1>2, <1>3, RunnersStayAlone, PTL DEF Spec

=============================================================================
