-------------------------- MODULE ExecutionProperties --------------------------
(***************************************************************************)
(* What the execution pipeline is checked for.                             *)
(***************************************************************************)
EXTENDS ExecutionPipeline

-----------------------------------------------------------------------------
(* Who holds what. *)

Works(s, e) == task[s].pc \notin {"idle", "leaked"} /\ task[s].msg.exec = e

\* The copies of a message that can still start attempt a of execution e: in
\* the lists, in the hands of a promotion, a fresh lease or an API request, or
\* owed by a committed retry decision.
Deliveries(e, a) ==
    LET m == Msg(e, a) IN
      Cardinality({i \in 1..Len(main) : main[i] = m})
        + delayed[m]
        + Cardinality({w \in Workers : consumer[w] = [pc |-> "push", msg |-> m]})
        + Cardinality({s \in Slots : task[s] = [pc |-> "leased", msg |-> m]})
        + Cardinality({s \in Slots : task[s].pc = "retrying" /\ task[s].target = m})
        + Cardinality({w \in Workers : [kind |-> "retry", target |-> m] \in effects[w]})
        + Cardinality({c \in Clients : client[c] = [pc |-> "enqueue", msg |-> m]})

Handlers(e) == {s \in Slots : Works(s, e) /\ task[s].pc \in {"deciding", "applying"}}

Buriers(e) == {s \in Slots : Works(s, e) /\ task[s].pc = "burying"}

BuryingPasses(e) ==
    {w \in Workers : \E x \in effects[w] : x.kind = "dead" /\ x.target.exec = e}

-----------------------------------------------------------------------------
(* Safety. *)

\* An execution is never delivered twice: at any moment at most one message can
\* start it, the one that carries the attempt the row is queued for, and none is
\* left once the execution runs or has ended otherwise than by a cancel. It takes
\* a single handler per failure (decide_and_apply in the worker or in the recovery
\* pass), whatever crashes and however late a task that lost its lease comes back.
SingleDelivery ==
    \A e \in Executions : \A a \in 1..MaxAttempt :
      /\ Deliveries(e, a) <= 1
      /\ Deliveries(e, a) > 0 => row[e].status \in {"QUEUED", "CANCELLED"} /\ row[e].attempt = a

\* The DLQ is final: an execution is put on it at most once, for the attempt its
\* row shows as failed, and it never runs or succeeds afterwards: no task or
\* recovery pass still means to requeue it (dead_letter is a Redis push after
\* the commit of the decision).
DeadLettersFinal ==
    \A m \in Message :
      dlq[m] > 0 =>
        /\ dlq[m] = 1
        /\ row[m.exec].status \in FailedStatuses
        /\ row[m.exec].attempt = m.attempt
        /\ Handlers(m.exec) = {}
        /\ Buriers(m.exec) = {}
        /\ BuryingPasses(m.exec) = {}

\* Two tasks never run the same execution, and a running task runs the attempt
\* its row shows: workers share the volume, so a second runner would overwrite
\* the first one's workdir and finish the other's attempt. Needs a heartbeat
\* that covers every phase of a task.
OneRunner ==
    \A e \in Executions :
      LET runners == {s \in Slots : Works(s, e) /\ task[s].pc \in RunPhases} IN
        /\ Cardinality(runners) <= 1
        /\ \A s \in runners :
             row[e].status = "RUNNING" => row[e].attempt = task[s].msg.attempt

\* A QUEUED row always has a message on its way that will start it: no request,
\* stale retry or rejected duplicate consumes the last one. Holds while no
\* process fails and every notebook file can be read.
QueuedIsDelivered ==
    \A e \in Executions :
      row[e].status = "QUEUED" => \E a \in 1..MaxAttempt : Deliveries(e, a) > 0

-----------------------------------------------------------------------------
(* Actions. *)

Life(e) == INSTANCE ExecutionLifecycle
             WITH status <- row[e].status, attempt <- row[e].attempt

\* The pipeline implements the lifecycle an observer of the row is promised.
FollowsLifecycle ==
    /\ \A e \in Executions : Life(e)!Init
    /\ [][\A e \in Executions :
            [Life(e)!Next]_<<row[e].status, row[e].attempt>>]_row

\* Every status change is one the state machine allows ("Transicoes invalidas
\* sao rejeitadas"); the recovery transaction shows FAILED -> QUEUED as one step.
LegalTransition(from, to) ==
    \/ from = "NONE" /\ to = "QUEUED"
    \/ from \in DeletableStatuses /\ to = "DELETED"
    \/ from = "RUNNING" /\ to = "QUEUED"
    \/ CanTransition(from, to)

OnlyLegalTransitions ==
    [][\A e \in Executions :
         row'[e].status # row[e].status => LegalTransition(row[e].status, row'[e].status)]_row

\* A running execution becomes CANCELLED by its own task, once the notebook
\* process is dead; the API only signals it.
CancelledByItsTask ==
    [][\A e \in Executions :
         row[e].status = "RUNNING" /\ row'[e].status = "CANCELLED" =>
           \E s \in Slots : /\ Works(s, e)
                            /\ task[s].pc = "finishing"
                            /\ task[s].outcome = "CANCELLED"]_row

\* The recovery pass takes only what was abandoned ("worker morreu no meio"): a
\* RUNNING attempt that a living task works on is failed or requeued by that task.
RecoversAbandoned ==
    [][\A e \in Executions :
         row[e].status = "RUNNING" /\ row'[e].status \in {"QUEUED", "FAILED"} =>
           \A s \in Slots :
             Works(s, e) /\ task[s].pc \in RunPhases /\ task[s].msg = Msg(e, row[e].attempt)
               => task'[s] # task[s]]_row

-----------------------------------------------------------------------------
(* Liveness. *)

\* "Nunca deixa preso em RUNNING": an attempt that runs ends, by its worker or,
\* when that died, by the recovery loop of a worker that lives.
NeverStuckRunning ==
    \A e \in Executions : row[e].status = "RUNNING" ~> row[e].status # "RUNNING"

\* Every submitted execution settles: SUCCESS, CANCELLED, or failed for good
\* with an entry on the DLQ. Promised as long as nothing fails.
Settled(e) ==
    \/ row[e].status \in TerminalStatuses
    \/ row[e].status \in FailedStatuses /\ dlq[Msg(e, row[e].attempt)] > 0

Settles ==
    \A e \in Executions :
      row[e].status = "QUEUED" ~> Settled(e) \/ faults > 0

\* A cancel request that finds a notebook running ends it, even a notebook that
\* would never end by itself.
CancelEnds ==
    \A s \in Slots : \A e \in Executions :
      task[s].pc \in NotebookPhases /\ task[s].msg.exec = e /\ e \in cancelKey
        ~> ~ (task[s].pc \in NotebookPhases /\ task[s].msg.exec = e)
=============================================================================
