----------------------------- MODULE ExecutionRows -----------------------------
(***************************************************************************)
(* The executions table and the transactions services/execution_service.py *)
(* runs on a row. Every operator is one committed transaction.             *)
(*                                                                         *)
(* A transition locks its row (get_for_update), but the SELECT ... FOR     *)
(* UPDATE does not refresh an object the session already holds: when the   *)
(* caller has read the row before, the status that is asserted and the     *)
(* attempt that is incremented are those of that earlier read. The         *)
(* operators that take a `seen` row model these callers; the others load   *)
(* the row under the lock.                                                 *)
(***************************************************************************)
EXTENDS ExecutionStateMachine

VARIABLES row,     \* the status and attempt columns, per execution
          lease    \* whether last_heartbeat is within worker_lease_timeout_s

rowVars == <<row, lease>>

\* NONE: not inserted yet, DELETED: the row was removed.
Absent == [status |-> "NONE", attempt |-> 0]

Row == [status : Statuses, attempt : 1..MaxAttempt]

RowOrNone == Row \cup {Absent} \cup [status : {"DELETED"}, attempt : 0..MaxAttempt]

RowsTypeOK ==
    /\ row \in [Executions -> RowOrNone]
    /\ lease \in [Executions -> {"fresh", "expired"}]

RowsInit ==
    /\ row = [e \in Executions |-> Absent]
    /\ lease = [e \in Executions |-> "fresh"]

Exists(e) == row[e].status \in Statuses

SetStatus(e, status) ==
    /\ row' = [row EXCEPT ![e].status = status]
    /\ UNCHANGED lease

\* create_for_workspace, create_raw
Create(e) ==
    /\ row[e].status = "NONE"
    /\ row' = [row EXCEPT ![e] = [status |-> "QUEUED", attempt |-> 1]]
    /\ UNCHANGED lease

\* mark_running: the attempt is the one of the message
MarkRunning(e, attempt) ==
    /\ CanTransition(row[e].status, "RUNNING")
    /\ row' = [row EXCEPT ![e] = [status |-> "RUNNING", attempt |-> attempt]]
    /\ lease' = [lease EXCEPT ![e] = "fresh"]

\* Mutant: finish does not assert the transition.
FinishUnchecked(e, status) ==
    /\ Exists(e)
    /\ SetStatus(e, status)

\* finish, mark_cancelled: any caller, whatever attempt it was running
Finish(e, status) ==
    /\ CanTransition(row[e].status, status)
    /\ SetStatus(e, status)

\* heartbeat: no lock, RUNNING only, whoever the worker is
Beat(e) ==
    /\ row[e].status = "RUNNING"
    /\ lease[e] = "expired"
    /\ lease' = [lease EXCEPT ![e] = "fresh"]
    /\ UNCHANGED row

\* cancel after a read of the row: only the seen status is tested
CancelSeen(e, seen) ==
    /\ Exists(e)
    /\ seen.status = "QUEUED"
    /\ SetStatus(e, "CANCELLED")

\* Mutant: the attempt is not incremented.
RequeueSameAttempt(e, seen) ==
    /\ Exists(e)
    /\ CanTransition(seen.status, "QUEUED")
    /\ row' = [row EXCEPT ![e] = [status |-> "QUEUED", attempt |-> seen.attempt]]
    /\ UNCHANGED lease

\* requeue_for_retry after a read of the row
RequeueSeen(e, seen) ==
    /\ Exists(e)
    /\ CanTransition(seen.status, "QUEUED")
    /\ row' = [row EXCEPT ![e] = [status |-> "QUEUED", attempt |-> seen.attempt + 1]]
    /\ UNCHANGED lease

\* Mutant: every RUNNING row counts as abandoned.
StaleAlways(e) == row[e].status = "RUNNING"

\* Mutant: only what can be retried is looked for.
StaleRetriable(e) ==
    row[e].status = "RUNNING" /\ lease[e] = "expired" /\ row[e].attempt <= MaxRetries

\* list_stale_running locks the rows it returns; force_fail and the retry
\* decision follow in the same transaction.
Stale(e) == row[e].status = "RUNNING" /\ lease[e] = "expired"

Recovered(e) ==
    IF ShouldRetry(row[e].attempt, LeaseExpiredClass)
      THEN [status |-> "QUEUED", attempt |-> row[e].attempt + 1]
      ELSE [status |-> "FAILED", attempt |-> row[e].attempt]

ForceFailAndDecide(S) ==
    /\ row' = [e \in Executions |-> IF e \in S THEN Recovered(e) ELSE row[e]]
    /\ UNCHANGED lease
=============================================================================
