-------------------------- MODULE ExecutionLifecycle --------------------------
(***************************************************************************)
(* What one execution promises to whoever reads its row, when nobody       *)
(* retries or deletes it by hand: it moves along the transition table, an  *)
(* attempt starts under the number it was queued with, every new attempt   *)
(* is numbered one higher, and there are at most MaxRetries + 1 of them.   *)
(***************************************************************************)
EXTENDS ExecutionStateMachine

VARIABLES status, attempt

Init == status = "NONE" /\ attempt = 0

Created == status = "NONE" /\ status' = "QUEUED" /\ attempt' = 1

\* QUEUED -> RUNNING or CANCELLED, RUNNING -> an outcome
Moved ==
    /\ status \in {"QUEUED", "RUNNING"}
    /\ CanTransition(status, status')
    /\ UNCHANGED attempt

\* A failed attempt is queued again. The recovery loop fails an abandoned
\* attempt and requeues it in one transaction, so RUNNING may be the last
\* status anyone saw.
Requeued ==
    /\ status \in FailedStatuses \cup {"RUNNING"}
    /\ attempt <= MaxRetries
    /\ status' = "QUEUED"
    /\ attempt' = attempt + 1

Next == Created \/ Moved \/ Requeued

Spec == Init /\ [][Next]_<<status, attempt>>
=============================================================================
