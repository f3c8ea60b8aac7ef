------------------------ MODULE ExecutionStateMachine ------------------------
(***************************************************************************)
(* The pure rules of an execution: the transition table of                 *)
(* domain/state_machine.py, the retry decision of domain/retry_policy.py   *)
(* and the classification of the failure codes the worker and the recovery *)
(* loop produce (domain/error_classification.py).                          *)
(***************************************************************************)
EXTENDS Naturals

CONSTANTS Executions,   \* the execution ids
          MaxRetries,   \* max_retries of the policy in force
          RetryMode,    \* "ANY" or "TRANSIENT_ONLY"
          MaxAttempt    \* bound: a manual retry never goes past this attempt

ASSUME RetryPolicyAssumption ==
    /\ MaxRetries \in Nat
    /\ RetryMode \in {"ANY", "TRANSIENT_ONLY"}
    /\ MaxAttempt \in Nat
    /\ MaxRetries < MaxAttempt

Statuses == {"QUEUED", "RUNNING", "SUCCESS", "FAILED", "TIMEOUT", "CANCELLED"}

\* _EXECUTION_TRANSITIONS
Successors ==
    [QUEUED    |-> {"RUNNING", "CANCELLED"},
     RUNNING   |-> {"SUCCESS", "FAILED", "CANCELLED", "TIMEOUT"},
     SUCCESS   |-> {},
     FAILED    |-> {"QUEUED"},
     TIMEOUT   |-> {"QUEUED"},
     CANCELLED |-> {}]

CanTransition(current, target) ==
    current \in Statuses /\ target \in Successors[current]

\* TERMINAL_EXECUTION_STATES
TerminalStatuses == {"SUCCESS", "CANCELLED"}

\* _DELETABLE_STATES of the execution service
DeletableStatuses == {"SUCCESS", "FAILED", "CANCELLED", "TIMEOUT"}

\* The statuses a manual retry accepts, and those a failure handler works on.
FailedStatuses == {"FAILED", "TIMEOUT"}

ErrorClasses == {"TRANSIENT", "PERMANENT", "UNKNOWN"}

\* classify: an internal code of known class wins, any other failure is
\* refined by its message, so every class is possible.
ClassesOf(status) ==
    IF status = "TIMEOUT" THEN {"PERMANENT"} ELSE ErrorClasses

LeaseExpiredClass == "TRANSIENT"

\* Mutant: an off-by-one that grants one retry too many.
ShouldRetryOnceMore(attempt, class) ==
    /\ attempt <= MaxRetries + 1
    /\ RetryMode = "TRANSIENT_ONLY" => class = "TRANSIENT"

ShouldRetry(attempt, class) ==
    /\ attempt <= MaxRetries
    /\ RetryMode = "TRANSIENT_ONLY" => class = "TRANSIENT"
=============================================================================
