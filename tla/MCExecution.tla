----------------------------- MODULE MCExecution -----------------------------
(* TLC instances of the execution pipeline. *)
EXTENDS ExecutionProperties, TLC

CONSTANTS e1, e2, w1, w2, c1, c2

\* Processes and executions are interchangeable; used by runs without liveness.
Symmetry ==
    Permutations(Executions) \cup Permutations(Workers) \cup Permutations(Clients)
=============================================================================
