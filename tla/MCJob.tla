--------------------------------- MODULE MCJob ---------------------------------
(* TLC instances of a job. *)
EXTENDS JobProperties, TLC

CONSTANTS t1, t2, t3, l1, l2, c1, c2

MCExecutions == Tasks \X (1..MaxRuns)

\* Tasks and processes are interchangeable; used by runs without liveness.
Symmetry == Permutations(Tasks) \cup Permutations(Loops) \cup Permutations(Clients)
=============================================================================
