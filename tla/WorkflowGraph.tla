----------------------------- MODULE WorkflowGraph -----------------------------
(***************************************************************************)
(* The dependency graph of a workflow (domain/dag.py): a set of edges      *)
(* <<from, to>> over its tasks.                                            *)
(***************************************************************************)
EXTENDS Naturals, FiniteSets

CONSTANT Tasks

ASSUME TasksAssumption == IsFiniteSet(Tasks)

Graphs == SUBSET (Tasks \X Tasks)

\* _deps_of
Preds(E, t) == {p \in Tasks : <<p, t>> \in E}

\* _has_cycle peels off the nodes whose predecessors are all peeled off already,
\* as many rounds as there are nodes; on a cycle none of the nodes ever is.
Visited(E) ==
    LET peel[n \in Nat] ==
          IF n = 0 THEN {}
          ELSE LET peeled == peel[n - 1] IN {t \in Tasks : Preds(E, t) \subseteq peeled}
    IN  peel[Cardinality(Tasks)]

\* validate_dag
ValidDag(E) ==
    /\ \A t \in Tasks : t \notin Preds(E, t)
    /\ Visited(E) = Tasks

\* Mutant: whatever depends on a waiting task is skipped as well.
DownstreamOfWaiting(E, blocked, waiting) ==
    {t \in waiting : Preds(E, t) \cap (blocked \cup waiting) # {}}

\* The tasks among `waiting` that depend, directly or through others of them, on a
\* task of `blocked`: what the `while progressed` loop of sync_and_advance skips.
Downstream(E, blocked, waiting) ==
    LET reach[n \in Nat] ==
          IF n = 0 THEN blocked
          ELSE LET reached == reach[n - 1] IN
                 reached \cup {t \in waiting : Preds(E, t) \cap reached # {}}
    IN  reach[Cardinality(Tasks)] \cap waiting
=============================================================================
