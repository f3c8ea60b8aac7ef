----------------------------- MODULE JobProperties -----------------------------
(***************************************************************************)
(* What a job is checked for.                                              *)
(***************************************************************************)
EXTENDS JobOrchestrator

Unfinished(x) == exec[x].status \in {"QUEUED", "RUNNING"}

-----------------------------------------------------------------------------
(* Safety. *)

\* No task runs before everything it depends on has succeeded, over any number of
\* retries: an execution of a task exists only if each of its predecessors has an
\* execution that succeeded.
DependenciesRespected ==
    \A t \in Tasks : Launched(t) # {} =>
      \A p \in Preds(edges, t) : \E x \in Launched(p) : exec[x].status = "SUCCESS"

\* A job that is over has stopped: none of its executions, of this run or an earlier
\* one, still waits or runs. The job's row, its tasks' rows and the executions' rows
\* are written by different processes.
OverMeansOver ==
    job \in JobTerminal => \A t \in Tasks : \A x \in Launched(t) : ~ Unfinished(x)

\* One execution of a task at a time: before a task gets another execution, the one
\* it had is over.
OneExecutionPerTask ==
    \A t \in Tasks : Cardinality({x \in Launched(t) : Unfinished(x)}) <= 1

\* A task is skipped only if something it depends on cannot succeed in this run, and
\* nothing that depends on it is launched.
SkipsHaveACause ==
    Exists => \A t \in TasksIn(jobTask, {"SKIPPED"}) :
                Preds(edges, t) \cap TasksIn(jobTask, Blocking) # {}

-----------------------------------------------------------------------------
(* Liveness. *)

\* Every job ends, whatever its graph, whichever tasks fail, are skipped or
\* cancelled, as long as no process dies between a commit and a push.
JobEnds == job = "RUNNING" ~> job # "RUNNING" \/ crashes > 0

\* The tasks that made the job fail and have no notification yet.
Owed ==
    {t \in TasksIn(jobTask, {"FAILED"}) :
       job = "FAILED" /\ [event |-> "JOB_FAILED", scope |-> jobTask[t].exec] \notin announced}

\* The tasks that made their job fail are announced, unless the job is retried or
\* deleted, or a process dies on the way.
FailuresAnnounced == Owed # {} ~> Owed = {} \/ crashes > 0
=============================================================================
