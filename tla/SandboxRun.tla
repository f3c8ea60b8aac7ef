------------------------------- MODULE SandboxRun -------------------------------
(***************************************************************************)
(* One notebook under run_papermill (worker/papermill_executor.py) or      *)
(* run_in_docker (worker/sandbox/docker_sandbox.py): the coroutine that    *)
(* waits for the process, the one that reads its output, the cancel event  *)
(* and the timeout, and the kill. ExecutionPipeline takes all this as one  *)
(* step. In docker the process is the client of a container.               *)
(***************************************************************************)
EXTENDS Naturals

CONSTANT MaxBreaks   \* bound: failures of the log, of its reader, of docker

ASSUME SandboxAssumption == MaxBreaks \in Nat

VARIABLES engine,    \* settings.execution_sandbox
          child,     \* the process the worker waits for
          cells,     \* the notebook in it, or in its container, and how it ended
          errorLine, \* the line that names the error: not there, in the pipe, or read
          pump,      \* _pump
          event,     \* cancel_event
          caller,    \* run_papermill or run_in_docker, and what it has found out
          missedKill, \* history: docker kill came before there was a container, or failed
          breaks

sandboxVars == <<engine, child, cells, errorLine, pump, event, caller, missedKill, breaks>>

SandboxTypeOK ==
    /\ engine \in {"subprocess", "docker"} /\ child \in {"starting", "up", "exited"}
    /\ cells \in {"none", "running", "succeeded", "failed", "killed"}
    /\ errorLine \in {"no", "written", "read"} /\ pump \in {"reading", "dead", "over"}
    /\ event \in BOOLEAN /\ missedKill \in BOOLEAN /\ breaks \in 0..MaxBreaks
    /\ caller \in [pc : {"waiting", "killing", "reaping", "pumping", "done", "raised"},
                   timedOut : BOOLEAN, cancelled : BOOLEAN]

SandboxInit ==
    /\ \/ engine = "subprocess" /\ child = "up" /\ cells = "running"
       \/ engine = "docker" /\ child = "starting" /\ cells = "none"
    /\ errorLine = "no" /\ pump = "reading"
    /\ event = FALSE /\ missedKill = FALSE /\ breaks = 0
    /\ caller = [pc |-> "waiting", timedOut |-> FALSE, cancelled |-> FALSE]

(***************************************************************************)
(* The notebook and its process.                                           *)
(***************************************************************************)
ContainerStarts ==
    /\ child = "starting"
    /\ child' = "up" /\ cells' = "running"
    /\ UNCHANGED <<engine, errorLine, pump, event, caller, missedKill, breaks>>

\* No image, no daemon: docker run ends, and no notebook was run.
ContainerRefused ==
    /\ child = "starting"
    /\ child' = "exited"
    /\ UNCHANGED <<engine, cells, errorLine, pump, event, caller, missedKill, breaks>>

\* The runner prints what went wrong and exits with 1.
NotebookRaises ==
    /\ cells = "running"
    /\ cells' = "failed" /\ errorLine' = "written"
    /\ UNCHANGED <<engine, child, pump, event, caller, missedKill, breaks>>

\* It is through, or it dies without a word.
NotebookEnds ==
    /\ cells = "running"
    /\ cells' \in {"succeeded", "failed"}
    /\ UNCHANGED <<engine, child, errorLine, pump, event, caller, missedKill, breaks>>

ChildExits ==
    /\ child = "up" /\ cells # "running"
    /\ child' = "exited"
    /\ UNCHANGED <<engine, cells, errorLine, pump, event, caller, missedKill, breaks>>

(***************************************************************************)
(* The reader of the output, and the signals.                              *)
(***************************************************************************)
PumpReads ==
    /\ pump = "reading" /\ errorLine = "written"
    /\ errorLine' = "read"
    /\ UNCHANGED <<engine, child, cells, pump, event, caller, missedKill, breaks>>

PumpEnds ==
    /\ pump = "reading" /\ child = "exited" /\ errorLine # "written"
    /\ pump' = "over"
    /\ UNCHANGED <<engine, child, cells, errorLine, event, caller, missedKill, breaks>>

\* on_line raises, or the line is longer than the reader allows.
PumpBreaks ==
    /\ pump = "reading" /\ breaks < MaxBreaks
    /\ pump' = "dead" /\ breaks' = breaks + 1
    /\ UNCHANGED <<engine, child, cells, errorLine, event, caller, missedKill>>

\* _cancel_watch has seen the key.
CancelComes ==
    /\ ~event
    /\ event' = TRUE
    /\ UNCHANGED <<engine, child, cells, errorLine, pump, caller, missedKill, breaks>>

(***************************************************************************)
(* The caller.                                                             *)
(***************************************************************************)
CallerAt(pc) == caller' = [caller EXCEPT !.pc = pc]

\* asyncio.wait returns: the process is over, and no cancel at that moment.
WaitEnds ==
    /\ caller.pc = "waiting" /\ child = "exited" /\ ~event
    /\ CallerAt("reaping")
    /\ UNCHANGED <<engine, child, cells, errorLine, pump, event, missedKill, breaks>>

\* The cancel counts even if the process is over as well.
WaitCancelled ==
    /\ caller.pc = "waiting" /\ event
    /\ caller' = [caller EXCEPT !.pc = "killing", !.cancelled = TRUE]
    /\ UNCHANGED <<engine, child, cells, errorLine, pump, event, missedKill, breaks>>

WaitTimesOut ==
    /\ caller.pc = "waiting" /\ child # "exited" /\ ~event
    /\ caller' = [caller EXCEPT !.pc = "killing", !.timedOut = TRUE]
    /\ UNCHANGED <<engine, child, cells, errorLine, pump, event, missedKill, breaks>>

AfterKill == IF cells = "running" THEN "killed" ELSE cells

\* proc.kill: a process that is gone makes it raise, if its transport is closed.
KillProcess ==
    /\ caller.pc = "killing" /\ engine = "subprocess"
    /\ cells' = AfterKill
    /\ \/ CallerAt("reaping")
       \/ child = "exited" /\ CallerAt("raised")
    /\ UNCHANGED <<engine, child, errorLine, pump, event, missedKill, breaks>>

\* docker kill, which knows no container that has not been made yet. Errors are suppressed.
KillContainer ==
    /\ caller.pc = "killing" /\ engine = "docker"
    /\ cells' = AfterKill /\ missedKill' = (child = "starting")
    /\ CallerAt("reaping")
    /\ UNCHANGED <<engine, child, errorLine, pump, event, breaks>>

KillFails ==
    /\ caller.pc = "killing" /\ engine = "docker" /\ breaks < MaxBreaks
    /\ missedKill' = TRUE /\ breaks' = breaks + 1
    /\ CallerAt("reaping")
    /\ UNCHANGED <<engine, child, cells, errorLine, pump, event>>

\* await proc.wait()
Reap ==
    /\ caller.pc = "reaping" /\ child = "exited"
    /\ CallerAt("pumping")
    /\ UNCHANGED <<engine, child, cells, errorLine, pump, event, missedKill, breaks>>

\* Bug: the reader is not waited for.
ReportAtOnce ==
    /\ caller.pc = "pumping"
    /\ CallerAt("done")
    /\ UNCHANGED <<engine, child, cells, errorLine, pump, event, missedKill, breaks>>

\* await pump_task, and the result
Report ==
    /\ caller.pc = "pumping" /\ pump # "reading"
    /\ CallerAt("done")
    /\ UNCHANGED <<engine, child, cells, errorLine, pump, event, missedKill, breaks>>

\* The line about the timeout or the cancel cannot be logged.
ReportBreaks ==
    /\ caller.pc = "pumping" /\ pump # "reading" /\ breaks < MaxBreaks
    /\ caller.timedOut \/ caller.cancelled
    /\ CallerAt("raised") /\ breaks' = breaks + 1
    /\ UNCHANGED <<engine, child, cells, errorLine, pump, event, missedKill>>

SandboxNext ==
    \/ ContainerStarts \/ ContainerRefused \/ NotebookRaises \/ NotebookEnds \/ ChildExits
    \/ PumpReads \/ PumpEnds \/ PumpBreaks \/ CancelComes
    \/ WaitEnds \/ WaitCancelled \/ WaitTimesOut
    \/ KillProcess \/ KillContainer \/ KillFails \/ Reap \/ Report \/ ReportBreaks

SandboxSpec == SandboxInit /\ [][SandboxNext]_sandboxVars

(***************************************************************************)
(* What run_papermill and run_in_docker tell the manager is what happened.  *)
(* No answer comes before the process is over. Without a flag the notebook  *)
(* ended by itself, and the error it printed is known unless its reader     *)
(* broke. With one, it no longer runs while its end is waited for, but for  *)
(* a container that docker kill has missed; and a caller that raises had    *)
(* nothing left to kill.                                                    *)
(***************************************************************************)
ReportIsTrue ==
    LET flagged == caller.timedOut \/ caller.cancelled
    IN  /\ caller.pc \in {"done", "raised"} => child = "exited"
        /\ caller.pc = "done" /\ ~flagged =>
              /\ cells # "killed"
              /\ errorLine = "written" => pump = "dead"
        /\ caller.pc = "reaping" /\ flagged => cells # "running" \/ missedKill
        /\ ~(caller.timedOut /\ caller.cancelled)
        /\ engine = "subprocess" => ~missedKill
=================================================================================
