----------------------------- MODULE KernelSession -----------------------------
(***************************************************************************)
(* kernel/session.py: a kernel process and the task that works off its     *)
(* queue. A kernel here is one KernelSession object: the manager may make  *)
(* several for one session id, one after the other.                        *)
(***************************************************************************)
EXTENDS Naturals, Sequences, FiniteSets

CONSTANTS SessionIds,   \* sha1 of notebook path and user
          MaxRequests,  \* bound: API calls
          MaxFaults     \* bound: things that fail

Request == 1..MaxRequests   \* in the order of their RPUSH
Kernel == 1..MaxRequests    \* a request starts at most one

VARIABLES kernel,    \* the KernelSession objects
          meta,      \* hash nbp:kernel:sess:<id>
          answered,  \* requests with a cell.finished event, or an rpc reply
          faults

Nobody == "nobody"

ASSUME KernelAssumption ==
    MaxRequests \in Nat /\ MaxFaults \in Nat /\ Nobody \notin SessionIds

\* status is the attribute; proc: the process is alive; worker: where the task is.
Unused == [sid |-> Nobody, status |-> "starting", proc |-> FALSE, worker |-> "none",
           item |-> 0, queue |-> <<>>]

Item == [kind : {"execute", "complete"}, req : Request]
        \cup [kind : {"restart", "stop"}, req : {0}]

KernelRow ==
    [sid : SessionIds \cup {Nobody}, status : {"starting", "idle", "busy", "dead"},
     proc : BOOLEAN, item : Request \cup {0}, queue : Seq(Item),
     worker : {"none", "connect", "wait", "cell", "restart", "ended"}]

SessionTypeOK ==
    /\ kernel \in [Kernel -> KernelRow]
    /\ meta \in [SessionIds -> {"none", "partial", "full"}]
    /\ answered \subseteq Request
    /\ faults \in 0..MaxFaults

SessionInit ==
    /\ kernel = [k \in Kernel |-> Unused]
    /\ meta = [s \in SessionIds |-> "none"]
    /\ answered = {}
    /\ faults = 0

Plain(kind) == [kind |-> kind, req |-> 0]

Put(k, item) == [kernel[k] EXCEPT !.queue = Append(@, item)]

Set(k, row) == kernel' = [kernel EXCEPT ![k] = row]

Fault == faults < MaxFaults /\ faults' = faults + 1

\* A kernel.status event is also an HSET: it makes the hash anew when it is gone,
\* without the fields open_session wrote.
EmitStatus(s) ==
    meta' = [meta EXCEPT ![s] = IF @ = "none" THEN "partial" ELSE @]

-----------------------------------------------------------------------------
(* KernelSession.worker *)

Connect(k) ==
    /\ kernel[k].worker = "connect"
    /\ Set(k, [kernel[k] EXCEPT !.status = "idle", !.worker = "wait"])
    /\ EmitStatus(kernel[k].sid)
    /\ UNCHANGED <<answered, faults>>

\* what the queue holds stays in it
ConnectFails(k) ==
    /\ Fault
    /\ kernel[k].worker = "connect"
    /\ Set(k, [kernel[k] EXCEPT !.status = "dead", !.worker = "ended"])
    /\ EmitStatus(kernel[k].sid)
    /\ UNCHANGED answered

HeadIs(k, kind) ==
    /\ kernel[k].worker = "wait"
    /\ kernel[k].queue # <<>>
    /\ Head(kernel[k].queue).kind = kind

TakeStop(k) ==
    /\ HeadIs(k, "stop")
    /\ Set(k, [kernel[k] EXCEPT !.queue = Tail(@), !.worker = "ended"])
    /\ UNCHANGED <<meta, answered, faults>>

\* Mutant: the announced status is stored too.
TakeRestartStored(k) ==
    /\ HeadIs(k, "restart")
    /\ Set(k, [kernel[k] EXCEPT !.queue = Tail(@), !.worker = "restart", !.status = "restarting"])
    /\ EmitStatus(kernel[k].sid)
    /\ UNCHANGED <<answered, faults>>

\* _do_restart and _do_env_refresh announce "restarting"; self.status keeps its value
TakeRestart(k) ==
    /\ HeadIs(k, "restart")
    /\ Set(k, [kernel[k] EXCEPT !.queue = Tail(@), !.worker = "restart"])
    /\ EmitStatus(kernel[k].sid)
    /\ UNCHANGED <<answered, faults>>

Restarted(k) ==
    /\ kernel[k].worker = "restart"
    /\ Set(k, [kernel[k] EXCEPT !.status = "idle", !.worker = "wait"])
    /\ EmitStatus(kernel[k].sid)
    /\ UNCHANGED <<answered, faults>>

\* wait_for_ready fails: dead, and the loop goes on; restart_kernel or start_kernel
\* raises: the task ends, and the status stays what it was.
RestartFails(k) ==
    /\ Fault
    /\ kernel[k].worker = "restart"
    /\ \/ /\ Set(k, [kernel[k] EXCEPT !.status = "dead", !.worker = "wait"])
          /\ EmitStatus(kernel[k].sid)
       \/ /\ Set(k, [kernel[k] EXCEPT !.worker = "ended"])
          /\ UNCHANGED meta
    /\ UNCHANGED answered

\* _do_introspect replies in any case
TakeComplete(k) ==
    /\ HeadIs(k, "complete")
    /\ answered' = answered \cup {Head(kernel[k].queue).req}
    /\ Set(k, [kernel[k] EXCEPT !.queue = Tail(@)])
    /\ UNCHANGED <<meta, faults>>

TakeCell(k) ==
    /\ HeadIs(k, "execute")
    /\ Set(k, [kernel[k] EXCEPT !.queue = Tail(@), !.worker = "cell", !.status = "busy",
                                !.item = Head(kernel[k].queue).req])
    /\ UNCHANGED <<meta, answered, faults>>

\* _run_one: the kernel is idle again, was interrupted, or stayed silent for
\* kernel_exec_timeout_s
CellEnds(k) ==
    /\ kernel[k].worker = "cell"
    /\ answered' = answered \cup {kernel[k].item}
    /\ Set(k, [kernel[k] EXCEPT !.worker = "wait", !.status = "idle", !.item = 0])
    /\ UNCHANGED <<meta, faults>>

\* any exception out of _run_one: dead, without cell.finished
CellBreaks(k) ==
    /\ Fault
    /\ kernel[k].worker = "cell"
    /\ Set(k, [kernel[k] EXCEPT !.worker = "ended", !.status = "dead"])
    /\ EmitStatus(kernel[k].sid)
    /\ UNCHANGED answered

WorkerStep(k) ==
    \/ Connect(k) \/ TakeStop(k) \/ TakeRestart(k) \/ Restarted(k)
    \/ TakeComplete(k) \/ TakeCell(k) \/ CellEnds(k)

WorkerFault(k) == ConnectFails(k) \/ RestartFails(k) \/ CellBreaks(k)
=============================================================================
