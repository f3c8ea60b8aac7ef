----------------------------- MODULE KernelManager -----------------------------
(***************************************************************************)
(* kernel/manager.py and the routes that feed it. The routes RPUSH an      *)
(* operation; the kernel-worker process pops them in order and gives each  *)
(* a task of its own. The tasks that need a kernel queue up at the lock of *)
(* ensure (asyncio.Lock wakes its waiters in order); the others overtake.  *)
(***************************************************************************)
EXTENDS KernelSession

CONSTANTS MaxSessions  \* kernel_max_sessions

VARIABLES session,  \* manager.sessions
          request,  \* kind and session id of each request
          stage,    \* where each request is
          ops,      \* list nbp:kernel:ops
          lock,     \* ensure_lock: its holder and the waiters behind it
          closing,  \* kernels that a shutdown has popped and not finished with
          victim    \* the one among them that an eviction waits for

vars == <<kernel, meta, answered, faults, session, request, stage, ops, lock, closing, victim>>
sessionVars == <<kernel, meta, answered, faults>>
requestVars == <<request, stage, ops, lock>>

Kinds == {"open", "execute", "restart", "complete", "close"}

Stages == {"new", "queued", "lock", "evicting", "starting", "done", "lost"}

TypeOK ==
    /\ SessionTypeOK
    /\ session \in [SessionIds -> Kernel \cup {0}]
    /\ request \in [Request -> [kind : Kinds \cup {"none"}, sid : SessionIds \cup {Nobody}]]
    /\ stage \in [Request -> Stages]
    /\ ops \in Seq(Request)
    /\ lock \in Seq(Request)
    /\ closing \subseteq Kernel
    /\ victim \in Kernel \cup {0}

Init ==
    /\ SessionInit
    /\ session = [s \in SessionIds |-> 0]
    /\ request = [r \in Request |-> [kind |-> "none", sid |-> Nobody]]
    /\ stage = [r \in Request |-> "new"]
    /\ ops = <<>>
    /\ lock = <<>>
    /\ closing = {}
    /\ victim = 0

Sid(r) == request[r].sid
Kind(r) == request[r].kind
StageOf(r, s) == stage' = [stage EXCEPT ![r] = s]

\* open_session writes the hash, the others need the owner's name in it; all push.
Call(r, kind, s) ==
    /\ stage[r] = "new"
    /\ \A q \in Request : q < r => stage[q] # "new"
    /\ \/ kind = "open" /\ meta' = [meta EXCEPT ![s] = "full"]
       \/ kind # "open" /\ meta[s] = "full" /\ UNCHANGED meta
    /\ request' = [request EXCEPT ![r] = [kind |-> kind, sid |-> s]]
    /\ StageOf(r, "queued")
    /\ ops' = Append(ops, r)
    /\ UNCHANGED <<kernel, answered, faults, session, lock, closing, victim>>

\* Mutant: a waiter that comes later is served first.
QueueAtLockFirst ==
    /\ ops # <<>>
    /\ Kind(Head(ops)) \in {"open", "execute", "restart"}
    /\ StageOf(Head(ops), "lock")
    /\ lock' = IF lock = <<>> THEN <<Head(ops)>>
               ELSE <<Head(lock), Head(ops)>> \o Tail(lock)
    /\ ops' = Tail(ops)
    /\ UNCHANGED <<sessionVars, session, request, closing, victim>>

\* run pops an operation, _dispatch starts a task, which stops at ensure_lock
QueueAtLock ==
    /\ ops # <<>>
    /\ Kind(Head(ops)) \in {"open", "execute", "restart"}
    /\ StageOf(Head(ops), "lock")
    /\ lock' = Append(lock, Head(ops))
    /\ ops' = Tail(ops)
    /\ UNCHANGED <<sessionVars, session, request, closing, victim>>

\* complete, inspect: only an idle session with nothing queued is asked
PopComplete ==
    /\ ops # <<>>
    /\ LET r == Head(ops)
           k == session[Sid(r)] IN
         /\ Kind(r) = "complete"
         /\ IF k # 0 /\ kernel[k].status = "idle" /\ kernel[k].queue = <<>>
            THEN Set(k, Put(k, [kind |-> "complete", req |-> r])) /\ UNCHANGED answered
            ELSE answered' = answered \cup {r} /\ UNCHANGED kernel
         /\ StageOf(r, "done")
    /\ ops' = Tail(ops)
    /\ UNCHANGED <<meta, faults, session, request, lock, closing, victim>>

-----------------------------------------------------------------------------
(* shutdown *)

\* What shutdown does before it first waits: the session is out of the table, the
\* worker task, if there is one yet, is told to stop.
Stopping(k) ==
    /\ Set(k, IF kernel[k].worker = "none" THEN kernel[k] ELSE Put(k, Plain("stop")))
    /\ closing' = closing \cup {k}

PopClose ==
    /\ ops # <<>>
    /\ LET r == Head(ops)
           k == session[Sid(r)] IN
         /\ Kind(r) = "close"
         /\ StageOf(r, "done")
         /\ session' = [session EXCEPT ![Sid(r)] = 0]
         /\ IF k = 0 THEN UNCHANGED <<kernel, closing>> ELSE Stopping(k)
    /\ ops' = Tail(ops)
    /\ UNCHANGED <<meta, answered, faults, request, lock, victim>>

\* reap: not busy and silent for kernel_idle_timeout_s
Reap(s) ==
    /\ session[s] # 0
    /\ LET k == session[s] IN
         /\ \/ kernel[k].status = "dead"
            \/ kernel[k].status = "idle" /\ kernel[k].worker = "ended"
            \/ kernel[k].status = "idle" /\ kernel[k].worker = "wait" /\ kernel[k].queue = <<>>
         /\ Stopping(k)
    /\ session' = [session EXCEPT ![s] = 0]
    /\ UNCHANGED <<meta, answered, faults, requestVars, victim>>

\* The worker has stopped, or is cancelled after 5 s; the process is killed, and the
\* hash of the session id deleted, whoever uses it by now.
CloseEnds(k) ==
    /\ k \in closing
    /\ closing' = closing \ {k}
    /\ Set(k, [kernel[k] EXCEPT !.proc = FALSE, !.status = "dead",
                 !.worker = IF @ = "none" THEN @ ELSE "ended"])
    /\ meta' = [meta EXCEPT ![kernel[k].sid] = "none"]
    /\ UNCHANGED <<answered, faults, session, requestVars, victim>>

-----------------------------------------------------------------------------
(* ensure, under its lock, and what the caller does with the kernel it gets. *)

Holds(r, s) == lock # <<>> /\ Head(lock) = r /\ stage[r] = s

\* The lock goes to the next waiter. execute enqueues the cell, or reports an error
\* for a kernel that is missing or dead; restart enqueues; open is done.
Got(r, k, row) ==
    /\ StageOf(r, "done")
    /\ lock' = Tail(lock)
    /\ LET missing == k = 0 \/ row.status = "dead"
           item == IF Kind(r) = "restart" THEN Plain("restart")
                   ELSE [kind |-> "execute", req |-> r] IN
         /\ answered' = IF Kind(r) = "execute" /\ missing THEN answered \cup {r} ELSE answered
         /\ IF \/ Kind(r) = "execute" /\ ~ missing
               \/ Kind(r) = "restart" /\ k # 0
            THEN Set(k, [row EXCEPT !.queue = Append(@, item)])
            ELSE IF k # 0 THEN Set(k, row) ELSE UNCHANGED kernel

\* Mutant: a busy kernel is not taken for a live one.
RegisteredIdle(s) == session[s] # 0 /\ kernel[session[s]].status \in {"idle", "starting"}

Registered(s) == session[s] # 0 /\ kernel[session[s]].status # "dead"

EnsureFinds(r) ==
    /\ Holds(r, "lock")
    /\ Registered(Sid(r))
    /\ Got(r, session[Sid(r)], kernel[session[Sid(r)]])
    /\ UNCHANGED <<meta, faults, session, request, ops, closing, victim>>

\* A dead session leaves the table, its process untouched; without workspace_id in
\* the hash there is no new one.
EnsureRefuses(r) ==
    /\ Holds(r, "lock")
    /\ ~ Registered(Sid(r))
    /\ meta[Sid(r)] # "full"
    /\ session' = [session EXCEPT ![Sid(r)] = 0]
    /\ Got(r, 0, Unused)
    /\ UNCHANGED <<meta, faults, request, ops, closing, victim>>

Others(s) == {t \in SessionIds \ {s} : session[t] # 0}

Evictable(s) == {t \in Others(s) : kernel[session[t]].status # "busy"}

\* _evict_idle, at the limit: a session that is not busy, whatever its queue holds
Evict(r) ==
    /\ Holds(r, "lock")
    /\ LET s == Sid(r) IN
         /\ ~ Registered(s) /\ meta[s] = "full"
         /\ Cardinality(Others(s)) >= MaxSessions
         /\ \E t \in Evictable(s) :
              /\ Stopping(session[t])
              /\ victim' = session[t]
              /\ session' = [session EXCEPT ![s] = 0, ![t] = 0]
    /\ StageOf(r, "evicting")
    /\ UNCHANGED <<meta, answered, faults, request, ops, lock>>

FreeKernel == {k \in Kernel : kernel[k].sid = Nobody}

\* The session is in the table before its process exists.
BeginStart(r) ==
    /\ LET s == Sid(r) IN
         \/ /\ Holds(r, "lock")
            /\ ~ Registered(s) /\ meta[s] = "full"
            /\ Cardinality(Others(s)) >= MaxSessions => Evictable(s) = {}
         \/ Holds(r, "evicting") /\ victim \notin closing
    /\ LET k == CHOOSE k \in FreeKernel : TRUE IN
         /\ session' = [session EXCEPT ![Sid(r)] = k]
         /\ Set(k, [Unused EXCEPT !.sid = Sid(r)])
    /\ StageOf(r, "starting")
    /\ victim' = 0
    /\ UNCHANGED <<meta, answered, faults, request, ops, lock, closing>>

Starting(r) == CHOOSE k \in Kernel : kernel[k].sid = Sid(r) /\ kernel[k].worker = "none"

\* sess.start returns: the worker task is made, even if the session was shut down
\* meanwhile.
StartEnds(r) ==
    /\ Holds(r, "starting")
    /\ LET k == Starting(r) IN
         Got(r, k, [kernel[k] EXCEPT !.proc = TRUE, !.worker = "connect"])
    /\ EmitStatus(Sid(r))
    /\ UNCHANGED <<faults, session, request, ops, closing, victim>>

\* Mutant: the exception leaves the lock taken.
StartFailsLocked(r) ==
    /\ Holds(r, "starting") /\ Fault
    /\ session' = [session EXCEPT ![Sid(r)] = 0]
    /\ StageOf(r, "done")
    /\ answered' = IF Kind(r) = "execute" THEN answered \cup {r} ELSE answered
    /\ Set(Starting(r), [kernel[Starting(r)] EXCEPT !.worker = "ended", !.status = "dead"])
    /\ UNCHANGED <<meta, request, ops, lock, closing, victim>>

StartFails(r) ==
    /\ Holds(r, "starting") /\ Fault
    /\ session' = [session EXCEPT ![Sid(r)] = 0]
    /\ StageOf(r, "done")
    /\ lock' = Tail(lock)
    /\ answered' = IF Kind(r) = "execute" THEN answered \cup {r} ELSE answered
    /\ Set(Starting(r), [kernel[Starting(r)] EXCEPT !.worker = "ended", !.status = "dead"])
    /\ UNCHANGED <<meta, request, ops, closing, victim>>

\* _refresh_all_envs: a secret was changed
RefreshEnvs ==
    /\ Fault
    /\ \E s \in SessionIds : session[s] # 0
    /\ kernel' = [k \in Kernel |-> IF \E s \in SessionIds : session[s] = k
                                   THEN Put(k, Plain("restart")) ELSE kernel[k]]
    /\ UNCHANGED <<meta, answered, session, requestVars, closing, victim>>

\* The kernel-worker dies with its kernels; Redis keeps the list and the hashes.
ProcessDies ==
    /\ Fault
    /\ kernel' = [k \in Kernel |-> IF kernel[k].sid = Nobody THEN Unused
                     ELSE [kernel[k] EXCEPT !.proc = FALSE, !.worker = "ended", !.status = "dead"]]
    /\ session' = [s \in SessionIds |-> 0]
    /\ stage' = [r \in Request |->
                   IF stage[r] \in {"lock", "evicting", "starting"} THEN "lost" ELSE stage[r]]
    /\ lock' = <<>>
    /\ closing' = {}
    /\ victim' = 0
    /\ UNCHANGED <<meta, answered, request, ops>>

-----------------------------------------------------------------------------
EnsureStep(r) ==
    EnsureFinds(r) \/ EnsureRefuses(r) \/ Evict(r) \/ BeginStart(r) \/ StartEnds(r)

ManagerStep ==
    \/ QueueAtLock \/ PopComplete \/ PopClose
    \/ \E r \in Request : EnsureStep(r)
    \/ \E k \in Kernel : CloseEnds(k)

ManagerNext ==
    \/ \E r \in Request, kind \in Kinds, s \in SessionIds : Call(r, kind, s)
    \/ ManagerStep
    \/ \E s \in SessionIds : Reap(s)
    \/ \E r \in Request : StartFails(r)
    \/ RefreshEnvs \/ ProcessDies

managerVars == <<session, requestVars, closing, victim>>

Next ==
    \/ ManagerNext
    \/ \E k \in Kernel : (WorkerStep(k) \/ WorkerFault(k)) /\ UNCHANGED managerVars

Spec == Init /\ [][Next]_vars

\* The event loop serves every task; a cell ends, if only by kernel_exec_timeout_s.
Fairness ==
    /\ WF_vars(QueueAtLock \/ PopComplete \/ PopClose)
    /\ \A r \in Request : WF_vars(EnsureStep(r))
    /\ \A k \in Kernel : WF_vars(CloseEnds(k))
    /\ \A k \in Kernel : WF_vars(WorkerStep(k) /\ UNCHANGED managerVars)

FairSpec == Spec /\ Fairness
=============================================================================
