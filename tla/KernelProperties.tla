---------------------------- MODULE KernelProperties ----------------------------
(* What the interactive kernels promise, and what they do not. *)
EXTENDS KernelManager

IsCell(k, i) == i \in DOMAIN kernel[k].queue /\ kernel[k].queue[i].kind = "execute"

\* Requests for session s that have not reached a kernel yet.
Ahead(s) ==
    {r \in Request : stage[r] \in {"queued", "lock", "evicting", "starting"}
                        /\ Kind(r) = "execute" /\ Sid(r) = s}

\* The cells of a session reach its kernel in the order in which they were submitted,
\* although every operation is popped into a task of its own: the lock of ensure wakes
\* its waiters in order, and a cell is enqueued before its task can be suspended again.
CellsInOrder ==
    \A k \in Kernel : \A i \in DOMAIN kernel[k].queue : IsCell(k, i) =>
        LET cell == kernel[k].queue[i].req IN
          /\ kernel[k].item < cell
          /\ \A j \in DOMAIN kernel[k].queue :
                IsCell(k, j) /\ i < j => cell < kernel[k].queue[j].req
          /\ \A s \in SessionIds : session[s] = k => \A r \in Ahead(s) : cell < r

Running(k) == kernel[k].worker = "cell"

\* Two cells of one session run at the same time only while the kernel of one of them
\* is being shut down, if nothing fails.
SerialUnlessClosing ==
    faults = 0 =>
        \A j, k \in Kernel :
            Running(j) /\ Running(k) /\ kernel[j].sid = kernel[k].sid /\ j # k
                => j \in closing \/ k \in closing

\* session.py: a kernel session is one process and one serial queue of cells.
SerialPerSession ==
    \A j, k \in Kernel :
        Running(j) /\ Running(k) /\ kernel[j].sid = kernel[k].sid => j = k

\* The cell sits in a kernel whose worker has ended, or its task died with the process.
Lost(r) ==
    \/ stage[r] = "lost"
    \/ \E k \in Kernel :
         /\ kernel[k].worker = "ended"
         /\ kernel[k].item = r \/ \E i \in DOMAIN kernel[k].queue : kernel[k].queue[i].req = r

\* Every cell that was accepted is answered by cell.finished, unless the kernel it was
\* given to ended first: no lock, eviction, restart or failed start swallows it.
CellAnswered ==
    \A r \in Request :
        stage[r] = "queued" /\ Kind(r) = "execute" ~> (r \in answered \/ Lost(r))
=============================================================================
