------------------------------ MODULE KernelProofs ------------------------------
(***************************************************************************)
(* Theorems about the interactive kernels, for every number of requests,   *)
(* sessions and failures: the model is well typed, cells reach a kernel in *)
(* the order in which they were submitted, and while nothing fails the     *)
(* cells of one session run one at a time unless a kernel is shut down.    *)
(***************************************************************************)
EXTENDS KernelProperties, FiniteSetTheorems, TLAPS

-----------------------------------------------------------------------------
(* The line of requests: the waiters of the lock, then the list. *)

AtLock == {"lock", "evicting", "starting"}

NeedsKernel == {"open", "execute", "restart"}

\* A request that has a stage was stored with its kind and its session.
Stored == \A r \in Request : stage[r] # "new" => Kind(r) \in Kinds /\ Sid(r) \in SessionIds

\* ops holds the queued requests.
OpsQueued ==
    /\ \A i \in DOMAIN ops : stage[ops[i]] = "queued"
    /\ \A r \in Request : stage[r] = "queued" => \E i \in DOMAIN ops : ops[i] = r

\* lock holds those whose task is in ensure; only the first is past its entry.
LockHeld ==
    /\ \A i \in DOMAIN lock :
          /\ stage[lock[i]] \in AtLock
          /\ Kind(lock[i]) \in NeedsKernel
          /\ i # 1 => stage[lock[i]] = "lock"
    /\ \A r \in Request : stage[r] \in AtLock => \E i \in DOMAIN lock : lock[i] = r

Increasing(s) == \A i, j \in DOMAIN s : i < j => s[i] < s[j]

Below(s, r) == \A i \in DOMAIN s : s[i] < r

\* Nobody overtakes in it.
InLine ==
    /\ Increasing(lock)
    /\ Increasing(ops)
    /\ \A i \in DOMAIN ops : Below(lock, ops[i])
    /\ \A r \in Request : stage[r] = "new" => Below(lock, r) /\ Below(ops, r)

-----------------------------------------------------------------------------
(* The kernels. *)

Used == {k \in Kernel : kernel[k].sid # Nobody}

\* Requests that may have started a kernel.
Starters == {r \in Request : stage[r] \in {"starting", "done", "lost"}}

\* Each start of a kernel has a request of its own.
Counted == Cardinality(Used) <= Cardinality(Starters)

NoCell(q) == \A i \in DOMAIN q : q[i].kind # "execute"

RowOk(row) ==
    /\ row.sid = Nobody => row = Unused
    /\ row.worker = "cell" => row.item \in Request
    /\ row.worker = "none" => NoCell(row.queue)

RowsOk == \A k \in Kernel : RowOk(kernel[k])

\* A kernel whose worker task is not made yet.
Begun == {k \in Kernel : kernel[k].sid # Nobody /\ kernel[k].worker = "none"}

LockStarts == lock # <<>> /\ stage[Head(lock)] = "starting"

\* There is one while the holder of the lock starts it, and no other.
OneStarts ==
    /\ LockStarts => \E k \in Begun : kernel[k].sid = Sid(Head(lock))
    /\ \A k \in Begun : LockStarts /\ kernel[k].sid = Sid(Head(lock))
    /\ \A j, k \in Begun : j = k

\* The table and the set of closing kernels share nothing.
Tables ==
    /\ \A s \in SessionIds : session[s] # 0 =>
          kernel[session[s]].sid = s /\ session[s] \notin closing
    /\ closing \subseteq Used

-----------------------------------------------------------------------------
(* The order of cells. *)

\* The cells of a kernel were submitted one after the other, after the one it runs.
RowInOrder(row) ==
    \A i \in DOMAIN row.queue : row.queue[i].kind = "execute" =>
        /\ row.item < row.queue[i].req
        /\ \A j \in DOMAIN row.queue :
              row.queue[j].kind = "execute" /\ i < j => row.queue[i].req < row.queue[j].req

\* All were submitted before r.
RowBelow(row, r) ==
    /\ row.item < r
    /\ \A i \in DOMAIN row.queue : row.queue[i].kind = "execute" => row.queue[i].req < r

Waits(r) == stage[r] \in {"new", "queued"} \cup AtLock

CellsAhead ==
    \A k \in Kernel :
        /\ RowInOrder(kernel[k])
        /\ \A r \in Request : Waits(r) => RowBelow(kernel[k], r)

-----------------------------------------------------------------------------
(* While nothing fails. *)

\* A kernel that is in no table gets no cell any more.
Idle(row) ==
    \/ row.worker = "ended"
    \/ row.worker # "cell" /\ NoCell(row.queue) /\ (row.worker = "none" => row.status = "dead")

Serial ==
    faults = 0 =>
        /\ \A s \in SessionIds : session[s] # 0 => kernel[session[s]].status # "dead"
        /\ \A k \in Used : session[kernel[k].sid] = k \/ k \in closing \/ Idle(kernel[k])
        /\ \A r \in Request : stage[r] = "evicting" => session[Sid(r)] = 0

Line == Stored /\ OpsQueued /\ LockHeld /\ InLine

KernelInv == TypeOK /\ Line /\ Counted /\ RowsOk /\ OneStarts /\ Tables

-----------------------------------------------------------------------------
(* Sequences *)

LEMMA TailFacts ==
    ASSUME NEW S, NEW s \in Seq(S), s # <<>>
    PROVE  /\ Tail(s) \in Seq(S)
           /\ Head(s) \in S
           /\ Head(s) = s[1]
           /\ 1 \in DOMAIN s
           /\ DOMAIN s \subseteq Nat
           /\ \A i \in DOMAIN Tail(s) : i + 1 \in DOMAIN s /\ i >= 1 /\ Tail(s)[i] = s[i + 1]
           /\ \A i \in DOMAIN s : i # 1 => i > 1 /\ i - 1 \in DOMAIN Tail(s) /\ Tail(s)[i - 1] = s[i]
  OBVIOUS

LEMMA AppendFacts ==
    ASSUME NEW S, NEW s \in Seq(S), NEW x \in S
    PROVE  /\ Append(s, x) \in Seq(S)
           /\ \A i \in DOMAIN Append(s, x) :
                 \/ i \in DOMAIN s /\ Append(s, x)[i] = s[i]
                 \/ i = Len(s) + 1 /\ Append(s, x)[i] = x
           /\ \A i \in DOMAIN s : i \in 1..Len(s) /\ i \in DOMAIN Append(s, x) /\ Append(s, x)[i] = s[i]
           /\ Len(s) + 1 \in DOMAIN Append(s, x)
           /\ Append(s, x)[Len(s) + 1] = x
           /\ Len(s) \in Nat
  OBVIOUS

\* What a kernel's worker does to its row: it leaves the queue alone, or takes the head.
RowMoves(old, new) ==
    /\ new.sid = old.sid
    /\ old.worker \notin {"none", "ended"}
    /\ new.worker # "none"
    /\ \/ /\ new.queue = old.queue
          /\ new.item \in {old.item, 0}
          /\ new.worker # "cell"
       \/ /\ old.queue # <<>> /\ new.queue = Tail(old.queue)
          /\ Head(old.queue).kind # "execute"
          /\ new.item = old.item
          /\ new.worker # "cell"
       \/ /\ old.queue # <<>> /\ new.queue = Tail(old.queue)
          /\ Head(old.queue).kind = "execute"
          /\ new.item = Head(old.queue).req
          /\ new.worker = "cell"

LEMMA SetRow ==
    ASSUME TypeOK, NEW k \in Kernel, NEW row \in KernelRow, Set(k, row)
    PROVE  /\ kernel' \in [Kernel -> KernelRow]
           /\ kernel' = [kernel EXCEPT ![k] = kernel'[k]]
           /\ kernel'[k] = row
           /\ \A j \in Kernel \ {k} : kernel'[j] = kernel[j]
  BY DEF TypeOK, SessionTypeOK, Set

LEMMA EmitType ==
    ASSUME TypeOK, NEW s, EmitStatus(s) \/ UNCHANGED meta
    PROVE  meta' \in [SessionIds -> {"none", "partial", "full"}]
  BY DEF TypeOK, SessionTypeOK, EmitStatus

\* What a step of a worker does to the rest.
WorkerFrame ==
    /\ meta' \in [SessionIds -> {"none", "partial", "full"}]
    /\ answered' \subseteq Request
    /\ faults' \in 0..MaxFaults
    /\ faults' >= faults

\* A row that is worked on keeps to its type, and dies only by a failure.
LEMMA WorkerRow ==
    ASSUME TypeOK, NEW k \in Kernel, kernel[k].worker = "cell" => kernel[k].item \in Request,
           WorkerStep(k) \/ WorkerFault(k)
    PROVE  /\ \E row \in KernelRow :
                /\ Set(k, row)
                /\ RowMoves(kernel[k], row)
                /\ row.status = "dead" => kernel[k].status = "dead" \/ faults' > 0
           /\ WorkerFrame
<1> DEFINE old == kernel[k]
           Does(row) == Set(k, row) /\ RowMoves(old, row)
                        /\ (row.status = "dead" => old.status = "dead" \/ faults' > 0)
<1>1. /\ old \in KernelRow /\ faults \in Nat /\ faults \in 0..MaxFaults
      /\ MaxFaults \in Nat /\ answered \subseteq Request
      /\ old.worker = "cell" => old.item \in Request
  BY KernelAssumption DEF TypeOK, SessionTypeOK
<1>2. old.queue \in Seq(Item)
  BY <1>1 DEF KernelRow
<1>3. ASSUME old.queue # <<>>
      PROVE  /\ Tail(old.queue) \in Seq(Item)
             /\ Head(old.queue).kind \in {"execute", "complete"} => Head(old.queue).req \in Request
  <2>1. Tail(old.queue) \in Seq(Item) /\ Head(old.queue) \in Item
    BY <1>2, <1>3, TailFacts
  <2> QED
    BY <2>1 DEF Item
<1>4. ASSUME EmitStatus(old.sid) \/ UNCHANGED meta
      PROVE  meta' \in [SessionIds -> {"none", "partial", "full"}]
  BY <1>4, EmitType
<1> HIDE DEF old
<1>5. CASE Connect(k)
  <2> DEFINE new == [old EXCEPT !.status = "idle", !.worker = "wait"]
  <2>1. new \in KernelRow /\ RowMoves(old, new)
    BY <1>1, <1>2, <1>3, <1>5 DEF Connect, KernelRow, RowMoves, old
  <2>2. Set(k, new) /\ WorkerFrame /\ (new.status = "dead" => old.status = "dead" \/ faults' > 0)
    BY <1>1, <1>3, <1>4, <1>5 DEF Connect, KernelRow, WorkerFrame, old
  <2> HIDE DEF new
  <2> QED
    BY <2>1, <2>2 DEF old
<1>6. CASE TakeStop(k)
  <2> DEFINE new == [old EXCEPT !.queue = Tail(@), !.worker = "ended"]
  <2>1. new \in KernelRow /\ RowMoves(old, new)
    BY <1>1, <1>2, <1>3, <1>6 DEF TakeStop, HeadIs, KernelRow, RowMoves, old
  <2>2. Set(k, new) /\ WorkerFrame /\ (new.status = "dead" => old.status = "dead" \/ faults' > 0)
    BY <1>1, <1>3, <1>4, <1>6 DEF TakeStop, HeadIs, KernelRow, WorkerFrame, old
  <2> HIDE DEF new
  <2> QED
    BY <2>1, <2>2 DEF old
<1>7. CASE TakeRestart(k)
  <2> DEFINE new == [old EXCEPT !.queue = Tail(@), !.worker = "restart"]
  <2>1. new \in KernelRow /\ RowMoves(old, new)
    BY <1>1, <1>2, <1>3, <1>7 DEF TakeRestart, HeadIs, KernelRow, RowMoves, old
  <2>2. Set(k, new) /\ WorkerFrame /\ (new.status = "dead" => old.status = "dead" \/ faults' > 0)
    BY <1>1, <1>3, <1>4, <1>7 DEF TakeRestart, HeadIs, KernelRow, WorkerFrame, old
  <2> HIDE DEF new
  <2> QED
    BY <2>1, <2>2 DEF old
<1>8. CASE Restarted(k)
  <2> DEFINE new == [old EXCEPT !.status = "idle", !.worker = "wait"]
  <2>1. new \in KernelRow /\ RowMoves(old, new)
    BY <1>1, <1>2, <1>3, <1>8 DEF Restarted, KernelRow, RowMoves, old
  <2>2. Set(k, new) /\ WorkerFrame /\ (new.status = "dead" => old.status = "dead" \/ faults' > 0)
    BY <1>1, <1>3, <1>4, <1>8 DEF Restarted, KernelRow, WorkerFrame, old
  <2> HIDE DEF new
  <2> QED
    BY <2>1, <2>2 DEF old
<1>9. CASE TakeComplete(k)
  <2> DEFINE new == [old EXCEPT !.queue = Tail(@)]
  <2>1. new \in KernelRow /\ RowMoves(old, new)
    BY <1>1, <1>2, <1>3, <1>9 DEF TakeComplete, HeadIs, KernelRow, RowMoves, old
  <2>2. Set(k, new) /\ WorkerFrame /\ (new.status = "dead" => old.status = "dead" \/ faults' > 0)
    BY <1>1, <1>3, <1>4, <1>9 DEF TakeComplete, HeadIs, KernelRow, WorkerFrame, old
  <2> HIDE DEF new
  <2> QED
    BY <2>1, <2>2 DEF old
<1>10. CASE TakeCell(k)
  <2> DEFINE new == [old EXCEPT !.queue = Tail(@), !.worker = "cell", !.status = "busy",
                                 !.item = Head(old.queue).req]
  <2>1. new \in KernelRow /\ RowMoves(old, new)
    BY <1>1, <1>2, <1>3, <1>10 DEF TakeCell, HeadIs, KernelRow, RowMoves, old
  <2>2. Set(k, new) /\ WorkerFrame /\ (new.status = "dead" => old.status = "dead" \/ faults' > 0)
    BY <1>1, <1>3, <1>4, <1>10 DEF TakeCell, HeadIs, KernelRow, WorkerFrame, old
  <2> HIDE DEF new
  <2> QED
    BY <2>1, <2>2 DEF old
<1>11. CASE CellEnds(k)
  <2> DEFINE new == [old EXCEPT !.worker = "wait", !.status = "idle", !.item = 0]
  <2>1. new \in KernelRow /\ RowMoves(old, new)
    BY <1>1, <1>2, <1>3, <1>11 DEF CellEnds, KernelRow, RowMoves, old
  <2>2. Set(k, new) /\ WorkerFrame /\ (new.status = "dead" => old.status = "dead" \/ faults' > 0)
    BY <1>1, <1>3, <1>4, <1>11 DEF CellEnds, KernelRow, WorkerFrame, old
  <2> HIDE DEF new
  <2> QED
    BY <2>1, <2>2 DEF old
<1>12. CASE ConnectFails(k)
  <2> DEFINE new == [old EXCEPT !.status = "dead", !.worker = "ended"]
  <2>1. new \in KernelRow /\ RowMoves(old, new)
    BY <1>1, <1>2, <1>3, <1>12 DEF ConnectFails, KernelRow, RowMoves, old
  <2>2. Set(k, new) /\ WorkerFrame /\ (new.status = "dead" => old.status = "dead" \/ faults' > 0)
    BY <1>1, <1>3, <1>4, <1>12 DEF ConnectFails, Fault, KernelRow, WorkerFrame, old
  <2> HIDE DEF new
  <2> QED
    BY <2>1, <2>2 DEF old
<1>13. CASE CellBreaks(k)
  <2> DEFINE new == [old EXCEPT !.worker = "ended", !.status = "dead"]
  <2>1. new \in KernelRow /\ RowMoves(old, new)
    BY <1>1, <1>2, <1>3, <1>13 DEF CellBreaks, KernelRow, RowMoves, old
  <2>2. Set(k, new) /\ WorkerFrame /\ (new.status = "dead" => old.status = "dead" \/ faults' > 0)
    BY <1>1, <1>3, <1>4, <1>13 DEF CellBreaks, Fault, KernelRow, WorkerFrame, old
  <2> HIDE DEF new
  <2> QED
    BY <2>1, <2>2 DEF old
<1>14. CASE RestartFails(k)
  <2> DEFINE quits == [old EXCEPT !.worker = "ended"]
             dies == [old EXCEPT !.status = "dead", !.worker = "wait"]
  <2>1. quits \in KernelRow /\ RowMoves(old, quits) /\ dies \in KernelRow /\ RowMoves(old, dies)
    BY <1>1, <1>2, <1>14 DEF RestartFails, KernelRow, RowMoves, old
  <2>2. (Set(k, quits) \/ Set(k, dies)) /\ WorkerFrame /\ faults' > 0
    BY <1>1, <1>4, <1>14 DEF RestartFails, Fault, WorkerFrame, old
  <2> HIDE DEF quits, dies
  <2> QED
    BY <2>1, <2>2 DEF old
<1> QED
  BY <1>5, <1>6, <1>7, <1>8, <1>9, <1>10, <1>11, <1>12, <1>13, <1>14 DEF WorkerStep, WorkerFault, old

-----------------------------------------------------------------------------
(* How the line moves. *)

LineType ==
    /\ request \in [Request -> [kind : Kinds \cup {"none"}, sid : SessionIds \cup {Nobody}]]
    /\ stage \in [Request -> Stages]
    /\ ops \in Seq(Request)
    /\ lock \in Seq(Request)

LEMMA RequestIsNat == Request \subseteq Nat /\ Kernel \subseteq Nat /\ 0 \notin Request /\ 0 \notin Kernel
  BY KernelAssumption DEF Request, Kernel

\* A call goes to the end.
Called(r, kind, s) ==
    /\ stage[r] = "new"
    /\ \A q \in Request : q < r => stage[q] # "new"
    /\ request' = [request EXCEPT ![r] = [kind |-> kind, sid |-> s]]
    /\ StageOf(r, "queued")
    /\ ops' = Append(ops, r)
    /\ UNCHANGED lock

\* The first of the list becomes the last waiter.
Waited ==
    /\ ops # <<>>
    /\ Kind(Head(ops)) \in NeedsKernel
    /\ StageOf(Head(ops), "lock")
    /\ lock' = Append(lock, Head(ops))
    /\ ops' = Tail(ops)
    /\ UNCHANGED request

\* It is served without the lock.
Popped ==
    /\ ops # <<>>
    /\ StageOf(Head(ops), "done")
    /\ ops' = Tail(ops)
    /\ UNCHANGED <<request, lock>>

\* The holder of the lock goes on under it.
Proceeds(st) ==
    /\ lock # <<>>
    /\ StageOf(Head(lock), st)
    /\ UNCHANGED <<request, ops, lock>>

\* It leaves.
Leaves ==
    /\ lock # <<>>
    /\ StageOf(Head(lock), "done")
    /\ lock' = Tail(lock)
    /\ UNCHANGED <<request, ops>>

LineDies ==
    /\ stage' = [r \in Request |-> IF stage[r] \in AtLock THEN "lost" ELSE stage[r]]
    /\ lock' = <<>>
    /\ UNCHANGED <<request, ops>>

LEMMA LineCalled ==
    ASSUME LineType, Line, NEW r \in Request, NEW kind \in Kinds, NEW s \in SessionIds,
           Called(r, kind, s)
    PROVE  LineType' /\ Line'
<1>1. /\ stage' = [stage EXCEPT ![r] = "queued"]
      /\ request' = [request EXCEPT ![r] = [kind |-> kind, sid |-> s]]
      /\ ops' = Append(ops, r) /\ lock' = lock /\ stage[r] = "new"
  BY DEF Called, StageOf
<1>2. LineType'
  <2>1. ops' \in Seq(Request)
    BY <1>1, AppendFacts DEF LineType
  <2> QED
    BY <1>1, <2>1 DEF LineType, Stages
<1>3. Stored'
  BY <1>1 DEF LineType, Line, Stored, Kind, Sid
<1>4. /\ \A i \in DOMAIN ops' : (i \in DOMAIN ops /\ ops'[i] = ops[i]) \/ (i = Len(ops) + 1 /\ ops'[i] = r)
      /\ \A i \in DOMAIN ops : i \in DOMAIN ops' /\ ops'[i] = ops[i]
      /\ Len(ops) + 1 \in DOMAIN ops' /\ ops'[Len(ops) + 1] = r
      /\ \A i \in DOMAIN ops : i \in 1..Len(ops) /\ ops[i] \in Request
      /\ Len(ops) \in Nat
  <2>1. ops \in Seq(Request)
    BY DEF LineType
  <2> QED
    BY <1>1, <2>1, AppendFacts
<1>5. OpsQueued'
  <2>1. ASSUME NEW i \in DOMAIN ops' PROVE stage'[ops'[i]] = "queued"
    BY <1>1, <1>4 DEF LineType, Line, OpsQueued
  <2>2. ASSUME NEW q \in Request, stage'[q] = "queued" PROVE \E i \in DOMAIN ops' : ops'[i] = q
    <3>1. CASE q = r
      BY <1>4, <3>1
    <3>2. CASE q # r
      <4>1. PICK i \in DOMAIN ops : ops[i] = q
        BY <1>1, <2>2, <3>2 DEF LineType, Line, OpsQueued
      <4> QED
        BY <1>4, <4>1
    <3> QED
      BY <3>1, <3>2
  <2> QED
    BY <2>1, <2>2 DEF OpsQueued
<1>6. \A i \in DOMAIN lock : lock[i] \in Request /\ lock[i] # r
  BY <1>1 DEF LineType, Line, LockHeld, AtLock
<1>7. LockHeld'
  BY <1>1, <1>6 DEF LineType, Line, LockHeld, AtLock, Kind
<1>8. Below(lock, r) /\ Below(ops, r)
  BY <1>1 DEF Line, InLine
<1>9. InLine'
  <2>1. Increasing(lock')
    BY <1>1 DEF Line, InLine
  <2>2. Increasing(ops')
    BY <1>4, <1>8, RequestIsNat DEF Line, InLine, Increasing, Below
  <2>3. \A i \in DOMAIN ops' : Below(lock', ops'[i])
    BY <1>1, <1>4, <1>8 DEF Line, InLine
  <2>4. ASSUME NEW q \in Request, stage'[q] = "new" PROVE Below(lock', q) /\ Below(ops', q)
    <3>1. stage[q] = "new" /\ r < q
      BY <1>1, <2>4, RequestIsNat DEF LineType, Called
    <3>2. Below(lock, q) /\ Below(ops, q)
      BY <3>1 DEF Line, InLine
    <3> QED
      BY <1>1, <1>4, <3>1, <3>2 DEF Below
  <2> QED
    BY <2>1, <2>2, <2>3, <2>4 DEF InLine
<1> QED
  BY <1>2, <1>3, <1>5, <1>7, <1>9 DEF Line

\* The head of the list is ahead of the others, and behind the waiters.
LEMMA OpsHead ==
    ASSUME LineType, Line, ops # <<>>
    PROVE  /\ Head(ops) \in Request /\ stage[Head(ops)] = "queued"
           /\ Below(lock, Head(ops))
           /\ Tail(ops) \in Seq(Request)
           /\ \A i \in DOMAIN Tail(ops) : /\ Head(ops) < Tail(ops)[i] /\ stage[Tail(ops)[i]] = "queued"
                                          /\ Tail(ops)[i] \in Request
           /\ \A i \in DOMAIN Tail(ops) : Below(lock, Tail(ops)[i])
           /\ Increasing(Tail(ops))
           /\ \A q \in Request \ {Head(ops)} : stage[q] = "queued" => \E i \in DOMAIN Tail(ops) : Tail(ops)[i] = q
           /\ \A q \in Request : stage[q] = "new" => Below(Tail(ops), q)
           /\ \A q \in Request : stage[q] = "new" => Head(ops) < q
<1>0. ops \in Seq(Request)
  BY DEF LineType
<1>1. /\ Head(ops) = ops[1] /\ 1 \in DOMAIN ops /\ Tail(ops) \in Seq(Request) /\ Head(ops) \in Request
      /\ \A i \in DOMAIN Tail(ops) : i + 1 \in DOMAIN ops /\ i >= 1 /\ Tail(ops)[i] = ops[i + 1]
      /\ \A i \in DOMAIN ops : i # 1 => i > 1 /\ i - 1 \in DOMAIN Tail(ops) /\ Tail(ops)[i - 1] = ops[i]
      /\ \A i \in DOMAIN Tail(ops) : i \in Nat /\ Tail(ops)[i] \in Request
  BY <1>0, TailFacts
<1>2. /\ \A i \in DOMAIN Tail(ops) : Head(ops) < Tail(ops)[i] /\ stage[Tail(ops)[i]] = "queued"
      /\ Increasing(Tail(ops))
  BY <1>1, RequestIsNat DEF Line, InLine, Increasing, OpsQueued
<1>3. ASSUME NEW q \in Request \ {Head(ops)}, stage[q] = "queued"
      PROVE  \E i \in DOMAIN Tail(ops) : Tail(ops)[i] = q
  <2>1. PICK i \in DOMAIN ops : ops[i] = q
    BY <1>3 DEF Line, OpsQueued
  <2> QED
    BY <1>1, <1>3, <2>1
<1>4. /\ \A q \in Request : stage[q] = "new" => Below(Tail(ops), q) /\ Head(ops) < q
      /\ Below(lock, Head(ops)) /\ stage[Head(ops)] = "queued"
      /\ \A i \in DOMAIN Tail(ops) : Below(lock, Tail(ops)[i])
  BY <1>1 DEF Line, InLine, Below, OpsQueued
<1> QED
  BY <1>1, <1>2, <1>3, <1>4

LEMMA LineWaited ==
    ASSUME LineType, Line, Waited
    PROVE  LineType' /\ Line'
<1> DEFINE h == Head(ops)
<1>1. /\ stage' = [stage EXCEPT ![h] = "lock"] /\ request' = request /\ Kind(h) \in NeedsKernel
      /\ ops' = Tail(ops) /\ lock' = Append(lock, h) /\ ops # <<>>
  BY DEF Waited, StageOf
<1>2. /\ h \in Request /\ stage[h] = "queued"
      /\ Below(lock, h)
      /\ ops' \in Seq(Request)
      /\ \A i \in DOMAIN ops' : h < ops'[i] /\ stage[ops'[i]] = "queued" /\ ops'[i] \in Request
      /\ \A i \in DOMAIN ops' : Below(lock, ops'[i])
      /\ Increasing(ops')
      /\ \A q \in Request \ {h} : stage[q] = "queued" => \E i \in DOMAIN ops' : ops'[i] = q
      /\ \A q \in Request : stage[q] = "new" => Below(ops', q) /\ h < q
  BY <1>1, OpsHead
<1> HIDE DEF h
<1>3. /\ lock' \in Seq(Request)
      /\ \A i \in DOMAIN lock' : (i \in DOMAIN lock /\ lock'[i] = lock[i]) \/ (i = Len(lock) + 1 /\ lock'[i] = h)
      /\ \A i \in DOMAIN lock : i \in DOMAIN lock' /\ lock'[i] = lock[i]
      /\ Len(lock) + 1 \in DOMAIN lock' /\ lock'[Len(lock) + 1] = h
      /\ \A i \in DOMAIN lock : i \in 1..Len(lock) /\ lock[i] \in Request
      /\ Len(lock) \in Nat
  <2>1. lock \in Seq(Request)
    BY DEF LineType
  <2> QED
    BY <1>1, <1>2, <2>1, AppendFacts
<1>4. LineType'
  BY <1>1, <1>2, <1>3 DEF LineType, Stages
<1>5. Stored'
  BY <1>1, <1>2 DEF LineType, Line, Stored, Kind, Sid
<1>6. \A i \in DOMAIN ops' : ops'[i] # h
  BY <1>2, RequestIsNat
<1>7. OpsQueued'
  BY <1>1, <1>2, <1>6 DEF LineType, OpsQueued
<1>8. LockHeld'
  <2>1. ASSUME NEW i \in DOMAIN lock'
        PROVE  stage'[lock'[i]] \in AtLock /\ request'[lock'[i]].kind \in NeedsKernel
               /\ (i # 1 => stage'[lock'[i]] = "lock")
    <3>1. CASE i = Len(lock) + 1 /\ lock'[i] = h
      BY <1>1, <1>2, <3>1 DEF LineType, AtLock, Kind
    <3>2. CASE i \in DOMAIN lock /\ lock'[i] = lock[i]
      <4>1. lock[i] # h
        BY <1>2, <3>2 DEF Line, LockHeld, AtLock
      <4> QED
        BY <1>1, <3>2, <4>1, <1>3 DEF LineType, Line, LockHeld, Kind
    <3> QED
      BY <1>3, <2>1, <3>1, <3>2
  <2>2. ASSUME NEW q \in Request, stage'[q] \in AtLock PROVE \E i \in DOMAIN lock' : lock'[i] = q
    <3>1. CASE q = h
      BY <1>3, <3>1
    <3>2. CASE q # h
      <4>1. PICK i \in DOMAIN lock : lock[i] = q
        BY <1>1, <2>2, <3>2 DEF LineType, Line, LockHeld
      <4> QED
        BY <1>3, <4>1
    <3> QED
      BY <3>1, <3>2
  <2> QED
    BY <2>1, <2>2 DEF LockHeld, Kind
<1>9. InLine'
  <2>1. Increasing(lock')
    BY <1>2, <1>3, RequestIsNat DEF Line, InLine, Increasing, Below
  <2>2. ASSUME NEW i \in DOMAIN ops' PROVE Below(lock', ops'[i])
    BY <1>2, <1>3 DEF Below
  <2>3. ASSUME NEW q \in Request, stage'[q] = "new" PROVE Below(lock', q) /\ Below(ops', q)
    <3>1. stage[q] = "new"
      BY <1>1, <1>2, <2>3 DEF LineType
    <3>2. Below(lock, q)
      BY <3>1 DEF Line, InLine
    <3> QED
      BY <1>2, <1>3, <3>1, <3>2 DEF Below
  <2> QED
    BY <1>2, <2>1, <2>2, <2>3 DEF InLine
<1> QED
  BY <1>4, <1>5, <1>7, <1>8, <1>9 DEF Line

LEMMA LinePopped ==
    ASSUME LineType, Line, Popped
    PROVE  LineType' /\ Line'
<1> DEFINE h == Head(ops)
<1>1. /\ stage' = [stage EXCEPT ![h] = "done"] /\ request' = request
      /\ ops' = Tail(ops) /\ lock' = lock /\ ops # <<>>
  BY DEF Popped, StageOf
<1>2. /\ h \in Request /\ stage[h] = "queued"
      /\ ops' \in Seq(Request)
      /\ \A i \in DOMAIN ops' : h < ops'[i] /\ stage[ops'[i]] = "queued" /\ ops'[i] \in Request
      /\ \A i \in DOMAIN ops' : Below(lock, ops'[i])
      /\ Increasing(ops')
      /\ \A q \in Request \ {h} : stage[q] = "queued" => \E i \in DOMAIN ops' : ops'[i] = q
      /\ \A q \in Request : stage[q] = "new" => Below(ops', q)
  BY <1>1, OpsHead
<1> HIDE DEF h
<1>3. LineType'
  BY <1>1, <1>2 DEF LineType, Stages
<1>4. Stored'
  BY <1>1, <1>2 DEF LineType, Line, Stored, Kind, Sid
<1>5. \A i \in DOMAIN ops' : ops'[i] # h
  BY <1>2, RequestIsNat
<1>6. OpsQueued'
  BY <1>1, <1>2, <1>5 DEF LineType, OpsQueued
<1>7. \A i \in DOMAIN lock : lock[i] \in Request /\ lock[i] # h
  BY <1>2 DEF LineType, Line, LockHeld, AtLock
<1>8. LockHeld'
  BY <1>1, <1>2, <1>7 DEF LineType, Line, LockHeld, AtLock, Kind
<1>9. InLine'
  BY <1>1, <1>2 DEF LineType, Line, InLine
<1> QED
  BY <1>3, <1>4, <1>6, <1>8, <1>9 DEF Line

\* The holder of the lock is ahead of every request that still waits.
LEMMA LockHead ==
    ASSUME LineType, Line, lock # <<>>
    PROVE  /\ Head(lock) \in Request /\ stage[Head(lock)] \in AtLock
           /\ Kind(Head(lock)) \in NeedsKernel /\ Sid(Head(lock)) \in SessionIds
           /\ Head(lock) = lock[1] /\ 1 \in DOMAIN lock
           /\ Tail(lock) \in Seq(Request)
           /\ \A i \in DOMAIN Tail(lock) :
                 /\ Head(lock) < Tail(lock)[i] /\ stage[Tail(lock)[i]] = "lock"
                 /\ Tail(lock)[i] \in Request /\ Kind(Tail(lock)[i]) \in NeedsKernel
           /\ Increasing(Tail(lock))
           /\ \A q \in Request \ {Head(lock)} :
                 stage[q] \in AtLock => \E i \in DOMAIN Tail(lock) : Tail(lock)[i] = q
           /\ \A q \in Request : Below(lock, q) => Below(Tail(lock), q)
           /\ \A q \in Request \ {Head(lock)} : Waits(q) => Head(lock) < q
<1>0. lock \in Seq(Request)
  BY DEF LineType
<1>1. /\ Head(lock) = lock[1] /\ 1 \in DOMAIN lock /\ Tail(lock) \in Seq(Request) /\ Head(lock) \in Request
      /\ \A i \in DOMAIN Tail(lock) : i + 1 \in DOMAIN lock /\ i >= 1 /\ Tail(lock)[i] = lock[i + 1]
      /\ \A i \in DOMAIN lock : i # 1 => i > 1 /\ i - 1 \in DOMAIN Tail(lock) /\ Tail(lock)[i - 1] = lock[i]
      /\ \A i \in DOMAIN Tail(lock) : i \in Nat /\ Tail(lock)[i] \in Request
  BY <1>0, TailFacts
<1>2. /\ \A i \in DOMAIN Tail(lock) :
            /\ Head(lock) < Tail(lock)[i] /\ stage[Tail(lock)[i]] = "lock"
            /\ Kind(Tail(lock)[i]) \in NeedsKernel
      /\ Increasing(Tail(lock))
  <2>1. ASSUME NEW i \in DOMAIN Tail(lock)
        PROVE  i + 1 \in DOMAIN lock /\ i + 1 # 1 /\ 1 < i + 1 /\ Tail(lock)[i] = lock[i + 1]
    BY <1>1
  <2> QED
    BY <1>1, <2>1, RequestIsNat DEF Line, InLine, Increasing, LockHeld
<1>3. ASSUME NEW q \in Request \ {Head(lock)}, stage[q] \in AtLock
      PROVE  \E i \in DOMAIN Tail(lock) : Tail(lock)[i] = q
  <2>1. PICK i \in DOMAIN lock : lock[i] = q
    BY <1>3 DEF Line, LockHeld
  <2> QED
    BY <1>1, <1>3, <2>1
<1>4. stage[Head(lock)] \in AtLock /\ Kind(Head(lock)) \in NeedsKernel
  BY <1>1 DEF Line, LockHeld
<1>5. Sid(Head(lock)) \in SessionIds
  BY <1>1, <1>4 DEF Line, Stored, AtLock
<1>6. \A q \in Request : Below(lock, q) => Below(Tail(lock), q)
  BY <1>1 DEF Below
<1>7. ASSUME NEW q \in Request \ {Head(lock)}, Waits(q) PROVE Head(lock) < q
  <2>1. CASE stage[q] = "new"
    BY <1>1, <2>1 DEF Line, InLine, Below
  <2>2. CASE stage[q] = "queued"
    BY <1>1, <2>2 DEF Line, InLine, Below, OpsQueued
  <2>3. CASE stage[q] \in AtLock
    BY <1>2, <1>3, <2>3
  <2> QED
    BY <1>7, <2>1, <2>2, <2>3 DEF Waits
<1> QED
  BY <1>1, <1>2, <1>3, <1>4, <1>5, <1>6, <1>7

LEMMA LineProceeds ==
    ASSUME LineType, Line, NEW st \in AtLock, Proceeds(st)
    PROVE  LineType' /\ Line'
<1> DEFINE h == Head(lock)
<1>1. /\ stage' = [stage EXCEPT ![h] = st] /\ request' = request
      /\ ops' = ops /\ lock' = lock /\ lock # <<>>
  BY DEF Proceeds, StageOf
<1>2. /\ h \in Request /\ stage[h] \in AtLock /\ lock[1] = h /\ 1 \in DOMAIN lock
      /\ \A i \in DOMAIN lock : lock[i] \in Request
      /\ \A i \in DOMAIN ops : ops[i] \in Request
  BY <1>1, LockHead DEF LineType
<1> HIDE DEF h
<1>3. ASSUME NEW i \in DOMAIN lock, i # 1 PROVE lock[i] # h
  <2>1. lock \in Seq(Request)
    BY DEF LineType
  <2>2. 1 < i
    BY <1>3, <2>1
  <2>3. lock[1] < lock[i]
    BY <1>2, <2>2 DEF Line, InLine, Increasing
  <2>4. h \in Nat /\ lock[i] \in Nat /\ h < lock[i]
    BY <1>2, <2>3, RequestIsNat
  <2> QED
    BY <2>4
<1>4. \A i \in DOMAIN ops : ops[i] # h
  BY <1>2 DEF Line, OpsQueued, AtLock
<1>5. LineType'
  BY <1>1, <1>2 DEF LineType, Stages, AtLock
<1>6. Stored'
  BY <1>1, <1>2 DEF LineType, Line, Stored, Kind, Sid, AtLock
<1>7. OpsQueued'
  BY <1>1, <1>2, <1>4 DEF LineType, Line, OpsQueued, AtLock
<1>8. LockHeld'
  BY <1>1, <1>2, <1>3 DEF LineType, Line, LockHeld, Kind
<1>9. InLine'
  BY <1>1, <1>2 DEF LineType, Line, InLine, AtLock
<1> QED
  BY <1>5, <1>6, <1>7, <1>8, <1>9 DEF Line

LEMMA LineLeaves ==
    ASSUME LineType, Line, Leaves
    PROVE  LineType' /\ Line'
<1> DEFINE h == Head(lock)
<1>1. /\ stage' = [stage EXCEPT ![h] = "done"] /\ request' = request
      /\ ops' = ops /\ lock' = Tail(lock) /\ lock # <<>>
  BY DEF Leaves, StageOf
<1>2. /\ h \in Request /\ stage[h] \in AtLock
      /\ lock' \in Seq(Request)
      /\ \A i \in DOMAIN lock' :
            /\ h < lock'[i] /\ stage[lock'[i]] = "lock"
            /\ lock'[i] \in Request /\ Kind(lock'[i]) \in NeedsKernel
      /\ Increasing(lock')
      /\ \A q \in Request \ {h} : stage[q] \in AtLock => \E i \in DOMAIN lock' : lock'[i] = q
      /\ \A q \in Request : Below(lock, q) => Below(lock', q)
      /\ \A i \in DOMAIN ops : ops[i] \in Request
  BY <1>1, LockHead DEF LineType
<1> HIDE DEF h
<1>3. \A i \in DOMAIN lock' : lock'[i] # h
  BY <1>2, RequestIsNat
<1>4. \A i \in DOMAIN ops : ops[i] # h
  BY <1>2 DEF Line, OpsQueued, AtLock
<1>5. LineType'
  BY <1>1, <1>2 DEF LineType, Stages
<1>6. Stored'
  BY <1>1, <1>2 DEF LineType, Line, Stored, Kind, Sid, AtLock
<1>7. OpsQueued'
  BY <1>1, <1>2, <1>4 DEF LineType, Line, OpsQueued
<1>8. LockHeld'
  BY <1>1, <1>2, <1>3 DEF LineType, LockHeld, Kind, AtLock
<1>9. InLine'
  BY <1>1, <1>2 DEF LineType, Line, InLine, AtLock
<1> QED
  BY <1>5, <1>6, <1>7, <1>8, <1>9 DEF Line

LEMMA LineDead ==
    ASSUME LineType, Line, LineDies
    PROVE  LineType' /\ Line'
<1>1. /\ \A r \in Request : stage'[r] = IF stage[r] \in AtLock THEN "lost" ELSE stage[r]
      /\ request' = request /\ ops' = ops /\ lock' = <<>>
      /\ \A i \in DOMAIN ops : ops[i] \in Request
  BY DEF LineDies, LineType
<1>2. LineType'
  BY <1>1 DEF LineType, LineDies, Stages
<1>3. DOMAIN lock' = {}
  BY <1>1
<1>4. Stored'
  BY <1>1 DEF Line, Stored, Kind, Sid, AtLock
<1>5. OpsQueued'
  BY <1>1 DEF Line, OpsQueued, AtLock
<1>6. LockHeld'
  BY <1>1, <1>3 DEF LockHeld, AtLock
<1>7. InLine'
  BY <1>1, <1>3 DEF Line, InLine, Increasing, Below, AtLock
<1> QED
  BY <1>2, <1>4, <1>5, <1>6, <1>7 DEF Line

LEMMA LineStays ==
    ASSUME LineType, Line, UNCHANGED requestVars
    PROVE  LineType' /\ Line'
  BY DEF LineType, Line, Stored, OpsQueued, LockHeld, InLine, requestVars, Kind, Sid

-----------------------------------------------------------------------------
(* The order of cells under a step. *)

\* Its cells stay as they are; something else may be put behind them.
RowQuiet(old, new) ==
    /\ new.item = old.item
    /\ \/ new.queue = old.queue
       \/ \E x \in Item : x.kind # "execute" /\ new.queue = Append(old.queue, x)

\* The cell of request r is put behind them.
RowGets(old, new, r) ==
    /\ new.item = old.item
    /\ new.queue = Append(old.queue, [kind |-> "execute", req |-> r])

LEMMA ItemFacts ==
    /\ \A row \in KernelRow : row.queue \in Seq(Item) /\ row.item \in Nat
    /\ \A x \in Item : x.kind \in {"execute", "complete"} => x.req \in Request /\ x.req \in Nat /\ x.req > 0
    /\ \A r \in Request : [kind |-> "execute", req |-> r] \in Item
    /\ \A r \in Request : [kind |-> "complete", req |-> r] \in Item
    /\ Plain("stop") \in Item /\ Plain("restart") \in Item
<1>1. \A r \in Request : r \in Nat /\ r > 0
  BY KernelAssumption DEF Request
<1>2. \A row \in KernelRow : row.queue \in Seq(Item) /\ row.item \in Nat
  BY <1>1 DEF KernelRow
<1>3. \A x \in Item : x.kind \in {"execute", "complete"} => x.req \in Request
  BY DEF Item
<1>4. /\ \A r \in Request : [kind |-> "execute", req |-> r] \in Item
      /\ \A r \in Request : [kind |-> "complete", req |-> r] \in Item
      /\ Plain("stop") \in Item /\ Plain("restart") \in Item
  BY DEF Item, Plain
<1> QED
  BY <1>1, <1>2, <1>3, <1>4

LEMMA OrderQuiet ==
    ASSUME NEW old \in KernelRow, NEW new \in KernelRow, RowQuiet(old, new), RowInOrder(old)
    PROVE  RowInOrder(new) /\ \A r \in Request : RowBelow(old, r) => RowBelow(new, r)
<1>1. CASE new.queue = old.queue
  BY <1>1 DEF RowQuiet, RowInOrder, RowBelow
<1>2. ASSUME NEW x \in Item, x.kind # "execute", new.queue = Append(old.queue, x)
      PROVE  RowInOrder(new) /\ \A r \in Request : RowBelow(old, r) => RowBelow(new, r)
  <2>1. old.queue \in Seq(Item)
    BY ItemFacts
  <2>2. \A i \in DOMAIN new.queue :
          new.queue[i].kind = "execute" => i \in DOMAIN old.queue /\ new.queue[i] = old.queue[i]
    BY <1>2, <2>1, AppendFacts
  <2> QED
    BY <2>2 DEF RowQuiet, RowInOrder, RowBelow
<1> QED
  BY <1>1, <1>2 DEF RowQuiet

LEMMA OrderMoves ==
    ASSUME NEW old \in KernelRow, NEW new \in KernelRow, RowMoves(old, new), RowInOrder(old)
    PROVE  RowInOrder(new) /\ \A r \in Request : RowBelow(old, r) => RowBelow(new, r)
<1>1. /\ old.queue \in Seq(Item) /\ old.item \in Nat /\ new.item \in Nat
      /\ \A i \in DOMAIN old.queue :
           old.queue[i].kind = "execute" => old.queue[i].req \in Nat /\ old.queue[i].req > 0
  BY ItemFacts
<1>2. CASE new.queue = old.queue /\ new.item \in {old.item, 0}
  <2>1. RowInOrder(new)
    BY <1>1, <1>2 DEF RowInOrder
  <2> QED
    BY <1>1, <1>2, <2>1, RequestIsNat DEF RowBelow
<1>3. CASE old.queue # <<>> /\ new.queue = Tail(old.queue)
  <2>1. /\ Head(old.queue) = old.queue[1] /\ 1 \in DOMAIN old.queue
        /\ \A i \in DOMAIN new.queue : i + 1 \in DOMAIN old.queue /\ i >= 1 /\ i \in Nat
                                       /\ new.queue[i] = old.queue[i + 1]
    BY <1>1, <1>3, TailFacts
  <2>2. \/ new.item = old.item
        \/ old.queue[1].kind = "execute" /\ new.item = old.queue[1].req
        \/ new.item = 0
    BY <2>1 DEF RowMoves
  <2>3. RowInOrder(new)
    <3>1. ASSUME NEW i \in DOMAIN new.queue, new.queue[i].kind = "execute"
          PROVE  new.item < new.queue[i].req
      BY <1>1, <2>1, <2>2, <3>1 DEF RowInOrder
    <3>2. ASSUME NEW i \in DOMAIN new.queue, new.queue[i].kind = "execute",
                 NEW j \in DOMAIN new.queue, new.queue[j].kind = "execute", i < j
          PROVE  new.queue[i].req < new.queue[j].req
      BY <2>1, <3>2 DEF RowInOrder
    <3> QED
      BY <3>1, <3>2 DEF RowInOrder
  <2>4. ASSUME NEW r \in Request, RowBelow(old, r) PROVE RowBelow(new, r)
    BY <2>1, <2>2, <2>4, RequestIsNat DEF RowBelow
  <2> QED
    BY <2>3, <2>4
<1> QED
  BY <1>2, <1>3 DEF RowMoves

LEMMA OrderGets ==
    ASSUME NEW old \in KernelRow, NEW new \in KernelRow, NEW r \in Request, RowGets(old, new, r),
           RowInOrder(old), RowBelow(old, r)
    PROVE  /\ RowInOrder(new)
           /\ \A q \in Request : r < q /\ RowBelow(old, q) => RowBelow(new, q)
<1> DEFINE cell == [kind |-> "execute", req |-> r]
<1>1. cell \in Item /\ cell.kind = "execute" /\ cell.req = r
  BY ItemFacts
<1>2. old.queue \in Seq(Item) /\ new.queue = Append(old.queue, cell) /\ new.item = old.item
  BY ItemFacts DEF RowGets
<1> HIDE DEF cell
<1>3. /\ \A i \in DOMAIN new.queue : \/ i \in DOMAIN old.queue /\ new.queue[i] = old.queue[i]
                                     \/ i = Len(old.queue) + 1 /\ new.queue[i] = cell
      /\ \A i \in DOMAIN old.queue : i \in 1..Len(old.queue)
      /\ Len(old.queue) \in Nat
  BY <1>1, <1>2, AppendFacts
<1>4. RowInOrder(new)
  BY <1>1, <1>2, <1>3 DEF RowInOrder, RowBelow
<1>5. ASSUME NEW q \in Request, r < q, RowBelow(old, q) PROVE RowBelow(new, q)
  BY <1>1, <1>2, <1>3, <1>5 DEF RowBelow
<1> QED
  BY <1>4, <1>5

\* What a step does to the line, whatever its action.
LineGoes ==
    /\ LineType' /\ Line'
    /\ Starters \subseteq Starters'
    /\ \A q \in Request : Waits(q)' => Waits(q)

\* No start begins or ends.
SameStart ==
    /\ LockStarts' <=> LockStarts
    /\ LockStarts => Head(lock)' = Head(lock) /\ request'[Head(lock)] = request[Head(lock)]

\* No eviction begins.
SameEviction ==
    \A q \in Request : stage'[q] = "evicting" => stage[q] = "evicting" /\ request'[q] = request[q]

\* Cells are worked off, or the holder of the lock leaves it with a cell for the kernel.
CellMoves(k) ==
    \/ kernel'[k] = kernel[k]
    \/ RowQuiet(kernel[k], kernel'[k])
    \/ RowMoves(kernel[k], kernel'[k])
    \/ Leaves /\ RowGets(kernel[k], kernel'[k], Head(lock))

LEMMA OrderStep ==
    ASSUME TypeOK, Line, CellsAhead, LineGoes, kernel' \in [Kernel -> KernelRow],
           \A k \in Kernel : CellMoves(k)
    PROVE  CellsAhead'
<1>0. LineType /\ kernel \in [Kernel -> KernelRow]
  BY DEF TypeOK, SessionTypeOK, LineType
<1> SUFFICES ASSUME NEW k \in Kernel
             PROVE  RowInOrder(kernel'[k]) /\ \A r \in Request : Waits(r)' => RowBelow(kernel'[k], r)
  BY DEF CellsAhead
<1>1. /\ kernel[k] \in KernelRow /\ kernel'[k] \in KernelRow /\ RowInOrder(kernel[k])
      /\ \A r \in Request : Waits(r)' => Waits(r) /\ RowBelow(kernel[k], r)
  BY <1>0 DEF CellsAhead, LineGoes
<1>2. CASE kernel'[k] = kernel[k]
  BY <1>1, <1>2
<1>3. CASE RowQuiet(kernel[k], kernel'[k])
  BY <1>1, <1>3, OrderQuiet
<1>4. CASE RowMoves(kernel[k], kernel'[k])
  BY <1>1, <1>4, OrderMoves
<1>5. CASE Leaves /\ RowGets(kernel[k], kernel'[k], Head(lock))
  <2>1. /\ Head(lock) \in Request /\ stage[Head(lock)] \in AtLock
        /\ \A q \in Request \ {Head(lock)} : Waits(q) => Head(lock) < q
    BY <1>0, <1>5, LockHead DEF Leaves
  <2>2. RowBelow(kernel[k], Head(lock))
    BY <2>1 DEF CellsAhead, Waits
  <2>3. ASSUME NEW q \in Request, Waits(q)' PROVE q # Head(lock)
    BY <1>0, <1>5, <2>1, <2>3 DEF Leaves, StageOf, Waits, AtLock, LineType
  <2>4. ASSUME NEW q \in Request, Waits(q)' PROVE Head(lock) < q /\ RowBelow(kernel[k], q)
    BY <1>1, <2>1, <2>3, <2>4
  <2> QED
    BY <1>1, <1>5, <2>1, <2>2, <2>4, OrderGets
<1> QED
  BY <1>2, <1>3, <1>4, <1>5 DEF CellMoves

LEMMA LineKeeps ==
    ASSUME LineType, Line,
           \/ \E r \in Request, kind \in Kinds, s \in SessionIds : Called(r, kind, s)
           \/ Waited \/ Popped \/ UNCHANGED requestVars
    PROVE  LineGoes /\ SameStart /\ SameEviction
<1>1. ASSUME NEW r \in Request, NEW kind \in Kinds, NEW s \in SessionIds, Called(r, kind, s)
      PROVE  LineGoes /\ SameStart /\ SameEviction
  <2>1. /\ stage' = [stage EXCEPT ![r] = "queued"] /\ stage[r] = "new" /\ lock' = lock
        /\ request' = [request EXCEPT ![r] = [kind |-> kind, sid |-> s]]
    BY <1>1 DEF Called, StageOf
  <2>2. LineType' /\ Line'
    BY <1>1, LineCalled
  <2>3. lock # <<>> => Head(lock) \in Request /\ Head(lock) # r
    BY <2>1, LockHead DEF AtLock
  <2>4. Starters \subseteq Starters' /\ \A q \in Request : Waits(q)' => Waits(q)
    BY <2>1 DEF LineType, Starters, Waits
  <2> QED
    BY <2>1, <2>2, <2>3, <2>4 DEF LineType, LineGoes, SameStart, SameEviction, LockStarts
<1>2. CASE Waited
  <2>1. /\ stage' = [stage EXCEPT ![Head(ops)] = "lock"] /\ lock' = Append(lock, Head(ops))
        /\ request' = request /\ ops # <<>>
    BY <1>2 DEF Waited, StageOf
  <2>2. LineType' /\ Line'
    BY <1>2, LineWaited
  <2>3. Head(ops) \in Request /\ stage[Head(ops)] = "queued" /\ lock \in Seq(Request)
    BY <2>1, OpsHead DEF LineType
  <2>4. lock # <<>> => Head(lock) \in Request /\ Head(lock) # Head(ops)
    BY <2>3, LockHead DEF AtLock
  <2>5. lock' # <<>> /\ Head(lock') = IF lock = <<>> THEN Head(ops) ELSE Head(lock)
    BY <2>1, <2>3
  <2>6. Starters \subseteq Starters' /\ \A q \in Request : Waits(q)' => Waits(q)
    BY <2>1, <2>3 DEF LineType, Starters, Waits
  <2>7. SameStart /\ SameEviction
    BY <2>1, <2>3, <2>4, <2>5 DEF LineType, SameStart, SameEviction, LockStarts
  <2> QED
    BY <2>2, <2>6, <2>7 DEF LineGoes
<1>3. CASE Popped
  <2>1. /\ stage' = [stage EXCEPT ![Head(ops)] = "done"] /\ lock' = lock
        /\ request' = request /\ ops # <<>>
    BY <1>3 DEF Popped, StageOf
  <2>2. LineType' /\ Line'
    BY <1>3, LinePopped
  <2>3. Head(ops) \in Request /\ stage[Head(ops)] = "queued"
    BY <2>1, OpsHead
  <2>4. lock # <<>> => Head(lock) \in Request /\ Head(lock) # Head(ops)
    BY <2>3, LockHead DEF AtLock
  <2>5. Starters \subseteq Starters' /\ \A q \in Request : Waits(q)' => Waits(q)
    BY <2>1, <2>3 DEF LineType, Starters, Waits, AtLock
  <2> QED
    BY <2>1, <2>2, <2>3, <2>4, <2>5 DEF LineType, LineGoes, SameStart, SameEviction, LockStarts
<1>4. CASE UNCHANGED requestVars
  <2>1. LineType' /\ Line'
    BY <1>4, LineStays
  <2> QED
    BY <1>4, <2>1 DEF LineGoes, SameStart, SameEviction, LockStarts, requestVars, Starters, Waits
<1> QED
  BY <1>1, <1>2, <1>3, <1>4

\* The lock is given on, or lost with its process.
LEMMA LineEnds ==
    ASSUME LineType, Line, Leaves \/ LineDies
    PROVE  LineGoes /\ ~ LockStarts' /\ SameEviction
<1>1. CASE Leaves
  <2>1. /\ stage' = [stage EXCEPT ![Head(lock)] = "done"] /\ lock' = Tail(lock)
        /\ request' = request /\ lock # <<>>
    BY <1>1 DEF Leaves, StageOf
  <2>2. LineType' /\ Line'
    BY <1>1, LineLeaves
  <2>3. /\ Head(lock) \in Request /\ stage[Head(lock)] \in AtLock /\ lock' \in Seq(Request)
        /\ \A i \in DOMAIN lock' : Head(lock) < lock'[i] /\ stage[lock'[i]] = "lock" /\ lock'[i] \in Request
    BY <2>1, LockHead
  <2>4. ASSUME lock' # <<>> PROVE stage'[Head(lock')] = "lock"
    <3>1. Head(lock') = lock'[1] /\ 1 \in DOMAIN lock'
      BY <2>3, <2>4, TailFacts
    <3>2. Head(lock) < lock'[1] /\ stage[lock'[1]] = "lock" /\ lock'[1] \in Request
      BY <2>3, <3>1
    <3>3. lock'[1] # Head(lock)
      <4>1. Head(lock) \in Nat /\ lock'[1] \in Nat
        BY <2>3, <3>2, RequestIsNat
      <4>2. \A m, n \in Nat : m < n => n # m
        OBVIOUS
      <4> QED
        BY <3>2, <4>1, <4>2
    <3> QED
      BY <2>1, <3>1, <3>2, <3>3 DEF LineType
  <2>5. Starters \subseteq Starters' /\ \A q \in Request : Waits(q)' => Waits(q)
    BY <2>1, <2>3 DEF LineType, Starters, Waits, AtLock
  <2> QED
    BY <2>1, <2>2, <2>3, <2>4, <2>5 DEF LineType, LineGoes, SameEviction, LockStarts
<1>2. CASE LineDies
  <2>1. LineType' /\ Line'
    BY <1>2, LineDead
  <2>2. /\ \A r \in Request : stage'[r] = IF stage[r] \in AtLock THEN "lost" ELSE stage[r]
        /\ lock' = <<>> /\ request' = request
    BY <1>2 DEF LineDies, LineType
  <2> QED
    BY <2>1, <2>2 DEF LineGoes, SameEviction, LockStarts, Starters, Waits, AtLock
<1> QED
  BY <1>1, <1>2

-----------------------------------------------------------------------------
(* The steps that start no kernel. *)

Inv == KernelInv /\ CellsAhead /\ Serial

\* The variables that are neither kernels nor the line.
RestType ==
    /\ meta' \in [SessionIds -> {"none", "partial", "full"}]
    /\ answered' \subseteq Request
    /\ faults' \in 0..MaxFaults
    /\ faults' >= faults
    /\ session' \in [SessionIds -> Kernel \cup {0}]
    /\ closing' \subseteq Kernel
    /\ victim' \in Kernel \cup {0}

\* A kernel keeps its session, and has a worker task after the step if it had one before.
RowStill(k) ==
    /\ kernel'[k].sid = kernel[k].sid
    /\ kernel'[k].worker = "none" <=> kernel[k].worker = "none"
    /\ RowOk(kernel'[k])
    /\ CellMoves(k)

LEMMA CountedMore ==
    ASSUME KernelInv, LineGoes, Used' = Used
    PROVE  Counted'
<1>1. IsFiniteSet(Request)
  BY FS_Interval, KernelAssumption DEF Request
<1>2. IsFiniteSet(Starters') /\ IsFiniteSet(Starters) /\ IsFiniteSet(Used)
  <2>1. Starters' \subseteq Request /\ Starters \subseteq Request /\ Used \subseteq Request
    BY DEF Starters, Used, Kernel, Request
  <2> QED
    BY <1>1, <2>1, FS_Subset
<1>3. Cardinality(Starters) <= Cardinality(Starters')
  BY <1>2, FS_Subset DEF LineGoes
<1>4. Cardinality(Used) \in Nat /\ Cardinality(Starters) \in Nat /\ Cardinality(Starters') \in Nat
  BY <1>2, FS_CardinalityType
<1> QED
  BY <1>3, <1>4 DEF KernelInv, Counted

LEMMA StillStep ==
    ASSUME Inv, RestType, kernel' \in [Kernel -> KernelRow], \A k \in Kernel : RowStill(k),
           LineGoes, SameStart, Tables', Serial'
    PROVE  Inv'
<1>1. LineType /\ TypeOK /\ Line /\ CellsAhead
  BY DEF Inv, KernelInv, TypeOK, LineType
<1>2. TypeOK'
  BY DEF LineGoes, LineType, RestType, TypeOK, SessionTypeOK
<1>3. Used' = Used /\ Begun' = Begun
  BY DEF Used, Begun, RowStill
<1>4. Counted'
  BY <1>3, CountedMore DEF Inv
<1>5. RowsOk'
  BY DEF RowStill, RowsOk
<1>6. OneStarts'
  <2>1. \A k \in Begun : kernel'[k].sid = kernel[k].sid
    BY DEF Begun, RowStill
  <2>2. LockStarts => Sid(Head(lock))' = Sid(Head(lock))
    BY DEF SameStart, Sid
  <2>3. LockStarts => \E k \in Begun : kernel[k].sid = Sid(Head(lock))
    BY DEF Inv, KernelInv, OneStarts
  <2>4. \A k \in Begun : LockStarts /\ kernel[k].sid = Sid(Head(lock))
    BY DEF Inv, KernelInv, OneStarts
  <2>5. \A j, k \in Begun : j = k
    BY DEF Inv, KernelInv, OneStarts
  <2> QED
    BY <1>3, <2>1, <2>2, <2>3, <2>4, <2>5 DEF SameStart, OneStarts
<1>7. CellsAhead'
  BY <1>1, OrderStep DEF RowStill
<1> QED
  BY <1>2, <1>4, <1>5, <1>6, <1>7 DEF Inv, KernelInv, LineGoes

LEMMA InvType ==
    ASSUME Inv
    PROVE  /\ TypeOK /\ LineType /\ Line /\ kernel \in [Kernel -> KernelRow]
           /\ meta \in [SessionIds -> {"none", "partial", "full"}] /\ answered \subseteq Request
           /\ faults \in 0..MaxFaults /\ faults \in Nat /\ MaxFaults \in Nat
           /\ session \in [SessionIds -> Kernel \cup {0}]
           /\ closing \subseteq Kernel /\ victim \in Kernel \cup {0}
           /\ \A s \in SessionIds : session[s] # 0 =>
                 /\ session[s] \in Used /\ session[s] \in Kernel
                 /\ kernel[session[s]].sid = s /\ session[s] \notin closing
           /\ \A k \in Used : k \in Kernel /\ kernel[k].sid \in SessionIds
           /\ Nobody \notin SessionIds
<1>1. TypeOK /\ LineType /\ Line
  BY DEF Inv, KernelInv, TypeOK, LineType
<1> QED
  BY <1>1, KernelAssumption DEF Inv, KernelInv, TypeOK, SessionTypeOK, Tables, Used, KernelRow

LEMMA TableKeeps ==
    ASSUME Inv, \A k \in Kernel : kernel'[k].sid = kernel[k].sid,
           session' \in [SessionIds -> Kernel \cup {0}],
           \A s \in SessionIds : session'[s] \in {session[s], 0},
           closing' \subseteq Used,
           \A s \in SessionIds : session'[s] # 0 => session'[s] \notin closing'
    PROVE  Tables'
<1>1. \A s \in SessionIds : session'[s] # 0 => session'[s] = session[s] /\ kernel'[session'[s]].sid = s
  BY InvType
<1>2. Used' = Used
  BY DEF Used
<1> QED
  BY <1>1, <1>2 DEF Tables

\* Whether a kernel has a place, or nothing to do.
Placed(k) == session[kernel[k].sid] = k \/ k \in closing \/ Idle(kernel[k])

LEMMA SerialKeeps ==
    ASSUME Inv, RestType, \A k \in Kernel : kernel'[k].sid = kernel[k].sid,
           faults' = 0 => /\ \A k \in Used : Placed(k) => Placed(k)'
                          /\ \A s \in SessionIds : session'[s] # 0 =>
                                /\ session'[s] = session[s]
                                /\ kernel'[session[s]].status = "dead" => kernel[session[s]].status = "dead"
                          /\ \A q \in Request :
                                stage'[q] = "evicting" => session'[request'[q].sid] = 0
    PROVE  Serial'
<1>1. SUFFICES ASSUME faults' = 0
      PROVE /\ \A s \in SessionIds : session'[s] # 0 => kernel'[session'[s]].status # "dead"
            /\ \A k \in Used' : Placed(k)'
            /\ \A r \in Request : stage'[r] = "evicting" => session'[request'[r].sid] = 0
  BY DEF Serial, Placed, Sid
<1>2. faults = 0
  BY <1>1, InvType DEF RestType
<1>3. /\ \A s \in SessionIds : session[s] # 0 => kernel[session[s]].status # "dead"
      /\ \A k \in Used : Placed(k)
  BY <1>2 DEF Inv, Serial, Placed
<1>4. Used' = Used
  BY DEF Used
<1> QED
  BY <1>1, <1>3, <1>4

\* Evictions that were under way find the session's place as free as before.
LEMMA EvictionKeeps ==
    ASSUME Inv, RestType, SameEviction, faults' = 0,
           \A s \in SessionIds : session'[s] \in {session[s], 0},
           NEW q \in Request, stage'[q] = "evicting"
    PROVE  session'[request'[q].sid] = 0
<1>1. stage[q] = "evicting" /\ request'[q] = request[q]
  BY DEF SameEviction
<1>2. faults = 0
  BY InvType DEF RestType
<1>3. session[request[q].sid] = 0 /\ request[q].sid \in SessionIds
  BY <1>1, <1>2 DEF Inv, Serial, KernelInv, Line, Stored, Sid
<1> QED
  BY <1>1, <1>3

LEMMA SameRow ==
    ASSUME Inv, NEW k \in Kernel, kernel'[k] = kernel[k]
    PROVE  RowStill(k)
  BY DEF Inv, KernelInv, RowsOk, RowStill, CellMoves

\* Something that is not a cell is put into the queue of a kernel.
LEMMA PutRow ==
    ASSUME Inv, NEW k \in Used, NEW x \in Item, x.kind # "execute", kernel'[k] = Put(k, x)
    PROVE  /\ Put(k, x) \in KernelRow /\ RowStill(k)
           /\ kernel'[k].status = kernel[k].status
           /\ Idle(kernel[k]) => Idle(kernel'[k])
<1>1. k \in Kernel /\ kernel[k] \in KernelRow /\ kernel[k].sid # Nobody
  BY InvType DEF Used
<1>2. kernel[k].queue \in Seq(Item)
  BY <1>1, ItemFacts
<1>3. /\ Append(kernel[k].queue, x) \in Seq(Item)
      /\ \A i \in DOMAIN Append(kernel[k].queue, x) :
            \/ i \in DOMAIN kernel[k].queue /\ Append(kernel[k].queue, x)[i] = kernel[k].queue[i]
            \/ Append(kernel[k].queue, x)[i] = x
  BY <1>2, AppendFacts
<1>4. NoCell(kernel[k].queue) => NoCell(Append(kernel[k].queue, x))
  BY <1>3 DEF NoCell
<1>5. /\ Put(k, x) \in KernelRow /\ Put(k, x).queue = Append(kernel[k].queue, x)
      /\ Put(k, x).sid = kernel[k].sid /\ Put(k, x).worker = kernel[k].worker
      /\ Put(k, x).status = kernel[k].status /\ Put(k, x).item = kernel[k].item
  BY <1>1, <1>3 DEF Put, KernelRow
<1>6. RowOk(kernel[k])
  BY <1>1 DEF Inv, KernelInv, RowsOk
<1>7. RowOk(kernel'[k]) /\ RowQuiet(kernel[k], kernel'[k])
  BY <1>1, <1>4, <1>5, <1>6 DEF RowOk, RowQuiet
<1> QED
  BY <1>4, <1>5, <1>7 DEF RowStill, CellMoves, Idle

LEMMA SetRows ==
    ASSUME Inv, NEW k \in Kernel, NEW row \in KernelRow, Set(k, row)
    PROVE  /\ kernel' \in [Kernel -> KernelRow]
           /\ kernel'[k] = row
           /\ \A j \in Kernel \ {k} : kernel'[j] = kernel[j] /\ RowStill(j)
  BY InvType, SetRow, SameRow

\* Kernels that a step treats quietly keep their place, if it leaves the tables alone.
LEMMA PutStep ==
    ASSUME Inv, NEW k \in Used, NEW x \in Item, x.kind # "execute", Set(k, Put(k, x))
    PROVE  /\ kernel' \in [Kernel -> KernelRow]
           /\ \A j \in Kernel : /\ RowStill(j)
                                /\ kernel'[j].status = kernel[j].status
                                /\ Idle(kernel[j]) => Idle(kernel'[j])
<1>1. k \in Kernel /\ Put(k, x) \in KernelRow
  <2>1. k \in Kernel /\ kernel[k] \in KernelRow
    BY InvType
  <2>2. Append(kernel[k].queue, x) \in Seq(Item)
    BY <2>1, ItemFacts, AppendFacts
  <2> QED
    BY <2>1, <2>2 DEF Put, KernelRow
<1>2. /\ kernel' \in [Kernel -> KernelRow] /\ kernel'[k] = Put(k, x)
      /\ \A j \in Kernel \ {k} : kernel'[j] = kernel[j] /\ RowStill(j)
  BY <1>1, SetRows
<1>3. RowStill(k) /\ kernel'[k].status = kernel[k].status /\ (Idle(kernel[k]) => Idle(kernel'[k]))
  BY <1>2, PutRow
<1> QED
  BY <1>2, <1>3

\* A step on kernels and the line that leaves the tables alone.
LEMMA CalmStep ==
    ASSUME Inv, RestType, kernel' \in [Kernel -> KernelRow], LineGoes, SameStart, SameEviction,
           UNCHANGED <<session, closing>>,
           \A j \in Kernel : /\ RowStill(j)
                             /\ kernel'[j].status = "dead" => kernel[j].status = "dead" \/ faults' > 0
                             /\ Idle(kernel[j]) => Idle(kernel'[j]) \/ session[kernel[j].sid] = j
    PROVE  Inv'
<1>1. \A k \in Kernel : kernel'[k].sid = kernel[k].sid
  BY DEF RowStill
<1>2. Tables'
  BY <1>1, InvType, TableKeeps DEF Inv, KernelInv, Tables
<1>3. ASSUME faults' = 0, NEW k \in Used, Placed(k) PROVE Placed(k)'
  BY <1>1, <1>3, InvType DEF Placed
<1>4. ASSUME faults' = 0, NEW s \in SessionIds, session'[s] # 0
      PROVE  /\ session'[s] = session[s]
             /\ kernel'[session[s]].status = "dead" => kernel[session[s]].status = "dead"
  BY <1>4, InvType
<1>5. ASSUME faults' = 0, NEW q \in Request, stage'[q] = "evicting"
      PROVE  session'[request'[q].sid] = 0
  BY <1>5, EvictionKeeps
<1>6. Serial'
  BY <1>1, <1>3, <1>4, <1>5, SerialKeeps
<1> QED
  BY <1>2, <1>6, StillStep

LEMMA StutterStep ==
    ASSUME Inv, UNCHANGED vars
    PROVE  Inv'
<1>1. UNCHANGED <<kernel, meta, answered, faults, session, closing, victim>> /\ UNCHANGED requestVars
  BY DEF vars, requestVars
<1>2. LineGoes /\ SameStart /\ SameEviction
  BY <1>1, InvType, LineKeeps
<1>3. RestType
  BY <1>1, InvType DEF RestType
<1>4. \A j \in Kernel : RowStill(j)
  BY <1>1, SameRow
<1> QED
  BY <1>1, <1>2, <1>3, <1>4, InvType, CalmStep

LEMMA CallStep ==
    ASSUME Inv, NEW r \in Request, NEW kind \in Kinds, NEW s \in SessionIds, Call(r, kind, s)
    PROVE  Inv'
<1>1. /\ UNCHANGED <<kernel, answered, faults, session, closing, victim>>
      /\ Called(r, kind, s)
      /\ meta' = [meta EXCEPT ![s] = "full"] \/ meta' = meta
  BY DEF Call, Called
<1>2. LineGoes /\ SameStart /\ SameEviction
  BY <1>1, InvType, LineKeeps
<1>3. RestType
  BY <1>1, InvType DEF RestType
<1>4. \A j \in Kernel : RowStill(j)
  BY <1>1, SameRow
<1> QED
  BY <1>1, <1>2, <1>3, <1>4, InvType, CalmStep

LEMMA QueueAtLockStep ==
    ASSUME Inv, QueueAtLock
    PROVE  Inv'
<1>1. UNCHANGED <<kernel, meta, answered, faults, session, closing, victim>> /\ Waited
  BY DEF QueueAtLock, Waited, sessionVars, NeedsKernel
<1>2. LineGoes /\ SameStart /\ SameEviction
  BY <1>1, InvType, LineKeeps
<1>3. RestType
  BY <1>1, InvType DEF RestType
<1>4. \A j \in Kernel : RowStill(j)
  BY <1>1, SameRow
<1> QED
  BY <1>1, <1>2, <1>3, <1>4, InvType, CalmStep

LEMMA PopCompleteStep ==
    ASSUME Inv, PopComplete
    PROVE  Inv'
<1> DEFINE r == Head(ops)
           k == session[Sid(r)]
           x == [kind |-> "complete", req |-> r]
<1>1. /\ ops # <<>> /\ StageOf(r, "done") /\ ops' = Tail(ops)
      /\ UNCHANGED <<meta, faults, session, request, lock, closing, victim>>
      /\ \/ k # 0 /\ Set(k, Put(k, x)) /\ UNCHANGED answered
         \/ answered' = answered \cup {r} /\ UNCHANGED kernel
  BY DEF PopComplete
<1>2. LineGoes /\ SameStart /\ SameEviction
  BY <1>1, InvType, LineKeeps DEF Popped
<1>3. r \in Request /\ stage[r] = "queued"
  BY <1>1, InvType, OpsHead
<1>4. RestType
  BY <1>1, <1>3, InvType DEF RestType
<1>5. CASE k # 0 /\ Set(k, Put(k, x))
  <2>1. Sid(r) \in SessionIds
    BY <1>3 DEF Inv, KernelInv, Line, Stored
  <2>2. k \in Used
    BY <1>5, <2>1, InvType
  <2>3. x \in Item /\ x.kind # "execute"
    BY <1>3, ItemFacts
  <2> HIDE DEF x, k
  <2>4. /\ kernel' \in [Kernel -> KernelRow]
        /\ \A j \in Kernel : /\ RowStill(j)
                             /\ kernel'[j].status = kernel[j].status
                             /\ Idle(kernel[j]) => Idle(kernel'[j])
    BY <1>5, <2>2, <2>3, PutStep
  <2> QED
    BY <1>1, <1>2, <1>4, <2>4, CalmStep
<1>6. CASE UNCHANGED kernel
  <2>1. \A j \in Kernel : RowStill(j)
    BY <1>6, SameRow
  <2> QED
    BY <1>1, <1>2, <1>4, <1>6, <2>1, InvType, CalmStep
<1> QED
  BY <1>1, <1>5, <1>6

\* The kernel of a session is told to stop.
LEMMA StoppingRows ==
    ASSUME Inv, NEW k \in Used, Stopping(k)
    PROVE  /\ kernel' \in [Kernel -> KernelRow]
           /\ \A j \in Kernel : /\ RowStill(j)
                                /\ kernel'[j].status = kernel[j].status
                                /\ Idle(kernel[j]) => Idle(kernel'[j])
           /\ closing' = closing \cup {k}
<1>1. closing' = closing \cup {k}
  BY DEF Stopping
<1>2. CASE kernel[k].worker = "none"
  <2>1. kernel' = kernel
    BY <1>2, InvType DEF Stopping, Set
  <2>2. \A j \in Kernel : RowStill(j)
    BY <2>1, SameRow
  <2> QED
    BY <1>1, <2>1, <2>2, InvType
<1>3. CASE kernel[k].worker # "none"
  <2>1. Set(k, Put(k, Plain("stop")))
    BY <1>3 DEF Stopping
  <2>2. Plain("stop") \in Item /\ Plain("stop").kind # "execute"
    BY ItemFacts DEF Plain
  <2> QED
    BY <1>1, <2>1, <2>2, PutStep
<1> QED
  BY <1>2, <1>3

\* Sessions leave the table, one of them for its kernel to be closed.
LEMMA ShutStep ==
    ASSUME Inv, RestType, NEW k \in Used, Stopping(k), LineGoes, SameStart,
           \A s \in SessionIds : session'[s] \in {session[s], 0},
           session'[kernel[k].sid] = 0,
           faults' = 0 => /\ \A s \in SessionIds : session[s] # 0 /\ session'[s] = 0 => session[s] = k
                          /\ \A q \in Request : stage'[q] = "evicting" => session'[request'[q].sid] = 0
    PROVE  Inv'
<1>1. /\ kernel' \in [Kernel -> KernelRow]
      /\ \A j \in Kernel : /\ RowStill(j)
                           /\ kernel'[j].status = kernel[j].status
                           /\ Idle(kernel[j]) => Idle(kernel'[j])
      /\ closing' = closing \cup {k}
  BY StoppingRows
<1>2. \A j \in Kernel : kernel'[j].sid = kernel[j].sid
  BY <1>1 DEF RowStill
<1>3. Tables'
  <2>1. closing' \subseteq Used
    BY <1>1 DEF Inv, KernelInv, Tables
  <2>2. ASSUME NEW s \in SessionIds, session'[s] # 0 PROVE session'[s] \notin closing'
    <3>1. session'[s] = session[s] /\ session[s] \notin closing /\ kernel[session[s]].sid = s
      BY <2>2, InvType
    <3>2. session[s] # k
      BY <2>2, <3>1
    <3> QED
      BY <1>1, <3>1, <3>2
  <2> QED
    BY <1>2, <2>1, <2>2, TableKeeps DEF RestType
<1>4. ASSUME faults' = 0, NEW j \in Used, Placed(j) PROVE Placed(j)'
  <2>1. j \in Kernel /\ kernel[j].sid \in SessionIds /\ kernel'[j].sid = kernel[j].sid
    BY <1>2, InvType
  <2>2. CASE session[kernel[j].sid] = j
    <3>1. session'[kernel[j].sid] = j \/ j = k
      BY <1>4, <2>1, <2>2, RequestIsNat
    <3> QED
      BY <1>1, <2>1, <3>1 DEF Placed
  <2>3. CASE j \in closing \/ Idle(kernel[j])
    BY <1>1, <2>1, <2>3 DEF Placed
  <2> QED
    BY <1>4, <2>2, <2>3 DEF Placed
<1>5. ASSUME NEW s \in SessionIds, session'[s] # 0
      PROVE  /\ session'[s] = session[s]
             /\ kernel'[session[s]].status = "dead" => kernel[session[s]].status = "dead"
  BY <1>1, <1>5, InvType
<1>6. Serial'
  BY <1>2, <1>4, <1>5, SerialKeeps
<1> QED
  BY <1>1, <1>3, <1>6, StillStep

LEMMA PopCloseStep ==
    ASSUME Inv, PopClose
    PROVE  Inv'
<1> DEFINE r == Head(ops)
           k == session[Sid(r)]
<1>1. /\ ops # <<>> /\ StageOf(r, "done") /\ ops' = Tail(ops)
      /\ UNCHANGED <<meta, answered, faults, request, lock, victim>>
      /\ session' = [session EXCEPT ![Sid(r)] = 0]
      /\ k = 0 => UNCHANGED <<kernel, closing>>
      /\ k # 0 => Stopping(k)
  BY DEF PopClose
<1>2. LineGoes /\ SameStart /\ SameEviction
  BY <1>1, InvType, LineKeeps DEF Popped
<1>3. r \in Request /\ Sid(r) \in SessionIds
  <2>1. r \in Request /\ stage[r] = "queued"
    BY <1>1, InvType, OpsHead
  <2> QED
    BY <2>1 DEF Inv, KernelInv, Line, Stored
<1>4. CASE k = 0
  <2>1. session' = session /\ UNCHANGED <<kernel, meta, answered, faults, closing, victim>>
    BY <1>1, <1>3, <1>4, InvType
  <2>2. RestType
    BY <2>1, InvType DEF RestType
  <2>3. \A j \in Kernel : RowStill(j)
    BY <2>1, SameRow
  <2> QED
    BY <1>2, <2>1, <2>2, <2>3, InvType, CalmStep
<1>5. CASE k # 0
  <2>1. k \in Used /\ k \in Kernel /\ kernel[k].sid = Sid(r)
    BY <1>3, <1>5, InvType
  <2>2. closing' = closing \cup {k}
    BY <1>1, <1>5 DEF Stopping
  <2>3. RestType
    BY <1>1, <1>3, <2>1, <2>2, InvType DEF RestType
  <2>4. /\ \A s \in SessionIds : session'[s] \in {session[s], 0}
        /\ session'[kernel[k].sid] = 0
        /\ \A s \in SessionIds : session[s] # 0 /\ session'[s] = 0 => session[s] = k
    BY <1>1, <1>3, <2>1, InvType
  <2>5. Stopping(k)
    BY <1>1, <1>5
  <2>6. faults' = 0 => \A q \in Request : stage'[q] = "evicting" => session'[request'[q].sid] = 0
    BY <1>2, <2>3, <2>4, EvictionKeeps
  <2> HIDE DEF k
  <2> QED
    BY <1>2, <2>1, <2>3, <2>4, <2>5, <2>6, ShutStep
<1> QED
  BY <1>4, <1>5

LEMMA ReapStep ==
    ASSUME Inv, NEW s \in SessionIds, Reap(s)
    PROVE  Inv'
<1> DEFINE k == session[s]
<1>1. /\ UNCHANGED <<meta, answered, faults, victim>> /\ UNCHANGED requestVars
      /\ session' = [session EXCEPT ![s] = 0]
      /\ k # 0 /\ Stopping(k)
  BY DEF Reap
<1>2. LineGoes /\ SameStart /\ SameEviction
  BY <1>1, InvType, LineKeeps
<1>3. k \in Used /\ k \in Kernel /\ kernel[k].sid = s
  BY <1>1, InvType
<1>4. closing' = closing \cup {k}
  BY <1>1 DEF Stopping
<1>5. RestType
  BY <1>1, <1>3, <1>4, InvType DEF RestType
<1>6. /\ \A t \in SessionIds : session'[t] \in {session[t], 0}
      /\ session'[kernel[k].sid] = 0
      /\ \A t \in SessionIds : session[t] # 0 /\ session'[t] = 0 => session[t] = k
  BY <1>1, <1>3, InvType
<1>7. faults' = 0 => \A q \in Request : stage'[q] = "evicting" => session'[request'[q].sid] = 0
  BY <1>2, <1>5, <1>6, EvictionKeeps
<1> HIDE DEF k
<1> QED
  BY <1>1, <1>2, <1>3, <1>5, <1>6, <1>7, ShutStep

LEMMA EvictStep ==
    ASSUME Inv, NEW r \in Request, Evict(r)
    PROVE  Inv'
<1> DEFINE s == Sid(r)
<1>1. /\ lock # <<>> /\ Head(lock) = r /\ stage[r] = "lock"
      /\ ~ Registered(s)
      /\ StageOf(r, "evicting")
      /\ UNCHANGED <<meta, answered, faults, request, ops, lock>>
  BY DEF Evict, Holds
<1>2. PICK t \in Evictable(s) : /\ Stopping(session[t])
                                /\ victim' = session[t]
                                /\ session' = [session EXCEPT ![s] = 0, ![t] = 0]
  BY DEF Evict
<1>3. t \in SessionIds /\ t # s /\ session[t] # 0 /\ s \in SessionIds
  BY <1>1, <1>2, InvType, LockHead DEF Evictable, Others
<1> DEFINE k == session[t]
<1>4. k \in Used /\ k \in Kernel /\ kernel[k].sid = t /\ Stopping(k)
  BY <1>2, <1>3, InvType
<1>5. closing' = closing \cup {k}
  BY <1>4 DEF Stopping
<1>6. RestType
  BY <1>1, <1>2, <1>3, <1>4, <1>5, InvType DEF RestType
<1>7. Proceeds("evicting")
  BY <1>1 DEF Proceeds
<1>8. LineType' /\ Line'
  BY <1>7, InvType, LineProceeds DEF AtLock
<1>9. stage' = [stage EXCEPT ![r] = "evicting"]
  BY <1>1 DEF StageOf
<1>10. LineGoes
  <2>1. Starters \subseteq Starters'
    BY <1>1, <1>9, InvType DEF LineType, Starters
  <2>2. \A q \in Request : Waits(q)' => Waits(q)
    BY <1>1, <1>9, InvType DEF LineType, Waits, AtLock
  <2> QED
    BY <1>8, <2>1, <2>2 DEF LineGoes
<1>11. SameStart
  BY <1>1, <1>9, InvType DEF LineType, SameStart, LockStarts
<1>12. /\ \A u \in SessionIds : session'[u] \in {session[u], 0}
       /\ session'[kernel[k].sid] = 0
  BY <1>2, <1>3, <1>4, InvType
<1>13. ASSUME faults' = 0
       PROVE  /\ \A u \in SessionIds : session[u] # 0 /\ session'[u] = 0 => session[u] = k
              /\ \A q \in Request : stage'[q] = "evicting" => session'[request'[q].sid] = 0
  <2>1. faults = 0
    BY <1>1, <1>13
  <2>2. session[s] = 0
    BY <1>1, <1>3, <2>1 DEF Registered, Inv, Serial
  <2>3. \A u \in SessionIds : session[u] # 0 /\ session'[u] = 0 => session[u] = k
    BY <1>2, <1>3, <2>2, InvType
  <2>4. ASSUME NEW q \in Request, stage'[q] = "evicting" PROVE session'[request'[q].sid] = 0
    <3>1. CASE q = r
      BY <1>1, <1>2, <1>3, <3>1, InvType DEF Sid
    <3>2. CASE q # r
      <4>1. stage[q] = "evicting" /\ request' = request
        BY <1>1, <1>9, <2>4, <3>2, InvType DEF LineType
      <4>2. session[request[q].sid] = 0 /\ request[q].sid \in SessionIds
        BY <2>1, <4>1 DEF Inv, Serial, KernelInv, Line, Stored, Sid
      <4> QED
        BY <1>12, <4>1, <4>2
    <3> QED
      BY <3>1, <3>2
  <2> QED
    BY <2>3, <2>4
<1> HIDE DEF k
<1> QED
  BY <1>4, <1>6, <1>10, <1>11, <1>12, <1>13, ShutStep

LEMMA RefreshStep ==
    ASSUME Inv, RefreshEnvs
    PROVE  Inv'
<1> DEFINE x == Plain("restart")
           Held(k) == \E s \in SessionIds : session[s] = k
<1>1. /\ UNCHANGED <<meta, answered, session, closing, victim>> /\ UNCHANGED requestVars
      /\ faults < MaxFaults /\ faults' = faults + 1
      /\ kernel' = [k \in Kernel |-> IF Held(k) THEN Put(k, x) ELSE kernel[k]]
  BY DEF RefreshEnvs, Fault
<1>2. LineGoes /\ SameStart /\ SameEviction
  BY <1>1, InvType, LineKeeps
<1>3. RestType
  BY <1>1, InvType DEF RestType
<1>4. x \in Item /\ x.kind # "execute"
  BY ItemFacts DEF Plain
<1> HIDE DEF x
<1>5. ASSUME NEW k \in Kernel
      PROVE  /\ kernel'[k] \in KernelRow /\ RowStill(k)
             /\ kernel'[k].status = kernel[k].status
             /\ Idle(kernel[k]) => Idle(kernel'[k])
  <2>1. CASE Held(k)
    <3>1. k \in Used
      BY <2>1, InvType, RequestIsNat
    <3>2. kernel'[k] = Put(k, x)
      BY <1>1, <2>1
    <3> QED
      BY <1>4, <3>1, <3>2, PutRow
  <2>2. CASE ~ Held(k)
    BY <1>1, <2>2, SameRow, InvType
  <2> QED
    BY <2>1, <2>2
<1>6. kernel' \in [Kernel -> KernelRow]
  BY <1>1, <1>5
<1> QED
  BY <1>1, <1>2, <1>3, <1>5, <1>6, CalmStep

LEMMA CloseEndsStep ==
    ASSUME Inv, NEW k \in Kernel, CloseEnds(k)
    PROVE  Inv'
<1> DEFINE old == kernel[k]
           new == [old EXCEPT !.proc = FALSE, !.status = "dead",
                              !.worker = IF @ = "none" THEN @ ELSE "ended"]
<1>1. /\ k \in closing /\ closing' = closing \ {k}
      /\ Set(k, new)
      /\ meta' = [meta EXCEPT ![old.sid] = "none"]
      /\ UNCHANGED <<answered, faults, session, victim>> /\ UNCHANGED requestVars
  BY DEF CloseEnds
<1>2. LineGoes /\ SameStart /\ SameEviction
  BY <1>1, InvType, LineKeeps
<1>3. k \in Used /\ old \in KernelRow /\ old.sid # Nobody /\ RowOk(old)
  BY <1>1, InvType DEF Inv, KernelInv, Tables, RowsOk, Used
<1>4. RestType
  <2>1. /\ closing' \subseteq Kernel /\ meta' \in [SessionIds -> {"none", "partial", "full"}]
        /\ UNCHANGED <<answered, faults, session, victim>>
    BY <1>1, InvType
  <2> QED
    BY <2>1, InvType DEF RestType
<1>5. /\ new \in KernelRow /\ new.sid = old.sid /\ new.queue = old.queue /\ new.item = old.item
      /\ new.status = "dead" /\ new.worker = IF old.worker = "none" THEN "none" ELSE "ended"
  BY <1>3 DEF KernelRow
<1> HIDE DEF new, old
<1>6. /\ kernel' \in [Kernel -> KernelRow] /\ kernel'[k] = new
      /\ \A j \in Kernel \ {k} : kernel'[j] = kernel[j] /\ RowStill(j)
  BY <1>1, <1>5, SetRows
<1>7. RowStill(k) /\ Idle(kernel'[k])
  BY <1>3, <1>5, <1>6 DEF RowStill, RowOk, Idle, CellMoves, RowQuiet, old
<1>8. /\ \A j \in Kernel : kernel'[j].sid = kernel[j].sid
      /\ \A j \in Kernel : RowStill(j)
  BY <1>6, <1>7 DEF RowStill
<1>9. Tables'
  BY <1>1, <1>8, InvType, TableKeeps DEF Inv, KernelInv, Tables
<1>10. ASSUME NEW j \in Used, Placed(j) PROVE Placed(j)'
  BY <1>1, <1>6, <1>7, <1>8, <1>10, InvType DEF Placed
<1>11. ASSUME NEW s \in SessionIds, session'[s] # 0
       PROVE  /\ session'[s] = session[s]
              /\ kernel'[session[s]].status = "dead" => kernel[session[s]].status = "dead"
  BY <1>1, <1>6, <1>11, InvType
<1>12. faults' = 0 => \A q \in Request : stage'[q] = "evicting" => session'[request'[q].sid] = 0
  BY <1>1, <1>2, <1>4, EvictionKeeps
<1>13. Serial'
  BY <1>4, <1>8, <1>10, <1>11, <1>12, SerialKeeps
<1> QED
  BY <1>2, <1>4, <1>6, <1>8, <1>9, <1>13, StillStep

LEMMA WorkerInv ==
    ASSUME Inv, NEW k \in Kernel, WorkerStep(k) \/ WorkerFault(k), UNCHANGED managerVars
    PROVE  Inv'
<1>1. UNCHANGED <<session, closing, victim>> /\ UNCHANGED requestVars
  BY DEF managerVars, requestVars
<1>2. LineGoes /\ SameStart /\ SameEviction
  BY <1>1, InvType, LineKeeps
<1>3. RowOk(kernel[k])
  BY DEF Inv, KernelInv, RowsOk
<1>4. /\ \E row \in KernelRow :
           /\ Set(k, row)
           /\ RowMoves(kernel[k], row)
           /\ row.status = "dead" => kernel[k].status = "dead" \/ faults' > 0
      /\ WorkerFrame
  BY <1>3, InvType, WorkerRow DEF RowOk
<1>5. PICK row \in KernelRow :
           /\ Set(k, row)
           /\ RowMoves(kernel[k], row)
           /\ row.status = "dead" => kernel[k].status = "dead" \/ faults' > 0
  BY <1>4
<1>6. RestType
  BY <1>1, <1>4, InvType DEF RestType, WorkerFrame
<1>7. /\ kernel' \in [Kernel -> KernelRow] /\ kernel'[k] = row
      /\ \A j \in Kernel \ {k} : kernel'[j] = kernel[j] /\ RowStill(j)
  BY <1>5, SetRows
<1>8. /\ kernel[k].queue \in Seq(Item) /\ kernel[k] \in KernelRow
      /\ \A x \in Item : x.kind \in {"execute", "complete"} => x.req \in Request
  BY InvType, ItemFacts
<1>9. kernel[k].queue # <<>> =>
         /\ Head(kernel[k].queue) = kernel[k].queue[1] /\ 1 \in DOMAIN kernel[k].queue
         /\ Head(kernel[k].queue) \in Item
         /\ \A i \in DOMAIN Tail(kernel[k].queue) :
               i + 1 \in DOMAIN kernel[k].queue /\ Tail(kernel[k].queue)[i] = kernel[k].queue[i + 1]
  BY <1>8, TailFacts
<1>10. NoCell(kernel[k].queue) => NoCell(row.queue) /\ row.worker # "cell"
  BY <1>5, <1>9 DEF RowMoves, NoCell
<1>11. kernel[k].sid # Nobody
  <2>1. kernel[k].worker # "none"
    BY <1>5 DEF RowMoves
  <2> QED
    BY <1>3, <2>1 DEF RowOk, Unused
<1>12. RowOk(row)
  BY <1>5, <1>8, <1>9, <1>11 DEF RowOk, RowMoves
<1>13. RowStill(k)
  BY <1>5, <1>7, <1>12 DEF RowStill, RowMoves, CellMoves
<1>14. Idle(kernel[k]) => Idle(row)
  BY <1>5, <1>10 DEF Idle, RowMoves
<1> QED
  BY <1>1, <1>2, <1>5, <1>6, <1>7, <1>13, <1>14, CalmStep

-----------------------------------------------------------------------------
(* The holder of the lock gets a kernel, or none. *)

LEMMA GotNothing ==
    ASSUME Inv, lock # <<>>, Got(Head(lock), 0, Unused), UNCHANGED <<request, ops>>
    PROVE  Leaves /\ UNCHANGED kernel /\ answered' \subseteq Request
<1>1. Head(lock) \in Request
  BY InvType, LockHead
<1> QED
  BY <1>1, InvType DEF Got, Leaves

LEMMA GotKernel ==
    ASSUME Inv, lock # <<>>, NEW k \in Used, NEW row \in KernelRow, Got(Head(lock), k, row),
           UNCHANGED <<request, ops>>,
           row.queue = kernel[k].queue, row.item = kernel[k].item, row.worker # "none",
           row.sid = kernel[k].sid, row.worker = "cell" => row.item \in Request
    PROVE  /\ Leaves /\ answered' \subseteq Request
           /\ kernel' \in [Kernel -> KernelRow]
           /\ \A j \in Kernel \ {k} : kernel'[j] = kernel[j]
           /\ kernel'[k].sid = row.sid /\ kernel'[k].status = row.status
           /\ kernel'[k].worker = row.worker
           /\ RowOk(kernel'[k]) /\ CellMoves(k)
           /\ row.status = "dead" /\ NoCell(row.queue) => NoCell(kernel'[k].queue)
<1> DEFINE r == Head(lock)
           missing == row.status = "dead"
           cell == [kind |-> "execute", req |-> r]
<1>1. r \in Request
  BY InvType, LockHead
<1>2. k \in Kernel /\ k # 0 /\ row.sid # Nobody
  BY InvType, RequestIsNat DEF Used
<1>3. /\ Leaves
      /\ answered' \in {answered, answered \cup {r}}
      /\ \/ Kind(r) = "execute" /\ ~ missing /\ Set(k, [row EXCEPT !.queue = Append(@, cell)])
         \/ Kind(r) = "restart" /\ Set(k, [row EXCEPT !.queue = Append(@, Plain("restart"))])
         \/ Set(k, row)
  BY <1>2 DEF Got, Leaves
<1>4. answered' \subseteq Request
  BY <1>1, <1>3, InvType
<1>5. row.queue \in Seq(Item) /\ cell \in Item /\ Plain("restart") \in Item
  BY <1>1, ItemFacts
<1>6. Plain("restart").kind # "execute"
  BY DEF Plain
<1> HIDE DEF cell
<1>7. ASSUME NEW x \in Item
      PROVE  /\ [row EXCEPT !.queue = Append(@, x)] \in KernelRow
             /\ [row EXCEPT !.queue = Append(@, x)].queue = Append(row.queue, x)
             /\ [row EXCEPT !.queue = Append(@, x)].sid = row.sid
             /\ [row EXCEPT !.queue = Append(@, x)].status = row.status
             /\ [row EXCEPT !.queue = Append(@, x)].worker = row.worker
             /\ [row EXCEPT !.queue = Append(@, x)].item = row.item
  <2>1. Append(row.queue, x) \in Seq(Item)
    BY <1>5, AppendFacts
  <2> QED
    BY <2>1 DEF KernelRow
<1>8. CASE ~ missing /\ Set(k, [row EXCEPT !.queue = Append(@, cell)])
  <2> DEFINE new == [row EXCEPT !.queue = Append(@, cell)]
  <2>1. /\ new \in KernelRow /\ new.queue = Append(row.queue, cell) /\ new.sid = row.sid
        /\ new.status = row.status /\ new.worker = row.worker /\ new.item = row.item
    BY <1>5, <1>7
  <2>2. Set(k, new)
    BY <1>8
  <2> HIDE DEF new
  <2>3. /\ kernel' \in [Kernel -> KernelRow] /\ kernel'[k] = new
        /\ \A j \in Kernel \ {k} : kernel'[j] = kernel[j]
    BY <1>2, <2>1, <2>2, SetRows
  <2>4. RowGets(kernel[k], kernel'[k], Head(lock))
    BY <2>1, <2>3 DEF RowGets, cell
  <2>5. RowOk(kernel'[k])
    BY <1>2, <2>1, <2>3 DEF RowOk
  <2> QED
    BY <1>3, <1>4, <1>8, <2>1, <2>3, <2>4, <2>5 DEF CellMoves
<1>9. CASE Set(k, [row EXCEPT !.queue = Append(@, Plain("restart"))])
  <2> DEFINE new == [row EXCEPT !.queue = Append(@, Plain("restart"))]
  <2>1. /\ new \in KernelRow /\ new.queue = Append(row.queue, Plain("restart")) /\ new.sid = row.sid
        /\ new.status = row.status /\ new.worker = row.worker /\ new.item = row.item
    BY <1>5, <1>7
  <2>2. Set(k, new)
    BY <1>9
  <2> HIDE DEF new
  <2>3. /\ kernel' \in [Kernel -> KernelRow] /\ kernel'[k] = new
        /\ \A j \in Kernel \ {k} : kernel'[j] = kernel[j]
    BY <1>2, <2>1, <2>2, SetRows
  <2>4. RowQuiet(kernel[k], kernel'[k])
    BY <1>5, <1>6, <2>1, <2>3 DEF RowQuiet
  <2>5. RowOk(kernel'[k])
    BY <1>2, <2>1, <2>3 DEF RowOk
  <2>6. NoCell(row.queue) => NoCell(kernel'[k].queue)
    <3>1. \A i \in DOMAIN new.queue :
             (i \in DOMAIN row.queue /\ new.queue[i] = row.queue[i]) \/ new.queue[i] = Plain("restart")
      BY <1>5, <2>1, AppendFacts
    <3> QED
      BY <1>6, <2>3, <3>1 DEF NoCell
  <2> QED
    BY <1>3, <1>4, <2>1, <2>3, <2>4, <2>5, <2>6 DEF CellMoves
<1>10. CASE Set(k, row)
  <2>1. /\ kernel' \in [Kernel -> KernelRow] /\ kernel'[k] = row
        /\ \A j \in Kernel \ {k} : kernel'[j] = kernel[j]
    BY <1>2, <1>10, SetRows
  <2> QED
    BY <1>2, <1>3, <1>4, <2>1 DEF CellMoves, RowQuiet, RowOk
<1> QED
  BY <1>3, <1>8, <1>9, <1>10

LEMMA EnsureFindsStep ==
    ASSUME Inv, NEW r \in Request, EnsureFinds(r)
    PROVE  Inv'
<1> DEFINE k == session[Sid(r)]
           row == kernel[k]
<1>1. /\ lock # <<>> /\ Head(lock) = r /\ stage[r] = "lock"
      /\ k # 0 /\ row.status # "dead"
      /\ Got(r, k, row)
      /\ UNCHANGED <<meta, faults, session, closing, victim>> /\ UNCHANGED <<request, ops>>
  BY DEF EnsureFinds, Holds, Registered
<1>2. Sid(r) \in SessionIds
  BY <1>1, InvType, LockHead
<1>3. k \in Used /\ k \in Kernel /\ kernel[k].sid = Sid(r) /\ row \in KernelRow
  BY <1>1, <1>2, InvType
<1>4. ~ LockStarts /\ row.worker # "none" /\ RowOk(row)
  <2>1. ~ LockStarts
    BY <1>1 DEF LockStarts
  <2>2. k \notin Begun
    BY <2>1 DEF Inv, KernelInv, OneStarts
  <2> QED
    BY <1>3, <2>1, <2>2 DEF Begun, Used, Inv, KernelInv, RowsOk
<1> HIDE DEF k
<1>5. /\ Leaves /\ answered' \subseteq Request
      /\ kernel' \in [Kernel -> KernelRow]
      /\ \A j \in Kernel \ {k} : kernel'[j] = kernel[j]
      /\ kernel'[k].sid = row.sid /\ kernel'[k].status = row.status
      /\ kernel'[k].worker = row.worker
      /\ RowOk(kernel'[k]) /\ CellMoves(k)
  BY <1>1, <1>3, <1>4, GotKernel DEF RowOk
<1>6. LineGoes /\ ~ LockStarts' /\ SameEviction
  BY <1>5, InvType, LineEnds
<1>7. SameStart
  BY <1>4, <1>6 DEF SameStart
<1>8. RestType
  BY <1>1, <1>5, InvType DEF RestType
<1>9. ASSUME NEW j \in Kernel
      PROVE  /\ RowStill(j)
             /\ kernel'[j].status = "dead" => kernel[j].status = "dead"
             /\ Idle(kernel[j]) => Idle(kernel'[j]) \/ session[kernel[j].sid] = j
  <2>1. CASE j = k
    BY <1>3, <1>5, <2>1 DEF RowStill, k
  <2>2. CASE j # k
    BY <1>5, <2>2, SameRow
  <2> QED
    BY <2>1, <2>2
<1> QED
  BY <1>1, <1>5, <1>6, <1>7, <1>8, <1>9, CalmStep

LEMMA EnsureRefusesStep ==
    ASSUME Inv, NEW r \in Request, EnsureRefuses(r)
    PROVE  Inv'
<1>1. /\ lock # <<>> /\ Head(lock) = r /\ stage[r] = "lock"
      /\ ~ Registered(Sid(r))
      /\ session' = [session EXCEPT ![Sid(r)] = 0]
      /\ Got(r, 0, Unused)
      /\ UNCHANGED <<meta, faults, closing, victim>> /\ UNCHANGED <<request, ops>>
  BY DEF EnsureRefuses, Holds
<1>2. Sid(r) \in SessionIds
  BY <1>1, InvType, LockHead
<1>3. Leaves /\ kernel' = kernel /\ answered' \subseteq Request
  BY <1>1, GotNothing
<1>4. LineGoes /\ ~ LockStarts' /\ SameEviction
  BY <1>3, InvType, LineEnds
<1>5. SameStart
  BY <1>1, <1>4 DEF SameStart, LockStarts
<1>6. RestType
  BY <1>1, <1>2, <1>3, InvType DEF RestType
<1>7. \A j \in Kernel : RowStill(j)
  BY <1>3, SameRow
<1>8. \A s \in SessionIds : session'[s] \in {session[s], 0}
  BY <1>1, InvType
<1>9. Tables'
  <2>1. \A s \in SessionIds : session'[s] # 0 => session'[s] \notin closing'
    BY <1>1, <1>8, InvType
  <2>2. closing' \subseteq Used
    BY <1>1 DEF Inv, KernelInv, Tables
  <2> QED
    BY <1>3, <1>6, <1>8, <2>1, <2>2, TableKeeps DEF RestType
<1>10. ASSUME faults' = 0, NEW k \in Used, Placed(k) PROVE Placed(k)'
  <2>1. session[Sid(r)] = 0
    BY <1>1, <1>2, <1>10 DEF Inv, Serial, Registered
  <2>2. session' = session
    BY <1>1, <2>1, InvType
  <2> QED
    BY <1>1, <1>3, <1>10, <2>2 DEF Placed
<1>11. ASSUME NEW s \in SessionIds, session'[s] # 0
       PROVE  /\ session'[s] = session[s]
              /\ kernel'[session[s]].status = "dead" => kernel[session[s]].status = "dead"
  BY <1>3, <1>8, <1>11
<1>12. faults' = 0 => \A q \in Request : stage'[q] = "evicting" => session'[request'[q].sid] = 0
  BY <1>4, <1>6, <1>8, EvictionKeeps
<1>13. Serial'
  BY <1>3, <1>6, <1>10, <1>11, <1>12, SerialKeeps
<1> QED
  BY <1>3, <1>4, <1>5, <1>6, <1>7, <1>9, <1>13, InvType, StillStep

-----------------------------------------------------------------------------
(* The steps that start a kernel, and the ones that end it. *)

\* When no kernel is being started, none has begun.
NoneBegun == ~ LockStarts /\ Begun = {}

LEMMA Assemble ==
    ASSUME RestType, kernel' \in [Kernel -> KernelRow], LineGoes,
           Counted', RowsOk', OneStarts', Tables', CellsAhead', Serial'
    PROVE  Inv'
  BY DEF LineGoes, LineType, RestType, TypeOK, SessionTypeOK, Inv, KernelInv

\* A kernel object is left for the request that needs one.
LEMMA KernelLeft ==
    ASSUME Inv, NEW r \in Request, r \notin Starters
    PROVE  \E k \in Kernel : kernel[k].sid = Nobody
<1>1. SUFFICES ASSUME Used = Kernel PROVE FALSE
  BY DEF Used
<1>2. IsFiniteSet(Request) /\ Cardinality(Request) = MaxRequests
  BY FS_Interval, KernelAssumption DEF Request
<1>3. Cardinality(Used) = MaxRequests
  BY <1>1, <1>2 DEF Kernel, Request
<1>4. Starters \subseteq Request \ {r}
  BY DEF Starters
<1>5. /\ IsFiniteSet(Request \ {r})
      /\ Cardinality(Request \ {r}) = Cardinality(Request) - 1
  BY <1>2, FS_RemoveElement
<1>6. Cardinality(Starters) <= MaxRequests - 1 /\ Cardinality(Starters) \in Nat
  BY <1>2, <1>4, <1>5, FS_Subset, FS_CardinalityType
<1> QED
  BY <1>3, <1>6, KernelAssumption DEF Inv, KernelInv, Counted

LEMMA BeginStartStep ==
    ASSUME Inv, NEW r \in Request, BeginStart(r)
    PROVE  Inv'
<1> DEFINE s == Sid(r)
           k == CHOOSE k \in FreeKernel : TRUE
           new == [Unused EXCEPT !.sid = s]
<1>1. /\ lock # <<>> /\ Head(lock) = r /\ stage[r] \in {"lock", "evicting"}
      /\ stage[r] = "lock" => ~ Registered(s)
      /\ session' = [session EXCEPT ![s] = k]
      /\ Set(k, new)
      /\ StageOf(r, "starting")
      /\ victim' = 0
      /\ UNCHANGED <<meta, answered, faults, closing>> /\ UNCHANGED <<request, ops, lock>>
  BY DEF BeginStart, Holds
<1>2. s \in SessionIds /\ s # Nobody
  BY <1>1, InvType, LockHead
<1>3. r \notin Starters
  BY <1>1 DEF Starters
<1>4. k \in FreeKernel
  BY <1>3, KernelLeft DEF FreeKernel
<1>5. /\ k \in Kernel /\ k \notin Used /\ k # 0
      /\ kernel[k] = Unused /\ kernel[k] \in KernelRow
  BY <1>4, InvType, RequestIsNat DEF FreeKernel, Used, Inv, KernelInv, RowsOk, RowOk
<1>6. /\ new \in KernelRow /\ new.sid = s /\ new.worker = "none" /\ new.queue = <<>>
      /\ new.item = 0 /\ new.status = "starting"
  <2>1. /\ Unused \in KernelRow /\ Unused.worker = "none" /\ Unused.queue = <<>>
        /\ Unused.item = 0 /\ Unused.status = "starting"
    BY DEF Unused, KernelRow
  <2> HIDE DEF s
  <2> QED
    BY <1>2, <2>1 DEF KernelRow
<1>7. stage' = [stage EXCEPT ![r] = "starting"]
  BY <1>1 DEF StageOf
<1>8. ~ LockStarts /\ Begun = {}
  <2>1. ~ LockStarts
    BY <1>1 DEF LockStarts
  <2> QED
    BY <2>1 DEF Inv, KernelInv, OneStarts
<1>9. faults = 0 => session[s] = 0
  BY <1>1, <1>2 DEF Inv, Serial, Registered
<1> HIDE DEF k, new, s
<1>10. /\ kernel' \in [Kernel -> KernelRow] /\ kernel'[k] = new
       /\ \A j \in Kernel \ {k} : kernel'[j] = kernel[j]
  BY <1>1, <1>5, <1>6, SetRows
<1>11. RestType
  <2>1. session' \in [SessionIds -> Kernel \cup {0}]
    BY <1>1, <1>2, <1>5, InvType
  <2>2. victim' = 0 /\ UNCHANGED <<meta, answered, faults, closing>>
    BY <1>1
  <2> QED
    BY <2>1, <2>2, InvType DEF RestType
<1>12. LineGoes
  <2>1. LineType' /\ Line'
    <3>1. Proceeds("starting")
      BY <1>1 DEF Proceeds
    <3> QED
      BY <3>1, InvType, LineProceeds DEF AtLock
  <2>2. Starters \subseteq Starters'
    BY <1>7, InvType DEF LineType, Starters
  <2>3. \A q \in Request : Waits(q)' => Waits(q)
    BY <1>1, <1>7, InvType DEF LineType, Waits, AtLock
  <2> QED
    BY <2>1, <2>2, <2>3 DEF LineGoes
<1>13. Counted'
  <2>1. IsFiniteSet(Request)
    BY FS_Interval, KernelAssumption DEF Request
  <2>2. Used' = Used \cup {k} /\ k \notin Used
    BY <1>2, <1>5, <1>6, <1>10 DEF Used
  <2>3. Starters \cup {r} \subseteq Starters'
    BY <1>7, <1>12, InvType DEF LineGoes, LineType, Starters
  <2>4. /\ Used \subseteq Request /\ Starters \subseteq Request /\ Starters' \subseteq Request
    BY DEF Used, Starters, Kernel, Request
  <2>5. /\ IsFiniteSet(Used) /\ IsFiniteSet(Starters) /\ IsFiniteSet(Starters')
    BY <2>1, <2>4, FS_Subset
  <2>6. Cardinality(Used') = Cardinality(Used) + 1
    BY <2>2, <2>5, FS_AddElement
  <2>7. IsFiniteSet(Starters \cup {r}) /\ Cardinality(Starters \cup {r}) = Cardinality(Starters) + 1
    BY <1>3, <2>5, FS_AddElement
  <2>8. Cardinality(Starters \cup {r}) <= Cardinality(Starters')
    BY <2>3, <2>5, FS_Subset
  <2>9. Cardinality(Used) \in Nat /\ Cardinality(Starters) \in Nat /\ Cardinality(Starters') \in Nat
    BY <2>5, FS_CardinalityType
  <2> QED
    BY <2>6, <2>7, <2>8, <2>9 DEF Inv, KernelInv, Counted
<1>14. RowsOk'
  <2>1. RowOk(new)
    BY <1>2, <1>6 DEF RowOk, NoCell
  <2> QED
    BY <1>10, <2>1 DEF Inv, KernelInv, RowsOk
<1>15. OneStarts'
  <2>1. Begun' = {k}
    BY <1>2, <1>5, <1>6, <1>8, <1>10 DEF Begun
  <2>2. LockStarts' /\ Sid(Head(lock))' = s
    BY <1>1, <1>7, InvType DEF LockStarts, LineType, Sid, s
  <2> QED
    BY <1>6, <1>10, <2>1, <2>2 DEF OneStarts
<1>16. Tables'
  <2>1. closing' = closing /\ closing \subseteq Used /\ k \notin closing
    BY <1>1, <1>5 DEF Inv, KernelInv, Tables
  <2>2. closing' \subseteq Used'
    BY <1>5, <1>10, <2>1 DEF Used
  <2>3. ASSUME NEW t \in SessionIds, session'[t] # 0
        PROVE  kernel'[session'[t]].sid = t /\ session'[t] \notin closing'
    <3>1. CASE t = s
      <4>1. session'[t] = k
        BY <1>1, <1>2, <3>1, InvType
      <4> QED
        BY <1>6, <1>10, <2>1, <3>1, <4>1
    <3>2. CASE t # s
      <4>1. session'[t] = session[t]
        BY <1>1, <1>2, <3>2, InvType
      <4>2. session[t] \in Used /\ kernel[session[t]].sid = t /\ session[t] \notin closing /\ session[t] \in Kernel
        BY <2>3, <4>1, InvType
      <4> QED
        BY <1>5, <1>10, <2>1, <4>1, <4>2
    <3> QED
      BY <3>1, <3>2
  <2> QED
    BY <2>2, <2>3 DEF Tables
<1>17. CellsAhead'
  <2>1. CellMoves(k)
    BY <1>5, <1>6, <1>10 DEF CellMoves, RowQuiet, Unused
  <2>2. \A j \in Kernel : CellMoves(j)
    BY <1>10, <2>1 DEF CellMoves
  <2> QED
    BY <1>10, <1>12, <2>2, InvType, OrderStep DEF Inv
<1>18. Serial'
  <2>1. SUFFICES ASSUME faults' = 0
        PROVE /\ \A t \in SessionIds : session'[t] # 0 => kernel'[session'[t]].status # "dead"
              /\ \A j \in Used' : Placed(j)'
              /\ \A q \in Request : stage'[q] = "evicting" => session'[request'[q].sid] = 0
    BY DEF Serial, Placed, Sid
  <2>2. faults = 0
    BY <1>1, <2>1
  <2>3. ASSUME NEW t \in SessionIds, session'[t] # 0 PROVE kernel'[session'[t]].status # "dead"
    <3>1. CASE t = s
      <4>1. session'[t] = k
        BY <1>1, <1>2, <3>1, InvType
      <4> QED
        BY <1>6, <1>10, <4>1
    <3>2. CASE t # s
      <4>1. session'[t] = session[t]
        BY <1>1, <1>2, <3>2, InvType
      <4>2. session[t] \in Used /\ session[t] \in Kernel /\ kernel[session[t]].status # "dead"
        BY <2>2, <2>3, <4>1, InvType DEF Inv, Serial
      <4> QED
        BY <1>5, <1>10, <4>1, <4>2
    <3> QED
      BY <3>1, <3>2
  <2>4. ASSUME NEW j \in Used' PROVE Placed(j)'
    <3>1. j \in Kernel
      BY DEF Used
    <3>2. CASE j = k
      <4>1. session'[kernel'[k].sid] = k
        BY <1>1, <1>2, <1>6, <1>10, InvType
      <4> QED
        BY <3>2, <4>1 DEF Placed
    <3>3. CASE j # k
      <4>1. j \in Used /\ kernel'[j] = kernel[j]
        BY <1>10, <3>1, <3>3 DEF Used
      <4>2. Placed(j)
        BY <2>2, <4>1 DEF Inv, Serial, Placed
      <4>3. kernel[j].sid = s => session[kernel[j].sid] # j
        BY <1>9, <2>2, <3>1, RequestIsNat
      <4>4. kernel[j].sid # s => session'[kernel[j].sid] = session[kernel[j].sid]
        BY <1>1, <4>1, InvType
      <4>5. closing' = closing
        BY <1>1
      <4> QED
        BY <4>1, <4>2, <4>3, <4>4, <4>5 DEF Placed
    <3> QED
      BY <3>2, <3>3
  <2>5. ASSUME NEW q \in Request, stage'[q] = "evicting" PROVE session'[request'[q].sid] = 0
    <3>1. q # r /\ stage[q] = "evicting"
      BY <1>7, <2>5, InvType DEF LineType
    <3>2. PICK i \in DOMAIN lock : lock[i] = q
      BY <3>1 DEF Inv, KernelInv, Line, LockHeld, AtLock
    <3>3. i = 1
      BY <3>1, <3>2 DEF Inv, KernelInv, Line, LockHeld
    <3>4. Head(lock) = lock[1]
      BY <1>1, InvType, LockHead
    <3> QED
      BY <1>1, <3>1, <3>2, <3>3, <3>4
  <2> QED
    BY <2>3, <2>4, <2>5
<1> QED
  BY <1>10, <1>11, <1>12, <1>13, <1>14, <1>15, <1>16, <1>17, <1>18, Assemble

\* The kernel that the holder of the lock starts is the one that has begun.
LEMMA StartingKernel ==
    ASSUME Inv, lock # <<>>, stage[Head(lock)] = "starting"
    PROVE  /\ Starting(Head(lock)) \in Used /\ Starting(Head(lock)) \in Kernel
           /\ kernel[Starting(Head(lock))].sid = Sid(Head(lock))
           /\ kernel[Starting(Head(lock))].worker = "none"
           /\ Begun = {Starting(Head(lock))}
           /\ Sid(Head(lock)) \in SessionIds
<1> DEFINE r == Head(lock)
<1>1. LockStarts /\ Sid(r) \in SessionIds /\ Sid(r) # Nobody
  BY InvType, LockHead DEF LockStarts
<1>2. \E k \in Kernel : kernel[k].sid = Sid(r) /\ kernel[k].worker = "none"
  BY <1>1 DEF Inv, KernelInv, OneStarts, Begun
<1>3. /\ Starting(r) \in Kernel /\ kernel[Starting(r)].sid = Sid(r)
      /\ kernel[Starting(r)].worker = "none"
  BY <1>2 DEF Starting
<1>4. Starting(r) \in Begun
  BY <1>1, <1>3 DEF Begun
<1> QED
  BY <1>1, <1>3, <1>4 DEF Inv, KernelInv, OneStarts, Used

LEMMA StartEndsStep ==
    ASSUME Inv, NEW r \in Request, StartEnds(r)
    PROVE  Inv'
<1> DEFINE k == Starting(r)
           old == kernel[k]
           row == [old EXCEPT !.proc = TRUE, !.worker = "connect"]
<1>1. /\ lock # <<>> /\ Head(lock) = r /\ stage[r] = "starting"
      /\ Got(r, k, row)
      /\ EmitStatus(Sid(r))
      /\ UNCHANGED <<faults, session, closing, victim>> /\ UNCHANGED <<request, ops>>
  BY DEF StartEnds, Holds
<1>2. /\ k \in Used /\ k \in Kernel /\ old.sid = Sid(r) /\ old.worker = "none" /\ Begun = {k}
      /\ old \in KernelRow /\ RowOk(old)
  BY <1>1, StartingKernel, InvType DEF Inv, KernelInv, RowsOk
<1>3. /\ row \in KernelRow /\ row.sid = old.sid /\ row.queue = old.queue /\ row.item = old.item
      /\ row.status = old.status /\ row.worker = "connect"
  BY <1>2 DEF KernelRow
<1> HIDE DEF k, old, row
<1>4. /\ Leaves /\ answered' \subseteq Request
      /\ kernel' \in [Kernel -> KernelRow]
      /\ \A j \in Kernel \ {k} : kernel'[j] = kernel[j]
      /\ kernel'[k].sid = row.sid /\ kernel'[k].status = row.status
      /\ kernel'[k].worker = row.worker
      /\ RowOk(kernel'[k]) /\ CellMoves(k)
      /\ row.status = "dead" /\ NoCell(row.queue) => NoCell(kernel'[k].queue)
  BY <1>1, <1>2, <1>3, GotKernel DEF old
<1>5. LineGoes /\ ~ LockStarts' /\ SameEviction
  BY <1>4, InvType, LineEnds
<1>6. RestType
  <2>1. meta' \in [SessionIds -> {"none", "partial", "full"}]
    BY <1>1, InvType, EmitType
  <2> QED
    BY <1>1, <1>4, <2>1, InvType DEF RestType
<1>7. \A j \in Kernel : kernel'[j].sid = kernel[j].sid
  BY <1>3, <1>4 DEF old
<1>8. Used' = Used /\ Begun' = {}
  BY <1>2, <1>3, <1>4, <1>7 DEF Used, Begun
<1>9. Counted'
  BY <1>5, <1>8, CountedMore DEF Inv
<1>10. RowsOk'
  BY <1>4 DEF Inv, KernelInv, RowsOk
<1>11. OneStarts'
  BY <1>5, <1>8 DEF OneStarts
<1>12. Tables'
  BY <1>1, <1>6, <1>7, InvType, TableKeeps DEF Inv, KernelInv, Tables, RestType
<1>13. CellsAhead'
  <2>1. \A j \in Kernel : CellMoves(j)
    BY <1>4 DEF CellMoves
  <2> QED
    BY <1>4, <1>5, <2>1, InvType, OrderStep DEF Inv
<1>14. Serial'
  <2>1. ASSUME NEW j \in Used, Placed(j) PROVE Placed(j)'
    <3>1. CASE j = k
      <4>1. Idle(old) => Idle(kernel'[k])
        BY <1>2, <1>3, <1>4 DEF Idle
      <4> QED
        BY <1>1, <1>7, <2>1, <3>1, <4>1, InvType DEF Placed, old
    <3>2. CASE j # k
      BY <1>1, <1>4, <2>1, <3>2, InvType DEF Placed
    <3> QED
      BY <3>1, <3>2
  <2>2. ASSUME NEW s \in SessionIds, session'[s] # 0
        PROVE  /\ session'[s] = session[s]
               /\ kernel'[session[s]].status = "dead" => kernel[session[s]].status = "dead"
    BY <1>1, <1>3, <1>4, <2>2, InvType DEF old
  <2>3. faults' = 0 => \A q \in Request : stage'[q] = "evicting" => session'[request'[q].sid] = 0
    BY <1>1, <1>5, <1>6, EvictionKeeps
  <2> QED
    BY <1>6, <1>7, <2>1, <2>2, <2>3, SerialKeeps
<1> QED
  BY <1>4, <1>5, <1>6, <1>9, <1>10, <1>11, <1>12, <1>13, <1>14, Assemble

LEMMA StartFailsStep ==
    ASSUME Inv, NEW r \in Request, StartFails(r)
    PROVE  Inv'
<1> DEFINE k == Starting(r)
           old == kernel[k]
           row == [old EXCEPT !.worker = "ended", !.status = "dead"]
<1>1. /\ lock # <<>> /\ Head(lock) = r /\ stage[r] = "starting"
      /\ faults < MaxFaults /\ faults' = faults + 1
      /\ session' = [session EXCEPT ![Sid(r)] = 0]
      /\ StageOf(r, "done") /\ lock' = Tail(lock)
      /\ answered' \in {answered, answered \cup {r}}
      /\ Set(k, row)
      /\ UNCHANGED <<meta, closing, victim>> /\ UNCHANGED <<request, ops>>
  BY DEF StartFails, Holds, Fault
<1>2. /\ k \in Used /\ k \in Kernel /\ old.sid = Sid(r) /\ old.worker = "none" /\ Begun = {k}
      /\ old \in KernelRow /\ RowOk(old) /\ Sid(r) \in SessionIds
  BY <1>1, StartingKernel, InvType DEF Inv, KernelInv, RowsOk
<1>3. /\ row \in KernelRow /\ row.sid = old.sid /\ row.queue = old.queue /\ row.item = old.item
      /\ row.worker = "ended"
  BY <1>2 DEF KernelRow
<1> HIDE DEF k, old, row
<1>4. /\ kernel' \in [Kernel -> KernelRow] /\ kernel'[k] = row
      /\ \A j \in Kernel \ {k} : kernel'[j] = kernel[j]
  BY <1>1, <1>2, <1>3, SetRows
<1>5. Leaves
  BY <1>1 DEF Leaves
<1>6. LineGoes /\ ~ LockStarts'
  BY <1>5, InvType, LineEnds
<1>7. RestType
  <2>1. /\ session' \in [SessionIds -> Kernel \cup {0}] /\ answered' \subseteq Request
        /\ faults' \in 0..MaxFaults /\ faults' >= faults /\ UNCHANGED <<meta, closing, victim>>
    BY <1>1, <1>2, InvType
  <2> QED
    BY <2>1, InvType DEF RestType
<1>8. \A j \in Kernel : kernel'[j].sid = kernel[j].sid
  BY <1>3, <1>4 DEF old
<1>9. Used' = Used /\ Begun' = {}
  BY <1>2, <1>3, <1>4, <1>8 DEF Used, Begun
<1>10. Counted'
  BY <1>6, <1>9, CountedMore DEF Inv
<1>11. RowsOk'
  <2>1. RowOk(row)
    BY <1>2, <1>3 DEF RowOk, Used, old
  <2> QED
    BY <1>4, <2>1 DEF Inv, KernelInv, RowsOk
<1>12. OneStarts'
  BY <1>6, <1>9 DEF OneStarts
<1>13. Tables'
  <2>1. \A s \in SessionIds : session'[s] \in {session[s], 0}
    BY <1>1, InvType
  <2>2. closing' \subseteq Used /\ \A s \in SessionIds : session'[s] # 0 => session'[s] \notin closing'
    BY <1>1, <2>1, InvType DEF Inv, KernelInv, Tables
  <2> QED
    BY <1>7, <1>8, <2>1, <2>2, TableKeeps DEF RestType
<1>14. CellsAhead'
  <2>1. \A j \in Kernel : CellMoves(j)
    BY <1>3, <1>4 DEF CellMoves, RowQuiet, old
  <2> QED
    BY <1>4, <1>6, <2>1, InvType, OrderStep DEF Inv
<1>15. Serial'
  BY <1>1, InvType DEF Serial
<1> QED
  BY <1>4, <1>6, <1>7, <1>10, <1>11, <1>12, <1>13, <1>14, <1>15, Assemble

LEMMA ProcessDiesStep ==
    ASSUME Inv, ProcessDies
    PROVE  Inv'
<1> DEFINE Ended(k) == [kernel[k] EXCEPT !.proc = FALSE, !.worker = "ended", !.status = "dead"]
<1>0. /\ faults' \in 0..MaxFaults /\ faults' >= faults /\ faults' # 0
      /\ session' = [s \in SessionIds |-> 0]
      /\ closing' = {} /\ victim' = 0 /\ UNCHANGED <<meta, answered>>
  <2>1. faults < MaxFaults /\ faults' = faults + 1 /\ faults \in Nat /\ MaxFaults \in Nat
    BY InvType DEF ProcessDies, Fault
  <2>2. faults' \in 0..MaxFaults /\ faults' >= faults /\ faults' # 0
    BY <2>1
  <2>3. /\ session' = [s \in SessionIds |-> 0]
        /\ closing' = {} /\ victim' = 0 /\ UNCHANGED <<meta, answered>>
    BY DEF ProcessDies
  <2> QED
    BY <2>2, <2>3
<1>1. /\ kernel' = [k \in Kernel |-> IF kernel[k].sid = Nobody THEN Unused ELSE Ended(k)]
      /\ session' = [s \in SessionIds |-> 0]
      /\ LineDies
      /\ closing' = {} /\ victim' = 0 /\ UNCHANGED <<meta, answered>>
  BY DEF ProcessDies, LineDies, AtLock
<1>2. LineGoes /\ ~ LockStarts'
  BY <1>1, InvType, LineEnds
<1>3. RestType
  BY <1>0, InvType DEF RestType
<1>4. ASSUME NEW k \in Kernel
      PROVE  /\ kernel'[k] \in KernelRow /\ RowOk(kernel'[k]) /\ kernel'[k].sid = kernel[k].sid
             /\ CellMoves(k)
             /\ kernel'[k].sid # Nobody => kernel'[k].worker = "ended"
  <2>1. kernel[k] \in KernelRow /\ RowOk(kernel[k])
    BY InvType DEF Inv, KernelInv, RowsOk
  <2>2. CASE kernel[k].sid = Nobody
    <3>1. kernel'[k] = Unused /\ kernel[k] = Unused
      BY <1>1, <2>1, <2>2 DEF RowOk
    <3> QED
      BY <2>1, <2>2, <3>1 DEF CellMoves
  <2>3. CASE kernel[k].sid # Nobody
    <3>1. kernel'[k] = Ended(k)
      BY <1>1, <2>3
    <3>2. /\ Ended(k) \in KernelRow /\ Ended(k).sid = kernel[k].sid /\ Ended(k).worker = "ended"
          /\ Ended(k).queue = kernel[k].queue /\ Ended(k).item = kernel[k].item
      BY <2>1 DEF KernelRow
    <3> QED
      BY <2>3, <3>1, <3>2 DEF RowOk, CellMoves, RowQuiet
  <2> QED
    BY <2>2, <2>3
<1>5. kernel' \in [Kernel -> KernelRow]
  BY <1>1, <1>4
<1>6. Used' = Used /\ Begun' = {}
  BY <1>4 DEF Used, Begun
<1>7. Counted'
  BY <1>2, <1>6, CountedMore DEF Inv
<1>8. RowsOk' /\ OneStarts' /\ Tables'
  BY <1>1, <1>2, <1>4, <1>6 DEF RowsOk, OneStarts, Tables
<1>9. CellsAhead'
  BY <1>2, <1>4, <1>5, InvType, OrderStep DEF Inv
<1>10. Serial'
  BY <1>0 DEF Serial
<1> QED
  BY <1>2, <1>3, <1>5, <1>7, <1>8, <1>9, <1>10, Assemble

-----------------------------------------------------------------------------
(* The theorems. *)

LEMMA InvInit ==
    ASSUME Init
    PROVE  Inv
<1>1. /\ kernel = [k \in Kernel |-> Unused] /\ meta = [s \in SessionIds |-> "none"]
      /\ answered = {} /\ faults = 0
      /\ session = [s \in SessionIds |-> 0]
      /\ request = [r \in Request |-> [kind |-> "none", sid |-> Nobody]]
      /\ stage = [r \in Request |-> "new"]
      /\ ops = <<>> /\ lock = <<>> /\ closing = {} /\ victim = 0
  BY DEF Init, SessionInit
<1>2. Unused \in KernelRow /\ Unused.queue = <<>> /\ Unused.sid = Nobody /\ Unused.item = 0
      /\ Unused.worker = "none"
  BY DEF Unused, KernelRow
<1>3. TypeOK
  BY <1>1, <1>2, KernelAssumption DEF TypeOK, SessionTypeOK, Stages
<1>4. Line
  BY <1>1 DEF Line, Stored, OpsQueued, LockHeld, InLine, Increasing, Below, AtLock
<1>5. Counted
  <2>1. Used = {} /\ Starters = {}
    BY <1>1, <1>2 DEF Used, Starters
  <2> QED
    BY <2>1, FS_EmptySet DEF Counted
<1>6. RowsOk
  BY <1>1, <1>2 DEF RowsOk, RowOk, NoCell
<1>7. OneStarts
  BY <1>1, <1>2 DEF OneStarts, Begun, LockStarts
<1>8. Tables
  BY <1>1 DEF Tables
<1>9. CellsAhead
  BY <1>1, <1>2, ItemFacts, KernelAssumption DEF CellsAhead, RowInOrder, RowBelow, Request
<1>10. Serial
  BY <1>1, <1>2 DEF Serial, Used
<1> QED
  BY <1>3, <1>4, <1>5, <1>6, <1>7, <1>8, <1>9, <1>10 DEF Inv, KernelInv

LEMMA InvNext ==
    ASSUME Inv, [Next]_vars
    PROVE  Inv'
<1>1. ASSUME NEW r \in Request, EnsureStep(r) PROVE Inv'
  BY <1>1, EnsureFindsStep, EnsureRefusesStep, EvictStep, BeginStartStep, StartEndsStep DEF EnsureStep
<1>2. CASE ManagerNext
  BY <1>1, <1>2, CallStep, QueueAtLockStep, PopCompleteStep, PopCloseStep, CloseEndsStep, ReapStep,
     StartFailsStep, RefreshStep, ProcessDiesStep DEF ManagerNext, ManagerStep
<1>3. CASE \E k \in Kernel : (WorkerStep(k) \/ WorkerFault(k)) /\ UNCHANGED managerVars
  BY <1>3, WorkerInv
<1>4. CASE UNCHANGED vars
  BY <1>4, StutterStep
<1> QED
  BY <1>2, <1>3, <1>4 DEF Next

LEMMA InvAlways == Spec => []Inv
  BY InvInit, InvNext, PTL DEF Spec

\* The model is well typed, whatever fails: in particular every request that starts a
\* kernel finds a KernelSession object of its own, and the start that ends is the one
\* that the holder of ensure_lock began.
THEOREM KernelTypes == Spec => []TypeOK
<1>1. Inv => TypeOK
  BY DEF Inv, KernelInv
<1> QED
  BY <1>1, InvAlways, PTL

LEMMA OrderFollows ==
    ASSUME Inv
    PROVE  CellsInOrder
<1> SUFFICES ASSUME NEW k \in Kernel, NEW i \in DOMAIN kernel[k].queue, IsCell(k, i)
             PROVE  /\ kernel[k].item < kernel[k].queue[i].req
                    /\ \A j \in DOMAIN kernel[k].queue :
                          IsCell(k, j) /\ i < j => kernel[k].queue[i].req < kernel[k].queue[j].req
                    /\ \A s \in SessionIds : session[s] = k =>
                          \A r \in Ahead(s) : kernel[k].queue[i].req < r
  BY DEF CellsInOrder
<1>1. RowInOrder(kernel[k]) /\ \A r \in Request : Waits(r) => RowBelow(kernel[k], r)
  BY DEF Inv, CellsAhead
<1>2. \A s \in SessionIds : \A r \in Ahead(s) : r \in Request /\ Waits(r)
  BY DEF Ahead, Waits, AtLock
<1> QED
  BY <1>1, <1>2 DEF RowInOrder, RowBelow, IsCell

\* The cells of a session reach its kernel in the order of their submission, through
\* evictions, failed starts, restarts and the death of the process.
THEOREM CellsKeepOrder == Spec => []CellsInOrder
  BY OrderFollows, InvAlways, PTL

LEMMA SerialFollows ==
    ASSUME Inv
    PROVE  SerialUnlessClosing
<1> SUFFICES ASSUME faults = 0, NEW j \in Kernel, NEW k \in Kernel, Running(j), Running(k),
                    kernel[j].sid = kernel[k].sid, j # k, j \notin closing, k \notin closing
             PROVE  FALSE
  BY DEF SerialUnlessClosing
<1>1. ASSUME NEW i \in Kernel, Running(i), i \notin closing
      PROVE  session[kernel[i].sid] = i
  <2>1. i \in Used
    BY <1>1 DEF Running, Used, Inv, KernelInv, RowsOk, RowOk, Unused
  <2>2. ~ Idle(kernel[i])
    BY <1>1 DEF Running, Idle
  <2> QED
    BY <1>1, <2>1, <2>2 DEF Inv, Serial
<1> QED
  BY <1>1

\* Two cells of one session run at the same time only while the kernel of one of them is
\* being shut down, as long as nothing fails: however calls, evictions, restarts and the
\* reaper interleave.
THEOREM OneCellAtATime == Spec => []SerialUnlessClosing
  BY SerialFollows, InvAlways, PTL
=============================================================================
