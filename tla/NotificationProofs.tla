--------------------------- MODULE NotificationProofs ---------------------------
(***************************************************************************)
(* The notification pipeline for any events, providers and workers, and    *)
(* any number of attempts, retries, reclaimed ids and faults.              *)
(***************************************************************************)
EXTENDS NotificationProperties, TLAPS

-----------------------------------------------------------------------------
(* The queue. *)

Waits(d) == \E i \in DOMAIN ready : ready[i] = d

LEMMA EnqueueReady ==
    ASSUME ready \in Seq(Delivery), NEW d \in Delivery, Enqueue(d)
    PROVE  /\ ready' \in Seq(Delivery)
           /\ Len(ready') = Len(ready) + 1
           /\ ready'[1] = d
           /\ \A i \in 1..Len(ready) : ready'[i + 1] = ready[i]
  BY DEF Enqueue

LEMMA EnqueueWaits ==
    ASSUME ready \in Seq(Delivery), NEW d \in Delivery, Enqueue(d), NEW e \in Delivery
    PROVE  Waits(e)' <=> Waits(e) \/ e = d
  <1>1. /\ ready' \in Seq(Delivery) /\ Len(ready) \in Nat
        /\ Len(ready') = Len(ready) + 1 /\ ready'[1] = d
        /\ \A i \in 1..Len(ready) : ready'[i + 1] = ready[i]
    BY EnqueueReady
  <1>2. DOMAIN ready = 1..Len(ready) /\ DOMAIN ready' = 1..Len(ready')
    BY <1>1
  <1>3. ASSUME Waits(e) \/ e = d PROVE Waits(e)'
    BY <1>1, <1>2, <1>3 DEF Waits
  <1>4. ASSUME Waits(e)', e # d PROVE Waits(e)
    <2>1. PICK i \in 1..Len(ready') : ready'[i] = e
      BY <1>2, <1>4 DEF Waits
    <2>2. i - 1 \in 1..Len(ready) /\ ready'[(i - 1) + 1] = e
      BY <1>1, <1>4, <2>1
    <2> QED
      BY <1>1, <1>2, <2>2 DEF Waits
  <1> QED
    BY <1>3, <1>4

LEMMA LeaseReady ==
    ASSUME ready \in Seq(Delivery), Lease
    PROVE  /\ ready' \in Seq(Delivery)
           /\ Head(ready) \in Delivery /\ Head(ready) = ready[1] /\ Len(ready) > 0
           /\ Len(ready') = Len(ready) - 1
           /\ \A i \in 1..Len(ready') : ready'[i] = ready[i + 1]
  BY DEF Lease

LEMMA LeaseWaits ==
    ASSUME ready \in Seq(Delivery), Lease, NEW e \in Delivery
    PROVE  /\ Waits(e)' => Waits(e)
           /\ Waits(e) => Waits(e)' \/ e = Head(ready)
  <1>1. /\ ready' \in Seq(Delivery) /\ Len(ready) \in Nat /\ Len(ready) > 0
        /\ Len(ready') = Len(ready) - 1 /\ Head(ready) = ready[1]
        /\ \A i \in 1..Len(ready') : ready'[i] = ready[i + 1]
    BY LeaseReady
  <1>2. DOMAIN ready = 1..Len(ready) /\ DOMAIN ready' = 1..Len(ready')
    BY <1>1
  <1>3. ASSUME Waits(e)' PROVE Waits(e)
    BY <1>1, <1>2, <1>3 DEF Waits
  <1>4. ASSUME Waits(e), e # Head(ready) PROVE Waits(e)'
    <2>1. PICK i \in 1..Len(ready) : ready[i] = e
      BY <1>2, <1>4 DEF Waits
    <2>2. i - 1 \in 1..Len(ready') /\ ready[(i - 1) + 1] = e
      BY <1>1, <1>4, <2>1
    <2> QED
      BY <1>1, <1>2, <2>2 DEF Waits
  <1> QED
    BY <1>3, <1>4

-----------------------------------------------------------------------------
(* Types. *)

LEMMA SenderShape ==
    ASSUME sender \in [Workers -> Sender], NEW w \in Workers
    PROVE  /\ sender[w].pc \in {"push", "leased", "ack", "read", "sending"}
                => sender[w].id \in Delivery
           /\ sender[w].pc = "read" => sender[w].seen \in Row
           /\ sender[w].pc = "sending" => sender[w].attempt \in Nat /\ sender[w].max \in Nat
  BY DEF Sender, At, On

LEMMA RecoveryShape ==
    ASSUME recovery \in [Workers -> Recovery], NEW w \in Workers
    PROVE  /\ recovery[w].pc = "reclaimed" => recovery[w].id \in Delivery
           /\ recovery[w].pc = "commit" =>
                recovery[w].again \subseteq Delivery /\ recovery[w].over \subseteq Delivery
           /\ recovery[w].pc = "requeue" => recovery[w].again \subseteq Delivery
  BY DEF Recovery, At, On

LEMMA RowShape ==
    ASSUME delivery \in [Delivery -> Row \cup {Absent}], NEW d \in Delivery
    PROVE  /\ delivery[d].attempt \in Nat /\ delivery[d].max \in Nat
           /\ delivery[d].status \in Statuses \cup {"NONE"}
           /\ \A s \in Statuses : [delivery[d] EXCEPT !.status = s] \in Row
           /\ \A s \in Statuses, n \in Nat :
                /\ [delivery[d] EXCEPT !.status = s, !.attempt = n] \in Row
                /\ [delivery[d] EXCEPT !.status = s, !.max = n] \in Row
  <1>1. delivery[d] \in [status : Statuses \cup {"NONE"}, attempt : Nat, max : Nat]
    BY DEF Row, Absent
  <1>2. /\ delivery[d].attempt \in Nat /\ delivery[d].max \in Nat
        /\ delivery[d].status \in Statuses \cup {"NONE"}
    BY <1>1
  <1>3. ASSUME NEW s \in Statuses, NEW n \in Nat
        PROVE  /\ [delivery[d] EXCEPT !.status = s] \in Row
               /\ [delivery[d] EXCEPT !.status = s, !.attempt = n] \in Row
               /\ [delivery[d] EXCEPT !.status = s, !.max = n] \in Row
    BY <1>1 DEF Row
  <1> QED
    BY <1>2, <1>3

\* The rows after a status was written, and the other rows.
LEMMA StatusWritten ==
    ASSUME delivery \in [Delivery -> Row \cup {Absent}], NEW d \in Delivery,
           NEW s \in Statuses, SetStatus(d, s)
    PROVE  /\ delivery' \in [Delivery -> Row \cup {Absent}]
           /\ delivery'[d].status = s
           /\ delivery'[d].attempt = delivery[d].attempt
           /\ delivery'[d].max = delivery[d].max
           /\ \A e \in Delivery \ {d} : delivery'[e] = delivery[e]
  <1>1. [delivery[d] EXCEPT !.status = s] \in Row
    BY RowShape
  <1>2. /\ [delivery[d] EXCEPT !.status = s].status = s
        /\ [delivery[d] EXCEPT !.status = s].attempt = delivery[d].attempt
        /\ [delivery[d] EXCEPT !.status = s].max = delivery[d].max
    BY DEF Row, Absent
  <1> QED
    BY <1>1, <1>2 DEF SetStatus

LEMMA SenderMoved ==
    ASSUME sender \in [Workers -> Sender], NEW w \in Workers, NEW state \in Sender,
           SenderAt(w, state)
    PROVE  /\ sender' \in [Workers -> Sender] /\ sender'[w] = state
           /\ \A v \in Workers \ {w} : sender'[v] = sender[v]
  BY DEF SenderAt

LEMMA RecoveryMoved ==
    ASSUME recovery \in [Workers -> Recovery], NEW w \in Workers, NEW state \in Recovery,
           RecoveryAt(w, state)
    PROVE  /\ recovery' \in [Workers -> Recovery] /\ recovery'[w] = state
           /\ \A v \in Workers \ {w} : recovery'[v] = recovery[v]
  BY DEF RecoveryAt

LEMMA States ==
    /\ At("idle") \in Sender /\ At("down") \in Sender
    /\ \A d \in Delivery : /\ On("push", d) \in Sender /\ On("leased", d) \in Sender
                           /\ On("ack", d) \in Sender
                           /\ On("reclaimed", d) \in Recovery
    /\ At("idle") \in Recovery
    /\ \A ids \in SUBSET Delivery : Requeue(ids) \in Recovery
  <1>1. At("idle") \in Sender /\ At("down") \in Sender
    BY DEF Sender
  <1>2. ASSUME NEW d \in Delivery
        PROVE  /\ On("push", d) \in Sender /\ On("leased", d) \in Sender
               /\ On("ack", d) \in Sender
               /\ On("reclaimed", d) \in Recovery
    BY DEF Sender, Recovery
  <1>3. At("idle") \in Recovery
    BY DEF Recovery
  <1>4. ASSUME NEW ids \in SUBSET Delivery PROVE Requeue(ids) \in Recovery
    BY <1>3 DEF Recovery, Requeue
  <1> QED
    BY <1>1, <1>2, <1>3, <1>4

LEMMA CopyRemoved ==
    ASSUME processing \in [Delivery -> Nat], NEW d \in Delivery, RemoveCopy(d)
    PROVE  processing' \in [Delivery -> Nat]
  BY DEF RemoveCopy

LEMMA SendingState ==
    ASSUME NEW d \in Delivery, NEW n \in Nat, NEW m \in Nat
    PROVE  [pc |-> "sending", id |-> d, attempt |-> n, max |-> m] \in Sender
  BY DEF Sender

LEMMA TypesInitially == Init => TypeOK
  <1> SUFFICES ASSUME Init PROVE TypeOK
    OBVIOUS
  <1>1. QueueTypeOK
    BY DEF Init, QueueInit, QueueTypeOK, NoCopies
  <1>2. delivery \in [Delivery -> Row \cup {Absent}]
    BY DEF Init
  <1>3. sender \in [Workers -> Sender] /\ recovery \in [Workers -> Recovery]
    BY States DEF Init
  <1>4. enabled \in [Providers -> BOOLEAN] /\ client \subseteq Delivery /\ faulty \in BOOLEAN
    BY DEF Init
  <1>5. notifier \in [Workers -> SUBSET Delivery]
    BY DEF Init
  <1>6. spent \in 0..MaxSpent
    BY NotificationAssumption DEF Init
  <1> QED
    BY <1>1, <1>2, <1>3, <1>4, <1>5, <1>6 DEF TypeOK

\* What is read of TypeOK, for the steps below.
LEMMA TypeParts ==
    ASSUME TypeOK
    PROVE  /\ ready \in Seq(Delivery) /\ processing \in [Delivery -> Nat]
           /\ delayed \subseteq Delivery
           /\ enabled \in [Providers -> BOOLEAN]
           /\ delivery \in [Delivery -> Row \cup {Absent}]
           /\ sender \in [Workers -> Sender] /\ recovery \in [Workers -> Recovery]
           /\ notifier \in [Workers -> SUBSET Delivery] /\ client \subseteq Delivery
           /\ spent \in 0..MaxSpent /\ faulty \in BOOLEAN
  BY DEF TypeOK, QueueTypeOK

LEMMA SpendType == TypeOK /\ Spend => spent' \in 0..MaxSpent
  BY NotificationAssumption DEF TypeOK, Spend

LEMMA NotifyTypes ==
    ASSUME TypeOK, NEW w \in Workers, NotifyPush(w) \/ \E e \in Events : NotifyCommit(w, e)
    PROVE  TypeOK'
  <1> USE TypeParts
  <1>1. ASSUME NEW e \in Events, NotifyCommit(w, e) PROVE TypeOK'
    <2> DEFINE new == {d \in {e} \X Providers : enabled[d[2]] /\ ~ Exists(d)}
    <2>1. PICK x \in {new} :
             /\ delivery' = [d \in Delivery |->
                   IF d \in x THEN [status |-> "PENDING", attempt |-> 0, max |-> MaxAttempts]
                              ELSE delivery[d]]
             /\ notifier' = [notifier EXCEPT ![w] = x]
      BY <1>1 DEF NotifyCommit
    <2>5. x \subseteq Delivery
      BY DEF Delivery
    <2> HIDE DEF new
    <2>2. [status |-> "PENDING", attempt |-> 0, max |-> MaxAttempts] \in Row
      BY NotificationAssumption DEF Row, Statuses
    <2>3. delivery' \in [Delivery -> Row \cup {Absent}]
      BY <2>1, <2>2
    <2>4. notifier' \in [Workers -> SUBSET Delivery]
      BY <2>1, <2>5
    <2> QED
      BY <1>1, <2>3, <2>4 DEF TypeOK, QueueTypeOK, NotifyCommit, nQueueVars
  <1>2. CASE NotifyPush(w)
    <2>1. PICK d \in notifier[w] : Enqueue(d) /\ notifier' = [notifier EXCEPT ![w] = @ \ {d}]
      BY <1>2 DEF NotifyPush
    <2>2. d \in Delivery
      BY <2>1
    <2>3. ready' \in Seq(Delivery)
      BY <2>1, <2>2, EnqueueReady
    <2>4. notifier' \in [Workers -> SUBSET Delivery]
      BY <2>1
    <2> QED
      BY <1>2, <2>3, <2>4 DEF TypeOK, QueueTypeOK, NotifyPush, rowVars
  <1> QED
    BY <1>1, <1>2

\* A step of the loop of w that leaves the rows alone.
LEMMA LoopTypes ==
    ASSUME TypeOK, NEW w \in Workers, NEW state \in Sender, SenderAt(w, state),
           ready' \in Seq(Delivery), processing' \in [Delivery -> Nat],
           delayed' \subseteq Delivery, delivery' \in [Delivery -> Row \cup {Absent}],
           UNCHANGED <<enabled, senderFrame>>
    PROVE  TypeOK'
  BY SenderMoved, TypeParts DEF TypeOK, QueueTypeOK, senderFrame

\* The ids that Redis holds and the processes have in hand.
Mentioned(d) ==
    \/ InFlight(d)
    \/ processing[d] > 0
    \/ \E w \in Workers :
         \/ sender[w].pc \in {"sending", "ack"} /\ sender[w].id = d
         \/ recovery[w].pc = "commit" /\ d \in recovery[w].again \cup recovery[w].over

\* They are ids of rows.
OnlyStored == \A d \in Delivery : Mentioned(d) => Exists(d)

LEMMA SenderTypes ==
    ASSUME TypeOK, OnlyStored, NEW w \in Workers, SenderStep(w)
    PROVE  TypeOK'
  <1> USE TypeParts, States
  <1> DEFINE d == sender[w].id
  <1>1. CASE PromoteRemove(w)
    <2>1. PICK e \in delayed : delayed' = delayed \ {e} /\ SenderAt(w, On("push", e))
      BY <1>1 DEF PromoteRemove
    <2>2. On("push", e) \in Sender
      BY <2>1
    <2> QED
      BY <1>1, <2>1, <2>2, LoopTypes DEF PromoteRemove, rowVars
  <1>2. CASE PromotePush(w)
    <2>1. d \in Delivery /\ ready' \in Seq(Delivery)
      BY <1>2, SenderShape, EnqueueReady DEF PromotePush
    <2> QED
      BY <1>2, <2>1, LoopTypes DEF PromotePush, rowVars
  <1>3. CASE LeaseNext(w)
    <2>1. Head(ready) \in Delivery /\ ready' \in Seq(Delivery)
      BY <1>3, LeaseReady DEF LeaseNext
    <2>2. processing' \in [Delivery -> Nat]
      BY <1>3 DEF LeaseNext, Lease
    <2>3. On("leased", Head(ready)) \in Sender
      BY <2>1
    <2> QED
      BY <1>3, <2>1, <2>2, <2>3, LoopTypes DEF LeaseNext, rowVars
  <1>4. CASE Read(w)
    <2>1. d \in Delivery
      BY <1>4, SenderShape DEF Read
    <2>2. CASE delivery[d].status = "SENT"
      BY <1>4, <2>1, <2>2, LoopTypes DEF Read, rowVars, nQueueVars
    <2>3. CASE delivery[d].status # "SENT"
      <3> DEFINE state == [pc |-> "read", id |-> d, seen |-> delivery[d]]
      <3>1. SenderAt(w, state) /\ UNCHANGED <<ready, processing, delayed, delivery, enabled>>
            /\ UNCHANGED senderFrame
        BY <1>4, <2>3 DEF Read, rowVars, nQueueVars
      <3>2. delivery[d] \in Row
        <4>1. Mentioned(d)
          BY <1>4 DEF Read, Mentioned, InFlight
        <4> QED
          BY <2>1, <4>1 DEF OnlyStored, Exists, Absent
      <3>3. state \in Sender
        BY <2>1, <3>2 DEF Sender
      <3> HIDE DEF state
      <3> QED
        BY <3>1, <3>3, LoopTypes
    <2> QED
      BY <2>2, <2>3
  <1>5. CASE MarkFailed(w)
    <2>1. d \in Delivery /\ SetStatus(d, "FAILED")
      BY <1>5, SenderShape DEF MarkFailed
    <2>2. delivery' \in [Delivery -> Row \cup {Absent}]
      BY <2>1, StatusWritten DEF Statuses
    <2> QED
      BY <1>5, <2>1, <2>2, LoopTypes DEF MarkFailed, nQueueVars
  <1>6. CASE Mark(w)
    <2> DEFINE attempt == sender[w].seen.attempt + 1
               state == [pc |-> "sending", id |-> d, attempt |-> attempt,
                         max |-> sender[w].seen.max]
    <2>1. /\ SenderAt(w, state) /\ UNCHANGED <<ready, processing, delayed, enabled>>
          /\ UNCHANGED senderFrame
          /\ delivery' = [delivery EXCEPT ![d].status = "SENDING", ![d].attempt = attempt]
          /\ sender[w].pc = "read"
      BY <1>6 DEF Mark, nQueueVars
    <2>2. d \in Delivery /\ attempt \in Nat /\ sender[w].seen.max \in Nat
      BY <2>1, SenderShape DEF Row
    <2> HIDE DEF attempt, d
    <2>3. state \in Sender
      BY <2>2, SendingState
    <2> HIDE DEF state
    <2>4. delivery' \in [Delivery -> Row \cup {Absent}]
      BY <2>1, <2>2, RowShape DEF Statuses
    <2> QED
      BY <2>1, <2>3, <2>4, LoopTypes
  <1>7. CASE FinishSent(w)
    <2>1. d \in Delivery /\ SetStatus(d, "SENT")
      BY <1>7, SenderShape DEF FinishSent
    <2>2. delivery' \in [Delivery -> Row \cup {Absent}]
      BY <2>1, StatusWritten DEF Statuses
    <2> QED
      BY <1>7, <2>1, <2>2, LoopTypes DEF FinishSent, nQueueVars
  <1>8. CASE FinishFailure(w)
    <2>1. d \in Delivery
      BY <1>8, SenderShape DEF FinishFailure
    <2>2. delivery' \in [Delivery -> Row \cup {Absent}]
      BY <1>8, <2>1, StatusWritten DEF FinishFailure, Statuses
    <2>3. delayed' \subseteq Delivery
      BY <1>8, <2>1 DEF FinishFailure, EnqueueDelayed
    <2> QED
      BY <1>8, <2>1, <2>2, <2>3, LoopTypes DEF FinishFailure
  <1>9. CASE Ack(w)
    <2>1. d \in Delivery
      BY <1>9, SenderShape DEF Ack
    <2>2. processing' \in [Delivery -> Nat]
      BY <1>9, <2>1, CopyRemoved DEF Ack
    <2> QED
      BY <1>9, <2>2, LoopTypes DEF Ack, rowVars
  <1> QED
    BY <1>1, <1>2, <1>3, <1>4, <1>5, <1>6, <1>7, <1>8, <1>9 DEF SenderStep

\* A step of the recovery loop of w.
LEMMA PassTypes ==
    ASSUME TypeOK, NEW w \in Workers, NEW state \in Recovery, RecoveryAt(w, state),
           ready' \in Seq(Delivery), processing' \in [Delivery -> Nat],
           delivery' \in [Delivery -> Row \cup {Absent}], spent' \in 0..MaxSpent,
           UNCHANGED <<delayed, enabled, recoveryFrame, faulty>>
    PROVE  TypeOK'
  BY RecoveryMoved, TypeParts DEF TypeOK, QueueTypeOK, recoveryFrame

LEMMA RecoveryTypes ==
    ASSUME TypeOK, OnlyStored, NEW w \in Workers, RecoveryStep(w)
    PROVE  TypeOK'
  <1> USE TypeParts, States
  <1>1. CASE Reclaim(w)
    <2>1. PICK d \in Delivery : RemoveCopy(d) /\ RecoveryAt(w, On("reclaimed", d))
      BY <1>1 DEF Reclaim
    <2>2. processing' \in [Delivery -> Nat] /\ On("reclaimed", d) \in Recovery
      BY <2>1, CopyRemoved
    <2>3. spent' \in 0..MaxSpent
      BY <1>1, SpendType DEF Reclaim
    <2> QED
      BY <1>1, <2>1, <2>2, <2>3, PassTypes DEF Reclaim, rowVars
  <1>2. CASE ReclaimPush(w)
    <2>1. recovery[w].id \in Delivery
      BY <1>2, RecoveryShape DEF ReclaimPush
    <2>2. ready' \in Seq(Delivery)
      BY <1>2, <2>1, EnqueueReady DEF ReclaimPush
    <2> QED
      BY <1>2, <2>2, PassTypes DEF ReclaimPush, rowVars
  <1>3. CASE FindStale(w)
    <2> DEFINE found(x) == [pc |-> "commit", again |-> {d \in x : ~ OutOfAttempts(d)},
                            over |-> {d \in x : OutOfAttempts(d)}]
    <2>1. PICK x \in SUBSET Delivery : RecoveryAt(w, found(x))
      BY <1>3 DEF FindStale
    <2>2. found(x) \in Recovery
      BY DEF Recovery
    <2> HIDE DEF found
    <2> QED
      BY <1>3, <2>1, <2>2, PassTypes DEF FindStale, rowVars, nQueueVars
  <1>4. CASE RecoverCommit(w)
    <2>1. recovery[w].again \subseteq Delivery
      BY <1>4, RecoveryShape DEF RecoverCommit
    <2>2. delivery' \in [Delivery -> Row \cup {Absent}]
      BY <1>4, RowShape DEF RecoverCommit, Statuses
    <2>3. Requeue(recovery[w].again) \in Recovery
      BY <2>1
    <2> QED
      BY <1>4, <2>2, <2>3, PassTypes DEF RecoverCommit, nQueueVars
  <1>5. CASE RecoverPush(w)
    <2>1. PICK d \in recovery[w].again :
             Enqueue(d) /\ RecoveryAt(w, Requeue(recovery[w].again \ {d}))
      BY <1>5 DEF RecoverPush
    <2>2. recovery[w].again \subseteq Delivery
      BY <1>5, RecoveryShape DEF RecoverPush
    <2>3. ready' \in Seq(Delivery) /\ Requeue(recovery[w].again \ {d}) \in Recovery
      BY <2>1, <2>2, EnqueueReady
    <2> QED
      BY <1>5, <2>1, <2>3, PassTypes DEF RecoverPush, rowVars
  <1> QED
    BY <1>1, <1>2, <1>3, <1>4, <1>5 DEF RecoveryStep

LEMMA ApiTypes ==
    ASSUME TypeOK, OnlyStored, NEW d \in Delivery, RetryCommit(d) \/ RetryPush(d)
    PROVE  TypeOK'
  <1> USE TypeParts
  <1>1. CASE RetryCommit(d)
    <2> DEFINE n == IF OutOfAttempts(d) THEN delivery[d].attempt + 1 ELSE delivery[d].max
    <2>1. delivery' = [delivery EXCEPT ![d].status = "PENDING", ![d].max = n]
      BY <1>1 DEF RetryCommit
    <2>2. n \in Nat
      <3>1. delivery[d].attempt \in Nat /\ delivery[d].max \in Nat
        BY RowShape
      <3> QED
        BY <3>1
    <2> HIDE DEF n
    <2>3. delivery' \in [Delivery -> Row \cup {Absent}]
      BY <2>1, <2>2, RowShape DEF Statuses
    <2>4. spent' \in 0..MaxSpent /\ client' \subseteq Delivery
      BY <1>1, SpendType DEF RetryCommit
    <2> QED
      BY <1>1, <2>3, <2>4 DEF RetryCommit, TypeOK, QueueTypeOK, nQueueVars
  <1>2. CASE RetryPush(d)
    <2>1. ready' \in Seq(Delivery) /\ client' \subseteq Delivery
      BY <1>2, EnqueueReady DEF RetryPush
    <2> QED
      BY <1>2, <2>1 DEF RetryPush, TypeOK, QueueTypeOK, rowVars
  <1> QED
    BY <1>1, <1>2

LEMMA FaultTypes ==
    ASSUME TypeOK, NEW w \in Workers, Crash(w) \/ FinishFails(w) \/ Stop(w) \/ Restart(w)
    PROVE  TypeOK'
  <1> USE TypeParts, States
  <1>1. CASE Crash(w)
    <2>1. spent' \in 0..MaxSpent /\ faulty' \in BOOLEAN
      BY <1>1, SpendType DEF Crash, Fault
    <2>2. sender' \in [Workers -> Sender] /\ recovery' \in [Workers -> Recovery]
      BY <1>1, SenderMoved, RecoveryMoved DEF Crash
    <2>3. notifier' \in [Workers -> SUBSET Delivery]
      BY <1>1 DEF Crash
    <2> QED
      BY <1>1, <2>1, <2>2, <2>3 DEF Crash, TypeOK, QueueTypeOK, nQueueVars, rowVars
  <1>2. CASE FinishFails(w)
    <2>1. spent' \in 0..MaxSpent /\ faulty' \in BOOLEAN
      BY <1>2, SpendType DEF FinishFails, Fault
    <2>2. sender[w].id \in Delivery
      BY <1>2, SenderShape DEF FinishFails
    <2>3. sender' \in [Workers -> Sender] /\ delayed' \subseteq Delivery
      BY <1>2, <2>2, SenderMoved DEF FinishFails, EnqueueDelayed
    <2> QED
      BY <1>2, <2>1, <2>3 DEF FinishFails, TypeOK, QueueTypeOK, rowVars
  <1>3. CASE Stop(w)
    <2>1. spent' \in 0..MaxSpent /\ faulty' \in BOOLEAN
      BY <1>3, SpendType DEF Stop, Fault
    <2>2. sender' \in [Workers -> Sender]
      BY <1>3, SenderMoved DEF Stop
    <2>3. ready' \in Seq(Delivery) /\ processing' \in [Delivery -> Nat]
      <3>1. CASE sender[w].pc = "sending" /\ Enqueue(sender[w].id) /\ RemoveCopy(sender[w].id)
        <4>1. sender[w].id \in Delivery
          BY <3>1, SenderShape
        <4> QED
          BY <3>1, <4>1, EnqueueReady, CopyRemoved
      <3>2. CASE UNCHANGED <<ready, processing>>
        BY <3>2
      <3> QED
        BY <1>3, <3>1, <3>2 DEF Stop
    <2> QED
      BY <1>3, <2>1, <2>2, <2>3 DEF Stop, TypeOK, QueueTypeOK, rowVars
  <1>4. CASE Restart(w)
    <2>1. sender' \in [Workers -> Sender]
      BY <1>4, SenderMoved DEF Restart
    <2> QED
      BY <1>4, <2>1 DEF Restart, TypeOK, QueueTypeOK, nQueueVars, rowVars
  <1> QED
    BY <1>1, <1>2, <1>3, <1>4

LEMMA TypesKept ==
    ASSUME TypeOK, OnlyStored, [Next]_vars
    PROVE  TypeOK'
  <1>1. ASSUME NEW p \in Providers, Administer(p) PROVE TypeOK'
    BY <1>1, TypeParts DEF Administer, TypeOK, QueueTypeOK, nQueueVars
  <1>2. CASE UNCHANGED vars
    BY <1>2 DEF vars, nQueueVars, rowVars, TypeOK, QueueTypeOK
  <1> QED
    BY <1>1, <1>2, NotifyTypes, SenderTypes, RecoveryTypes, ApiTypes, FaultTypes DEF Next

-----------------------------------------------------------------------------
(* Where an id goes. *)

Known(d) == Exists(d) => Exists(d)'

Followed(d) ==
    /\ Mentioned(d)' => Mentioned(d) \/ Exists(d)'
    /\ ~ faulty' /\ delivery'[d].status = "PENDING"
          /\ (delivery[d].status = "PENDING" => InFlight(d))
         => InFlight(d)'

LEMMA QueueIs ==
    ASSUME NEW d \in Delivery
    PROVE  /\ InQueue(d) <=> d \in delayed \/ Waits(d)
           /\ InQueue(d)' <=> d \in delayed' \/ Waits(d)'
           /\ ready' = ready => (Waits(d)' <=> Waits(d))
  BY DEF InQueue, Waits

\* A step of the loop of w with the id e that it has, or takes: the others stay where
\* they are.
LEMMA LoopMoves ==
    ASSUME TypeOK, NEW w \in Workers, NEW e \in Delivery,
           \A v \in Workers \ {w} : sender'[v] = sender[v],
           sender'[w].pc # "idle" => sender'[w].id = e,
           UNCHANGED senderFrame,
           \A d \in Delivery \ {e} :
              /\ delivery'[d] = delivery[d]
              /\ InQueue(d)' <=> InQueue(d)
              /\ processing'[d] = processing[d],
           sender[w].pc # "idle" => sender[w].id = e,
           Known(e), Followed(e),
           NEW d \in Delivery
    PROVE  Known(d) /\ Followed(d)
  <1>1. CASE d = e
    BY <1>1
  <1>2. CASE d # e
    <2>1. \A v \in Workers \ {w} : sender'[v] = sender[v]
      OBVIOUS
    <2>2. UNCHANGED <<recovery, notifier, client, faulty>>
      BY DEF senderFrame
    <2>3. /\ delivery'[d] = delivery[d] /\ (InQueue(d)' <=> InQueue(d))
          /\ processing'[d] = processing[d]
      BY <1>2
    <2>4. InFlight(d)' <=> InFlight(d)
      BY <1>2, <2>1, <2>2, <2>3 DEF InFlight
    <2>5. Mentioned(d)' <=> Mentioned(d)
      BY <1>2, <2>1, <2>2, <2>3, <2>4 DEF Mentioned
    <2> QED
      BY <2>2, <2>3, <2>4, <2>5 DEF Known, Followed, Exists
  <1> QED
    BY <1>1, <1>2

LEMMA LoopFollows ==
    ASSUME TypeOK, NEW w \in Workers, SenderStep(w), NEW d \in Delivery
    PROVE  Known(d) /\ Followed(d)
  <1> USE TypeParts
  <1>0. PICK has : has = sender[w].id
    OBVIOUS
  <1>1. ASSUME sender[w].pc \in {"push", "leased", "read", "sending", "ack"}
        PROVE  has \in Delivery /\ Mentioned(has)
    BY <1>0, <1>1, SenderShape DEF Mentioned, InFlight
  <1>12. ASSUME NEW state, SenderAt(w, state)
         PROVE  sender'[w] = state /\ \A v \in Workers \ {w} : sender'[v] = sender[v]
    BY <1>12 DEF SenderAt
  <1>2. CASE PromoteRemove(w)
    <2>1. PICK e \in delayed : delayed' = delayed \ {e} /\ SenderAt(w, On("push", e))
      BY <1>2 DEF PromoteRemove
    <2>2. e \in Delivery /\ Mentioned(e)
      BY <2>1 DEF Mentioned, InFlight, InQueue
    <2>3. sender'[w].pc = "push" /\ sender'[w].id = e
          /\ \A v \in Workers \ {w} : sender'[v] = sender[v]
      BY <2>1, <1>12 DEF On
    <2>4. Known(e) /\ Followed(e)
      BY <1>2, <2>2, <2>3
      DEF Known, Followed, InFlight, Exists, PromoteRemove, rowVars
    <2>5. \A x \in Delivery \ {e} : /\ delivery'[x] = delivery[x]
                                    /\ InQueue(x)' <=> InQueue(x)
                                    /\ processing'[x] = processing[x]
      BY <1>2, <2>1, QueueIs DEF PromoteRemove, rowVars
    <2> QED
      BY <1>2, <2>2, <2>3, <2>4, <2>5, LoopMoves DEF PromoteRemove
  <1>3. CASE PromotePush(w)
    <2>1. sender[w].pc = "push" /\ has \in Delivery /\ Mentioned(has) /\ Enqueue(has)
      BY <1>0, <1>1, <1>3 DEF PromotePush
    <2>2. \A x \in Delivery : InQueue(x)' <=> InQueue(x) \/ x = has
      BY <1>3, <2>1, QueueIs, EnqueueWaits DEF PromotePush
    <2>4. sender'[w].pc = "idle" /\ \A v \in Workers \ {w} : sender'[v] = sender[v]
      BY <1>3, <1>12 DEF PromotePush, At
    <2>3. Known(has) /\ Followed(has)
      BY <1>3, <2>1, <2>2 DEF Known, Followed, InFlight, Exists, PromotePush, rowVars
    <2> QED
      BY <1>0, <1>3, <2>1, <2>2, <2>3, <2>4, LoopMoves DEF PromotePush, rowVars
  <1>4. CASE LeaseNext(w)
    <2>0. PICK e : e = Head(ready)
      OBVIOUS
    <2>1. Lease /\ e \in Delivery /\ SenderAt(w, On("leased", e)) /\ Waits(e)
      <3>1. Lease /\ SenderAt(w, On("leased", e))
        BY <1>4, <2>0 DEF LeaseNext
      <3>2. e \in Delivery /\ e = ready[1] /\ 1 \in DOMAIN ready
        BY <2>0, <3>1, LeaseReady
      <3> QED
        BY <3>1, <3>2 DEF Waits
    <2>2. /\ processing' = [processing EXCEPT ![e] = @ + 1]
          /\ UNCHANGED <<delayed, delivery, senderFrame>>
          /\ sender[w].pc = "idle"
      BY <1>4, <2>0 DEF LeaseNext, Lease, rowVars
    <2>3. Mentioned(e)
      BY <2>1, QueueIs DEF Mentioned, InFlight
    <2>4. \A x \in Delivery \ {e} : InQueue(x)' <=> InQueue(x)
      BY <2>1, <2>2, QueueIs, LeaseWaits, <2>0
    <2>5. sender'[w].pc = "leased" /\ sender'[w].id = e
          /\ \A v \in Workers \ {w} : sender'[v] = sender[v]
      BY <2>1, <1>12 DEF On
    <2>6. Known(e) /\ Followed(e)
      BY <2>1, <2>2, <2>3, <2>5 DEF Known, Followed, InFlight, Exists
    <2>7. \A x \in Delivery \ {e} : /\ delivery'[x] = delivery[x]
                                    /\ processing'[x] = processing[x]
      BY <2>2
    <2> QED
      BY <2>1, <2>2, <2>4, <2>5, <2>6, <2>7, LoopMoves
  <1>5. CASE Read(w)
    <2>1. /\ sender[w].pc = "leased" /\ has \in Delivery /\ Mentioned(has)
          /\ UNCHANGED <<ready, delayed, processing, delivery, senderFrame>>
      BY <1>0, <1>1, <1>5 DEF Read, nQueueVars, rowVars
    <2>2. \A x \in Delivery : InQueue(x)' <=> InQueue(x)
      BY <2>1, QueueIs
    <2>3. CASE delivery[has].status = "SENT"
      <3>1. SenderAt(w, On("ack", has))
        BY <1>0, <1>5, <2>3 DEF Read
      <3>2. Known(has) /\ Followed(has)
        BY <2>1, <2>3 DEF Known, Followed, Exists
      <3>3. sender'[w].id = has /\ \A v \in Workers \ {w} : sender'[v] = sender[v]
        BY <3>1, <1>12 DEF On
      <3> QED
        BY <1>0, <2>1, <2>2, <3>2, <3>3, LoopMoves
    <2>4. CASE delivery[has].status # "SENT"
      <3> DEFINE state == [pc |-> "read", id |-> has, seen |-> delivery[has]]
      <3>1. SenderAt(w, state)
        BY <1>0, <1>5, <2>4 DEF Read
      <3>2. sender'[w].pc = "read" /\ sender'[w].id = has
            /\ \A v \in Workers \ {w} : sender'[v] = sender[v]
        BY <3>1, <1>12
      <3>3. Known(has) /\ Followed(has)
        BY <2>1, <3>2 DEF Known, Followed, Exists, InFlight
      <3> QED
        BY <1>0, <2>1, <2>2, <3>2, <3>3, LoopMoves
    <2> QED
      BY <2>3, <2>4
  <1>6. ASSUME sender[w].pc \in {"read", "sending"}, has \in Delivery,
               sender'[w].id = has, \A v \in Workers \ {w} : sender'[v] = sender[v],
               UNCHANGED <<ready, processing, senderFrame>>,
               \A x \in Delivery \ {has} : delivery'[x] = delivery[x]
                                           /\ (x \in delayed' <=> x \in delayed),
               delivery'[has].status \in Statuses,
               delivery'[has].status = "PENDING" => has \in delayed'
        PROVE  Known(d) /\ Followed(d)
    <2>1. Mentioned(has)
      BY <1>1, <1>6
    <2>2. InQueue(has)' <=> has \in delayed' \/ Waits(has)'
      BY <1>6, QueueIs
    <2>3. Known(has) /\ Followed(has)
      BY <1>6, <2>1, <2>2 DEF Known, Followed, Exists, InFlight, Statuses
    <2>4. \A x \in Delivery \ {has} : /\ delivery'[x] = delivery[x]
                                      /\ InQueue(x)' <=> InQueue(x)
                                      /\ processing'[x] = processing[x]
      BY <1>6, QueueIs
    <2> QED
      BY <1>0, <1>6, <2>3, <2>4, LoopMoves
  <1>7. CASE MarkFailed(w)
    <2>1. sender[w].pc = "read" /\ has \in Delivery /\ SetStatus(has, "FAILED")
      BY <1>0, <1>1, <1>7 DEF MarkFailed
    <2>2. /\ delivery'[has].status = "FAILED"
          /\ \A x \in Delivery \ {has} : delivery'[x] = delivery[x]
      BY <2>1, StatusWritten DEF Statuses
    <2>3. sender'[w].id = has /\ \A v \in Workers \ {w} : sender'[v] = sender[v]
      BY <1>0, <1>7, <1>12 DEF MarkFailed, On
    <2> QED
      BY <1>6, <1>7, <2>1, <2>2, <2>3 DEF MarkFailed, nQueueVars, Statuses
  <1>8. CASE Mark(w)
    <2> DEFINE attempt == sender[w].seen.attempt + 1
               state == [pc |-> "sending", id |-> has, attempt |-> attempt,
                         max |-> sender[w].seen.max]
    <2>1. /\ sender[w].pc = "read" /\ has \in Delivery
          /\ delivery' = [delivery EXCEPT ![has].status = "SENDING", ![has].attempt = attempt]
          /\ SenderAt(w, state)
          /\ UNCHANGED <<ready, processing, delayed, senderFrame>>
      BY <1>0, <1>1, <1>8 DEF Mark, nQueueVars
    <2>2. delivery'[has].status = "SENDING"
      <3>1. delivery[has] \in [status : Statuses \cup {"NONE"}, attempt : Nat, max : Nat]
        BY <2>1 DEF Row, Absent
      <3> QED
        BY <2>1, <3>1
    <2>3. \A x \in Delivery \ {has} : delivery'[x] = delivery[x]
      BY <2>1
    <2>4. sender'[w].id = has /\ \A v \in Workers \ {w} : sender'[v] = sender[v]
      BY <2>1, <1>12
    <2> QED
      BY <1>6, <2>1, <2>2, <2>3, <2>4 DEF Statuses
  <1>9. CASE FinishSent(w)
    <2>1. sender[w].pc = "sending" /\ has \in Delivery /\ SetStatus(has, "SENT")
      BY <1>0, <1>1, <1>9 DEF FinishSent
    <2>2. /\ delivery'[has].status = "SENT"
          /\ \A x \in Delivery \ {has} : delivery'[x] = delivery[x]
      BY <2>1, StatusWritten DEF Statuses
    <2>3. sender'[w].id = has /\ \A v \in Workers \ {w} : sender'[v] = sender[v]
      BY <1>0, <1>9, <1>12 DEF FinishSent, On
    <2> QED
      BY <1>6, <1>9, <2>1, <2>2, <2>3 DEF FinishSent, nQueueVars, Statuses
  <1>10. CASE FinishFailure(w)
    <2>1. /\ sender[w].pc = "sending" /\ has \in Delivery
          /\ UNCHANGED <<ready, processing, senderFrame>>
          /\ SenderAt(w, On("ack", has))
      BY <1>0, <1>1, <1>10 DEF FinishFailure
    <2>4. sender'[w].id = has /\ \A v \in Workers \ {w} : sender'[v] = sender[v]
      BY <2>1, <1>12 DEF On
    <2>2. CASE SetStatus(has, "PENDING") /\ EnqueueDelayed(has)
      <3>1. /\ delivery'[has].status = "PENDING"
            /\ \A x \in Delivery \ {has} : delivery'[x] = delivery[x]
        BY <2>1, <2>2, StatusWritten DEF Statuses
      <3>2. has \in delayed' /\ \A x \in Delivery \ {has} : x \in delayed' <=> x \in delayed
        BY <2>2 DEF EnqueueDelayed
      <3> QED
        BY <1>6, <2>1, <2>4, <3>1, <3>2 DEF Statuses
    <2>3. CASE SetStatus(has, "FAILED") /\ UNCHANGED delayed
      <3>1. /\ delivery'[has].status = "FAILED"
            /\ \A x \in Delivery \ {has} : delivery'[x] = delivery[x]
        BY <2>1, <2>3, StatusWritten DEF Statuses
      <3> QED
        BY <1>6, <2>1, <2>3, <2>4, <3>1 DEF Statuses
    <2> QED
      BY <1>0, <1>10, <2>2, <2>3 DEF FinishFailure
  <1>11. CASE Ack(w)
    <2>1. /\ sender[w].pc = "ack" /\ has \in Delivery /\ Mentioned(has)
          /\ RemoveCopy(has) /\ SenderAt(w, At("idle"))
          /\ UNCHANGED <<ready, delayed, delivery, senderFrame>>
      BY <1>0, <1>1, <1>11 DEF Ack, rowVars
    <2>2. \A x \in Delivery : InQueue(x)' <=> InQueue(x)
      BY <2>1, QueueIs
    <2>3. \A x \in Delivery \ {has} : /\ delivery'[x] = delivery[x]
                                      /\ processing'[x] = processing[x]
      BY <2>1 DEF RemoveCopy
    <2>4. sender'[w].pc = "idle" /\ \A v \in Workers \ {w} : sender'[v] = sender[v]
      BY <2>1, <1>12 DEF At
    <2>5. InFlight(has) => InFlight(has)'
      BY <2>1, <2>2, <2>4 DEF InFlight, senderFrame
    <2>6. Known(has) /\ Followed(has)
      BY <2>1, <2>5 DEF Known, Followed, Exists
    <2> QED
      BY <1>0, <2>1, <2>2, <2>3, <2>4, <2>6, LoopMoves
  <1> QED
    BY <1>2, <1>3, <1>4, <1>5, <1>7, <1>8, <1>9, <1>10, <1>11 DEF SenderStep

LEMMA NotifyFollows ==
    ASSUME TypeOK, NEW w \in Workers, NEW d \in Delivery,
           NotifyPush(w) \/ \E e \in Events : NotifyCommit(w, e)
    PROVE  Known(d) /\ Followed(d)
  <1> USE TypeParts
  <1>1. ASSUME NEW e \in Events, NotifyCommit(w, e) PROVE Known(d) /\ Followed(d)
    <2> DEFINE new == {x \in {e} \X Providers : enabled[x[2]] /\ ~ Exists(x)}
    <2>1. PICK x \in {new} :
             /\ delivery' = [y \in Delivery |->
                   IF y \in x THEN [status |-> "PENDING", attempt |-> 0, max |-> MaxAttempts]
                              ELSE delivery[y]]
             /\ notifier' = [notifier EXCEPT ![w] = x]
      BY <1>1 DEF NotifyCommit
    <2>2. d \in x => ~ Exists(d)
      OBVIOUS
    <2> HIDE DEF new
    <2>3. /\ delivery'[d].status = IF d \in x THEN "PENDING" ELSE delivery[d].status
          /\ \A v \in Workers : notifier'[v] = IF v = w THEN x ELSE notifier[v]
          /\ notifier[w] = {}
          /\ UNCHANGED <<ready, processing, delayed, sender, recovery, client, faulty>>
      BY <1>1, <2>1 DEF NotifyCommit, nQueueVars
    <2>4. InQueue(d)' <=> InQueue(d)
      BY <2>3, QueueIs
    <2>5. InFlight(d)' <=> InFlight(d) \/ d \in x
      BY <2>3, <2>4 DEF InFlight
    <2>6. Mentioned(d)' => Mentioned(d) \/ d \in x
      BY <2>3, <2>5 DEF Mentioned
    <2> QED
      BY <2>2, <2>3, <2>5, <2>6 DEF Known, Followed, Exists
  <1>2. CASE NotifyPush(w)
    <2>1. PICK e \in notifier[w] : Enqueue(e) /\ notifier' = [notifier EXCEPT ![w] = @ \ {e}]
      BY <1>2 DEF NotifyPush
    <2>2. e \in Delivery
      BY <2>1
    <2>3. InQueue(d)' <=> InQueue(d) \/ d = e
      BY <1>2, <2>1, <2>2, QueueIs, EnqueueWaits DEF NotifyPush
    <2>4. /\ \A v \in Workers \ {w} : notifier'[v] = notifier[v]
          /\ notifier'[w] = notifier[w] \ {e}
          /\ UNCHANGED <<processing, delivery, sender, recovery, client, faulty>>
      BY <1>2, <2>1 DEF NotifyPush, rowVars
    <2>5. InFlight(d)' <=> InFlight(d)
      BY <2>1, <2>3, <2>4 DEF InFlight
    <2>6. Mentioned(d)' <=> Mentioned(d)
      BY <2>4, <2>5 DEF Mentioned
    <2> QED
      BY <2>4, <2>5, <2>6 DEF Known, Followed, Exists
  <1> QED
    BY <1>1, <1>2

LEMMA PassFollows ==
    ASSUME TypeOK, NEW w \in Workers, RecoveryStep(w), NEW d \in Delivery
    PROVE  Known(d) /\ Followed(d)
  <1> USE TypeParts
  <1>1. ASSUME NEW state, RecoveryAt(w, state)
        PROVE  recovery'[w] = state /\ \A v \in Workers \ {w} : recovery'[v] = recovery[v]
    BY <1>1 DEF RecoveryAt
  <1>2. UNCHANGED <<sender, notifier, client, delayed, faulty>>
    BY DEF RecoveryStep, Reclaim, ReclaimPush, FindStale, RecoverCommit, RecoverPush,
           recoveryFrame, nQueueVars
  <1>3. CASE Reclaim(w)
    <2>1. PICK e \in Delivery : /\ processing[e] > 0 /\ RemoveCopy(e)
                                /\ RecoveryAt(w, On("reclaimed", e))
      BY <1>3 DEF Reclaim
    <2>2. /\ recovery'[w].pc = "reclaimed" /\ recovery'[w].id = e /\ recovery[w].pc = "idle"
          /\ \A v \in Workers \ {w} : recovery'[v] = recovery[v]
          /\ UNCHANGED <<ready, delivery>>
      BY <1>1, <1>3, <2>1 DEF On, Reclaim, rowVars
    <2>3. InQueue(d)' <=> InQueue(d)
      BY <1>2, <2>2, QueueIs
    <2>4. InFlight(d)' <=> InFlight(d) \/ d = e
      BY <1>2, <2>2, <2>3 DEF InFlight
    <2>5. processing'[d] > 0 => processing[d] > 0
      BY <2>1 DEF RemoveCopy
    <2>6. Mentioned(d)' => Mentioned(d)
      BY <1>2, <2>1, <2>2, <2>4, <2>5 DEF Mentioned
    <2> QED
      BY <2>2, <2>4, <2>6 DEF Known, Followed, Exists
  <1>4. CASE ReclaimPush(w)
    <2>0. PICK e : e = recovery[w].id
      OBVIOUS
    <2>1. e \in Delivery /\ Enqueue(e) /\ RecoveryAt(w, At("idle"))
          /\ recovery[w].pc = "reclaimed" /\ recovery[w].id = e
      BY <1>4, <2>0, RecoveryShape DEF ReclaimPush
    <2>2. /\ recovery'[w].pc = "idle"
          /\ \A v \in Workers \ {w} : recovery'[v] = recovery[v]
          /\ UNCHANGED <<processing, delivery>>
      BY <1>1, <1>4, <2>1 DEF At, ReclaimPush, rowVars
    <2>3. InQueue(d)' <=> InQueue(d) \/ d = e
      BY <1>2, <2>1, QueueIs, EnqueueWaits
    <2>4. InFlight(d)' <=> InFlight(d)
      BY <1>2, <2>1, <2>2, <2>3 DEF InFlight
    <2>5. Mentioned(d)' <=> Mentioned(d)
      BY <1>2, <2>1, <2>2, <2>4 DEF Mentioned
    <2> QED
      BY <2>2, <2>4, <2>5 DEF Known, Followed, Exists
  <1>5. CASE FindStale(w)
    <2> DEFINE found(x) == [pc |-> "commit", again |-> {y \in x : ~ OutOfAttempts(y)},
                            over |-> {y \in x : OutOfAttempts(y)}]
    <2>1. PICK x \in {{y \in Delivery : Stale(y)}} : RecoveryAt(w, found(x))
      BY <1>5 DEF FindStale
    <2>2. d \in x => Exists(d)
      BY DEF Stale, Exists
    <2>3. recovery'[w] = found(x)
      BY <1>1, <2>1
    <2>4. /\ recovery'[w].pc = "commit"
          /\ recovery'[w].again \cup recovery'[w].over \subseteq x
      BY <2>3
    <2>5. /\ recovery[w].pc = "idle"
          /\ \A v \in Workers \ {w} : recovery'[v] = recovery[v]
          /\ UNCHANGED <<ready, processing, delivery>>
      BY <1>1, <1>5, <2>1 DEF FindStale, rowVars, nQueueVars
    <2> HIDE DEF found
    <2>6. InQueue(d)' <=> InQueue(d)
      BY <1>2, <2>5, QueueIs
    <2>7. InFlight(d)' <=> InFlight(d)
      BY <1>2, <2>4, <2>5, <2>6 DEF InFlight
    <2>8. Mentioned(d)' => Mentioned(d) \/ d \in x
      BY <1>2, <2>4, <2>5, <2>7 DEF Mentioned
    <2> QED
      BY <2>2, <2>5, <2>7, <2>8 DEF Known, Followed, Exists
  <1>6. CASE RecoverCommit(w)
    <2>0. PICK again, over : again = recovery[w].again /\ over = recovery[w].over
      OBVIOUS
    <2>1. /\ recovery[w].pc = "commit" /\ RecoveryAt(w, Requeue(again))
          /\ again \subseteq Delivery /\ over \subseteq Delivery
          /\ UNCHANGED <<ready, processing>>
          /\ delivery' = [x \in Delivery |->
                IF x \in again THEN [delivery[x] EXCEPT !.status = "PENDING"]
                ELSE IF x \in over THEN [delivery[x] EXCEPT !.status = "FAILED"]
                ELSE delivery[x]]
      BY <1>6, <2>0, RecoveryShape DEF RecoverCommit, nQueueVars
    <2>2. delivery'[d].status = IF d \in again THEN "PENDING"
                                ELSE IF d \in over THEN "FAILED" ELSE delivery[d].status
      <3>1. delivery[d] \in [status : Statuses \cup {"NONE"}, attempt : Nat, max : Nat]
        BY DEF Row, Absent
      <3> QED
        BY <2>1, <3>1
    <2>3. /\ \A v \in Workers \ {w} : recovery'[v] = recovery[v]
          /\ recovery'[w] = Requeue(again)
      BY <1>1, <2>1
    <2>4. \/ again = {} /\ recovery'[w].pc = "idle"
          \/ recovery'[w].pc = "requeue" /\ recovery'[w].again = again
      BY <2>3 DEF Requeue, At
    <2>5. InQueue(d)' <=> InQueue(d)
      BY <1>2, <2>1, QueueIs
    <2>6. InFlight(d)' <=> InFlight(d) \/ d \in again
      BY <1>2, <2>1, <2>3, <2>4, <2>5 DEF InFlight
    <2>7. Mentioned(d)' => Mentioned(d)
      BY <1>2, <2>0, <2>1, <2>3, <2>4, <2>6 DEF Mentioned
    <2> QED
      BY <2>2, <2>6, <2>7 DEF Known, Followed, Exists
  <1>7. CASE RecoverPush(w)
    <2>0. PICK again : again = recovery[w].again
      OBVIOUS
    <2>1. PICK e \in again : Enqueue(e) /\ RecoveryAt(w, Requeue(again \ {e}))
      BY <1>7, <2>0 DEF RecoverPush
    <2>2. /\ recovery[w].pc = "requeue" /\ recovery[w].again = again /\ e \in Delivery
          /\ UNCHANGED <<processing, delivery>>
      BY <1>7, <2>0, <2>1, RecoveryShape DEF RecoverPush, rowVars
    <2>3. /\ \A v \in Workers \ {w} : recovery'[v] = recovery[v]
          /\ recovery'[w] = Requeue(again \ {e})
      BY <1>1, <2>1
    <2>4. \/ again \ {e} = {} /\ recovery'[w].pc = "idle"
          \/ recovery'[w].pc = "requeue" /\ recovery'[w].again = again \ {e}
      BY <2>3 DEF Requeue, At
    <2>5. InQueue(d)' <=> InQueue(d) \/ d = e
      BY <1>2, <2>1, <2>2, QueueIs, EnqueueWaits
    <2>8. /\ recovery'[w].pc = "requeue" /\ d \in recovery'[w].again
               <=> d \in again \ {e}
          /\ recovery'[w].pc # "reclaimed" /\ recovery'[w].pc # "commit"
      BY <2>4
    <2>9. recovery[w].pc = "requeue" /\ d \in recovery[w].again <=> d \in again
      BY <2>2
    <2>6. InFlight(d)' <=> InFlight(d)
      <3>1. CASE d = e
        BY <2>1, <2>5, <2>9, <3>1 DEF InFlight
      <3>2. CASE d # e
        <4>1. \A v \in Workers :
                /\ recovery'[v].pc = "requeue" /\ d \in recovery'[v].again
                     <=> recovery[v].pc = "requeue" /\ d \in recovery[v].again
                /\ recovery'[v].pc = "reclaimed" /\ recovery'[v].id = d
                     <=> recovery[v].pc = "reclaimed" /\ recovery[v].id = d
          BY <2>2, <2>3, <2>8, <2>9, <3>2
        <4> QED
          BY <1>2, <2>5, <3>2, <4>1 DEF InFlight
      <3> QED
        BY <3>1, <3>2
    <2>7. Mentioned(d)' <=> Mentioned(d)
      BY <1>2, <2>2, <2>3, <2>6, <2>8 DEF Mentioned
    <2> QED
      BY <2>2, <2>6, <2>7 DEF Known, Followed, Exists
  <1> QED
    BY <1>3, <1>4, <1>5, <1>6, <1>7 DEF RecoveryStep

LEMMA ApiFollows ==
    ASSUME TypeOK, NEW e \in Delivery, RetryCommit(e) \/ RetryPush(e), NEW d \in Delivery
    PROVE  Known(d) /\ Followed(d)
  <1> USE TypeParts
  <1>1. CASE RetryCommit(e)
    <2>1. /\ client' = client \cup {e} /\ Exists(e)
          /\ UNCHANGED <<ready, processing, delayed, sender, recovery, notifier, faulty>>
      BY <1>1 DEF RetryCommit, nQueueVars, Exists, Statuses
    <2>2. delivery'[d].status = IF d = e THEN "PENDING" ELSE delivery[d].status
      <3>1. delivery[e] \in [status : Statuses \cup {"NONE"}, attempt : Nat, max : Nat]
        BY DEF Row, Absent
      <3> QED
        BY <1>1, <3>1 DEF RetryCommit
    <2>3. InQueue(d)' <=> InQueue(d)
      BY <2>1, QueueIs
    <2>4. InFlight(d)' <=> InFlight(d) \/ d = e
      BY <2>1, <2>3 DEF InFlight
    <2>5. Mentioned(d)' <=> Mentioned(d) \/ d = e
      BY <2>1, <2>4 DEF Mentioned
    <2> QED
      BY <2>1, <2>2, <2>4, <2>5 DEF Known, Followed, Exists
  <1>2. CASE RetryPush(e)
    <2>1. /\ client' = client \ {e} /\ e \in client /\ Enqueue(e)
          /\ UNCHANGED <<processing, delayed, delivery, sender, recovery, notifier, faulty>>
      BY <1>2 DEF RetryPush, rowVars
    <2>2. InQueue(d)' <=> InQueue(d) \/ d = e
      BY <2>1, QueueIs, EnqueueWaits
    <2>3. InFlight(d)' <=> InFlight(d)
      BY <2>1, <2>2 DEF InFlight
    <2>4. Mentioned(d)' <=> Mentioned(d)
      BY <2>1, <2>3 DEF Mentioned
    <2> QED
      BY <2>1, <2>3, <2>4 DEF Known, Followed, Exists
  <1> QED
    BY <1>1, <1>2

\* A fault loses ids, and puts none where there was none.
LEMMA FaultFollows ==
    ASSUME TypeOK, NEW w \in Workers, Crash(w) \/ FinishFails(w) \/ Stop(w),
           NEW d \in Delivery
    PROVE  Known(d) /\ Followed(d)
  <1> USE TypeParts
  <1>1. faulty' = TRUE /\ UNCHANGED delivery
    BY DEF Crash, FinishFails, Stop, Fault, rowVars
  <1>2. ASSUME NEW state, SenderAt(w, state)
        PROVE  sender'[w] = state /\ \A v \in Workers \ {w} : sender'[v] = sender[v]
    BY <1>2 DEF SenderAt
  <1>3. Mentioned(d)' => Mentioned(d)
    <2>1. CASE Crash(w)
      <3>1. /\ sender'[w].pc = "down" /\ \A v \in Workers \ {w} : sender'[v] = sender[v]
            /\ recovery'[w].pc = "idle" /\ \A v \in Workers \ {w} : recovery'[v] = recovery[v]
            /\ notifier'[w] = {} /\ \A v \in Workers \ {w} : notifier'[v] = notifier[v]
            /\ UNCHANGED <<ready, processing, delayed, client>>
        BY <2>1 DEF Crash, SenderAt, RecoveryAt, At, nQueueVars
      <3>2. InQueue(d)' <=> InQueue(d)
        BY <3>1, QueueIs
      <3>3. InFlight(d)' => InFlight(d)
        BY <3>1, <3>2 DEF InFlight
      <3> QED
        BY <3>1, <3>3 DEF Mentioned
    <2>2. CASE FinishFails(w)
      <3>0. PICK e : e = sender[w].id
        OBVIOUS
      <3>1. /\ sender[w].pc = "sending" /\ sender[w].id = e
            /\ SenderAt(w, On("ack", e))
            /\ UNCHANGED <<ready, processing, recovery, notifier, client>>
            /\ delayed' = delayed \/ delayed' = delayed \cup {e}
        BY <2>2, <3>0 DEF FinishFails, EnqueueDelayed
      <3>2. /\ sender'[w].pc = "ack" /\ sender'[w].id = e
            /\ \A v \in Workers \ {w} : sender'[v] = sender[v]
        BY <1>2, <3>1 DEF On
      <3>3. InQueue(d)' => InQueue(d) \/ d = e
        BY <3>1, QueueIs
      <3>4. InFlight(d)' => InFlight(d) \/ d = e
        BY <3>1, <3>2, <3>3 DEF InFlight
      <3> QED
        BY <3>1, <3>2, <3>4 DEF Mentioned
    <2>3. CASE Stop(w)
      <3>0. PICK e : e = sender[w].id
        OBVIOUS
      <3>1. /\ sender'[w].pc = "down"
            /\ \A v \in Workers \ {w} : sender'[v] = sender[v]
            /\ UNCHANGED <<delayed, recovery, notifier, client>>
        BY <1>2, <2>3 DEF Stop, At
      <3>2. \/ UNCHANGED <<ready, processing>>
            \/ /\ sender[w].pc = "sending" /\ sender[w].id = e /\ e \in Delivery
               /\ Enqueue(e) /\ RemoveCopy(e)
        BY <2>3, <3>0, SenderShape DEF Stop
      <3>3. InQueue(d)' => InQueue(d) \/ (d = e /\ sender[w].pc = "sending" /\ sender[w].id = e)
        BY <3>1, <3>2, QueueIs, EnqueueWaits
      <3>4. processing'[d] > 0 => processing[d] > 0
        <4>1. CASE UNCHANGED processing
          BY <4>1
        <4>2. CASE RemoveCopy(e) /\ e \in Delivery
          BY <4>2 DEF RemoveCopy
        <4> QED
          BY <3>2, <4>1, <4>2
      <3>5. InFlight(d)' => InFlight(d) \/ Mentioned(d)
        BY <3>1, <3>3 DEF InFlight, Mentioned
      <3> QED
        BY <3>1, <3>4, <3>5 DEF Mentioned
    <2> QED
      BY <2>1, <2>2, <2>3
  <1> QED
    BY <1>1, <1>3 DEF Known, Followed, Exists

LEMMA RestFollows ==
    ASSUME TypeOK, NEW d \in Delivery,
           \/ \E w \in Workers : Restart(w)
           \/ \E p \in Providers : Administer(p)
           \/ UNCHANGED vars
    PROVE  Known(d) /\ Followed(d)
  <1>1. /\ UNCHANGED <<ready, processing, delayed, delivery, recovery, notifier, client, faulty>>
        /\ \A w \in Workers : sender'[w] = sender[w]
                              \/ (sender[w].pc = "down" /\ sender'[w].pc = "idle")
    BY TypeParts
    DEF Restart, Administer, vars, nQueueVars, rowVars, SenderAt, At
  <1>2. InQueue(d)' <=> InQueue(d)
    BY <1>1, QueueIs
  <1>3. InFlight(d)' <=> InFlight(d)
    BY <1>1, <1>2 DEF InFlight
  <1>4. Mentioned(d)' => Mentioned(d)
    BY <1>1, <1>3 DEF Mentioned
  <1> QED
    BY <1>1, <1>3, <1>4 DEF Known, Followed, Exists

PendingInv == TypeOK /\ OnlyStored /\ PendingInFlight

LEMMA PendingInitially == Init => PendingInv
  <1> SUFFICES ASSUME Init PROVE PendingInv
    OBVIOUS
  <1>1. TypeOK
    BY TypesInitially
  <1>2. \A d \in Delivery : ~ Mentioned(d) /\ delivery[d].status = "NONE"
    BY DEF Init, QueueInit, NoCopies, Mentioned, InFlight, InQueue, At, Absent
  <1> QED
    BY <1>1, <1>2 DEF PendingInv, OnlyStored, PendingInFlight

LEMMA PendingInductive == PendingInv /\ [Next]_vars => PendingInv'
  <1> SUFFICES ASSUME PendingInv, [Next]_vars PROVE PendingInv'
    OBVIOUS
  <1> USE DEF PendingInv
  <1>1. TypeOK'
    BY TypesKept
  <1>2. ASSUME NEW d \in Delivery PROVE Known(d) /\ Followed(d)
    BY LoopFollows, NotifyFollows, PassFollows, ApiFollows, FaultFollows, RestFollows DEF Next
  <1>3. OnlyStored'
    BY <1>2 DEF OnlyStored, Known, Followed
  <1>4. faulty => faulty'
    BY DEF Next, NotifyCommit, NotifyPush, SenderStep, PromoteRemove, PromotePush, LeaseNext,
           Read, MarkFailed, Mark, FinishSent, FinishFailure, Ack, RecoveryStep, Reclaim,
           ReclaimPush, FindStale, RecoverCommit, RecoverPush, Crash, FinishFails, Stop,
           Restart, RetryCommit, RetryPush, Administer, Fault, vars, senderFrame
  <1>5. PendingInFlight'
    BY <1>2, <1>4 DEF PendingInFlight, Followed
  <1> QED
    BY <1>1, <1>3, <1>5

\* The rows, the queue and what every process has in hand keep their types; an id that a
\* worker leases is always the id of a row.
THEOREM NotificationTypes == Spec => []TypeOK
  <1>1. PendingInv => TypeOK
    BY DEF PendingInv
  <1> QED
    BY <1>1, PendingInitially, PendingInductive, PTL DEF Spec

\* As long as no process dies and no commit fails, the id of every PENDING delivery is in
\* Redis or in the hands of somebody who will push it or act on it, whatever is reclaimed
\* from living workers, retried by hand, disabled, or handed out twice.
THEOREM NoneForgotten == Spec => []PendingInFlight
  <1>1. PendingInv => PendingInFlight
    BY DEF PendingInv
  <1> QED
    BY <1>1, PendingInitially, PendingInductive, PTL DEF Spec

-----------------------------------------------------------------------------
(* Before anything is reclaimed, retried or fails, an id is in one place. *)

Carries(w, d) == sender[w].pc \in {"push", "leased", "read", "sending"} /\ sender[w].id = d

Due(d) == delivery[d].status = "PENDING" /\ delivery[d].attempt < delivery[d].max

\* The id is in one place; the row says what is going on there, and what a worker knows
\* of the row is true.
OnePlace(d) ==
    /\ ~ (Waits(d) /\ d \in delayed)
    /\ \A v, w \in Workers : Carries(v, d) /\ Carries(w, d) => v = w
    /\ \A v, w \in Workers : d \in notifier[v] /\ d \in notifier[w] => v = w
    /\ \A v, w \in Workers : ~ (Carries(v, d) /\ d \in notifier[w])
    /\ \A w \in Workers : Carries(w, d) \/ d \in notifier[w] => ~ InQueue(d)

RowTrue(d) ==
    /\ InQueue(d) => Due(d)
    /\ \A w \in Workers : d \in notifier[w] => Due(d)
    /\ \A w \in Workers : Carries(w, d) /\ sender[w].pc # "sending" => Due(d)
    /\ delivery[d].attempt <= delivery[d].max
    /\ delivery[d].status = "SENDING" =>
         \E w \in Workers : sender[w].pc = "sending" /\ sender[w].id = d
    /\ \A w \in Workers : sender[w].pc = "read" /\ sender[w].id = d =>
                            sender[w].seen = delivery[d]
    /\ \A w \in Workers : sender[w].pc = "sending" /\ sender[w].id = d =>
                            /\ delivery[d].status = "SENDING"
                            /\ sender[w].attempt = delivery[d].attempt
                            /\ sender[w].max = delivery[d].max

Distinct == \A i, j \in DOMAIN ready : ready[i] = ready[j] => i = j

LEMMA EnqueueDistinct ==
    ASSUME ready \in Seq(Delivery), Distinct, NEW d \in Delivery, ~ Waits(d), Enqueue(d)
    PROVE  Distinct'
  <1>1. /\ ready' \in Seq(Delivery) /\ Len(ready) \in Nat
        /\ Len(ready') = Len(ready) + 1 /\ ready'[1] = d
        /\ \A i \in 1..Len(ready) : ready'[i + 1] = ready[i]
    BY EnqueueReady
  <1>2. DOMAIN ready = 1..Len(ready) /\ DOMAIN ready' = 1..Len(ready')
    BY <1>1
  <1> SUFFICES ASSUME NEW i \in 1..Len(ready'), NEW j \in 1..Len(ready'),
                      ready'[i] = ready'[j]
               PROVE  i = j
    BY <1>2 DEF Distinct
  <1>3. ASSUME NEW k \in 1..Len(ready'), k # 1
        PROVE  k - 1 \in 1..Len(ready) /\ ready'[k] = ready[k - 1] /\ ready'[k] # d
    <2>1. k - 1 \in 1..Len(ready) /\ (k - 1) + 1 = k
      BY <1>1, <1>3
    <2>2. ready'[k] = ready[k - 1]
      BY <1>1, <2>1
    <2> QED
      BY <1>2, <2>1, <2>2 DEF Waits
  <1>4. CASE i = 1 \/ j = 1
    BY <1>1, <1>3, <1>4
  <1>5. CASE i # 1 /\ j # 1
    <2>1. ready[i - 1] = ready[j - 1] /\ i - 1 \in 1..Len(ready) /\ j - 1 \in 1..Len(ready)
      BY <1>3, <1>5
    <2>2. i - 1 = j - 1
      BY <1>2, <2>1 DEF Distinct
    <2> QED
      BY <1>1, <2>2
  <1> QED
    BY <1>4, <1>5

LEMMA LeaseDistinct ==
    ASSUME ready \in Seq(Delivery), Distinct, Lease
    PROVE  Distinct' /\ \A i \in DOMAIN ready' : ready'[i] # Head(ready)
  <1>1. /\ ready' \in Seq(Delivery) /\ Len(ready) \in Nat /\ Len(ready) > 0
        /\ Len(ready') = Len(ready) - 1 /\ Head(ready) = ready[1]
        /\ \A i \in 1..Len(ready') : ready'[i] = ready[i + 1]
    BY LeaseReady
  <1>2. DOMAIN ready = 1..Len(ready) /\ DOMAIN ready' = 1..Len(ready')
    BY <1>1
  <1>3. ASSUME NEW i \in 1..Len(ready')
        PROVE  i + 1 \in 1..Len(ready) /\ i + 1 # 1 /\ ready'[i] = ready[i + 1]
    BY <1>1
  <1>4. ASSUME NEW i \in 1..Len(ready') PROVE ready'[i] # Head(ready)
    BY <1>1, <1>2, <1>3 DEF Distinct
  <1>5. ASSUME NEW i \in 1..Len(ready'), NEW j \in 1..Len(ready'), ready'[i] = ready'[j]
        PROVE  i = j
    <2>1. i + 1 = j + 1
      BY <1>2, <1>3, <1>5 DEF Distinct
    <2> QED
      BY <2>1
  <1> QED
    BY <1>2, <1>4, <1>5 DEF Distinct

\* All that Orderly says once nothing was spent.
Calm ==
    /\ client = {}
    /\ \A w \in Workers : recovery[w].pc = "idle" /\ sender[w].pc # "down"
    /\ Distinct
    /\ \A d \in Delivery : OnePlace(d) /\ RowTrue(d)

\* What a step of w with the id e leaves alone.
LEMMA OthersOrderly ==
    ASSUME TypeOK, NEW w \in Workers, NEW e \in Delivery, NEW d \in Delivery \ {e},
           \A v \in Workers \ {w} : sender'[v] = sender[v],
           sender[w].pc # "idle" => sender[w].id = e,
           sender'[w].pc # "idle" => sender'[w].id = e,
           \A v \in Workers : d \in notifier'[v] <=> d \in notifier[v],
           delivery'[d] = delivery[d], Waits(d)' <=> Waits(d), d \in delayed' <=> d \in delayed,
           OnePlace(d), RowTrue(d),
           sender[w].pc \in {"idle", "push", "leased", "read", "sending", "ack"},
           sender'[w].pc \in {"idle", "push", "leased", "read", "sending", "ack"}
    PROVE  OnePlace(d)' /\ RowTrue(d)'
  <1>1. \A v \in Workers : /\ Carries(v, d)' <=> Carries(v, d)
                           /\ Carries(v, d) => sender'[v] = sender[v]
                           /\ Carries(v, d) => v # w
    BY DEF Carries
  <1>2. InQueue(d)' <=> InQueue(d)
    BY QueueIs
  <1>3. OnePlace(d)'
    BY <1>1, <1>2 DEF OnePlace
  <1>4. InQueue(d)' => Due(d)'
    BY <1>2 DEF RowTrue, Due
  <1>5. \A v \in Workers : d \in notifier'[v] => Due(d)'
    BY DEF RowTrue, Due
  <1>6. \A v \in Workers : Carries(v, d)' /\ sender'[v].pc # "sending" => Due(d)'
    BY <1>1 DEF RowTrue, Due
  <1>7. delivery'[d].status = "SENDING" =>
          \E v \in Workers : sender'[v].pc = "sending" /\ sender'[v].id = d
    BY <1>1 DEF RowTrue, Carries
  <1>8. \A v \in Workers : sender'[v].pc = "read" /\ sender'[v].id = d =>
                            sender'[v].seen = delivery'[d]
    BY <1>1 DEF RowTrue, Carries
  <1>9. \A v \in Workers : sender'[v].pc = "sending" /\ sender'[v].id = d =>
                            /\ delivery'[d].status = "SENDING"
                            /\ sender'[v].attempt = delivery'[d].attempt
                            /\ sender'[v].max = delivery'[d].max
    BY <1>1 DEF RowTrue, Carries
  <1>10. delivery'[d].attempt <= delivery'[d].max
    BY DEF RowTrue
  <1> QED
    BY <1>3, <1>4, <1>5, <1>6, <1>7, <1>8, <1>9, <1>10 DEF RowTrue

\* What is known of the id that w has when nobody else has it.
LEMMA OnlyHere ==
    ASSUME Calm, NEW w \in Workers, NEW e \in Delivery, Carries(w, e)
    PROVE  /\ ~ Waits(e) /\ e \notin delayed
           /\ \A v \in Workers \ {w} : ~ Carries(v, e)
           /\ \A v \in Workers : e \notin notifier[v]
           /\ RowTrue(e)
  BY QueueIs DEF Calm, OnePlace

LEMMA LoopOrderly ==
    ASSUME TypeOK, Calm, NEW w \in Workers, SenderStep(w)
    PROVE  Calm'
  <1> USE TypeParts
  <1>0. PICK has : has = sender[w].id
    OBVIOUS
  <1>1. ASSUME NEW state, SenderAt(w, state)
        PROVE  sender'[w] = state /\ \A v \in Workers \ {w} : sender'[v] = sender[v]
    BY <1>1 DEF SenderAt
  <1>2. UNCHANGED senderFrame
    BY DEF SenderStep, PromoteRemove, PromotePush, LeaseNext, Read, MarkFailed, Mark,
           FinishSent, FinishFailure, Ack
  <1>3. sender[w].pc \in {"idle", "push", "leased", "read", "sending", "ack"}
        /\ (sender[w].pc # "idle" => has \in Delivery)
    BY <1>0, SenderShape DEF SenderStep, PromoteRemove, PromotePush, LeaseNext, Read,
           MarkFailed, Mark, FinishSent, FinishFailure, Ack
  \* It is enough to look at the id e.
  <1>4. ASSUME NEW e \in Delivery,
               \A v \in Workers \ {w} : sender'[v] = sender[v],
               sender[w].pc # "idle" => sender[w].id = e,
               sender'[w].pc # "idle" => sender'[w].id = e,
               sender'[w].pc \in {"idle", "push", "leased", "read", "sending", "ack"},
               \A d \in Delivery \ {e} : /\ delivery'[d] = delivery[d]
                                         /\ Waits(d)' <=> Waits(d)
                                         /\ d \in delayed' <=> d \in delayed,
               Distinct', OnePlace(e)', RowTrue(e)'
        PROVE  Calm'
    <2>1. \A d \in Delivery \ {e} : OnePlace(d)' /\ RowTrue(d)'
      BY <1>2, <1>3, <1>4, OthersOrderly DEF senderFrame, Calm
    <2> QED
      BY <1>2, <1>4, <2>1 DEF Calm, senderFrame
  <1>5. ready' = ready => (Distinct' <=> Distinct)
                          /\ \A d \in Delivery : Waits(d)' <=> Waits(d)
    BY QueueIs DEF Distinct
  <1>6. CASE PromoteRemove(w)
    <2>1. PICK e \in delayed : delayed' = delayed \ {e} /\ SenderAt(w, On("push", e))
      BY <1>6 DEF PromoteRemove
    <2>2. /\ e \in Delivery /\ sender'[w].pc = "push" /\ sender'[w].id = e
          /\ \A v \in Workers \ {w} : sender'[v] = sender[v]
          /\ UNCHANGED <<ready, delivery, notifier>> /\ sender[w].pc = "idle"
      BY <1>1, <1>2, <1>6, <2>1 DEF On, PromoteRemove, rowVars, senderFrame
    <2>3. /\ OnePlace(e) /\ RowTrue(e) /\ InQueue(e) /\ ~ Waits(e)
          /\ \A v \in Workers : ~ Carries(v, e) /\ e \notin notifier[v]
      BY <2>1, <2>2, QueueIs DEF Calm, OnePlace
    <2>4. ~ Waits(e)' /\ e \notin delayed' /\ ~ InQueue(e)'
      BY <1>5, <2>1, <2>2, <2>3, QueueIs
    <2>5. \A v \in Workers : Carries(v, e)' <=> v = w
      BY <2>2, <2>3 DEF Carries
    <2>6. OnePlace(e)'
      BY <2>2, <2>3, <2>4, <2>5 DEF OnePlace
    <2>7. RowTrue(e)'
      BY <2>2, <2>3, <2>4, <2>5 DEF RowTrue, Due, Carries
    <2> QED
      BY <1>4, <1>5, <2>1, <2>2, <2>6, <2>7 DEF Calm
  <1>7. CASE PromotePush(w)
    <2>1. /\ sender[w].pc = "push" /\ has \in Delivery /\ sender[w].id = has /\ Enqueue(has)
          /\ UNCHANGED <<delayed, delivery, notifier>>
          /\ sender'[w].pc = "idle" /\ \A v \in Workers \ {w} : sender'[v] = sender[v]
      BY <1>0, <1>1, <1>2, <1>3, <1>7 DEF PromotePush, At, rowVars, senderFrame
    <2>2. Carries(w, has)
      BY <2>1 DEF Carries
    <2>3. /\ ~ Waits(has) /\ has \notin delayed
          /\ \A v \in Workers \ {w} : ~ Carries(v, has)
          /\ \A v \in Workers : has \notin notifier[v]
          /\ RowTrue(has)
      BY <2>1, <2>2, OnlyHere
    <2>4. Distinct' /\ \A d \in Delivery : Waits(d)' <=> Waits(d) \/ d = has
      BY <2>1, <2>3, EnqueueDistinct, EnqueueWaits DEF Calm
    <2>5. \A v \in Workers : ~ Carries(v, has)'
      BY <2>1, <2>3 DEF Carries
    <2>6. OnePlace(has)'
      BY <2>1, <2>3, <2>4, <2>5 DEF OnePlace
    <2>7. RowTrue(has)'
      BY <2>1, <2>2, <2>3, <2>5 DEF RowTrue, Due, Carries
    <2> QED
      BY <1>4, <2>1, <2>4, <2>6, <2>7
  <1>8. CASE LeaseNext(w)
    <2>0. PICK e : e = Head(ready)
      OBVIOUS
    <2>1. /\ Lease /\ e \in Delivery
          /\ UNCHANGED <<delayed, delivery, notifier>> /\ sender[w].pc = "idle"
          /\ sender'[w].pc = "leased" /\ sender'[w].id = e
          /\ \A v \in Workers \ {w} : sender'[v] = sender[v]
      BY <1>1, <1>2, <1>8, <2>0, LeaseReady DEF LeaseNext, On, rowVars, senderFrame
    <2>2. Waits(e)
      <3>1. e = ready[1] /\ 1 \in DOMAIN ready
        BY <2>0, <2>1, LeaseReady
      <3> QED
        BY <3>1 DEF Waits
    <2>3. Distinct' /\ ~ Waits(e)'
      BY <2>0, <2>1, LeaseDistinct DEF Calm, Waits
    <2>4. \A d \in Delivery \ {e} : Waits(d)' <=> Waits(d)
      BY <2>0, <2>1, LeaseWaits
    <2>5. /\ OnePlace(e) /\ RowTrue(e) /\ InQueue(e) /\ e \notin delayed
          /\ \A v \in Workers : ~ Carries(v, e) /\ e \notin notifier[v]
      BY <2>1, <2>2, QueueIs DEF Calm, OnePlace
    <2>6. ~ InQueue(e)'
      BY <2>1, <2>3, <2>5, QueueIs
    <2>7. \A v \in Workers : Carries(v, e)' <=> v = w
      BY <2>1, <2>5 DEF Carries
    <2>8. OnePlace(e)'
      BY <2>1, <2>3, <2>5, <2>6, <2>7 DEF OnePlace
    <2>9. RowTrue(e)'
      BY <2>1, <2>5, <2>6, <2>7 DEF RowTrue, Due, Carries
    <2> QED
      BY <1>4, <2>1, <2>3, <2>4, <2>8, <2>9
  <1>9. CASE Read(w)
    <2> DEFINE state == [pc |-> "read", id |-> has, seen |-> delivery[has]]
    <2>1. /\ sender[w].pc = "leased" /\ has \in Delivery /\ sender[w].id = has
          /\ UNCHANGED <<ready, delayed, delivery, notifier>>
      BY <1>0, <1>2, <1>3, <1>9 DEF Read, nQueueVars, rowVars, senderFrame
    <2>2. Carries(w, has)
      BY <2>1 DEF Carries
    <2>3. /\ ~ Waits(has) /\ has \notin delayed
          /\ \A v \in Workers \ {w} : ~ Carries(v, has)
          /\ \A v \in Workers : has \notin notifier[v]
          /\ RowTrue(has)
      BY <2>1, <2>2, OnlyHere
    <2>4. Due(has)
      BY <2>1, <2>2, <2>3 DEF RowTrue
    <2>5. SenderAt(w, state)
      BY <1>0, <1>9, <2>4 DEF Read, Due
    <2>6. /\ sender'[w].pc = "read" /\ sender'[w].id = has /\ sender'[w].seen = delivery'[has]
          /\ \A v \in Workers \ {w} : sender'[v] = sender[v]
      BY <1>1, <2>1, <2>5
    <2>7. ~ Waits(has)' /\ has \notin delayed' /\ ~ InQueue(has)'
      BY <1>5, <2>1, <2>3, QueueIs
    <2>8. \A v \in Workers : Carries(v, has)' <=> v = w
      BY <2>3, <2>6 DEF Carries
    <2>9. OnePlace(has)'
      BY <2>1, <2>3, <2>7, <2>8 DEF OnePlace
    <2>10. RowTrue(has)'
      BY <2>1, <2>3, <2>4, <2>6, <2>7, <2>8 DEF RowTrue, Due, Carries
    <2> QED
      BY <1>4, <1>5, <2>1, <2>6, <2>9, <2>10 DEF Calm
  \* The steps that write the row.
  <1>10. ASSUME sender[w].pc \in {"read", "sending"},
                sender'[w].id = has, \A v \in Workers \ {w} : sender'[v] = sender[v],
                sender'[w].pc \in {"sending", "ack"},
                UNCHANGED <<ready, notifier>>,
                \A d \in Delivery \ {has} : delivery'[d] = delivery[d]
                                            /\ (d \in delayed' <=> d \in delayed),
                delivery'[has].attempt <= delivery'[has].max,
                has \in delayed' => Due(has)' /\ sender'[w].pc = "ack",
                delivery'[has].status = "SENDING" <=> sender'[w].pc = "sending",
                sender'[w].pc = "sending" => /\ sender'[w].attempt = delivery'[has].attempt
                                             /\ sender'[w].max = delivery'[has].max
         PROVE  Calm'
    <2>1. has \in Delivery /\ Carries(w, has)
      BY <1>0, <1>3, <1>10 DEF Carries
    <2>2. /\ ~ Waits(has)
          /\ \A v \in Workers \ {w} : ~ Carries(v, has)
          /\ \A v \in Workers : has \notin notifier[v]
      BY <2>1, OnlyHere
    <2>3. ~ Waits(has)' /\ (InQueue(has)' <=> has \in delayed')
      BY <1>5, <1>10, <2>1, <2>2, QueueIs
    <2>4. \A v \in Workers : Carries(v, has)' <=> v = w /\ sender'[w].pc = "sending"
      BY <1>10, <2>2 DEF Carries
    <2>5. OnePlace(has)'
      BY <1>10, <2>2, <2>3, <2>4 DEF OnePlace
    <2>6. RowTrue(has)'
      BY <1>10, <2>2, <2>3, <2>4 DEF RowTrue, Carries
    <2> QED
      BY <1>0, <1>4, <1>5, <1>10, <2>1, <2>5, <2>6 DEF Calm
  <1>11. ASSUME sender[w].pc \in {"read", "sending"}
         PROVE  /\ has \in Delivery /\ has \notin delayed
                /\ delivery[has].attempt <= delivery[has].max
                /\ sender[w].pc = "read" => sender[w].seen = delivery[has] /\ Due(has)
                /\ sender[w].pc = "sending" => /\ sender[w].attempt = delivery[has].attempt
                                               /\ sender[w].max = delivery[has].max
    <2>1. has \in Delivery /\ Carries(w, has) /\ sender[w].id = has
      BY <1>0, <1>3, <1>11 DEF Carries
    <2> QED
      BY <1>11, <2>1, OnlyHere DEF RowTrue
  <1>12. CASE MarkFailed(w)
    <2>1. sender[w].pc = "read" /\ SetStatus(has, "FAILED") /\ UNCHANGED <<ready, delayed>>
      BY <1>0, <1>12 DEF MarkFailed, nQueueVars
    <2>2. /\ delivery'[has].status = "FAILED"
          /\ delivery'[has].attempt = delivery[has].attempt
          /\ delivery'[has].max = delivery[has].max
          /\ \A d \in Delivery \ {has} : delivery'[d] = delivery[d]
      BY <1>11, <2>1, StatusWritten DEF Statuses
    <2>3. /\ sender'[w].pc = "ack" /\ sender'[w].id = has
          /\ \A v \in Workers \ {w} : sender'[v] = sender[v]
      BY <1>0, <1>1, <1>12 DEF MarkFailed, On
    <2> QED
      BY <1>2, <1>10, <1>11, <2>1, <2>2, <2>3 DEF senderFrame
  <1>13. CASE Mark(w)
    <2> DEFINE attempt == sender[w].seen.attempt + 1
               state == [pc |-> "sending", id |-> has, attempt |-> attempt,
                         max |-> sender[w].seen.max]
    <2>1. /\ sender[w].pc = "read"
          /\ delivery' = [delivery EXCEPT ![has].status = "SENDING", ![has].attempt = attempt]
          /\ SenderAt(w, state)
          /\ UNCHANGED <<ready, delayed, notifier>>
      BY <1>0, <1>2, <1>13 DEF Mark, nQueueVars, senderFrame
    <2>2. /\ has \in Delivery /\ sender[w].seen = delivery[has] /\ Due(has)
          /\ has \notin delayed
      BY <1>11, <2>1
    <2>3. /\ delivery'[has].status = "SENDING" /\ delivery'[has].attempt = attempt
          /\ delivery'[has].max = delivery[has].max
      <3>1. delivery[has] \in [status : Statuses \cup {"NONE"}, attempt : Nat, max : Nat]
        BY <2>2 DEF Row, Absent
      <3> QED
        BY <2>1, <2>2, <3>1
    <2>4. \A d \in Delivery \ {has} : delivery'[d] = delivery[d]
      BY <2>1
    <2>5. /\ sender'[w].pc = "sending" /\ sender'[w].id = has
          /\ sender'[w].attempt = attempt /\ sender'[w].max = sender[w].seen.max
          /\ \A v \in Workers \ {w} : sender'[v] = sender[v]
      BY <1>1, <2>1
    <2>6. attempt <= delivery[has].max
      <3>1. delivery[has].attempt \in Nat /\ delivery[has].max \in Nat
        BY <2>2, RowShape
      <3> QED
        BY <2>2, <3>1 DEF Due
    <2> HIDE DEF attempt, state
    <2>7. delivery'[has].attempt <= delivery'[has].max
      BY <2>3, <2>6
    <2> QED
      BY <1>10, <2>1, <2>2, <2>3, <2>4, <2>5, <2>7
  <1>14. CASE FinishSent(w)
    <2>1. sender[w].pc = "sending" /\ SetStatus(has, "SENT") /\ UNCHANGED <<ready, delayed>>
      BY <1>0, <1>14 DEF FinishSent, nQueueVars
    <2>2. /\ delivery'[has].status = "SENT"
          /\ delivery'[has].attempt = delivery[has].attempt
          /\ delivery'[has].max = delivery[has].max
          /\ \A d \in Delivery \ {has} : delivery'[d] = delivery[d]
      BY <1>11, <2>1, StatusWritten DEF Statuses
    <2>3. /\ sender'[w].pc = "ack" /\ sender'[w].id = has
          /\ \A v \in Workers \ {w} : sender'[v] = sender[v]
      BY <1>0, <1>1, <1>14 DEF FinishSent, On
    <2> QED
      BY <1>2, <1>10, <1>11, <2>1, <2>2, <2>3 DEF senderFrame
  <1>15. CASE FinishFailure(w)
    <2>1. /\ sender[w].pc = "sending" /\ UNCHANGED <<ready, notifier>>
          /\ sender'[w].pc = "ack" /\ sender'[w].id = has
          /\ \A v \in Workers \ {w} : sender'[v] = sender[v]
      BY <1>0, <1>1, <1>2, <1>15 DEF FinishFailure, On, senderFrame
    <2>2. CASE sender[w].attempt < sender[w].max /\ SetStatus(has, "PENDING")
               /\ EnqueueDelayed(has)
      <3>1. /\ delivery'[has].status = "PENDING"
            /\ delivery'[has].attempt = delivery[has].attempt
            /\ delivery'[has].max = delivery[has].max
            /\ \A d \in Delivery \ {has} : delivery'[d] = delivery[d]
        BY <1>11, <2>1, <2>2, StatusWritten DEF Statuses
      <3>2. \A d \in Delivery \ {has} : d \in delayed' <=> d \in delayed
        BY <2>2 DEF EnqueueDelayed
      <3>3. Due(has)'
        BY <1>11, <2>1, <2>2, <3>1 DEF Due
      <3> QED
        BY <1>10, <1>11, <2>1, <3>1, <3>2, <3>3
    <2>3. CASE SetStatus(has, "FAILED") /\ UNCHANGED delayed
      <3>1. /\ delivery'[has].status = "FAILED"
            /\ delivery'[has].attempt = delivery[has].attempt
            /\ delivery'[has].max = delivery[has].max
            /\ \A d \in Delivery \ {has} : delivery'[d] = delivery[d]
        BY <1>11, <2>1, <2>3, StatusWritten DEF Statuses
      <3> QED
        BY <1>10, <1>11, <2>1, <2>3, <3>1
    <2> QED
      BY <1>0, <1>15, <2>2, <2>3 DEF FinishFailure
  <1>16. CASE Ack(w)
    <2>1. /\ sender[w].pc = "ack" /\ has \in Delivery /\ sender[w].id = has
          /\ UNCHANGED <<ready, delayed, delivery, notifier>>
          /\ sender'[w].pc = "idle" /\ \A v \in Workers \ {w} : sender'[v] = sender[v]
      BY <1>0, <1>1, <1>2, <1>3, <1>16 DEF Ack, At, rowVars, senderFrame
    <2>2. \A v \in Workers : /\ Carries(v, has)' <=> Carries(v, has)
                             /\ Carries(v, has) => sender'[v] = sender[v]
                             /\ Carries(v, has) => v # w
      BY <2>1 DEF Carries
    <2>3. (Waits(has)' <=> Waits(has)) /\ (InQueue(has)' <=> InQueue(has))
      BY <2>1, QueueIs
    <2>4. OnePlace(has) /\ RowTrue(has)
      BY <2>1 DEF Calm
    <2>5. OnePlace(has)'
      BY <2>1, <2>2, <2>3, <2>4 DEF OnePlace
    <2>6. RowTrue(has)'
      BY <2>1, <2>2, <2>3, <2>4 DEF RowTrue, Due, Carries
    <2> QED
      BY <1>4, <1>5, <2>1, <2>5, <2>6 DEF Calm
  <1> QED
    BY <1>6, <1>7, <1>8, <1>9, <1>12, <1>13, <1>14, <1>15, <1>16 DEF SenderStep

LEMMA NotifyOrderly ==
    ASSUME TypeOK, OnlyStored, Calm, NEW w \in Workers,
           NotifyPush(w) \/ \E e \in Events : NotifyCommit(w, e)
    PROVE  Calm'
  <1> USE TypeParts
  <1>1. ASSUME NEW e \in Events, NotifyCommit(w, e) PROVE Calm'
    <2> DEFINE new == {x \in {e} \X Providers : enabled[x[2]] /\ ~ Exists(x)}
               fresh == [status |-> "PENDING", attempt |-> 0, max |-> MaxAttempts]
    <2>1. PICK x \in {new} :
             /\ delivery' = [y \in Delivery |-> IF y \in x THEN fresh ELSE delivery[y]]
             /\ notifier' = [notifier EXCEPT ![w] = x]
      BY <1>1 DEF NotifyCommit
    <2>2. ASSUME NEW d \in Delivery, d \in x PROVE ~ Mentioned(d)
      BY <2>2 DEF OnlyStored
    <2> HIDE DEF new
    <2>3. /\ notifier[w] = {} /\ notifier'[w] = x
          /\ \A v \in Workers \ {w} : notifier'[v] = notifier[v]
          /\ UNCHANGED <<ready, delayed, sender, recovery, client>>
      BY <1>1, <2>1 DEF NotifyCommit, nQueueVars
    <2>4. Distinct' /\ \A d \in Delivery : /\ Waits(d)' <=> Waits(d)
                                           /\ InQueue(d)' <=> InQueue(d)
      BY <2>3, QueueIs DEF Calm, Distinct
    <2>5. ASSUME NEW d \in Delivery PROVE OnePlace(d)' /\ RowTrue(d)'
      <3>1. OnePlace(d) /\ RowTrue(d)
        BY DEF Calm
      <3>2. \A v \in Workers : Carries(v, d)' <=> Carries(v, d)
        BY <2>3 DEF Carries
      <3>3. CASE d \in x
        <4>1. /\ ~ InQueue(d)
              /\ \A v \in Workers : d \notin notifier[v]
              /\ \A v \in Workers : ~ Carries(v, d)
          BY <2>2, <3>3 DEF Mentioned, InFlight, Carries
        <4>2. \A v \in Workers : d \in notifier'[v] <=> v = w
          BY <2>3, <3>3, <4>1
        <4>3. /\ delivery'[d] = fresh /\ fresh.status = "PENDING"
              /\ fresh.attempt = 0 /\ fresh.max = MaxAttempts
          BY <2>1, <3>3
        <4> HIDE DEF fresh
        <4>4. Due(d)' /\ delivery'[d].attempt <= delivery'[d].max
          BY <4>3, NotificationAssumption DEF Due
        <4>5. OnePlace(d)'
          BY <2>3, <2>4, <3>1, <3>2, <4>1, <4>2 DEF OnePlace
        <4>6. RowTrue(d)'
          BY <2>3, <2>4, <3>2, <4>1, <4>3, <4>4 DEF RowTrue, Carries
        <4> QED
          BY <4>5, <4>6
      <3>4. CASE d \notin x
        <4>1. delivery'[d] = delivery[d]
          BY <2>1, <3>4
        <4>2. \A v \in Workers : d \in notifier'[v] <=> d \in notifier[v]
          BY <2>3, <3>4
        <4>3. OnePlace(d)'
          BY <2>3, <2>4, <3>1, <3>2, <4>2 DEF OnePlace
        <4>4. RowTrue(d)'
          BY <2>3, <2>4, <3>1, <3>2, <4>1, <4>2 DEF RowTrue, Due
        <4> QED
          BY <4>3, <4>4
      <3> QED
        BY <3>3, <3>4
    <2> QED
      BY <2>3, <2>4, <2>5 DEF Calm
  <1>2. CASE NotifyPush(w)
    <2>1. PICK e \in notifier[w] : Enqueue(e) /\ notifier' = [notifier EXCEPT ![w] = @ \ {e}]
      BY <1>2 DEF NotifyPush
    <2>2. /\ e \in Delivery
          /\ notifier'[w] = notifier[w] \ {e}
          /\ \A v \in Workers \ {w} : notifier'[v] = notifier[v]
          /\ UNCHANGED <<delayed, delivery, sender, recovery, client>>
      BY <1>2, <2>1 DEF NotifyPush, rowVars
    <2>3. /\ ~ Waits(e) /\ e \notin delayed /\ RowTrue(e)
          /\ \A v \in Workers : ~ Carries(v, e)
          /\ \A v \in Workers \ {w} : e \notin notifier[v]
      BY <2>1, <2>2, QueueIs DEF Calm, OnePlace
    <2>4. Distinct' /\ \A d \in Delivery : Waits(d)' <=> Waits(d) \/ d = e
      BY <2>1, <2>2, <2>3, EnqueueDistinct, EnqueueWaits DEF Calm
    <2>5. \A d \in Delivery : InQueue(d)' <=> InQueue(d) \/ d = e
      BY <2>2, <2>4, QueueIs
    <2>6. ASSUME NEW d \in Delivery PROVE OnePlace(d)' /\ RowTrue(d)'
      <3>1. OnePlace(d) /\ RowTrue(d)
        BY DEF Calm
      <3>2. \A v \in Workers : Carries(v, d)' <=> Carries(v, d)
        BY <2>2 DEF Carries
      <3>3. \A v \in Workers : d \in notifier'[v] => d \in notifier[v] /\ d # e
        BY <2>2, <2>3
      <3>4. OnePlace(d)'
        BY <2>2, <2>3, <2>4, <2>5, <3>1, <3>2, <3>3 DEF OnePlace
      <3>5. d = e => Due(e)
        BY <2>1, <2>3 DEF RowTrue
      <3>6. RowTrue(d)'
        BY <2>2, <2>5, <3>1, <3>2, <3>3, <3>5 DEF RowTrue, Due
      <3> QED
        BY <3>4, <3>6
    <2> QED
      BY <2>2, <2>4, <2>6 DEF Calm
  <1> QED
    BY <1>1, <1>2

\* While all is calm there is nothing for the recovery to find.
LEMMA NothingStale ==
    ASSUME TypeOK, Calm, NEW w \in Workers, RecoveryStep(w), spent' = spent
    PROVE  FALSE
  <1>1. recovery[w].pc = "idle"
    BY DEF Calm
  <1>2. CASE Reclaim(w)
    BY <1>2, TypeParts DEF Reclaim, Spend
  <1>3. CASE FindStale(w)
    <2>1. PICK d \in Delivery : Stale(d)
      BY <1>3 DEF FindStale
    <2>2. RowTrue(d) /\ delivery[d].status = "SENDING"
      BY <2>1 DEF Calm, Stale
    <2> QED
      BY <2>1, <2>2 DEF RowTrue, Stale
  <1> QED
    BY <1>1, <1>2, <1>3 DEF RecoveryStep, ReclaimPush, RecoverCommit, RecoverPush

LEMMA CalmKept ==
    ASSUME TypeOK, OnlyStored, Calm, [Next]_vars, spent = 0, spent' = 0
    PROVE  Calm'
  <1>1. ASSUME NEW w \in Workers, Crash(w) \/ FinishFails(w) \/ Stop(w) PROVE FALSE
    BY <1>1 DEF Crash, FinishFails, Stop, Fault, Spend
  <1>2. ASSUME NEW w \in Workers, Restart(w) PROVE FALSE
    BY <1>2 DEF Restart, At, Calm
  <1>3. ASSUME NEW d \in Delivery, RetryCommit(d) \/ RetryPush(d) PROVE FALSE
    BY <1>3 DEF RetryCommit, RetryPush, Spend, Calm
  <1>4. ASSUME UNCHANGED <<ready, delayed, delivery, sender, recovery, notifier, client>>
        PROVE  Calm'
    <2>1. Distinct' /\ \A d \in Delivery : /\ Waits(d)' <=> Waits(d)
                                           /\ InQueue(d)' <=> InQueue(d)
      BY <1>4, QueueIs DEF Calm, Distinct
    <2>2. \A d \in Delivery, w \in Workers : Carries(w, d)' <=> Carries(w, d)
      BY <1>4 DEF Carries
    <2>3. \A d \in Delivery : OnePlace(d)'
      BY <1>4, <2>1, <2>2 DEF Calm, OnePlace
    <2>4. \A d \in Delivery : RowTrue(d)'
      BY <1>4, <2>1, <2>2 DEF Calm, RowTrue, Due
    <2> QED
      BY <1>4, <2>1, <2>3, <2>4 DEF Calm
  <1>5. ASSUME (\E p \in Providers : Administer(p)) \/ UNCHANGED vars
        PROVE  Calm'
    BY <1>4, <1>5 DEF Administer, vars, nQueueVars, rowVars
  <1> QED
    BY <1>1, <1>2, <1>3, <1>5, LoopOrderly, NotifyOrderly, NothingStale DEF Next

LEMMA SpentGrows == TypeOK /\ [Next]_vars => (spent' = 0 => spent = 0)
  <1> SUFFICES ASSUME TypeOK, [Next]_vars PROVE spent' = spent \/ Spend
    BY TypeParts, NotificationAssumption DEF Spend
  <1> QED
    BY DEF Next, NotifyCommit, NotifyPush, SenderStep, PromoteRemove, PromotePush, LeaseNext,
           Read, MarkFailed, Mark, FinishSent, FinishFailure, Ack, RecoveryStep, Reclaim,
           ReclaimPush, FindStale, RecoverCommit, RecoverPush, Crash, FinishFails, Stop,
           Restart, RetryCommit, RetryPush, Administer, Fault, vars, senderFrame

\* The queue alone keeps the workers apart and the attempts within their limit, for any
\* number of workers, as long as nothing is reclaimed, retried by hand or fails: no lock
\* and no condition in the UPDATEs is needed for that.
THEOREM QueueKeepsOrder == Spec => []OrderlyUndisturbed
  <1> DEFINE Inv == PendingInv /\ (spent = 0 => Calm)
  <1>1. Init => Inv
    <2> SUFFICES ASSUME Init PROVE Inv
      OBVIOUS
    <2>1. PendingInv
      BY PendingInitially
    <2>2. /\ ready = <<>> /\ delayed = {} /\ client = {}
          /\ \A w \in Workers : /\ sender[w].pc = "idle" /\ recovery[w].pc = "idle"
                                /\ notifier[w] = {}
          /\ \A d \in Delivery : delivery[d] = Absent
      BY DEF Init, QueueInit, At
    <2>3. \A d \in Delivery : ~ InQueue(d) /\ ~ Waits(d)
      BY <2>2 DEF InQueue, Waits
    <2>4. \A d \in Delivery : OnePlace(d) /\ RowTrue(d)
      BY <2>2, <2>3 DEF OnePlace, RowTrue, Carries, Absent
    <2> QED
      BY <2>1, <2>2, <2>4 DEF Calm, Distinct
  <1>2. Inv /\ [Next]_vars => Inv'
    BY PendingInductive, CalmKept, SpentGrows DEF PendingInv
  <1>3. Inv => OrderlyUndisturbed
    <2> SUFFICES ASSUME PendingInv, spent = 0, Calm PROVE OrderlyUndisturbed
      BY DEF OrderlyUndisturbed
    <2>1. \A d \in Delivery : delivery[d].attempt <= delivery[d].max
      BY DEF Calm, RowTrue
    <2>2. OneSender
      BY SenderShape DEF OneSender, Calm, OnePlace, Carries, PendingInv, TypeOK
    <2> QED
      BY <2>1, <2>2 DEF OrderlyUndisturbed
  <1> QED
    BY <1>1, <1>2, <1>3, PTL DEF Spec
=============================================================================
