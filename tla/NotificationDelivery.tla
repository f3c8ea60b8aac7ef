-------------------------- MODULE NotificationDelivery --------------------------
(***************************************************************************)
(* services/notifications/service.py, its consumer loop and its recovery:  *)
(* an announced event becomes one delivery row per enabled provider; the   *)
(* workers lease the ids, mark the row, call the provider, and write the   *)
(* outcome in a second transaction. No transaction locks its row.          *)
(***************************************************************************)
EXTENDS NotificationQueue, FiniteSets

CONSTANTS Workers,      \* worker processes
          MaxAttempts,  \* notification_max_attempts
          MaxSpent      \* bound on what may go on for ever: ids the recovery takes out
                        \* of processing, manual retries, faults

ASSUME NotificationAssumption ==
    /\ MaxAttempts \in Nat \ {0}
    /\ MaxSpent \in Nat

VARIABLES enabled,   \* notification_providers.enabled; a deleted row is not
          delivery,  \* notification_deliveries: status, attempt, max_attempts
          sender,    \* run_notification_loop, per worker
          recovery,  \* recover_stale_notifications, per worker
          notifier,  \* ids _notify committed and has not pushed yet, per worker
          client,    \* ids the retry route committed and has not pushed yet
          spent,     \* the counter behind MaxSpent
          faulty     \* whether there was a fault

rowVars == <<enabled, delivery>>
vars == <<nQueueVars, rowVars, sender, recovery, notifier, client, spent, faulty>>

Statuses == {"PENDING", "SENDING", "SENT", "FAILED"}
Row == [status : Statuses, attempt : Nat, max : Nat]
Absent == [status |-> "NONE", attempt |-> 0, max |-> 0]

At(pc) == [pc |-> pc]
On(pc, d) == [pc |-> pc, id |-> d]

Sender ==
    {At(pc) : pc \in {"down", "idle"}}
    \cup {On(pc, d) : pc \in {"push", "leased", "ack"}, d \in Delivery}
    \cup [pc : {"read"}, id : Delivery, seen : Row]
    \cup [pc : {"sending"}, id : Delivery, attempt : Nat, max : Nat]

Recovery ==
    {At("idle")} \cup {On("reclaimed", d) : d \in Delivery}
    \cup [pc : {"commit"}, again : SUBSET Delivery, over : SUBSET Delivery]
    \cup [pc : {"requeue"}, again : SUBSET Delivery]

TypeOK ==
    /\ QueueTypeOK
    /\ enabled \in [Providers -> BOOLEAN]
    /\ delivery \in [Delivery -> Row \cup {Absent}]
    /\ sender \in [Workers -> Sender]
    /\ recovery \in [Workers -> Recovery]
    /\ notifier \in [Workers -> SUBSET Delivery]
    /\ client \subseteq Delivery
    /\ spent \in 0..MaxSpent
    /\ faulty \in BOOLEAN

Init ==
    /\ QueueInit
    /\ enabled \in [Providers -> BOOLEAN]
    /\ delivery = [d \in Delivery |-> Absent]
    /\ sender = [w \in Workers |-> At("idle")]
    /\ recovery = [w \in Workers |-> At("idle")]
    /\ notifier = [w \in Workers |-> {}]
    /\ client = {}
    /\ spent = 0
    /\ faulty = FALSE

Exists(d) == delivery[d].status # "NONE"

\* the ids still to be pushed after the commit
Requeue(ids) == IF ids = {} THEN At("idle") ELSE [pc |-> "requeue", again |-> ids]

SetStatus(d, status) == delivery' = [delivery EXCEPT ![d].status = status]

SenderAt(w, state) == sender' = [sender EXCEPT ![w] = state]

RecoveryAt(w, state) == recovery' = [recovery EXCEPT ![w] = state]

Spend == spent < MaxSpent /\ spent' = spent + 1

Up(w) == sender[w].pc # "down"

-----------------------------------------------------------------------------
(* _notify, called by the job loop of a worker. *)

\* Mutant: the ids are not kept for the pushes.
NotifyCommitOnly(w, e) ==
    /\ Up(w) /\ notifier[w] = {}
    /\ \E new \in {{d \in {e} \X Providers : enabled[d[2]] /\ ~ Exists(d)}} :
         /\ new # {}
         /\ delivery' = [d \in Delivery |->
                IF d \in new THEN [status |-> "PENDING", attempt |-> 0, max |-> MaxAttempts]
                             ELSE delivery[d]]
    /\ UNCHANGED <<nQueueVars, enabled, sender, recovery, notifier, client, spent, faulty>>

\* One transaction inserts the rows, ON CONFLICT DO NOTHING on the dedupe key ...
NotifyCommit(w, e) ==
    /\ Up(w) /\ notifier[w] = {}
    /\ \E new \in {{d \in {e} \X Providers : enabled[d[2]] /\ ~ Exists(d)}} :
         /\ new # {}
         /\ delivery' = [d \in Delivery |->
                IF d \in new THEN [status |-> "PENDING", attempt |-> 0, max |-> MaxAttempts]
                             ELSE delivery[d]]
         /\ notifier' = [notifier EXCEPT ![w] = new]
    /\ UNCHANGED <<nQueueVars, enabled, sender, recovery, client, spent, faulty>>

\* ... and the ids that were inserted are pushed one by one after the commit.
NotifyPush(w) ==
    /\ \E d \in notifier[w] :
         /\ Enqueue(d)
         /\ notifier' = [notifier EXCEPT ![w] = @ \ {d}]
    /\ UNCHANGED <<processing, delayed, rowVars, sender, recovery, client, spent, faulty>>

-----------------------------------------------------------------------------
(* run_notification_loop: promote_due, lease, dispatch, ack. What promote_due finds  *)
(* due is up to the clock, so an idle loop may promote or lease.                      *)

senderFrame == <<recovery, notifier, client, spent, faulty>>

\* Mutant: whatever the range query returned is pushed, without the ZREM.
PromoteWithoutRemove(w) ==
    /\ sender[w].pc = "idle"
    /\ \E d \in delayed :
         UNCHANGED delayed /\ SenderAt(w, On("push", d))
    /\ UNCHANGED <<ready, processing, rowVars, senderFrame>>

\* the ZREM of promote_due elects who pushes the entry
PromoteRemove(w) ==
    /\ sender[w].pc = "idle"
    /\ \E d \in delayed :
         delayed' = delayed \ {d} /\ SenderAt(w, On("push", d))
    /\ UNCHANGED <<ready, processing, rowVars, senderFrame>>

PromotePush(w) ==
    /\ sender[w].pc = "push"
    /\ Enqueue(sender[w].id)
    /\ SenderAt(w, At("idle"))
    /\ UNCHANGED <<processing, delayed, rowVars, senderFrame>>

LeaseNext(w) ==
    /\ sender[w].pc = "idle"
    /\ Lease
    /\ SenderAt(w, On("leased", Head(ready)))
    /\ UNCHANGED <<delayed, rowVars, senderFrame>>

\* _dispatch reads the row: SENT ends it there ...
Read(w) ==
    /\ sender[w].pc = "leased"
    /\ LET d == sender[w].id IN
         IF delivery[d].status = "SENT"
         THEN SenderAt(w, On("ack", d))
         ELSE SenderAt(w, [pc |-> "read", id |-> d, seen |-> delivery[d]])
    /\ UNCHANGED <<nQueueVars, rowVars, senderFrame>>

\* ... a provider that is gone or disabled ends it as FAILED ...
MarkFailed(w) ==
    /\ sender[w].pc = "read"
    /\ LET d == sender[w].id IN
         /\ ~ enabled[ProviderOf(d)]
         /\ SetStatus(d, "FAILED")
         /\ SenderAt(w, On("ack", d))
    /\ UNCHANGED <<nQueueVars, enabled, senderFrame>>

\* ... and otherwise SENDING and the attempt after the one it read are committed.
Mark(w) ==
    /\ sender[w].pc = "read"
    /\ LET d == sender[w].id
           attempt == sender[w].seen.attempt + 1 IN
         /\ enabled[ProviderOf(d)]
         /\ delivery' = [delivery EXCEPT ![d].status = "SENDING", ![d].attempt = attempt]
         /\ SenderAt(w, [pc |-> "sending", id |-> d, attempt |-> attempt,
                         max |-> sender[w].seen.max])
    /\ UNCHANGED <<nQueueVars, enabled, senderFrame>>

\* The provider took the message: SENT, whatever the row says by now.
FinishSent(w) ==
    /\ sender[w].pc = "sending"
    /\ SetStatus(sender[w].id, "SENT")
    /\ SenderAt(w, On("ack", sender[w].id))
    /\ UNCHANGED <<nQueueVars, enabled, senderFrame>>

\* Mutant: the retry is stored but not scheduled.
FinishFailureForgets(w) ==
    /\ sender[w].pc = "sending"
    /\ LET d == sender[w].id IN
         /\ SetStatus(d, IF sender[w].attempt < sender[w].max THEN "PENDING" ELSE "FAILED")
         /\ SenderAt(w, On("ack", d))
    /\ UNCHANGED <<nQueueVars, enabled, senderFrame>>

\* An error, or a timeout that hides whether the message was taken. _finish_failure:
\* PENDING with a delayed entry while the attempts it captured last
FinishFailure(w) ==
    /\ sender[w].pc = "sending"
    /\ LET d == sender[w].id IN
         /\ \/ /\ sender[w].attempt < sender[w].max
               /\ SetStatus(d, "PENDING")
               /\ EnqueueDelayed(d)
            \/ /\ sender[w].attempt >= sender[w].max
               /\ SetStatus(d, "FAILED")
               /\ UNCHANGED delayed
         /\ SenderAt(w, On("ack", d))
    /\ UNCHANGED <<ready, processing, enabled, senderFrame>>

Ack(w) ==
    /\ sender[w].pc = "ack"
    /\ RemoveCopy(sender[w].id)
    /\ SenderAt(w, At("idle"))
    /\ UNCHANGED <<ready, delayed, rowVars, senderFrame>>

SenderStep(w) ==
    \/ PromoteRemove(w) \/ PromotePush(w) \/ LeaseNext(w)
    \/ Read(w) \/ MarkFailed(w) \/ Mark(w) \/ FinishSent(w)
    \/ FinishFailure(w) \/ Ack(w)

-----------------------------------------------------------------------------
(* recover_stale_notifications, once per recovery_interval_s in every worker. *)

recoveryFrame == <<sender, notifier, client>>

\* reclaim_processing takes every id in processing, a live worker's too ...
Reclaim(w) ==
    /\ Up(w) /\ recovery[w].pc = "idle"
    /\ Spend
    /\ \E d \in Delivery :
         processing[d] > 0 /\ RemoveCopy(d) /\ RecoveryAt(w, On("reclaimed", d))
    /\ UNCHANGED <<ready, delayed, rowVars, recoveryFrame, faulty>>

\* ... and pushes it back.
ReclaimPush(w) ==
    /\ recovery[w].pc = "reclaimed"
    /\ Enqueue(recovery[w].id)
    /\ RecoveryAt(w, At("idle"))
    /\ UNCHANGED <<processing, delayed, rowVars, recoveryFrame, spent, faulty>>

\* sending_since is older than notification_stale_after_s (120 s): a send is cut
\* off after 25 s, so the worker that made the mark is no longer sending.
Stale(d) ==
    /\ delivery[d].status = "SENDING"
    /\ \A w \in Workers :
         sender[w].pc = "sending" /\ sender[w].id = d
           => sender[w].attempt # delivery[d].attempt

OutOfAttempts(d) == delivery[d].attempt >= delivery[d].max

\* Mutant: only rows with attempts left are looked at.
FindStaleRetryable(w) ==
    /\ Up(w) /\ recovery[w].pc = "idle"
    /\ \E stale \in {{d \in Delivery : Stale(d) /\ ~ OutOfAttempts(d)}} :
         /\ stale # {}
         /\ RecoveryAt(w, [pc |-> "commit", again |-> stale, over |-> {}])
    /\ UNCHANGED <<nQueueVars, rowVars, recoveryFrame, spent, faulty>>

\* the SELECT: neither a lock nor SKIP LOCKED
FindStale(w) ==
    /\ Up(w) /\ recovery[w].pc = "idle"
    /\ \E stale \in {{d \in Delivery : Stale(d)}} :
         /\ stale # {}
         /\ RecoveryAt(w, [pc |-> "commit",
                           again |-> {d \in stale : ~ OutOfAttempts(d)},
                           over |-> {d \in stale : OutOfAttempts(d)}])
    /\ UNCHANGED <<nQueueVars, rowVars, recoveryFrame, spent, faulty>>

\* the UPDATEs of the same transaction: only status is written
RecoverCommit(w) ==
    /\ recovery[w].pc = "commit"
    /\ delivery' = [d \in Delivery |->
          IF d \in recovery[w].again THEN [delivery[d] EXCEPT !.status = "PENDING"]
          ELSE IF d \in recovery[w].over THEN [delivery[d] EXCEPT !.status = "FAILED"]
          ELSE delivery[d]]
    /\ RecoveryAt(w, Requeue(recovery[w].again))
    /\ UNCHANGED <<nQueueVars, enabled, recoveryFrame, spent, faulty>>

RecoverPush(w) ==
    /\ recovery[w].pc = "requeue"
    /\ \E d \in recovery[w].again :
         Enqueue(d) /\ RecoveryAt(w, Requeue(recovery[w].again \ {d}))
    /\ UNCHANGED <<processing, delayed, rowVars, recoveryFrame, spent, faulty>>

RecoveryStep(w) ==
    Reclaim(w) \/ ReclaimPush(w) \/ FindStale(w) \/ RecoverCommit(w) \/ RecoverPush(w)

-----------------------------------------------------------------------------
(* The API: manual retry, and the administration of providers. *)

\* NotificationService.retry: anything but SENT becomes PENDING, with an attempt left
RetryCommit(d) ==
    /\ Spend
    /\ delivery[d].status \in Statuses \ {"SENT"}
    /\ delivery' = [delivery EXCEPT ![d].status = "PENDING",
                       ![d].max = IF OutOfAttempts(d) THEN delivery[d].attempt + 1 ELSE @]
    /\ client' = client \cup {d}
    /\ UNCHANGED <<nQueueVars, enabled, sender, recovery, notifier, faulty>>

RetryPush(d) ==
    /\ d \in client
    /\ Enqueue(d)
    /\ client' = client \ {d}
    /\ UNCHANGED <<processing, delayed, rowVars, sender, recovery, notifier, spent, faulty>>

\* set_enabled and update_provider, delete_provider
Administer(p) ==
    /\ enabled' = [enabled EXCEPT ![p] = ~ @]
    /\ UNCHANGED <<nQueueVars, delivery, sender, recovery, notifier, client, spent, faulty>>

-----------------------------------------------------------------------------
(* Faults. Somebody else keeps running: the deployment has more workers. *)

Fault == Spend /\ faulty' = TRUE

OtherUp(w) == \E v \in Workers \ {w} : Up(v)

\* The process dies: what its tasks had in hand is gone.
Crash(w) ==
    /\ Fault /\ Up(w) /\ OtherUp(w)
    /\ SenderAt(w, At("down"))
    /\ RecoveryAt(w, At("idle"))
    /\ notifier' = [notifier EXCEPT ![w] = {}]
    /\ UNCHANGED <<nQueueVars, rowVars, client>>

\* The commit of the outcome fails. The delayed entry was made before it; dispatch
\* logs the error and the id is acknowledged.
FinishFails(w) ==
    /\ Fault
    /\ sender[w].pc = "sending"
    /\ LET d == sender[w].id IN
         /\ \/ UNCHANGED delayed
            \/ sender[w].attempt < sender[w].max /\ EnqueueDelayed(d)
         /\ SenderAt(w, On("ack", d))
    /\ UNCHANGED <<ready, processing, rowVars, recovery, notifier, client>>

\* SIGTERM: the loop ends before its next round, or, when the stop is seen after the
\* mark, pushes the id again, acknowledges, and leaves the row SENDING. The other
\* tasks of the process finish what they began.
Stop(w) ==
    /\ Fault /\ OtherUp(w)
    /\ \/ /\ sender[w].pc = "idle"
          /\ UNCHANGED <<ready, processing>>
       \/ /\ sender[w].pc = "sending"
          /\ Enqueue(sender[w].id)
          /\ RemoveCopy(sender[w].id)
    /\ SenderAt(w, At("down"))
    /\ UNCHANGED <<delayed, rowVars, recovery, notifier, client>>

Restart(w) ==
    /\ sender[w] = At("down")
    /\ SenderAt(w, At("idle"))
    /\ UNCHANGED <<nQueueVars, rowVars, recovery, notifier, client, spent, faulty>>

Next ==
    \/ \E w \in Workers :
         \/ \E e \in Events : NotifyCommit(w, e)
         \/ NotifyPush(w) \/ SenderStep(w) \/ RecoveryStep(w)
         \/ Crash(w) \/ FinishFails(w) \/ Stop(w) \/ Restart(w)
    \/ \E d \in Delivery : RetryCommit(d) \/ RetryPush(d)
    \/ \E p \in Providers : Administer(p)

Spec == Init /\ [][Next]_vars

\* Every loop of a worker that is up goes on; a committed request pushes its id; a
\* delay comes due. The recovery loop looks at the rows again and again.
Fairness ==
    /\ \A w \in Workers :
         /\ WF_vars(NotifyPush(w))
         /\ WF_vars(SenderStep(w))
         /\ WF_vars(RecoveryStep(w))
    /\ \A d \in Delivery : WF_vars(RetryPush(d))

FairSpec == Spec /\ Fairness
=============================================================================
