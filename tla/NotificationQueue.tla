--------------------------- MODULE NotificationQueue ---------------------------
(***************************************************************************)
(* The Redis structures of queue/notification_queue.py. An entry is the    *)
(* bare id of a delivery, so two entries of one delivery are equal: LREM   *)
(* cannot tell whose copy it removes, and the delayed sorted set keeps one.*)
(***************************************************************************)
EXTENDS Naturals, Sequences

CONSTANTS Events,     \* the scopes and event types that were announced
          Providers   \* rows of notification_providers

\* idempotency_key: one delivery per event and provider
Delivery == Events \X Providers

ProviderOf(d) == d[2]

VARIABLES ready,       \* list nbp:queue:notifications, head = left end
          processing,  \* list ...:processing
          delayed      \* sorted set ...:delayed

nQueueVars == <<ready, processing, delayed>>

NoCopies == [d \in Delivery |-> 0]

QueueTypeOK ==
    /\ ready \in Seq(Delivery)
    /\ processing \in [Delivery -> Nat]
    /\ delayed \subseteq Delivery

QueueInit == ready = <<>> /\ processing = NoCopies /\ delayed = {}

Enqueue(d) == ready' = <<d>> \o ready

EnqueueDelayed(d) == delayed' = delayed \cup {d}

Lease ==
    /\ ready # <<>>
    /\ ready' = Tail(ready)
    /\ processing' = [processing EXCEPT ![Head(ready)] = @ + 1]

\* LREM 1 of the id: somebody's copy, if there is one
RemoveCopy(d) ==
    processing' = [processing EXCEPT ![d] = IF @ > 0 THEN @ - 1 ELSE 0]

InQueue(d) == d \in delayed \/ \E i \in DOMAIN ready : ready[i] = d
=============================================================================
