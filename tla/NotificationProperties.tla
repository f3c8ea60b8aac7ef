------------------------- MODULE NotificationProperties -------------------------
(* What the notification pipeline promises, and what it does not. *)
EXTENDS NotificationDelivery

\* The id is in Redis, or a process is about to push it or to act on it.
InFlight(d) ==
    \/ InQueue(d)
    \/ d \in client
    \/ \E w \in Workers :
         \/ d \in notifier[w]
         \/ recovery[w].pc = "reclaimed" /\ recovery[w].id = d
         \/ recovery[w].pc = "requeue" /\ d \in recovery[w].again
         \/ sender[w].pc \in {"push", "leased", "read"} /\ sender[w].id = d

\* No PENDING delivery is forgotten: nothing looks for PENDING rows, so as long as no
\* process dies and no commit fails, the id of each must be on its way to a worker.
PendingInFlight ==
    ~ faulty =>
        \A d \in Delivery : delivery[d].status = "PENDING" => InFlight(d)

\* recovery.py says that only ids orphaned by a crash between lease and ack are taken
\* back: then, with no crash, no two workers send one delivery at the same time.
OneSender ==
    \A v, w \in Workers :
        sender[v].pc = "sending" /\ sender[w].pc = "sending" /\ sender[v].id = sender[w].id
            => v = w

\* As long as no id is reclaimed, no retry asked and nothing fails, the queue alone
\* keeps the workers apart and the attempts within their limit.
OrderlyUndisturbed ==
    spent = 0 =>
        /\ OneSender
        /\ \A d \in Delivery : delivery[d].attempt <= delivery[d].max

\* Whatever dies, no delivery stays SENDING: the recovery loop reopens it or ends it.
NeverStuckSending ==
    \A d \in Delivery : delivery[d].status = "SENDING" ~> delivery[d].status # "SENDING"

\* Without faults every delivery that is announced is sent or given up.
DeliverySettles ==
    \A d \in Delivery :
        delivery[d].status = "PENDING"
            ~> (delivery[d].status \in {"SENT", "FAILED"} \/ faulty)
=============================================================================
