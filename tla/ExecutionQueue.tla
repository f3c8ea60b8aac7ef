---------------------------- MODULE ExecutionQueue ----------------------------
(***************************************************************************)
(* The Redis structures of queue/execution_queue.py and the one command    *)
(* each method issues on them. A message stands for its JSON payload; the  *)
(* enqueued_at stamp makes every payload unique, so the processing list,   *)
(* the delayed sorted set and the DLQ are bags of messages.                *)
(***************************************************************************)
EXTENDS ExecutionStateMachine, Sequences

VARIABLES main,        \* list nbp:queue:executions, head = left end
          processing,  \* list ...:processing
          delayed,     \* sorted set ...:delayed (retries waiting for their backoff)
          dlq,         \* list nbp:dlq:executions
          cancelKey    \* the executions whose nbp:cancel:<id> key is set

queueVars == <<main, processing, delayed, dlq, cancelKey>>

Message == [exec : Executions, attempt : 1..MaxAttempt]

Bag == [Message -> Nat]

EmptyBag == [m \in Message |-> 0]

Put(bag, m) == [bag EXCEPT ![m] = @ + 1]

Take(bag, m) == [bag EXCEPT ![m] = IF @ > 0 THEN @ - 1 ELSE 0]

QueueTypeOK ==
    /\ main \in Seq(Message)
    /\ processing \in Bag
    /\ delayed \in Bag
    /\ dlq \in Bag
    /\ cancelKey \subseteq Executions

QueueInit ==
    /\ main = <<>>
    /\ processing = EmptyBag
    /\ delayed = EmptyBag
    /\ dlq = EmptyBag
    /\ cancelKey = {}

\* enqueue: LPUSH on the left end ...
Enqueue(m) == main' = <<m>> \o main

\* ... and lease: BLMOVE from that same left end, so the newest message goes first.
Lease ==
    /\ main # <<>>
    /\ main' = Tail(main)
    /\ processing' = Put(processing, Head(main))

\* ack: LREM of one occurrence
Ack(m) == processing' = Take(processing, m)

\* dead_letter: LPUSH on the DLQ
DeadLetter(m) == dlq' = Put(dlq, m)

\* enqueue_delayed: ZADD
EnqueueDelayed(m) == delayed' = Put(delayed, m)

\* Mutant: promote whatever the range query returned, without the ZREM.
RemoveDueNever(m) ==
    /\ delayed[m] > 0
    /\ delayed' = delayed

\* promote_due, first half: the ZREM that elects who promotes the entry
RemoveDue(m) ==
    /\ delayed[m] > 0
    /\ delayed' = Take(delayed, m)

\* request_cancel and clear_cancel; the key also dies by its TTL
RequestCancel(e) == cancelKey' = cancelKey \cup {e}

ClearCancel(e) == cancelKey' = cancelKey \ {e}
=============================================================================
