------------------------------- MODULE LiveEvents -------------------------------
(***************************************************************************)
(* One topic of the WebSockets and one client of it: the numbered rows     *)
(* that api/routes/ws.py reads for its snapshot, the same rows published   *)
(* over Redis (ws/events.py), and the client of the frontend, which asks   *)
(* again, after a disconnection, from the last number it saw.              *)
(***************************************************************************)
EXTENDS Naturals, Sequences, FiniteSets, SequencesExt

CONSTANTS Emitters,   \* coroutines and processes that write to the topic at a time
          Buffer,     \* entries a Redis buffer keeps
          MaxRows, MaxDrops, MaxDeaths   \* bounds

ASSUME LiveAssumption == {Emitters, Buffer, MaxRows, MaxDrops, MaxDeaths} \subseteq Nat /\ Buffer > 0

Topics == {"execution", "job", "kernel", "workspace"}
Buffered == {"kernel", "workspace"}     \* kept in Redis and trimmed, without an end
End == 0                                \* stands for the event of the terminal status

VARIABLES topic,
          counter,    \* the Redis counter of the topic
          log,        \* rows a reader sees, in the order they were stored
          published,  \* rows published so far
          writing,    \* the rows being written, and what is left to do of each
          over,       \* the terminal status: "no", "stored" or "published"
          session,    \* the server's end of the connection
          tree,       \* changes the tree read for a workspace's next snapshot shows
          wire,       \* messages on their way to the client
          got, last,  \* rows the client has, and its lastSeq
          told,       \* the client knows of the end, and has closed
          stored,     \* history: rows stored so far, those trimmed since included
          excused,    \* history: rows that a known weakness may keep from the client
          drops, deaths

liveVars == <<topic, counter, log, published, writing, over, session, tree, wire, got, last,
              told, stored, excused, drops, deaths>>
clientVars == <<wire, got, last, told, drops>>

RowNumbers == 1..MaxRows
Message == [rows : SUBSET RowNumbers, seq : 0..MaxRows, over : BOOLEAN]

LiveTypeOK ==
    /\ topic \in Topics /\ counter \in 0..MaxRows
    /\ log \in Seq(RowNumbers) /\ IsInjective(log)
    /\ topic \in Buffered => Len(log) <= Buffer /\ over = "no"
    /\ published \subseteq 1..counter
    /\ Cardinality(writing) <= Emitters
    /\ \A w \in writing : w.row \in 1..counter /\ Len(w.todo) \in 1..2
    /\ over \in {"no", "stored", "published"}
    /\ session \in {"closed", "reading", "read", "live"}
    /\ tree \in 0..MaxRows /\ wire \in Seq(Message)
    /\ got \subseteq 1..counter /\ last \in 0..counter /\ told \in BOOLEAN
    /\ stored \subseteq 1..counter /\ excused \subseteq 0..MaxRows
    /\ drops \in 0..MaxDrops /\ deaths \in 0..MaxDeaths

LiveInit ==
    /\ topic \in Topics
    /\ counter = 0 /\ log = <<>> /\ published = {} /\ over = "no"
    /\ writing = {}
    /\ session = "closed" /\ tree = 0
    /\ wire = <<>> /\ got = {} /\ last = 0 /\ told = FALSE
    /\ stored = {} /\ excused = {} /\ drops = 0 /\ deaths = 0

(***************************************************************************)
(* The emitters: worker, recovery, API, orchestrator, kernel worker and    *)
(* watcher. A job publishes a line before the transaction that holds it    *)
(* commits; the others store first.                                        *)
(***************************************************************************)

Plan == IF topic = "job" THEN <<"publish", "store">> ELSE <<"store", "publish">>

Number ==
    /\ Cardinality(writing) < Emitters /\ counter < MaxRows
    /\ counter' = counter + 1
    /\ writing' = writing \cup {[row |-> counter', todo |-> Plan]}
    /\ UNCHANGED <<topic, log, published, over, session, tree, stored, excused, deaths,
                   clientVars>>

Done(w) ==
    writing' = (writing \ {w}) \cup (IF Len(w.todo) = 1 THEN {}
                                     ELSE {[w EXCEPT !.todo = Tail(@)]})

Doing(w, step) == w \in writing /\ Head(w.todo) = step

Overtaken(r, rows) == \E s \in rows : s > r

\* LTRIM: the last Buffer entries
Trim(rows) == IF topic \in Buffered /\ Len(rows) > Buffer THEN Tail(rows) ELSE rows

Store(w) ==
    /\ Doing(w, "store")
    /\ LET r == w.row
       IN /\ log' = Trim(Append(log, r)) /\ stored' = stored \cup {r}
          /\ excused' = excused \cup (Range(log) \ Range(log'))
                                \cup (IF Overtaken(r, stored) THEN {r} ELSE {})
    /\ Done(w)
    /\ UNCHANGED <<topic, counter, published, over, session, tree, deaths, clientVars>>

\* Only who has subscribed hears of it.
Broadcast(message) == wire' = IF session = "live" THEN Append(wire, message) ELSE wire

\* What is published between the snapshot and the subscription reaches nobody.
InGap(r) == IF session = "read" THEN {r} ELSE {}

Publish(w) ==
    /\ Doing(w, "publish")
    /\ LET r == w.row
       IN /\ published' = published \cup {r}
          /\ Broadcast([rows |-> {r}, seq |-> r, over |-> FALSE])
          /\ excused' = excused \cup InGap(r)
                                \cup (IF Overtaken(r, published) THEN {r} ELSE {})
    /\ Done(w)
    /\ UNCHANGED <<topic, counter, log, over, session, tree, got, last, told, stored, drops,
                   deaths>>

\* The process dies, or a job's transaction is rolled back.
Dies(w) ==
    /\ deaths < MaxDeaths /\ deaths' = deaths + 1
    /\ writing' = writing \ {w}
    /\ excused' = excused \cup {w.row}
    /\ UNCHANGED <<topic, counter, log, published, over, session, tree, stored, clientVars>>

\* The terminal status is committed, then published.
EndStored ==
    /\ topic \notin Buffered /\ over = "no"
    /\ over' = "stored"
    /\ UNCHANGED <<topic, counter, log, published, writing, session, tree, stored, excused,
                   deaths, clientVars>>

EndPublished ==
    /\ over = "stored" /\ over' = "published"
    /\ Broadcast([rows |-> {}, seq |-> 0, over |-> TRUE])
    /\ excused' = excused \cup InGap(End)
    /\ session' = IF session = "live" THEN "closed" ELSE session
    /\ UNCHANGED <<topic, counter, log, published, writing, tree, got, last, told, stored,
                   drops, deaths>>

(***************************************************************************)
(* The server's side of a connection.                                      *)
(***************************************************************************)
\* The client connects; a workspace's tree is read first.
Open ==
    /\ session = "closed" /\ wire = <<>> /\ ~told
    /\ session' = "reading" /\ tree' = IF topic = "workspace" THEN counter ELSE 0
    /\ UNCHANGED <<topic, counter, log, published, writing, over, stored, excused, deaths,
                   clientVars>>

\* Bug: one row is skipped.
UnseenNext == {r \in Range(log) : r > last + 1}

\* logs_since, and the filter of the Redis buffers
Unseen == {r \in Range(log) : r > last}

\* Rows of the log in its order, each once
InLogOrder(rows) ==
    {s \in [1..Cardinality(rows) -> rows] :
        /\ Range(s) = rows
        /\ \A i, j \in DOMAIN s : i < j =>
              \E k, l \in DOMAIN log : k < l /\ log[k] = s[i] /\ log[l] = s[j]}

Highest(rows) == IF rows = {} THEN 0 ELSE Max(rows)

Terminal == over # "no"

\* A workspace's snapshot carries the tree and the counter; what the buffer has is sent
\* behind it, and only to a client that comes back.
WorkspaceMessages(replay) ==
    <<[rows |-> 1..tree, seq |-> counter, over |-> FALSE]>>
       \o [i \in 1..Len(replay) |-> [rows |-> {replay[i]}, seq |-> replay[i], over |-> FALSE]]

SendSnapshot ==
    /\ session = "reading" /\ session' = "read" /\ tree' = 0
    /\ IF topic = "workspace"
       THEN \E replay \in IF last \in 1..counter - 1 THEN InLogOrder(Unseen) ELSE {<<>>} :
              /\ wire' = wire \o WorkspaceMessages(replay)
              /\ excused' = excused \cup ((tree + 1..counter) \ Range(replay))
       ELSE /\ wire' = Append(wire, [rows |-> Unseen, seq |-> Highest(Unseen),
                                     over |-> Terminal])
            /\ excused' = excused \cup (IF topic = "job" THEN published \ Range(log) ELSE {})
    /\ UNCHANGED <<topic, counter, log, published, writing, over, got, last, told, stored,
                   drops, deaths>>

Subscribe ==
    /\ session = "read" /\ session' = "live"
    /\ UNCHANGED <<topic, counter, log, published, writing, over, tree, stored, excused,
                   deaths, clientVars>>

(***************************************************************************)
(* The client.                                                             *)
(***************************************************************************)
Receive ==
    /\ wire # <<>>
    /\ LET m == Head(wire)
       IN /\ got' = got \cup m.rows
          /\ last' = Max({last, m.seq})
          /\ told' = m.over
          /\ wire' = IF m.over THEN <<>> ELSE Tail(wire)
          /\ session' = IF m.over THEN "closed" ELSE session
    /\ UNCHANGED <<topic, counter, log, published, writing, over, tree, stored, excused, drops,
                   deaths>>

\* The connection breaks. A workspace's client already counts what was on its way.
Drop ==
    /\ ~told /\ (session # "closed" \/ wire # <<>>)
    /\ drops < MaxDrops /\ drops' = drops + 1
    /\ session' = "closed" /\ wire' = <<>>
    /\ excused' = excused \cup (IF topic = "workspace"
                                THEN (UNION {wire[i].rows : i \in 1..Len(wire)}) \cap 1..last
                                ELSE {})
    /\ UNCHANGED <<topic, counter, log, published, writing, over, tree, got, last, told, stored,
                   deaths>>

LiveNext ==
    \/ Number
    \/ \E w \in writing : Store(w) \/ Publish(w) \/ Dies(w)
    \/ EndStored
    \/ EndPublished
    \/ Open
    \/ SendSnapshot
    \/ Subscribe
    \/ Receive
    \/ Drop

LiveSpec == LiveInit /\ [][LiveNext]_liveVars

(***************************************************************************)
(* Properties.                                                             *)
(***************************************************************************)
OnWire == UNION {wire[i].rows : i \in 1..Len(wire)}
InHand == {w.row : w \in writing}

\* A client that counts up to a row has it or is about to, unless the row was stored or
\* published out of order, trimmed, published between the snapshot and the subscription,
\* left half written, or (a job) published before it was stored, or (a workspace) numbered
\* between the two reads of a snapshot or cut off behind one. README.md, 119, promises it
\* of every row.
HolesExplained == 1..last \subseteq got \cup OnWire \cup InHand \cup excused

\* A connected client hears of the end once it is published, unless that happens between
\* its snapshot and its subscription.
EndHeard == session = "live" /\ over = "published" /\ wire = <<>> => End \in excused

\* What the reconnections and the numbering are for: no hole that nothing explains, and no
\* client that waits for an end it will never hear of.
ClientCaughtUp == HolesExplained /\ EndHeard

===============================================================================
