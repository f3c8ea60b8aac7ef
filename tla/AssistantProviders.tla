--------------------------- MODULE AssistantProviders ---------------------------
(***************************************************************************)
(* The providers of the AI assistant, changed by admins                    *)
(* (services/assistant/provider_admin.py) while calls run on them          *)
(* (services/assistant/service.py). A request is a READ COMMITTED          *)
(* transaction: its SELECT, the UPDATE or INSERT of its row, the UPDATE    *)
(* that clears the default of the others, its commit. What it has written  *)
(* is locked until then.                                                   *)
(***************************************************************************)
EXTENDS Naturals, FiniteSets

CONSTANTS Provider,
          AdminRequest,   \* bound: requests of admins
          Call            \* bound: calls of the assistant

VARIABLES provider,    \* the committed rows
          admin,       \* the transaction of each request
          call,        \* what each call is at
          history,     \* the committed interactions: the provider of each
          raced        \* history: a create of a default overlapped another request for it

assistantVars == <<provider, admin, call, history, raced>>

Gone == [exists |-> FALSE, enabled |-> FALSE, default |-> FALSE]
ProviderRow == {r \in [exists : BOOLEAN, enabled : BOOLEAN, default : BOOLEAN] :
                   ~r.exists => r = Gone}
NoProvider == "none"
Unrecorded == "unrecorded"

ASSUME AssistantAssumption == NoProvider \notin Provider /\ Unrecorded \notin Provider

Field == {{}, {TRUE}, {FALSE}}   \* a field of the payload; {}: it is left out

\* row: the object in memory; dirty: the columns of it that were set to a new value;
\* written: the rows the transaction has locked and written.
Transaction == [pc : {"idle", "loaded", "flushed", "cleared", "done", "failed"},
                op : {"create", "update", "toggle", "delete"},
                target : Provider, row : ProviderRow,
                dirty : SUBSET {"exists", "enabled", "default"},
                written : UNION {[S -> ProviderRow] : S \in SUBSET Provider}]

AssistantTypeOK ==
    /\ provider \in [Provider -> ProviderRow]
    /\ \A a \in AdminRequest : admin[a].pc = "idle" \/ admin[a] \in Transaction
    /\ \A c \in Call : call[c].pc \in {"idle", "run", "stream", "done"}
                       /\ call[c].on \in Provider \cup {NoProvider}
    /\ history \in [Call -> Provider \cup {NoProvider, Unrecorded}]
    /\ raced \in BOOLEAN

AssistantInit ==
    /\ provider \in [Provider -> ProviderRow]
    /\ \A p, q \in Provider : provider[p].default => provider[p].enabled /\ (provider[q].default => p = q)
    /\ admin = [a \in AdminRequest |-> [pc |-> "idle"]]
    /\ call = [c \in Call |-> [pc |-> "idle", on |-> NoProvider]]
    /\ history = [c \in Call |-> Unrecorded]
    /\ raced = FALSE

(***************************************************************************)
(* The transaction of an admin's request.                                  *)
(***************************************************************************)
Active(a) == admin[a].pc \in {"loaded", "flushed", "cleared"}

Locked(a) == IF Active(a) THEN DOMAIN admin[a].written ELSE {}

LockedFor(a) == UNION {Locked(b) : b \in AdminRequest \ {a}}

Given(field, old) == IF field = {} THEN old ELSE field = {TRUE}

\* The columns an UPDATE names: those whose value in memory is new
Changed(old, new) == {k \in {"exists", "enabled", "default"} : old[k] # new[k]}

Begin(a, op, p, new) ==
    admin' = [admin EXCEPT ![a] = [pc |-> "loaded", op |-> op, target |-> p, row |-> new,
                                   dirty |-> Changed(provider[p], new),
                                   written |-> [q \in {} |-> Gone]]]

MakesDefault(a) == Active(a) /\ admin[a].op \in {"create", "update"} /\ admin[a].row.default

\* A create of a default and another request for the default are both in flight.
Races == \E a, b \in AdminRequest :
            a # b /\ MakesDefault(a) /\ MakesDefault(b) /\ admin[a].op = "create"

Create(a, p, enabled, default) ==
    /\ admin[a].pc = "idle" /\ ~provider[p].exists
    /\ \A b \in AdminRequest : admin[b].pc # "idle" => admin[b].target # p   \* a new id
    /\ Begin(a, "create", p, [exists |-> TRUE, enabled |-> enabled,
                              default |-> default /\ enabled])
    /\ raced' = (raced \/ Races')
    /\ UNCHANGED <<provider, call, history>>

Update(a, p, enabled, default) ==
    /\ admin[a].pc = "idle" /\ provider[p].exists
    /\ LET on == Given(enabled, provider[p].enabled)
       IN Begin(a, "update", p,
                [exists |-> TRUE, enabled |-> on,
                 default |-> IF default = {} THEN provider[p].default
                             ELSE default = {TRUE} /\ on])
    /\ raced' = (raced \/ Races')
    /\ UNCHANGED <<provider, call, history>>

SetEnabled(a, p, enabled) ==
    /\ admin[a].pc = "idle" /\ provider[p].exists
    /\ Begin(a, "toggle", p, [exists |-> TRUE, enabled |-> enabled,
                              default |-> provider[p].default /\ enabled])
    /\ UNCHANGED <<provider, call, history, raced>>

Delete(a, p) ==
    /\ admin[a].pc = "idle" /\ provider[p].exists
    /\ Begin(a, "delete", p, Gone)
    /\ UNCHANGED <<provider, call, history, raced>>

\* The row that a statement leaves: the columns it names, on the row as it is by now
Rewritten(old, new, columns) == [k \in DOMAIN old |-> IF k \in columns THEN new[k] ELSE old[k]]

\* session.flush: nothing to write when no column is new
Flush(a) ==
    /\ admin[a].pc = "loaded"
    /\ admin[a].target \notin LockedFor(a)
    /\ LET t == admin[a]
           now == provider[t.target]
       IN admin' = [admin EXCEPT
              ![a] = IF t.dirty = {} \/ (t.op = "delete" /\ ~now.exists)
                     THEN [t EXCEPT !.pc = "flushed"]
                     ELSE IF t.op # "create" /\ ~now.exists THEN [t EXCEPT !.pc = "failed"]
                     ELSE [t EXCEPT !.pc = "flushed",
                                    !.written = [q \in {t.target} |->
                                        IF t.op = "delete" THEN Gone
                                        ELSE Rewritten(now, t.row, t.dirty)]]]
    /\ UNCHANGED <<provider, call, history, raced>>

\* Bug: the others keep the default.
ClearDefaultNothing(a) ==
    /\ admin[a].pc = "flushed" /\ MakesDefault(a)
    /\ admin' = [admin EXCEPT ![a].pc = "cleared"]
    /\ UNCHANGED <<provider, call, history, raced>>

\* UPDATE ... SET is_default = false of every other row it sees, once all are free
ClearDefault(a) ==
    /\ admin[a].pc = "flushed" /\ MakesDefault(a)
    /\ LET others == {q \in Provider : provider[q].exists} \ {admin[a].target}
       IN /\ others \cap LockedFor(a) = {}
          /\ admin' = [admin EXCEPT
                 ![a].pc = "cleared",
                 ![a].written = [q \in others \cup DOMAIN @ |->
                                   IF q \in others THEN [provider[q] EXCEPT !.default = FALSE]
                                   ELSE @[q]]]
    /\ UNCHANGED <<provider, call, history, raced>>

\* A row that goes takes its id out of the interactions (ON DELETE SET NULL).
CommitAdmin(a) ==
    /\ \/ admin[a].pc = "cleared"
       \/ admin[a].pc = "flushed" /\ ~MakesDefault(a)
    /\ provider' = [q \in Provider |-> IF q \in Locked(a) THEN admin[a].written[q]
                                       ELSE provider[q]]
    /\ history' = [c \in Call |->
                     IF history[c] \in Provider /\ ~provider'[history[c]].exists
                     THEN NoProvider ELSE history[c]]
    /\ admin' = [admin EXCEPT ![a].pc = "done"]
    /\ UNCHANGED <<call, raced>>

WaitsFor(a) ==
    CASE admin[a].pc = "loaded"  -> {b \in AdminRequest \ {a} : admin[a].target \in Locked(b)}
      [] admin[a].pc = "flushed" /\ MakesDefault(a)
                                 -> {b \in AdminRequest \ {a} : Locked(b) \ {admin[a].target} # {}}
      [] OTHER                   -> {}

\* PostgreSQL breaks a deadlock by failing one of the transactions.
Deadlocked(a) ==
    /\ \E b \in WaitsFor(a) : a \in WaitsFor(b)
    /\ admin' = [admin EXCEPT ![a].pc = "failed"]
    /\ UNCHANGED <<provider, call, history, raced>>

(***************************************************************************)
(* A call: run, stream or inline_complete.                                 *)
(***************************************************************************)
Ended == [pc |-> "done", on |-> NoProvider]

Usable == {p \in Provider : provider[p].enabled}
Defaults == {p \in Usable : provider[p].default}

\* default_provider: a default, else any that is enabled
Resolvable == IF Defaults # {} THEN Defaults ELSE Usable

Ask(c, kind) ==
    /\ call[c].pc = "idle"
    /\ \/ \E p \in Resolvable : call' = [call EXCEPT ![c] = [pc |-> kind, on |-> p]]
       \/ Usable = {} /\ call' = [call EXCEPT ![c] = Ended]
    /\ UNCHANGED <<provider, admin, history, raced>>

\* run: the user has had the minute's share of it (the count itself is left out), which
\* neither a stream nor an inline completion takes from.
RateLimited(c) ==
    /\ call[c].pc = "idle"
    /\ call' = [call EXCEPT ![c] = Ended]
    /\ UNCHANGED <<provider, admin, history, raced>>

\* An inline completion, and nothing of it, whatever its provider does, is kept.
InlineComplete(c) ==
    /\ call[c].pc = "idle"
    /\ call' = [call EXCEPT ![c] = Ended]
    /\ UNCHANGED <<provider, admin, history, raced>>

\* The interaction refers to the provider. When that row is gone the INSERT fails and the
\* interaction is not kept; while a DELETE of it is in flight the INSERT waits.
Record(c) ==
    /\ \A a \in AdminRequest : Active(a) /\ admin[a].op = "delete"
                                  => call[c].on \notin Locked(a)
    /\ history' = [history EXCEPT ![c] = IF provider[call[c].on].exists THEN call[c].on ELSE @]
    /\ call' = [call EXCEPT ![c] = Ended]
    /\ UNCHANGED <<provider, admin, raced>>

\* Whatever the provider of a run does, fail or time out, it is an interaction.
Run(c) == call[c].pc = "run" /\ Record(c)

Stream(c) == call[c].pc = "stream" /\ Record(c)

\* Its context cannot be built, or its reader goes away: nothing is recorded.
StreamBroken(c) ==
    /\ call[c].pc = "stream"
    /\ call' = [call EXCEPT ![c] = Ended]
    /\ UNCHANGED <<provider, admin, history, raced>>

AssistantNext ==
    \/ \E a \in AdminRequest, p \in Provider :
          \/ \E on, default \in BOOLEAN : Create(a, p, on, default)
          \/ \E on, default \in Field : Update(a, p, on, default)
          \/ \E on \in BOOLEAN : SetEnabled(a, p, on)
          \/ Delete(a, p)
    \/ \E a \in AdminRequest :
          \/ Flush(a)
          \/ ClearDefault(a)
          \/ CommitAdmin(a)
          \/ Deadlocked(a)
    \/ \E c \in Call :
          \/ \E kind \in {"run", "stream"} : Ask(c, kind)
          \/ RateLimited(c)
          \/ InlineComplete(c)
          \/ Run(c)
          \/ Stream(c)
          \/ StreamBroken(c)

AssistantSpec == AssistantInit /\ [][AssistantNext]_assistantVars

(***************************************************************************)
(* Properties.                                                             *)
(***************************************************************************)
\* At most one enabled provider is the default (provider_admin.py, 5), whatever requests
\* overlap, but for two of them that make a default when one creates its row: neither
\* sees, nor locks, what the other has not committed.
OneDefault == ~raced => Cardinality(Defaults) <= 1

\* An interaction never names a provider that is gone, though the provider may be deleted
\* while the call is out.
HistoryLinked == \A c \in Call : history[c] \in Provider => provider[history[c]].exists

ProvidersAgree == OneDefault /\ HistoryLinked
===============================================================================
