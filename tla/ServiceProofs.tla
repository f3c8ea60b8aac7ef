------------------------------ MODULE ServiceProofs ------------------------------
(***************************************************************************)
(* Theorems about the parts that share no state: a notebook in its         *)
(* process, the assistant's providers, the scheduler, the live events and  *)
(* the secrets on their way to the kernels; and, at the end, about all     *)
(* the services side by side, as one process runs them.                    *)
(***************************************************************************)
EXTENDS SandboxRun, AssistantProviders, Scheduler, LiveEvents, SecretEnv, EditorProofs,
        GitProofs, MCServices, FiniteSetTheorems, TLAPS

-----------------------------------------------------------------------------
(* A notebook in its process. *)

CallerState == [pc : {"waiting", "killing", "reaping", "pumping", "done", "raised"},
                timedOut : BOOLEAN, cancelled : BOOLEAN]

Flagged == caller.timedOut \/ caller.cancelled

\* The caller knows why it kills; a notebook runs only in a process; what is read to its
\* end holds no error line unread; and a kill that missed is remembered.
SandboxInv ==
    /\ SandboxTypeOK
    /\ caller.pc = "waiting" => ~Flagged
    /\ caller.pc = "killing" => Flagged
    /\ ~(caller.timedOut /\ caller.cancelled)
    /\ caller.pc \in {"pumping", "done", "raised"} => child = "exited"
    /\ child = "starting" => cells = "none"
    /\ child = "exited" => cells # "running"
    /\ engine = "subprocess" => child # "starting" /\ ~missedKill
    /\ pump = "over" => child = "exited" /\ errorLine # "written"
    /\ caller.pc = "done" => pump # "reading"
    /\ ~Flagged => cells # "killed"
    /\ caller.pc = "reaping" /\ Flagged => (cells # "running" /\ child # "starting") \/ missedKill

LEMMA SandboxStarts == SandboxInit => SandboxInv
<1> SUFFICES ASSUME SandboxInit PROVE SandboxInv
  OBVIOUS
<1>1. caller.pc = "waiting" /\ caller.timedOut = FALSE /\ caller.cancelled = FALSE
  BY DEF SandboxInit
<1>2. SandboxTypeOK
  <2>1. caller \in CallerState
    BY DEF SandboxInit, CallerState
  <2>2. breaks \in 0..MaxBreaks
    BY SandboxAssumption DEF SandboxInit
  <2> QED
    BY <2>1, <2>2 DEF SandboxInit, SandboxTypeOK, CallerState
<1> QED
  BY <1>1, <1>2 DEF SandboxInit, SandboxInv, Flagged

\* What the caller is told of by the step of one of its own actions
LEMMA CallerMoves ==
    ASSUME SandboxTypeOK, NEW pc \in {"waiting", "killing", "reaping", "pumping", "done", "raised"},
           CallerAt(pc)
    PROVE  /\ caller' \in CallerState /\ caller'.pc = pc
           /\ caller'.timedOut = caller.timedOut /\ caller'.cancelled = caller.cancelled
  BY DEF SandboxTypeOK, CallerState, CallerAt

LEMMA SandboxStep ==
    ASSUME SandboxInv, [SandboxNext]_sandboxVars
    PROVE  SandboxInv'
<1> USE DEF SandboxInv, SandboxTypeOK, Flagged
<1>1. CASE ContainerStarts \/ ContainerRefused \/ NotebookRaises \/ NotebookEnds \/ ChildExits
  BY <1>1 DEF ContainerStarts, ContainerRefused, NotebookRaises, NotebookEnds, ChildExits
<1>2. CASE PumpReads
  BY <1>2 DEF PumpReads
<1>3. CASE PumpEnds
  BY <1>3 DEF PumpEnds
<1>4. CASE CancelComes
  BY <1>4 DEF CancelComes
<1>5. CASE PumpBreaks
  BY <1>5, SandboxAssumption DEF PumpBreaks
<1>6. CASE WaitEnds
  <2>1. /\ caller'.timedOut = FALSE /\ caller'.cancelled = FALSE
        /\ caller' \in CallerState /\ caller'.pc = "reaping"
    BY <1>6, CallerMoves DEF WaitEnds
  <2>2. child = "exited" /\ UNCHANGED <<engine, child, cells, errorLine, pump, event, missedKill, breaks>>
    BY <1>6 DEF WaitEnds
  <2>3. SandboxTypeOK'
    BY <2>1, <2>2 DEF CallerState
  <2>4. cells # "killed" /\ cells # "running"
    BY <1>6, <2>2 DEF WaitEnds
  <2>5. pump' = "over" => errorLine' # "written"
    BY <2>2
  <2>6. engine' = "subprocess" => child' # "starting" /\ ~missedKill'
    BY <2>2
  <2> QED
    BY <2>1, <2>2, <2>3, <2>4, <2>5, <2>6
<1>7. CASE WaitCancelled \/ WaitTimesOut
  <2>1. /\ caller'.timedOut \in BOOLEAN /\ caller'.cancelled = ~caller'.timedOut
        /\ caller' \in CallerState /\ caller'.pc = "killing"
    BY <1>7 DEF WaitCancelled, WaitTimesOut, CallerState
  <2>2. UNCHANGED <<engine, child, cells, errorLine, pump, event, missedKill, breaks>>
    BY <1>7 DEF WaitCancelled, WaitTimesOut
  <2> QED
    BY <2>1, <2>2 DEF CallerState
<1>8. CASE KillProcess \/ KillContainer
  <2>1. \/ CallerAt("reaping")
        \/ child = "exited" /\ CallerAt("raised")
    BY <1>8 DEF KillProcess, KillContainer
  <2>2. /\ caller'.timedOut = caller.timedOut /\ caller'.cancelled = caller.cancelled
        /\ caller' \in CallerState /\ caller.pc = "killing"
        /\ caller'.pc = "reaping" \/ (caller'.pc = "raised" /\ child = "exited")
    BY <1>8, <2>1, CallerMoves DEF KillProcess, KillContainer
  <2>3. /\ cells' = AfterKill /\ UNCHANGED <<engine, child, errorLine, pump, event, breaks>>
        /\ IF engine = "docker" THEN missedKill' = (child = "starting")
                                ELSE missedKill' = missedKill
    BY <1>8 DEF KillProcess, KillContainer
  <2> QED
    BY <2>2, <2>3 DEF AfterKill, CallerState
<1>9. CASE KillFails
  BY <1>9, SandboxAssumption DEF KillFails, CallerAt
<1>10. CASE Reap \/ Report
  BY <1>10 DEF Reap, Report, CallerAt
<1>11. CASE ReportBreaks
  BY <1>11, SandboxAssumption DEF ReportBreaks, CallerAt
<1>12. CASE UNCHANGED sandboxVars
  BY <1>12 DEF sandboxVars
<1> QED
  BY <1>1, <1>2, <1>3, <1>4, <1>5, <1>6, <1>7, <1>8, <1>9, <1>10, <1>11, <1>12 DEF SandboxNext

LEMMA SandboxAlways == SandboxSpec => []SandboxInv
<1>1. SandboxInv /\ [SandboxNext]_sandboxVars => SandboxInv'
  BY SandboxStep
<1> QED
  BY <1>1, SandboxStarts, PTL DEF SandboxSpec

\* The process, the notebook in it, its reader and the caller keep their types.
THEOREM SandboxTypes == SandboxSpec => []SandboxTypeOK
<1>1. SandboxInv => SandboxTypeOK
  BY DEF SandboxInv
<1> QED
  BY <1>1, SandboxAlways, PTL

\* However the end of the process, the cancel, the timeout, the kill and the reader fall
\* together, what the caller reports is what happened.
THEOREM ReportsAreTrue == SandboxSpec => []ReportIsTrue
<1>1. SandboxInv => ReportIsTrue
  BY DEF SandboxInv, SandboxTypeOK, Flagged, ReportIsTrue
<1> QED
  BY <1>1, SandboxAlways, PTL

-----------------------------------------------------------------------------
(* The assistant's providers: what the transactions of the admins hold. *)

AtWork == {"loaded", "flushed", "cleared"}

LockedBy(t) == IF t.pc \in AtWork THEN DOMAIN t.written ELSE {}

MakesOne(t) == t.op \in {"create", "update"} /\ t.row.default

\* What a transaction may write, over the committed rows
TransactionOk(t, rows) ==
    /\ t.op # "delete" => t.row.exists
    /\ t.op = "delete" => t.row = Gone
    /\ t.op \in {"update", "toggle"} => "exists" \notin t.dirty
    /\ t.op = "create" => ~rows[t.target].exists /\ "exists" \in t.dirty
    /\ t.op = "toggle" /\ "default" \in t.dirty => ~t.row.default
    /\ t.pc = "loaded" => DOMAIN t.written = {}
    /\ t.pc = "flushed" => DOMAIN t.written \subseteq {t.target}
    /\ t.pc = "cleared" => MakesOne(t)
    /\ \A q \in DOMAIN t.written :
          /\ t.op # "create" \/ q # t.target => rows[q].exists
          /\ q # t.target => ~t.written[q].default
          /\ ~MakesOne(t) => (t.written[q].default => rows[q].default)

\* The default it writes is the only one there will be.
LeavesOne(t, rows) ==
    t.pc = "cleared" /\ t.target \in DOMAIN t.written /\ t.written[t.target].default
        => \A q \in Provider \ {t.target} : rows[q].default => q \in DOMAIN t.written

AdminRows == [pc : {"idle"}] \cup Transaction

CallRows == [pc : {"idle", "run", "stream", "done"}, on : Provider \cup {NoProvider}]

\* Two transactions lock no row both, and a row that is created is nobody else's.
Apart(t, u) ==
    /\ LockedBy(t) \cap LockedBy(u) = {}
    /\ t.pc \in AtWork /\ t.op = "create" /\ u.pc # "idle" => u.target # t.target

RacesWith(t, u) == {t.pc, u.pc} \subseteq AtWork /\ MakesOne(t) /\ MakesOne(u) /\ t.op = "create"

\* Of two that have cleared the default of the others, one writes no default.
OneClears(t, u) ==
    t.pc = "cleared" /\ u.pc = "cleared" => t.target \notin LockedBy(t) \/ u.target \notin LockedBy(u)

OneRow(rows) == \A p, q \in Provider : rows[p].default /\ rows[q].default => p = q

CallsOk ==
    /\ call \in [Call -> CallRows]
    /\ \A c \in Call : call[c].pc \in {"run", "stream"} => call[c].on \in Provider
    /\ history \in [Call -> Provider \cup {NoProvider, Unrecorded}]
    /\ HistoryLinked

ProvidersInv ==
    /\ provider \in [Provider -> ProviderRow]
    /\ admin \in [AdminRequest -> AdminRows]
    /\ raced \in BOOLEAN
    /\ \A a \in AdminRequest : admin[a].pc \in AtWork => TransactionOk(admin[a], provider)
    /\ \A a, b \in AdminRequest : a # b => Apart(admin[a], admin[b])
    /\ ~raced =>
          /\ OneRow(provider)
          /\ \A a \in AdminRequest : admin[a].pc \in AtWork => LeavesOne(admin[a], provider)
          /\ \A a, b \in AdminRequest :
                a # b => ~RacesWith(admin[a], admin[b]) /\ OneClears(admin[a], admin[b])

LEMMA RowFacts ==
    /\ Gone \in ProviderRow
    /\ \A r \in ProviderRow : /\ r \in [exists : BOOLEAN, enabled : BOOLEAN, default : BOOLEAN]
                              /\ r.default => r.exists
                              /\ ~r.exists => r = Gone
    /\ \A r \in [exists : BOOLEAN, enabled : BOOLEAN, default : BOOLEAN] :
          r.exists => r \in ProviderRow
  BY DEF ProviderRow, Gone

LEMMA TransactionFacts ==
    ASSUME NEW t \in Transaction
    PROVE  /\ t.pc \in {"idle", "loaded", "flushed", "cleared", "done", "failed"}
           /\ t.op \in {"create", "update", "toggle", "delete"}
           /\ t.target \in Provider /\ t.row \in ProviderRow
           /\ t.dirty \subseteq {"exists", "enabled", "default"}
           /\ DOMAIN t.written \subseteq Provider
           /\ \A q \in DOMAIN t.written : t.written[q] \in ProviderRow
           /\ t.written \in [DOMAIN t.written -> ProviderRow]
<1>1. t.written \in UNION {[S -> ProviderRow] : S \in SUBSET Provider}
  BY DEF Transaction
<1>2. PICK S \in SUBSET Provider : t.written \in [S -> ProviderRow]
  BY <1>1
<1> QED
  BY <1>2 DEF Transaction

LEMMA Admins ==
    ASSUME ProvidersInv, NEW a \in AdminRequest
    PROVE  /\ admin[a].pc # "idle" => admin[a] \in Transaction
           /\ admin[a].pc \in AtWork => admin[a] \in Transaction /\ TransactionOk(admin[a], provider)
           /\ Active(a) <=> admin[a].pc \in AtWork
           /\ Locked(a) = LockedBy(admin[a])
  BY DEF ProvidersInv, AdminRows, AtWork, Active, Locked, LockedBy

LEMMA ProvidersStart == AssistantInit => ProvidersInv /\ CallsOk
<1> SUFFICES ASSUME AssistantInit PROVE ProvidersInv /\ CallsOk
  OBVIOUS
<1>1. \A a \in AdminRequest : admin[a].pc = "idle" /\ admin[a] \in AdminRows
  BY DEF AssistantInit, AdminRows
<1>2. \A a \in AdminRequest : admin[a].pc \notin AtWork /\ LockedBy(admin[a]) = {}
  BY <1>1 DEF AtWork, LockedBy
<1>3. admin \in [AdminRequest -> AdminRows]
  BY <1>1 DEF AssistantInit
<1>4. ProvidersInv
  BY <1>1, <1>2, <1>3 DEF AssistantInit, ProvidersInv, OneRow, Apart, RacesWith, OneClears
<1>5. CallsOk
  BY AssistantAssumption DEF AssistantInit, CallsOk, CallRows, HistoryLinked
<1> QED
  BY <1>4, <1>5

\* A step of one transaction, that commits nothing.
LEMMA AdminStep ==
    ASSUME ProvidersInv, NEW a \in AdminRequest, NEW t \in Transaction,
           admin' = [admin EXCEPT ![a] = t], provider' = provider,
           raced' \in BOOLEAN, raced => raced',
           t.pc \in AtWork => TransactionOk(t, provider),
           \A b \in AdminRequest \ {a} : Apart(t, admin[b]) /\ Apart(admin[b], t),
           ~raced' =>
              /\ t.pc \in AtWork => LeavesOne(t, provider)
              /\ \A b \in AdminRequest \ {a} :
                    /\ ~RacesWith(t, admin[b]) /\ ~RacesWith(admin[b], t)
                    /\ OneClears(t, admin[b]) /\ OneClears(admin[b], t)
    PROVE  ProvidersInv'
<1>1. \A x \in AdminRequest : admin'[x] = IF x = a THEN t ELSE admin[x]
  BY DEF ProvidersInv
<1>2. admin' \in [AdminRequest -> AdminRows]
  BY DEF ProvidersInv, AdminRows
<1>3. \A x \in AdminRequest : admin'[x].pc \in AtWork => TransactionOk(admin'[x], provider)
  BY <1>1 DEF ProvidersInv
<1>4. \A x, y \in AdminRequest : x # y => Apart(admin'[x], admin'[y])
  BY <1>1 DEF ProvidersInv
<1>5. ASSUME ~raced'
      PROVE  /\ OneRow(provider)
             /\ \A x \in AdminRequest : admin'[x].pc \in AtWork => LeavesOne(admin'[x], provider)
             /\ \A x, y \in AdminRequest :
                   x # y => ~RacesWith(admin'[x], admin'[y]) /\ OneClears(admin'[x], admin'[y])
  BY <1>1, <1>5 DEF ProvidersInv
<1> QED
  BY <1>2, <1>3, <1>4, <1>5 DEF ProvidersInv

BeginRow(op, p, new) == [pc |-> "loaded", op |-> op, target |-> p, row |-> new,
                         dirty |-> Changed(provider[p], new), written |-> [q \in {} |-> Gone]]

LEMMA ChangedFacts ==
    ASSUME NEW r \in ProviderRow, NEW new \in ProviderRow
    PROVE  /\ Changed(r, new) \subseteq {"exists", "enabled", "default"}
           /\ "exists" \in Changed(r, new) <=> r.exists # new.exists
           /\ "default" \in Changed(r, new) <=> r.default # new.default
  BY RowFacts DEF Changed

LEMMA BeginStep ==
    ASSUME ProvidersInv, NEW a \in AdminRequest, NEW p \in Provider, NEW new \in ProviderRow,
           NEW op \in {"create", "update", "toggle", "delete"},
           Begin(a, op, p, new), provider' = provider, raced' \in BOOLEAN, raced => raced',
           IF op = "create" THEN /\ ~provider[p].exists
                                 /\ \A b \in AdminRequest : admin[b].pc # "idle" => admin[b].target # p
           ELSE provider[p].exists,
           IF op = "delete" THEN new = Gone ELSE new.exists,
           op = "toggle" /\ new.default => provider[p].default,
           op \in {"create", "update"} => raced' = (raced \/ Races')
    PROVE  ProvidersInv'
<1> DEFINE t == BeginRow(op, p, new)
<1>1. provider[p] \in ProviderRow
  BY DEF ProvidersInv
<1>2. /\ t.pc = "loaded" /\ t.op = op /\ t.target = p /\ t.row = new
      /\ t.dirty = Changed(provider[p], new) /\ t.written = [q \in {} |-> Gone]
  BY DEF BeginRow
<1>3. t \in Transaction
  <2>1. [q \in {} |-> Gone] \in [{} -> ProviderRow]
    OBVIOUS
  <2>2. [q \in {} |-> Gone] \in UNION {[S -> ProviderRow] : S \in SUBSET Provider}
    BY <2>1
  <2> QED
    BY <1>1, <2>2, ChangedFacts DEF BeginRow, Transaction
<1>4. admin' = [admin EXCEPT ![a] = t]
  BY DEF Begin, BeginRow
<1> HIDE DEF t
<1>5. t.pc \in AtWork /\ LockedBy(t) = {} /\ DOMAIN t.written = {}
  BY <1>2 DEF AtWork, LockedBy
<1>6. TransactionOk(t, provider)
  BY <1>1, <1>2, <1>5, ChangedFacts, RowFacts DEF TransactionOk
<1>7. ASSUME NEW b \in AdminRequest \ {a}
      PROVE  Apart(t, admin[b]) /\ Apart(admin[b], t)
  <2>1. Apart(t, admin[b])
    BY <1>2, <1>5 DEF Apart
  <2>2. admin[b].pc \in AtWork /\ admin[b].op = "create" => ~provider[admin[b].target].exists
    BY Admins DEF TransactionOk
  <2>3. admin[b].pc \in AtWork => admin[b].pc # "idle"
    BY DEF AtWork
  <2>4. admin[b].pc \in AtWork /\ admin[b].op = "create" => p # admin[b].target
    BY <2>2, <2>3
  <2> QED
    BY <1>2, <1>5, <2>1, <2>4 DEF Apart
<1>8. LeavesOne(t, provider)
  BY <1>2 DEF LeavesOne
<1>9. ASSUME NEW b \in AdminRequest \ {a}, ~raced'
      PROVE  /\ ~RacesWith(t, admin[b]) /\ ~RacesWith(admin[b], t)
             /\ OneClears(t, admin[b]) /\ OneClears(admin[b], t)
  <2>1. OneClears(t, admin[b]) /\ OneClears(admin[b], t)
    BY <1>2 DEF OneClears
  <2>2. CASE MakesOne(t)
    <3>1. ~Races'
      BY <1>2, <1>9, <2>2 DEF MakesOne
    <3>2. admin'[a] = t /\ admin'[b] = admin[b]
      BY <1>4 DEF ProvidersInv
    <3>3. \A x, y \in AdminRequest :
             x # y /\ MakesDefault(x)' /\ MakesDefault(y)' => admin'[x].op # "create"
      BY <3>1 DEF Races
    <3>4. \A x \in AdminRequest :
             MakesDefault(x)' <=> admin'[x].pc \in AtWork /\ MakesOne(admin'[x])
      BY DEF MakesDefault, Active, AtWork, MakesOne
    <3>5. ~RacesWith(admin'[a], admin'[b]) /\ ~RacesWith(admin'[b], admin'[a])
      BY <3>3, <3>4 DEF RacesWith
    <3> QED
      BY <2>1, <3>2, <3>5
  <2>3. CASE ~MakesOne(t)
    BY <2>1, <2>3 DEF RacesWith
  <2> QED
    BY <2>2, <2>3
<1> QED
  BY <1>3, <1>4, <1>6, <1>7, <1>8, <1>9, AdminStep

LEMMA CreateStep ==
    ASSUME ProvidersInv, NEW a \in AdminRequest, NEW p \in Provider, NEW on \in BOOLEAN,
           NEW default \in BOOLEAN, Create(a, p, on, default)
    PROVE  ProvidersInv'
<1> DEFINE new == [exists |-> TRUE, enabled |-> on, default |-> default /\ on]
<1>1. new \in ProviderRow /\ new.exists
  BY RowFacts
<1>2. raced' \in BOOLEAN /\ raced' = (raced \/ Races') /\ provider' = provider
  BY DEF Create, ProvidersInv
<1>3. Begin(a, "create", p, new) /\ ~provider[p].exists
      /\ \A b \in AdminRequest : admin[b].pc # "idle" => admin[b].target # p
  BY DEF Create
<1> HIDE DEF new
<1> QED
  BY <1>1, <1>2, <1>3, BeginStep

LEMMA UpdateStep ==
    ASSUME ProvidersInv, NEW a \in AdminRequest, NEW p \in Provider, NEW enabled \in Field,
           NEW default \in Field, Update(a, p, enabled, default)
    PROVE  ProvidersInv'
<1> DEFINE on == Given(enabled, provider[p].enabled)
           new == [exists |-> TRUE, enabled |-> on,
                   default |-> IF default = {} THEN provider[p].default ELSE default = {TRUE} /\ on]
<1>1. new \in ProviderRow /\ new.exists
  <2>1. provider[p] \in ProviderRow
    BY DEF ProvidersInv
  <2>2. on \in BOOLEAN
    BY <2>1, RowFacts DEF Given
  <2> HIDE DEF on
  <2>3. (IF default = {} THEN provider[p].default ELSE default = {TRUE} /\ on) \in BOOLEAN
    BY <2>1, <2>2, RowFacts
  <2> QED
    BY <2>2, <2>3, RowFacts
<1>2. raced' \in BOOLEAN /\ raced' = (raced \/ Races') /\ provider' = provider
  BY DEF Update, ProvidersInv
<1>3. Begin(a, "update", p, new) /\ provider[p].exists
  BY DEF Update
<1> HIDE DEF new
<1> QED
  BY <1>1, <1>2, <1>3, BeginStep

LEMMA ToggleStep ==
    ASSUME ProvidersInv, NEW a \in AdminRequest, NEW p \in Provider, NEW on \in BOOLEAN,
           SetEnabled(a, p, on)
    PROVE  ProvidersInv'
<1> DEFINE new == [exists |-> TRUE, enabled |-> on, default |-> provider[p].default /\ on]
<1>1. new \in ProviderRow /\ new.exists /\ (new.default => provider[p].default)
  BY RowFacts DEF ProvidersInv
<1>2. raced' \in BOOLEAN /\ raced' = raced /\ provider' = provider
  BY DEF SetEnabled, ProvidersInv
<1>3. Begin(a, "toggle", p, new) /\ provider[p].exists
  BY DEF SetEnabled
<1> HIDE DEF new
<1> QED
  BY <1>1, <1>2, <1>3, BeginStep

LEMMA DeleteStep ==
    ASSUME ProvidersInv, NEW a \in AdminRequest, NEW p \in Provider, Delete(a, p)
    PROVE  ProvidersInv'
  BY BeginStep, RowFacts DEF Delete, ProvidersInv

LEMMA RewrittenRow ==
    ASSUME NEW r \in ProviderRow, NEW new \in ProviderRow, NEW columns, r.exists \/ "exists" \in columns,
           "exists" \in columns => new.exists
    PROVE  /\ Rewritten(r, new, columns) \in ProviderRow
           /\ Rewritten(r, new, columns).default
                 = IF "default" \in columns THEN new.default ELSE r.default
<1> DEFINE w == Rewritten(r, new, columns)
<1>1. DOMAIN r = {"exists", "enabled", "default"}
  BY RowFacts
<1>2. w = [k \in {"exists", "enabled", "default"} |-> IF k \in columns THEN new[k] ELSE r[k]]
  BY <1>1 DEF Rewritten
<1>3. w = [exists |-> IF "exists" \in columns THEN new.exists ELSE r.exists,
           enabled |-> IF "enabled" \in columns THEN new.enabled ELSE r.enabled,
           default |-> IF "default" \in columns THEN new.default ELSE r.default]
  BY <1>2
<1> HIDE DEF w
<1>4. w \in [exists : BOOLEAN, enabled : BOOLEAN, default : BOOLEAN] /\ w.exists
  BY <1>3, RowFacts
<1> QED
  BY <1>3, <1>4, RowFacts DEF w

LEMMA FlushStep ==
    ASSUME ProvidersInv, NEW a \in AdminRequest, Flush(a)
    PROVE  ProvidersInv'
<1> DEFINE t == admin[a]
           now == provider[t.target]
           w == IF t.op = "delete" THEN Gone ELSE Rewritten(now, t.row, t.dirty)
           quiet == t.dirty = {} \/ (t.op = "delete" /\ ~now.exists)
           failed == t.op # "create" /\ ~now.exists
           u == IF quiet THEN [t EXCEPT !.pc = "flushed"]
                ELSE IF failed THEN [t EXCEPT !.pc = "failed"]
                ELSE [t EXCEPT !.pc = "flushed", !.written = [q \in {t.target} |-> w]]
<1>1. /\ t.pc = "loaded" /\ t \in Transaction /\ TransactionOk(t, provider)
      /\ provider' = provider /\ raced' = raced /\ raced \in BOOLEAN
      /\ t.target \notin LockedFor(a)
  BY Admins DEF Flush, ProvidersInv, AtWork
<1>2. admin' = [admin EXCEPT ![a] = u]
  BY DEF Flush
<1>3. DOMAIN t.written = {} /\ t.target \in Provider /\ now \in ProviderRow /\ t.row \in ProviderRow
  BY <1>1, TransactionFacts DEF TransactionOk, ProvidersInv
<1>4. /\ u.pc = (IF ~quiet /\ failed THEN "failed" ELSE "flushed")
      /\ u.op = t.op /\ u.target = t.target /\ u.row = t.row /\ u.dirty = t.dirty
      /\ u.written = IF quiet \/ failed THEN t.written ELSE [q \in {t.target} |-> w]
  BY <1>1 DEF Transaction
<1>5. ~quiet /\ ~failed =>
         /\ w \in ProviderRow
         /\ ~MakesOne(t) => (w.default => now.default)
         /\ t.op # "create" => now.exists
  <2> HIDE DEF t, now, u
  <2>1. CASE t.op = "delete"
    BY <2>1, RowFacts DEF Gone
  <2>2. CASE t.op # "delete"
    <3>1. ~failed => now.exists \/ "exists" \in t.dirty
      BY <1>1, <2>2 DEF TransactionOk
    <3>2. t.row.exists
      BY <1>1, <2>2 DEF TransactionOk
    <3>3. ~failed => /\ w \in ProviderRow
                     /\ w.default = IF "default" \in t.dirty THEN t.row.default ELSE now.default
      BY SMTT(30), <1>3, <2>2, <3>1, <3>2, RewrittenRow
    <3>4. ~MakesOne(t) /\ "default" \in t.dirty => ~t.row.default
      BY <1>1, <2>2, TransactionFacts DEF TransactionOk, MakesOne
    <3> HIDE DEF w
    <3> QED
      BY <3>3, <3>4
  <2> QED
    BY <2>1, <2>2
<1> HIDE DEF t, now, w, quiet, failed, u
<1>6. u \in Transaction
  <2>1. ~quiet /\ ~failed => [q \in {t.target} |-> w] \in UNION {[S -> ProviderRow] : S \in SUBSET Provider}
    <3>1. ~quiet /\ ~failed => [q \in {t.target} |-> w] \in [{t.target} -> ProviderRow]
      BY <1>5
    <3>2. {t.target} \in SUBSET Provider
      BY <1>3
    <3> QED
      BY <3>1, <3>2
  <2> QED
    BY <1>1, <2>1 DEF u, Transaction
<1>7. DOMAIN u.written \subseteq {t.target} /\ \A q \in DOMAIN u.written : u.written[q] = w /\ ~quiet /\ ~failed
  BY <1>3, <1>4
<1>8. u.pc \in AtWork => TransactionOk(u, provider)
  <2>1. u.pc # "loaded" /\ u.pc # "cleared"
    BY <1>4
  <2>2. ASSUME NEW q \in DOMAIN u.written
        PROVE  /\ u.op # "create" \/ q # u.target => provider[q].exists
               /\ q # u.target => ~u.written[q].default
               /\ ~MakesOne(u) => (u.written[q].default => provider[q].default)
    BY <1>4, <1>5, <1>7 DEF now, MakesOne
  <2> QED
    BY <1>1, <1>4, <1>7, <2>1, <2>2 DEF TransactionOk
<1>9. ASSUME NEW b \in AdminRequest \ {a}
      PROVE  Apart(u, admin[b]) /\ Apart(admin[b], u)
  <2>1. t.target \notin LockedBy(admin[b])
    BY <1>1, Admins DEF LockedFor
  <2>2. Apart(t, admin[b]) /\ Apart(admin[b], t)
    BY DEF ProvidersInv, t
  <2>3. LockedBy(u) \subseteq {t.target}
    BY <1>7 DEF LockedBy
  <2>4. t.pc \in AtWork /\ t.pc # "idle"
    BY <1>1 DEF AtWork
  <2> QED
    BY <1>4, <2>1, <2>2, <2>3, <2>4 DEF Apart
<1>10. ASSUME NEW b \in AdminRequest \ {a}, ~raced
       PROVE  /\ ~RacesWith(u, admin[b]) /\ ~RacesWith(admin[b], u)
              /\ OneClears(u, admin[b]) /\ OneClears(admin[b], u)
  <2>1. ~RacesWith(t, admin[b]) /\ ~RacesWith(admin[b], t) /\ t.pc \in AtWork
    BY <1>1, <1>10 DEF ProvidersInv, t, AtWork
  <2>2. ~RacesWith(u, admin[b]) /\ ~RacesWith(admin[b], u)
    BY <1>4, <2>1 DEF RacesWith, MakesOne
  <2> QED
    BY <1>4, <2>2 DEF OneClears
<1>11. LeavesOne(u, provider)
  BY <1>4 DEF LeavesOne
<1> QED
  BY <1>1, <1>2, <1>6, <1>8, <1>9, <1>10, <1>11, AdminStep

LEMMA ClearDefaultStep ==
    ASSUME ProvidersInv, NEW a \in AdminRequest, ClearDefault(a)
    PROVE  ProvidersInv'
<1> DEFINE t == admin[a]
           else == {q \in Provider : provider[q].exists} \ {t.target}
           w == [q \in else \cup DOMAIN t.written |->
                    IF q \in else THEN [provider[q] EXCEPT !.default = FALSE] ELSE t.written[q]]
           u == [t EXCEPT !.pc = "cleared", !.written = w]
<1>1. /\ t.pc = "flushed" /\ t \in Transaction /\ TransactionOk(t, provider)
      /\ provider' = provider /\ raced' = raced /\ raced \in BOOLEAN
      /\ else \cap LockedFor(a) = {} /\ MakesOne(t)
  BY Admins DEF ClearDefault, ProvidersInv, AtWork, MakesDefault, MakesOne
<1>2. admin' = [admin EXCEPT ![a] = u]
  BY DEF ClearDefault
<1>3. /\ u.pc = "cleared" /\ u.op = t.op /\ u.target = t.target /\ u.row = t.row
      /\ u.dirty = t.dirty /\ u.written = w
  BY <1>1 DEF Transaction
<1>4. /\ DOMAIN w = else \cup DOMAIN t.written
      /\ \A q \in DOMAIN w : w[q] = IF q \in else THEN [provider[q] EXCEPT !.default = FALSE]
                                    ELSE t.written[q]
  OBVIOUS
<1>5. DOMAIN t.written \subseteq {t.target} /\ t.target \in Provider /\ else \subseteq Provider \ {t.target}
  BY <1>1, TransactionFacts DEF TransactionOk
<1>6. \A q \in else : /\ [provider[q] EXCEPT !.default = FALSE] \in ProviderRow
                      /\ ~[provider[q] EXCEPT !.default = FALSE].default /\ provider[q].exists
  <2>1. \A q \in else : provider[q] \in ProviderRow /\ provider[q].exists
    BY DEF ProvidersInv
  <2> HIDE DEF else
  <2> QED
    BY <2>1, RowFacts
<1>7. \A q \in Provider \ {t.target} : provider[q].exists => q \in else
  OBVIOUS
<1> HIDE DEF t, else, w
<1>8. u \in Transaction
  <2>1. w \in [else \cup DOMAIN t.written -> ProviderRow]
    BY <1>1, <1>4, <1>6, TransactionFacts DEF w
  <2>2. w \in UNION {[S -> ProviderRow] : S \in SUBSET Provider}
    BY <1>5, <2>1
  <2> QED
    BY <1>1, <2>2 DEF Transaction
<1> HIDE DEF u
<1>9. TransactionOk(u, provider)
  <2>1. ASSUME NEW q \in DOMAIN w
        PROVE  /\ t.op # "create" \/ q # t.target => provider[q].exists
               /\ q # t.target => ~w[q].default
    <3>1. CASE q \in else
      BY <1>4, <1>6, <3>1
    <3>2. CASE q \notin else
      BY <1>1, <1>4, <1>5, <3>2 DEF TransactionOk
    <3> QED
      BY <3>1, <3>2
  <2>2. MakesOne(u)
    BY <1>1, <1>3 DEF MakesOne
  <2> QED
    BY <1>1, <1>3, <2>1, <2>2 DEF TransactionOk
<1>10. LockedBy(u) = else \cup DOMAIN t.written /\ LockedBy(t) = DOMAIN t.written
  BY <1>1, <1>3, <1>4 DEF LockedBy, AtWork
<1>11. ASSUME NEW b \in AdminRequest \ {a}
       PROVE  Apart(u, admin[b]) /\ Apart(admin[b], u)
  <2>1. else \cap LockedBy(admin[b]) = {}
    BY <1>1, Admins DEF LockedFor
  <2>2. Apart(t, admin[b]) /\ Apart(admin[b], t)
    BY DEF ProvidersInv, t
  <2>3. {t.pc, u.pc} \subseteq AtWork /\ t.pc # "idle"
    BY <1>1, <1>3 DEF AtWork
  <2> QED
    BY <1>3, <1>10, <2>1, <2>2, <2>3 DEF Apart
<1>12. ASSUME NEW b \in AdminRequest \ {a}, ~raced
       PROVE  /\ ~RacesWith(u, admin[b]) /\ ~RacesWith(admin[b], u)
              /\ OneClears(u, admin[b]) /\ OneClears(admin[b], u)
  <2>1. ~RacesWith(t, admin[b]) /\ ~RacesWith(admin[b], t) /\ t.pc \in AtWork
    BY <1>1, <1>12 DEF ProvidersInv, t, AtWork
  <2>2. ~RacesWith(u, admin[b]) /\ ~RacesWith(admin[b], u)
    BY <1>3, <2>1 DEF RacesWith, MakesOne
  <2>3. ASSUME admin[b].pc = "cleared", u.target \in LockedBy(u),
               admin[b].target \in LockedBy(admin[b])
        PROVE  FALSE
    <3>1. admin[b] \in Transaction /\ TransactionOk(admin[b], provider) /\ MakesOne(admin[b])
      BY <2>3, Admins DEF AtWork, TransactionOk
    <3>2. admin[b].op # "create"
      BY <1>1, <2>1, <2>3, <3>1 DEF RacesWith, AtWork
    <3>3. admin[b].target \in DOMAIN admin[b].written /\ admin[b].target \in Provider
      BY <2>3, <3>1, TransactionFacts DEF LockedBy
    <3>4. provider[admin[b].target].exists
      BY <3>1, <3>2, <3>3 DEF TransactionOk
    <3>5. admin[b].target # t.target
      <4>1. t.target \in LockedBy(t)
        BY <1>3, <1>5, <1>10, <2>3
      <4>2. LockedBy(t) \cap LockedBy(admin[b]) = {}
        BY DEF ProvidersInv, Apart, t
      <4> QED
        BY <2>3, <4>1, <4>2
    <3>6. admin[b].target \in else
      BY <1>7, <3>3, <3>4, <3>5
    <3>7. else \cap LockedBy(admin[b]) = {}
      BY <1>1, Admins DEF LockedFor
    <3> QED
      BY <2>3, <3>6, <3>7
  <2> QED
    BY <2>2, <2>3 DEF OneClears
<1>13. LeavesOne(u, provider)
  <2>1. \A q \in Provider : provider[q].default => provider[q].exists
    BY RowFacts DEF ProvidersInv
  <2> QED
    BY <1>3, <1>4, <1>7, <2>1 DEF LeavesOne
<1> QED
  BY <1>1, <1>2, <1>8, <1>9, <1>11, <1>12, <1>13, AdminStep

LEMMA DeadlockedStep ==
    ASSUME ProvidersInv, NEW a \in AdminRequest, Deadlocked(a)
    PROVE  ProvidersInv'
<1> DEFINE t == admin[a]
           u == [t EXCEPT !.pc = "failed"]
<1>1. t.pc \in AtWork
  BY Admins DEF Deadlocked, WaitsFor, Locked
<1>2. t \in Transaction /\ u \in Transaction /\ u.pc = "failed" /\ u.op = t.op /\ u.target = t.target
  BY <1>1, Admins DEF Transaction
<1>3. u.pc \notin AtWork /\ LockedBy(u) = {}
  BY <1>2 DEF AtWork, LockedBy
<1>4. /\ admin' = [admin EXCEPT ![a] = u] /\ provider' = provider /\ raced' = raced
      /\ raced \in BOOLEAN
  BY DEF Deadlocked, ProvidersInv
<1>5. ASSUME NEW b \in AdminRequest \ {a}
      PROVE  Apart(u, admin[b]) /\ Apart(admin[b], u)
  <2>1. Apart(admin[b], t) /\ t.pc # "idle"
    BY <1>1 DEF ProvidersInv, AtWork
  <2> HIDE DEF t, u
  <2> QED
    BY <1>2, <1>3, <2>1 DEF Apart
<1> HIDE DEF t, u
<1> QED
  BY <1>2, <1>3, <1>4, <1>5, AdminStep DEF RacesWith, OneClears

\* A commit leaves one default at most, and no other transaction with a second one.
LEMMA CommitAdminStep ==
    ASSUME ProvidersInv, NEW a \in AdminRequest, CommitAdmin(a)
    PROVE  ProvidersInv'
<1> DEFINE t == admin[a]
           u == [t EXCEPT !.pc = "done"]
<1>1. t.pc \in {"flushed", "cleared"} /\ (t.pc = "flushed" => ~MakesOne(t)) /\ t.pc \in AtWork
  BY DEF CommitAdmin, MakesDefault, Active, MakesOne, AtWork
<1>2. /\ t \in Transaction /\ TransactionOk(t, provider) /\ LockedBy(t) = DOMAIN t.written
      /\ u \in Transaction /\ u.pc = "done" /\ u.op = t.op /\ u.target = t.target
  BY <1>1, Admins DEF Transaction, LockedBy
<1>3. /\ admin' = [admin EXCEPT ![a] = u] /\ raced' = raced /\ raced \in BOOLEAN
      /\ provider' = [q \in Provider |-> IF q \in DOMAIN t.written THEN t.written[q] ELSE provider[q]]
  BY <1>2, Admins DEF CommitAdmin, ProvidersInv
<1>4. \A x \in AdminRequest : admin'[x] = IF x = a THEN u ELSE admin[x]
  BY <1>3 DEF ProvidersInv
<1> HIDE DEF t, u
<1>5. DOMAIN t.written \subseteq Provider /\ t.target \in Provider
      /\ \A q \in DOMAIN t.written : t.written[q] \in ProviderRow
  BY <1>2, TransactionFacts
<1>6. provider' \in [Provider -> ProviderRow] /\ provider \in [Provider -> ProviderRow]
  BY <1>3, <1>5 DEF ProvidersInv
<1>7. admin' \in [AdminRequest -> AdminRows]
  BY <1>2, <1>3 DEF ProvidersInv, AdminRows
<1>8. u.pc \notin AtWork /\ u.pc # "cleared" /\ LockedBy(u) = {} /\ t.pc # "idle"
  BY <1>1, <1>2 DEF AtWork, LockedBy
<1>9. ASSUME NEW b \in AdminRequest \ {a}
      PROVE  /\ Apart(t, admin[b]) /\ Apart(admin[b], t)
             /\ Apart(u, admin[b]) /\ Apart(admin[b], u)
  <2>1. Apart(t, admin[b]) /\ Apart(admin[b], t)
    BY DEF ProvidersInv, t
  <2> QED
    BY <1>2, <1>8, <2>1 DEF Apart
<1>10. \A x, y \in AdminRequest : x # y => Apart(admin'[x], admin'[y])
  BY <1>4, <1>9 DEF ProvidersInv
<1>11. ASSUME NEW b \in AdminRequest \ {a}, admin[b].pc \in AtWork
       PROVE  TransactionOk(admin[b], provider')
  <2>1. TransactionOk(admin[b], provider) /\ admin[b] \in Transaction
        /\ LockedBy(admin[b]) = DOMAIN admin[b].written
    BY <1>11, Admins DEF LockedBy
  <2>2. ASSUME NEW q \in DOMAIN admin[b].written PROVE provider'[q] = provider[q]
    <3>1. q \notin DOMAIN t.written /\ q \in Provider
      BY <1>2, <1>9, <2>1, TransactionFacts DEF Apart
    <3> QED
      BY <1>3, <3>1
  <2>3. admin[b].op = "create" => ~provider'[admin[b].target].exists
    <3>1. SUFFICES ASSUME admin[b].op = "create", admin[b].target \in DOMAIN t.written
                   PROVE  FALSE
      BY <1>3, <2>1, TransactionFacts DEF TransactionOk
    <3>2. ~provider[admin[b].target].exists
      BY <2>1, <3>1 DEF TransactionOk
    <3>3. t.op = "create" /\ t.target = admin[b].target
      BY <1>2, <3>1, <3>2 DEF TransactionOk
    <3>4. t.target # admin[b].target
      BY <1>8, <1>9, <1>11, <3>1 DEF Apart
    <3> QED
      BY <3>3, <3>4
  <2> QED
    BY <2>1, <2>2, <2>3 DEF TransactionOk
<1>12. \A q \in DOMAIN t.written : t.written[q].default => q = t.target \/ provider[q].default
  BY <1>2 DEF TransactionOk
<1>13. ASSUME ~raced PROVE OneRow(provider')
  <2>1. OneRow(provider) /\ LeavesOne(t, provider)
    BY <1>1, <1>13 DEF ProvidersInv, t
  <2>2. CASE t.target \in DOMAIN t.written /\ t.written[t.target].default /\ MakesOne(t)
    <3>1. t.pc = "cleared"
      BY <1>1, <2>2
    <3>2. ASSUME NEW q \in Provider \ {t.target} PROVE ~provider'[q].default
      <4>1. CASE q \in DOMAIN t.written
        BY <1>2, <1>3, <4>1 DEF TransactionOk
      <4>2. CASE q \notin DOMAIN t.written
        BY <1>3, <2>1, <2>2, <3>1, <4>2 DEF LeavesOne
      <4> QED
        BY <4>1, <4>2
    <3> QED
      BY <3>2 DEF OneRow
  <2>3. CASE ~(t.target \in DOMAIN t.written /\ t.written[t.target].default /\ MakesOne(t))
    <3>1. ASSUME NEW q \in Provider, provider'[q].default PROVE provider[q].default
      <4>1. CASE q \in DOMAIN t.written
        <5>1. t.written[q].default
          BY <1>3, <3>1, <4>1
        <5>2. CASE MakesOne(t)
          BY <1>12, <2>3, <4>1, <5>1, <5>2
        <5>3. CASE ~MakesOne(t)
          BY <1>2, <4>1, <5>1, <5>3 DEF TransactionOk
        <5> QED
          BY <5>2, <5>3
      <4>2. CASE q \notin DOMAIN t.written
        BY <1>3, <3>1, <4>2
      <4> QED
        BY <4>1, <4>2
    <3> QED
      BY <2>1, <3>1 DEF OneRow
  <2> QED
    BY <2>2, <2>3
<1>14. ASSUME ~raced, NEW b \in AdminRequest \ {a}, admin[b].pc \in AtWork
       PROVE  LeavesOne(admin[b], provider')
  <2>1. LeavesOne(admin[b], provider) /\ OneClears(t, admin[b])
    BY <1>14 DEF ProvidersInv, t
  <2>2. SUFFICES ASSUME admin[b].pc = "cleared", admin[b].target \in DOMAIN admin[b].written,
                        admin[b].written[admin[b].target].default,
                        NEW q \in Provider \ {admin[b].target}, provider'[q].default,
                        q \notin DOMAIN admin[b].written
                 PROVE  FALSE
    BY DEF LeavesOne
  <2>3. ~provider[q].default
    BY <2>1, <2>2 DEF LeavesOne
  <2>4. q \in DOMAIN t.written /\ t.written[q].default
    BY <1>3, <2>2, <2>3
  <2>5. MakesOne(t) /\ q = t.target /\ t.pc = "cleared"
    BY <1>1, <1>2, <1>12, <2>3, <2>4 DEF TransactionOk
  <2>6. t.target \in LockedBy(t) /\ admin[b].target \in LockedBy(admin[b])
    BY <1>2, <1>14, <2>2, <2>4, <2>5 DEF LockedBy
  <2> QED
    BY <2>1, <2>2, <2>5, <2>6 DEF OneClears
<1>15. ASSUME ~raced, NEW x \in AdminRequest, NEW y \in AdminRequest, x # y
       PROVE  ~RacesWith(admin'[x], admin'[y]) /\ OneClears(admin'[x], admin'[y])
  <2>1. ~RacesWith(admin[x], admin[y]) /\ OneClears(admin[x], admin[y])
    BY <1>15 DEF ProvidersInv
  <2> QED
    BY <1>4, <1>8, <2>1 DEF RacesWith, OneClears
<1>16. \A x \in AdminRequest : admin'[x].pc \in AtWork => TransactionOk(admin'[x], provider')
  BY <1>4, <1>8, <1>11
<1>17. ~raced => \A x \in AdminRequest : admin'[x].pc \in AtWork => LeavesOne(admin'[x], provider')
  BY <1>4, <1>8, <1>14
<1> QED
  BY <1>3, <1>6, <1>7, <1>10, <1>13, <1>15, <1>16, <1>17 DEF ProvidersInv

LEMMA ProvidersNext ==
    ASSUME ProvidersInv, [AssistantNext]_assistantVars
    PROVE  ProvidersInv'
<1>1. ASSUME NEW a \in AdminRequest, NEW p \in Provider,
             \/ \E on, default \in BOOLEAN : Create(a, p, on, default)
             \/ \E on, default \in Field : Update(a, p, on, default)
             \/ \E on \in BOOLEAN : SetEnabled(a, p, on)
             \/ Delete(a, p)
      PROVE  ProvidersInv'
  BY <1>1, CreateStep, UpdateStep, ToggleStep, DeleteStep
<1>2. ASSUME NEW a \in AdminRequest,
             Flush(a) \/ ClearDefault(a) \/ CommitAdmin(a) \/ Deadlocked(a)
      PROVE  ProvidersInv'
  BY <1>2, FlushStep, ClearDefaultStep, CommitAdminStep, DeadlockedStep
<1>3. ASSUME UNCHANGED <<provider, admin, raced>> PROVE ProvidersInv'
  BY <1>3 DEF ProvidersInv
<1>4. ASSUME NEW c \in Call,
             \/ \E kind \in {"run", "stream"} : Ask(c, kind)
             \/ RateLimited(c) \/ InlineComplete(c) \/ Run(c) \/ Stream(c) \/ StreamBroken(c)
      PROVE  ProvidersInv'
  BY <1>3, <1>4 DEF Ask, RateLimited, InlineComplete, Run, Stream, StreamBroken, Record
<1> QED
  BY <1>1, <1>2, <1>3, <1>4 DEF AssistantNext, assistantVars

LEMMA CallsNext ==
    ASSUME ProvidersInv, CallsOk, [AssistantNext]_assistantVars
    PROVE  CallsOk'
<1>1. ASSUME UNCHANGED <<provider, call, history>> PROVE CallsOk'
  BY <1>1 DEF CallsOk, HistoryLinked
<1>2. ASSUME NEW c \in Call, NEW row \in CallRows, row.pc \in {"run", "stream"} => row.on \in Provider,
             call' = [call EXCEPT ![c] = row], UNCHANGED <<provider, history>>
      PROVE  CallsOk'
  BY <1>2 DEF CallsOk, HistoryLinked
<1>3. Ended \in CallRows /\ Ended.pc = "done"
  BY DEF Ended, CallRows
<1>4. ASSUME NEW c \in Call, NEW kind \in {"run", "stream"}, Ask(c, kind)
      PROVE  CallsOk'
  <2>1. CASE Usable = {} /\ call' = [call EXCEPT ![c] = Ended]
    BY <1>2, <1>3, <1>4, <2>1 DEF Ask
  <2>2. CASE \E p \in Resolvable : call' = [call EXCEPT ![c] = [pc |-> kind, on |-> p]]
    <3>1. PICK p \in Resolvable : call' = [call EXCEPT ![c] = [pc |-> kind, on |-> p]]
      BY <2>2
    <3>2. p \in Provider
      BY DEF Resolvable, Defaults, Usable
    <3> DEFINE row == [pc |-> kind, on |-> p]
    <3>3. row \in CallRows /\ row.on \in Provider
      BY <3>2 DEF CallRows
    <3>4. call' = [call EXCEPT ![c] = row] /\ UNCHANGED <<provider, history>>
      BY <1>4, <3>1 DEF Ask
    <3> HIDE DEF row
    <3> QED
      BY <1>2, <3>3, <3>4
  <2> QED
    BY <1>4, <2>1, <2>2 DEF Ask
<1>5. ASSUME NEW c \in Call, RateLimited(c) \/ InlineComplete(c) \/ StreamBroken(c)
      PROVE  CallsOk'
  BY <1>2, <1>3, <1>5 DEF RateLimited, InlineComplete, StreamBroken
<1>6. ASSUME NEW c \in Call, Run(c) \/ Stream(c)
      PROVE  CallsOk'
  <2>1. call[c].on \in Provider /\ Record(c)
    BY <1>6 DEF Run, Stream, CallsOk
  <2>2. call' \in [Call -> CallRows] /\ \A d \in Call : call'[d] = IF d = c THEN Ended ELSE call[d]
    BY <1>3, <2>1 DEF Record, CallsOk
  <2>3. /\ provider' = provider
        /\ history' = [history EXCEPT ![c] = IF provider[call[c].on].exists THEN call[c].on ELSE @]
    BY <2>1 DEF Record
  <2>4. history' \in [Call -> Provider \cup {NoProvider, Unrecorded}]
    BY <2>1, <2>3 DEF CallsOk
  <2>5. HistoryLinked'
    BY <2>1, <2>3 DEF CallsOk, HistoryLinked
  <2> QED
    BY <1>3, <2>2, <2>3, <2>4, <2>5 DEF CallsOk
<1>7. ASSUME NEW a \in AdminRequest, CommitAdmin(a)
      PROVE  CallsOk'
  <2>1. /\ call' = call
        /\ history' = [c \in Call |-> IF history[c] \in Provider /\ ~provider'[history[c]].exists
                                      THEN NoProvider ELSE history[c]]
    BY <1>7 DEF CommitAdmin
  <2>2. history' \in [Call -> Provider \cup {NoProvider, Unrecorded}]
    BY <2>1 DEF CallsOk
  <2>3. HistoryLinked'
    BY <2>1, AssistantAssumption DEF HistoryLinked
  <2> QED
    BY <2>1, <2>2, <2>3 DEF CallsOk
<1>8. ASSUME NEW a \in AdminRequest, NEW p \in Provider,
             \/ \E on, default \in BOOLEAN : Create(a, p, on, default)
             \/ \E on, default \in Field : Update(a, p, on, default)
             \/ \E on \in BOOLEAN : SetEnabled(a, p, on)
             \/ Delete(a, p)
      PROVE  CallsOk'
  BY <1>1, <1>8 DEF Create, Update, SetEnabled, Delete
<1>9. ASSUME NEW a \in AdminRequest, Flush(a) \/ ClearDefault(a) \/ Deadlocked(a)
      PROVE  CallsOk'
  BY <1>1, <1>9 DEF Flush, ClearDefault, Deadlocked
<1> QED
  BY <1>1, <1>4, <1>5, <1>6, <1>7, <1>8, <1>9 DEF AssistantNext, assistantVars

LEMMA ProvidersAlways == AssistantSpec => [](ProvidersInv /\ CallsOk)
<1>1. ProvidersInv /\ CallsOk /\ [AssistantNext]_assistantVars => (ProvidersInv /\ CallsOk)'
  BY ProvidersNext, CallsNext
<1> QED
  BY <1>1, ProvidersStart, PTL DEF AssistantSpec

\* The providers, the transactions on them, the calls and the interactions keep their types.
THEOREM AssistantTypes == AssistantSpec => []AssistantTypeOK
<1>1. ProvidersInv /\ CallsOk => AssistantTypeOK
  <2>1. ProvidersInv => \A a \in AdminRequest : admin[a].pc = "idle" \/ admin[a] \in Transaction
    BY DEF ProvidersInv, AdminRows
  <2> QED
    BY <2>1 DEF ProvidersInv, CallsOk, CallRows, AssistantTypeOK
<1> QED
  BY <1>1, ProvidersAlways, PTL

\* However many requests of admins overlap, on however many providers: one default at most,
\* but for the race that is left out, and no interaction of a provider that is gone.
THEOREM ProvidersStayAgreed == AssistantSpec => []ProvidersAgree
<1>1. ProvidersInv /\ CallsOk => ProvidersAgree
  <2>1. SUFFICES ASSUME ProvidersInv, CallsOk PROVE ProvidersAgree
    OBVIOUS
  <2>2. ASSUME ~raced PROVE Cardinality(Defaults) <= 1
    <3>1. \A p, q \in Defaults : p = q
      BY <2>1, <2>2 DEF ProvidersInv, OneRow, Defaults, Usable
    <3>2. CASE Defaults = {}
      BY <3>2, FS_EmptySet
    <3>3. CASE Defaults # {}
      <4>1. PICK p \in Defaults : TRUE
        BY <3>3
      <4>2. Defaults = {p}
        BY <3>1, <4>1
      <4> QED
        BY <4>2, FS_Singleton
    <3> QED
      BY <3>2, <3>3
  <2> QED
    BY <2>1, <2>2 DEF CallsOk, ProvidersAgree, OneDefault
<1> QED
  BY <1>1, ProvidersAlways, PTL

-----------------------------------------------------------------------------
(* The scheduler. *)

LEMMA NextFireIsLater ==
    ASSUME NEW c \in Cron, NEW t \in Nat
    PROVE  /\ NextFire(c, t) \in Nat
           /\ NextFire(c, t) >= t \/ NextFire(c, t) = Never
<1> DEFINE later == {f \in FireTimes[c] : f >= t}
<1>1. later \in SUBSET Nat /\ Never \in Nat
  BY SchedulerAssumption DEF SchedulerAssumption, Never
<1>2. CASE later = {}
  BY <1>1, <1>2 DEF NextFire
<1>3. CASE later # {}
  <2>1. \E f \in later : \A g \in later : f <= g
    BY <1>1, <1>3, MinExists
  <2>2. NextFire(c, t) = CHOOSE f \in later : \A g \in later : f <= g
    BY <1>3 DEF NextFire
  <2>3. NextFire(c, t) \in later
    BY <2>1, <2>2
  <2> QED
    BY <1>1, <2>3
<1> QED
  BY <1>2, <1>3

Starting(p) == process[p].job # Never

\* The clock never passes a fire; the job of a fire is started at the tick of the fire, by
\* one process, under a row that says when; and what has started is of this tick or past.
FiresOnce ==
    /\ \A p \in Process : process[p].due >= time
    /\ \A p \in Process : process[p].up \/ process[p] = Down
    /\ \A p \in Process : Starting(p) => process[p].job = time /\ schedule.last = time
    /\ \A p, q \in Process : Starting(p) /\ Starting(q) => p = q
    /\ \A a \in started : a[1] = a[2] /\ a[2] <= time
    /\ \A a \in started : a[2] = time => schedule.last = time /\ \A p \in Process : ~Starting(p)
    /\ OneJobPerFire

\* A process that knows no cron has nothing due.
KnowsItsCron ==
    \A p \in Process : process[p].known \in Cron \/ process[p].due = Never

LEMMA SchedulerNumbers ==
    /\ Never \in Nat /\ MaxTime \in Nat /\ Never > MaxTime
    /\ MaxUpdates \in Nat /\ MaxCrashes \in Nat /\ Lag \in Nat
    /\ \A t \in Time : t \in Nat /\ t + 1 \in Nat /\ t # Never /\ t < Never
  BY SchedulerAssumption DEF SchedulerAssumption, Never, Time

LEMMA DownIsTyped == Down \in ProcessState
  BY SchedulerNumbers, SchedulerAssumption DEF Down, ProcessState, Time, SchedulerAssumption

LEMMA SyncedIsTyped ==
    ASSUME SchedulerTypeOK, NEW row \in ProcessState
    PROVE  /\ Synced(row) \in ProcessState
           /\ Synced(row).up = row.up /\ Synced(row).job = row.job
           /\ Synced(row).due = row.due \/ Synced(row).due >= time
           /\ row.known \in Cron \/ row.due = Never =>
                 Synced(row).known \in Cron \/ Synced(row).due = Never
<1>1. time \in Time /\ time \in Nat /\ time + 1 \in Nat /\ time < Never /\ Never \in Nat
  BY SchedulerNumbers DEF SchedulerTypeOK
<1>2. Desired \in Cron \cup {NoCron}
  BY DEF Desired, SchedulerTypeOK, Row
<1>3. row.due \in Nat /\ row.known \in Cron \cup {NoCron} /\ row.job \in Nat
  BY DEF ProcessState
<1> DEFINE due == IF Desired = row.known THEN row.due
                  ELSE IF Desired = NoCron THEN Never ELSE NextFire(Desired, time + 1)
<1>4. due \in Nat /\ (due = row.due \/ due >= time)
  <2>1. CASE Desired = row.known \/ Desired = NoCron
    BY <1>1, <1>3, <2>1
  <2>2. CASE Desired # row.known /\ Desired # NoCron
    <3>1. Desired \in Cron
      BY <1>2, <2>2
    <3>2. NextFire(Desired, time + 1) \in Nat
          /\ (NextFire(Desired, time + 1) >= time + 1 \/ NextFire(Desired, time + 1) = Never)
      BY <1>1, <3>1, NextFireIsLater
    <3>3. due = NextFire(Desired, time + 1)
      BY <2>2
    <3> HIDE DEF due
    <3> QED
      BY <1>1, <3>2, <3>3
  <2> QED
    BY <2>1, <2>2
<1>5. row.known \in Cron \/ row.due = Never => Desired \in Cron \/ due = Never
  BY <1>2
<1>6. Synced(row) = [row EXCEPT !.synced = time, !.known = Desired, !.due = due]
  BY DEF Synced
<1> HIDE DEF due
<1>7. /\ Synced(row) \in ProcessState
      /\ Synced(row).up = row.up /\ Synced(row).job = row.job
      /\ Synced(row).due = due /\ Synced(row).known = Desired
  BY <1>1, <1>2, <1>4, <1>6 DEF ProcessState
<1> QED
  BY <1>4, <1>5, <1>7

SchedulerInv == SchedulerTypeOK /\ KnowsItsCron

LEMMA SchedulerStarts == SchedulerInit => SchedulerInv
<1> SUFFICES ASSUME SchedulerInit PROVE SchedulerInv
  OBVIOUS
<1>1. process \in [Process -> ProcessState] /\ KnowsItsCron
  BY DownIsTyped DEF SchedulerInit, KnowsItsCron, Down
<1>2. schedule \in Row
  <2>1. PICK c \in Cron, on \in BOOLEAN :
          schedule = [exists |-> TRUE, enabled |-> on, cron |-> c, last |-> Never,
                      next |-> IF on THEN NextFire(c, 1) ELSE Never]
    BY DEF SchedulerInit
  <2>2. NextFire(c, 1) \in Nat /\ Never \in Nat
    BY NextFireIsLater, SchedulerNumbers
  <2> QED
    BY <2>1, <2>2 DEF Row
<1>3. /\ time \in Time /\ changed \in Time /\ started = {}
      /\ updates \in 0..MaxUpdates /\ crashes \in 0..MaxCrashes
  BY SchedulerNumbers DEF SchedulerInit, Time
<1> QED
  BY <1>1, <1>2, <1>3 DEF SchedulerInv, SchedulerTypeOK

\* Only the rows, the jobs and the counters that an action touches
LEMMA SchedulerStep ==
    ASSUME SchedulerInv, [SchedulerNext]_schedulerVars
    PROVE  SchedulerInv'
<1>0. /\ SchedulerTypeOK /\ KnowsItsCron
      /\ time \in Time /\ time \in Nat /\ time + 1 \in Nat /\ Never \in Nat
  BY SchedulerNumbers DEF SchedulerInv, SchedulerTypeOK
<1>1. ASSUME NEW c \in Cron, NEW on \in BOOLEAN, SaveSchedule(c, on) PROVE SchedulerInv'
  <2>1. NextFire(c, time + 1) \in Nat
    BY <1>0, NextFireIsLater
  <2>2. schedule' \in Row
    BY <1>0, <1>1, <2>1 DEF SaveSchedule, SchedulerTypeOK, Row
  <2>3. changed' \in Time /\ updates' \in 0..MaxUpdates
    BY <1>0, <1>1, SchedulerNumbers DEF SaveSchedule, Written, SchedulerTypeOK
  <2> QED
    BY <1>0, <1>1, <2>2, <2>3 DEF SchedulerInv, SchedulerTypeOK, KnowsItsCron, SaveSchedule
<1>2. ASSUME DeleteSchedule PROVE SchedulerInv'
  <2>1. schedule' \in Row
    BY <1>0, <1>2 DEF DeleteSchedule, SchedulerTypeOK, Row
  <2>2. changed' \in Time /\ updates' \in 0..MaxUpdates
    BY <1>0, <1>2, SchedulerNumbers DEF DeleteSchedule, Written, SchedulerTypeOK
  <2> QED
    BY <1>0, <1>2, <2>1, <2>2 DEF SchedulerInv, SchedulerTypeOK, KnowsItsCron, DeleteSchedule
<1>3. ASSUME NEW p \in Process, NEW row \in ProcessState, process' = [process EXCEPT ![p] = row],
             row.known \in Cron \/ row.due = Never
      PROVE  process' \in [Process -> ProcessState] /\ KnowsItsCron'
  BY <1>0, <1>3 DEF SchedulerTypeOK, KnowsItsCron
<1>4. \A p \in Process : process[p] \in ProcessState
                          /\ (process[p].known \in Cron \/ process[p].due = Never)
  BY <1>0 DEF SchedulerTypeOK, KnowsItsCron
<1>5. ASSUME crashes' = crashes \/ Crashed PROVE crashes' \in 0..MaxCrashes
  BY <1>0, <1>5, SchedulerNumbers DEF SchedulerTypeOK, Crashed
<1>6. ASSUME NEW p \in Process, Start(p) PROVE SchedulerInv'
  <2> DEFINE row == [process[p] EXCEPT !.up = TRUE, !.since = time]
  <2>1. row \in ProcessState /\ (row.known \in Cron \/ row.due = Never)
    BY <1>0, <1>4 DEF ProcessState
  <2>2. process' = [process EXCEPT ![p] = Synced(row)]
    BY <1>0, <1>6 DEF Start, SchedulerTypeOK
  <2> HIDE DEF row
  <2>3. Synced(row) \in ProcessState /\ (Synced(row).known \in Cron \/ Synced(row).due = Never)
    BY <1>0, <2>1, SyncedIsTyped
  <2>4. process' \in [Process -> ProcessState] /\ KnowsItsCron'
    BY <1>3, <2>2, <2>3
  <2> QED
    BY <1>0, <1>6, <2>4 DEF SchedulerInv, SchedulerTypeOK, Start
<1>7. ASSUME NEW p \in Process, Reconciled(p) PROVE SchedulerInv'
  <2>1. process' = [process EXCEPT ![p] = Synced(process[p])]
    BY <1>0, <1>7 DEF Reconciled, SchedulerTypeOK
  <2>2. /\ Synced(process[p]) \in ProcessState
        /\ Synced(process[p]).known \in Cron \/ Synced(process[p]).due = Never
    BY <1>0, <1>4, SyncedIsTyped
  <2>3. process' \in [Process -> ProcessState] /\ KnowsItsCron'
    BY <1>3, <2>1, <2>2
  <2> QED
    BY <1>0, <1>7, <2>3 DEF SchedulerInv, SchedulerTypeOK, Reconciled
<1>8. ASSUME NEW p \in Process, ReconcileFails(p) PROVE SchedulerInv'
  <2>1. process' \in [Process -> ProcessState] /\ KnowsItsCron'
    BY <1>0, <1>4, <1>8 DEF ReconcileFails, SchedulerTypeOK, KnowsItsCron, ProcessState
  <2> QED
    BY <1>0, <1>5, <1>8, <2>1 DEF SchedulerInv, SchedulerTypeOK, ReconcileFails
<1>9. ASSUME NEW p \in Process, Fire(p) PROVE SchedulerInv'
  <2>1. process[p].due \in Nat /\ process[p].due <= time /\ process[p].job \in Nat
    BY <1>4, <1>9 DEF Fire, ProcessState
  <2>2. process[p].due # Never /\ process[p].known \in Cron
    BY <1>0, <1>4, <2>1, SchedulerNumbers DEF SchedulerTypeOK
  <2>3. NextFire(process[p].known, time + 1) \in Nat
    BY <1>0, <2>2, NextFireIsLater
  <2>4. schedule.cron \in Cron /\ schedule \in Row
    BY <1>0 DEF SchedulerTypeOK, Row
  <2>5. NextFire(schedule.cron, time + 1) \in Nat
    BY <1>0, <2>4, NextFireIsLater
  <2>6. PICK run \in BOOLEAN :
          /\ process' = [process EXCEPT
                            ![p].due = NextFire(process[p].known, time + 1),
                            ![p].job = IF run THEN process[p].due ELSE @]
          /\ schedule' = IF run THEN [schedule EXCEPT !.last = time,
                                                      !.next = NextFire(schedule.cron, time + 1)]
                         ELSE schedule
    BY <1>9 DEF Fire
  <2> DEFINE row == [process[p] EXCEPT !.due = NextFire(process[p].known, time + 1),
                                       !.job = IF run THEN process[p].due ELSE @]
  <2>7. row \in ProcessState /\ row.known \in Cron
    BY <1>4, <2>1, <2>2, <2>3 DEF ProcessState
  <2>8. process' = [process EXCEPT ![p] = row]
    BY <1>0, <2>6 DEF SchedulerTypeOK
  <2> HIDE DEF row
  <2>9. process' \in [Process -> ProcessState] /\ KnowsItsCron'
    BY <1>3, <2>7, <2>8
  <2>10. schedule' \in Row
    BY <1>0, <2>4, <2>5, <2>6 DEF Row
  <2> QED
    BY <1>0, <1>9, <2>9, <2>10 DEF SchedulerInv, SchedulerTypeOK, Fire
<1>10. ASSUME NEW p \in Process, StartJob(p) \/ StartJobFails(p) PROVE SchedulerInv'
  <2>1. process' = [process EXCEPT ![p].job = Never]
    BY <1>10 DEF StartJob, StartJobFails
  <2>2. process' \in [Process -> ProcessState] /\ KnowsItsCron'
    BY <1>0, <1>4, <2>1 DEF SchedulerTypeOK, KnowsItsCron, ProcessState
  <2>3. process[p].job \in Nat
    BY <1>4 DEF ProcessState
  <2>4. started' \subseteq (Nat \X Time \X Process)
    BY <1>0, <1>10, <2>3 DEF StartJob, StartJobFails, SchedulerTypeOK
  <2>5. crashes' \in 0..MaxCrashes
    BY <1>5, <1>10 DEF StartJob, StartJobFails
  <2>6. UNCHANGED <<time, schedule, changed, updates>>
    BY <1>10 DEF StartJob, StartJobFails
  <2> QED
    BY <1>0, <2>2, <2>4, <2>5, <2>6 DEF SchedulerInv, SchedulerTypeOK
<1>11. ASSUME NEW p \in Process, Crash(p) PROVE SchedulerInv'
  <2>1. process' \in [Process -> ProcessState] /\ KnowsItsCron'
    BY <1>3, <1>11, DownIsTyped DEF Crash, Down
  <2> QED
    BY <1>0, <1>5, <1>11, <2>1 DEF SchedulerInv, SchedulerTypeOK, Crash
<1>12. CASE Tick
  <2>1. time' \in Time
    BY <1>0, <1>12, SchedulerNumbers DEF Tick, Time
  <2> QED
    BY <1>0, <1>12, <2>1 DEF Tick, SchedulerInv, SchedulerTypeOK, KnowsItsCron
<1>13. CASE UNCHANGED schedulerVars
  BY <1>0, <1>13 DEF schedulerVars, SchedulerInv, SchedulerTypeOK, KnowsItsCron
<1> QED
  BY <1>1, <1>2, <1>6, <1>7, <1>8, <1>9, <1>10, <1>11, <1>12, <1>13 DEF SchedulerNext

LEMMA SchedulerAlways == SchedulerSpec => []SchedulerInv
<1>1. SchedulerInv /\ [SchedulerNext]_schedulerVars => SchedulerInv'
  BY SchedulerStep
<1> QED
  BY <1>1, SchedulerStarts, PTL DEF SchedulerSpec

\* The row of a schedule, what the processes know of it and the jobs keep their types.
THEOREM SchedulerTypes == SchedulerSpec => []SchedulerTypeOK
<1>1. SchedulerInv => SchedulerTypeOK
  BY DEF SchedulerInv
<1> QED
  BY <1>1, SchedulerAlways, PTL

LEMMA FiresOnceStarts == SchedulerInit => FiresOnce
  BY SchedulerNumbers DEF SchedulerInit, FiresOnce, Starting, Down, OneJobPerFire

LEMMA FiresOnceStep ==
    ASSUME Lag = 0, SchedulerInv, FiresOnce, [SchedulerNext]_schedulerVars
    PROVE  FiresOnce'
<1>0. /\ SchedulerTypeOK /\ time \in Time /\ time \in Nat /\ time + 1 \in Nat
      /\ Never \in Nat /\ time # Never
      /\ process \in [Process -> ProcessState]
      /\ \A p \in Process : process[p].due \in Nat /\ process[p].job \in Nat
                             /\ process[p] \in ProcessState
      /\ \A a \in started : a[1] \in Nat /\ a[2] \in Nat /\ a[2] # Never
  BY SchedulerNumbers DEF SchedulerInv, SchedulerTypeOK, ProcessState, Time
\* An action of one process that neither fires nor starts, or of none
<1>1. ASSUME NEW p \in Process, NEW row \in ProcessState, process' = [process EXCEPT ![p] = row],
             row.due >= time, row.up \/ row = Down, row.job \in {Never, process[p].job},
             UNCHANGED <<time, started>>, schedule'.last = schedule.last
      PROVE  FiresOnce'
  <2>1. \A q \in Process : process'[q] = IF q = p THEN row ELSE process[q]
    BY <1>0, <1>1
  <2>2. \A q \in Process : process'[q].job # Never => Starting(q) /\ process'[q].job = process[q].job
    BY <1>1, <2>1 DEF Starting
  <2>3. \A q \in Process : process'[q].due >= time /\ (process'[q].up \/ process'[q] = Down)
    BY <1>1, <2>1 DEF FiresOnce
  <2> QED
    BY <1>1, <2>2, <2>3 DEF FiresOnce, Starting, OneJobPerFire, Down
<1>2. ASSUME UNCHANGED <<time, process, started>>, schedule'.last = schedule.last
      PROVE  FiresOnce'
  BY <1>2 DEF FiresOnce, Starting, OneJobPerFire, Down
<1>3. \A p \in Process : process[p].due >= time /\ (process[p].up \/ process[p] = Down)
  BY DEF FiresOnce
<1>4. CASE DeleteSchedule \/ \E c \in Cron, on \in BOOLEAN : SaveSchedule(c, on)
  <2>1. schedule'.last = schedule.last /\ UNCHANGED <<time, process, started>>
    BY <1>0, <1>4 DEF DeleteSchedule, SaveSchedule, SchedulerTypeOK, Row
  <2> QED
    BY <1>2, <2>1
<1>5. ASSUME NEW p \in Process, Start(p) PROVE FiresOnce'
  <2> DEFINE row == [process[p] EXCEPT !.up = TRUE, !.since = time]
  <2>1. row \in ProcessState /\ row.job = process[p].job /\ row.due = process[p].due /\ row.up
    BY <1>0 DEF ProcessState
  <2>2. process' = [process EXCEPT ![p] = Synced(row)] /\ UNCHANGED <<time, started, schedule>>
    BY <1>0, <1>5 DEF Start
  <2> HIDE DEF row
  <2>3. /\ Synced(row) \in ProcessState /\ Synced(row).up /\ Synced(row).job = process[p].job
        /\ Synced(row).due >= time
    BY <1>0, <1>3, <2>1, SyncedIsTyped
  <2> QED
    BY <1>1, <2>2, <2>3
<1>6. ASSUME NEW p \in Process, Reconciled(p) PROVE FiresOnce'
  <2>1. process' = [process EXCEPT ![p] = Synced(process[p])] /\ process[p].up
        /\ UNCHANGED <<time, started, schedule>>
    BY <1>0, <1>6 DEF Reconciled, DueToSync
  <2>2. /\ Synced(process[p]) \in ProcessState /\ Synced(process[p]).up
        /\ Synced(process[p]).job = process[p].job /\ Synced(process[p]).due >= time
    BY <1>0, <1>3, <2>1, SyncedIsTyped
  <2> QED
    BY <1>1, <2>1, <2>2
<1>7. ASSUME NEW p \in Process, ReconcileFails(p) PROVE FiresOnce'
  <2> DEFINE row == [process[p] EXCEPT !.synced = time]
  <2>1. row \in ProcessState /\ row.job = process[p].job /\ row.due = process[p].due /\ row.up
    BY <1>0, <1>7 DEF ProcessState, ReconcileFails, DueToSync
  <2>2. process' = [process EXCEPT ![p] = row] /\ UNCHANGED <<time, started, schedule>>
    BY <1>0, <1>7 DEF ReconcileFails
  <2> HIDE DEF row
  <2> QED
    BY <1>1, <1>3, <2>1, <2>2
<1>8. ASSUME NEW p \in Process, Crash(p) PROVE FiresOnce'
  <2>1. process' = [process EXCEPT ![p] = Down] /\ UNCHANGED <<time, started, schedule>>
    BY <1>8 DEF Crash
  <2>2. Down.due = Never /\ Down.job = Never /\ Never >= time
    BY <1>0, SchedulerNumbers DEF Down
  <2> QED
    BY <1>1, <2>1, <2>2, DownIsTyped
<1>9. ASSUME NEW p \in Process, StartJobFails(p) PROVE FiresOnce'
  <2> DEFINE row == [process[p] EXCEPT !.job = Never]
  <2>1. /\ row \in ProcessState /\ row.job = Never /\ row.due = process[p].due
        /\ row.up = process[p].up
    BY <1>0 DEF ProcessState
  <2>2. row.up \/ row = Down
    <3>1. CASE process[p] = Down
      BY <3>1, <1>9 DEF Down, StartJobFails
    <3> QED
      BY <1>3, <2>1, <3>1
  <2>3. process' = [process EXCEPT ![p] = row] /\ UNCHANGED <<time, started, schedule>>
    BY <1>0, <1>9 DEF StartJobFails
  <2> HIDE DEF row
  <2> QED
    BY <1>1, <1>3, <2>1, <2>2, <2>3
<1>10. ASSUME NEW p \in Process, StartJob(p) PROVE FiresOnce'
  <2>1. Starting(p) /\ process[p].job = time /\ schedule.last = time
    BY <1>10 DEF StartJob, Starting, FiresOnce
  <2>2. \A q \in Process : q # p => ~Starting(q)
    BY <2>1 DEF FiresOnce
  <2>3. \A a \in started : a[2] # time
    BY <2>1 DEF FiresOnce
  <2>4. /\ started' = started \cup {<<time, time, p>>} /\ UNCHANGED <<time, schedule>>
        /\ process' = [process EXCEPT ![p].job = Never]
    BY <1>10, <2>1 DEF StartJob
  <2>5. \A q \in Process : /\ process'[q].due = process[q].due /\ process'[q].up = process[q].up
                           /\ process'[q].job = Never
                           /\ process[q] = Down => process'[q] = Down
    <3>1. ASSUME NEW q \in Process, q # p
          PROVE  process'[q] = process[q] /\ process'[q].job = Never
      BY <1>0, <2>2, <2>4, <3>1 DEF Starting
    <3> DEFINE row == [process[p] EXCEPT !.job = Never]
    <3>2. /\ row.due = process[p].due /\ row.up = process[p].up /\ row.job = Never
          /\ process' = [process EXCEPT ![p] = row]
      BY <1>0, <2>4 DEF ProcessState
    <3>3. process[p] # Down
      BY <2>1 DEF Starting, Down
    <3> HIDE DEF row
    <3>4. process'[p] = row
      BY <1>0, <3>2
    <3> QED
      BY <3>1, <3>2, <3>3, <3>4
  <2>6. \A a \in started : a[1] = a[2] /\ a[2] <= time /\ a[1] # time
    BY <2>3 DEF FiresOnce
  <2>7. OneJobPerFire'
    BY <2>4, <2>6 DEF FiresOnce, OneJobPerFire
  <2>8. \A a \in started' : a[1] = a[2] /\ a[2] <= time
    BY <1>0, <2>4, <2>6
  <2> QED
    BY <1>3, <2>1, <2>4, <2>5, <2>7, <2>8 DEF FiresOnce, Starting
<1>11. ASSUME NEW p \in Process, Fire(p) PROVE FiresOnce'
  <2>1. process[p].due = time /\ process[p].up
    BY <1>0, <1>3, <1>11 DEF Fire
  <2>2. process[p].known \in Cron
    BY <1>0, <2>1 DEF SchedulerInv, KnowsItsCron
  <2> DEFINE due == NextFire(process[p].known, time + 1)
  <2>3. due \in Nat /\ due >= time
    BY <1>0, <2>2, NextFireIsLater, SchedulerNumbers
  <2>4. PICK run \in {/\ process[p].job = Never
                     /\ schedule.exists /\ schedule.enabled /\ ~Recent} :
          /\ process' = [process EXCEPT ![p].due = due,
                                        ![p].job = IF run THEN process[p].due ELSE @]
          /\ schedule' = IF run THEN [schedule EXCEPT !.last = time,
                                                      !.next = NextFire(schedule.cron, time + 1)]
                         ELSE schedule
    BY <1>11 DEF Fire
  <2>5. UNCHANGED <<time, started>>
    BY <1>11 DEF Fire
  <2> HIDE DEF due
  <2>6. CASE run
    <3>1. process[p].job = Never /\ ~Recent
      BY <2>4, <2>6
    <3>2. \A q \in Process : ~Starting(q)
      BY <1>0, <3>1 DEF FiresOnce, Recent
    <3>3. \A a \in started : a[2] # time
      BY <1>0, <3>1 DEF FiresOnce, Recent
    <3>4. schedule'.last = time
      BY <1>0, <2>4, <2>6 DEF SchedulerTypeOK, Row
    <3>5. \A q \in Process :
             /\ process'[q].due >= time /\ (process'[q].up \/ process'[q] = Down)
             /\ process'[q].job # Never => q = p /\ process'[q].job = time
      BY <1>0, <1>3, <2>1, <2>3, <2>4, <2>6, <3>2 DEF ProcessState, Starting
    <3> QED
      BY <2>5, <3>3, <3>4, <3>5 DEF FiresOnce, Starting, OneJobPerFire
  <2>7. CASE ~run
    <3> DEFINE row == [process[p] EXCEPT !.due = due]
    <3>1. /\ row \in ProcessState /\ row.due = due /\ row.up /\ row.job = process[p].job
          /\ process' = [process EXCEPT ![p] = row] /\ schedule' = schedule
      BY <1>0, <2>1, <2>3, <2>4, <2>7 DEF ProcessState
    <3> HIDE DEF row
    <3> QED
      BY <1>1, <2>3, <2>5, <3>1
  <2> QED
    BY <2>6, <2>7
<1>12. CASE Tick
  <2>1. time' = time + 1 /\ UNCHANGED <<schedule, process, started>> /\ time' <= MaxTime
    BY <1>0, <1>12, SchedulerNumbers DEF Tick
  <2>2. ASSUME NEW p \in Process PROVE process[p].due >= time + 1 /\ ~Starting(p)
    <3>1. CASE process[p].up
      BY <1>0, <1>12, <3>1, SchedulerNumbers DEF Tick, Starting
    <3>2. CASE process[p] = Down
      BY <1>0, <2>1, <3>2, SchedulerNumbers DEF Down, Starting
    <3> QED
      BY <1>3, <3>1, <3>2
  <2>3. \A a \in started : a[1] = a[2] /\ a[2] <= time + 1 /\ a[2] # time + 1
    BY <1>0 DEF FiresOnce
  <2> QED
    BY <1>3, <2>1, <2>2, <2>3 DEF FiresOnce, Starting, OneJobPerFire, Down
<1>13. CASE UNCHANGED schedulerVars
  BY <1>2, <1>13 DEF schedulerVars
<1> QED
  BY <1>4, <1>5, <1>6, <1>7, <1>8, <1>9, <1>10, <1>11, <1>12, <1>13 DEF SchedulerNext

\* However many scheduler processes there are, however they crash, and whatever the API does
\* to the schedule meanwhile: as long as none is a tick late with a fire (the guard of
\* run_due_schedule reaches no further), one due time makes one job.
THEOREM OneJobPerDueTime ==
    ASSUME Lag = 0
    PROVE  SchedulerSpec => []OneJobPerFire
<1>1. SchedulerInv /\ FiresOnce /\ [SchedulerNext]_schedulerVars => FiresOnce'
  BY FiresOnceStep
<1>2. FiresOnce => OneJobPerFire
  BY DEF FiresOnce
<1> QED
  BY <1>1, <1>2, FiresOnceStarts, SchedulerAlways, PTL DEF SchedulerSpec

-----------------------------------------------------------------------------
(* No run is missed: what a process knows, expects and has fired. *)

Wanted == schedule.exists /\ schedule.enabled

\* A due time has its job, or the process that fires in its window is about to start one.
Covered(t) ==
    \/ \E j \in started : j[1] = t \/ j[2] \in t..t + Lag
    \/ \E q \in Process : Starting(q) /\ (process[q].job = t \/ time \in t..t + Lag)

\* No process is further behind than its loop and its lag allow.
Paced(row) ==
    row.up => /\ time <= row.synced + Reconcile /\ row.synced <= time
              /\ time <= row.due + Lag /\ row.since <= time

\* A process that reconciled since the last write knows the cron.
Informed(row) ==
    row.up /\ Wanted /\ crashes = 0 => row.known = schedule.cron \/ row.synced <= changed

\* It will wake for each fire to come of the cron it knows.
Expecting(row) ==
    row.up /\ row.known \in Cron => \A t \in FireTimes[row.known] : t > time => row.due <= t

\* It passed no fire of a cron that it had time to learn of.
PassedNone(row) ==
    row.up /\ Wanted /\ crashes = 0 /\ row.known = schedule.cron =>
        \A t \in FireTimes[schedule.cron] :
            t > changed + Reconcile /\ t > row.since /\ t < row.due => Covered(t)

Punctual(row) == Paced(row) /\ Informed(row) /\ Expecting(row) /\ PassedNone(row)

\* The run the row speaks of has its job, or is about to.
Remembered ==
    /\ schedule.last # Never => schedule.last <= time
    /\ schedule.last = time /\ crashes = 0 =>
          (\E j \in started : j[2] = time) \/ \E q \in Process : Starting(q)

RunsInv ==
    /\ changed <= time /\ Remembered
    /\ \A p \in Process : process[p].up \/ process[p] = Down
    /\ \A p \in Process : Punctual(process[p])
    /\ \A p \in Process : Starting(p) => time <= process[p].job + Lag

LEMMA SchedulerRows ==
    ASSUME SchedulerInv
    PROVE  /\ time \in Nat /\ time + 1 \in Nat /\ time # Never /\ time < Never /\ Never \in Nat
           /\ changed \in Nat /\ Reconcile \in Nat /\ Reconcile > 0 /\ Lag \in Nat
           /\ crashes \in Nat /\ process \in [Process -> ProcessState] /\ schedule \in Row
           /\ schedule.cron \in Cron /\ NoCron \notin Cron
           /\ \A c \in Cron : FireTimes[c] \subseteq Nat
           /\ \A p \in Process : process[p] \in ProcessState
           /\ \A j \in started : j[1] \in Nat /\ j[2] \in Nat
<1>1. SchedulerTypeOK
  BY DEF SchedulerInv
<1>2. time \in Time /\ changed \in Time /\ crashes \in 0..MaxCrashes
      /\ schedule \in Row /\ process \in [Process -> ProcessState]
  BY <1>1 DEF SchedulerTypeOK
<1>3. /\ time \in Nat /\ time + 1 \in Nat /\ time # Never /\ time < Never /\ Never \in Nat
      /\ changed \in Nat /\ crashes \in Nat
  BY <1>2, SchedulerNumbers
<1>4. Reconcile \in Nat /\ Reconcile > 0 /\ Lag \in Nat /\ NoCron \notin Cron
  BY SchedulerAssumption DEF SchedulerAssumption
<1>5. \A c \in Cron : FireTimes[c] \subseteq Nat
  BY SchedulerAssumption DEF SchedulerAssumption
<1>6. schedule.cron \in Cron
  BY <1>2 DEF Row
<1>7. \A j \in started : j[1] \in Nat /\ j[2] \in Nat
  BY <1>1, SchedulerNumbers DEF SchedulerTypeOK
<1> QED
  BY <1>2, <1>3, <1>4, <1>5, <1>6, <1>7

LEMMA ProcessNumbers ==
    ASSUME NEW row \in ProcessState
    PROVE  /\ row.due \in Nat /\ row.job \in Nat /\ row.synced \in Nat /\ row.since \in Nat
           /\ row.up \in BOOLEAN /\ row.known \in Cron \cup {NoCron}
  BY SchedulerNumbers DEF ProcessState

\* NextFire skips nothing.
LEMMA NextFireIsNext ==
    ASSUME NEW c \in Cron, NEW t \in Nat, NEW f \in FireTimes[c], f >= t
    PROVE  NextFire(c, t) <= f
<1> DEFINE later == {g \in FireTimes[c] : g >= t}
<1>1. later \in SUBSET Nat /\ f \in later
  BY SchedulerAssumption DEF SchedulerAssumption
<1>2. \E h \in later : \A g \in later : h <= g
  BY <1>1, MinExists
<1>3. NextFire(c, t) = CHOOSE h \in later : \A g \in later : h <= g
  BY <1>1 DEF NextFire
<1> QED
  BY <1>1, <1>2, <1>3

LEMMA RunsStart == SchedulerInit => RunsInv
<1> SUFFICES ASSUME SchedulerInit PROVE RunsInv
  OBVIOUS
<1>1. \A p \in Process : process[p] = Down
  BY DEF SchedulerInit
<1>2. Punctual(Down)
  BY DEF Punctual, Paced, Informed, Expecting, PassedNone, Down
<1>3. time = 0 /\ changed = 0 /\ schedule.last = Never
  BY DEF SchedulerInit
<1>4. Never # 0
  BY SchedulerNumbers
<1>5. changed <= time /\ Remembered
  BY <1>3, <1>4 DEF Remembered
<1>6. \A p \in Process : ~Starting(p)
  BY <1>1 DEF Starting, Down
<1>7. \A p \in Process : Punctual(process[p])
  BY <1>1, <1>2
<1> QED
  BY <1>1, <1>5, <1>6, <1>7 DEF RunsInv

\* The rows of the processes that an action does not touch
LEMMA OthersStayPunctual ==
    ASSUME UNCHANGED <<time, schedule, changed>>, crashes' = 0 => crashes = 0,
           crashes' = 0 => \A t \in Nat : Covered(t) => Covered(t)',
           \A c \in Cron : FireTimes[c] \subseteq Nat, schedule.cron \in Cron,
           NEW q \in Process, Punctual(process[q]), process'[q] = process[q]
    PROVE  Punctual(process[q])'
<1>1. Paced(process[q])'
  BY DEF Punctual, Paced
<1>2. Informed(process[q])'
  BY DEF Punctual, Informed, Wanted
<1>3. Expecting(process[q])'
  BY DEF Punctual, Expecting
<1>4. PassedNone(process[q])'
  <2>1. SUFFICES ASSUME process[q].up, Wanted, crashes = 0, crashes' = 0, process[q].known = schedule.cron,
                        NEW t \in FireTimes[schedule.cron],
                        t > changed + Reconcile, t > process[q].since, t < process[q].due
                 PROVE  Covered(t)'
    BY DEF PassedNone, Wanted
  <2>2. Covered(t) /\ t \in Nat
    BY <2>1 DEF Punctual, PassedNone
  <2> QED
    BY <2>1, <2>2
<1> QED
  BY <1>1, <1>2, <1>3, <1>4 DEF Punctual

\* What covers a due time goes on covering it while only the other processes move.
LEMMA CoveredStays ==
    ASSUME UNCHANGED time, started \subseteq started', NEW t \in Nat, Covered(t),
           \A q \in Process : Starting(q) =>
              \/ process'[q].job = process[q].job
              \/ <<process[q].job, time, q>> \in started'
    PROVE  Covered(t)'
<1>1. CASE \E j \in started : j[1] = t \/ j[2] \in t..t + Lag
  BY <1>1 DEF Covered
<1>2. ASSUME NEW q \in Process, Starting(q), process[q].job = t \/ time \in t..t + Lag
      PROVE  Covered(t)'
  <2>1. CASE process'[q].job = process[q].job
    BY <1>2, <2>1 DEF Covered, Starting
  <2>2. CASE <<process[q].job, time, q>> \in started'
    <3> DEFINE j == <<process[q].job, time, q>>
    <3>1. j[1] = process[q].job /\ j[2] = time
      OBVIOUS
    <3> QED
      BY <1>2, <2>2, <3>1 DEF Covered
  <2> QED
    BY <1>2, <2>1, <2>2
<1> QED
  BY <1>1, <1>2 DEF Covered

\* A process that reconciles: Start and Reconciled differ in the row they reconcile.
LEMMA SyncedIsPunctual ==
    ASSUME SchedulerInv, NEW row \in ProcessState, row.up, Expecting(row), Informed(row),
           PassedNone(row) \/ row.since = time, time <= row.due + Lag, row.since <= time,
           row.synced <= time, time <= row.synced + Reconcile \/ row.since = time,
           UNCHANGED <<time, schedule, changed, crashes>>,
           \A t \in Nat : Covered(t) => Covered(t)',
           NEW p \in Process, process'[p] = Synced(row)
    PROVE  Punctual(process[p])'
<1> DEFINE new == Synced(row)
<1>0. /\ time \in Nat /\ time < Never /\ Never \in Nat /\ changed \in Nat
      /\ Reconcile \in Nat /\ Lag \in Nat /\ schedule.cron \in Cron /\ NoCron \notin Cron
      /\ \A c \in Cron : FireTimes[c] \subseteq Nat
      /\ SchedulerTypeOK /\ time \in Time
      /\ row.due \in Nat /\ row.synced \in Nat /\ row.since \in Nat
  BY SchedulerRows, ProcessNumbers DEF SchedulerInv, SchedulerTypeOK
<1>1. new \in ProcessState /\ new.up /\ (new.due = row.due \/ new.due >= time)
  BY <1>0, SyncedIsTyped
<1>2. /\ new.synced = time /\ new.known = Desired /\ new.since = row.since
      /\ new.due = IF Desired = row.known THEN row.due
                   ELSE IF Desired = NoCron THEN Never ELSE NextFire(Desired, time + 1)
  BY DEF Synced, ProcessState
<1>3. Desired = IF Wanted THEN schedule.cron ELSE NoCron
  BY DEF Desired, Wanted
<1>4. new.due \in Nat
  BY <1>1, ProcessNumbers
<1> HIDE DEF new
<1>5. ASSUME Desired # row.known, Desired \in Cron, NEW t \in FireTimes[Desired], t > time
      PROVE  new.due <= t
  <2>1. t \in Nat /\ t >= time + 1 /\ time + 1 \in Nat
    BY <1>0, <1>5
  <2>2. new.due = NextFire(Desired, time + 1)
    BY <1>0, <1>2, <1>5
  <2> QED
    BY <1>5, <2>1, <2>2, NextFireIsNext
<1>6. Expecting(new)
  BY <1>2, <1>5 DEF Expecting
<1>7. Informed(new)
  BY <1>2, <1>3 DEF Informed
<1>8. Paced(new)
  BY <1>0, <1>1, <1>2, <1>4 DEF Paced
<1>9. ASSUME Wanted, crashes = 0, NEW t \in FireTimes[schedule.cron],
             t > changed + Reconcile, t > new.since, t < new.due
      PROVE  Covered(t)
  <2>1. t \in Nat /\ Desired = schedule.cron /\ Desired \in Cron /\ new.known = Desired
    BY <1>0, <1>2, <1>3, <1>9
  <2>2. t <= time
    BY <1>0, <1>1, <1>4, <1>6, <1>9, <2>1 DEF Expecting
  <2>3. row.since # time
    BY <1>0, <1>2, <1>9, <2>1, <2>2
  <2>4. row.known = schedule.cron
    <3>1. SUFFICES ASSUME row.synced <= changed PROVE FALSE
      BY <1>9 DEF Informed
    <3>2. time <= changed + Reconcile
      BY <1>0, <2>3, <3>1
    <3> QED
      BY <1>0, <1>9, <2>1, <2>2, <3>2
  <2>5. new.due = row.due
    BY <1>2, <2>1, <2>4
  <2> QED
    BY <1>2, <1>9, <2>3, <2>4, <2>5 DEF PassedNone
<1>10. PassedNone(process[p])'
  <2>1. SUFFICES ASSUME Wanted, crashes = 0, NEW t \in FireTimes[schedule.cron],
                        t > changed + Reconcile, t > new.since, t < new.due
                 PROVE  Covered(t)'
    BY DEF PassedNone, Wanted, new
  <2> QED
    BY <1>0, <1>9, <2>1
<1>11. Paced(process[p])' /\ Informed(process[p])' /\ Expecting(process[p])'
  <2>1. process'[p] = new
    BY DEF new
  <2> QED
    BY <1>6, <1>7, <1>8, <2>1 DEF Paced, Informed, Expecting, Wanted
<1> QED
  BY <1>10, <1>11 DEF Punctual

\* When it starts, a process knows nothing.
LEMMA FreshRow ==
    ASSUME SchedulerInv, NEW p \in Process, process[p] = Down
    PROVE  LET row == [process[p] EXCEPT !.up = TRUE, !.since = time]
           IN  /\ row \in ProcessState /\ row.up /\ row.since = time /\ row.known = NoCron
               /\ row.due = Never /\ row.synced = 0 /\ row.job = Never
<1> DEFINE row == [process[p] EXCEPT !.up = TRUE, !.since = time]
<1>1. time \in Time
  BY DEF SchedulerInv, SchedulerTypeOK
<1>2. row \in ProcessState /\ row.up /\ row.since = time
  BY <1>1, DownIsTyped DEF ProcessState
<1>3. /\ row.known = NoCron
      /\ row.due = Never /\ row.synced = 0 /\ row.job = Never
  BY DEF Down
<1> QED
  BY <1>2, <1>3

LEMMA RunsStep ==
    ASSUME SchedulerInv, RunsInv, [SchedulerNext]_schedulerVars
    PROVE  RunsInv'
<1>0. /\ time \in Nat /\ time + 1 \in Nat /\ time # Never /\ time < Never /\ Never \in Nat
      /\ changed \in Nat /\ Reconcile \in Nat /\ Reconcile > 0 /\ Lag \in Nat
      /\ crashes \in Nat /\ process \in [Process -> ProcessState] /\ schedule \in Row
      /\ schedule.cron \in Cron /\ NoCron \notin Cron
      /\ \A c \in Cron : FireTimes[c] \subseteq Nat
      /\ \A p \in Process : process[p] \in ProcessState
      /\ \A j \in started : j[1] \in Nat /\ j[2] \in Nat
  BY SchedulerRows
<1>1. \A p \in Process : Punctual(process[p]) /\ (process[p].up \/ process[p] = Down)
  BY DEF RunsInv
\* An action of one process that leaves the row and the jobs alone
<1>2. ASSUME NEW p \in Process, NEW row \in ProcessState, process' = [process EXCEPT ![p] = row],
             UNCHANGED <<time, schedule, changed, started>>, Crashed \/ crashes' = crashes,
             Punctual(process[p])', row.up \/ row = Down,
             row.job = process[p].job \/ (row.job = Never /\ Crashed)
      PROVE  RunsInv'
  <2>1. \A q \in Process : process'[q] = IF q = p THEN row ELSE process[q]
    BY <1>0, <1>2
  <2>2. crashes' = 0 => crashes = 0 /\ row.job = process[p].job
    BY <1>0, <1>2 DEF Crashed
  <2>3. ASSUME crashes' = 0, NEW t \in Nat, Covered(t) PROVE Covered(t)'
    <3>1. \A q \in Process : process'[q].job = process[q].job
      BY <2>1, <2>2, <2>3
    <3> QED
      BY <1>2, <2>3, <3>1, CoveredStays
  <2>4. \A q \in Process : Punctual(process[q])'
    <3>1. ASSUME NEW q \in Process, q # p PROVE Punctual(process[q])'
      <4>1. process'[q] = process[q] /\ Punctual(process[q])
        BY <1>1, <2>1, <3>1
      <4> QED
        BY <1>0, <1>2, <2>2, <2>3, <4>1, OthersStayPunctual
    <3> QED
      BY <1>2, <3>1
  <2>5. \A q \in Process : process'[q].job # Never =>
                              Starting(q) /\ process'[q].job = process[q].job
    BY <1>2, <2>1 DEF Starting
  <2>6. Remembered'
    <3>1. crashes' = 0 => \A q \in Process : process'[q].job = process[q].job
      BY <2>1, <2>2
    <3> QED
      BY <1>2, <2>2, <3>1 DEF RunsInv, Remembered, Starting
  <2>7. \A q \in Process : process'[q].up \/ process'[q] = Down
    BY <1>1, <1>2, <2>1
  <2> QED
    BY <1>2, <2>4, <2>5, <2>6, <2>7 DEF RunsInv, Starting, Down
<1>3. CASE DeleteSchedule \/ \E c \in Cron, on \in BOOLEAN : SaveSchedule(c, on)
  <2>1. /\ UNCHANGED <<time, process, started, crashes>> /\ changed' = time
        /\ schedule'.last = schedule.last
        /\ ~Wanted' \/ schedule'.cron \in Cron
    BY <1>0, <1>3 DEF DeleteSchedule, SaveSchedule, Written, Row, Wanted
  <2>2. ASSUME NEW p \in Process PROVE Punctual(process[p])'
    <3>1. Paced(process[p]) /\ Expecting(process[p])
      BY <1>1 DEF Punctual
    <3>2. Paced(process[p])' /\ Expecting(process[p])'
      BY <2>1, <3>1 DEF Paced, Expecting
    <3>3. Informed(process[p])'
      BY <2>1, <3>1 DEF Paced, Informed
    <3>4. PassedNone(process[p])'
      <4>1. SUFFICES ASSUME Wanted', process[p].up, process[p].known = schedule'.cron,
                            NEW t \in FireTimes[schedule'.cron],
                            t > time + Reconcile, t < process[p].due
                     PROVE  FALSE
        BY <2>1 DEF PassedNone
      <4>2. t \in Nat /\ process[p].known \in Cron /\ process[p].due \in Nat
        BY <1>0, <2>1, <4>1, ProcessNumbers
      <4>3. process[p].due <= t
        BY <1>0, <3>1, <4>1, <4>2 DEF Expecting
      <4> QED
        BY <4>1, <4>2, <4>3
    <3> QED
      BY <3>2, <3>3, <3>4 DEF Punctual
  <2> QED
    BY <1>0, <1>1, <2>1, <2>2 DEF RunsInv, Remembered, Starting, Down
<1>4. ASSUME NEW p \in Process, Start(p) PROVE RunsInv'
  <2> DEFINE row == [process[p] EXCEPT !.up = TRUE, !.since = time]
  <2>1. process[p] = Down
    BY <1>1, <1>4 DEF Start
  <2>2. /\ row \in ProcessState /\ row.up /\ row.since = time /\ row.known = NoCron
        /\ row.due = Never /\ row.synced = 0 /\ row.job = Never
    BY <2>1, FreshRow
  <2>3. process' = [process EXCEPT ![p] = Synced(row)]
        /\ UNCHANGED <<time, started, schedule, changed, crashes>>
    BY <1>0, <1>4 DEF Start
  <2> HIDE DEF row
  <2>4. /\ Synced(row) \in ProcessState /\ Synced(row).up /\ Synced(row).job = Never
        /\ process[p].job = Never /\ process'[p] = Synced(row)
    BY <1>0, <2>1, <2>2, <2>3, SyncedIsTyped DEF SchedulerInv, Down
  <2>5. Expecting(row) /\ Informed(row)
    BY <1>0, <2>2 DEF Expecting, Informed
  <2>6. \A t \in Nat : Covered(t) => Covered(t)'
    <3>1. \A q \in Process : process'[q].job = process[q].job
      BY <1>0, <2>3, <2>4
    <3> QED
      BY <2>3, <3>1, CoveredStays
  <2>7. Punctual(process[p])'
    BY <1>0, <2>2, <2>3, <2>4, <2>5, <2>6, SyncedIsPunctual
  <2> QED
    BY <1>2, <2>3, <2>4, <2>7
<1>5. ASSUME NEW p \in Process, Reconciled(p) PROVE RunsInv'
  <2> DEFINE row == process[p]
  <2>1. process' = [process EXCEPT ![p] = Synced(row)] /\ row.up
        /\ UNCHANGED <<time, started, schedule, changed, crashes>>
    BY <1>0, <1>5 DEF Reconciled, DueToSync
  <2>2. /\ Synced(row) \in ProcessState /\ Synced(row).up /\ Synced(row).job = row.job
        /\ process'[p] = Synced(row) /\ row \in ProcessState
    BY <1>0, <2>1, SyncedIsTyped DEF SchedulerInv
  <2>3. \A t \in Nat : Covered(t) => Covered(t)'
    <3>1. \A q \in Process : process'[q].job = process[q].job
      BY <1>0, <2>1, <2>2
    <3> QED
      BY <2>1, <3>1, CoveredStays
  <2>4. /\ row.since <= time /\ row.synced <= time /\ time <= row.synced + Reconcile
        /\ Expecting(row) /\ Informed(row) /\ PassedNone(row)
    BY <1>1, <2>1 DEF Punctual, Paced
  <2> HIDE DEF row
  <2>5. time <= row.due + Lag
    BY <1>1, <2>1 DEF Punctual, Paced, row
  <2>6. Punctual(process[p])'
    BY <2>1, <2>2, <2>3, <2>4, <2>5, SyncedIsPunctual
  <2> QED
    BY <1>2, <2>1, <2>2, <2>6 DEF row
<1>6. ASSUME NEW p \in Process, ReconcileFails(p) PROVE RunsInv'
  <2> DEFINE row == [process[p] EXCEPT !.synced = time]
  <2>1. /\ row \in ProcessState /\ row.job = process[p].job /\ row.due = process[p].due /\ row.up
        /\ row.known = process[p].known /\ row.since = process[p].since /\ row.synced = time
        /\ process[p].up
    BY <1>0, <1>6 DEF ProcessState, ReconcileFails, DueToSync, SchedulerInv, SchedulerTypeOK
  <2>2. /\ process' = [process EXCEPT ![p] = row] /\ UNCHANGED <<time, started, schedule, changed>>
        /\ Crashed /\ crashes' # 0
    BY <1>0, <1>6 DEF ReconcileFails, Crashed
  <2> HIDE DEF row
  <2>3. process'[p] = row
    BY <1>0, <2>1, <2>2
  <2>4. Punctual(process[p])'
    <3>1. Paced(process[p]) /\ Expecting(process[p])
      BY <1>1 DEF Punctual
    <3>2. Paced(process[p])' /\ Expecting(process[p])'
      BY <1>0, <2>1, <2>2, <2>3, <3>1 DEF Paced, Expecting
    <3> QED
      BY <2>2, <3>2 DEF Punctual, Informed, PassedNone
  <2> QED
    BY <1>2, <2>1, <2>2, <2>4
<1>7. ASSUME NEW p \in Process, Crash(p) PROVE RunsInv'
  <2>1. /\ process' = [process EXCEPT ![p] = Down] /\ UNCHANGED <<time, started, schedule, changed>>
        /\ Crashed /\ crashes' # 0 /\ Down.job = Never
    BY <1>0, <1>7 DEF Crash, Crashed, Down
  <2>2. process'[p] = Down /\ Down \in ProcessState /\ ~Down.up
    BY <1>0, <2>1, DownIsTyped DEF Down
  <2>3. Punctual(process[p])'
    BY <2>1, <2>2 DEF Punctual, Paced, Informed, Expecting, PassedNone
  <2> QED
    BY <1>2, <2>1, <2>2, <2>3
<1>8. ASSUME NEW p \in Process, StartJobFails(p) PROVE RunsInv'
  <2> DEFINE row == [process[p] EXCEPT !.job = Never]
  <2>1. /\ row \in ProcessState /\ row.job = Never /\ row.due = process[p].due
        /\ row.up = process[p].up /\ row.known = process[p].known
        /\ row.since = process[p].since /\ row.synced = process[p].synced
        /\ row.up \/ row = Down
    <3>1. process[p] # Down
      BY <1>8 DEF StartJobFails, Down
    <3> QED
      BY <1>0, <1>1, <3>1 DEF ProcessState
  <2>2. /\ process' = [process EXCEPT ![p] = row] /\ UNCHANGED <<time, started, schedule, changed>>
        /\ Crashed /\ crashes' # 0
    BY <1>0, <1>8 DEF StartJobFails, Crashed
  <2> HIDE DEF row
  <2>3. process'[p] = row
    BY <1>0, <2>1, <2>2
  <2>4. Punctual(process[p])'
    <3>1. Paced(process[p]) /\ Expecting(process[p])
      BY <1>1 DEF Punctual
    <3>2. Paced(process[p])' /\ Expecting(process[p])'
      BY <1>0, <2>1, <2>2, <2>3, <3>1 DEF Paced, Expecting
    <3> QED
      BY <2>2, <3>2 DEF Punctual, Informed, PassedNone
  <2> QED
    BY <1>2, <2>1, <2>2, <2>4
<1>9. CASE UNCHANGED schedulerVars
  <2>1. \A t \in Nat : Covered(t) => Covered(t)'
    BY <1>9 DEF schedulerVars, Covered, Starting
  <2>2. \A q \in Process : Punctual(process[q])'
    BY <1>0, <1>1, <1>9, <2>1, OthersStayPunctual DEF schedulerVars
  <2> QED
    BY <1>1, <1>9, <2>2 DEF schedulerVars, RunsInv, Remembered, Starting, Down
<1>10. ASSUME NEW p \in Process, StartJob(p) PROVE RunsInv'
  <2> DEFINE row == [process[p] EXCEPT !.job = Never]
  <2> DEFINE job == <<process[p].job, time, p>>
  <2>1. /\ row \in ProcessState /\ row.job = Never /\ row.due = process[p].due
        /\ row.up = process[p].up /\ row.known = process[p].known
        /\ row.since = process[p].since /\ row.synced = process[p].synced
        /\ row.up \/ row = Down
    <3>1. process[p] # Down
      BY <1>10 DEF StartJob, Down
    <3> QED
      BY <1>0, <1>1, <3>1 DEF ProcessState
  <2>2. /\ process' = [process EXCEPT ![p] = row] /\ UNCHANGED <<time, schedule, changed, crashes>>
        /\ started' = started \cup {job}
    BY <1>0, <1>10 DEF StartJob
  <2>3. job[2] = time /\ job \in started'
    BY <2>2
  <2> HIDE DEF row
  <2>4. \A q \in Process : process'[q] = IF q = p THEN row ELSE process[q]
    BY <1>0, <2>2
  <2>5. \A t \in Nat : Covered(t) => Covered(t)'
    <3>1. \A q \in Process : \/ process'[q].job = process[q].job
                             \/ <<process[q].job, time, q>> \in started'
      BY <2>3, <2>4
    <3> QED
      BY <2>2, <3>1, CoveredStays
  <2> HIDE DEF job
  <2>6. Punctual(process[p])'
    <3>1. Punctual(process[p]) /\ process'[p] = row
      BY <1>1, <2>4
    <3>2. Paced(process[p])' /\ Expecting(process[p])' /\ Informed(process[p])'
      BY <2>1, <2>2, <3>1 DEF Punctual, Paced, Expecting, Informed, Wanted
    <3>3. PassedNone(process[p])'
      BY <1>0, <2>1, <2>2, <2>5, <3>1 DEF Punctual, PassedNone, Wanted
    <3> QED
      BY <3>2, <3>3 DEF Punctual
  <2>7. \A q \in Process : Punctual(process[q])'
    <3>1. ASSUME NEW q \in Process, q # p PROVE Punctual(process[q])'
      BY <1>0, <1>1, <2>2, <2>4, <2>5, <3>1, OthersStayPunctual
    <3> QED
      BY <2>6, <3>1
  <2>8. Remembered'
    BY <2>2, <2>3 DEF RunsInv, Remembered
  <2>9. \A q \in Process : process'[q].up \/ process'[q] = Down
    BY <1>1, <2>1, <2>4
  <2>10. \A q \in Process : process'[q].job # Never => Starting(q) /\ process'[q].job = process[q].job
    BY <2>1, <2>4 DEF Starting
  <2> QED
    BY <2>2, <2>7, <2>8, <2>9, <2>10 DEF RunsInv, Starting, Down
<1>11. ASSUME NEW p \in Process, Fire(p) PROVE RunsInv'
  <2> DEFINE due == NextFire(process[p].known, time + 1)
  <2>1. /\ process[p].up /\ process[p].due <= time /\ process[p].due \in Nat
        /\ process[p].due # Never /\ process[p].known \in Cron
        /\ time <= process[p].due + Lag
    <3>1. process[p].up /\ process[p].due <= time /\ process[p].due \in Nat
      BY <1>0, <1>11, ProcessNumbers DEF Fire
    <3>2. process[p].due # Never /\ Paced(process[p])
      BY <1>0, <1>1, <3>1 DEF Punctual
    <3> QED
      BY <3>1, <3>2 DEF SchedulerInv, KnowsItsCron, Paced
  <2>2. /\ due \in Nat /\ due >= time
        /\ \A t \in FireTimes[process[p].known] : t > time => due <= t
    <3>1. due \in Nat /\ due >= time
      BY <1>0, <2>1, NextFireIsLater
    <3>2. ASSUME NEW t \in FireTimes[process[p].known], t > time PROVE due <= t
      <4>1. t \in Nat /\ t >= time + 1
        BY <1>0, <2>1, <3>2
      <4> QED
        BY <1>0, <2>1, <4>1, NextFireIsNext
    <3> QED
      BY <3>1, <3>2
  <2>3. PICK run \in {/\ process[p].job = Never
                     /\ schedule.exists /\ schedule.enabled /\ ~Recent} :
          /\ process' = [process EXCEPT ![p].due = due,
                                        ![p].job = IF run THEN process[p].due ELSE @]
          /\ schedule' = IF run THEN [schedule EXCEPT !.last = time,
                                                      !.next = NextFire(schedule.cron, time + 1)]
                         ELSE schedule
    BY <1>11 DEF Fire
  <2>4. UNCHANGED <<time, changed, started, crashes>>
    BY <1>11 DEF Fire
  <2>5. /\ schedule'.exists = schedule.exists /\ schedule'.enabled = schedule.enabled
        /\ schedule'.cron = schedule.cron
        /\ schedule'.last = IF run THEN time ELSE schedule.last
    BY <1>0, <2>3 DEF Row
  <2> DEFINE row == [process[p] EXCEPT !.due = due, !.job = IF run THEN process[p].due ELSE @]
  <2>6. /\ row.due = due /\ row.job = (IF run THEN process[p].due ELSE process[p].job)
        /\ row.up /\ row.known = process[p].known
        /\ row.since = process[p].since /\ row.synced = process[p].synced
        /\ process' = [process EXCEPT ![p] = row]
    BY <1>0, <2>1, <2>3 DEF ProcessState
  <2> HIDE DEF row, due
  <2>7. \A q \in Process : process'[q] = IF q = p THEN row ELSE process[q]
    BY <1>0, <2>6
  <2>8. run \in BOOLEAN /\ (run => process[p].job = Never)
    BY <2>3
  <2>9. \A t \in Nat : Covered(t) => Covered(t)'
    <3>1. \A q \in Process : Starting(q) => process'[q].job = process[q].job
      BY <2>6, <2>7, <2>8 DEF Starting
    <3> QED
      BY <2>4, <3>1, CoveredStays
  <2>10. Wanted' = Wanted
    BY <2>5 DEF Wanted
\* The job of this tick is started, is being started, or it was run a moment ago.
  <2>11. Wanted /\ crashes = 0 =>
           (\E j \in started : j[2] = time) \/ \E q \in Process : process'[q].job # Never
    <3>1. CASE run
      BY <2>1, <2>6, <2>7, <3>1
    <3>2. CASE ~run /\ process[p].job # Never
      BY <2>6, <2>7, <3>2
    <3>3. CASE ~run /\ process[p].job = Never
      <4>1. SUFFICES ASSUME Wanted, crashes = 0
                     PROVE  (\E j \in started : j[2] = time) \/ \E q \in Process : process'[q].job # Never
        OBVIOUS
      <4>2. schedule.last = time
        BY <2>3, <3>3, <4>1 DEF Wanted, Recent
      <4>3. (\E j \in started : j[2] = time) \/ \E q \in Process : Starting(q)
        BY <4>1, <4>2 DEF RunsInv, Remembered
      <4>4. \A q \in Process : Starting(q) => process'[q].job # Never
        BY <2>6, <2>7, <3>3 DEF Starting
      <4> QED
        BY <4>3, <4>4
    <3> QED
      BY <2>8, <3>1, <3>2, <3>3
  <2>12. Punctual(process[p])'
    <3>1. process'[p] = row /\ Punctual(process[p])
      BY <1>1, <2>7
    <3>2. Paced(process[p])'
      <4>1. time <= process[p].synced + Reconcile /\ process[p].synced <= time /\ process[p].since <= time
        BY <2>1, <3>1 DEF Punctual, Paced
      <4>2. time <= due + Lag
        BY <1>0, <2>2
      <4> QED
        BY <2>4, <2>6, <3>1, <4>1, <4>2 DEF Paced
    <3>3. Informed(process[p])'
      <4>1. Wanted /\ crashes = 0 => process[p].known = schedule.cron \/ process[p].synced <= changed
        BY <2>1, <3>1 DEF Punctual, Informed
      <4> QED
        BY <2>4, <2>5, <2>6, <2>10, <3>1, <4>1 DEF Informed
    <3>4. Expecting(process[p])'
      BY <2>2, <2>4, <2>6, <3>1 DEF Expecting
    <3>5. PassedNone(process[p])'
      <4>1. SUFFICES ASSUME Wanted, crashes = 0, process[p].known = schedule.cron,
                            NEW t \in FireTimes[schedule.cron],
                            t > changed + Reconcile, t > process[p].since, t < due
                     PROVE  Covered(t)'
        BY <2>4, <2>5, <2>6, <2>10, <3>1 DEF PassedNone
      <4>2. t \in Nat /\ t <= time
        BY <1>0, <2>2, <4>1
      <4>3. CASE t < process[p].due
        BY <2>1, <2>9, <3>1, <4>1, <4>2, <4>3 DEF Punctual, PassedNone
      <4>4. CASE process[p].due <= t
        <5>1. time \in t..t + Lag
          BY <1>0, <2>1, <4>2, <4>4
        <5> QED
          BY <2>4, <2>11, <4>1, <5>1 DEF Covered, Starting
      <4> QED
        BY <2>1, <4>2, <4>3, <4>4
    <3> QED
      BY <3>2, <3>3, <3>4, <3>5 DEF Punctual
  <2>13. ASSUME NEW q \in Process, q # p PROVE Punctual(process[q])'
    <3>1. process'[q] = process[q] /\ Punctual(process[q])
      BY <1>1, <2>7, <2>13
    <3>2. Paced(process[q])' /\ Informed(process[q])' /\ Expecting(process[q])'
      BY <2>4, <2>5, <2>10, <3>1 DEF Punctual, Paced, Informed, Expecting
    <3>3. PassedNone(process[q])'
      BY <1>0, <2>4, <2>5, <2>9, <2>10, <3>1 DEF Punctual, PassedNone
    <3> QED
      BY <3>2, <3>3 DEF Punctual
  <2>14. Remembered'
    <3>1. CASE run
      BY <1>0, <2>1, <2>4, <2>5, <2>6, <2>7, <3>1 DEF Remembered, Starting
    <3>2. CASE ~run
      <4>1. \A q \in Process : Starting(q) => process'[q].job # Never
        BY <2>6, <2>7, <3>2 DEF Starting
      <4> QED
        BY <2>4, <2>5, <3>2, <4>1 DEF RunsInv, Remembered, Starting
    <3> QED
      BY <2>8, <3>1, <3>2
  <2>15. \A q \in Process : process'[q].up \/ process'[q] = Down
    BY <1>1, <2>6, <2>7
  <2>16. \A q \in Process : process'[q].job # Never => time <= process'[q].job + Lag
    <3>1. \A q \in Process : Starting(q) => time <= process[q].job + Lag
      BY DEF RunsInv
    <3> QED
      BY <2>1, <2>6, <2>7, <2>8, <3>1 DEF Starting
  <2> QED
    BY <2>4, <2>12, <2>13, <2>14, <2>15, <2>16 DEF RunsInv, Starting, Down
<1>12. CASE Tick
  <2>1. /\ time' = time + 1 /\ UNCHANGED <<schedule, changed, process, started, crashes>>
        /\ \A p \in Process : process[p].up =>
              /\ time - process[p].synced < Reconcile
              /\ time < process[p].due + Lag
              /\ process[p].job = Never
    BY <1>12 DEF Tick
  <2>2. \A p \in Process : ~Starting(p)
    BY <1>1, <2>1 DEF Starting, Down
  <2>3. \A t \in Nat : Covered(t) => Covered(t)'
    BY <2>1, <2>2 DEF Covered
  <2>4. ASSUME NEW p \in Process PROVE Punctual(process[p])'
    <3>1. Punctual(process[p]) /\ process[p].due \in Nat /\ process[p].synced \in Nat
          /\ process[p].since \in Nat
      BY <1>0, <1>1, ProcessNumbers
    <3>2. Paced(process[p])'
      <4>1. SUFFICES ASSUME process[p].up
                     PROVE  /\ time + 1 <= process[p].synced + Reconcile /\ process[p].synced <= time + 1
                            /\ time + 1 <= process[p].due + Lag /\ process[p].since <= time + 1
        BY <2>1 DEF Paced
      <4>2. process[p].synced <= time /\ process[p].since <= time
        BY <3>1, <4>1 DEF Punctual, Paced
      <4> QED
        BY <1>0, <2>1, <3>1, <4>1, <4>2
    <3>3. Informed(process[p])'
      BY <2>1, <3>1 DEF Punctual, Informed, Wanted
    <3>4. Expecting(process[p])'
      <4>1. SUFFICES ASSUME process[p].up, process[p].known \in Cron,
                            NEW t \in FireTimes[process[p].known], t > time + 1
                     PROVE  process[p].due <= t
        BY <2>1 DEF Expecting
      <4>2. t \in Nat /\ t > time
        BY <1>0, <4>1
      <4> QED
        BY <3>1, <4>1, <4>2 DEF Punctual, Expecting
    <3>5. PassedNone(process[p])'
      BY <1>0, <2>1, <2>3, <3>1 DEF Punctual, PassedNone, Wanted
    <3> QED
      BY <3>2, <3>3, <3>4, <3>5 DEF Punctual
  <2>5. Remembered'
    <3>1. schedule.last \in Nat /\ (schedule.last # Never => schedule.last <= time)
      BY <1>0, SchedulerNumbers DEF RunsInv, Remembered, Row
    <3>2. time + 1 # Never
      BY <1>0, <1>12, SchedulerNumbers DEF Tick
    <3>3. schedule.last # time + 1 /\ (schedule.last # Never => schedule.last <= time + 1)
      BY <1>0, <3>1, <3>2
    <3> QED
      BY <2>1, <3>3 DEF Remembered
  <2>6. changed <= time + 1
    BY <1>0 DEF RunsInv
  <2> QED
    BY <1>1, <2>1, <2>2, <2>4, <2>5, <2>6 DEF RunsInv, Starting, Down
<1> QED
  BY <1>3, <1>4, <1>5, <1>6, <1>7, <1>8, <1>9, <1>10, <1>11, <1>12 DEF SchedulerNext

\* Whatever the API does to a schedule, as long as nothing fails and a process is up: each due
\* time that lies a reconciliation or more behind the last write has its job, by the lag of
\* the processes at the latest.
THEOREM NoRunIsMissed == SchedulerSpec => []NoRunMissed
<1>1. SchedulerInv /\ RunsInv /\ [SchedulerNext]_schedulerVars => RunsInv'
  BY RunsStep
<1>2. SchedulerInv /\ RunsInv => NoRunMissed
  <2>1. SUFFICES ASSUME SchedulerInv, RunsInv, NEW t \in FireTimes[schedule.cron],
                        time > t + Lag, SteadyBefore(t)
                 PROVE  \E j \in started : j[1] = t \/ j[2] \in t..t + Lag
    BY DEF NoRunMissed
  <2>2. /\ time \in Nat /\ changed \in Nat /\ Reconcile \in Nat /\ Lag \in Nat
        /\ t \in Nat /\ \A p \in Process : process[p] \in ProcessState
    BY <2>1, SchedulerRows
  <2>3. /\ Wanted /\ crashes = 0 /\ changed + Reconcile < t
        /\ \E p \in Process : process[p].up /\ process[p].since < t
    BY <2>1 DEF SteadyBefore, Wanted
  <2>4. PICK p \in Process : process[p].up /\ process[p].since < t
    BY <2>3
  <2>5. /\ process[p].due \in Nat /\ process[p].job \in Nat /\ process[p].synced \in Nat
        /\ process[p].since \in Nat
    BY <2>2, ProcessNumbers
  <2>6. /\ Punctual(process[p]) /\ time <= process[p].synced + Reconcile
        /\ time <= process[p].due + Lag
    BY <2>1, <2>4 DEF RunsInv, Punctual, Paced
  <2>7. process[p].synced > changed /\ t < process[p].due
    BY <2>1, <2>2, <2>3, <2>5, <2>6
  <2>8. process[p].known = schedule.cron
    BY <2>2, <2>3, <2>4, <2>5, <2>6, <2>7 DEF Punctual, Informed
  <2>9. Covered(t)
    BY <2>1, <2>2, <2>3, <2>4, <2>5, <2>6, <2>7, <2>8 DEF Punctual, PassedNone
  <2>10. ASSUME NEW q \in Process, Starting(q), process[q].job = t \/ time \in t..t + Lag PROVE FALSE
    BY <2>1, <2>2, <2>10 DEF RunsInv
  <2> QED
    BY <2>9, <2>10 DEF Covered
<1> QED
  BY <1>1, <1>2, RunsStart, SchedulerAlways, PTL DEF SchedulerSpec

-----------------------------------------------------------------------------
(* The live events of a topic. *)

Rest == IF topic = "job" THEN <<"store">> ELSE <<"publish">>

\* An entry of writing says what its row lacks.
Entry(w) ==
    /\ w \in [row : 1..counter, todo : {Plan, Rest}]
    /\ w.todo = Plan => w.row \notin stored \cup published
    /\ w.todo = Rest => IF topic = "job" THEN w.row \in published \ stored
                                         ELSE w.row \in stored \ published

\* A row that was passed: what is left to do of it will be done out of order.
Late(s) ==
    /\ s \in InHand
    /\ \/ s \notin published /\ \E q \in published : q > s
       \/ s \notin stored /\ \E q \in stored : q > s

\* The rows of the first j messages on the wire; a workspace's snapshot is not cut.
Sent(j) == UNION {wire[i].rows : i \in 1..(IF topic = "workspace" THEN Len(wire) ELSE j)}

\* Why a client that counts up to s once the first j messages have come may do so
Explained(s, j) == s \in got \cup Sent(j) \cup excused \/ Late(s)

LiveShape ==
    /\ topic \in Topics /\ counter \in Nat /\ last \in 0..counter /\ tree \in 0..counter
    /\ log \in Seq(1..counter) /\ wire \in Seq([rows : SUBSET (1..counter), seq : 0..counter, over : BOOLEAN])
    /\ stored \subseteq 1..counter /\ published \subseteq 1..counter
    /\ got \subseteq 1..counter /\ over \in {"no", "stored", "published"}
    /\ topic \in Buffered => over = "no" /\ \A i \in 1..Len(wire) : ~wire[i].over
    /\ session \in {"closed", "reading", "read", "live"}
    /\ session = "reading" => wire = <<>>

\* Each numbered row is in hand, or stored and published, or given up.
RowsAccounted ==
    /\ \A w \in writing : Entry(w)
    /\ \A v, w \in writing : v.row = w.row => v = w
    /\ \A s \in 1..counter : s \in InHand \cup (stored \cap published) \cup excused
    /\ Range(log) \subseteq stored /\ stored \ Range(log) \subseteq excused
    /\ topic # "job" => published \subseteq stored

CountsExplained ==
    /\ \A s \in 1..last : Explained(s, 0)
    /\ \A i \in 1..Len(wire) : \A s \in 1..wire[i].seq : Explained(s, i)

\* What a client that has its snapshot was sent
Connected ==
    session \in {"read", "live"} =>
        /\ published \subseteq got \cup OnWire \cup excused
        /\ over = "published" => End \in excused \/ \E i \in 1..Len(wire) : wire[i].over

LiveInv == LiveShape /\ RowsAccounted /\ CountsExplained /\ Connected

LEMMA Steps ==
    /\ Plan # Rest
    /\ Head(Plan) = IF topic = "job" THEN "publish" ELSE "store"
    /\ Len(Plan) = 2 /\ Tail(Plan) = Rest
    /\ Head(Rest) = IF topic = "job" THEN "store" ELSE "publish"
    /\ Len(Rest) = 1
<1>1. CASE topic = "job"
  BY <1>1 DEF Plan, Rest
<1>2. CASE topic # "job"
  BY <1>2 DEF Plan, Rest
<1> QED
  BY <1>1, <1>2

LEMMA EmptyRange == ASSUME NEW s, s = <<>> PROVE Range(s) = {}
  BY DEF Range

LEMMA LiveStarts == LiveInit => LiveInv
<1> SUFFICES ASSUME LiveInit PROVE LiveInv
  OBVIOUS
<1>1. /\ counter = 0 /\ log = <<>> /\ published = {} /\ over = "no" /\ writing = {}
      /\ session = "closed" /\ tree = 0 /\ wire = <<>> /\ got = {} /\ last = 0
      /\ stored = {} /\ excused = {} /\ topic \in Topics
  BY DEF LiveInit
<1>2. Len(wire) = 0 /\ Range(log) = {}
  BY <1>1, EmptyRange
<1>3. LiveShape
  BY <1>1, <1>2 DEF LiveShape
<1>4. RowsAccounted
  BY <1>1, <1>2 DEF RowsAccounted
<1> QED
  BY <1>1, <1>2, <1>3, <1>4 DEF LiveInv, CountsExplained, Connected

\* Why a row may be counted goes on holding when nothing it rests on is withdrawn.
LEMMA ExplainedStays ==
    ASSUME NEW s, NEW j, NEW k, Explained(s, j),
           got \cup Sent(j) \cup excused \subseteq got' \cup Sent(k)' \cup excused',
           Late(s) => Late(s)' \/ s \in excused'
    PROVE  Explained(s, k)'
  BY DEF Explained

LEMMA Unmoved ==
    ASSUME LiveInv, UNCHANGED <<topic, counter, last, tree, log, wire, stored, published, got, over,
                                session, writing>>,
           excused \subseteq excused'
    PROVE  LiveInv'
<1>1. LiveShape'
  BY DEF LiveInv, LiveShape
<1>2. RowsAccounted'
  BY DEF LiveInv, RowsAccounted, Entry, Plan, Rest, InHand
<1>3. \A s, j : Explained(s, j) => Explained(s, j)'
  BY DEF Explained, Sent, Late, InHand
<1>4. CountsExplained'
  BY <1>3 DEF LiveInv, CountsExplained
<1>5. Connected'
  BY DEF LiveInv, Connected, OnWire
<1> QED
  BY <1>1, <1>2, <1>4, <1>5 DEF LiveInv

\* The step of a row that is being written
LEMMA EntryMoves ==
    ASSUME RowsAccounted, NEW w \in writing, Done(w), topic' = topic
    PROVE  /\ Entry(w)
           /\ Head(w.todo) = "store" <=> w.row \notin stored /\ (topic = "job" => w.row \in published)
           /\ Head(w.todo) = "publish" <=> w.row \notin published /\ (topic # "job" => w.row \in stored)
           /\ writing' = (writing \ {w}) \cup (IF w.todo = Plan THEN {[row |-> w.row, todo |-> Rest]} ELSE {})
           /\ InHand' = IF w.todo = Plan THEN InHand ELSE InHand \ {w.row}
<1>1. Entry(w)
  BY DEF RowsAccounted
<1>2. /\ Head(w.todo) = "store" <=> w.row \notin stored /\ (topic = "job" => w.row \in published)
      /\ Head(w.todo) = "publish" <=> w.row \notin published /\ (topic # "job" => w.row \in stored)
  BY <1>1, Steps DEF Entry
<1>3. writing' = (writing \ {w}) \cup (IF w.todo = Plan THEN {[row |-> w.row, todo |-> Rest]} ELSE {})
  <2>1. CASE w.todo = Plan
    <3>1. [w EXCEPT !.todo = Tail(@)] = [row |-> w.row, todo |-> Rest]
      <4>1. [w EXCEPT !.todo = Rest] = [row |-> w.row, todo |-> Rest]
        BY <1>1 DEF Entry
      <4>2. Tail(w.todo) = Rest
        BY <2>1, Steps
      <4> QED
        BY <4>1, <4>2
    <3> QED
      BY <2>1, <3>1, Steps DEF Done
  <2>2. CASE w.todo = Rest
    BY <2>2, Steps DEF Done
  <2> QED
    BY <1>1, <2>1, <2>2 DEF Entry
<1>4. InHand' = IF w.todo = Plan THEN InHand ELSE InHand \ {w.row}
  <2>1. CASE w.todo = Plan
    <3> DEFINE v == [row |-> w.row, todo |-> Rest]
    <3>1. v.row = w.row /\ writing' = (writing \ {w}) \cup {v}
      BY <1>3, <2>1
    <3> HIDE DEF v
    <3>2. \A s : s \in InHand' <=> s \in InHand
      BY <3>1 DEF InHand
    <3> QED
      BY <2>1, <3>2
  <2>2. CASE w.todo # Plan
    <3>1. \A v \in writing \ {w} : v.row # w.row
      BY DEF RowsAccounted
    <3> QED
      BY <1>3, <2>2, <3>1 DEF InHand
  <2> QED
    BY <2>1, <2>2
<1> QED
  BY <1>1, <1>2, <1>3, <1>4

\* Append and trim
LEMMA TrimmedLog ==
    ASSUME NEW S, log \in Seq(S), NEW r \in S
    PROVE  /\ Trim(Append(log, r)) \in Seq(S)
           /\ r \in Range(Trim(Append(log, r)))
           /\ Range(Trim(Append(log, r))) \subseteq Range(log) \cup {r}
<1> DEFINE app == Append(log, r)
<1>0. Buffer \in Nat /\ Buffer > 0
  BY LiveAssumption DEF LiveAssumption
<1>1. /\ app \in Seq(S) /\ Len(app) = Len(log) + 1 /\ app[Len(log) + 1] = r /\ Len(log) \in Nat
      /\ \A i \in 1..Len(log) : app[i] = log[i]
  OBVIOUS
<1> HIDE DEF app
<1>2. DOMAIN app = 1..Len(log) + 1 /\ DOMAIN log = 1..Len(log)
  BY <1>1
<1>3. r \in Range(app) /\ Range(app) \subseteq Range(log) \cup {r}
  <2>1. \A i \in 1..Len(log) + 1 : i \in 1..Len(log) \/ i = Len(log) + 1
    BY <1>1
  <2>2. Len(log) + 1 \in 1..Len(log) + 1
    BY <1>1
  <2> QED
    BY <1>1, <1>2, <2>1, <2>2 DEF Range
<1>4. CASE ~(topic \in Buffered /\ Len(app) > Buffer)
  BY <1>1, <1>3, <1>4 DEF Trim, app
<1>5. CASE topic \in Buffered /\ Len(app) > Buffer
  <2>1. app # <<>> /\ Len(log) >= 1
    BY <1>0, <1>1, <1>5
  <2>2. /\ Tail(app) \in Seq(S) /\ Len(Tail(app)) = Len(log)
        /\ \A i \in 1..Len(log) : Tail(app)[i] = app[i + 1]
    BY <1>1, <2>1, HeadTailProperties
  <2>3. DOMAIN Tail(app) = 1..Len(log)
    BY <2>2
  <2>4. Range(Tail(app)) \subseteq Range(app)
    <3>1. \A i \in 1..Len(log) : i + 1 \in 1..Len(log) + 1
      BY <1>1
    <3> QED
      BY <1>2, <2>2, <2>3, <3>1 DEF Range
  <2>5. r \in Range(Tail(app))
    <3>1. Len(log) \in 1..Len(log) /\ Tail(app)[Len(log)] = r
      BY <1>1, <2>1, <2>2
    <3> QED
      BY <2>3, <3>1 DEF Range
  <2>6. Trim(app) = Tail(app)
    BY <1>5 DEF Trim
  <2> QED
    BY <1>3, <2>2, <2>4, <2>5, <2>6 DEF app
<1> QED
  BY <1>4, <1>5

LEMMA RangeIn ==
    ASSUME NEW S, NEW s \in Seq(S)
    PROVE  Range(s) \subseteq S
  BY DEF Range

\* What is in hand after a step of an entry, and which rows are still overtaken
LEMMA StoreStep ==
    ASSUME LiveInv, NEW w \in writing, Store(w)
    PROVE  LiveInv'
<1> DEFINE r == w.row
<1>0. /\ LiveShape /\ RowsAccounted /\ r \in 1..counter /\ Done(w) /\ Head(w.todo) = "store"
      /\ UNCHANGED <<topic, counter, published, over, session, tree, wire, got, last, told>>
  BY DEF LiveInv, RowsAccounted, Entry, Store, Doing, clientVars
<1>1. /\ log' = Trim(Append(log, r)) /\ stored' = stored \cup {r}
      /\ excused' = excused \cup (Range(log) \ Range(log'))
                            \cup (IF Overtaken(r, stored) THEN {r} ELSE {})
  BY DEF Store
<1>2. /\ Entry(w) /\ r \notin stored /\ (topic = "job" => r \in published)
      /\ writing' = (writing \ {w}) \cup (IF w.todo = Plan THEN {[row |-> r, todo |-> Rest]} ELSE {})
      /\ InHand' = IF w.todo = Plan THEN InHand ELSE InHand \ {r}
  BY <1>0, EntryMoves
<1>3. w.todo = Plan <=> topic # "job"
  BY <1>0, <1>2, Steps DEF Entry
<1> HIDE DEF r
<1>4. /\ log' \in Seq(1..counter) /\ r \in Range(log') /\ Range(log') \subseteq Range(log) \cup {r}
  BY <1>0, <1>1, TrimmedLog DEF LiveShape
<1>5. LiveShape'
  BY <1>0, <1>1, <1>4 DEF LiveShape
<1>6. \A v \in writing \ {w} : v.row # r
  BY <1>0 DEF RowsAccounted, r
<1>7. ASSUME NEW v \in writing' PROVE Entry(v)'
  <2>1. CASE v \in writing \ {w}
    <3>1. Entry(v) /\ v.row # r
      BY <1>0, <1>6, <2>1 DEF RowsAccounted
    <3> QED
      BY <1>0, <1>1, <3>1 DEF Entry, Plan, Rest
  <2>2. CASE v = [row |-> r, todo |-> Rest] /\ topic # "job"
    <3>1. v.row = r /\ v.todo = Rest /\ r \notin published
      BY <1>0, <1>2, <1>3, <2>2, Steps DEF RowsAccounted, Entry, r
    <3>2. v \in [row : 1..counter, todo : {Plan, Rest}]
      BY <1>0, <2>2 DEF r
    <3> QED
      BY <1>0, <1>1, <2>2, <3>1, <3>2, Steps DEF Entry, Plan, Rest
  <2> QED
    BY <1>2, <1>3, <2>1, <2>2
<1>8. \A u, v \in writing' : u.row = v.row => u = v
  <2>1. \A v \in writing' : v \in writing \ {w} \/ (v.row = r /\ v = [row |-> r, todo |-> Rest])
    BY <1>2
  <2> QED
    BY <1>0, <1>6, <2>1 DEF RowsAccounted
<1>9. \A s \in 1..counter : s \in InHand' \cup (stored' \cap published') \cup excused'
  BY <1>0, <1>1, <1>2, <1>3 DEF RowsAccounted
<1>10. Range(log') \subseteq stored' /\ stored' \ Range(log') \subseteq excused'
  BY <1>0, <1>1, <1>4 DEF RowsAccounted
<1>11. RowsAccounted'
  BY <1>0, <1>1, <1>7, <1>8, <1>9, <1>10 DEF RowsAccounted
<1>12. \A s : Late(s) => Late(s)' \/ s \in excused'
  BY <1>0, <1>1, <1>2, <1>3 DEF Late, Overtaken
<1>13. \A s, j : Explained(s, j) => Explained(s, j)'
  <2>1. \A j : Sent(j)' = Sent(j)
    BY <1>0 DEF Sent
  <2> QED
    BY <1>0, <1>1, <1>12, <2>1, ExplainedStays
<1>14. CountsExplained'
  BY <1>0, <1>13 DEF LiveInv, CountsExplained
<1>15. Connected'
  BY <1>0, <1>1 DEF LiveInv, Connected, OnWire
<1> QED
  BY <1>5, <1>11, <1>14, <1>15 DEF LiveInv

LEMMA DiesStep ==
    ASSUME LiveInv, NEW w \in writing, Dies(w)
    PROVE  LiveInv'
<1> DEFINE r == w.row
<1>0. /\ LiveShape /\ RowsAccounted /\ r \in 1..counter
      /\ writing' = writing \ {w} /\ excused' = excused \cup {r}
      /\ UNCHANGED <<topic, counter, log, published, over, session, tree, stored, wire, got, last>>
  BY DEF LiveInv, RowsAccounted, Entry, Dies, clientVars
<1>1. InHand \subseteq InHand' \cup {r}
  BY <1>0 DEF InHand
<1> HIDE DEF r
<1>2. LiveShape'
  BY <1>0 DEF LiveShape
<1>3. RowsAccounted'
  <2>1. \A v \in writing' : Entry(v)'
    BY <1>0 DEF RowsAccounted, Entry, Plan, Rest
  <2> QED
    BY <1>0, <1>1, <2>1 DEF RowsAccounted
<1>4. \A s : Late(s) => Late(s)' \/ s \in excused'
  BY <1>0, <1>1 DEF Late
<1>5. \A s, j : Explained(s, j) => Explained(s, j)'
  <2>1. \A j : Sent(j)' = Sent(j)
    BY <1>0 DEF Sent
  <2> QED
    BY <1>0, <1>4, <2>1, ExplainedStays
<1>6. CountsExplained'
  BY <1>0, <1>5 DEF LiveInv, CountsExplained
<1>7. Connected'
  BY <1>0 DEF LiveInv, Connected, OnWire
<1> QED
  BY <1>2, <1>3, <1>6, <1>7 DEF LiveInv

LEMMA NumberStep ==
    ASSUME LiveInv, Number
    PROVE  LiveInv'
<1> DEFINE r == counter + 1
<1> DEFINE v == [row |-> r, todo |-> Plan]
<1>0. /\ LiveShape /\ RowsAccounted /\ counter \in Nat /\ counter' = r
      /\ writing' = writing \cup {v} /\ v.row = r /\ v.todo = Plan
      /\ UNCHANGED <<topic, log, published, over, session, tree, stored, excused, wire, got, last>>
  BY DEF LiveInv, LiveShape, Number, clientVars
<1>1. /\ r \in 1..r /\ 1..counter \subseteq 1..r /\ 0..counter \subseteq 0..r
      /\ \A s \in 1..r : s \in 1..counter \/ s = r
      /\ r \notin 1..counter
  BY <1>0
<1>2. v \in [row : 1..r, todo : {Plan, Rest}]
  BY <1>1
<1>3. r \notin stored \cup published
  BY <1>0, <1>1 DEF LiveShape
<1> HIDE DEF r, v
<1>4. LiveShape'
  <2>1. log \in Seq(1..r)
    BY <1>0, <1>1, SeqMonotonic DEF LiveShape
  <2> DEFINE M == [rows : SUBSET (1..counter), seq : 0..counter, over : BOOLEAN]
  <2> DEFINE N == [rows : SUBSET (1..r), seq : 0..r, over : BOOLEAN]
  <2>2. M \subseteq N /\ wire \in Seq(M)
    BY <1>0, <1>1 DEF LiveShape
  <2>3. wire \in Seq(N)
    <3> HIDE DEF M, N
    <3> QED
      BY <2>2, SeqMonotonic
  <2>4. /\ stored \subseteq 1..r /\ published \subseteq 1..r /\ got \subseteq 1..r
        /\ last \in 0..r /\ tree \in 0..r /\ r \in Nat
    BY <1>0, <1>1 DEF LiveShape, r
  <2> QED
    BY <1>0, <2>1, <2>3, <2>4 DEF LiveShape
<1>5. InHand' = InHand \cup {r}
  BY <1>0 DEF InHand
<1>6. RowsAccounted'
  <2>1. ASSUME NEW u \in writing PROVE Entry(u)' /\ u.row # r
    <3>1. Entry(u)
      BY <1>0 DEF RowsAccounted
    <3>2. u \in [row : 1..r, todo : {Plan, Rest}] /\ u.row \in 1..counter
      BY <1>1, <3>1 DEF Entry
    <3> QED
      BY <1>0, <1>1, <3>1, <3>2 DEF Entry, Plan, Rest
  <2>2. ASSUME NEW u, u = v PROVE Entry(u)'
    <3>1. Plan' = Plan /\ Rest' = Rest
      BY <1>0 DEF Plan, Rest
    <3> QED
      BY <1>0, <1>2, <1>3, <2>2, <3>1, Steps DEF Entry
  <2>3. \A t, u \in writing' : t.row = u.row => t = u
    BY <1>0, <2>1 DEF RowsAccounted
  <2>4. \A s \in 1..counter' : s \in InHand' \cup (stored \cap published) \cup excused
    BY <1>0, <1>1, <1>5 DEF RowsAccounted
  <2>5. \A u \in writing' : Entry(u)'
    BY <1>0, <2>1, <2>2
  <2> QED
    BY <1>0, <2>3, <2>4, <2>5 DEF RowsAccounted
<1>7. \A s, j : Explained(s, j) => Explained(s, j)'
  <2>1. \A j : Sent(j)' = Sent(j)
    BY <1>0 DEF Sent
  <2>2. \A s : Late(s) => Late(s)'
    BY <1>0, <1>5 DEF Late
  <2> QED
    BY <1>0, <2>1, <2>2, ExplainedStays
<1>8. CountsExplained'
  BY <1>0, <1>7 DEF LiveInv, CountsExplained
<1>9. Connected'
  BY <1>0 DEF LiveInv, Connected, OnWire
<1> QED
  BY <1>4, <1>6, <1>8, <1>9 DEF LiveInv

\* A message more on the wire: what the first messages carry, and what all of them do
LEMMA Broadcasts ==
    ASSUME NEW M, wire \in Seq(M), NEW m \in M, wire' = Append(wire, m), topic' = topic
    PROVE  /\ wire' \in Seq(M) /\ Len(wire') = Len(wire) + 1 /\ Len(wire) \in Nat
           /\ \A i \in 1..Len(wire) : wire'[i] = wire[i]
           /\ wire'[Len(wire) + 1] = m
           /\ \A j \in 0..Len(wire) : Sent(j) \subseteq Sent(j)'
           /\ OnWire' = OnWire \cup m.rows
           /\ \A j : j = Len(wire) + 1 => Sent(j)' = OnWire'
<1>1. /\ wire' \in Seq(M) /\ Len(wire') = Len(wire) + 1 /\ Len(wire) \in Nat
      /\ \A i \in 1..Len(wire) : wire'[i] = wire[i]
      /\ wire'[Len(wire) + 1] = m
  BY AppendProperties
<1>2. \A j \in 0..Len(wire) : Sent(j) \subseteq Sent(j)'
  <2>1. CASE topic = "workspace"
    <3>1. \A i \in 1..Len(wire) : i \in 1..Len(wire')
      BY <1>1
    <3> QED
      BY <1>1, <2>1, <3>1 DEF Sent
  <2>2. CASE topic # "workspace"
    <3>1. \A j \in 0..Len(wire) : \A i \in 1..j : i \in 1..Len(wire)
      BY <1>1
    <3> QED
      BY <1>1, <2>2, <3>1 DEF Sent
  <2> QED
    BY <2>1, <2>2
<1>3. OnWire' = OnWire \cup m.rows
  <2>1. \A i \in 1..Len(wire') : i \in 1..Len(wire) \/ i = Len(wire) + 1
    BY <1>1
  <2>2. Len(wire) + 1 \in 1..Len(wire') /\ \A i \in 1..Len(wire) : i \in 1..Len(wire')
    BY <1>1
  <2> QED
    BY <1>1, <2>1, <2>2 DEF OnWire
<1>4. ASSUME NEW j, j = Len(wire) + 1 PROVE Sent(j)' = OnWire'
  BY <1>1, <1>4 DEF Sent, OnWire
<1> QED
  BY <1>1, <1>2, <1>3, <1>4

LEMMA PublishStep ==
    ASSUME LiveInv, NEW w \in writing, Publish(w)
    PROVE  LiveInv'
<1> DEFINE r == w.row
<1> DEFINE m == [rows |-> {r}, seq |-> r, over |-> FALSE]
<1> DEFINE M == [rows : SUBSET (1..counter), seq : 0..counter, over : BOOLEAN]
<1>0. /\ LiveShape /\ RowsAccounted /\ r \in 1..counter /\ Done(w) /\ Head(w.todo) = "publish"
      /\ UNCHANGED <<topic, counter, log, over, session, tree, got, last, stored>>
      /\ counter \in Nat
  BY DEF LiveInv, RowsAccounted, Entry, Publish, Doing, LiveShape
<1>1. /\ published' = published \cup {r}
      /\ excused' = excused \cup InGap(r) \cup (IF Overtaken(r, published) THEN {r} ELSE {})
      /\ wire' = IF session = "live" THEN Append(wire, m) ELSE wire
  BY DEF Publish, Broadcast
<1>2. /\ Entry(w) /\ r \notin published /\ (topic # "job" => r \in stored)
      /\ writing' = (writing \ {w}) \cup (IF w.todo = Plan THEN {[row |-> r, todo |-> Rest]} ELSE {})
      /\ InHand' = IF w.todo = Plan THEN InHand ELSE InHand \ {r}
  BY <1>0, EntryMoves
<1>3. w.todo = Plan <=> topic = "job"
  BY <1>0, <1>2, Steps DEF Entry
<1>4. m.rows = {r} /\ m.seq = r /\ m.over = FALSE /\ m \in M /\ wire \in Seq(M)
  BY <1>0 DEF LiveShape
<1>5. \A v \in writing \ {w} : v.row # r
  BY <1>0 DEF RowsAccounted
<1> HIDE DEF r, m
<1>6. /\ wire' \in Seq(M)
      /\ \A i \in 1..Len(wire') :
            \/ i \in 1..Len(wire) /\ wire'[i] = wire[i]
            \/ session = "live" /\ i = Len(wire) + 1 /\ wire'[i] = m
      /\ \A j \in 0..Len(wire) : Sent(j) \subseteq Sent(j)'
      /\ OnWire \subseteq OnWire' /\ (session = "live" => r \in OnWire')
      /\ \A i : session = "live" /\ i = Len(wire) + 1 => Sent(i)' = OnWire'
      /\ \A i \in 1..Len(wire) : i \in 1..Len(wire') /\ wire'[i] = wire[i]
  <2>1. CASE session = "live"
    <3> HIDE DEF M
    <3>1. wire' = Append(wire, m)
      BY <1>1, <2>1
    <3>2. /\ wire' \in Seq(M) /\ Len(wire') = Len(wire) + 1 /\ Len(wire) \in Nat
          /\ \A i \in 1..Len(wire) : wire'[i] = wire[i]
          /\ wire'[Len(wire) + 1] = m
          /\ \A j \in 0..Len(wire) : Sent(j) \subseteq Sent(j)'
          /\ OnWire' = OnWire \cup m.rows
          /\ \A j : j = Len(wire) + 1 => Sent(j)' = OnWire'
      BY <1>0, <1>4, <3>1, Broadcasts
    <3> QED
      BY <1>4, <2>1, <3>2
  <2>2. CASE session # "live"
    <3>1. wire' = wire
      BY <1>1, <2>2
    <3>2. \A j : Sent(j)' = Sent(j)
      BY <1>0, <3>1 DEF Sent
    <3>3. OnWire' = OnWire
      BY <3>1 DEF OnWire
    <3> QED
      BY <1>4, <2>2, <3>1, <3>2, <3>3
  <2> QED
    BY <2>1, <2>2
<1>7. LiveShape'
  <2>1. topic \in Buffered => over' = "no" /\ \A i \in 1..Len(wire') : ~wire'[i].over
    BY <1>0, <1>4, <1>6 DEF LiveShape
  <2>2. session = "reading" => wire' = <<>>
    BY <1>0, <1>1 DEF LiveShape
  <2> QED
    BY <1>0, <1>1, <1>6, <2>1, <2>2 DEF LiveShape
<1>8. ASSUME NEW v \in writing' PROVE Entry(v)'
  <2>0. Plan' = Plan /\ Rest' = Rest
    BY <1>0 DEF Plan, Rest
  <2>1. CASE v \in writing \ {w}
    <3>1. Entry(v) /\ v.row # r
      BY <1>0, <1>5, <2>1 DEF RowsAccounted
    <3> QED
      BY <1>0, <1>1, <2>0, <3>1 DEF Entry
  <2>2. CASE v = [row |-> r, todo |-> Rest] /\ topic = "job"
    <3>1. v.row = r /\ v.todo = Rest /\ r \notin stored
      BY <1>0, <1>2, <1>3, <2>2, Steps DEF Entry, r
    <3>2. v \in [row : 1..counter, todo : {Plan, Rest}]
      BY <1>0, <2>2
    <3> QED
      BY <1>0, <1>1, <2>0, <2>2, <3>1, <3>2, Steps DEF Entry
  <2> QED
    BY <1>2, <1>3, <2>1, <2>2
<1>9. RowsAccounted'
  <2>1. \A u, v \in writing' : u.row = v.row => u = v
    <3>1. \A v \in writing' : v \in writing \ {w} \/ (v.row = r /\ v = [row |-> r, todo |-> Rest])
      BY <1>2
    <3> QED
      BY <1>0, <1>5, <3>1 DEF RowsAccounted
  <2>2. \A s \in 1..counter : s \in InHand' \cup (stored' \cap published') \cup excused'
    BY <1>0, <1>1, <1>2, <1>3 DEF RowsAccounted
  <2>3. topic # "job" => published' \subseteq stored
    BY <1>0, <1>1, <1>2 DEF RowsAccounted
  <2>4. stored \ Range(log) \subseteq excused'
    BY <1>0, <1>1 DEF RowsAccounted
  <2> QED
    BY <1>0, <1>8, <2>1, <2>2, <2>3, <2>4 DEF RowsAccounted
<1>10. \A s : Late(s) => Late(s)' \/ s \in excused'
  BY <1>0, <1>1, <1>2, <1>3 DEF Late, Overtaken
<1>11. ASSUME NEW s, NEW j \in 0..Len(wire), Explained(s, j) PROVE Explained(s, j)'
  BY <1>0, <1>1, <1>6, <1>10, <1>11, ExplainedStays
<1>12. ASSUME session = "live", NEW i, i = Len(wire) + 1, NEW s \in 1..r
       PROVE  Explained(s, i)'
  <2>1. s \in 1..counter /\ s <= r /\ r \in Nat
    BY <1>0
  <2>2. published \subseteq got \cup OnWire \cup excused
    BY <1>12 DEF LiveInv, Connected
  <2>3. Sent(i)' = OnWire' /\ r \in OnWire' /\ OnWire \subseteq OnWire'
    BY <1>6, <1>12
  <2>4. s \in published \/ s = r \/ s \in excused => Explained(s, i)'
    BY <1>0, <1>1, <2>2, <2>3 DEF Explained
  <2>5. ASSUME s \notin published, s # r, s \notin excused PROVE Late(s)'
    <3>1. s \in InHand
      BY <1>0, <2>1, <2>5 DEF RowsAccounted
    <3> QED
      BY <1>1, <1>2, <2>1, <2>5, <3>1 DEF Late
  <2> QED
    BY <2>4, <2>5 DEF Explained
<1>13. CountsExplained'
  <2>1. \A s \in 1..last' : Explained(s, 0)'
    BY <1>0, <1>4, <1>11 DEF LiveInv, CountsExplained
  <2>2. ASSUME NEW i \in 1..Len(wire'), NEW s \in 1..wire'[i].seq PROVE Explained(s, i)'
    <3>1. CASE i \in 1..Len(wire) /\ wire'[i] = wire[i]
      <4>1. Explained(s, i) /\ i \in 0..Len(wire)
        BY <2>2, <3>1 DEF LiveInv, CountsExplained
      <4> QED
        BY <1>11, <4>1
    <3>2. CASE session = "live" /\ i = Len(wire) + 1 /\ wire'[i] = m
      BY <1>4, <1>12, <2>2, <3>2
    <3> QED
      BY <1>6, <2>2, <3>1, <3>2
  <2> QED
    BY <2>1, <2>2 DEF CountsExplained
<1>14. Connected'
  <2>1. SUFFICES ASSUME session \in {"read", "live"}
                 PROVE  /\ published' \subseteq got \cup OnWire' \cup excused'
                        /\ over = "published" =>
                              End \in excused' \/ \E i \in 1..Len(wire') : wire'[i].over
    BY <1>0 DEF Connected
  <2>2. /\ published \subseteq got \cup OnWire \cup excused
        /\ over = "published" => End \in excused \/ \E i \in 1..Len(wire) : wire[i].over
    BY <2>1 DEF LiveInv, Connected
  <2>3. r \in OnWire' \cup excused'
    BY <1>1, <1>6, <2>1 DEF InGap
  <2> QED
    BY <1>1, <1>6, <2>2, <2>3
<1> QED
  BY <1>7, <1>9, <1>13, <1>14 DEF LiveInv

LEMMA EndStep ==
    ASSUME LiveInv, EndStored \/ EndPublished
    PROVE  LiveInv'
<1> DEFINE m == [rows |-> {}, seq |-> 0, over |-> TRUE]
<1> DEFINE M == [rows : SUBSET (1..counter), seq : 0..counter, over : BOOLEAN]
<1>0. LiveShape /\ RowsAccounted /\ counter \in Nat /\ wire \in Seq(M)
  BY DEF LiveInv, LiveShape
<1>1. CASE EndStored
  <2>1. /\ topic \notin Buffered /\ over' = "stored"
        /\ UNCHANGED <<topic, counter, log, published, writing, session, tree, stored, excused,
                       wire, got, last>>
    BY <1>1 DEF EndStored, clientVars
  <2>2. LiveShape'
    BY <1>0, <2>1 DEF LiveShape
  <2>3. RowsAccounted'
    BY <1>0, <2>1 DEF RowsAccounted, Entry, Plan, Rest, InHand
  <2>4. \A s, j : Explained(s, j) => Explained(s, j)'
    BY <2>1 DEF Explained, Sent, Late, InHand
  <2>5. CountsExplained'
    BY <2>1, <2>4 DEF LiveInv, CountsExplained
  <2>6. Connected'
    BY <2>1 DEF LiveInv, Connected, OnWire
  <2> QED
    BY <2>2, <2>3, <2>5, <2>6 DEF LiveInv
<1>2. CASE EndPublished
  <2>1. /\ topic \notin Buffered /\ over' = "published"
        /\ UNCHANGED <<topic, counter, log, published, writing, tree, got, last, stored>>
        /\ wire' = IF session = "live" THEN Append(wire, m) ELSE wire
        /\ excused' = excused \cup (IF session = "read" THEN {End} ELSE {})
        /\ session' = IF session = "live" THEN "closed" ELSE session
    BY <1>0, <1>2 DEF EndPublished, LiveShape, Broadcast, InGap
  <2>2. m \in M /\ m.rows = {} /\ m.seq = 0
    BY <1>0
  <2> HIDE DEF m
  <2>3. RowsAccounted'
    BY <1>0, <2>1 DEF RowsAccounted, Entry, Plan, Rest, InHand
  <2>4. \A s : Late(s) => Late(s)'
    BY <2>1 DEF Late, InHand
  <2>5. CASE session # "live"
    <3>1. wire' = wire /\ session' = session
      BY <2>1, <2>5
    <3>2. LiveShape'
      BY <1>0, <2>1, <3>1 DEF LiveShape
    <3>3. \A s, j : Explained(s, j) => Explained(s, j)'
      BY <2>1, <2>4, <3>1 DEF Explained, Sent
    <3>4. CountsExplained'
      BY <2>1, <3>1, <3>3 DEF LiveInv, CountsExplained
    <3>5. Connected'
      BY <2>1, <2>5, <3>1 DEF LiveInv, Connected, OnWire
    <3> QED
      BY <2>3, <3>2, <3>4, <3>5 DEF LiveInv
  <2>6. CASE session = "live"
    <3>1. wire' = Append(wire, m) /\ session' = "closed" /\ topic' = topic
      BY <2>1, <2>6
    <3> HIDE DEF M
    <3>2. /\ wire' \in Seq(M) /\ Len(wire') = Len(wire) + 1 /\ Len(wire) \in Nat
          /\ \A i \in 1..Len(wire) : wire'[i] = wire[i]
          /\ wire'[Len(wire) + 1] = m
          /\ \A j \in 0..Len(wire) : Sent(j) \subseteq Sent(j)'
      BY <1>0, <2>2, <3>1, Broadcasts
    <3>3. LiveShape'
      BY <1>0, <2>1, <3>1, <3>2 DEF LiveShape, M
    <3>4. ASSUME NEW s, NEW j \in 0..Len(wire), Explained(s, j) PROVE Explained(s, j)'
      BY <2>1, <2>4, <3>2, <3>4, ExplainedStays
    <3>5. \A s \in 1..last' : Explained(s, 0)'
      BY <2>1, <3>2, <3>4 DEF LiveInv, CountsExplained
    <3>6. ASSUME NEW i \in 1..Len(wire'), NEW s \in 1..wire'[i].seq PROVE Explained(s, i)'
      <4>1. i \in 1..Len(wire)
        BY <2>2, <3>2, <3>6
      <4>2. Explained(s, i) /\ i \in 0..Len(wire)
        BY <3>2, <3>6, <4>1 DEF LiveInv, CountsExplained
      <4> QED
        BY <3>4, <4>2
    <3>7. CountsExplained' /\ Connected'
      BY <3>1, <3>5, <3>6 DEF CountsExplained, Connected
    <3> QED
      BY <2>3, <3>3, <3>7 DEF LiveInv
  <2> QED
    BY <2>5, <2>6
<1> QED
  BY <1>1, <1>2

LEMMA OpenStep ==
    ASSUME LiveInv, Open \/ Subscribe
    PROVE  LiveInv'
<1>1. CASE Open
  <2>1. /\ session' = "reading" /\ wire = <<>> /\ tree' \in {counter, 0}
        /\ UNCHANGED <<topic, counter, log, published, writing, over, stored, excused, wire, got, last>>
    BY <1>1 DEF Open, clientVars
  <2>2. LiveShape'
    BY <2>1 DEF LiveInv, LiveShape
  <2>3. RowsAccounted'
    BY <2>1 DEF LiveInv, RowsAccounted, Entry, Plan, Rest, InHand
  <2>4. \A s, j : Explained(s, j) => Explained(s, j)'
    BY <2>1 DEF Explained, Sent, Late, InHand
  <2>5. CountsExplained' /\ Connected'
    BY <2>1, <2>4 DEF LiveInv, CountsExplained, Connected
  <2> QED
    BY <2>2, <2>3, <2>5 DEF LiveInv
<1>2. CASE Subscribe
  <2>1. /\ session = "read" /\ session' = "live"
        /\ UNCHANGED <<topic, counter, log, published, writing, over, tree, stored, excused, wire,
                       got, last>>
    BY <1>2 DEF Subscribe, clientVars
  <2>2. LiveShape'
    BY <2>1 DEF LiveInv, LiveShape
  <2>3. RowsAccounted'
    BY <2>1 DEF LiveInv, RowsAccounted, Entry, Plan, Rest, InHand
  <2>4. \A s, j : Explained(s, j) => Explained(s, j)'
    BY <2>1 DEF Explained, Sent, Late, InHand
  <2>5. CountsExplained' /\ Connected'
    BY <2>1, <2>4 DEF LiveInv, CountsExplained, Connected, OnWire
  <2> QED
    BY <2>2, <2>3, <2>5 DEF LiveInv
<1> QED
  BY <1>1, <1>2

LEMMA DropStep ==
    ASSUME LiveInv, Drop
    PROVE  LiveInv'
<1>1. /\ session' = "closed" /\ wire' = <<>>
      /\ excused' = excused \cup (IF topic = "workspace" THEN OnWire \cap 1..last ELSE {})
      /\ UNCHANGED <<topic, counter, log, published, writing, over, tree, got, last, stored>>
  BY DEF Drop, OnWire
<1>2. Len(wire') = 0
  BY <1>1
<1>3. LiveShape'
  BY <1>1, <1>2 DEF LiveInv, LiveShape
<1>4. RowsAccounted'
  BY <1>1 DEF LiveInv, RowsAccounted, Entry, Plan, Rest, InHand
<1>5. \A s : Late(s) => Late(s)'
  BY <1>1 DEF Late, InHand
<1>6. Sent(0) = IF topic = "workspace" THEN OnWire ELSE {}
  BY DEF Sent, OnWire
<1>7. \A s \in 1..last : Explained(s, 0)'
  BY <1>1, <1>5, <1>6 DEF LiveInv, CountsExplained, Explained
<1> QED
  BY <1>1, <1>2, <1>3, <1>4, <1>7 DEF LiveInv, CountsExplained, Connected

\* The first message comes off the wire: what was sent is had or still to come.
LEMMA Arrives ==
    ASSUME NEW M, wire \in Seq(M), wire # <<>>, topic' = topic, wire' = Tail(wire),
           got' = got \cup wire[1].rows
    PROVE  /\ wire' \in Seq(M) /\ Len(wire') = Len(wire) - 1 /\ Len(wire) \in Nat \ {0}
           /\ \A i \in 1..Len(wire') : i + 1 \in 1..Len(wire) /\ wire'[i] = wire[i + 1]
           /\ \A i \in 1..Len(wire) : i = 1 \/ (i - 1 \in 1..Len(wire') /\ wire'[i - 1] = wire[i])
           /\ got \cup OnWire \subseteq got' \cup OnWire'
           /\ got \cup Sent(0) \subseteq got' \cup Sent(0)'
           /\ \A j \in 0..Len(wire') : \A k : k = j + 1 => got \cup Sent(k) \subseteq got' \cup Sent(j)'
<1>1. /\ wire' \in Seq(M) /\ Len(wire') = Len(wire) - 1 /\ Len(wire) \in Nat \ {0}
      /\ \A i \in 1..Len(wire') : i + 1 \in 1..Len(wire) /\ wire'[i] = wire[i + 1]
  BY HeadTailProperties, EmptySeq
<1>2. \A i \in 1..Len(wire) : i = 1 \/ (i - 1 \in 1..Len(wire') /\ wire'[i - 1] = wire[i])
  <2>1. \A i \in 1..Len(wire) : i = 1 \/ (i - 1 \in 1..Len(wire') /\ (i - 1) + 1 = i)
    BY <1>1
  <2> QED
    BY <1>1, <2>1
<1>3. got \cup OnWire \subseteq got' \cup OnWire'
  <2>1. ASSUME NEW i \in 1..Len(wire), NEW x \in wire[i].rows PROVE x \in got' \cup OnWire'
    <3>1. CASE i = 1
      BY <2>1, <3>1
    <3>2. CASE i - 1 \in 1..Len(wire') /\ wire'[i - 1] = wire[i]
      BY <2>1, <3>2 DEF OnWire
    <3> QED
      BY <1>2, <2>1, <3>1, <3>2
  <2>2. \A x \in OnWire : \E i \in 1..Len(wire) : x \in wire[i].rows
    BY DEF OnWire
  <2> QED
    BY <2>1, <2>2
<1>4. ASSUME NEW j \in 0..Len(wire'), NEW k, k = j + 1 PROVE got \cup Sent(k) \subseteq got' \cup Sent(j)'
  <2>1. CASE topic = "workspace"
    BY <1>3, <2>1 DEF Sent, OnWire
  <2>2. CASE topic # "workspace"
    <3>1. \A i \in 1..k : i = 1 \/ (i - 1 \in 1..j /\ wire'[i - 1] = wire[i])
      BY <1>1, <1>2, <1>4
    <3>2. Sent(k) = UNION {wire[i].rows : i \in 1..k} /\ Sent(j)' = UNION {wire'[i].rows : i \in 1..j}
      BY <2>2 DEF Sent
    <3>3. ASSUME NEW i \in 1..k, NEW x \in wire[i].rows PROVE x \in got' \cup Sent(j)'
      <4>1. CASE i = 1
        BY <3>3, <4>1
      <4>2. CASE i - 1 \in 1..j /\ wire'[i - 1] = wire[i]
        BY <3>2, <3>3, <4>2
      <4> QED
        BY <3>1, <3>3, <4>1, <4>2
    <3>4. \A x \in Sent(k) : \E i \in 1..k : x \in wire[i].rows
      BY <3>2
    <3> QED
      BY <3>3, <3>4
  <2> QED
    BY <2>1, <2>2
<1>5. got \cup Sent(0) \subseteq got' \cup Sent(0)'
  <2>1. CASE topic = "workspace"
    BY <1>3, <2>1 DEF Sent, OnWire
  <2>2. CASE topic # "workspace"
    BY <2>2 DEF Sent
  <2> QED
    BY <2>1, <2>2
<1> QED
  BY <1>1, <1>2, <1>3, <1>4, <1>5

LEMMA ReceiveStep ==
    ASSUME LiveInv, Receive
    PROVE  LiveInv'
<1> DEFINE m == wire[1]
<1> DEFINE M == [rows : SUBSET (1..counter), seq : 0..counter, over : BOOLEAN]
<1>0. /\ LiveShape /\ RowsAccounted /\ counter \in Nat /\ wire \in Seq(M) /\ last \in 0..counter
      /\ wire # <<>> /\ Len(wire) \in Nat \ {0} /\ 1 \in 1..Len(wire)
      /\ m \in M /\ Head(wire) = m
  <2>1. /\ LiveShape /\ RowsAccounted /\ counter \in Nat /\ wire \in Seq(M) /\ last \in 0..counter
        /\ wire # <<>>
    BY DEF LiveInv, LiveShape, Receive
  <2> HIDE DEF M
  <2>2. Len(wire) \in Nat \ {0}
    BY <2>1, EmptySeq
  <2>3. 1 \in 1..Len(wire) /\ Head(wire) = m
    BY <2>2
  <2> QED
    BY <2>1, <2>2, <2>3, ElementOfSeq
<1>1. /\ got' = got \cup m.rows /\ last' = Max({last, m.seq})
      /\ wire' = IF m.over THEN <<>> ELSE Tail(wire)
      /\ session' = IF m.over THEN "closed" ELSE session
      /\ UNCHANGED <<topic, counter, log, published, writing, over, tree, stored, excused>>
  BY <1>0 DEF Receive
<1>2. m.rows \subseteq 1..counter /\ m.seq \in 0..counter
  BY <1>0
<1>3. last' \in {last, m.seq} /\ last' >= last /\ last' >= m.seq
  <2>1. {last, m.seq} \in SUBSET (0..counter) /\ {last, m.seq} # {}
    BY <1>0, <1>2
  <2> QED
    BY <1>0, <1>1, <2>1, MaxIs
<1>4. \A s \in 1..last' : s \in 1..last \/ s \in 1..m.seq
  BY <1>3
<1>5. RowsAccounted'
  BY <1>0, <1>1 DEF RowsAccounted, Entry, Plan, Rest, InHand
<1>6. \A s : Late(s) => Late(s)'
  BY <1>1 DEF Late, InHand
<1>7. /\ \A s \in 1..last : Explained(s, 0)
      /\ \A i \in 1..Len(wire) : \A s \in 1..wire[i].seq : Explained(s, i)
  BY DEF LiveInv, CountsExplained
<1>8. CASE m.over
  <2>1. topic \notin Buffered /\ topic # "workspace"
    BY <1>0, <1>8 DEF LiveShape, Buffered
  <2>2. wire' = <<>> /\ Len(wire') = 0 /\ session' = "closed"
    BY <1>1, <1>8
  <2>3. LiveShape'
    <3>1. got' \subseteq 1..counter /\ last' \in 0..counter
      BY <1>0, <1>1, <1>2, <1>3 DEF LiveShape
    <3>2. wire' \in Seq(M)
      BY <2>2, EmptySeq
    <3> QED
      BY <1>0, <1>1, <2>1, <2>2, <3>1, <3>2 DEF LiveShape
  <2>4. Sent(0) = {} /\ Sent(1) = m.rows
    BY <2>1 DEF Sent
  <2>5. \A s \in 1..last' : Explained(s, 0)'
    <3>1. \A s : Explained(s, 0) \/ Explained(s, 1) => Explained(s, 0)'
      BY <1>1, <1>6, <2>4 DEF Explained
    <3> QED
      BY <1>0, <1>4, <1>7, <3>1
  <2> QED
    BY <1>5, <2>2, <2>3, <2>5 DEF LiveInv, CountsExplained, Connected
<1>9. CASE ~m.over
  <2>1. wire' = Tail(wire) /\ session' = session
    BY <1>1, <1>9
  <2> HIDE DEF M
  <2>2. /\ wire' \in Seq(M) /\ Len(wire') = Len(wire) - 1 /\ Len(wire) \in Nat \ {0}
        /\ \A i \in 1..Len(wire') : i + 1 \in 1..Len(wire) /\ wire'[i] = wire[i + 1]
        /\ \A i \in 1..Len(wire) : i = 1 \/ (i - 1 \in 1..Len(wire') /\ wire'[i - 1] = wire[i])
        /\ got \cup OnWire \subseteq got' \cup OnWire'
        /\ got \cup Sent(0) \subseteq got' \cup Sent(0)'
        /\ \A j \in 0..Len(wire') : \A k : k = j + 1 => got \cup Sent(k) \subseteq got' \cup Sent(j)'
    BY <1>0, <1>1, <2>1, Arrives
  <2>3. LiveShape'
    <3>1. session' # "reading"
      BY <1>0, <2>1 DEF LiveShape
    <3>2. topic \in Buffered => over' = "no" /\ \A i \in 1..Len(wire') : ~wire'[i].over
      BY <1>0, <1>1, <2>2 DEF LiveShape
    <3> QED
      BY <1>0, <1>1, <1>2, <1>3, <2>1, <2>2, <3>1, <3>2 DEF LiveShape, M
  <2>4. ASSUME NEW s, NEW j \in 0..Len(wire'), NEW k, k = j + 1, Explained(s, k) PROVE Explained(s, j)'
    BY <1>1, <1>6, <2>2, <2>4, ExplainedStays
  <2>5. ASSUME NEW s \in 1..last' PROVE Explained(s, 0)'
    <3>1. CASE s \in 1..last
      <4>1. Explained(s, 0)
        BY <1>7, <3>1
      <4> QED
        BY <1>1, <1>6, <2>2, <4>1, ExplainedStays
    <3>2. CASE s \in 1..m.seq
      <4>1. Explained(s, 1) /\ 0 \in 0..Len(wire') /\ 1 = 0 + 1
        BY <1>0, <1>7, <2>2, <3>2
      <4> QED
        BY <2>4, <4>1
    <3> QED
      BY <1>4, <2>5, <3>1, <3>2
  <2>6. ASSUME NEW i \in 1..Len(wire'), NEW s \in 1..wire'[i].seq PROVE Explained(s, i)'
    <3>1. i + 1 \in 1..Len(wire) /\ wire'[i] = wire[i + 1] /\ i \in 0..Len(wire')
      BY <2>2
    <3>2. Explained(s, i + 1)
      BY <1>7, <2>6, <3>1
    <3> QED
      BY <2>4, <3>1, <3>2
  <2>7. Connected'
    <3>1. SUFFICES ASSUME session \in {"read", "live"}
                   PROVE  /\ published \subseteq got' \cup OnWire' \cup excused
                          /\ over = "published" =>
                                End \in excused \/ \E i \in 1..Len(wire') : wire'[i].over
      BY <1>1, <2>1 DEF Connected
    <3>2. /\ published \subseteq got \cup OnWire \cup excused
          /\ over = "published" => End \in excused \/ \E i \in 1..Len(wire) : wire[i].over
      BY <3>1 DEF LiveInv, Connected
    <3>3. \A i \in 1..Len(wire) : wire[i].over => i - 1 \in 1..Len(wire') /\ wire'[i - 1] = wire[i]
      BY <1>9, <2>2
    <3> QED
      BY <2>2, <3>2, <3>3
  <2> QED
    BY <1>5, <2>3, <2>5, <2>6, <2>7 DEF LiveInv, CountsExplained
<1> QED
  BY <1>8, <1>9

\* What a snapshot that is not a workspace's sends
LEMMA SnapshotStep ==
    ASSUME LiveInv, SendSnapshot, topic # "workspace"
    PROVE  LiveInv'
<1> DEFINE m == [rows |-> Unseen, seq |-> Highest(Unseen), over |-> Terminal]
<1> DEFINE M == [rows : SUBSET (1..counter), seq : 0..counter, over : BOOLEAN]
<1>0. /\ LiveShape /\ RowsAccounted /\ counter \in Nat /\ wire \in Seq(M) /\ wire = <<>>
      /\ log \in Seq(1..counter) /\ last \in 0..counter
  BY DEF LiveInv, LiveShape, SendSnapshot
<1>1. /\ session' = "read" /\ tree' = 0 /\ wire' = Append(wire, m)
      /\ excused' = excused \cup (IF topic = "job" THEN published \ Range(log) ELSE {})
      /\ UNCHANGED <<topic, counter, log, published, writing, over, got, last, stored>>
  BY DEF SendSnapshot
<1>2. Unseen \subseteq 1..counter /\ Range(log) \subseteq 1..counter
  BY <1>0, RangeIn DEF Unseen
<1>3. /\ Highest(Unseen) \in 0..counter
      /\ Unseen # {} => Highest(Unseen) \in Unseen
      /\ Unseen = {} => Highest(Unseen) = 0
  <2>1. CASE Unseen = {}
    BY <1>0, <2>1 DEF Highest
  <2>2. CASE Unseen # {}
    <3>1. Unseen \in SUBSET (0..counter)
      BY <1>0, <1>2
    <3>2. Max(Unseen) \in Unseen
      BY <1>0, <2>2, <3>1, MaxIs
    <3> QED
      BY <2>2, <3>1, <3>2 DEF Highest
  <2> QED
    BY <2>1, <2>2
<1>4. /\ m \in M /\ m.rows = Unseen /\ m.seq = Highest(Unseen)
      /\ over = "no" => ~m.over
      /\ over # "no" => m.over
  BY <1>2, <1>3 DEF Terminal
<1> HIDE DEF m, M
<1>5. /\ wire' \in Seq(M) /\ Len(wire') = 1 /\ wire'[1] = m
      /\ OnWire' = Unseen /\ Sent(1)' = OnWire'
  <2>1. Len(wire) = 0 /\ OnWire = {}
    BY <1>0 DEF OnWire
  <2>2. /\ wire' \in Seq(M) /\ Len(wire') = Len(wire) + 1 /\ wire'[Len(wire) + 1] = m
        /\ OnWire' = OnWire \cup m.rows
        /\ \A j : j = Len(wire) + 1 => Sent(j)' = OnWire'
    BY <1>0, <1>1, <1>4, Broadcasts
  <2> QED
    BY <1>4, <2>1, <2>2
<1>6. LiveShape'
  <2>1. topic \in Buffered => over' = "no" /\ \A i \in 1..Len(wire') : ~wire'[i].over
    <3>1. \A i \in 1..Len(wire') : wire'[i] = m
      BY <1>5
    <3> QED
      BY <1>0, <1>1, <1>4, <3>1 DEF LiveShape
  <2> QED
    BY <1>0, <1>1, <1>5, <2>1 DEF LiveShape, M
<1>7. RowsAccounted'
  BY <1>0, <1>1 DEF RowsAccounted, Entry, Plan, Rest, InHand
<1>8. \A s : Late(s) => Late(s)'
  BY <1>1 DEF Late, InHand
<1>9. \A s \in 1..last : s \in got \cup excused \/ Late(s)
  <2>1. Sent(0) = {}
    BY DEF Sent
  <2> QED
    BY <2>1 DEF LiveInv, CountsExplained, Explained
<1>10. \A s \in 1..last' : Explained(s, 0)'
  BY <1>1, <1>8, <1>9 DEF Explained
<1>11. ASSUME NEW s \in 1..Highest(Unseen) PROVE Explained(s, 1)'
  <2>1. Highest(Unseen) \in Unseen /\ Highest(Unseen) \in Range(log) /\ Highest(Unseen) > last
    BY <1>3, <1>11 DEF Unseen
  <2>2. Highest(Unseen) \in stored /\ s \in 1..counter /\ s <= Highest(Unseen)
        /\ Highest(Unseen) \in Nat /\ s \in Nat /\ last \in Nat
    BY <1>0, <1>3, <1>11, <2>1 DEF RowsAccounted
  <2>3. CASE s <= last
    BY <1>1, <1>8, <1>9, <2>2, <2>3 DEF Explained
  <2>4. CASE s > last /\ s \in stored
    BY <1>0, <1>1, <1>5, <2>4 DEF RowsAccounted, Unseen, Explained
  <2>5. CASE s \notin stored /\ s \in InHand
    <3>1. Late(s)
      BY <2>2, <2>5 DEF Late
    <3> QED
      BY <1>8, <3>1 DEF Explained
  <2>6. CASE s \in excused
    BY <1>1, <2>6 DEF Explained
  <2>7. s \in InHand \/ s \in stored \/ s \in excused
    BY <1>0, <2>2 DEF RowsAccounted
  <2> QED
    BY <2>2, <2>3, <2>4, <2>5, <2>6, <2>7
<1>12. CountsExplained'
  BY <1>4, <1>5, <1>10, <1>11 DEF CountsExplained
<1>13. published \subseteq got \cup OnWire' \cup excused'
  <2>1. ASSUME NEW s \in published PROVE s \in got \cup OnWire' \cup excused'
    <3>1. s \in 1..counter /\ s \in Nat /\ last \in Nat
      BY <1>0 DEF LiveShape
    <3>2. CASE s \notin Range(log)
      BY <1>0, <1>1, <3>2 DEF RowsAccounted
    <3>3. CASE s \in Range(log) /\ s > last
      BY <1>5, <3>3 DEF Unseen
    <3>4. CASE s \in Range(log) /\ s <= last
      <4>1. s \in stored /\ ~Late(s)
        BY <1>0, <3>4 DEF RowsAccounted, Late
      <4>2. s \in 1..last
        BY <3>1, <3>4
      <4> QED
        BY <1>1, <1>9, <4>1, <4>2
    <3> QED
      BY <3>1, <3>2, <3>3, <3>4
  <2> QED
    BY <2>1
<1>14. Connected'
  <2>1. 1 \in 1..Len(wire') /\ (over' = "published" => wire'[1].over)
    BY <1>1, <1>4, <1>5
  <2> QED
    BY <1>1, <1>13, <2>1 DEF Connected
<1> QED
  BY <1>6, <1>7, <1>12, <1>14 DEF LiveInv

\* The replay of the buffer is a sequence of its unseen rows.
LEMMA ReplayIs ==
    ASSUME LiveInv, NEW replay \in InLogOrder(Unseen) \cup {<<>>}
    PROVE  replay \in Seq(1..counter) /\ Len(replay) \in Nat
           /\ Range(replay) = {replay[i] : i \in 1..Len(replay)}
<1>0. log \in Seq(1..counter) /\ counter \in Nat
  BY DEF LiveInv, LiveShape
<1>1. Unseen \subseteq 1..counter
  BY <1>0, RangeIn DEF Unseen
<1>2. Cardinality(Unseen) \in Nat
  <2>1. IsFiniteSet(1..counter)
    BY <1>0, FS_Interval
  <2>2. IsFiniteSet(Unseen)
    BY <1>1, <2>1, FS_Subset
  <2> QED
    BY <2>2, FS_CardinalityType
<1>3. CASE replay = <<>>
  BY <1>3, EmptySeq DEF Range
<1>4. CASE replay \in InLogOrder(Unseen)
  <2>1. replay \in [1..Cardinality(Unseen) -> 1..counter]
    BY <1>1, <1>4 DEF InLogOrder
  <2>2. replay \in Seq(1..counter)
    BY <1>2, <2>1, SeqDef
  <2> QED
    BY <2>2, LenProperties DEF Range
<1> QED
  BY <1>3, <1>4

\* A workspace's snapshot: its tree, and the rows behind it
LEMMA WorkspaceSnapshotStep ==
    ASSUME LiveInv, SendSnapshot, topic = "workspace"
    PROVE  LiveInv'
<1> DEFINE M == [rows : SUBSET (1..counter), seq : 0..counter, over : BOOLEAN]
<1> DEFINE m == [rows |-> 1..tree, seq |-> counter, over |-> FALSE]
<1>0. /\ LiveShape /\ RowsAccounted /\ counter \in Nat /\ wire \in Seq(M) /\ wire = <<>>
      /\ log \in Seq(1..counter) /\ last \in 0..counter /\ tree \in 0..counter
  BY DEF LiveInv, LiveShape, SendSnapshot
<1>1. PICK replay \in InLogOrder(Unseen) \cup {<<>>} :
         /\ wire' = wire \o WorkspaceMessages(replay)
         /\ excused' = excused \cup ((tree + 1..counter) \ Range(replay))
  BY DEF SendSnapshot
<1>2. /\ session' = "read" /\ tree' = 0
      /\ UNCHANGED <<topic, counter, log, published, writing, over, got, last, stored>>
  BY DEF SendSnapshot
<1>3. /\ replay \in Seq(1..counter) /\ Len(replay) \in Nat
      /\ Range(replay) = {replay[i] : i \in 1..Len(replay)}
      /\ \A i \in 1..Len(replay) : replay[i] \in 1..counter
  <2>1. /\ replay \in Seq(1..counter) /\ Len(replay) \in Nat
        /\ Range(replay) = {replay[i] : i \in 1..Len(replay)}
    BY <1>1, ReplayIs
  <2>2. \A i \in 1..Len(replay) : replay[i] \in 1..counter
    <3> HIDE DEF M, m
    <3> QED
      BY ONLY <2>1, ElementOfSeq
  <2> QED
    BY <2>1, <2>2
<1> DEFINE behind == [i \in 1..Len(replay) |-> [rows |-> {replay[i]}, seq |-> replay[i], over |-> FALSE]]
<1>4. behind \in [1..Len(replay) -> M]
  BY <1>3
<1>5. behind \in Seq(M) /\ Len(behind) = Len(replay)
  <2> HIDE DEF M, behind
  <2> QED
    BY <1>3, <1>4, SeqDef
<1>6. \A i \in 1..Len(replay) : /\ behind[i].rows = {replay[i]} /\ behind[i].seq = replay[i]
                               /\ ~behind[i].over
  OBVIOUS
<1>7. m \in M /\ m.rows = 1..tree /\ m.seq = counter /\ ~m.over
  BY <1>0
<1>8. wire' = <<m>> \o behind
  <2>1. WorkspaceMessages(replay) = <<m>> \o behind
    BY DEF WorkspaceMessages
  <2> HIDE DEF m, behind, M
  <2>2. <<m>> \o behind \in Seq(M)
    BY <1>5, <1>7, ConcatProperties
  <2> QED
    BY <1>0, <1>1, <2>1, <2>2, ConcatEmptySeq
<1> HIDE DEF m, behind, M
<1>9. /\ wire' \in Seq(M) /\ Len(wire') = 1 + Len(replay) /\ wire'[1] = m
      /\ \A i \in 1..Len(replay) : i + 1 \in 1..Len(wire') /\ wire'[i + 1] = behind[i]
      /\ \A i \in 1..Len(wire') : wire'[i] \in M
  <2>1. <<m>> \in Seq(M) /\ Len(<<m>>) = 1 /\ <<m>>[1] = m
    BY <1>7
  <2>2. /\ wire' \in Seq(M) /\ Len(wire') = 1 + Len(behind)
        /\ \A i \in 1..1 + Len(behind) : wire'[i] = IF i <= 1 THEN <<m>>[i] ELSE behind[i - 1]
    BY <1>5, <1>8, <2>1, ConcatProperties
  <2> QED
    BY <1>3, <1>5, <2>1, <2>2, ElementOfSeq
<1>10. \A i \in 1..Len(wire') : ~wire'[i].over
  <2> TAKE i \in 1..Len(wire')
  <2>1. CASE i = 1
    BY <1>7, <1>9, <2>1
  <2>2. CASE i # 1
    <3>1. i - 1 \in 1..Len(replay) /\ (i - 1) + 1 = i
      BY <1>3, <1>9, <2>2
    <3>2. wire'[i] = behind[i - 1]
      BY <1>9, <3>1
    <3> QED
      BY <1>6, <3>1, <3>2
  <2> QED
    BY <2>1, <2>2
<1>11. 1..tree \cup Range(replay) \subseteq OnWire'
  <2>1. 1 \in 1..Len(wire') /\ wire'[1].rows = 1..tree
    BY <1>3, <1>7, <1>9
  <2>2. ASSUME NEW x \in 1..tree PROVE x \in OnWire'
    BY <2>1, <2>2 DEF OnWire
  <2>3. ASSUME NEW x \in Range(replay) PROVE x \in OnWire'
    <3>1. PICK i \in 1..Len(replay) : x = replay[i]
      BY <1>3, <2>3
    <3>2. i + 1 \in 1..Len(wire') /\ x \in wire'[i + 1].rows
      BY <1>6, <1>9, <3>1
    <3> QED
      BY <3>2 DEF OnWire
  <2> QED
    BY <2>2, <2>3
<1>12. \A s \in 1..counter : s \in OnWire' \cup excused'
  BY <1>0, <1>1, <1>11
<1>13. LiveShape'
  BY <1>0, <1>2, <1>9, <1>10 DEF LiveShape, M
<1>14. RowsAccounted'
  BY <1>0, <1>1, <1>2 DEF RowsAccounted, Entry, Plan, Rest, InHand
<1>15. \A j : Sent(j)' = OnWire'
  BY <1>2 DEF Sent, OnWire
<1>16. CountsExplained'
  <2>1. \A s \in 1..counter : \A j : Explained(s, j)'
    BY <1>12, <1>15 DEF Explained
  <2>2. ASSUME NEW s \in 1..last' PROVE Explained(s, 0)'
    <3>1. s \in 1..counter
      BY <1>0, <1>2
    <3> QED
      BY <2>1, <3>1
  <2>3. ASSUME NEW i \in 1..Len(wire'), NEW s \in 1..wire'[i].seq PROVE Explained(s, i)'
    <3>1. wire'[i].seq \in 0..counter
      BY <1>9 DEF M
    <3>2. s \in 1..counter
      BY <1>0, <3>1
    <3> QED
      BY <2>1, <3>2
  <2> QED
    BY <2>2, <2>3 DEF CountsExplained
<1>17. Connected'
  BY <1>0, <1>2, <1>12 DEF Connected, LiveShape, Buffered
<1> QED
  BY <1>13, <1>14, <1>16, <1>17 DEF LiveInv

LEMMA LiveStep ==
    ASSUME LiveInv, [LiveNext]_liveVars
    PROVE  LiveInv'
<1>1. CASE UNCHANGED liveVars
  BY <1>1, Unmoved DEF liveVars
<1>2. ASSUME NEW w \in writing, Store(w) \/ Publish(w) \/ Dies(w) PROVE LiveInv'
  BY <1>2, StoreStep, PublishStep, DiesStep
<1> QED
  BY <1>1, <1>2, NumberStep, EndStep, OpenStep, SnapshotStep, WorkspaceSnapshotStep, ReceiveStep,
     DropStep DEF LiveNext

\* On all four topics, with any number of emitters that write out of turn or die, and however
\* often the client comes back: no row it counts up to is missing without one of the named
\* causes, and a connected client is told of the end.
THEOREM ClientStaysCaughtUp == LiveSpec => []ClientCaughtUp
<1>1. LiveInv /\ [LiveNext]_liveVars => LiveInv'
  BY LiveStep
<1>2. LiveInv => ClientCaughtUp
  <2>1. Sent(0) \subseteq OnWire
    BY DEF Sent, OnWire
  <2>2. LiveInv => HolesExplained
    BY <2>1 DEF LiveInv, CountsExplained, Explained, Late, HolesExplained
  <2>3. ASSUME LiveInv, session = "live", over = "published", wire = <<>> PROVE End \in excused
    <3>1. Len(wire) = 0
      BY <2>3
    <3> QED
      BY <2>3, <3>1 DEF LiveInv, Connected
  <2> QED
    BY <2>2, <2>3 DEF ClientCaughtUp, EndHeard
<1> QED
  BY <1>1, <1>2, LiveStarts, PTL DEF LiveSpec

-----------------------------------------------------------------------------
(* A secret on its way to the kernels. *)

AnyEnv == [secret : Nat, variable : Nat]

\* An announcement that the listener has not taken yet
Announcing == (\E a \in Admin : ToAnnounce(a)) \/ listener.inbox > 0

\* What EnvsSettle asks of the environment of a process
Fresh(e) == e.secret = secret.change /\ e.variable >= secret.beside

\* The listener has yet to read the environment for s, or has read one that is good.
Coming(s) == s \in listener.todo /\ \A r \in listener.read : r.of = s => Fresh(r.env)

RefreshQueued(s) == \E i \in 1..Len(kernel[s].queue) : kernel[s].queue[i] = "refresh"

EnvShape ==
    /\ secret \in [row : Nat, change : Nat, beside : Nat] /\ variable \in Nat
    /\ edit \in [Admin -> [pc : {"new", "looked", "committed", "done"},
                           op : {"upsert", "delete"}, row : Nat]]
    /\ listener \in [subscribed : BOOLEAN, inbox : Nat, todo : SUBSET EnvSession,
                     read : SUBSET [of : EnvSession, env : AnyEnv]]
    /\ kernel \in [EnvSession -> [pc : {"none", "resolved", "live"}, env : AnyEnv, proc : AnyEnv,
                                  queue : Seq({"refresh", "restart"}),
                                  worker : {"wait", "respawn", "ended"}]]
    /\ listener.todo \subseteq Table /\ \A r \in listener.read : r.of \in listener.todo

\* The attribute of a session is good, will be made so, or an announcement is on its way;
\* what the listener has read is good or another announcement is on its way.
Told ==
    /\ variable >= secret.beside
    /\ \A s \in Resolved \ missed : Announcing \/ Coming(s) \/ Fresh(kernel[s].env)
    /\ \A r \in listener.read : r.of \in missed \/ Announcing \/ Fresh(r.env)

\* A process that lacks the attribute will be started anew.
Due(s) == kernel[s].proc = kernel[s].env \/ kernel[s].worker # "wait" \/ RefreshQueued(s)

EnvInv == EnvShape /\ Told /\ \A s \in Table : Due(s)

LEMMA EnvStarts == EnvInit => EnvInv
<1> SUFFICES ASSUME EnvInit PROVE EnvInv
  OBVIOUS
<1>1. <<>> \in Seq({"refresh", "restart"})
  OBVIOUS
<1>2. NoEnv \in AnyEnv
  BY DEF NoEnv, AnyEnv
<1>3. EnvShape
  BY <1>1, <1>2 DEF EnvInit, EnvShape, NoSecret, NoEnvSession, Table
<1>4. Resolved = {} /\ Table = {}
  BY DEF EnvInit, Resolved, Table, NoEnvSession
<1>5. Told
  BY <1>4 DEF EnvInit, Told
<1> QED
  BY <1>3, <1>4, <1>5 DEF EnvInv

\* The API and the connection of the listener do not touch the sessions.
LEMMA SessionsRest ==
    ASSUME EnvInv, UNCHANGED kernel
    PROVE  /\ Resolved' = Resolved /\ Table' = Table
           /\ \A s \in Table' : Due(s)'
BY DEF EnvInv, Resolved, Table, Due, RefreshQueued

LEMMA EditStep ==
    ASSUME EnvInv, NEW a \in Admin,
           (\E op \in {"upsert", "delete"} : LookUp(a, op)) \/ CommitSecret(a)
    PROVE  EnvInv'
<1>0. UNCHANGED kernel /\ UNCHANGED listener /\ UNCHANGED missed /\ UNCHANGED variable
  BY DEF LookUp, CommitSecret
<1>1. Resolved' = Resolved /\ Table' = Table /\ \A s \in Table' : Due(s)'
  BY <1>0, SessionsRest
<1>2. EnvShape'
  <2>1. CASE \E op \in {"upsert", "delete"} : LookUp(a, op)
    BY <1>0, <1>1, <2>1 DEF EnvInv, EnvShape, LookUp, NoSecret
  <2>2. CASE CommitSecret(a)
    BY <1>0, <1>1, <2>2 DEF EnvInv, EnvShape, CommitSecret, AdminAt, NoSecret
  <2> QED
    BY <2>1, <2>2
<1>3. CASE UNCHANGED secret
  <2>1. \A b \in Admin : ToAnnounce(b) => ToAnnounce(b)'
    BY <1>0 DEF EnvInv, EnvShape, LookUp, CommitSecret, AdminAt, ToAnnounce
  <2>2. Announcing => Announcing'
    BY <1>0, <2>1 DEF Announcing
  <2>3. Told'
    BY <1>0, <1>1, <1>3, <2>2 DEF EnvInv, Told, Coming, Fresh
  <2> QED
    BY <1>1, <1>2, <2>3 DEF EnvInv
<1>4. CASE secret' # secret
  <2>1. ToAnnounce(a)' /\ variable >= secret'.beside
    BY <1>0, <1>4 DEF EnvInv, EnvShape, Told, LookUp, CommitSecret, AdminAt, ToAnnounce
  <2>2. Announcing'
    BY <2>1 DEF Announcing
  <2>3. Told'
    BY <1>0, <2>1, <2>2 DEF Told
  <2> QED
    BY <1>1, <1>2, <2>3 DEF EnvInv
<1> QED
  BY <1>3, <1>4

LEMMA AnnounceStep ==
    ASSUME EnvInv, NEW a \in Admin, Announce(a) \/ AnnounceFails(a)
    PROVE  EnvInv'
<1>0. UNCHANGED kernel /\ UNCHANGED variable /\ UNCHANGED secret
  BY DEF Announce, AnnounceFails
<1>1. Resolved' = Resolved /\ Table' = Table /\ \A s \in Table' : Due(s)'
  BY <1>0, SessionsRest
<1>2. EnvShape'
  <2>1. edit' \in [Admin -> [pc : {"new", "looked", "committed", "done"},
                            op : {"upsert", "delete"}, row : Nat]]
    <3> DEFINE E == [pc : {"new", "looked", "committed", "done"},
                     op : {"upsert", "delete"}, row : Nat]
    <3> DEFINE e == [edit[a] EXCEPT !.pc = "done"]
    <3>1. edit \in [Admin -> E]
      BY DEF EnvInv, EnvShape
    <3>2. e \in E
      BY <3>1
    <3>3. edit' = [edit EXCEPT ![a] = e]
      BY DEF Announce, AnnounceFails, AdminAt
    <3> HIDE DEF E, e
    <3>4. edit' \in [Admin -> E]
      BY <3>1, <3>2, <3>3
    <3> QED
      BY <3>4 DEF E
  <2>2. /\ listener' \in [subscribed : BOOLEAN, inbox : Nat, todo : SUBSET EnvSession,
                          read : SUBSET [of : EnvSession, env : AnyEnv]]
        /\ listener'.todo = listener.todo /\ listener'.read = listener.read
    <3>0. listener \in [subscribed : BOOLEAN, inbox : Nat, todo : SUBSET EnvSession,
                        read : SUBSET [of : EnvSession, env : AnyEnv]]
      BY DEF EnvInv, EnvShape
    <3>1. CASE UNCHANGED listener
      BY <3>0, <3>1
    <3>2. CASE listener' = [listener EXCEPT !.inbox = @ + 1]
      BY <3>0, <3>2
    <3> QED
      BY <3>1, <3>2 DEF Announce, AnnounceFails
  <2> QED
    BY <1>0, <1>1, <2>1, <2>2 DEF EnvInv, EnvShape
<1>3. listener'.todo = listener.todo /\ listener'.read = listener.read
  BY DEF EnvInv, EnvShape, Announce, AnnounceFails
<1>4. (listener'.inbox > 0 /\ missed' = missed) \/ missed' = missed \cup Resolved
  BY DEF EnvInv, EnvShape, Announce, AnnounceFails
<1>5. \A r \in listener.read : r.of \in Resolved
  BY DEF EnvInv, EnvShape, Resolved, Table
<1>6. Told'
  BY <1>0, <1>1, <1>3, <1>4, <1>5 DEF EnvInv, Told, Coming, Fresh, Announcing
<1> QED
  BY <1>1, <1>2, <1>6 DEF EnvInv

LEMMA ListenerStep ==
    ASSUME EnvInv,
           SetVariable \/ ListenerSubscribes \/ ConnectionBreaks \/ TakeEvent
             \/ \E s \in EnvSession : ReadEnv(s) \/ ReadEnvFails(s)
    PROVE  EnvInv'
<1> DEFINE L == [subscribed : BOOLEAN, inbox : Nat, todo : SUBSET EnvSession,
                 read : SUBSET [of : EnvSession, env : AnyEnv]]
<1>0. UNCHANGED kernel /\ UNCHANGED edit /\ UNCHANGED secret
  BY DEF SetVariable, ListenerSubscribes, ConnectionBreaks, TakeEvent, ReadEnv, ReadEnvFails
<1>1. Resolved' = Resolved /\ Table' = Table /\ \A s \in Table' : Due(s)'
  BY <1>0, SessionsRest
<1>2. \A a \in Admin : ToAnnounce(a)' = ToAnnounce(a)
  BY <1>0 DEF ToAnnounce
<1>3. /\ EnvShape /\ Told /\ listener \in L /\ variable \in Nat /\ secret.change \in Nat
      /\ secret.beside \in Nat /\ secret \in [row : Nat, change : Nat, beside : Nat]
      /\ Table \subseteq EnvSession /\ Table \subseteq Resolved
  BY DEF EnvInv, EnvShape, Table, Resolved
<1>4. CurrentEnv \in AnyEnv /\ Fresh(CurrentEnv)
  BY <1>3 DEF CurrentEnv, AnyEnv, Told, Fresh
<1>5. SUFFICES EnvShape' /\ Told'
  BY <1>1 DEF EnvInv
<1>6. CASE SetVariable
  <2>1. /\ variable' \in Nat /\ variable' >= variable /\ listener' = listener /\ missed' = missed
    BY <1>3, <1>6 DEF SetVariable
  <2>2. EnvShape'
    BY <1>0, <1>1, <2>1 DEF EnvInv, EnvShape
  <2>3. Told'
    BY <1>0, <1>1, <1>2, <1>3, <2>1 DEF Told, Coming, Fresh, Announcing
  <2> QED
    BY <2>2, <2>3
<1>7. CASE ListenerSubscribes
  <2>1. /\ listener' \in L /\ listener'.inbox = listener.inbox /\ listener'.todo = listener.todo
        /\ listener'.read = listener.read /\ variable' = variable /\ missed' = missed
    BY <1>3, <1>7 DEF ListenerSubscribes
  <2>2. EnvShape'
    BY <1>0, <1>1, <2>1 DEF EnvInv, EnvShape
  <2>3. Told'
    BY <1>0, <1>1, <1>2, <1>3, <2>1 DEF Told, Coming, Fresh, Announcing
  <2> QED
    BY <2>2, <2>3
<1>8. CASE ConnectionBreaks
  <2>1. /\ listener' \in L /\ listener'.inbox = 0 /\ listener'.todo = listener.todo
        /\ listener'.read = listener.read /\ variable' = variable
    BY <1>3, <1>8 DEF ConnectionBreaks
  <2>2. missed' = missed \cup Resolved \/ (missed' = missed /\ ~(listener.inbox > 0))
    BY <1>8 DEF ConnectionBreaks
  <2>3. EnvShape'
    BY <1>0, <1>1, <2>1 DEF EnvInv, EnvShape
  <2>4. \A r \in listener.read : r.of \in Resolved
    BY <1>3 DEF EnvShape
  <2>5. Told'
    BY <1>0, <1>1, <1>2, <1>3, <2>1, <2>2, <2>4 DEF Told, Coming, Fresh, Announcing
  <2> QED
    BY <2>3, <2>5
<1>9. CASE TakeEvent
  <2>1. /\ listener' \in L /\ listener'.todo = Table /\ listener'.read = listener.read
        /\ variable' = variable
    <3>1. listener' = [listener EXCEPT !.inbox = listener.inbox - 1, !.todo = Table]
          /\ listener.inbox > 0 /\ variable' = variable
      BY <1>9 DEF TakeEvent
    <3>2. listener.inbox - 1 \in Nat
      BY <1>3, <3>1
    <3> QED
      BY <1>3, <3>1, <3>2
  <2>2. listener.read = {}
    BY <1>3, <1>9 DEF EnvShape, TakeEvent
  <2>3. \A s \in Table : Coming(s)'
    BY <2>1, <2>2 DEF Coming
  <2>4. missed' = missed \cup (Resolved \ Table)
    BY <1>9 DEF TakeEvent
  <2>5. EnvShape'
    BY <1>0, <1>1, <1>3, <2>1, <2>2 DEF EnvShape
  <2>6. Told'
    BY <1>0, <1>1, <1>3, <2>1, <2>2, <2>3, <2>4 DEF Told
  <2> QED
    BY <2>5, <2>6
<1>10. ASSUME NEW s \in EnvSession, ReadEnv(s) PROVE EnvShape' /\ Told'
  <2>0. PICK e : e = CurrentEnv
    OBVIOUS
  <2> DEFINE r == [of |-> s, env |-> e]
  <2>1. r \in [of : EnvSession, env : AnyEnv] /\ r.of = s /\ r.env = e
    BY <1>4, <2>0
  <2> HIDE DEF r
  <2>2. /\ listener' \in L /\ listener'.inbox = listener.inbox /\ listener'.todo = listener.todo
        /\ listener'.read = {r} /\ variable' = variable /\ missed' = missed
    BY <1>3, <1>10, <2>0, <2>1 DEF ReadEnv, r
  <2>3. s \in listener.todo /\ listener.read = {}
    BY <1>10 DEF ReadEnv, Turn
  <2>4. Fresh(e)'
    BY <1>0, <1>4, <2>0, <2>1, <2>2 DEF Fresh
  <2>5. Announcing' = Announcing
    BY <1>2, <2>2 DEF Announcing
  <2>6. EnvShape'
    BY <1>0, <1>1, <1>3, <2>1, <2>2, <2>3 DEF EnvShape
  <2>7. \A t \in Resolved \ missed : Announcing' \/ Coming(t)' \/ Fresh(kernel[t].env)'
    BY <1>0, <1>3, <2>1, <2>2, <2>3, <2>4, <2>5 DEF Told, Coming, Fresh
  <2>8. Told'
    BY <1>0, <1>1, <1>3, <2>1, <2>2, <2>4, <2>7 DEF Told
  <2> QED
    BY <2>6, <2>8
<1>11. ASSUME NEW s \in EnvSession, ReadEnvFails(s) PROVE EnvShape' /\ Told'
  <2>1. /\ listener' \in L /\ listener'.inbox = listener.inbox
        /\ listener'.todo = listener.todo \ {s}
        /\ listener'.read = listener.read /\ variable' = variable /\ missed' = missed \cup {s}
    BY <1>3, <1>11 DEF ReadEnvFails
  <2>2. listener.read = {}
    BY <1>11 DEF ReadEnvFails, Turn
  <2>3. EnvShape'
    BY <1>0, <1>1, <1>3, <2>1, <2>2 DEF EnvShape
  <2>4. Told'
    BY <1>0, <1>1, <1>2, <1>3, <2>1, <2>2 DEF Told, Coming, Fresh, Announcing
  <2> QED
    BY <2>3, <2>4
<1> QED
  BY <1>6, <1>7, <1>8, <1>9, <1>10, <1>11

LEMMA QueueRefreshStep ==
    ASSUME EnvInv, QueueRefresh
    PROVE  EnvInv'
<1>1. PICK r \in listener.read :
        /\ kernel' = [kernel EXCEPT ![r.of].env = r.env, ![r.of].queue = Append(@, "refresh")]
        /\ listener' = [listener EXCEPT !.todo = @ \ {r.of}, !.read = {}]
        /\ UNCHANGED <<secret, variable, edit, missed, restarts, mishaps>>
  BY DEF QueueRefresh
<1>2. EnvShape /\ Told /\ r.of \in EnvSession /\ r.env \in AnyEnv /\ r.of \in Table
  BY DEF EnvInv, EnvShape
<1>3. /\ listener' \in [subscribed : BOOLEAN, inbox : Nat, todo : SUBSET EnvSession,
                        read : SUBSET [of : EnvSession, env : AnyEnv]]
      /\ listener'.inbox = listener.inbox /\ listener'.read = {}
      /\ listener'.todo = listener.todo \ {r.of}
  BY <1>1, <1>2 DEF EnvShape
<1> DEFINE q == Append(kernel[r.of].queue, "refresh")
<1>4. /\ q \in Seq({"refresh", "restart"}) /\ \E i \in 1..Len(q) : q[i] = "refresh"
  <2>1. kernel[r.of].queue \in Seq({"refresh", "restart"})
    BY <1>2 DEF EnvShape
  <2>2. Len(kernel[r.of].queue) \in Nat /\ Len(q) = Len(kernel[r.of].queue) + 1
        /\ q[Len(kernel[r.of].queue) + 1] = "refresh"
    BY <2>1
  <2> QED
    BY <2>1, <2>2
<1> HIDE DEF q
<1>5. /\ kernel' \in [EnvSession -> [pc : {"none", "resolved", "live"}, env : AnyEnv, proc : AnyEnv,
                                  queue : Seq({"refresh", "restart"}),
                                  worker : {"wait", "respawn", "ended"}]]
      /\ \A t \in EnvSession : kernel'[t].pc = kernel[t].pc
      /\ \A t \in EnvSession : t # r.of => kernel'[t] = kernel[t]
      /\ kernel'[r.of].env = r.env /\ kernel'[r.of].queue = q
  <2> DEFINE K == [pc : {"none", "resolved", "live"}, env : AnyEnv, proc : AnyEnv,
                   queue : Seq({"refresh", "restart"}), worker : {"wait", "respawn", "ended"}]
  <2>1. kernel \in [EnvSession -> K]
    BY <1>2 DEF EnvShape
  <2>2. kernel' = [kernel EXCEPT ![r.of] = [kernel[r.of] EXCEPT !.env = r.env, !.queue = q]]
    BY <1>1, <1>2, <2>1 DEF q
  <2>3. [kernel[r.of] EXCEPT !.env = r.env, !.queue = q] \in K
    BY ZenonT(60), <1>2, <1>4, <2>1
  <2> HIDE DEF K
  <2>4. kernel' \in [EnvSession -> K]
    BY <1>2, <2>1, <2>2, <2>3
  <2>5. /\ \A t \in EnvSession : t # r.of => kernel'[t] = kernel[t]
        /\ kernel'[r.of] = [kernel[r.of] EXCEPT !.env = r.env, !.queue = q]
    BY <1>2, <2>1, <2>2
  <2> USE DEF K
  <2>6. kernel'[r.of].pc = kernel[r.of].pc /\ kernel'[r.of].env = r.env /\ kernel'[r.of].queue = q
    BY <1>2, <2>1, <2>5
  <2> QED
    BY <2>4, <2>5, <2>6
<1>6. Table' = Table /\ Resolved' = Resolved
  BY <1>5 DEF Table, Resolved
<1>7. EnvShape'
  BY <1>1, <1>2, <1>3, <1>5, <1>6 DEF EnvShape
<1>8. Announcing' = Announcing
  BY <1>1, <1>3 DEF Announcing, ToAnnounce
<1>9. Told'
  <2>1. ASSUME NEW s \in Resolved' \ missed'
        PROVE  Announcing' \/ Coming(s)' \/ Fresh(kernel[s].env)'
    <3>1. CASE s = r.of
      BY <1>1, <1>2, <1>5, <1>6, <1>8, <2>1, <3>1 DEF Told, Fresh
    <3>2. CASE s # r.of
      <4>1. s \in EnvSession /\ kernel'[s] = kernel[s]
        BY <1>5, <1>6, <2>1, <3>2 DEF Resolved
      <4> QED
        BY <1>1, <1>2, <1>3, <1>6, <1>8, <2>1, <3>2, <4>1 DEF Told, Coming, Fresh
    <3> QED
      BY <3>1, <3>2
  <2> QED
    BY <1>1, <1>2, <1>3, <2>1 DEF Told
<1>10. ASSUME NEW s \in Table' PROVE Due(s)'
  <2>1. CASE s = r.of
    BY <1>4, <1>5, <2>1 DEF Due, RefreshQueued
  <2>2. CASE s # r.of
    <3>1. s \in EnvSession /\ kernel'[s] = kernel[s] /\ s \in Table
      BY <1>5, <1>6, <1>10, <2>2 DEF Table
    <3> QED
      BY <3>1 DEF EnvInv, Due, RefreshQueued
  <2> QED
    BY <2>1, <2>2
<1> QED
  BY SMTT(30), <1>7, <1>9, <1>10 DEF EnvInv

\* A step of one session that keeps what it was told, and its process due when it was
LEMMA OwnStep ==
    ASSUME EnvInv, NEW s \in EnvSession, NEW k,
           k \in [pc : {"none", "resolved", "live"}, env : AnyEnv, proc : AnyEnv,
                  queue : Seq({"refresh", "restart"}), worker : {"wait", "respawn", "ended"}],
           kernel' = [kernel EXCEPT ![s] = k],
           UNCHANGED <<secret, variable, edit, listener, missed>>,
           s \in Table => k.pc = "live",
           IF s \in Resolved THEN k.env = kernel[s].env ELSE k.pc = "none" \/ Fresh(k.env),
           k.pc = "live" => \/ k.proc = k.env \/ k.worker # "wait"
                            \/ \E i \in 1..Len(k.queue) : k.queue[i] = "refresh"
    PROVE  EnvInv'
<1> DEFINE K == [pc : {"none", "resolved", "live"}, env : AnyEnv, proc : AnyEnv,
                 queue : Seq({"refresh", "restart"}), worker : {"wait", "respawn", "ended"}]
<1>1. kernel \in [EnvSession -> K] /\ EnvShape /\ Told
  BY DEF EnvInv, EnvShape
<1>2. k \in K
  OBVIOUS
<1>3. kernel' \in [EnvSession -> K]
  <2> HIDE DEF K
  <2> QED
    BY <1>1, <1>2
<1>4. kernel'[s] = k /\ \A t \in EnvSession : t # s => kernel'[t] = kernel[t]
  <2> HIDE DEF K
  <2> QED
    BY <1>1
<1>5. Table \subseteq Table'
  BY <1>4 DEF Table
<1>6. EnvShape'
  BY <1>1, <1>3, <1>5 DEF EnvShape
<1>7. Told'
  <2>1. ASSUME NEW t \in Resolved' \ missed'
        PROVE  Announcing' \/ Coming(t)' \/ Fresh(kernel[t].env)'
    <3>1. t \in EnvSession
      BY <2>1 DEF Resolved
    <3>2. CASE t \in Resolved
      <4>1. kernel'[t].env = kernel[t].env
        BY <1>4, <3>1, <3>2
      <4> QED
        BY <1>1, <2>1, <3>2, <4>1 DEF Told, Announcing, ToAnnounce, Coming, Fresh
    <3>3. CASE t \notin Resolved
      <4>1. t = s /\ k.pc # "none"
        BY <1>4, <2>1, <3>1, <3>3 DEF Resolved
      <4> QED
        BY <1>4, <3>3, <4>1 DEF Fresh
    <3> QED
      BY <3>2, <3>3
  <2>2. \A r \in listener'.read : r.of \in missed' \/ Announcing' \/ Fresh(r.env)'
    BY <1>1 DEF Told, Announcing, ToAnnounce, Fresh
  <2> QED
    BY <1>1, <2>1, <2>2 DEF Told
<1>8. ASSUME NEW t \in Table' PROVE Due(t)'
  <2>1. t \in EnvSession
    BY <1>8 DEF Table
  <2>2. CASE t = s
    BY <1>4, <1>8, <2>2 DEF Table, Due, RefreshQueued
  <2>3. CASE t # s
    BY <1>4, <1>8, <2>1, <2>3 DEF EnvInv, Table, Due, RefreshQueued
  <2> QED
    BY <2>2, <2>3
<1> QED
  BY <1>6, <1>7, <1>8 DEF EnvInv

LEMMA SessionStep ==
    ASSUME EnvInv, NEW s \in EnvSession,
           \/ ResolveAtStart(s) \/ RegisterSession(s) \/ AskRestart(s)
           \/ TakeRestart(s) \/ TakeRefresh(s) \/ Respawn(s) \/ RespawnFails(s)
    PROVE  EnvInv'
<1> DEFINE K == [pc : {"none", "resolved", "live"}, env : AnyEnv, proc : AnyEnv,
                 queue : Seq({"refresh", "restart"}), worker : {"wait", "respawn", "ended"}]
<1> DEFINE k == kernel[s]
<1>0. /\ UNCHANGED <<secret, variable, edit, listener, missed>>
      /\ EnvShape /\ Told /\ kernel \in [EnvSession -> K] /\ k \in K
  BY DEF ResolveAtStart, RegisterSession, AskRestart, TakeRestart, TakeRefresh, Respawn,
         RespawnFails, EnvInv, EnvShape
<1>1. s \in Table => Due(s)
  BY DEF EnvInv
<1>2. /\ s \in Table <=> k.pc = "live"
      /\ s \in Resolved <=> k.pc # "none"
  BY DEF Table, Resolved
<1>3. k.queue \in Seq({"refresh", "restart"})
  BY <1>0
<1>4. CurrentEnv \in AnyEnv /\ Fresh(CurrentEnv)
  BY <1>0 DEF EnvShape, CurrentEnv, AnyEnv, Told, Fresh
<1>5. CASE ResolveAtStart(s)
  <2> DEFINE n == [k EXCEPT !.pc = "resolved", !.env = CurrentEnv]
  <2>1. n \in K /\ n.pc = "resolved" /\ n.env = CurrentEnv
    BY <1>0, <1>4
  <2>2. kernel' = [kernel EXCEPT ![s] = n] /\ k.pc = "none"
    BY <1>0, <1>5 DEF ResolveAtStart
  <2> HIDE DEF n
  <2> QED
    BY <1>0, <1>2, <1>4, <2>1, <2>2, OwnStep
<1>6. CASE RegisterSession(s)
  <2> DEFINE n == [k EXCEPT !.pc = "live", !.proc = k.env]
  <2>1. n \in K /\ n.pc = "live" /\ n.env = k.env /\ n.proc = k.env
    BY <1>0
  <2>2. kernel' = [kernel EXCEPT ![s] = n] /\ k.pc = "resolved"
    BY <1>0, <1>6 DEF RegisterSession
  <2> HIDE DEF n
  <2> QED
    BY <1>0, <1>2, <2>1, <2>2, OwnStep
<1>7. CASE AskRestart(s)
  <2> DEFINE q == Append(k.queue, "restart")
  <2>1. q \in Seq({"refresh", "restart"}) /\ Len(q) = Len(k.queue) + 1 /\ Len(k.queue) \in Nat
        /\ \A i \in 1..Len(k.queue) : q[i] = k.queue[i]
    BY <1>3
  <2>2. \A i \in 1..Len(k.queue) : i \in 1..Len(q)
    BY <2>1
  <2> HIDE DEF q
  <2> DEFINE n == [k EXCEPT !.queue = q]
  <2>3. n \in K /\ n.pc = k.pc /\ n.env = k.env /\ n.proc = k.proc /\ n.worker = k.worker
        /\ n.queue = q
    BY <1>0, <2>1
  <2>4. kernel' = [kernel EXCEPT ![s] = n] /\ k.pc = "live"
    BY <1>0, <1>7 DEF AskRestart, q
  <2>5. \/ n.proc = n.env \/ n.worker # "wait"
        \/ \E i \in 1..Len(n.queue) : n.queue[i] = "refresh"
    BY <1>1, <1>2, <2>1, <2>2, <2>3, <2>4 DEF Due, RefreshQueued
  <2> HIDE DEF n
  <2> QED
    BY <1>0, <1>2, <2>3, <2>4, <2>5, OwnStep
<1>8. CASE TakeRestart(s)
  <2> DEFINE q == Tail(k.queue)
  <2>1. k.queue # <<>> /\ k.queue[1] = "restart" /\ k.worker = "wait"
    BY <1>8 DEF TakeRestart, Takes
  <2>2. q \in Seq({"refresh", "restart"}) /\ Len(q) = Len(k.queue) - 1 /\ Len(k.queue) \in Nat
        /\ \A i \in 1..Len(q) : q[i] = k.queue[i + 1]
    BY <1>3, <2>1
  <2>3. \A i \in 1..Len(k.queue) : i # 1 => i - 1 \in 1..Len(q) /\ q[i - 1] = k.queue[i]
    BY <2>2
  <2> HIDE DEF q
  <2> DEFINE n == [k EXCEPT !.queue = q]
  <2>4. n \in K /\ n.pc = k.pc /\ n.env = k.env /\ n.proc = k.proc /\ n.worker = k.worker
        /\ n.queue = q
    BY <1>0, <2>2
  <2>5. kernel' = [kernel EXCEPT ![s] = n]
    BY <1>0, <1>8 DEF TakeRestart, q
  <2>6. k.pc = "live" => \/ n.proc = n.env \/ n.worker # "wait"
                         \/ \E i \in 1..Len(n.queue) : n.queue[i] = "refresh"
    BY <1>1, <1>2, <2>1, <2>3, <2>4 DEF Due, RefreshQueued
  <2> HIDE DEF n
  <2> QED
    BY <1>0, <1>2, <2>4, <2>5, <2>6, OwnStep
<1>9. CASE TakeRefresh(s)
  <2> DEFINE q == Tail(k.queue)
  <2>1. k.queue # <<>>
    BY <1>9 DEF TakeRefresh, Takes
  <2>2. q \in Seq({"refresh", "restart"})
    BY <1>3, <2>1
  <2> HIDE DEF q
  <2> DEFINE n == [k EXCEPT !.queue = q, !.worker = "respawn"]
  <2>3. n \in K /\ n.pc = k.pc /\ n.env = k.env /\ n.worker = "respawn"
    BY <1>0, <2>2
  <2>4. kernel' = [kernel EXCEPT ![s] = n]
    BY <1>0, <1>9 DEF TakeRefresh, q
  <2> HIDE DEF n
  <2> QED
    BY <1>0, <1>2, <2>3, <2>4, OwnStep
<1>10. CASE Respawn(s)
  <2> DEFINE n == [k EXCEPT !.proc = k.env, !.worker = "wait"]
  <2>1. n \in K /\ n.pc = k.pc /\ n.env = k.env /\ n.proc = k.env
    BY <1>0
  <2>2. kernel' = [kernel EXCEPT ![s] = n]
    BY <1>0, <1>10 DEF Respawn, RespawnEnv
  <2> HIDE DEF n
  <2> QED
    BY <1>0, <1>2, <2>1, <2>2, OwnStep
<1>11. CASE RespawnFails(s)
  <2> DEFINE n == [k EXCEPT !.worker = "ended"]
  <2>1. n \in K /\ n.pc = k.pc /\ n.env = k.env /\ n.worker = "ended"
    BY <1>0
  <2>2. kernel' = [kernel EXCEPT ![s] = n]
    BY <1>0, <1>11 DEF RespawnFails
  <2> HIDE DEF n
  <2> QED
    BY <1>0, <1>2, <2>1, <2>2, OwnStep
<1> QED
  BY <1>5, <1>6, <1>7, <1>8, <1>9, <1>10, <1>11

LEMMA ShutdownStep ==
    ASSUME EnvInv, NEW s \in EnvSession, ShutdownSession(s)
    PROVE  EnvInv'
<1> DEFINE K == [pc : {"none", "resolved", "live"}, env : AnyEnv, proc : AnyEnv,
                 queue : Seq({"refresh", "restart"}), worker : {"wait", "respawn", "ended"}]
<1>0. /\ UNCHANGED <<secret, variable, edit>> /\ EnvShape /\ Told
      /\ missed' = missed \ {s}
      /\ kernel \in [EnvSession -> K]
  BY DEF ShutdownSession, EnvInv, EnvShape
<1>1. NoEnvSession \in K /\ NoEnvSession.pc = "none"
  BY DEF NoEnvSession, NoEnv, AnyEnv
<1>2. kernel' \in [EnvSession -> K]
  <2> HIDE DEF K
  <2> QED
    BY <1>0, <1>1 DEF ShutdownSession
<1>3. kernel'[s].pc = "none" /\ \A t \in EnvSession : t # s => kernel'[t] = kernel[t]
  <2> HIDE DEF K
  <2> QED
    BY <1>0, <1>1 DEF ShutdownSession
<1>4. /\ listener' \in [subscribed : BOOLEAN, inbox : Nat, todo : SUBSET EnvSession,
                        read : SUBSET [of : EnvSession, env : AnyEnv]]
      /\ listener'.inbox = listener.inbox /\ listener'.todo = listener.todo \ {s}
      /\ listener'.read = {r \in listener.read : r.of # s}
  BY <1>0 DEF EnvShape, ShutdownSession
<1>5. Table' = Table \ {s} /\ Resolved' \subseteq Resolved \ {s}
  BY <1>3 DEF Table, Resolved
<1>6. EnvShape'
  BY <1>0, <1>2, <1>4, <1>5 DEF EnvShape
<1>7. Announcing' = Announcing
  BY <1>0, <1>4 DEF Announcing, ToAnnounce
<1>8. Told'
  <2>1. ASSUME NEW t \in Resolved' \ missed'
        PROVE  Announcing' \/ Coming(t)' \/ Fresh(kernel[t].env)'
    <3>1. t \in EnvSession /\ t # s /\ t \in Resolved \ missed /\ kernel'[t] = kernel[t]
      BY <1>0, <1>3, <1>5, <2>1 DEF Resolved
    <3> QED
      BY <1>0, <1>4, <1>7, <3>1 DEF Told, Coming, Fresh
  <2>2. \A r \in listener'.read : r.of \in missed' \/ Announcing' \/ Fresh(r.env)'
    BY <1>0, <1>4, <1>7 DEF Told, Fresh
  <2> QED
    BY <1>0, <2>1, <2>2 DEF Told
<1>9. ASSUME NEW t \in Table' PROVE Due(t)'
  BY <1>3, <1>5, <1>9 DEF EnvInv, Table, Due, RefreshQueued
<1> QED
  BY <1>6, <1>8, <1>9 DEF EnvInv

LEMMA EnvStep ==
    ASSUME EnvInv, [EnvNext]_envVars
    PROVE  EnvInv'
<1>1. CASE UNCHANGED envVars
  <2>1. UNCHANGED <<secret, variable, edit, listener, kernel, missed>>
    BY <1>1 DEF envVars
  <2>2. Resolved' = Resolved /\ Table' = Table /\ \A s \in Table' : Due(s)'
    BY <2>1, SessionsRest
  <2>3. EnvShape' /\ Told'
    BY <2>1, <2>2 DEF EnvInv, EnvShape, Told, Coming, Fresh, Announcing, ToAnnounce
  <2> QED
    BY <2>2, <2>3 DEF EnvInv
<1>2. ASSUME NEW a \in Admin,
             \/ \E op \in {"upsert", "delete"} : LookUp(a, op)
             \/ CommitSecret(a) \/ Announce(a) \/ AnnounceFails(a)
      PROVE  EnvInv'
  BY <1>2, EditStep, AnnounceStep
<1>3. ASSUME NEW s \in EnvSession,
             \/ ResolveAtStart(s) \/ RegisterSession(s) \/ AskRestart(s) \/ TakeRestart(s)
             \/ TakeRefresh(s) \/ Respawn(s) \/ RespawnFails(s) \/ ShutdownSession(s)
      PROVE  EnvInv'
  BY <1>3, SessionStep, ShutdownStep
<1> QED
  BY <1>1, <1>2, <1>3, ListenerStep, QueueRefreshStep DEF EnvNext

\* However many secrets are changed at once, however often the listener loses its connection
\* and the sessions start, restart and end: a kernel that an announcement has reached, and
\* for which nothing is under way, runs with the secret as it was last committed.
THEOREM KernelsGetTheSecret == EnvSpec => []EnvsSettle
<1>1. EnvInv => EnvsSettle
  <2> SUFFICES ASSUME EnvInv, NEW s \in Table \ missed, NothingUnderWay(s)
               PROVE  kernel[s].proc.secret = secret.change
                      /\ kernel[s].proc.variable >= secret.beside
    BY DEF EnvsSettle
  <2>1. s \in Resolved /\ ~Announcing /\ s \notin listener.todo
    BY DEF Table, Resolved, NothingUnderWay, Announcing
  <2>2. Fresh(kernel[s].env)
    BY <2>1 DEF EnvInv, Told, Coming
  <2>3. kernel[s].proc = kernel[s].env
    BY DEF EnvInv, Due, RefreshQueued, NothingUnderWay
  <2> QED
    BY <2>2, <2>3 DEF Fresh
<1>2. EnvInv /\ [EnvNext]_envVars => EnvInv'
  BY EnvStep
<1> QED
  BY <1>1, <1>2, EnvStarts, PTL DEF EnvSpec

-----------------------------------------------------------------------------
(* The secrets: the bounds of what is counted. *)

Committed == {a \in Admin : edit[a].pc \in {"committed", "done"}}
Finished == {a \in Admin : edit[a].pc = "done"}

\* Each change was made by a request of its own, and each was announced at most once.
EnvCounts ==
    /\ secret.change <= Cardinality(Committed) /\ secret.row <= secret.change
    /\ listener.inbox <= Cardinality(Finished)
    /\ \A a \in Admin : edit[a].row <= Cardinality(Committed)

EnvBounds ==
    /\ variable \in 0..MaxVariables /\ secret.beside \in 0..MaxVariables
    /\ \A s \in EnvSession : kernel[s].env \in Env /\ kernel[s].proc \in Env
    /\ listener.read = {} \/ \E r \in [of : listener.todo, env : Env] : listener.read = {r}
    /\ missed \subseteq EnvSession
    /\ restarts \in 0..MaxRestarts /\ mishaps \in 0..MaxMishaps

SessionMoves(s) ==
    \/ ReadEnv(s) \/ ReadEnvFails(s)
    \/ ResolveAtStart(s) \/ RegisterSession(s) \/ AskRestart(s) \/ TakeRestart(s)
    \/ TakeRefresh(s) \/ Respawn(s) \/ RespawnFails(s) \/ ShutdownSession(s)

LEMMA AdminsAreCounted ==
    /\ Cardinality(Committed) \in Nat /\ Cardinality(Finished) \in Nat /\ Cardinality(Admin) \in Nat
    /\ Cardinality(Committed) <= Cardinality(Admin) /\ Cardinality(Finished) <= Cardinality(Admin)
<1>1. Committed \subseteq Admin /\ Finished \subseteq Admin
  BY DEF Committed, Finished
<1> QED
  BY <1>1, EnvAssumption, FS_Subset, FS_CardinalityType

\* A request goes on to pc; nothing is taken back.
LEMMA AdminsGrow ==
    ASSUME EnvShape, EnvShape', NEW a \in Admin, edit[a].pc # "done",
           edit'[a].pc \in {"looked", "committed", "done"}, edit[a].pc = "committed" => edit'[a].pc = "done",
           \A b \in Admin \ {a} : edit'[b] = edit[b]
    PROVE  /\ Cardinality(Committed') \in Nat /\ Cardinality(Finished') \in Nat
           /\ Cardinality(Committed) <= Cardinality(Committed')
           /\ Cardinality(Finished) <= Cardinality(Finished')
           /\ edit[a].pc # "committed" /\ edit'[a].pc \in {"committed", "done"} =>
                 Cardinality(Committed') = Cardinality(Committed) + 1
           /\ edit'[a].pc = "done" => Cardinality(Finished') = Cardinality(Finished) + 1
<1>1. IsFiniteSet(Committed) /\ IsFiniteSet(Finished)
  BY EnvAssumption, FS_Subset DEF Committed, Finished
<1>2. Committed' = IF edit'[a].pc \in {"committed", "done"} THEN Committed \cup {a} ELSE Committed
  BY DEF Committed
<1>3. Finished' = IF edit'[a].pc = "done" THEN Finished \cup {a} ELSE Finished
  BY DEF Finished
<1>4. a \notin Finished /\ (a \in Committed <=> edit[a].pc = "committed")
  BY DEF Committed, Finished
<1>5. Cardinality(Finished \cup {a}) = Cardinality(Finished) + 1
  BY <1>1, <1>4, FS_AddElement
<1>6. Cardinality(Committed \cup {a}) = IF a \in Committed THEN Cardinality(Committed)
                                        ELSE Cardinality(Committed) + 1
  BY <1>1, FS_AddElement
<1> QED
  BY <1>2, <1>3, <1>4, <1>5, <1>6, AdminsAreCounted

LEMMA SessionMovesListener ==
    ASSUME EnvShape, NEW s \in EnvSession, SessionMoves(s)
    PROVE  /\ listener'.inbox = listener.inbox
           /\ \/ ReadEnv(s) \/ ReadEnvFails(s)
              \/ listener' = listener
              \/ ShutdownSession(s) /\ listener'.todo = listener.todo \ {s}
                                    /\ listener'.read = {r \in listener.read : r.of # s}
<1>1. CASE ReadEnv(s) \/ ReadEnvFails(s)
  BY <1>1 DEF EnvShape, ReadEnv, ReadEnvFails
<1>2. CASE ShutdownSession(s)
  BY <1>2 DEF EnvShape, ShutdownSession
<1>3. CASE \/ ResolveAtStart(s) \/ RegisterSession(s) \/ AskRestart(s) \/ TakeRestart(s)
           \/ TakeRefresh(s) \/ Respawn(s) \/ RespawnFails(s)
  BY <1>3 DEF ResolveAtStart, RegisterSession, AskRestart, TakeRestart, TakeRefresh, Respawn,
       RespawnFails
<1> QED
  BY <1>1, <1>2, <1>3 DEF SessionMoves

LEMMA CountsKept ==
    ASSUME EnvShape, EnvShape', EnvCounts, [EnvNext]_envVars
    PROVE  EnvCounts'
<1>1. /\ secret.change \in Nat /\ secret.row \in Nat /\ listener.inbox \in Nat
      /\ \A a \in Admin : edit[a].row \in Nat
  BY DEF EnvShape
<1>2. CASE UNCHANGED <<secret, edit>> /\ listener'.inbox \in 0..listener.inbox
  BY <1>1, <1>2, AdminsAreCounted DEF EnvCounts, Committed, Finished
<1>3. ASSUME NEW a \in Admin, NEW op \in {"upsert", "delete"}, LookUp(a, op)
      PROVE  EnvCounts'
  <2>1. /\ edit[a].pc = "new" /\ edit'[a].pc \in {"looked", "done"} /\ edit'[a].row = secret.row
        /\ \A b \in Admin \ {a} : edit'[b] = edit[b]
        /\ UNCHANGED <<secret, listener>>
    BY <1>3 DEF LookUp, EnvShape
  <2>2. /\ Cardinality(Committed') \in Nat /\ Cardinality(Finished') \in Nat
        /\ Cardinality(Committed) <= Cardinality(Committed')
        /\ Cardinality(Finished) <= Cardinality(Finished')
    BY <2>1, AdminsGrow
  <2> QED
    BY <1>1, <2>1, <2>2, AdminsAreCounted DEF EnvCounts
<1>4. ASSUME NEW a \in Admin, CommitSecret(a)
      PROVE  EnvCounts'
  <2>1. /\ edit[a].pc = "looked" /\ edit'[a].pc \in {"committed", "done"}
        /\ edit'[a].row = edit[a].row
        /\ \A b \in Admin \ {a} : edit'[b] = edit[b]
        /\ UNCHANGED listener
    BY <1>4 DEF CommitSecret, EnvShape, AdminAt
  <2>2. /\ Cardinality(Committed') \in Nat /\ Cardinality(Finished') \in Nat
        /\ Cardinality(Committed') = Cardinality(Committed) + 1
        /\ Cardinality(Finished) <= Cardinality(Finished')
    BY <2>1, AdminsGrow
  <2>3. \/ secret' = secret
        \/ secret'.change = secret.change + 1 /\ secret'.row <= secret.change + 1
    BY <1>1, <1>4 DEF CommitSecret, EnvShape, EnvCounts, NoSecret
  <2> QED
    BY <1>1, <2>1, <2>2, <2>3, AdminsAreCounted DEF EnvCounts
<1>5. ASSUME NEW a \in Admin, Announce(a) \/ AnnounceFails(a)
      PROVE  EnvCounts'
  <2>1. /\ edit[a].pc = "committed" /\ edit'[a].pc = "done" /\ edit'[a].row = edit[a].row
        /\ \A b \in Admin \ {a} : edit'[b] = edit[b]
        /\ UNCHANGED secret /\ listener'.inbox \in {listener.inbox, listener.inbox + 1}
    BY <1>5 DEF Announce, AnnounceFails, ToAnnounce, EnvShape, AdminAt
  <2>2. /\ Cardinality(Committed') \in Nat /\ Cardinality(Finished') \in Nat
        /\ Cardinality(Committed) <= Cardinality(Committed')
        /\ Cardinality(Finished') = Cardinality(Finished) + 1
    BY <2>1, AdminsGrow
  <2> QED
    BY <1>1, <2>1, <2>2, AdminsAreCounted DEF EnvCounts
<1>6. ASSUME NEW s \in EnvSession, SessionMoves(s) PROVE EnvCounts'
  <2>1. UNCHANGED <<secret, edit>> /\ listener'.inbox \in 0..listener.inbox
    <3>1. listener'.inbox = listener.inbox
      BY <1>6, SessionMovesListener
    <3>2. UNCHANGED <<secret, edit>>
      BY <1>6 DEF SessionMoves, ReadEnv, ReadEnvFails, ShutdownSession, ResolveAtStart,
           RegisterSession, AskRestart, TakeRestart, TakeRefresh, Respawn, RespawnFails
    <3> QED
      BY <1>1, <3>1, <3>2
  <2> QED
    BY <1>2, <2>1
<1>7. CASE SetVariable \/ ListenerSubscribes \/ QueueRefresh \/ UNCHANGED envVars
  <2>1. UNCHANGED <<secret, edit>> /\ listener'.inbox = listener.inbox
    BY ZenonT(60), <1>7 DEF EnvShape, SetVariable, ListenerSubscribes, QueueRefresh, envVars
  <2> QED
    BY <1>1, <1>2, <2>1, SMTT(30)
<1>8. CASE ConnectionBreaks \/ TakeEvent
  <2>1. UNCHANGED <<secret, edit>> /\ listener'.inbox \in {0, listener.inbox - 1}
        /\ listener'.inbox \in Nat
    BY <1>8 DEF EnvShape, ConnectionBreaks, TakeEvent
  <2> QED
    BY <1>1, <1>2, <2>1
<1> QED
  BY <1>3, <1>4, <1>5, <1>6, <1>7, <1>8 DEF EnvNext, SessionMoves

LEMMA BoundsKept ==
    ASSUME EnvShape, EnvShape', EnvCounts, EnvBounds, [EnvNext]_envVars
    PROVE  EnvBounds'
<1>1. CurrentEnv \in Env
  BY AdminsAreCounted DEF EnvShape, EnvCounts, EnvBounds, CurrentEnv, Env
<1>2. NoEnv \in Env
  BY AdminsAreCounted, EnvAssumption DEF NoEnv, Env
<1>3. Table \subseteq EnvSession /\ Resolved \subseteq EnvSession
  BY DEF Table, Resolved
<1>4. ASSUME NEW a \in Admin,
             \/ \E op \in {"upsert", "delete"} : LookUp(a, op)
             \/ CommitSecret(a) \/ Announce(a) \/ AnnounceFails(a)
      PROVE  EnvBounds'
  <2>1. /\ UNCHANGED <<kernel, restarts, variable>> /\ mishaps' \in 0..MaxMishaps
        /\ missed' \in {missed, missed \cup Resolved}
        /\ listener'.todo = listener.todo /\ listener'.read = listener.read
        /\ secret'.beside \in {secret.beside, variable}
    <3>1. CASE \E op \in {"upsert", "delete"} : LookUp(a, op)
      BY <3>1 DEF EnvBounds, LookUp
    <3>2. CASE CommitSecret(a)
      BY <3>2 DEF EnvBounds, CommitSecret
    <3>3. CASE Announce(a)
      BY <3>3 DEF EnvShape, EnvBounds, Announce
    <3>4. CASE AnnounceFails(a)
      BY <3>4, EnvAssumption DEF EnvBounds, AnnounceFails, Mishap
    <3> QED
      BY <1>4, <3>1, <3>2, <3>3, <3>4
  <2> QED
    BY <1>3, <2>1 DEF EnvBounds
<1>5. CASE SetVariable \/ ListenerSubscribes \/ ConnectionBreaks \/ TakeEvent \/ UNCHANGED envVars
  <2>1. /\ UNCHANGED <<kernel, restarts, secret>> /\ mishaps' \in 0..MaxMishaps
        /\ variable' \in 0..MaxVariables
        /\ missed' \in {missed, missed \cup Resolved, missed \cup (Resolved \ Table)}
        /\ listener'.read = listener.read
        /\ listener'.todo = listener.todo \/ listener.todo = {}
    <3>1. CASE SetVariable
      BY <3>1, EnvAssumption DEF EnvBounds, SetVariable
    <3>2. CASE ListenerSubscribes
      BY <3>2 DEF EnvShape, EnvBounds, ListenerSubscribes
    <3>3. CASE ConnectionBreaks
      BY <3>3, EnvAssumption DEF EnvShape, EnvBounds, ConnectionBreaks, Mishap
    <3>4. CASE TakeEvent
      BY <3>4 DEF EnvShape, EnvBounds, TakeEvent
    <3>5. CASE UNCHANGED envVars
      BY <3>5 DEF EnvBounds, envVars
    <3> QED
      BY <1>5, <3>1, <3>2, <3>3, <3>4, <3>5
  <2>2. listener.todo = {} => listener.read = {}
    BY DEF EnvShape
  <2> QED
    BY <1>3, <2>1, <2>2 DEF EnvBounds
<1>6. CASE QueueRefresh
  <2>1. PICK r \in listener.read :
          /\ kernel' = [kernel EXCEPT ![r.of].env = r.env, ![r.of].queue = Append(@, "refresh")]
          /\ listener' = [listener EXCEPT !.todo = @ \ {r.of}, !.read = {}]
          /\ UNCHANGED <<secret, variable, edit, missed, restarts, mishaps>>
    BY <1>6 DEF QueueRefresh
  <2>2. r.env \in Env
    BY DEF EnvBounds
  <2>3. ASSUME NEW s \in EnvSession PROVE kernel'[s].env \in Env /\ kernel'[s].proc \in Env
    BY <2>1, <2>2 DEF EnvBounds, EnvShape
  <2>4. listener'.read = {}
    BY <2>1 DEF EnvShape
  <2> QED
    BY <2>1, <2>3, <2>4 DEF EnvBounds
<1>7. ASSUME NEW s \in EnvSession, ReadEnv(s) \/ ReadEnvFails(s) PROVE EnvBounds'
  <2>1. /\ UNCHANGED <<secret, variable, kernel, restarts>> /\ mishaps' \in 0..MaxMishaps
        /\ missed' \in {missed, missed \cup {s}} /\ s \in listener.todo /\ listener.read = {}
    BY <1>7, EnvAssumption DEF EnvBounds, ReadEnv, ReadEnvFails, Turn, Mishap
  <2>2. listener'.read = {} \/ (listener'.todo = listener.todo
                               /\ listener'.read = {[of |-> s, env |-> CurrentEnv]})
    BY <1>7, <2>1 DEF EnvShape, ReadEnv, ReadEnvFails
  <2> QED
    BY <1>1, <2>1, <2>2 DEF EnvBounds
<1>8. ASSUME NEW s \in EnvSession, SessionMoves(s), ~ ReadEnv(s), ~ ReadEnvFails(s) PROVE EnvBounds'
  <2>1. /\ UNCHANGED <<secret, variable>> /\ mishaps' \in 0..MaxMishaps /\ restarts' \in 0..MaxRestarts
        /\ missed' \subseteq missed
    BY <1>8, EnvAssumption DEF EnvBounds, SessionMoves, ShutdownSession, ResolveAtStart,
         RegisterSession, AskRestart, TakeRestart, TakeRefresh, Respawn, RespawnFails, Mishap
  <2>2. ASSUME NEW t \in EnvSession PROVE kernel'[t].env \in Env /\ kernel'[t].proc \in Env
    <3> DEFINE K == [pc : {"none", "resolved", "live"}, env : AnyEnv, proc : AnyEnv,
                     queue : Seq({"refresh", "restart"}), worker : {"wait", "respawn", "ended"}]
    <3>0. /\ kernel \in [EnvSession -> K]
          /\ kernel[t].env \in Env /\ kernel[t].proc \in Env
          /\ kernel[s].env \in Env /\ kernel[s].proc \in Env
      BY DEF EnvBounds, EnvShape
    <3>1. CASE ResolveAtStart(s) \/ RegisterSession(s)
      <4>1. /\ kernel'[s].env \in {kernel[s].env, CurrentEnv}
            /\ kernel'[s].proc \in {kernel[s].env, kernel[s].proc}
            /\ t # s => kernel'[t] = kernel[t]
        BY <3>0, <3>1 DEF ResolveAtStart, RegisterSession
      <4> QED
        BY <1>1, <3>0, <4>1
    <3>2. CASE AskRestart(s) \/ TakeRestart(s) \/ TakeRefresh(s)
      <4>1. /\ kernel'[s].env = kernel[s].env /\ kernel'[s].proc = kernel[s].proc
            /\ t # s => kernel'[t] = kernel[t]
        BY <3>0, <3>2 DEF AskRestart, TakeRestart, TakeRefresh
      <4> QED
        BY <3>0, <4>1
    <3>3. CASE Respawn(s) \/ RespawnFails(s)
      <4>1. /\ kernel'[s].env = kernel[s].env /\ kernel'[s].proc \in {kernel[s].env, kernel[s].proc}
            /\ t # s => kernel'[t] = kernel[t]
        BY <3>0, <3>3 DEF Respawn, RespawnFails, RespawnEnv
      <4> QED
        BY <3>0, <4>1
    <3>4. CASE ShutdownSession(s)
      BY <1>2, <3>0, <3>4 DEF ShutdownSession, NoEnvSession
    <3> QED
      BY <1>8, <3>1, <3>2, <3>3, <3>4 DEF SessionMoves
  <2>3. \/ listener' = listener
        \/ listener'.todo = listener.todo \ {s} /\ listener'.read = {r \in listener.read : r.of # s}
    BY <1>8, SessionMovesListener
  <2>4. listener'.read = {} \/ \E r \in [of : listener'.todo, env : Env] : listener'.read = {r}
    <3>1. CASE listener.read = {}
      BY <2>3, <3>1
    <3>2. ASSUME NEW r \in [of : listener.todo, env : Env], listener.read = {r} PROVE <2>4
      <4>1. CASE listener' = listener
        BY <3>2, <4>1
      <4>2. CASE listener'.todo = listener.todo \ {s} /\ listener'.read = {p \in listener.read : p.of # s}
        <5>1. CASE r.of = s
          BY <3>2, <4>2, <5>1
        <5>2. CASE r.of # s
          BY <3>2, <4>2, <5>2
        <5> QED
          BY <5>1, <5>2
      <4> QED
        BY <2>3, <4>1, <4>2
    <3> QED
      BY <3>1, <3>2 DEF EnvBounds
  <2> QED
    BY <2>1, <2>2, <2>4 DEF EnvBounds
<1> QED
  BY <1>4, <1>5, <1>6, <1>7, <1>8 DEF EnvNext, SessionMoves

\* The secret counts the requests that changed it, the listener the announcements; and no
\* session holds an environment that is of no change.
THEOREM EnvTypes == EnvSpec => []EnvTypeOK
<1> DEFINE I == EnvInv /\ EnvCounts /\ EnvBounds
<1>1. EnvInit => I
  <2> SUFFICES ASSUME EnvInit PROVE EnvCounts /\ EnvBounds
    BY EnvStarts
  <2>1. EnvCounts
    BY AdminsAreCounted DEF EnvInit, EnvCounts, NoSecret
  <2>2. NoEnv \in Env
    BY AdminsAreCounted, EnvAssumption DEF NoEnv, Env
  <2>3. EnvBounds
    BY <2>2, EnvAssumption DEF EnvInit, EnvBounds, NoEnvSession
  <2> QED
    BY <2>1, <2>3
<1>2. I /\ [EnvNext]_envVars => I'
  <2> SUFFICES ASSUME I, [EnvNext]_envVars PROVE I'
    OBVIOUS
  <2>1. EnvInv' /\ EnvShape /\ EnvShape'
    BY EnvStep DEF EnvInv
  <2> QED
    BY <2>1, CountsKept, BoundsKept
<1>3. I => EnvTypeOK
  <2> SUFFICES ASSUME I PROVE EnvTypeOK
    OBVIOUS
  <2>0. EnvShape
    BY DEF EnvInv
  <2>1. secret \in [row : 0..Cardinality(Admin), change : 0..Cardinality(Admin),
                   beside : 0..MaxVariables]
    BY <2>0, AdminsAreCounted DEF EnvShape, EnvCounts, EnvBounds
  <2>2. edit \in [Admin -> [pc : {"new", "looked", "committed", "done"},
                            op : {"upsert", "delete"}, row : 0..Cardinality(Admin)]]
    <3> DEFINE AnyRow == [pc : {"new", "looked", "committed", "done"},
                       op : {"upsert", "delete"}, row : 0..Cardinality(Admin)]
    <3>1. ASSUME NEW a \in Admin PROVE edit[a] \in AnyRow
      <4>1. edit[a].row \in 0..Cardinality(Admin)
        BY <2>0, AdminsAreCounted DEF EnvShape, EnvCounts
      <4> QED
        BY <2>0, <4>1 DEF EnvShape
    <3> HIDE DEF AnyRow
    <3>2. edit \in [Admin -> AnyRow]
      BY <2>0, <3>1 DEF EnvShape
    <3> QED
      BY <3>2 DEF AnyRow
  <2>3. /\ listener.subscribed \in BOOLEAN /\ listener.inbox \in 0..Cardinality(Admin)
        /\ listener.todo \subseteq EnvSession
    BY <2>0, AdminsAreCounted DEF EnvShape, EnvCounts
  <2>4. /\ listener.read \subseteq [of : listener.todo, env : Env]
        /\ Cardinality(listener.read) <= 1
    <3>1. CASE listener.read = {}
      BY <3>1, FS_EmptySet
    <3>2. ASSUME NEW r \in [of : listener.todo, env : Env], listener.read = {r}
          PROVE  <2>4
      <4>1. Cardinality({r}) = 1
        BY FS_Singleton
      <4> QED
        BY <3>2, <4>1
    <3> QED
      BY <3>1, <3>2 DEF EnvBounds
  <2>5. kernel \in [EnvSession -> [pc : {"none", "resolved", "live"}, env : Env, proc : Env,
                                  queue : Seq({"refresh", "restart"}),
                                  worker : {"wait", "respawn", "ended"}]]
    <3> DEFINE AnyRow == [pc : {"none", "resolved", "live"}, env : Env, proc : Env,
                       queue : Seq({"refresh", "restart"}), worker : {"wait", "respawn", "ended"}]
    <3>1. ASSUME NEW s \in EnvSession PROVE kernel[s] \in AnyRow
      <4>1. kernel[s].env \in Env /\ kernel[s].proc \in Env
        BY DEF EnvBounds
      <4> QED
        BY <2>0, <4>1 DEF EnvShape
    <3> HIDE DEF AnyRow
    <3>2. kernel \in [EnvSession -> AnyRow]
      BY <2>0, <3>1 DEF EnvShape
    <3> QED
      BY <3>2 DEF AnyRow
  <2> QED
    BY <2>1, <2>2, <2>3, <2>4, <2>5 DEF EnvTypeOK, EnvBounds
<1> QED
  BY <1>1, <1>2, <1>3, PTL DEF EnvSpec

-----------------------------------------------------------------------------
(* The live events: the bounds of what is counted. *)

Unrepeated(s) == \A i, j \in 1..Len(s) : s[i] = s[j] => i = j

LiveBounds ==
    /\ counter <= MaxRows /\ excused \subseteq 0..counter
    /\ Unrepeated(log) /\ (topic \in Buffered => Len(log) <= Buffer)
    /\ IsFiniteSet(writing) /\ Cardinality(writing) <= Emitters
    /\ told \in BOOLEAN /\ drops \in 0..MaxDrops /\ deaths \in 0..MaxDeaths

\* A new row is put behind the others, and at most the first is cut off.
LEMMA TrimmedOnce ==
    ASSUME NEW S, log \in Seq(S), NEW r \in S, r \notin Range(log), Unrepeated(log),
           topic \in Buffered => Len(log) <= Buffer
    PROVE  /\ Unrepeated(Trim(Append(log, r)))
           /\ topic \in Buffered => Len(Trim(Append(log, r))) <= Buffer
<1> DEFINE app == Append(log, r)
<1>0. Buffer \in Nat /\ Buffer > 0
  BY LiveAssumption DEF LiveAssumption
<1>1. /\ app \in Seq(S) /\ Len(app) = Len(log) + 1 /\ app[Len(log) + 1] = r /\ Len(log) \in Nat
      /\ \A i \in 1..Len(log) : app[i] = log[i] /\ log[i] # r
  BY DEF Range
<1> HIDE DEF app
<1>2. Unrepeated(app)
  <2>1. \A i \in 1..Len(app) : i \in 1..Len(log) \/ i = Len(log) + 1
    BY <1>1
  <2> QED
    BY <1>1, <2>1 DEF Unrepeated
<1>3. CASE ~(topic \in Buffered /\ Len(app) > Buffer)
  BY <1>0, <1>1, <1>2, <1>3 DEF Trim, app
<1>4. CASE topic \in Buffered /\ Len(app) > Buffer
  <2>1. /\ Tail(app) \in Seq(S) /\ Len(Tail(app)) = Len(log)
        /\ \A i \in 1..Len(log) : Tail(app)[i] = app[i + 1]
    BY <1>0, <1>1, <1>4, HeadTailProperties
  <2>2. ASSUME NEW i \in 1..Len(log), NEW j \in 1..Len(log), Tail(app)[i] = Tail(app)[j] PROVE i = j
    <3>1. i + 1 \in 1..Len(app) /\ j + 1 \in 1..Len(app) /\ app[i + 1] = app[j + 1]
      BY <1>1, <2>1, <2>2
    <3>2. i + 1 = j + 1
      BY <1>2, <3>1 DEF Unrepeated
    <3> QED
      BY <3>2
  <2>3. Trim(app) = Tail(app)
    BY <1>4 DEF Trim
  <2>4. Unrepeated(Trim(app))
    BY <2>1, <2>2, <2>3 DEF Unrepeated
  <2> QED
    BY <1>4, <2>1, <2>3, <2>4 DEF app
<1> QED
  BY <1>3, <1>4

\* What was in hand stays so, or goes on to its next step.
LEMMA EmittersFew ==
    ASSUME LiveInv, LiveBounds, NEW w \in writing,
           writing' = writing \ {w} \/ Done(w)
    PROVE  IsFiniteSet(writing') /\ Cardinality(writing') <= Emitters
<1>1. /\ IsFiniteSet(writing) /\ Cardinality(writing) \in Nat /\ Emitters \in Nat
      /\ Cardinality(writing) <= Emitters
  BY FS_CardinalityType, LiveAssumption DEF LiveBounds
<1>2. /\ IsFiniteSet(writing \ {w}) /\ Cardinality(writing \ {w}) = Cardinality(writing) - 1
  BY <1>1, FS_RemoveElement
<1>3. writing' = writing \ {w} \/ \E v : writing' = (writing \ {w}) \cup {v}
  BY DEF Done
<1>4. ASSUME NEW v PROVE /\ IsFiniteSet((writing \ {w}) \cup {v})
                         /\ Cardinality((writing \ {w}) \cup {v}) \in
                              {Cardinality(writing) - 1, Cardinality(writing)}
  <2>1. /\ IsFiniteSet((writing \ {w}) \cup {v})
        /\ Cardinality((writing \ {w}) \cup {v}) \in
              {Cardinality(writing \ {w}), Cardinality(writing \ {w}) + 1}
    BY <1>2, FS_AddElement
  <2> QED
    BY <1>1, <1>2, <2>1
<1> QED
  BY <1>1, <1>2, <1>3, <1>4

LEMMA LiveBoundsKept ==
    ASSUME LiveInv, LiveInv', LiveBounds, [LiveNext]_liveVars
    PROVE  LiveBounds'
<1>0. /\ LiveShape /\ RowsAccounted /\ counter \in Nat /\ 0..counter \subseteq 0..counter + 1
      /\ {Emitters, Buffer, MaxRows, MaxDrops, MaxDeaths} \subseteq Nat
  BY SMTT(30), LiveAssumption DEF LiveInv, LiveShape
<1> DEFINE Steady == UNCHANGED <<counter, log, topic, writing>>
<1>1. CASE Number
  <2> DEFINE v == [row |-> counter', todo |-> Plan]
  <2>1. /\ counter' = counter + 1 /\ counter < MaxRows /\ Cardinality(writing) < Emitters
        /\ writing' = writing \cup {v}
        /\ UNCHANGED <<topic, log, excused, told, drops, deaths>>
    BY <1>1 DEF Number, clientVars
  <2> HIDE DEF v
  <2>2. IsFiniteSet(writing) /\ Cardinality(writing) \in Nat
    BY FS_CardinalityType DEF LiveBounds
  <2>3. /\ IsFiniteSet(writing')
        /\ Cardinality(writing') \in {Cardinality(writing), Cardinality(writing) + 1}
    BY <2>1, <2>2, FS_AddElement
  <2>4. counter' <= MaxRows /\ Cardinality(writing') <= Emitters
    BY <1>0, <2>1, <2>2, <2>3
  <2> QED
    BY <1>0, <2>1, <2>3, <2>4 DEF LiveBounds, Unrepeated
<1>2. ASSUME NEW w \in writing, Store(w) PROVE LiveBounds'
  <2> DEFINE r == w.row
  <2>1. /\ log' = Trim(Append(log, r)) /\ Done(w) /\ Head(w.todo) = "store"
        /\ excused' = excused \cup (Range(log) \ Range(log'))
                              \cup (IF Overtaken(r, stored) THEN {r} ELSE {})
        /\ UNCHANGED <<topic, counter, told, drops, deaths>>
    BY <1>2 DEF Store, Doing, clientVars
  <2>2. r \in 1..counter /\ r \notin stored
    BY <1>0, <2>1, EntryMoves DEF Entry
  <2>3. log \in Seq(1..counter) /\ Range(log) \subseteq stored /\ stored \subseteq 1..counter
    BY <1>0 DEF LiveShape, RowsAccounted
  <2> HIDE DEF r
  <2>4. Unrepeated(log') /\ (topic \in Buffered => Len(log') <= Buffer)
    BY <2>1, <2>2, <2>3, TrimmedOnce DEF LiveBounds
  <2>5. IsFiniteSet(writing') /\ Cardinality(writing') <= Emitters
    BY <2>1, EmittersFew
  <2>6. excused' \subseteq 0..counter
    <3>1. excused' \subseteq excused \cup Range(log) \cup {r}
      BY <2>1
    <3>2. 1..counter \subseteq 0..counter /\ excused \subseteq 0..counter
      BY <1>0 DEF LiveBounds
    <3> QED
      BY <2>2, <2>3, <3>1, <3>2
  <2> QED
    BY <2>1, <2>4, <2>5, <2>6 DEF LiveBounds
<1>3. ASSUME NEW w \in writing, Publish(w) \/ Dies(w) PROVE LiveBounds'
  <2>1. /\ UNCHANGED <<topic, counter, log, told, drops>> /\ deaths' \in 0..MaxDeaths
        /\ writing' = writing \ {w} \/ Done(w)
        /\ excused' \subseteq excused \cup {w.row}
    BY <1>0, <1>3 DEF Publish, Dies, clientVars, InGap, LiveBounds
  <2>2. w.row \in 1..counter
    BY <1>0 DEF RowsAccounted, Entry
  <2>3. IsFiniteSet(writing') /\ Cardinality(writing') <= Emitters
    BY <2>1, EmittersFew
  <2>4. excused' \subseteq 0..counter
    BY <1>0, <2>1, <2>2 DEF LiveBounds
  <2> QED
    BY <1>0, <2>1, <2>3, <2>4 DEF LiveBounds, Unrepeated
<1>4. ASSUME Steady, excused' \subseteq 0..counter, told' \in BOOLEAN, drops' \in 0..MaxDrops, deaths' = deaths
      PROVE  LiveBounds'
  BY <1>4 DEF LiveBounds, Unrepeated
<1>5. CASE EndStored \/ EndPublished \/ Open \/ Subscribe \/ UNCHANGED liveVars
  <2>1. Steady /\ UNCHANGED <<told, drops, deaths>> /\ excused' \subseteq excused \cup {0}
    BY <1>5 DEF EndStored, EndPublished, Open, Subscribe, liveVars, clientVars, InGap, End
  <2>2. excused' \subseteq 0..counter
    BY <1>0, <2>1 DEF LiveBounds
  <2> QED
    BY <1>4, <2>1, <2>2 DEF LiveBounds
<1>6. CASE SendSnapshot
  <2>1. Steady /\ UNCHANGED <<told, drops, deaths>>
    BY <1>6 DEF SendSnapshot
  <2>2. excused' \subseteq excused \cup (tree + 1..counter) \cup published
    BY <1>6 DEF SendSnapshot
  <2>3. tree + 1..counter \subseteq 0..counter /\ published \subseteq 0..counter
    BY <1>0 DEF LiveShape
  <2> QED
    BY <1>4, <2>1, <2>2, <2>3 DEF LiveBounds
<1>7. CASE Receive
  <2>1. Steady /\ UNCHANGED <<excused, drops, deaths>> /\ wire # <<>> /\ told' = Head(wire).over
    BY <1>7 DEF Receive
  <2>2. Head(wire) \in [rows : SUBSET (1..counter), seq : 0..counter, over : BOOLEAN]
    <3> DEFINE Sendable == [rows : SUBSET (1..counter), seq : 0..counter, over : BOOLEAN]
    <3>1. wire \in Seq(Sendable)
      BY <1>0 DEF LiveShape
    <3> HIDE DEF Sendable
    <3>2. Head(wire) \in Sendable
      BY <2>1, <3>1
    <3> QED
      BY <3>2 DEF Sendable
  <2> QED
    BY <1>4, <2>1, <2>2 DEF LiveBounds
<1>8. CASE Drop
  <2>1. Steady /\ UNCHANGED <<told, deaths>> /\ drops' \in 0..MaxDrops
        /\ excused' \subseteq excused \cup 1..last
    BY <1>0, <1>8 DEF Drop, LiveBounds
  <2>2. 1..last \subseteq 0..counter
    BY <1>0 DEF LiveShape
  <2> QED
    BY <1>4, <2>1, <2>2 DEF LiveBounds
<1> QED
  BY <1>1, <1>2, <1>3, <1>5, <1>6, <1>7, <1>8 DEF LiveNext

\* No row is stored twice, a Redis buffer keeps no more than it may, and what is on its way
\* to the client is of rows that have a number.
THEOREM LiveTypes == LiveSpec => []LiveTypeOK
<1> DEFINE I == LiveInv /\ LiveBounds
<1>1. LiveInit => I
  <2> SUFFICES ASSUME LiveInit PROVE LiveBounds
    BY LiveStarts
  <2>1. {Emitters, Buffer, MaxRows, MaxDrops, MaxDeaths} \subseteq Nat
    BY LiveAssumption
  <2> QED
    <3>1. IsFiniteSet(writing) /\ Cardinality(writing) = 0
      BY FS_EmptySet DEF LiveInit
    <3>2. log = <<>> /\ Len(log) = 0
      BY DEF LiveInit
    <3>3. Unrepeated(log) /\ Len(log) <= Buffer /\ Cardinality(writing) <= Emitters
      BY <2>1, <3>1, <3>2 DEF Unrepeated
    <3>4. /\ counter <= MaxRows /\ excused \subseteq 0..counter /\ told \in BOOLEAN
          /\ drops \in 0..MaxDrops /\ deaths \in 0..MaxDeaths
      <4>1. MaxRows \in Nat /\ MaxDrops \in Nat /\ MaxDeaths \in Nat
        BY <2>1
      <4>2. counter = 0 /\ excused = {} /\ told = FALSE /\ drops = 0 /\ deaths = 0
        BY DEF LiveInit
      <4>3. counter <= MaxRows /\ drops \in 0..MaxDrops /\ deaths \in 0..MaxDeaths
        BY <4>1, <4>2
      <4>4. told \in BOOLEAN /\ excused \subseteq 0..counter
        BY <4>2
      <4> QED
        BY <4>3, <4>4
    <3> QED
      BY <3>1, <3>3, <3>4 DEF LiveBounds
<1>2. I /\ [LiveNext]_liveVars => I'
  BY LiveStep, LiveBoundsKept
<1>3. I => LiveTypeOK
  <2> SUFFICES ASSUME I PROVE LiveTypeOK
    OBVIOUS
  <2>0. LiveShape /\ RowsAccounted /\ LiveBounds /\ counter \in 0..MaxRows
    BY LiveAssumption DEF LiveInv, LiveShape, LiveBounds
  <2>1. 1..counter \subseteq RowNumbers /\ 0..counter \subseteq 0..MaxRows
    BY <2>0, LiveAssumption DEF RowNumbers
  <2>2. log \in Seq(RowNumbers) /\ IsInjective(log)
    <3>1. log \in Seq(1..counter)
      BY <2>0 DEF LiveShape
    <3>2. log \in Seq(RowNumbers)
      BY <2>1, <3>1, SeqMonotonic
    <3>3. DOMAIN log = 1..Len(log)
      BY <3>1
    <3> QED
      BY <2>0, <3>2, <3>3 DEF LiveBounds, Unrepeated, IsInjective
  <2>3. wire \in Seq(Message)
    <3> DEFINE Sendable == [rows : SUBSET (1..counter), seq : 0..counter, over : BOOLEAN]
    <3>1. wire \in Seq(Sendable)
      BY <2>0 DEF LiveShape
    <3>2. Sendable \subseteq Message
      BY <2>1 DEF Message
    <3> HIDE DEF Sendable
    <3> QED
      BY <3>1, <3>2
  <2>4. \A w \in writing : w.row \in 1..counter /\ Len(w.todo) \in 1..2
    BY <2>0, Steps DEF RowsAccounted, Entry
  <2> QED
    BY <2>0, <2>1, <2>2, <2>3, <2>4 DEF LiveShape, LiveBounds, LiveTypeOK
<1> QED
  BY <1>1, <1>2, <1>3, PTL DEF LiveSpec

-----------------------------------------------------------------------------
(* The parts side by side: what holds of each alone holds of all, whichever runs. *)

\* A step of the whole is a step of the part that runs, and none of the others.
LEMMA StepOfAPart ==
    ASSUME [MCNext]_MCVars
    PROVE  /\ [GitNext]_gitVars
           /\ [SchedulerNext]_schedulerVars
           /\ [LiveNext]_liveVars
           /\ [LspNext]_lspVars
           /\ [AssistantNext]_assistantVars
           /\ [EnvNext]_envVars
           /\ [EditNext]_editVars
           /\ [PreviewNext]_previewVars
           /\ [SandboxNext]_sandboxVars
           /\ UNCHANGED request
<1>1. ASSUME MCNext
      PROVE  /\ GitNext \/ UNCHANGED gitVars
             /\ SchedulerNext \/ UNCHANGED schedulerVars
             /\ LiveNext \/ UNCHANGED liveVars
             /\ LspNext \/ UNCHANGED lspVars
             /\ AssistantNext \/ UNCHANGED assistantVars
             /\ EnvNext \/ UNCHANGED envVars
             /\ EditNext \/ UNCHANGED editVars
             /\ PreviewNext \/ UNCHANGED previewVars
             /\ SandboxNext \/ UNCHANGED sandboxVars
             /\ UNCHANGED request
  BY <1>1 DEF MCNext, contextVars
<1>2. ASSUME UNCHANGED MCVars
      PROVE  /\ UNCHANGED <<gitVars, schedulerVars, liveVars, lspVars, assistantVars>>
             /\ UNCHANGED <<envVars, editVars, previewVars, sandboxVars>>
             /\ UNCHANGED request
  BY <1>2 DEF MCVars, contextVars
<1> QED
  BY <1>1, <1>2

LEMMA EveryPartStarts ==
    ASSUME MCInit
    PROVE  GitInit /\ SchedulerInit /\ LiveInit /\ LspInit /\ AssistantInit
           /\ EnvInit /\ EditInit /\ PreviewInit /\ SandboxInit
  BY DEF MCInit

LEMMA RequestsAre ==
    ASSUME NEW A, NEW B, A \subseteq B
    PROVE  Requests(A) \subseteq Requests(B)
  BY DEF Requests

LEMMA RequestStarts ==
    ASSUME MCInit
    PROVE  ContextTypeOK
<1>1. CASE part = "context"
  <2>1. request \in Requests(BoundedSeq(Cells, MaxNotebook))
    BY <1>1 DEF MCInit, ContextInit
  <2>2. BoundedSeq(Cells, MaxNotebook) \subseteq Seq(Cells)
    <3>1. ASSUME NEW m \in 0..MaxNotebook, NEW f \in [1..m -> Cells] PROVE f \in Seq(Cells)
      <4>1. m \in Nat
        BY ContextNumbers
      <4> QED
        BY <4>1, SeqByIndex
    <3> QED
      BY <3>1 DEF BoundedSeq, SeqOf
  <2> QED
    BY <2>1, <2>2, RequestsAre DEF ContextTypeOK
<1>2. CASE part # "context"
  <2>1. request = NoRequest
    BY <1>2 DEF MCInit
  <2>2. Min(CharBudgets) \in CharBudgets /\ Min(NearCells) \in NearCells
    BY ContextNumbers, ContextAssumption, MinIs
  <2>3. <<>> \in Seq(Cells) /\ 0 \in 0..MaxNotebook - 1
    BY ContextNumbers
  <2> QED
    BY <2>1, <2>2, <2>3 DEF NoRequest, ContextTypeOK, Requests
<1> QED
  BY <1>1, <1>2

\* The whole behaves as each part does.
LEMMA EachPart ==
    MCSpec => /\ GitSpec /\ SchedulerSpec /\ LiveSpec /\ LspSpec /\ AssistantSpec
              /\ EnvSpec /\ EditSpec /\ PreviewSpec /\ SandboxSpec
<1>1. MCSpec => GitSpec
  BY EveryPartStarts, StepOfAPart, PTL DEF MCSpec, GitSpec
<1>2. MCSpec => SchedulerSpec
  BY EveryPartStarts, StepOfAPart, PTL DEF MCSpec, SchedulerSpec
<1>3. MCSpec => LiveSpec
  BY EveryPartStarts, StepOfAPart, PTL DEF MCSpec, LiveSpec
<1>4. MCSpec => LspSpec
  BY EveryPartStarts, StepOfAPart, PTL DEF MCSpec, LspSpec
<1>5. MCSpec => AssistantSpec
  BY EveryPartStarts, StepOfAPart, PTL DEF MCSpec, AssistantSpec
<1>6. MCSpec => EnvSpec
  BY EveryPartStarts, StepOfAPart, PTL DEF MCSpec, EnvSpec
<1>7. MCSpec => EditSpec
  BY EveryPartStarts, StepOfAPart, PTL DEF MCSpec, EditSpec
<1>8. MCSpec => PreviewSpec
  BY EveryPartStarts, StepOfAPart, PTL DEF MCSpec, PreviewSpec
<1>9. MCSpec => SandboxSpec
  BY EveryPartStarts, StepOfAPart, PTL DEF MCSpec, SandboxSpec
<1> QED
  BY <1>1, <1>2, <1>3, <1>4, <1>5, <1>6, <1>7, <1>8, <1>9

LEMMA RequestStays == MCSpec => []ContextTypeOK
<1>1. ContextTypeOK /\ [MCNext]_MCVars => ContextTypeOK'
  BY StepOfAPart DEF ContextTypeOK, Requests
<1> QED
  BY <1>1, RequestStarts, PTL DEF MCSpec

\* Whichever part runs, it and the ones that stand still keep their types.
THEOREM ServicesKeepTypes == MCSpec => []ServicesTypeOK
<1>1. /\ GitTypeOK /\ SchedulerTypeOK /\ LiveTypeOK /\ LspTypeOK /\ AssistantTypeOK
      /\ EnvTypeOK /\ EditTypeOK /\ PreviewTypeOK /\ ContextTypeOK /\ SandboxTypeOK
      => ServicesTypeOK
  BY DEF ServicesTypeOK
<1> QED
  BY <1>1, EachPart, RequestStays, GitTypes, SchedulerTypes, LiveTypes, LspTypes,
     AssistantTypes, EnvTypes, EditingTypes, PreviewTypes, SandboxTypes, PTL

\* What the parts promise, each alone, they promise side by side: the properties of the run
\* "services", for any number of everything.
THEOREM ServicesHold ==
    MCSpec => /\ NothingLost
              /\ Lag = 0 => []OneJobPerFire
              /\ []NoRunMissed /\ []ClientCaughtUp
              /\ ListsInOrder /\ []PositionsAgree
              /\ []ProvidersAgree /\ []EnvsSettle
              /\ NothingUnseenReplaced /\ []PagesTile
              /\ []ContextFits /\ []ReportIsTrue
<1>1. MCSpec => NothingLost
  BY EachPart, NothingGetsLost
<1>2. MCSpec => (Lag = 0 => []OneJobPerFire)
  BY EachPart, OneJobPerDueTime
<1>3. MCSpec => []NoRunMissed /\ []ClientCaughtUp
  BY EachPart, NoRunIsMissed, ClientStaysCaughtUp
<1>4. MCSpec => ListsInOrder /\ []PositionsAgree
  BY EachPart, NoListAfterANewer, PositionsStayAgreed
<1>5. MCSpec => []ProvidersAgree /\ []EnvsSettle
  BY EachPart, ProvidersStayAgreed, KernelsGetTheSecret
<1>6. MCSpec => NothingUnseenReplaced /\ []PagesTile
  BY EachPart, NothingUnseenIsReplaced, PagesAreTheFile
<1>7. MCSpec => []ContextFits
  BY RequestStays, ContextAlwaysFits, PTL
<1>8. MCSpec => []ReportIsTrue
  BY EachPart, ReportsAreTrue
<1> QED
  BY <1>1, <1>2, <1>3, <1>4, <1>5, <1>6, <1>7, <1>8
==================================================================================
