------------------------------- MODULE SecretEnv -------------------------------
(***************************************************************************)
(* A secret on its way to the live kernels: the edit's request commits    *)
(* it and announces it on the config channel, the listener of the          *)
(* kernel-worker resolves the environment anew and queues a refresh for    *)
(* every session, and the session's worker starts a new process with it.   *)
(* Nothing announces a variable. A value is the number of the change that  *)
(* wrote it; a deletion is a change.                                       *)
(***************************************************************************)
EXTENDS Naturals, Sequences, FiniteSets

CONSTANTS Admin,     \* bound: requests that change the secret
          EnvSession,   \* ids of kernel sessions
          MaxVariables, MaxRestarts, MaxMishaps   \* bounds

ASSUME EnvAssumption ==
    {MaxVariables, MaxRestarts, MaxMishaps} \subseteq Nat /\ IsFiniteSet(Admin)

VARIABLES secret,    \* the row, the change that wrote it, the variable at the time
          variable,
          edit,     \* the requests
          listener,  \* _config_listener_loop
          kernel,    \* the sessions: attribute env, environment of the process, queue
          missed,    \* history: sessions an announcement has not reached
          restarts, mishaps

envVars == <<secret, variable, edit, listener, kernel, missed, restarts, mishaps>>

NoSecret == 0
Env == [secret : 0..Cardinality(Admin), variable : 0..MaxVariables]
NoEnv == [secret |-> 0, variable |-> 0]
NoEnvSession == [pc |-> "none", env |-> NoEnv, proc |-> NoEnv, queue |-> <<>>, worker |-> "wait"]

EnvTypeOK ==
    /\ secret \in [row : 0..Cardinality(Admin), change : 0..Cardinality(Admin),
                   beside : 0..MaxVariables]
    /\ variable \in 0..MaxVariables
    /\ edit \in [Admin -> [pc : {"new", "looked", "committed", "done"},
                            op : {"upsert", "delete"}, row : 0..Cardinality(Admin)]]
    /\ listener.subscribed \in BOOLEAN /\ listener.inbox \in 0..Cardinality(Admin)
    /\ listener.todo \subseteq EnvSession
    /\ listener.read \subseteq [of : listener.todo, env : Env] /\ Cardinality(listener.read) <= 1
    /\ kernel \in [EnvSession -> [pc : {"none", "resolved", "live"}, env : Env, proc : Env,
                               queue : Seq({"refresh", "restart"}),
                               worker : {"wait", "respawn", "ended"}]]
    /\ missed \subseteq EnvSession
    /\ restarts \in 0..MaxRestarts /\ mishaps \in 0..MaxMishaps

EnvInit ==
    /\ secret = [row |-> NoSecret, change |-> 0, beside |-> 0] /\ variable = 0
    /\ edit = [a \in Admin |-> [pc |-> "new", op |-> "upsert", row |-> NoSecret]]
    /\ listener = [subscribed |-> FALSE, inbox |-> 0, todo |-> {}, read |-> {}]
    /\ kernel = [s \in EnvSession |-> NoEnvSession]
    /\ missed = {} /\ restarts = 0 /\ mishaps = 0

Mishap == mishaps < MaxMishaps /\ mishaps' = mishaps + 1

\* Sessions that hold an environment, in the manager's table or not yet
Resolved == {s \in EnvSession : kernel[s].pc # "none"}

Table == {s \in EnvSession : kernel[s].pc = "live"}

(***************************************************************************)
(* The API.                                                                *)
(***************************************************************************)
AdminAt(a, pc) == edit' = [edit EXCEPT ![a].pc = pc]

\* upsert and delete look for the row first; there is nothing to delete without one.
LookUp(a, op) ==
    /\ edit[a].pc = "new"
    /\ edit' = [edit EXCEPT ![a] =
                   [pc |-> IF op = "delete" /\ secret.row = NoSecret THEN "done" ELSE "looked",
                    op |-> op, row |-> secret.row]]
    /\ UNCHANGED <<secret, variable, listener, kernel, missed, restarts, mishaps>>

\* The explicit commit has gone before.
ToAnnounce(a) == edit[a].pc = "committed"

\* The row may have come, gone or been replaced since: a second INSERT breaks the
\* uniqueness of the key, an UPDATE of a row that is gone is an error, a DELETE of one
\* is not, and is announced.
RowAsLookedUp(a) == edit[a].op = "delete" \/ edit[a].row = secret.row

CommitSecret(a) ==
    /\ edit[a].pc = "looked"
    /\ IF RowAsLookedUp(a) /\ (edit[a].op = "upsert" \/ edit[a].row = secret.row)
       THEN secret' = [row |-> IF edit[a].op = "delete" THEN NoSecret
                               ELSE IF secret.row = NoSecret THEN secret.change + 1
                               ELSE secret.row,
                       change |-> secret.change + 1, beside |-> variable]
       ELSE UNCHANGED secret
    /\ AdminAt(a, IF RowAsLookedUp(a) THEN "committed" ELSE "done")
    /\ UNCHANGED <<variable, listener, kernel, missed, restarts, mishaps>>

\* Only a listener that has subscribed hears of it.
Announce(a) ==
    /\ ToAnnounce(a)
    /\ AdminAt(a, "done")
    /\ IF listener.subscribed
       THEN listener' = [listener EXCEPT !.inbox = @ + 1] /\ UNCHANGED missed
       ELSE missed' = missed \cup Resolved /\ UNCHANGED listener
    /\ UNCHANGED <<secret, variable, kernel, restarts, mishaps>>

\* publish_config_event fails and is only logged, or the API dies after the commit.
AnnounceFails(a) ==
    /\ ToAnnounce(a) /\ Mishap
    /\ AdminAt(a, "done")
    /\ missed' = missed \cup Resolved
    /\ UNCHANGED <<secret, variable, listener, kernel, restarts>>

\* A variable is stored, and that is all.
SetVariable ==
    /\ variable < MaxVariables /\ variable' = variable + 1
    /\ UNCHANGED <<secret, edit, listener, kernel, missed, restarts, mishaps>>

(***************************************************************************)
(* The listener of the kernel-worker.                                      *)
(***************************************************************************)
\* resolve_workspace_env
CurrentEnv == [secret |-> secret.change, variable |-> variable]

ListenerSubscribes ==
    /\ ~listener.subscribed /\ listener.todo = {}
    /\ listener' = [listener EXCEPT !.subscribed = TRUE]
    /\ UNCHANGED <<secret, variable, edit, kernel, missed, restarts, mishaps>>

\* The connection breaks. After two seconds the loop subscribes again; it does not ask
\* what it has missed.
ConnectionBreaks ==
    /\ listener.subscribed /\ Mishap
    /\ listener' = [listener EXCEPT !.subscribed = FALSE, !.inbox = 0]
    /\ missed' = IF listener.inbox > 0 THEN missed \cup Resolved ELSE missed
    /\ UNCHANGED <<secret, variable, edit, kernel, restarts>>

\* _refresh_all_envs works on a copy of the table: a session whose start has resolved its
\* environment and is not in the table yet is left out.
TakeEvent ==
    /\ listener.inbox > 0 /\ listener.todo = {}
    /\ listener' = [listener EXCEPT !.inbox = @ - 1, !.todo = Table]
    /\ missed' = missed \cup (Resolved \ Table)
    /\ UNCHANGED <<secret, variable, edit, kernel, restarts, mishaps>>

\* The copy has the order in which the sessions started, and any of them may come first.
Turn(s) == s \in listener.todo /\ listener.read = {}

ReadEnv(s) ==
    /\ Turn(s)
    /\ listener' = [listener EXCEPT !.read = {[of |-> s, env |-> CurrentEnv]}]
    /\ UNCHANGED <<secret, variable, edit, kernel, missed, restarts, mishaps>>

QueueRefresh ==
    \E r \in listener.read :
        /\ kernel' = [kernel EXCEPT ![r.of].env = r.env, ![r.of].queue = Append(@, "refresh")]
        /\ listener' = [listener EXCEPT !.todo = @ \ {r.of}, !.read = {}]
        /\ UNCHANGED <<secret, variable, edit, missed, restarts, mishaps>>

\* The database does not answer: logged, and on to the next session.
ReadEnvFails(s) ==
    /\ Turn(s) /\ Mishap
    /\ listener' = [listener EXCEPT !.todo = @ \ {s}]
    /\ missed' = missed \cup {s}
    /\ UNCHANGED <<secret, variable, edit, kernel, restarts>>

(***************************************************************************)
(* The sessions.                                                           *)
(***************************************************************************)
\* ensure, under its lock: the environment first, the table and the process after.
ResolveAtStart(s) ==
    /\ kernel[s].pc = "none" /\ Resolved = Table
    /\ kernel' = [kernel EXCEPT ![s].pc = "resolved", ![s].env = CurrentEnv]
    /\ UNCHANGED <<secret, variable, edit, listener, missed, restarts, mishaps>>

RegisterSession(s) ==
    /\ kernel[s].pc = "resolved"
    /\ kernel' = [kernel EXCEPT ![s].pc = "live", ![s].proc = kernel[s].env]
    /\ UNCHANGED <<secret, variable, edit, listener, missed, restarts, mishaps>>

AskRestart(s) ==
    /\ kernel[s].pc = "live" /\ restarts < MaxRestarts /\ restarts' = restarts + 1
    /\ kernel' = [kernel EXCEPT ![s].queue = Append(@, "restart")]
    /\ UNCHANGED <<secret, variable, edit, listener, missed, mishaps>>

Takes(s, item) ==
    kernel[s].worker = "wait" /\ kernel[s].queue # <<>> /\ Head(kernel[s].queue) = item

\* restart_kernel keeps the environment the process was started with.
TakeRestart(s) ==
    /\ Takes(s, "restart")
    /\ kernel' = [kernel EXCEPT ![s].queue = Tail(@)]
    /\ UNCHANGED <<secret, variable, edit, listener, missed, restarts, mishaps>>

\* The old process is shut down ...
TakeRefresh(s) ==
    /\ Takes(s, "refresh")
    /\ kernel' = [kernel EXCEPT ![s].queue = Tail(@), ![s].worker = "respawn"]
    /\ UNCHANGED <<secret, variable, edit, listener, missed, restarts, mishaps>>

\* Bug: restarted like any other kernel
RespawnAsRestart(s) == kernel[s].proc

\* ... and the new one takes the attribute as it is by then.
RespawnEnv(s) == kernel[s].env

Respawn(s) ==
    /\ kernel[s].worker = "respawn"
    /\ kernel' = [kernel EXCEPT ![s].proc = RespawnEnv(s), ![s].worker = "wait"]
    /\ UNCHANGED <<secret, variable, edit, listener, missed, restarts, mishaps>>

\* start_kernel raises: the worker task ends.
RespawnFails(s) ==
    /\ kernel[s].worker = "respawn" /\ Mishap
    /\ kernel' = [kernel EXCEPT ![s].worker = "ended"]
    /\ UNCHANGED <<secret, variable, edit, listener, missed, restarts>>

\* The listener's copy of the table has the object that is gone, never the next one of
\* the same id: what it does with it is no matter.
ShutdownSession(s) ==
    /\ kernel[s].pc = "live"
    /\ kernel' = [kernel EXCEPT ![s] = NoEnvSession]
    /\ missed' = missed \ {s}
    /\ listener' = [listener EXCEPT !.todo = @ \ {s}, !.read = {r \in @ : r.of # s}]
    /\ UNCHANGED <<secret, variable, edit, restarts, mishaps>>

EnvNext ==
    \/ \E a \in Admin, op \in {"upsert", "delete"} : LookUp(a, op)
    \/ \E a \in Admin : CommitSecret(a) \/ Announce(a) \/ AnnounceFails(a)
    \/ SetVariable
    \/ ListenerSubscribes
    \/ ConnectionBreaks
    \/ TakeEvent
    \/ QueueRefresh
    \/ \E s \in EnvSession :
          \/ ReadEnv(s) \/ ReadEnvFails(s)
          \/ ResolveAtStart(s)
          \/ RegisterSession(s)
          \/ AskRestart(s)
          \/ TakeRestart(s)
          \/ TakeRefresh(s)
          \/ Respawn(s)
          \/ RespawnFails(s)
          \/ ShutdownSession(s)

EnvSpec == EnvInit /\ [][EnvNext]_envVars

(***************************************************************************)
(* Properties.                                                             *)
(***************************************************************************)
NothingUnderWay(s) ==
    /\ \A a \in Admin : ~ToAnnounce(a)
    /\ listener.inbox = 0
    /\ s \notin listener.todo
    /\ kernel[s].queue = <<>> /\ kernel[s].worker = "wait"

\* Once every announcement is worked off, a kernel runs with the secret as it was last
\* committed, and with a variable at least as new as that commit: whatever restarts,
\* other changes and starts came in between. Left out are the sessions an announcement
\* has not reached: it was lost, nobody had subscribed, the listener failed to read, or
\* the session had read its environment and was not in the table (kernel/manager.py, 89).
EnvsSettle ==
    \A s \in Table \ missed :
        NothingUnderWay(s) => /\ kernel[s].proc.secret = secret.change
                              /\ kernel[s].proc.variable >= secret.beside
===============================================================================
