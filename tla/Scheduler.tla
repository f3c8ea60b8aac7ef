------------------------------- MODULE Scheduler -------------------------------
(***************************************************************************)
(* One schedule of a workflow: the row that services/schedule_service.py   *)
(* and the API keep, the scheduler processes (scheduler/__main__.py and    *)
(* apscheduler_adapter.py) that hold its cron in memory, and               *)
(* run_due_schedule, which turns a fire into a job. Time is counted in     *)
(* ticks, at least as long as the shortest interval between two runs.      *)
(***************************************************************************)
EXTENDS Naturals, FiniteSets

CONSTANTS Cron,        \* cron expressions
          FireTimes,   \* the ticks at which each of them is due
          Process,     \* scheduler processes
          Reconcile,   \* ticks between two reconciliations
          Lag,         \* bound: ticks by which a process may be late with a fire
          MaxTime, MaxUpdates, MaxCrashes   \* bounds

NoCron == "none"

ASSUME SchedulerAssumption ==
    /\ NoCron \notin Cron
    /\ FireTimes \in [Cron -> SUBSET Nat]
    /\ {Reconcile, Lag, MaxTime, MaxUpdates, MaxCrashes} \subseteq Nat /\ Reconcile > 0

Never == MaxTime + 100
Time == 0..MaxTime

VARIABLES time,
          schedule,   \* the row: enabled, cron, last_run_at, next_run_at
          changed,    \* when the row was last written by the API
          process,    \* what each scheduler process knows
          started,    \* jobs: the due time and the time of the start of each
          updates, crashes

schedulerVars == <<time, schedule, changed, process, started, updates, crashes>>

Row == [exists : BOOLEAN, enabled : BOOLEAN, cron : Cron,
        last : Time \cup {Never}, next : Nat]

\* due: when APScheduler fires next; job: the due time of the fire whose job is to be
\* started, once the transaction has committed; synced: the last reconciliation; since:
\* when the process came up.
ProcessState == [up : BOOLEAN, known : Cron \cup {NoCron}, due : Nat,
                 job : Nat, synced : Time, since : Time]

SchedulerTypeOK ==
    /\ time \in Time /\ changed \in Time
    /\ schedule \in Row
    /\ process \in [Process -> ProcessState]
    /\ started \subseteq (Nat \X Time \X Process)
    /\ updates \in 0..MaxUpdates /\ crashes \in 0..MaxCrashes

\* get_next_fire_time: the first fire time at or after a moment
NextFire(cron, t) ==
    LET later == {f \in FireTimes[cron] : f >= t}
    IN IF later = {} THEN Never ELSE CHOOSE f \in later : \A g \in later : f <= g

Down == [up |-> FALSE, known |-> NoCron, due |-> Never, job |-> Never, synced |-> 0,
         since |-> 0]

SchedulerInit ==
    /\ time = 0 /\ changed = 0
    /\ \E c \in Cron, on \in BOOLEAN :
          schedule = [exists |-> TRUE, enabled |-> on, cron |-> c, last |-> Never,
                      next |-> IF on THEN NextFire(c, 1) ELSE Never]
    /\ process = [p \in Process |-> Down]
    /\ started = {} /\ updates = 0 /\ crashes = 0

(***************************************************************************)
(* The API.                                                                *)
(***************************************************************************)
Written == updates < MaxUpdates /\ updates' = updates + 1 /\ changed' = time

\* update: the cron is validated, next_run_at is computed anew
SaveSchedule(c, on) ==
    /\ schedule.exists /\ Written
    /\ schedule' = [schedule EXCEPT !.enabled = on, !.cron = c,
                                    !.next = IF on THEN NextFire(c, time + 1) ELSE Never]
    /\ UNCHANGED <<time, process, started, crashes>>

DeleteSchedule ==
    /\ schedule.exists /\ Written
    /\ schedule' = [schedule EXCEPT !.exists = FALSE]
    /\ UNCHANGED <<time, process, started, crashes>>

(***************************************************************************)
(* A scheduler process.                                                    *)
(***************************************************************************)
Desired == IF schedule.exists /\ schedule.enabled THEN schedule.cron ELSE NoCron

\* Bug: a schedule that is known is not looked at again.
SyncedOnce(row) ==
    [row EXCEPT !.synced = time,
                !.known = IF Desired = NoCron \/ @ = NoCron THEN Desired ELSE @,
                !.due = IF Desired = NoCron THEN Never
                        ELSE IF row.known = NoCron THEN NextFire(Desired, time + 1) ELSE @]

\* sync drops what is gone and adds or replaces what is new or changed
Synced(row) ==
    [row EXCEPT !.synced = time, !.known = Desired,
                !.due = IF Desired = row.known THEN @
                        ELSE IF Desired = NoCron THEN Never ELSE NextFire(Desired, time + 1)]

\* The loop reconciles at once.
Start(p) ==
    /\ ~process[p].up
    /\ process' = [process EXCEPT ![p] = Synced([@ EXCEPT !.up = TRUE, !.since = time])]
    /\ UNCHANGED <<time, schedule, changed, started, updates, crashes>>

DueToSync(p) == process[p].up /\ time = process[p].synced + Reconcile

Reconciled(p) ==
    /\ DueToSync(p)
    /\ process' = [process EXCEPT ![p] = Synced(@)]
    /\ UNCHANGED <<time, schedule, changed, started, updates, crashes>>

Crashed == crashes < MaxCrashes /\ crashes' = crashes + 1

\* The query fails: logged, and tried again an interval later
ReconcileFails(p) ==
    /\ DueToSync(p) /\ Crashed
    /\ process' = [process EXCEPT ![p].synced = time]
    /\ UNCHANGED <<time, schedule, changed, started, updates>>

\* Bug: two ticks that fall together both run
RecentNever == FALSE

Recent == schedule.last # Never /\ time = schedule.last

\* The first transaction of run_due_schedule, under the lock of the row. A second fire
\* while the first still runs is dropped (max_instances = 1).
Fire(p) ==
    /\ process[p].up /\ process[p].due <= time
    /\ \E run \in {/\ process[p].job = Never
                   /\ schedule.exists /\ schedule.enabled /\ ~Recent} :
          /\ process' = [process EXCEPT
                            ![p].due = NextFire(process[p].known, time + 1),
                            ![p].job = IF run THEN process[p].due ELSE @]
          /\ schedule' = IF run THEN [schedule EXCEPT !.last = time,
                                                      !.next = NextFire(schedule.cron, time + 1)]
                         ELSE schedule
    /\ UNCHANGED <<time, changed, started, updates, crashes>>

\* start_job commits the job
StartJob(p) ==
    /\ process[p].job # Never
    /\ started' = started \cup {<<process[p].job, time, p>>}
    /\ process' = [process EXCEPT ![p].job = Never]
    /\ UNCHANGED <<time, schedule, changed, updates, crashes>>

\* start_job raises: logged, and the run is lost
StartJobFails(p) ==
    /\ process[p].job # Never /\ Crashed
    /\ process' = [process EXCEPT ![p].job = Never]
    /\ UNCHANGED <<time, schedule, changed, started, updates>>

Crash(p) ==
    /\ process[p].up /\ Crashed
    /\ process' = [process EXCEPT ![p] = Down]
    /\ UNCHANGED <<time, schedule, changed, started, updates>>

\* Time passes no further than the interval of the loop and the lag of a fire allow.
Tick ==
    /\ time < MaxTime /\ time' = time + 1
    /\ \A p \in Process : process[p].up =>
          /\ time - process[p].synced < Reconcile
          /\ time < process[p].due + Lag
          /\ process[p].job = Never
    /\ UNCHANGED <<schedule, changed, process, started, updates, crashes>>

SchedulerNext ==
    \/ \E c \in Cron, on \in BOOLEAN : SaveSchedule(c, on)
    \/ DeleteSchedule
    \/ \E p \in Process :
          \/ Start(p)
          \/ Reconciled(p)
          \/ ReconcileFails(p)
          \/ Fire(p)
          \/ StartJob(p)
          \/ StartJobFails(p)
          \/ Crash(p)
    \/ Tick

SchedulerSpec == SchedulerInit /\ [][SchedulerNext]_schedulerVars

(***************************************************************************)
(* Properties.                                                             *)
(***************************************************************************)
\* However many processes fire together, one due time of the schedule makes one job, as
\* long as no process is late with a fire by more than the guard of run_due_schedule.
OneJobPerFire ==
    \A a, b \in started : a[1] = b[1] => a = b

\* The schedule was written, and every process was up, early enough to know of t.
SteadyBefore(t) ==
    /\ schedule.exists /\ schedule.enabled /\ crashes = 0
    /\ changed + Reconcile < t
    /\ \E p \in Process : process[p].up /\ process[p].since < t

\* A due time is missed only by a schedule that was written less than a reconciliation
\* before it, while no process was up, or when a process, a query or start_job failed.
NoRunMissed ==
    \A t \in FireTimes[schedule.cron] :
        time > t + Lag /\ SteadyBefore(t) => \E j \in started : j[1] = t \/ j[2] \in t..t + Lag

===============================================================================
