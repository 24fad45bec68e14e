------------------------------ MODULE JobQueue ------------------------------
(***************************************************************************)
(* The background job pipeline of the panel (src/src/v2.rs): the table     *)
(* jobs, the HTTP handlers and the backup-plan ticker that insert into it, *)
(* the two worker tasks that drain it through the agent's socket, the      *)
(* agent's single registry lock, restarts of either process, and the       *)
(* release updater (deploy/apply-release.py) that stops both, and that     *)
(* puts the database back when the new release does not come up.           *)
(*                                                                         *)
(* One action is one SQL statement or one socket exchange: that is where   *)
(* the async code can be interleaved, dropped or killed.                   *)
(***************************************************************************)
EXTENDS Naturals, FiniteSets

CONSTANTS
    Jobs,          \* identifiers of rows of table jobs (a finite pool)
    Owners,        \* rows of table users
    Apps,          \* rows of table resources with kind 'apps'
    OwnerOf,       \* the owner of each application
    Plans,         \* identifiers of rows of table backup_plans
    AppOf,         \* the application of each plan
    Requests,      \* HTTP handlers that can be in flight at once
    Kinds,         \* the job kinds in use, one per behaviour (AllKinds)
    NoOne,         \* null
    PendingLimit,  \* 10 in the code
    AlertLimit,    \* 100 in the code
    TickLimit,     \* 20 in the code: plans read by one tick
    MaxRestarts,   \* bound: restarts of the panel plus restarts of the agent
    MaxUpdates,    \* bound: releases applied
    MaxLostWrites, \* bound: final UPDATEs that fail
    MaxClock       \* bound: seconds that pass

\* One kind per behaviour: "full_backup" stands for every kind that takes the
\* agent's lock and may be retried (also backup_deliver), "runtime" for those
\* that take it and may not (restore_full, tls, panel_tls, egress, ide),
\* "seo" for those served from the saved registry (also integration_test).
AllKinds == {"full_backup", "runtime", "seo", "monitor_alert"}
Retryable == {"full_backup", "seo", "monitor_alert"}
Locked == {"full_backup", "runtime"}

ASSUME ConstantsAssumption ==
    /\ IsFiniteSet(Jobs) /\ IsFiniteSet(Requests)
    /\ Kinds \subseteq AllKinds
    /\ OwnerOf \in [Apps -> Owners]
    /\ AppOf \in [Plans -> Apps]
    /\ NoOne \notin Jobs \cup Owners \cup Apps \cup Plans \cup Requests \cup Kinds
    /\ PendingLimit \in Nat /\ AlertLimit \in Nat /\ TickLimit \in Nat \ {0}
    /\ MaxRestarts \in Nat /\ MaxUpdates \in Nat /\ MaxLostWrites \in Nat
    /\ MaxClock \in Nat

VARIABLES
    row,         \* table jobs: status, kind, app and created of each row
    clock,       \* the newest second used as a creation time
    enabled,     \* users.enabled
    plan,        \* table backup_plans: "absent", "waiting" (next_run > now), "due", "deleted"
    request,     \* where each HTTP handler is
    monitor,     \* the monitoring task: the time and the accounts its tick has read
    writes,      \* who holds the panel's writes mutex
    ticker,      \* the plan task: the rows it read, and where it is
    worker,      \* the two worker tasks
    op,          \* what became of each job's operation inside the agent
    dispatches,  \* how often each job was sent to the agent
    overtaken,   \* history: how often a younger job of its account started before it
    holder,      \* the job whose operation holds the agent's registry lock
    dbLocked,    \* the updater holds the database's write lock
    trial,       \* a new release runs, and the updater has not yet accepted it
    saved,       \* the recovery snapshot of the database while a release is on trial
    rollbacks,   \* how often the database was put back
    restarts, updates, lostWrites

panelVars == <<row, clock, enabled, plan, request, monitor, writes, ticker, worker>>
agentVars == <<op, dispatches, overtaken, holder>>
updaterVars == <<dbLocked, trial, saved, rollbacks, updates>>
boundVars == <<updaterVars, restarts, lostWrites>>
vars == <<panelVars, agentVars, boundVars>>

-----------------------------------------------------------------------------
(* Rows, classes and counts. *)

Statuses == {"free", "queued", "running", "succeeded", "failed", "interrupted"}
Finished == {"succeeded", "failed", "interrupted"}
OpStates == {"none", "waiting", "executing", "ok", "err", "cut"}
Workers == {"general", "alerts"}

FreeRow == [status |-> "free", kind |-> NoOne, app |-> NoOne, created |-> 0]
IdleRequest == [pc |-> "idle", kind |-> NoOne, app |-> NoOne, created |-> 0]
IdleMonitor == [now |-> 0, accounts |-> {}]
IdleTicker == [pc |-> "idle", batch |-> {}, at |-> NoOne, created |-> 0]
IdleWorker == [pc |-> "idle", job |-> NoOne]

InUse(j) == row[j].status # "free"
Owner(j) == OwnerOf[row[j].app]
ClassOf(k) == IF k = "monitor_alert" THEN "alerts" ELSE "general"

Pending(o) == {j \in Jobs : row[j].status \in {"queued", "running"} /\ Owner(j) = o}

\* enqueue's count: alerts and ordinary jobs share it, the limits differ.
HasRoom(o, k) ==
    Cardinality(Pending(o)) < (IF k = "monitor_alert" THEN AlertLimit ELSE PendingLimit)

NewRow(k, a, t) == [status |-> "queued", kind |-> k, app |-> a, created |-> t]

\* The time is read. Creation times are whole seconds, so rows can tie.
Now == clock' \in {clock, clock + 1} /\ clock' <= MaxClock

\* enqueue's INSERT. The time t was read when the count came back; the statement may
\* have waited for a connection since.
Insert(j, k, a, t) ==
    /\ ~dbLocked /\ ~InUse(j)
    /\ row' = [row EXCEPT ![j] = NewRow(k, a, t)]

NoSnapshot ==
    [row |-> [j \in Jobs |-> FreeRow], enabled |-> [o \in Owners |-> TRUE],
     plan |-> [p \in Plans |-> "absent"]]

Init ==
    /\ row = [j \in Jobs |-> FreeRow]
    /\ clock = 0
    /\ enabled = [o \in Owners |-> TRUE]
    /\ plan = [p \in Plans |-> "absent"]
    /\ request = [h \in Requests |-> IdleRequest]
    /\ monitor = IdleMonitor
    /\ writes = NoOne
    /\ ticker = IdleTicker
    /\ worker = [w \in Workers |-> IdleWorker]
    /\ op = [j \in Jobs |-> "none"]
    /\ dispatches = [j \in Jobs |-> 0]
    /\ overtaken = [j \in Jobs |-> 0]
    /\ holder = NoOne
    /\ dbLocked = FALSE /\ trial = FALSE /\ saved = NoSnapshot
    /\ rollbacks = 0 /\ restarts = 0 /\ updates = 0 /\ lostWrites = 0

-----------------------------------------------------------------------------
(* HTTP handlers. *)

\* A handler that has the count, has read the time, and is about to insert.
Counted(k, a) == [pc |-> "insert", kind |-> k, app |-> a, created |-> clock']

\* POST /v2/jobs up to enqueue's SELECT count(*), under the writes mutex.
Queue(h, k, a) ==
    /\ request[h].pc = "idle" /\ writes = NoOne
    /\ k # "monitor_alert" /\ HasRoom(OwnerOf[a], k)
    /\ writes' = h
    /\ Now
    /\ request' = [request EXCEPT ![h] = Counted(k, a)]
    /\ UNCHANGED <<row, enabled, plan, ticker, worker, monitor, agentVars, boundVars>>

\* Mutant: retry forgets enqueue's limit.
RetryUncounted(h, j) ==
    /\ request[h].pc = "idle"
    /\ row[j].status \in {"failed", "interrupted"} /\ row[j].kind \in Retryable
    /\ Now
    /\ request' = [request EXCEPT ![h] = Counted(row[j].kind, row[j].app)]
    /\ UNCHANGED <<row, enabled, plan, monitor, writes, ticker, worker, agentVars, boundVars>>

\* Mutant: retry puts the old row back in the queue.
RetryInPlace(h, j) ==
    /\ request[h].pc = "idle"
    /\ row[j].status \in {"failed", "interrupted"} /\ row[j].kind \in Retryable
    /\ HasRoom(Owner(j), row[j].kind)
    /\ row' = [row EXCEPT ![j].status = "queued"]
    /\ UNCHANGED <<request, clock, enabled, plan, monitor, writes, ticker, worker, agentVars, boundVars>>

\* POST /v2/jobs/{id}/retry up to enqueue's count: no mutex. The old row stays.
Retry(h, j) ==
    /\ request[h].pc = "idle"
    /\ row[j].status \in {"failed", "interrupted"} /\ row[j].kind \in Retryable
    /\ HasRoom(Owner(j), row[j].kind)
    /\ Now
    /\ request' = [request EXCEPT ![h] = Counted(row[j].kind, row[j].app)]
    /\ UNCHANGED <<row, enabled, plan, monitor, writes, ticker, worker, agentVars, boundVars>>

\* enqueue's INSERT, for either handler; the mutex is released on return.
InsertJob(h, j) ==
    /\ request[h].pc = "insert"
    /\ Insert(j, request[h].kind, request[h].app, request[h].created)
    /\ request' = [request EXCEPT ![h] = IdleRequest]
    /\ writes' = IF writes = h THEN NoOne ELSE writes
    /\ UNCHANGED <<clock, enabled, plan, ticker, worker, monitor, agentVars, boundVars>>

\* The client goes away, or the INSERT fails: the handler is dropped.
Drop(h) ==
    /\ request[h].pc = "insert"
    /\ request' = [request EXCEPT ![h] = IdleRequest]
    /\ writes' = IF writes = h THEN NoOne ELSE writes
    /\ UNCHANGED <<row, clock, enabled, plan, ticker, worker, monitor, agentVars, boundVars>>

\* update_user as the queue sees it: what it does to sessions, passwords and the
\* tenant's IDE is not state of this module.
SetEnabled(o) ==
    /\ writes = NoOne /\ ~dbLocked
    /\ enabled' = [enabled EXCEPT ![o] = ~enabled[o]]
    /\ UNCHANGED <<row, clock, plan, request, monitor, writes, ticker, worker, agentVars, boundVars>>

SavePlan(p) ==
    /\ ~dbLocked /\ plan[p] = "absent"
    /\ plan' = [plan EXCEPT ![p] = "waiting"]
    /\ UNCHANGED <<row, clock, enabled, request, monitor, writes, ticker, worker, agentVars, boundVars>>

DeletePlan(p) ==
    /\ ~dbLocked /\ plan[p] \in {"waiting", "due"}
    /\ plan' = [plan EXCEPT ![p] = "deleted"]
    /\ UNCHANGED <<row, clock, enabled, request, monitor, writes, ticker, worker, agentVars, boundVars>>

-----------------------------------------------------------------------------
(* The panel's own tasks: monitoring and the backup-plan ticker. *)

\* monitoring::tick reads the time and the sites of enabled accounts that are due.
MonitorReads ==
    /\ "monitor_alert" \in Kinds /\ monitor = IdleMonitor
    /\ Now
    /\ monitor' = [now |-> clock', accounts |-> {o \in Owners : enabled[o]}]
    /\ UNCHANGED <<row, enabled, plan, request, writes, ticker, worker, agentVars, boundVars>>

\* Some probes later: a transition to or from "down" inserts an alert, with no limit,
\* and with the time of the tick.
MonitorAlert(j, a) ==
    /\ "monitor_alert" \in Kinds /\ OwnerOf[a] \in monitor.accounts
    /\ ~dbLocked /\ ~InUse(j)
    /\ row' = [row EXCEPT ![j] = NewRow("monitor_alert", a, monitor.now)]
    /\ UNCHANGED <<clock, enabled, plan, request, monitor, writes, ticker, worker,
                   agentVars, boundVars>>

\* The tick is over, or one of its statements failed.
MonitorEnds ==
    /\ monitor # IdleMonitor
    /\ monitor' = IdleMonitor
    /\ UNCHANGED <<row, clock, enabled, plan, request, writes, ticker, worker,
                   agentVars, boundVars>>

\* next_run passes.
PlanFallsDue(p) ==
    /\ plan[p] = "waiting"
    /\ plan' = [plan EXCEPT ![p] = "due"]
    /\ UNCHANGED <<row, clock, enabled, request, monitor, writes, ticker, worker, agentVars, boundVars>>

DuePlans == {p \in Plans : plan[p] = "due" /\ enabled[OwnerOf[AppOf[p]]]}

BackupPending(a) ==
    \E j \in Jobs : /\ row[j].status \in {"queued", "running"}
                    /\ row[j].kind = "full_backup" /\ row[j].app = a

\* plan_tick's SELECT ... LIMIT 20, without an ORDER BY.
TickRead ==
    /\ ticker.pc = "idle"
    /\ \E batch \in SUBSET DuePlans :
        /\ batch # {} /\ Cardinality(batch) <= TickLimit
        /\ batch = DuePlans \/ Cardinality(batch) = TickLimit
        /\ ticker' = [IdleTicker EXCEPT !.pc = "next", !.batch = batch]
    /\ UNCHANGED <<row, clock, enabled, plan, request, monitor, writes, worker, agentVars, boundVars>>

\* The next row of the batch: skip it if a backup of its application is pending.
TickPending(p) ==
    /\ ticker.pc = "next" /\ p \in ticker.batch
    /\ ticker' = [ticker EXCEPT !.pc = IF BackupPending(AppOf[p]) THEN "advance" ELSE "count",
                                !.at = p]
    /\ UNCHANGED <<row, clock, enabled, plan, request, monitor, writes, worker, agentVars, boundVars>>

\* enqueue's count, without the mutex.
TickCount ==
    /\ ticker.pc = "count" /\ HasRoom(OwnerOf[AppOf[ticker.at]], "full_backup")
    /\ Now
    /\ ticker' = [ticker EXCEPT !.pc = "insert", !.created = clock']
    /\ UNCHANGED <<row, enabled, plan, request, monitor, writes, worker, agentVars, boundVars>>

\* One account without room ends the tick for the plans of all accounts.
TickGivesUp ==
    /\ ticker.pc = "count" /\ ~HasRoom(OwnerOf[AppOf[ticker.at]], "full_backup")
    /\ ticker' = IdleTicker
    /\ UNCHANGED <<row, clock, enabled, plan, request, monitor, writes, worker, agentVars, boundVars>>

TickInsert(j) ==
    /\ ticker.pc = "insert" /\ "full_backup" \in Kinds
    /\ Insert(j, "full_backup", AppOf[ticker.at], ticker.created)
    /\ ticker' = [ticker EXCEPT !.pc = "advance", !.created = 0]
    /\ UNCHANGED <<clock, enabled, plan, request, monitor, writes, worker, agentVars, boundVars>>

\* UPDATE backup_plans SET next_run: nothing to update if the plan was deleted.
TickAdvance ==
    /\ ticker.pc = "advance" /\ ~dbLocked
    /\ plan' = [plan EXCEPT ![ticker.at] = IF @ = "due" THEN "waiting" ELSE @]
    /\ LET rest == ticker.batch \ {ticker.at} IN
        ticker' = IF rest = {} THEN IdleTicker
                  ELSE [IdleTicker EXCEPT !.pc = "next", !.batch = rest]
    /\ UNCHANGED <<row, clock, enabled, request, monitor, writes, worker, agentVars, boundVars>>

\* A statement waits longer than the busy timeout: the error ends the tick.
TickFails ==
    /\ dbLocked /\ ticker.pc \in {"insert", "advance"}
    /\ ticker' = IdleTicker
    /\ UNCHANGED <<row, clock, enabled, plan, request, monitor, writes, worker, agentVars, boundVars>>

-----------------------------------------------------------------------------
(* The workers (run_one). *)

Runnable(w) ==
    {j \in Jobs : row[j].status = "queued" /\ ClassOf(row[j].kind) = w /\ enabled[Owner(j)]}

\* Mutant: the query loses its ORDER BY.
SelectUnordered(w) ==
    /\ worker[w].pc = "idle"
    /\ \E j \in Runnable(w) :
        worker' = [worker EXCEPT ![w] = [pc |-> "selected", job |-> j]]
    /\ UNCHANGED <<row, clock, enabled, plan, request, monitor, writes, ticker, agentVars, boundVars>>

\* Mutant: the account is checked after the oldest row was chosen, not in the query.
SelectOldestThenCheck(w) ==
    /\ worker[w].pc = "idle"
    /\ \E j \in Runnable(w) :
        /\ \A i \in Jobs : row[i].status = "queued" /\ ClassOf(row[i].kind) = w
                           => row[j].created <= row[i].created
        /\ worker' = [worker EXCEPT ![w] = [pc |-> "selected", job |-> j]]
    /\ UNCHANGED <<row, clock, enabled, plan, request, monitor, writes, ticker, agentVars, boundVars>>

\* SELECT ... WHERE queued AND enabled ORDER BY created LIMIT 1.
Select(w) ==
    /\ worker[w].pc = "idle"
    /\ \E j \in Runnable(w) :
        /\ \A i \in Runnable(w) : row[j].created <= row[i].created
        /\ worker' = [worker EXCEPT ![w] = [pc |-> "selected", job |-> j]]
    /\ UNCHANGED <<row, clock, enabled, plan, request, monitor, writes, ticker, agentVars, boundVars>>

\* The older jobs of the same account and class that the selected job leaves behind.
Passed(w) ==
    LET j == worker[w].job IN
    {i \in Jobs : /\ row[i].status = "queued" /\ ClassOf(row[i].kind) = w
                  /\ Owner(i) = Owner(j) /\ row[i].created < row[j].created}

\* Mutant: the updater's check does not keep the workers from writing.
MarkRunningUnlocked(w) ==
    /\ worker[w].pc = "selected"
    /\ row' = [row EXCEPT ![worker[w].job].status = "running"]
    /\ worker' = [worker EXCEPT ![w].pc = "marked"]
    /\ overtaken' = [i \in Jobs |-> overtaken[i] + IF i \in Passed(w) THEN 1 ELSE 0]
    /\ UNCHANGED <<clock, enabled, plan, request, monitor, writes, ticker, op, dispatches,
                   holder, boundVars>>

\* UPDATE jobs SET status='running' WHERE id=?
MarkRunning(w) ==
    /\ worker[w].pc = "selected" /\ ~dbLocked
    /\ row' = [row EXCEPT ![worker[w].job].status = "running"]
    /\ worker' = [worker EXCEPT ![w].pc = "marked"]
    /\ overtaken' = [i \in Jobs |-> overtaken[i] + IF i \in Passed(w) THEN 1 ELSE 0]
    /\ UNCHANGED <<clock, enabled, plan, request, monitor, writes, ticker, op, dispatches,
                   holder, boundVars>>

\* The same UPDATE while the updater holds the database: busy, back to the loop.
MarkFails(w) ==
    /\ worker[w].pc = "selected" /\ dbLocked
    /\ worker' = [worker EXCEPT ![w] = IdleWorker]
    /\ UNCHANGED <<row, clock, enabled, plan, request, monitor, writes, ticker, agentVars, boundVars>>

\* The request is written to the agent's socket. A connection that is refused is
\* a dispatch that AgentRestart cuts.
Dispatch(w) ==
    /\ worker[w].pc = "marked"
    /\ LET j == worker[w].job IN
        /\ op' = [op EXCEPT ![j] = IF row[j].kind \in Locked THEN "waiting" ELSE "executing"]
        /\ dispatches' = [dispatches EXCEPT ![j] = @ + 1]
    /\ worker' = [worker EXCEPT ![w].pc = "calling"]
    /\ UNCHANGED <<row, clock, enabled, plan, request, monitor, writes, ticker, overtaken, holder,
                   boundVars>>

\* Mutant: the outcome is stored as the agent words it.
ReplyVerbatim(w) ==
    /\ worker[w].pc = "calling" /\ ~dbLocked
    /\ LET j == worker[w].job IN
        /\ op[j] \in {"ok", "err", "cut"}
        /\ row' = [row EXCEPT ![j].status = op[j]]
    /\ worker' = [worker EXCEPT ![w] = IdleWorker]
    /\ UNCHANGED <<clock, enabled, plan, request, monitor, writes, ticker, agentVars, boundVars>>

\* Mutant: only an error answer counts as a failure, a connection that ends does not.
ReplyTrustsSilence(w) ==
    /\ worker[w].pc = "calling" /\ ~dbLocked
    /\ LET j == worker[w].job IN
        /\ op[j] \in {"ok", "err", "cut"}
        /\ row' = [row EXCEPT ![j].status = IF op[j] = "err" THEN "failed" ELSE "succeeded"]
    /\ worker' = [worker EXCEPT ![w] = IdleWorker]
    /\ UNCHANGED <<clock, enabled, plan, request, monitor, writes, ticker, agentVars, boundVars>>

\* The answer, or the end of the connection, and the final UPDATE.
Reply(w) ==
    /\ worker[w].pc = "calling" /\ ~dbLocked
    /\ LET j == worker[w].job IN
        /\ op[j] \in {"ok", "err", "cut"}
        /\ row' = [row EXCEPT ![j].status = IF op[j] = "ok" THEN "succeeded" ELSE "failed"]
    /\ worker' = [worker EXCEPT ![w] = IdleWorker]
    /\ UNCHANGED <<clock, enabled, plan, request, monitor, writes, ticker, agentVars, boundVars>>

\* 3600 s pass. The agent is not told: its operation goes on.
Timeout(w) ==
    /\ worker[w].pc = "calling" /\ ~dbLocked
    /\ LET j == worker[w].job IN
        /\ op[j] \in {"waiting", "executing"}
        /\ row' = [row EXCEPT ![j].status = "failed"]
    /\ worker' = [worker EXCEPT ![w] = IdleWorker]
    /\ UNCHANGED <<clock, enabled, plan, request, monitor, writes, ticker, agentVars, boundVars>>

\* The call ends but the final UPDATE fails: the row keeps saying "running".
ResultLost(w) ==
    /\ worker[w].pc = "calling" /\ lostWrites < MaxLostWrites
    /\ lostWrites' = lostWrites + 1
    /\ worker' = [worker EXCEPT ![w] = IdleWorker]
    /\ UNCHANGED <<row, clock, enabled, plan, request, monitor, writes, ticker,
                   agentVars, updaterVars, restarts>>

-----------------------------------------------------------------------------
(* The agent. *)

AgentLock(j) ==
    /\ op[j] = "waiting" /\ holder = NoOne
    /\ op' = [op EXCEPT ![j] = "executing"]
    /\ holder' = j
    /\ UNCHANGED <<panelVars, dispatches, overtaken, boundVars>>

AgentFinish(j) ==
    /\ op[j] = "executing"
    /\ \E result \in {"ok", "err"} : op' = [op EXCEPT ![j] = result]
    /\ holder' = IF holder = j THEN NoOne ELSE holder
    /\ UNCHANGED <<panelVars, dispatches, overtaken, boundVars>>

CutOperations ==
    /\ op' = [j \in Jobs |-> IF op[j] \in {"waiting", "executing"} THEN "cut" ELSE op[j]]
    /\ holder' = NoOne

AgentRestart ==
    /\ restarts < MaxRestarts
    /\ restarts' = restarts + 1
    /\ CutOperations
    /\ UNCHANGED <<panelVars, dispatches, overtaken, updaterVars, lostWrites>>

-----------------------------------------------------------------------------
(* Restart of the panel, and the updater. *)

\* Mutant: a restart puts running jobs back in the queue.
InterruptRequeues(table) ==
    row' = [j \in Jobs |-> IF table[j].status = "running"
                           THEN [table[j] EXCEPT !.status = "queued"] ELSE table[j]]

\* start()'s UPDATE of the table that the new process finds.
Interrupt(table) ==
    row' = [j \in Jobs |-> IF table[j].status = "running"
                           THEN [table[j] EXCEPT !.status = "interrupted"] ELSE table[j]]

\* Every task dies with the old process; start() runs before the first request.
PanelStarts(table) ==
    /\ Interrupt(table)
    /\ request' = [h \in Requests |-> IdleRequest]
    /\ monitor' = IdleMonitor
    /\ writes' = NoOne
    /\ ticker' = IdleTicker
    /\ worker' = [w \in Workers |-> IdleWorker]
    /\ UNCHANGED clock

PanelRestart ==
    /\ restarts < MaxRestarts /\ ~dbLocked
    /\ restarts' = restarts + 1
    /\ PanelStarts(row)
    /\ UNCHANGED <<enabled, plan, agentVars, updaterVars, lostWrites>>

Running == {j \in Jobs : row[j].status = "running"}

\* BEGIN IMMEDIATE, then the count of running jobs: defer, or go on with the lock.
UpdateBegins ==
    /\ updates < MaxUpdates /\ ~dbLocked /\ ~trial /\ Running = {}
    /\ dbLocked' = TRUE
    /\ UNCHANGED <<panelVars, agentVars, trial, saved, rollbacks, updates, restarts, lostWrites>>

\* systemctl stop of both services, still under the lock; then the recovery snapshot,
\* the new binaries, and systemctl start.
UpdateStops ==
    /\ dbLocked
    /\ dbLocked' = FALSE /\ updates' = updates + 1
    /\ trial' = TRUE /\ saved' = [row |-> row, enabled |-> enabled, plan |-> plan]
    /\ PanelStarts(row)
    /\ CutOperations
    /\ UNCHANGED <<enabled, plan, dispatches, overtaken, rollbacks, restarts, lostWrites>>

\* The new release answers its health check.
UpdateCommits ==
    /\ trial
    /\ trial' = FALSE /\ saved' = NoSnapshot
    /\ UNCHANGED <<panelVars, agentVars, dbLocked, rollbacks, updates, restarts, lostWrites>>

\* It does not, within its 40 attempts: both services are stopped whatever they do, and
\* the old release starts on the snapshot. Jobs that were accepted during the trial are
\* gone (their identifiers are free again), and the others are as they were before it.
UpdateRollsBack ==
    /\ trial
    /\ trial' = FALSE /\ saved' = NoSnapshot /\ rollbacks' = rollbacks + 1
    /\ PanelStarts(saved.row)
    /\ enabled' = saved.enabled /\ plan' = saved.plan
    /\ op' = [j \in Jobs |-> IF saved.row[j].status = "free" THEN "none"
                             ELSE IF op[j] \in {"waiting", "executing"} THEN "cut" ELSE op[j]]
    /\ dispatches' = [j \in Jobs |-> IF saved.row[j].status = "free" THEN 0 ELSE dispatches[j]]
    /\ overtaken' = [j \in Jobs |-> IF saved.row[j].status = "free" THEN 0 ELSE overtaken[j]]
    /\ holder' = NoOne
    /\ UNCHANGED <<dbLocked, updates, restarts, lostWrites>>

-----------------------------------------------------------------------------
RequestStep ==
    \E h \in Requests :
        \/ \E k \in Kinds, a \in Apps : Queue(h, k, a)
        \/ \E j \in Jobs : Retry(h, j) \/ InsertJob(h, j)
        \/ Drop(h)
AccountStep == \E o \in Owners : SetEnabled(o)
PlanStep == \E p \in Plans : SavePlan(p) \/ DeletePlan(p) \/ PlanFallsDue(p)
MonitorStep == MonitorReads \/ MonitorEnds \/ \E j \in Jobs, a \in Apps : MonitorAlert(j, a)
TickStep ==
    \/ TickRead \/ TickCount \/ TickGivesUp \/ TickAdvance \/ TickFails
    \/ \E p \in Plans : TickPending(p)
    \/ \E j \in Jobs : TickInsert(j)
WorkerStep(w) ==
    \/ Select(w) \/ MarkRunning(w) \/ MarkFails(w) \/ Dispatch(w)
    \/ Reply(w) \/ Timeout(w) \/ ResultLost(w)
AgentStep == \E j \in Jobs : AgentLock(j) \/ AgentFinish(j)
FaultStep == AgentRestart \/ PanelRestart
UpdaterStep == UpdateBegins \/ UpdateStops \/ UpdateCommits \/ UpdateRollsBack

Next ==
    \/ RequestStep \/ AccountStep \/ PlanStep \/ MonitorStep \/ TickStep
    \/ \E w \in Workers : WorkerStep(w)
    \/ AgentStep \/ FaultStep \/ UpdaterStep

Spec == Init /\ [][Next]_vars

\* A worker task loops for ever, and a call to the agent ends within 3600 s whatever
\* the agent does (agent_call_timeout); the updater ends by stopping the services.
WorkerProgress(w) ==
    Select(w) \/ MarkRunning(w) \/ MarkFails(w) \/ Dispatch(w) \/ Reply(w) \/ Timeout(w)
FairSpec ==
    Spec /\ (\A w \in Workers : WF_vars(WorkerProgress(w))) /\ WF_vars(UpdateStops)

-----------------------------------------------------------------------------
(* Properties. *)

PlanStates == {"absent", "waiting", "due", "deleted"}
RowType == [status : Statuses, kind : Kinds \cup {NoOne}, app : Apps \cup {NoOne},
            created : Nat]

\* Every table, task and handler holds values of its type; only a free row has no
\* kind and no application, and a worker's job is a row of the table.
TypeOK ==
    /\ row \in [Jobs -> RowType]
    /\ \A j \in Jobs : InUse(j) => row[j].kind \in Kinds /\ row[j].app \in Apps
    /\ clock \in Nat
    /\ enabled \in [Owners -> BOOLEAN]
    /\ plan \in [Plans -> PlanStates]
    /\ request \in [Requests -> [pc : {"idle", "insert"}, kind : Kinds \cup {NoOne},
                                 app : Apps \cup {NoOne}, created : Nat]]
    /\ \A h \in Requests :
          request[h].pc = "insert" => request[h].kind \in Kinds /\ request[h].app \in Apps
    /\ monitor \in [now : Nat, accounts : SUBSET Owners]
    /\ writes \in Requests \cup {NoOne}
    /\ ticker \in [pc : {"idle", "next", "count", "insert", "advance"},
                   batch : SUBSET Plans, at : Plans \cup {NoOne}, created : Nat]
    /\ ticker.pc \in {"count", "insert", "advance"} => ticker.at \in Plans
    /\ worker \in [Workers -> [pc : {"idle", "selected", "marked", "calling"},
                               job : Jobs \cup {NoOne}]]
    /\ \A w \in Workers :
          worker[w].pc # "idle" => worker[w].job \in Jobs /\ InUse(worker[w].job)
    /\ op \in [Jobs -> OpStates]
    /\ dispatches \in [Jobs -> Nat] /\ overtaken \in [Jobs -> Nat]
    /\ holder \in Jobs \cup {NoOne}
    /\ dbLocked \in BOOLEAN /\ trial \in BOOLEAN
    /\ saved \in [row : [Jobs -> RowType], enabled : [Owners -> BOOLEAN],
                  plan : [Plans -> PlanStates]]
    /\ \A j \in Jobs : saved.row[j].status # "free"
                      => saved.row[j].kind \in Kinds /\ saved.row[j].app \in Apps
    /\ rollbacks \in Nat /\ restarts \in Nat /\ updates \in Nat /\ lostWrites \in Nat

\* A job is sent to the agent at most once in its life, whatever restarts, is lost or
\* times out: only a release that is rolled back, and the database with it, can make the
\* panel forget that it sent a job that may have acted on the host.
DispatchedAtMostOnce == \A j \in Jobs : dispatches[j] <= 1 + rollbacks

\* The job list does not lie: "succeeded" means that the agent completed the operation,
\* even in a table that was put back, and a job that is "queued" has not touched the
\* host, unless a rollback put it back in the queue.
StatusTellsTruth ==
    \A j \in Jobs :
        /\ row[j].status = "succeeded" => op[j] = "ok"
        /\ row[j].status \in {"free", "queued"} => op[j] = "none" \/ rollbacks > 0

OrdinaryPending(o) == {j \in Pending(o) : row[j].kind # "monitor_alert"}
AboutToInsert(o) ==
    {h \in Requests : /\ request[h].pc = "insert" /\ request[h].kind # "monitor_alert"
                      /\ OwnerOf[request[h].app] = o}
TickAboutToInsert(o) ==
    IF ticker.pc = "insert" /\ OwnerOf[AppOf[ticker.at]] = o THEN 1 ELSE 0

\* Counting and inserting are two statements, and retry and the ticker do not hold the
\* mutex between them: the pending limit of an account can be overrun, but by no more
\* than the handlers that were in between at once.
OverrunIsBounded ==
    \A o \in Owners :
        Cardinality(OrdinaryPending(o)) + Cardinality(AboutToInsert(o)) + TickAboutToInsert(o)
            <= PendingLimit + Cardinality(Requests)

\* A finished job keeps its outcome for ever: retry makes a new row, a late answer of
\* the agent finds no task waiting, a restart only marks rows that are running, and even
\* a rollback keeps what was finished before the release.
FinishedIsFinal ==
    [][\A j \in Jobs :
        /\ row[j].status \in Finished
        /\ rollbacks' # rollbacks => saved.row[j].status \in Finished
        => row'[j] = row[j]]_vars

\* Jobs start in order, nearly: the creation time is read before the INSERT, and the
\* oldest row is chosen in one statement and marked in another, so an older job can
\* arrive too late for the choice. But it is left behind at most once, whatever other
\* handlers, tasks, suspensions, restarts and rollbacks come in between.
OvertakenAtMostOnce == \A j \in Jobs : overtaken[j] <= 1

\* "A worker cannot start a new provisioning job between the check and the shutdown"
\* (apply-release.py): applying a release cuts no call of a worker and interrupts no job.
UpdateCutsNoJob ==
    [][updates' # updates => /\ Running = {}
                             /\ \A w \in Workers : worker[w].pc # "calling"]_vars

\* A queued job of an account that stays enabled ends, even if the agent never answers,
\* older jobs belong to suspended accounts, or either process restarts; the exceptions are
\* a final UPDATE that is lost and a release that is rolled back.
QueuedJobEnds ==
    \A j \in Jobs :
        row[j].status = "queued"
            ~> \/ row[j].status \in Finished
               \/ lostWrites > 0 \/ rollbacks > 0
               \/ InUse(j) /\ ~enabled[Owner(j)]
=============================================================================
