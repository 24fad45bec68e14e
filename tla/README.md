# CGPanel in TLA+

This directory holds a formal model of CGPanel: modules that translate the control of the
Rust program (and of the scripts that deploy it), TLC configurations that check them on small
instances, and theorems that TLAPS proves for every instance. Paths below are relative to the
repository.

## The system

Two long-running processes, a database and the host:

    browser / API client
        | HTTP
    cgpanel            (user cgpanel)  axum handlers, 2 workers, plan ticker, monitor
        |  SQLite panel.db (pool of 5 connections, WAL, busy_timeout 10 s)
        | Unix socket, one request per connection, no request identifiers
    cgpanel-agent      (root)          one Mutex<Registry>, saved to registry.json
        | podman, nginx, bind, MariaDB, PostgreSQL, nftables, systemd ...
    host

`deploy/apply-release.py` and `deploy/updater.py` replace both processes while they run.

| Component | Source | State | Operations | Hard behaviour | What makes it correct |
|---|---|---|---|---|---|
| Job queue | `src/v2.rs` | table `jobs`, `backup_plans`, the `writes` mutex, two worker tasks | queue, retry, plan tick, alert insert, run_one, start | two statements where one is needed, restarts, timeouts, answers that come late or never | a job runs at most once, its status is true and final, nobody starves, limits |
| Release updater | `deploy/apply-release.py` | the database lock, the recovery snapshot | check, stop, start, health check, rollback | races with the workers; time goes backwards in a rollback | nothing running is cut, what was finished stays |
| Agent dispatch | `src/agent.rs` 1323-1416, `src/lib.rs` 136-163 | registry mutex, registry.json | one task per connection; locked or from the saved registry | the caller gives up, the agent does not | one change at a time; alerts are not blocked by backups |
| Provisioning | `src/main.rs` create/remove_resource, app_action; `src/agent.rs` | table `resources`, the registry, the host | create, remove, start, stop, limits | two registries and a host without a transaction; crash, timeout, dropped handler | what exists is known to someone who can remove it |
| Accounts | `src/main.rs` login .. change_password, `src/mfa.rs`, `src/admin_api.rs` | `users`, `sessions`, `user_mfa`, `mfa_pending`, `mfa_recovery`, `api_tokens` | login, logout, change password, update user, MFA, tokens | handlers that interleave between statements, or are dropped there | a change of password or a suspension ends access; a code is used once |
| Budgets, ports | `src/resources_agent.rs`, `src/workspace_agent.rs` | budgets and allocations in the registry, counter `ports` | check, set_budget, set limits | order of changes, counter at its limit | used <= budget, ports unique |
| Containers | `src/workspace_agent.rs`, `src/egress_agent.rs` | containers of an application | runtime switch, IDE, egress | each has a rollback of its own | an application that ran still runs |
| Backups | `src/backups_agent.rs`, `src/backup_import.rs`, `src/s3_upload.rs`, `src/transfers_agent.rs` | archives, uploads, registry entries | create, deliver, retain, import, restore | quiesce and resume on every path, crash in the middle, writes that come late | no good backup is lost, the application resumes, an import is whole |
| DNS, TLS | `src/tls_agent.rs`, `src/acme_hook.rs`, `src/agent.rs` dns_sync | zone files, files of challenges | sync, challenge, issue | two processes, one file lock | serials grow, no lost record or challenge |
| Schedules | `src/cron_agent.rs`, `src/schedule.rs` | schedules in the registry | create, delete, collect, run, record | commands run outside the lock | each occurrence runs, and once |
| Protection | `src/protection.rs`, `src/protection_agent.rs` | `website_*` tables, the rendered gate | configure, challenge, solve, verify | stale settings, calls given up and carried out | panel, web server and passes agree |
| File manager | `src/workspace.rs`, `src/workspace_agent.rs` files, `web/workspace.js` | files of a workspace, uploads under hidden names | upload in chunks, rename, move, trash, edit | one process per request, no lock | uploads are whole, nothing is overwritten unseen |
| Monitoring | `src/monitoring.rs` | `monitor_settings`, checks | tick, configure | stale row written back | two failures make "down", one alert per change |
| Others | mail, services, integrations, consoles, documentation, web UI | registry maps, files | forwarding, rendering, streaming | little control | not planned |

Components interact in four ways: panel handlers and workers call the agent over the socket;
panel tasks share the database, where each statement is atomic and hardly anything is wrapped
in a transaction; handlers that provision share the `writes` mutex; agent operations share the
registry mutex. A client that goes away makes axum drop its handler at its next `await`; tasks
started with `tokio::spawn` (the workers, the ticker, the monitor, every agent operation) are
not dropped.

The hazards of each component, with their lines, are the list "hazards" of `PROJECT.json`.

## Plan

Done, each described below:

1. `JobQueue`, with `JobQueueProofs`.
2. `Provisioning`, the abstract `Catalogue` it implements, and `ProvisioningProofs`.
3. `Backup`, with `BackupProofs`.
4. `Container`, the budgets, allocations and ports containers share, with `ContainerProofs` and,
   about the host and its ports, `HostProofs`.
5. `Accounts`, with `AccountsProofs`.
6. `Schedules`, `Zones`, `Workspace`, `Import` and `Protection`, checked together in `MCParts`, with
   `UploadProofs` (for `Workspace` and `Import`) and `PartsProofs` (for the other three).

Every invariant and action property of a passing run is stated by a theorem. What is left to TLC are
the two liveness properties, `QueuedJobEnds` of `JobQueue` and `DueIsStarted` of `Schedules`: they
rest on fairness, of which the prover can reason only through ENABLED.

## JobQueue

| In the module | In the code |
|---|---|
| `row` | table `jobs`: status, kind, target application, `created` in whole seconds |
| `clock` | `chrono::Utc::now().timestamp()`, as far as rows carry it |
| `enabled`, `plan` | `users.enabled`; `backup_plans` with `next_run` reduced to "passed or not" |
| `request[h]`, `writes` | a handler between the count and the INSERT of `enqueue`; the owner of `app.writes` |
| `monitor` | the local variables of `monitoring::tick` |
| `ticker` | the local variables of `plan_tick` |
| `worker[w]` | the two tasks of `start`: "general", and "alerts" for `monitor_alert` |
| `op`, `holder` | what became of the operation in the agent; the registry mutex |
| `dbLocked`, `trial`, `saved` | `BEGIN IMMEDIATE` of `apply-release.py`; its health check; its snapshot |
| `dispatches`, `overtaken`, `rollbacks` | history: nothing in the code reads it |

An action is one SQL statement, one socket exchange, or one step of the script, because that is
where the code can be interleaved, dropped or killed. `Queue` and `Retry` end at the count of
`enqueue` (with the time, which is read before the INSERT waits for a connection), `InsertJob` is
the INSERT, `Drop` a client that went away in between. `Select`, `MarkRunning`, `Dispatch` and
`Reply` are the four awaits of `run_one`, with `MarkFails`, `Timeout` and `ResultLost` for the
ways they fail. `AgentRestart` and `PanelRestart` may happen anywhere; `PanelStarts` is what
`start()` does to the table before the first request is served. `UpdateBegins` to
`UpdateRollsBack` are `apply-release.py`.

Abstractions: payloads, results and messages are left out. A job kind stands for all kinds of its
behaviour (`AllKinds`). A connection that the agent refuses is a dispatch whose operation is cut
at once. Owner and resource checks of `queue` are left out, and so is the deletion of a resource
whose jobs are in the table: `run_one` looks only at `users.enabled`, and the agent's refusal of
an unknown target is the answer "err". `SavePlan` makes plans that are enabled; the count of 20
plans per account is not state of the queue.

### Properties

| Property | Says |
|---|---|
| `TypeOK` | types, and that whatever a task points at exists |
| `DispatchedAtMostOnce` | a job is sent at most once, plus once per rollback of the database |
| `StatusTellsTruth` | "succeeded" was completed by the agent; "queued" has not touched the host unless rolled back |
| `OverrunIsBounded` | pending ordinary jobs exceed the limit by no more than the inserts in flight |
| `OvertakenAtMostOnce` | a queued job is left behind by at most one younger job of its account and class |
| `FinishedIsFinal` | a finished row never changes, through restarts and late answers |
| `UpdateCutsNoJob` | applying a release interrupts no job and cuts no call |
| `QueuedJobEnds` | a queued job of an account that stays enabled ends |

### Runs

All instances are in `MCJobQueue`. Constants named in a cfg and not mentioned here are switched
off (0 or empty). The limits of 10, 100 and 20 become 1, 2 and 1: a limit matters when it is
reached, and with 1 a second insert reaches it.

| Run | Instance | Shows | States |
|---|---|---|---|
| `JobQueue_plans` | 1 account, 2 jobs, a plan, alerts, 1 lost write, clock 0..1 | `TypeOK`, `OverrunIsBounded` | 0.36 M |
| `JobQueue_release` | 1 account, 2 jobs, a plan, 1 restart, 1 release | `DispatchedAtMostOnce`, `StatusTellsTruth`, `OvertakenAtMostOnce`, `FinishedIsFinal`, `UpdateCutsNoJob` | 1.8 M |
| `JobQueue_live` | 2 accounts, 2 jobs that need the lock, 1 release | `QueuedJobEnds` | 0.48 M |

Why the bounds suffice: rows never share state but through the counts, the order and the two
workers, so two jobs show every race of a pair, among them one of a job and its retry. One restart
and one release reach every place where they can hit a worker; the proofs cover any number.
`JobQueue_release` has full backups only and loses no write: jobs queued by alerts, and a restart
after a lost write, are covered by the theorems about its properties and not by this run. A clock of 0..1 distinguishes older, same and younger. Jobs and handlers are
interchangeable, which the symmetry sets use, except under the liveness run, which uses none.

Liveness. `FairSpec` assumes that a worker whose next step stays possible takes it (its task
loops for ever, and the call to the agent ends after 3600 s whatever the agent does, so `Timeout`
or `Reply`), and that the updater, once it holds the database, goes on to stop the services. It
assumes nothing of the agent, of handlers, of the ticker, or of administrators: an operation may
execute for ever and accounts may be suspended and enabled at any time. The exceptions in
`QueuedJobEnds` are the code's: a lost final UPDATE leaves the row at "running" until the next
restart.

### Where code and documents disagree

`docs/API-REFERENCE.md:844` says of `POST /api/v2/jobs`: "At most 10 pending ordinary jobs per
account." Retry and the plan ticker count pending jobs without the mutex that this call takes
(`v2.rs:172`, `:466`), and count and INSERT are two statements, so the limit can be exceeded.
`OverrunIsBounded` says by how much.

`docs/V0.2-GUIDE.md:7` says: "Operations interrupted by a panel restart are explicitly marked
interrupted." A release that fails its health check is stopped without looking for running jobs
(`apply-release.py:63`) and the snapshot of the database is put back (`:69`), in which a job that
just ran is still queued. It is not marked, and it is sent to the agent again:
`DispatchedAtMostOnce` allows one more for every rollback, and no more.

### Proofs

`JobQueueProofs` proves for every pool of jobs, every set of accounts, applications, plans and
handlers, and all limits and bounds (`ConstantsAssumption`): `TypeOK`, `DispatchedAtMostOnce`,
`StatusTellsTruth`, `OvertakenAtMostOnce`, `FinishedIsFinal`, `UpdateCutsNoJob` and
`OverrunIsBounded`. Of the sets only jobs and handlers are assumed to be finite, as what is counted
has to be.

None of the first six is inductive. `Inv` adds what the argument needs:

* `RowOK(j)`: a row that is free or queued has been sent no more often than the database was put
  back. That is why a worker that marks and dispatches it sends it at most once more.
* `CallOK(w)`: a worker that has selected, marked or called has a row that is queued, running,
  running, and of the worker's own class. Hence the two workers never hold the same row
  (`WorkersApart`), although nothing in the UPDATE checks the old status.
* `OvertakenOK(i)`: a job that was left behind once is not older than a job that its worker has
  selected now, since the selection saw it.
* `QuietOK`: nothing is running while the updater holds the database. `UpdateCutsNoJob` follows
  with `CallOK`: a worker in a call has a running row.
* `SavedOK(j)`: during a trial, what the snapshot says is finished is still so in the table.

`StepTypeOK` and `StepInv` go through the actions by group; the lemmas `StatusUpdate`,
`InsertUpdate` and `InterruptUpdate` say what the three kinds of SQL statement do to the table,
and the action properties reuse them through `RowSteps`.

`OverrunIsBounded` is inductive together with `SavedBounded`, which says the same of the jobs of
the snapshot that a rollback would put back. `Load` is what counts against the limit: pending
jobs, handlers that counted and did not insert, and the ticker if it did. Three lemmas on
cardinalities carry the proof. Whoever counts finds fewer pending than the limit, and those about
to insert are at most the handlers and the ticker (`LoadCounted`); an insertion moves one
from the counted to the pending (`LoadMoves`); everything else adds to neither (`LoadFalls`).

Only model-checked: `QueuedJobEnds`, because liveness under fairness is out of the prover's reach.

## Provisioning

A resource (application, domain, database, DNS record, schedule, backup, blocked address) is
known twice: as a row of the panel's table `resources` and as an entry of the agent's registry,
which the agent holds in memory and writes to `registry.json`. `create_resource` has the agent
make it and then inserts the row; `remove_resource` has the agent take it down and then deletes
the row. There is no transaction over the two, no retry and no reconciliation.

| In the module | In the code |
|---|---|
| `what[i]` | what the random identifier `i` was drawn for: kind, owner, domain name, and the `app_id` or `domain_id` it is linked to |
| `rows`, `retired` | table `resources`; history: rows that were deleted |
| `writes`, `panel[r]` | the owner of `app.writes`; an HTTP handler that waits for the agent or is about to execute its statement |
| `call[r]` | the operation of that handler in its task in the agent, which outlives the handler |
| `up`, `items`, `saved` | the agent is running; its registry in memory; `registry.json` |
| `built` | what exists on the host: container, vhost, database, archive |
| `doomed`, `spared` | history: deletions that were sent; whether nothing but host programs failed |

`Create` and `Delete` are everything a handler does before it waits for the agent: it holds the
mutex through all of it, and no other handler writes the table. `Take`, `Work`, `Record`, `Save`
are the stages of an operation under the registry mutex: the checks of `execute` and of the
operation; the host programs; `reg.items.insert` or `remove` and what is derived from the
registry (zones, access lists, vhosts); the file. `Approved`, `Refused`, `Commit` are what the
handler makes of the answer. Each stage has its failures (`WorkFails`, `RecordFails`,
`SaveFails`, `CommitFails`), the handler may be gone at any await (`Abandon`, `Unheard`: client
gone, 360 s over, panel killed), the agent at any point (`Crash`, `Unreachable`, `Restart`).
`Restart` renders every domain's vhost and cannot happen when one of them is linked to an
application that is not registered (`CanStart`). `Faults` says which failures an instance has.

Abstractions. Owners are enabled and callers may do what they ask: more requests, never fewer.
Only the name of a domain matters, since only that is compared. Budgets and ports are in
`Container`, zone files in `Zones`. What the agent refuses for its contents (a domain for a
worker, a domain with mailboxes in use) leaves what a host program that fails first leaves.
`SaveOther` stands for every other operation of the agent and its cron loop: none inserts or
removes entries of these kinds (full backups, imports, mail and integrations have kinds of their
own), but all end with a save. The deletion of a crashed panel's handler is `Abandon`.

### Catalogue

`Catalogue` is what panel and agent promise together. An identifier goes through

    unknown -> kept -> listed -> withdrawn -> retired

in this order and only once, or stays kept for ever (an orphan) or withdrawn for ever (a row that
the agent refuses to delete again): the code allows both and has nothing that repairs them.
`Persist` takes several identifiers at once, because writes of the file can fail while the
registry in memory goes on changing. `Provisioning` implements it with `kept` as the file and
`listed` as the table: the panel never lists what the file did not hold at that moment, and the
agent never gives up for good what the panel does not list.

### Properties and runs

| Property | Says |
|---|---|
| `TypeOK` | types |
| `CatalogueKept` | every behaviour is one of `Catalogue` |
| `LinksResolve` | no row is linked to a row that is gone |
| `NameOnce` | domain names are unique in the panel, in the agent, and in its file |
| `StoredIsBuilt` | what the file describes exists on the host until its deletion is asked for |
| `AgreeAtRest` | if only host programs fail, table, registry and file agree between requests |
| `LinkedRemovedFirst` | what `docs/API-REFERENCE.md` promises; violated |

| Run | Instance | Shows | States |
|---|---|---|---|
| `Provisioning_faults` | 3 identifiers, 2 handlers, 1 owner, 1 name; applications, domains, backups; all faults | all but the last | 0.84 M |
| `Provisioning_links` | applications and domains; only handlers that are dropped | violates `LinkedRemovedFirst` | |

The three kinds are one that is linked to, one that may be linked and has a name, and one that
must be linked and whose deletion can fail for good; the others behave like one of them but for
what fails after the registry changed, which the proofs cover. Three identifiers are an
application, something linked to it, and a domain that competes for its name or a second orphan. Two
handlers are one in progress and one abandoned whose operation still runs in the agent; the
mutex leaves no room for a third but another abandoned one. Deadlock is not checked: identifiers
run out, and an agent that cannot start stays down.

No liveness is claimed. The code has nothing that would make the registries agree again.

### Where code and documents disagree

`Provisioning_links`: "Remove linked resources first", says the API reference of
`DELETE /api/resource/{id}`, and the panel looks for links among its rows. If the client leaves
while its domain is being created, the agent goes on and keeps a domain without a row. Its
application can then be deleted, and the agent's `main`, which renders the vhost of every domain,
fails at its next start and at every later one.

### Proofs

`ProvisioningProofs` proves all six properties of the passing run for every set of identifiers,
owners, names, handlers and kinds, every quota and every set of faults (`ConstantsAssumption`,
`NullAssumption`). `Inv` is inductive and says

* `Held`: the writes mutex belongs to the one handler that is busy, that handler waits for the
  operation it sent, one operation at a time is under the registry mutex, and none runs while
  the agent is down;
* `Known`: whatever is mentioned was drawn, and by one creation only;
* `Books`: what the table, the registry and the file can differ by. In particular what is in
  memory and not on file was never listed, and what is on file and not in memory is still listed;
* `Progress`: how far an operation, and the handler that waits for it, have come. A creation that
  was answered with success is on file; a deletion that was, is not.

`Books` and `Progress` give the refinement: `Save` is `Persist` because of the second and third
conjunct of `Books`, and `Commit` is `List` or `Retire` because of `Progress`. The other
properties have a strengthening each: `Links` and `Naming` say that what a handler (or the
operation) found out when it took its mutex still holds when it acts, `Building` extends
`StoredIsBuilt` to the registry in memory, and `Agreement` says by which resource the table, the
registry and the file differ at each stage when nothing but host programs failed. Lemmas named
after the actions (`CreateStep`, `TakeStep`, ...) restate each of them in terms of `Moved`,
`Ended`, `Returned`, `Sent` and `Committing`, which say what the EXCEPT expressions do; every
preservation lemma goes through the actions with them.

## Backup

Full backups of one application. `full_backup_create` stops the application, has `tar` read the
workspace and the dump programs read the databases, starts the application, moves the archive in
place, enters it in the registry, saves, delivers it, saves again, and removes what the plan no
longer keeps. `full_backup_restore` verifies an archive, makes a recovery archive with the same
function, stops every writer it knows, replaces the workspace and the databases, and resumes the
writers whatever happened.

| In the module | In the code |
|---|---|
| `running` | the containers that run, and "sftp" while sshd admits the transfer account |
| `data` | the workspace and the rows of the selected databases |
| `disk` | the `.cgp` files in `ROOT/backups` |
| `reg`, `saved` | registry entries `full_backups` and the application's `sftp_enabled`, in memory and in `registry.json` |
| `op` | the local variables of `create` and `restore`, and how far they have come |
| `drawn` | identifiers in use; its size is the clock that `created` reads |
| `since`, `doomed`, `acked`, `op.before`, `op.broke`, `op.rows`, `torn` | history |

The registry mutex is held from the beginning of an operation to the save that ends it (`Answer`),
so one operation is under way at a time. What interleaves with it is everything else: requests to
the application (`AppWrite`, a file and a row at once) until it is stopped, files from the file
manager at any time (`FileWrite`, which covers IDE and SFTP clients, since they write the same at
fewer times), and crashes of the agent, which is not the parent of containers or of sshd. An
action is one program the agent runs, or one save. Every one has its failure: `PauseFails`,
`BuildFails`, `StartFails`, `MoveFails`, `RecordFails`, `InspectFails`, `DisableFails`,
`StopFails`, `SwapFails` (with part of the work done), `ResumeFails` (for any set of writers) and
`AnswerFails`. `Delete` is a user's deletion of any listed archive, also one that was answered for;
it may fail before or after the archive is gone, and be killed before the save. `Settle` is the
second save and the retention together: nothing awaits between them that another task could use.
`Switch` is every other operation that starts or stops a writer.

Abstractions. Contents are sets of writes. FTPS is off and on together with SFTP. Rows are those
of tables that exist throughout: a dump does not drop a table made after it. `created` is the
order of creation, although the code reads a clock in seconds, which may step back. Checks of
ownership and of the request are left out.

### Properties and runs

| Property | Says |
|---|---|
| `TypeOK` | types |
| `SameMoment` | an archive made with quiesce holds files and rows of one moment |
| `RecoveryFirst` | a restore destroys only what its recovery archive, listed and in place, holds, or what was written after that archive read the workspace |
| `WritersResume` | when an operation answers, what was admitted at its beginning is admitted, but for what could not be started and was reported |
| `RestoreIsWhole` | a restore that succeeded brought back all of the archive, and no row but the archive's |
| `LastCopyStays` | retention removes an archive only while a newer one, delivered, is kept |
| `AnsweredIsKept` | an archive answered for stays listed, on file and in place, until its deletion begins |
| `CreatedIsListed` | "Backup created" means that it is listed; violated |
| `FilesAreReplaced` | what `docs/V0.5-GUIDE.md` promises of files added after the backup; violated |

| Run | Instance | Shows | States |
|---|---|---|---|
| `Backup_faults` | 2 archives, 1 write, application and SFTP, retention 1, all faults | the first seven | 1.5 M |
| `Backup_restart` | the same, host programs fail | violates `CreatedIsListed` | |
| `Backup_files` | the same, nothing fails | violates `FilesAreReplaced` | |

Two archives are one and the recovery archive of its restore, or an old and a new one of a plan,
and retention 1 removes the old one at once. One write is written, archived, destroyed and brought
back; two would be independent copies of it. The IDE behaves like the application but for
`create`, which does not stop it; the proofs cover it. Deadlock is not checked: identifiers run
out.

What the properties do not say, because the code does not do it: what is written after the
recovery archive read the workspace and before the writers are stopped is in no archive (that is
`since` in `RecoveryFirst`); a crash between the stop and the start leaves the application stopped
and SFTP off (`WritersResume` speaks of operations that answer); an unanswered archive may be in
place and in no registry. No liveness is claimed.

### Where code and documents disagree

`Backup_restart`: the error "Backup created but application restart failed" is returned before the
archive is moved out of staging and entered in the registry, so there is no such backup.

`Backup_files`: the file manager works without the registry mutex and is not stopped, so that a
file can appear in the workspace after it was cleared, and stays.

### Proofs

`BackupProofs` proves all seven properties of the passing run for every set of archives, writes
and writers, every retention and every set of faults (`ConstantsAssumption`, `NullAssumption`).
The parts of `Inv`: `Course` (what each stage is a stage of), `Quiet` (the application stands
still while it is read), `InPlace` (an entry in memory or on file whose deletion has not begun
has its archive), `Covered` (what the archive in the making, and then the recovery archive, lacks
of the data was written since), `Remembered` (which writers are stopped and where that is
remembered), `Swapped` (how far the data are the archive's), `Dated` (the archive made last is the
newest). `Immediate` and `Begun` summarise the operations that are done at once and the two that
begin; each part has a lemma that goes through the actions. The two action properties follow from
`NothingLost` and `OldOnesGo`.

## Container

The containers of one account's applications, the account's budget and the port counter. The
operations run under the registry mutex from their first check to the save of the registry, so
they never interleave. What is hard is that each is a sequence of calls to podman with rollbacks
and early returns of its own, that any call may fail or be killed when its time is over, with or
without effect, and that the agent may be killed between any two calls and start again with the
registry it saved last.

| In the module | In the code |
|---|---|
| `host[a].cont`, `.prev` | the containers `cgp_<id>` and `cgp_<id>_previous`: version, memory, port and network they were created with, and whether they run |
| `host[a].ide`, `.gate`, `.volume` | the container `cgp_ide_<id>`; the port the gateway `cgpx_<id>` listens on; the size in the volume helper's record |
| `reg`, `saved` | entries "apps", the counter `ports` and the entry "tenant_limits", in memory and in `registry.json` |
| `op` | the operation under the mutex: its local variables (the entry it is going to insert, the one it cloned, `was_running`) and the call it is at |
| `faults` | a bound: failed calls and crashes |

Every operation begins with an action named after it (`CreateApp`, `StartOrStop`,
`SwitchRuntime`, `ConfigureEgress`, `EnableIde`, `DisableIde`, `ConfigureLimits`, `SetBudget`,
`DeleteApp`), which holds the checks that leave everything as it is when they fail. Each call
after that is an action: it has its effect, or it fails, in which case the operation goes where
the code goes. `Call` is a call that may fail for reasons of its own, `CallIf` one that fails for
certain when the host does not allow it (a name that is missing, a port that is taken), `Run` a
`podman run`, which may leave a container that it could not start. `create_app` is shared, as in
the code: `RunContainer` is also the second half of a runtime switch, of its activation, and of a
change of egress, and `Recreate` is its check of the budget. `RemoveIde`, `UnregisterIde` and
`RemoveContainer` are shared by their operations and the deletion.

Left out: worker applications (no port) and transfer accounts; `restart_app` and
`tenant_stop_ide`, which are a stop and a start, and one `DisableIde` after another; images,
commands, environments and locks, which decide nothing here; processor time, which follows the
rule of memory; containers that exit by themselves, but at the health check of a runtime switch;
a failing save, which `Provisioning` has. Ports are counted from 1, not 20001. `EnableIde` has a
bound: without a port of its own it is not tried again once the counter is at the limit, although
the code moves the counter on with every refused attempt, until a u16 wraps around.

### Properties and runs

| Property | Says |
|---|---|
| `TypeOK` | types |
| `BudgetHolds` | what applications, IDEs and volumes, retained ones too, reserve is within the budget, after any sequence of creations, changes of limits and budgets, failures and crashes |
| `PortReachesOwner` | the port nginx uses for an application is published by no container of another one |
| `HostAsRegistered` | as long as the host does what it is told, containers, IDEs and volumes are between operations what the registry says, after every rollback |
| `LastContainerStays` | only a deletion or a change of egress removes the last container of an application |
| `SwitchKeepsState` | a runtime switch, rolled back or not, ends with the application running exactly if it ran before |
| `DeletedIsGone` | an application that left `registry.json` has no container |
| `ContainerRecreated` | what `docs/V0.2-GUIDE.md` promises of a change of the proxy; violated |

| Run | Instance | Shows | States |
|---|---|---|---|
| `Container_faults` | 2 applications, 2 versions, 2 allocations, 2 budgets, 3 ports, 1 fault | the first seven | 1.4 M |
| `Container_egress` | the same without faults | violates `ContainerRecreated` | |

Two applications are needed for anything that is shared; a budget of 3 holds one small and one
large application or one with an IDE, so every check is refused somewhere. Three ports are two
applications and an IDE, and the limit is reached by the next. One fault, at any call or between
any two, is where the rollbacks begin; instances with two faults and fewer ports show nothing more.

What does not hold, and is not claimed: after a failed call the host may differ from the registry
for good (a `podman rm` of an IDE whose failure is ignored leaves it running and uncounted; a
runtime switch whose rollback cannot rename leaves the application without a container of its
name, with the old one kept as previous). No liveness is claimed; nothing retries.

### Where code and documents disagree

`Container_egress`: `egress_agent::configure` removes the container first. When the new gateway
does not become ready, the application does not "remain stopped": it has no container and no
environment, and nothing but a deletion and a new creation makes up for it: the agent has no
operation that creates the container again, and starting, limiting, switching its runtime or
changing its egress all need the one that is gone.

### Proofs

`ContainerProofs` and `HostProofs` prove all seven properties of the passing run, for every finite
set of applications, all versions, allocations and budgets, every port limit and any number of faults
(`ConstantsAssumption`). The inductive `Inv` adds to the types

* `Ready(step, kind, a, h)`: which containers an operation relies on at each step, and which
  operations share the step. From the rename of the old container to its removal, or to its
  return, there is a previous one: that is why a switch never leaves an application with nothing,
  though the removal of the new container does not look;
* `EntriesOK`: an operation finds in memory what is on file, keeps the set of entries until its
  last step, and what is on file but no longer in memory has no container (a deletion takes the
  entry away only after `RemoveContainer` succeeded).

`CallKept`, `CallIfKept` and `GoKept` say once what a call may do to the invariant; each action
then has a lemma with what it makes of the host (`SetContHost`, `KeepContHost`, ...) and what is
relied on where it leads. `Treats` summarises what a step makes of the containers of its
application, from which `LastContainersStay` follows.

`BudgetHolds` is about sums over the applications, which the library defines by recursion on sets
(`SumFunctionOnSet`), and the provers cannot use an induction theorem. `SumIs` gets around it:
the sum is the number of elements of a set, `Units`, which has as many elements for each
application as it reserves; were it not, a minimal subset of the applications would show it, and
the subset without one of its elements would not. From then on cardinalities do the work, and
`SumSplit` takes one application out of a sum. `BudgetKept` adds to the budget, in memory and on
file, what an operation may rely on later than it checked it: that there is room for the
allocation it is going to register and for the one it would return to (`Room`), for the volume it
is going to make (`Space`), and that every registered application has a volume, so that the size
it asked for is not counted in its place.

`PortReachesOwner` needs to know what the agent may have forgotten. `PortsKept` says of the
registry in memory and of the one on file that their ports are distinct and counted (`Distinct`),
that the containers, running or not, the previous one and the gateway of a registered application
have its port (`Matches`), and that no other application publishes it (`Alone`). An operation
carries the registered ports or one counted since the last save (`Carries`), which podman let it
publish only because nobody else does: that is what makes it safe to count a port twice after a
kill. The IDE of an application whose port is not registered is the one that a killed agent
forgot.

`HostAsRegistered` and `SwitchKeepsState` are about a host that does what it is told, through every
rollback the operations still take there: a version that does not stay up, a gateway or an IDE
that does not become ready, a volume that does not shrink. `Told` says, as long as there was no
fault, that the applications not operated on are as registered or gone (`Rests`), and of the one
operated on what the operation has made of it at each step (`Creating`, `Removing`, `Proxying`,
`Enabling`, `Resizing`, `Switching`): which of the registered, the old and the new allocation its
container, its previous container, its IDE, its gateway and its volume have. Each action has a lemma
on what it makes of this without a fault (its name, then `Performs`).

## Accounts

Who has access to the panel, by which session or token, and with which second factor. Requests
are handled concurrently: some handlers hold the mutex `writes` from a point on, others never
take it, and each is dropped at its next await when its client goes away. A request is
authenticated once, at its beginning; nothing looks again at the account while it goes on.

| In the module | In the code |
|---|---|
| `access[u]` | `users.password`, `.allowed_ips`, `.enabled`: which version of them, 0 before the row exists |
| `enabled[u]` | `users.enabled` |
| `session`, `token` | tables `sessions` and `api_tokens` (not expired, not revoked), each row with what its account was like when the handler that inserts it looked |
| `mfa`, `pending`, `recovery` | tables `user_mfa` (secret and `last_step`), `mfa_pending`, `mfa_recovery` |
| `handler[h]`, `writes` | a request, the statement it executes next, what it is about to insert; the owner of `app.writes` |
| `drawn` | secrets that were generated |
| `accepted`, `unfinished`, `.overtaken` | history |

An action is one statement or one transaction, with the checks before it. `LoginRead` (the row and
the password), `LoginSecret`, `LoginCode` and `LoginInsert` are the awaits of `login`;
`Authenticate` and `AuthenticateToken` the middleware and what comes before the mutex; `Lock` the
mutex; `WritePassword`, `DeleteSessions`, `RevokeTokens` the three statements of
`change_password`, of which `update_user` shares the first two after its `UpdateRow`. `Confirm`
and `Disable` are the transactions of `mfa.rs`. `Drop` is a client that left, a check that
refuses, or a statement that fails, at any of these points.

Abstractions. Password, switch and addresses are one version number, since each is a reason to
end what was granted before. A request may present the code of any period; the code accepts the
current one and its neighbours, and time is left out. The limits on attempts, audit rows and what
a request that does not change this state does are left out. `update_user` and `create_user` are
by an administrator about a user, the installer makes the administrators.

| Property | Says |
|---|---|
| `GrantsAreCurrent` | a session or token granted before the last change of password, switch or addresses is about to be deleted, unless its own request was in flight at the deletion, or the change was dropped half way |
| `SecondFactorHolds` | sessions of an account with a second factor presented a code of that enrolment, or were in flight at its confirmation |
| `CodesCountOnce` | a step or a recovery code of an enrolment is counted once |
| `TokenLimitHolds` | no administrator has more active tokens than the limit |

`Accounts_sessions` checks them with an administrator and a user, two requests at a time, two
sessions, two tokens, limit 1, two periods and one recovery code: 0.83 M states. Two requests are
every race of a pair; a third would be one more in flight. Two changes of access or two
enrolments (`MCBound`) are a change during a login and one after it, and an enrolment after
another; where secrets are drawn the administrator is alone, because the second factor does not
meet the access of others anywhere. The proofs cover any number of everything. No liveness is
claimed: handlers end or are dropped.

Where code and documents disagree. `docs/API-REFERENCE.md:322` and `docs/OPERATIONS.md:39` say of a
change of password that it "revokes all own sessions and API tokens", and `API-REFERENCE.md:1590`
that a confirmation "revokes other sessions". A login that verified the old password, or a
`create_token` that was authenticated, and inserts after the deletion is not revoked: that is
`overtaken`. A client that leaves between the statements of `change_password` leaves sessions or
tokens: that is `unfinished`. Two changes of password at the same time both verify the old one
and the later UPDATE wins, also over a password that an administrator has set meanwhile
(`main.rs:837`-`858`); no property excludes it. A login whose secret was read before the second
factor is disabled and enrolled again counts its step in the new row.

### Proofs

`AccountsProofs` proves all four properties for every set of accounts, requests, sessions, tokens
and recovery codes, every limit and every bound (`AccountsAssumption`). `IInv` adds to them

* `Shape`: what a handler at each place of each operation is about, and holds;
* `Mutex`: a handler between its `Lock` and its end holds the mutex, so that no two of them are
  past it: that is why counting tokens and inserting one is like one step, and why what
  `confirm` reads of `pending` is there in its transaction;
* `SameSession`: the session a request was made with is still of its account, or gone;
* `Holders`: who has a session was created, and who has a token is an administrator;
* `InFlightCurrent` and `InFlightSecond`: what a login or a `create_token` in flight is about to
  insert satisfies `GrantsAreCurrent` and `SecondFactorHolds` already, so that the INSERT keeps
  them;
* `OwnSecrets`: a secret that was drawn is in one row, of `user_mfa` or of `mfa_pending`;
* `UnusedCodes`: a recovery code that is there, and a step later than the last one counted, was
  never accepted under that secret;
* `CountedTokens`: a request between count and INSERT leaves room for its token.

Each conjunct has its lemma per group of actions.

## The smaller components: MCParts

Schedules, zones, the file manager, imports and protection share no state, so that one run checks
them together: `MCParts` is their sum. The variable `moving` says which of them moves, the others
stay at their start, and every behaviour is one of one component. `Parts_faults` has 0.79 M
states. Deadlock is not checked: identifiers and clocks run out.

### Schedules

`Collect` is the loop of `cron_agent.rs` under the registry mutex: everything that is due gets
its next occurrence and the registry is saved, whether or not the save succeeds. `Start` and
`Record` are one command of the batch, run without the mutex, and its result. `CreateSchedule` and
`DeleteSchedule` come at any time, saves fail (`SaveAs`), the agent is killed and starts with what
it saved last (`Kill`). A schedule that matches every minute stands for all expressions, since it
has every occurrence the others have.

| Property | Says |
|---|---|
| `StartedOnce` | an occurrence is started again only after two faults: a save that failed and a kill |
| `DueIsStarted` | an occurrence that has come is started in its minute or later, unless the schedule is deleted or a kill cuts the batch that was saved |

Two schedules are one that runs and one that waits behind it; two minutes an occurrence that comes
while the batch runs; two faults the pair that `StartedOnce` speaks of. `CronFairness`: the loop
is a task of its own that never returns, it waits ten seconds, and a command is killed after 25,
so that `Collect`, `Start` and `Record` are taken when they stay possible. Nothing is assumed of
the clock, of users, or of the absence of faults. What was missed while the agent was down is
started once, not once per minute.

`PartsProofs` proves `StartedOnce` for every set of schedules, every number of minutes and of
faults. `CronInv` counts the faults that an occurrence took (`Repeated`): two for each start, but
the last of an occurrence that will not come again; and one of the two is still to come when only
the saved registry has the occurrence as the next one. What was started or collected lies not
ahead of the clock, so that an occurrence a schedule moves on to was never started. `DueIsStarted`
is liveness, and only model-checked.

### Zones

`SyncLock` to `SyncLoad` are `dns_sync`: the file lock, the old serial and the challenges of each
zone, the file, `named-checkzone`, and then the name server. `SyncBreaks` is an error before a
file is written. `SyncFailed` is what its three
callers do about an error: `create_domain` takes its domain back, `create_dns` its record and
writes the files again, a deletion does neither. The hook of certbot is another process:
`StartHook` reads `registry.json` before it has the lock, `StoreChallenge` and `EditZone` change
two files, and either process may be killed between any two steps. The kernel drops the lock of a
process that dies.

| Property | Says |
|---|---|
| `ZonesAreCurrent` | when neither process is at work, every registered domain has a zone with exactly its records and its stored challenges, unless something failed and no later change has written the files |
| `SerialsGrow` | a zone file never changes without a later serial |

Two domains are a zone that is checked before the other; two records one that is good and one
that `named-checkzone` refuses, which makes `create_dns` undo and write again; one challenge is
added and removed; two seconds let a zone change twice within one. `behind` says when a failure
may have left the files behind: the code has no retry, and a restart of the agent does not write
zone files.

`PartsProofs` proves both properties for every set of domains, records and challenges and any
number of faults. The inductive invariant says who has the lock and where it is (`Locks`), that
what `dns_sync` read of challenges and serials is still so while it has the lock (`SyncOK`), what
it has written and checked in this round (`Written`), and what the files held before a
`create_domain` that may have to be taken back (`Kept`). Without `SyncOK` the hook could edit a
zone between the reading of its serial and its writing, which is the race the lock excludes.

### Workspace

Each request of the file manager is a process, started by the agent without the registry mutex
and killed after 120 seconds; the browser may have given up before. `ChunkCheck`, `ChunkSeek` and
`ChunkWrite` are the system calls of one chunk, `FinishLook` and `FinishRename` those of the last
step of an upload, `SaveCheck`, `SaveWrite` and `SaveTrim` those of the editor. Touch, move and
trash change the directory with one call each.

| Property | Says |
|---|---|
| `UploadsAreWhole` | an upload that has its name holds its chunks once and in order, unless a chunk was repeated while the first request was still at work |
| `NothingIsOverwritten` | what has a name is replaced only by an upload that asked to, or in place by a save whose editor saw that content, or that was already at work when another request changed it |

Two requests, two names, one upload of two chunks, another file, one edit, and one break (a lost
answer or a kill) are the instance. `UploadProofs` proves both properties for every number of chunks, requests and
breaks. Its invariant says what an upload holds in relation to the answers its client has
(`Holds`), that a request carries the first chunk without an answer and where in the file it is
going (`Carries`), that an upload is complete before a name is asked for (`Complete`, which is
why no chunk reaches a named file), and that a save about to write is of what its editor saw
(`Saves`).

Where code and documents disagree: "Revision checks reject conflicting changes", says
`docs/V0.5-GUIDE.md:21`, and `docs/V0.4-GUIDE.md:9` that the editor "refuses to overwrite a file
changed since it was opened". Two saves of the same revision that overlap both compare before
either writes, and the second overwrites the first (`raced`). And a chunk that is sent again
while the first request is still between its comparison and its write is appended a second time;
`upload_finish` does not look at the length (`crowded`).

### Import

`begin`, `chunk`, `finish` and `cancel` run under the registry mutex and the dispatcher saves
after each (`SaveImports`). A `begin` that is refused has removed stale uploads before
(`RefuseImport`). The write of a chunk is handed to a thread and the file is dropped
without a flush (`backup_import.rs:116`), so the answer comes before the bytes: `Flush` moves
them to the file at any time and in any order, and a kill forgets them.

| Property | Says |
|---|---|
| `ImportIsWhole` | a listed archive has its file, and every chunk once and in order, unless a chunk was sent again while the first was not in the file yet |

Two uploads, one slot, two chunks and two faults: a lost answer and a kill, or two failed saves.
An upload that ages (`Age`) gives its slot back to the next `begin`.
`UploadProofs` proves the property for every number of uploads, chunks and faults: the file and
what is not in it yet are, in this order, the chunks answered for, and neither the registry in
memory nor the one on disk lists an archive that lacks one.

### Protection

`ConfigureLock` to `ConfigureDelete` are a change of the settings: under the mutex `writes` the row
is written first, the agent is called, and when its answer has arrived (`AnswerArrives`) passes are
deleted, or the old row is put back. The settings are in four places: the row (`rule`), the
agent's registry in memory (`gate`) and on file (`keptGate`), and the vhost file (`vhost`), which
nginx serves from its next reload on.

| The agent | In the code |
|---|---|
| `AgentConfigure` | the vhost is rendered, nginx reloaded, the settings registered and saved |
| `AgentRefuse` | refused before anything is written, or `nginx -t` fails and the old vhost is put back |
| `AgentHalf` | the reload, or `render_ide` after it, fails: the new vhost stays, nothing is registered |
| `AgentUnsaved` | the registry cannot be saved |
| `AgentDies` | a kill: before the save, with the vhost written or not, or after the save and before the answer |
| `AgentRenders`, `AgentStarts` | the start renders the domains one by one from the file; systemd repeats it until it comes to its end |
| `AgentElse` | another operation saves the registry, and may render a domain from it |

The agent carries out calls in their order also when nobody waits for them any more (`orders`).
`Challenge`, `SolveNonce`, `SolveRead` and `SolveInsert` are visitors, who come without any mutex.

| Property | Says |
|---|---|
| `ProtectionAgrees` | `PassesFollowRule`: whoever has a pass earned it under the settings in force; `GateFollowsRule`: the agent has registered, saved and rendered those settings; `NothingOlder`: neither the row, nor the registry, nor its file, nor the vhost ever goes back behind the last change that came to its end |

The first two are left open while a change of the site is under way, for passes in flight at the
deletion, and, until the next change that comes to its end, after one that did not: passes earned
before an error stay until they expire, and the agent keeps the new settings after the panel put
its row back, when the handler was dropped, the call was given up after 360 seconds and carried
out later, or an error or a kill came after the vhost was written (`loose`). The code does not
undo these; the vhost then has settings that the panel does not show, until they are changed
again. `NothingOlder` has no such exception: whatever failed half way, what comes back is at
worst what the last completed change made, and that change made all four the same. It fails
without the mutex `writes`, when the row that is put back is not the one that was read under it,
and when a restart does not render from the file.

One site, two requests, two challenges and two changes of settings, one to be completed and one
to stop half way.

`PartsProofs` proves it for every number of sites, settings, visitors and faults. The
invariant needs the order of the agent's queue: calls nobody waits for stand before the awaited
one, which is the last, and at most one change is under way (`writes`); from the moment the agent
is done to the deletion of the passes nothing is left in the queue and all four agree; a row that
is going to be put back is what the agent has, unless the site is in `loose`. `NothingOlder` is
proved from that by a second invariant, `Numbers`: no call still to come and no row kept for an
undoing is older than the last completed change.

## Not modelled

Everything listed as `not_modelled` in `PROJECT.json`: monitoring but for its alerts, whose counters
are one statement per row; mail, services and integrations, which forward and render what they
are given and have hardly any control of their own; the web UI but for how it uploads. Of modelled
components, what their entries in `PROJECT.json` name: among it listing, archives and consoles of
the workspace, rendering of configuration files, parsing of cron expressions, issuing of
certificates, and the limits on attempts. The programs the agent drives (podman, nginx, bind,
certbot, databases) are external. Suspension against queued IDE jobs is not composed: the
documents promise nothing (`README.md:122`). The panel stops the IDEs last, when the account is
suspended and its sessions are deleted, and answers an error if that fails (`main.rs:512`).
