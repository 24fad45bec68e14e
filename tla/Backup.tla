------------------------------- MODULE Backup -------------------------------
(***************************************************************************)
(* Full backups of one application (src/src/backups_agent.rs): creation of *)
(* an archive with its deliveries and its retention, deletion, a repeated  *)
(* delivery, and the restore, which first makes a recovery archive by the  *)
(* same function. An operation holds the agent's registry mutex from its   *)
(* beginning to the save that ends it, but the application, its IDE and    *)
(* SFTP clients go on writing until they are stopped, and the file manager *)
(* (workspace_files) needs no mutex and is never stopped. Any host program *)
(* may fail and the agent may be killed between any two steps.             *)
(***************************************************************************)
EXTENDS Naturals, FiniteSets

CONSTANTS
    Ids,      \* identifiers of archives: the random identifiers of jobs, never used twice
    Writes,   \* what may be written: a file, and for the application a row that goes with it
    Writers,  \* what writes in the workspace and can be stopped, from AllWriters
    Keep,     \* retention of the backup plan
    Faults,   \* what may go wrong, from AllFaults
    None      \* null

\* "host": a program the agent runs fails; "send": a delivery does; "save": registry.json is
\* not written; "crash": the agent is killed.
AllFaults == {"host", "send", "save", "crash"}

\* The application itself, its IDE if it is installed, SFTP if a transfer account was made.
AllWriters == {"app", "ide", "sftp"}

ASSUME ConstantsAssumption ==
    /\ IsFiniteSet(Ids)
    /\ {"app"} \subseteq Writers /\ Writers \subseteq AllWriters
    /\ Keep \in Nat \ {0}
    /\ Faults \subseteq AllFaults
    /\ None \notin Ids

VARIABLES
    running,  \* which writers are admitted: the containers that run, SFTP that sshd lets in
    data,     \* files of the workspace, and rows of the selected databases' tables
    disk,     \* the archives in ROOT/backups
    reg,      \* the agent's registry, in memory
    saved,    \* registry.json
    drawn,    \* identifiers in use
    op,       \* the operation that holds the registry mutex
    since,    \* history: written since the last tar of the workspace, or since a restore's writers resumed
    doomed,   \* history: archives whose deletion began, by a user or by retention
    acked     \* history: the others whose creation was answered with success

vars == <<running, data, disk, reg, saved, drawn, op, since, doomed, acked>>
history == <<since, doomed, acked>>

-----------------------------------------------------------------------------
Containers == Writers \ {"sftp"}

Data == [files : SUBSET Writes, tables : SUBSET Writes]

\* An archive. The last field is history: it was made with quiesce, and yet the tables were
\* not the same when they were dumped as when tar read the workspace.
Archive == [files : SUBSET Writes, tables : SUBSET Writes, torn : BOOLEAN]

\* An entry full_backups: whether a plan made it, when, and whether every delivery that was
\* requested succeeded.
Entry == [plan : BOOLEAN, created : 0 .. Cardinality(Ids), sent : BOOLEAN]

\* sftp_enabled of the application, which no application without a transfer account has.
Access == {on \in BOOLEAN : on => "sftp" \in Writers}
Registry == [list : [Ids -> Entry \cup {None}], access : Access]

ASSUME NullAssumption == None \notin Entry /\ None \notin Archive

Listed == {b \in Ids : reg.list[b] # None}
Planned == {b \in Listed : reg.list[b].plan}

\* skip(keep) of the plan's archives, newest first.
Old == {b \in Planned :
          Cardinality({c \in Planned : reg.list[c].created > reg.list[b].created}) >= Keep}

Steps == {"idle", "pause", "tar", "dump", "start", "move", "record", "send", "settle",
          "inspect", "disable", "stop", "clear", "extract", "load", "resume", "answer"}

\* "unresumed" is the error `Backup created but application restart failed'.
Results == {"ok", "error", "unresumed"}

Operation ==
    [at : Steps, verb : {"create", "restore", "other"} \cup {None},
     id : Ids \cup {None},      \* the archive created, for a restore its recovery archive
     plan : BOOLEAN, quiesce : BOOLEAN, remote : BOOLEAN,
     stopped : BOOLEAN,         \* create stopped the application
     copy : Archive,            \* the archive in staging
     rows : SUBSET Writes,      \* history: the tables when tar read the workspace
     staged : Archive,          \* a restore's verified archive
     was : SUBSET Containers,   \* the containers a restore found running
     access : Access,           \* sftp_enabled as a restore found it
     result : Results,
     before : SUBSET Writers,   \* history: the writers at the beginning
     broke : SUBSET Writers]    \* history: writers that could not be started again

Blank == [files |-> {}, tables |-> {}, torn |-> FALSE]
Idle == [at |-> "idle", verb |-> None, id |-> None,
         plan |-> FALSE, quiesce |-> FALSE, remote |-> FALSE, stopped |-> FALSE,
         copy |-> Blank, rows |-> {}, staged |-> Blank, was |-> {}, access |-> FALSE,
         result |-> "ok", before |-> {}, broke |-> {}]

\* The writers at work. SFTP counts if it is both set and admitted: after a crash or a
\* failure sshd's configuration may not be what the registry says.
Admitted == IF reg.access THEN running ELSE running \ {"sftp"}

-----------------------------------------------------------------------------
Init ==
    /\ running \in SUBSET Writers
    /\ data = [files |-> {}, tables |-> {}]
    /\ disk = [b \in Ids |-> None]
    /\ reg = [list |-> [b \in Ids |-> None], access |-> "sftp" \in running]
    /\ saved = reg
    /\ drawn = {}
    /\ op = Idle
    /\ since = {} /\ doomed = {} /\ acked = {}

-----------------------------------------------------------------------------
(* The writers. *)

\* A request to the application: a file and a row, together.
AppWrite(w) ==
    /\ "app" \in running
    /\ ~(w \in data.files /\ w \in data.tables)
    /\ data' = [files |-> data.files \cup {w}, tables |-> data.tables \cup {w}]
    /\ since' = since \cup {w}
    /\ UNCHANGED <<running, disk, reg, saved, drawn, op, doomed, acked>>

\* A file is uploaded or edited: in the file manager, at any time. IDE and SFTP clients
\* write nothing else, at fewer times.
FileWrite(w) ==
    /\ w \notin data.files
    /\ data' = [data EXCEPT !.files = @ \cup {w}]
    /\ since' = since \cup {w}
    /\ UNCHANGED <<running, disk, reg, saved, drawn, op, doomed, acked>>

\* start_app, stop_app, ide_configure and services_configure, which take the mutex too.
Switch(w) ==
    /\ op.at = "idle"
    /\ running' = IF w \in running THEN running \ {w} ELSE running \cup {w}
    /\ reg' = IF w = "sftp" THEN [reg EXCEPT !.access = "sftp" \in running'] ELSE reg
    /\ saved' = reg'
    /\ UNCHANGED <<data, disk, drawn, op, history>>

-----------------------------------------------------------------------------
(* Steps of an operation. *)

Goto(step) == op' = [op EXCEPT !.at = step]
Fail == op' = [op EXCEPT !.at = "answer", !.result = "error"]

\* An operation that is done at once.
AtOnce(verb, b, result) ==
    op' = [Idle EXCEPT !.at = "answer", !.verb = verb, !.id = b, !.result = result,
                       !.before = Admitted]

-----------------------------------------------------------------------------
(* full_backup_create. *)

CreateBegin(b, plan, quiesce, remote) ==
    /\ op.at = "idle"
    /\ b \notin drawn
    /\ drawn' = drawn \cup {b}
    /\ op' = [Idle EXCEPT !.at = "pause", !.verb = "create", !.id = b, !.plan = plan,
                          !.quiesce = quiesce, !.remote = remote, !.before = Admitted]
    /\ UNCHANGED <<running, data, disk, reg, saved, history>>

\* The operation arrives again: the entry there is, is the answer.
CreateAgain(b) ==
    /\ op.at = "idle"
    /\ b \in Listed
    /\ AtOnce("create", b, "ok")
    /\ UNCHANGED <<running, data, disk, reg, saved, drawn, history>>

\* Mutant: the application is stopped only for an archive that goes to a destination.
PauseIfRemote ==
    /\ op.at = "pause"
    /\ LET stop == op.quiesce /\ op.remote /\ "app" \in running IN
        /\ running' = IF stop THEN running \ {"app"} ELSE running
        /\ op' = [op EXCEPT !.at = "tar", !.stopped = stop]
    /\ UNCHANGED <<data, disk, reg, saved, drawn, history>>

\* The application is stopped if it runs and unless quiesce is off.
Pause ==
    /\ op.at = "pause"
    /\ LET stop == op.quiesce /\ "app" \in running IN
        /\ running' = IF stop THEN running \ {"app"} ELSE running
        /\ op' = [op EXCEPT !.at = "tar", !.stopped = stop]
    /\ UNCHANGED <<data, disk, reg, saved, drawn, history>>

\* podman inspect or podman stop fails or takes too long. The function returns, although the
\* container may have stopped.
PauseFails ==
    /\ "host" \in Faults
    /\ op.at = "pause"
    /\ \E down \in SUBSET {"app"} :
        /\ down \subseteq running
        /\ down # {} => op.quiesce
        /\ running' = running \ down
        /\ op' = [op EXCEPT !.at = "answer", !.result = "error", !.broke = down]
    /\ UNCHANGED <<data, disk, reg, saved, drawn, history>>

\* tar reads the workspace.
Tar ==
    /\ op.at = "tar"
    /\ op' = [op EXCEPT !.at = "dump", !.copy.files = data.files, !.rows = data.tables]
    /\ since' = {}
    /\ UNCHANGED <<running, data, disk, reg, saved, drawn, doomed, acked>>

\* mariadb-dump and pg_dump, then the manifest and the ZIP file.
Dump ==
    /\ op.at = "dump"
    /\ op' = [op EXCEPT !.at = "start", !.rows = {},
                        !.copy.tables = data.tables,
                        !.copy.torn = op.quiesce /\ data.tables # op.rows]
    /\ UNCHANGED <<running, data, disk, reg, saved, drawn, history>>

BuildFails ==
    /\ "host" \in Faults
    /\ op.at \in {"tar", "dump"}
    /\ op' = [op EXCEPT !.at = "start", !.result = "error"]
    /\ UNCHANGED <<running, data, disk, reg, saved, drawn, history>>

\* Mutant: a restore goes on without its recovery archive.
StartGoesOn ==
    /\ op.at = "start"
    /\ running' = IF op.stopped THEN running \cup {"app"} ELSE running
    /\ Goto(IF op.result = "ok" THEN "move"
            ELSE IF op.verb = "restore" THEN "inspect" ELSE "answer")
    /\ UNCHANGED <<data, disk, reg, saved, drawn, history>>

\* The application is started again if it was stopped, whether the archive was built or not.
Start ==
    /\ op.at = "start"
    /\ running' = IF op.stopped THEN running \cup {"app"} ELSE running
    /\ Goto(IF op.result = "ok" THEN "move" ELSE "answer")
    /\ UNCHANGED <<data, disk, reg, saved, drawn, history>>

\* An archive that was built stays in staging.
StartFails ==
    /\ "host" \in Faults
    /\ op.at = "start" /\ op.stopped
    /\ op' = [op EXCEPT !.at = "answer", !.broke = {"app"},
                        !.result = IF @ = "ok" THEN "unresumed" ELSE @]
    /\ UNCHANGED <<running, data, disk, reg, saved, drawn, history>>

\* Mutant: the outcome of rename is dropped.
MoveAnyway ==
    /\ op.at = "move"
    /\ disk' \in {disk, [disk EXCEPT ![op.id] = op.copy]}
    /\ reg' = [reg EXCEPT !.list[op.id] =
                  [plan |-> op.plan, created |-> Cardinality(drawn), sent |-> FALSE]]
    /\ op' = [op EXCEPT !.at = "record", !.copy = Blank]
    /\ UNCHANGED <<running, data, saved, drawn, history>>

\* The file is renamed into ROOT/backups and the entry inserted.
Move ==
    /\ op.at = "move"
    /\ disk' = [disk EXCEPT ![op.id] = op.copy]
    /\ reg' = [reg EXCEPT !.list[op.id] =
                  [plan |-> op.plan, created |-> Cardinality(drawn), sent |-> FALSE]]
    /\ op' = [op EXCEPT !.at = "record", !.copy = Blank]
    /\ UNCHANGED <<running, data, saved, drawn, history>>

MoveFails ==
    /\ "host" \in Faults
    /\ op.at = "move"
    /\ Fail
    /\ UNCHANGED <<running, data, disk, reg, saved, drawn, history>>

\* The registry is saved before any transfer.
Record ==
    /\ op.at = "record"
    /\ saved' = reg
    /\ Goto("send")
    /\ UNCHANGED <<running, data, disk, reg, drawn, history>>

\* The deliveries, and their outcome in the entry.
Send ==
    /\ op.at = "send"
    /\ \E good \in BOOLEAN :
        /\ ~good => op.remote /\ "send" \in Faults
        /\ reg' = [reg EXCEPT !.list[op.id].sent = good]
    /\ Goto("settle")
    /\ UNCHANGED <<running, data, disk, saved, drawn, history>>

\* Mutant: retention runs although a delivery failed.
SettleAnyway ==
    /\ op.at = "settle"
    /\ saved' = reg
    /\ LET gone == IF op.plan THEN Old ELSE {} IN
        /\ reg' = [reg EXCEPT !.list = [b \in Ids |-> IF b \in gone THEN None ELSE @[b]]]
        /\ disk' = [b \in Ids |-> IF b \in gone THEN None ELSE disk[b]]
        /\ doomed' = doomed \cup gone /\ acked' = acked \ gone
    /\ Goto(IF op.verb = "restore" THEN "inspect" ELSE "answer")
    /\ UNCHANGED <<running, data, drawn, since>>

\* The registry is saved again. A failed delivery is an error; otherwise a plan's old
\* archives go, but for those whose file cannot be removed. A restore goes on from here.
Settle ==
    /\ op.at = "settle"
    /\ saved' = reg
    /\ IF reg.list[op.id].sent
        THEN \E gone \in SUBSET (IF op.plan THEN Old ELSE {}) :
                /\ "host" \notin Faults => gone = IF op.plan THEN Old ELSE {}
                /\ reg' = [reg EXCEPT !.list = [b \in Ids |-> IF b \in gone THEN None ELSE @[b]]]
                /\ disk' = [b \in Ids |-> IF b \in gone THEN None ELSE disk[b]]
                /\ doomed' = doomed \cup gone /\ acked' = acked \ gone
                /\ Goto(IF op.verb = "restore" THEN "inspect" ELSE "answer")
        ELSE Fail /\ UNCHANGED <<reg, disk, doomed, acked>>
    /\ UNCHANGED <<running, data, drawn, since>>

\* registry.json cannot be written.
RecordFails ==
    /\ "save" \in Faults
    /\ op.at \in {"record", "settle"}
    /\ Fail
    /\ UNCHANGED <<running, data, disk, reg, saved, drawn, history>>

-----------------------------------------------------------------------------
(* full_backup_delete and full_backup_deliver. *)

\* The archive is removed, then its exported copy, then the entry. remove_file may fail for
\* either; the entry is kept then.
Delete(b) ==
    /\ op.at = "idle"
    /\ b \in Listed
    /\ \/ /\ disk' = [disk EXCEPT ![b] = None]
          /\ reg' = [reg EXCEPT !.list[b] = None]
          /\ AtOnce("other", b, "ok")
       \/ /\ "host" \in Faults
          /\ disk' \in {disk, [disk EXCEPT ![b] = None]}
          /\ AtOnce("other", b, "error")
          /\ UNCHANGED reg
    /\ doomed' = doomed \cup {b} /\ acked' = acked \ {b}
    /\ UNCHANGED <<running, data, saved, drawn, since>>

\* One destination again. Without the file the upload fails.
Deliver(b) ==
    /\ op.at = "idle"
    /\ b \in Listed
    /\ \E good \in BOOLEAN :
        /\ good => disk[b] # None
        /\ ~good => disk[b] = None \/ "send" \in Faults
        /\ reg' = [reg EXCEPT !.list[b].sent = good]
        /\ AtOnce("other", b, IF good THEN "ok" ELSE "error")
    /\ UNCHANGED <<running, data, disk, saved, drawn, history>>

-----------------------------------------------------------------------------
(* full_backup_restore, around the creation of the recovery archive. *)

\* The archive is copied to staging and its checksums verified; the recovery archive is
\* made with quiesce, for no plan and no destination.
RestoreBegin(b, r) ==
    /\ op.at = "idle"
    /\ b \in Listed /\ r \notin drawn
    /\ disk[b] # None
    /\ drawn' = drawn \cup {r}
    /\ op' = [Idle EXCEPT !.at = "pause", !.verb = "restore", !.id = r, !.quiesce = TRUE,
                          !.staged = disk[b], !.before = Admitted]
    /\ UNCHANGED <<running, data, disk, reg, saved, history>>

\* There is no file, no space, or a checksum does not match.
RestoreRefused(b) ==
    /\ op.at = "idle"
    /\ b \in Listed
    /\ disk[b] = None \/ "host" \in Faults
    /\ AtOnce("restore", None, "error")
    /\ UNCHANGED <<running, data, disk, reg, saved, drawn, history>>

\* Mutant: SFTP is taken for a container.
InspectAll ==
    /\ op.at = "inspect"
    /\ op' = [op EXCEPT !.at = IF "sftp" \in Writers THEN "disable" ELSE "stop",
                        !.was = running, !.access = reg.access]
    /\ UNCHANGED <<running, data, disk, reg, saved, drawn, history>>

\* Which containers run, and how SFTP is set.
Inspect ==
    /\ op.at = "inspect"
    /\ op' = [op EXCEPT !.at = IF "sftp" \in Writers THEN "disable" ELSE "stop",
                        !.was = running \cap Containers,
                        !.access = reg.access]
    /\ UNCHANGED <<running, data, disk, reg, saved, drawn, history>>

InspectFails ==
    /\ "host" \in Faults
    /\ op.at = "inspect"
    /\ Fail
    /\ UNCHANGED <<running, data, disk, reg, saved, drawn, history>>

\* services_agent::configure changes the setting and then has sshd reload its configuration;
\* for a restore it turns both kinds of transfer off.
Disable ==
    /\ op.at = "disable"
    /\ running' = running \ {"sftp"}
    /\ reg' = [reg EXCEPT !.access = FALSE]
    /\ Goto("stop")
    /\ UNCHANGED <<data, disk, saved, drawn, history>>

\* It fails before either, or between the two.
DisableFails ==
    /\ "host" \in Faults
    /\ op.at = "disable"
    /\ reg' \in {reg, [reg EXCEPT !.access = FALSE]}
    /\ op' = [op EXCEPT !.at = "resume", !.result = "error"]
    /\ UNCHANGED <<running, data, disk, saved, drawn, history>>

\* The IDE and the application.
Stop ==
    /\ op.at = "stop"
    /\ running' = running \ op.was
    /\ Goto("clear")
    /\ UNCHANGED <<data, disk, reg, saved, drawn, history>>

StopFails ==
    /\ "host" \in Faults
    /\ op.at = "stop"
    /\ \E down \in SUBSET op.was : running' = running \ down
    /\ op' = [op EXCEPT !.at = "resume", !.result = "error"]
    /\ UNCHANGED <<data, disk, reg, saved, drawn, history>>

\* The archived workspace is listed, and then the workspace cleared.
Clear ==
    /\ op.at = "clear"
    /\ data' = [data EXCEPT !.files = {}]
    /\ Goto("extract")
    /\ UNCHANGED <<running, disk, reg, saved, drawn, history>>

Extract ==
    /\ op.at = "extract"
    /\ data' = [data EXCEPT !.files = @ \cup op.staged.files]
    /\ Goto("load")
    /\ UNCHANGED <<running, disk, reg, saved, drawn, history>>

\* mariadb and psql run the dumps, which replace the tables they hold (tables made since the
\* dump stay: their rows are not among those modelled); then permissions are set.
Load ==
    /\ op.at = "load"
    /\ data' = [data EXCEPT !.tables = op.staged.tables]
    /\ Goto("resume")
    /\ UNCHANGED <<running, disk, reg, saved, drawn, history>>

\* Any of these fails, with some of its work done.
SwapFails ==
    /\ "host" \in Faults
    /\ \/ /\ op.at = "clear"
          /\ \E rest \in SUBSET data.files : data' = [data EXCEPT !.files = rest]
       \/ /\ op.at = "extract"
          /\ \E some \in SUBSET op.staged.files : data' = [data EXCEPT !.files = @ \cup some]
       \/ /\ op.at = "load"
          /\ data' \in {data, [data EXCEPT !.tables = {}],
                              [data EXCEPT !.tables = op.staged.tables]}
    /\ op' = [op EXCEPT !.at = "resume", !.result = "error"]
    /\ UNCHANGED <<running, disk, reg, saved, drawn, history>>

\* Mutant: the writers are started again only after a success.
ResumeIfOk ==
    /\ op.at = "resume"
    /\ IF op.result = "ok"
        THEN /\ reg' = [reg EXCEPT !.access = op.access]
             /\ running' = running \cup op.was \cup (IF op.access THEN {"sftp"} ELSE {})
        ELSE UNCHANGED <<reg, running>>
    /\ since' = {}
    /\ Goto("answer")
    /\ UNCHANGED <<data, disk, saved, drawn, doomed, acked>>

\* Mutant: the result is that of the last step.
ResumeForgets ==
    /\ op.at = "resume"
    /\ reg' = [reg EXCEPT !.access = op.access]
    /\ running' = (running \ {"sftp"}) \cup op.was \cup (IF op.access THEN {"sftp"} ELSE {})
    /\ since' = {}
    /\ op' = [op EXCEPT !.at = "answer", !.result = "ok"]
    /\ UNCHANGED <<data, disk, saved, drawn, doomed, acked>>

\* The writers are started again and SFTP is set as before, whatever happened.
Resume ==
    /\ op.at = "resume"
    /\ reg' = [reg EXCEPT !.access = op.access]
    /\ running' = (running \ {"sftp"}) \cup op.was \cup (IF op.access THEN {"sftp"} ELSE {})
    /\ since' = {}
    /\ Goto("answer")
    /\ UNCHANGED <<data, disk, saved, drawn, doomed, acked>>

\* Some of them cannot be; the others are tried all the same.
ResumeFails ==
    /\ "host" \in Faults
    /\ op.at = "resume"
    /\ \E down \in SUBSET (op.was \cup (Writers \cap {"sftp"})) \ {{}} :
        /\ op' = [op EXCEPT !.at = "answer", !.result = "error", !.broke = down]
        /\ IF "sftp" \in down
            THEN /\ reg' \in {reg, [reg EXCEPT !.access = op.access]}
                 /\ running' = running \cup (op.was \ down)
            ELSE /\ reg' = [reg EXCEPT !.access = op.access]
                 /\ running' = (running \ {"sftp"}) \cup (op.was \ down)
                                  \cup (IF op.access THEN {"sftp"} ELSE {})
    /\ since' = {}
    /\ UNCHANGED <<data, disk, saved, drawn, doomed, acked>>

-----------------------------------------------------------------------------
(* The end of every operation: the dispatcher saves the registry and answers. *)

Answer ==
    /\ op.at = "answer"
    /\ saved' = reg
    /\ acked' = IF op.verb \in {"create", "restore"} /\ op.result = "ok"
                    THEN acked \cup ({op.id} \ doomed) ELSE acked
    /\ op' = Idle
    /\ UNCHANGED <<running, data, disk, reg, drawn, since, doomed>>

\* The answer is an error then.
AnswerFails ==
    /\ "save" \in Faults
    /\ op.at = "answer"
    /\ op' = Idle
    /\ UNCHANGED <<running, data, disk, reg, saved, drawn, history>>

\* The agent is killed and started again. Containers and sshd are not its children.
Crash ==
    /\ "crash" \in Faults
    /\ op.at # "idle"
    /\ op' = Idle
    /\ reg' = saved
    /\ UNCHANGED <<running, data, disk, saved, drawn, history>>

-----------------------------------------------------------------------------
Next ==
    \/ \E w \in Writes : AppWrite(w) \/ FileWrite(w)
    \/ \E w \in Writers : Switch(w)
    \/ \E b \in Ids, plan, quiesce, remote \in BOOLEAN : CreateBegin(b, plan, quiesce, remote)
    \/ \E b \in Ids : CreateAgain(b) \/ Delete(b) \/ Deliver(b) \/ RestoreRefused(b)
    \/ \E b, r \in Ids : RestoreBegin(b, r)
    \/ Pause \/ PauseFails \/ Tar \/ Dump \/ BuildFails \/ Start \/ StartFails
    \/ Move \/ MoveFails \/ Record \/ Send \/ Settle \/ RecordFails
    \/ Inspect \/ InspectFails \/ Disable \/ DisableFails \/ Stop \/ StopFails
    \/ Clear \/ Extract \/ Load \/ SwapFails \/ Resume \/ ResumeFails
    \/ Answer \/ AnswerFails \/ Crash

Spec == Init /\ [][Next]_vars

-----------------------------------------------------------------------------
(* Properties. *)

\* Every variable stays in its range.
TypeOK ==
    /\ running \subseteq Writers
    /\ data \in Data
    /\ disk \in [Ids -> Archive \cup {None}]
    /\ reg \in Registry /\ saved \in Registry
    /\ drawn \subseteq Ids
    /\ op \in Operation
    /\ since \subseteq Writes /\ doomed \subseteq Ids /\ acked \subseteq Ids

\* The files and the SQL dumps of an archive made with quiesce are of one moment: no request
\* to the application fell between tar and the dump, so that a restore does not bring back
\* rows without their files (manifest, consistency: "Application stopped unless explicitly
\* disabled").
SameMoment ==
    \A b \in Ids : disk[b] # None => ~disk[b].torn

\* A restore destroys nothing that is not in its recovery archive, which by then is in
\* ROOT/backups and in registry.json, but for what was written after that archive read the
\* workspace ("creates a recovery archive before modifying data").
RecoveryFirst ==
    [][\A w \in (data.files \ data'.files) \cup (data.tables \ data'.tables) :
          \/ w \in since
          \/ /\ op.id # None
             /\ saved.list[op.id] # None /\ disk[op.id] # None
             /\ w \in data.files \ data'.files => w \in disk[op.id].files
             /\ w \in data.tables \ data'.tables => w \in disk[op.id].tables]_vars

\* When an operation answers, what was admitted at its beginning is admitted again, unless it
\* was its start that failed; and an operation that succeeded left nothing stopped ("Writers
\* resume even when restore fails").
WritersResume ==
    op.at = "answer" =>
        /\ op.before \ op.broke \subseteq running
        /\ op.result = "ok" => op.before \subseteq running

\* A restore that succeeded brought back every file and every row of the archive, and no row
\* is left that is not the archive's or newer: no failure on the way is forgotten.
RestoreIsWhole ==
    op.at = "answer" /\ op.verb = "restore" /\ op.result = "ok" =>
        /\ op.staged.files \subseteq data.files
        /\ op.staged.tables \subseteq data.tables
        /\ data.tables \subseteq op.staged.tables \cup since

\* A restore that succeeded left no file that is not the archive's, or written after the
\* writers resumed ("Files added after the backup are removed").
FilesAreReplaced ==
    op.at = "answer" /\ op.verb = "restore" /\ op.result = "ok" =>
        data.files \subseteq op.staged.files \cup since

\* Retention removes an archive only while a newer one of the plan, delivered wherever the
\* plan sends its archives, is kept ("Do not delete a last usable local copy before
\* successful remote delivery").
LastCopyStays ==
    [][\A b \in Ids : disk[b] # None /\ disk'[b] = None /\ op.at = "settle" =>
          \E n \in Planned : /\ reg.list[n].created > reg.list[b].created
                             /\ reg.list[n].sent
                             /\ disk'[n] # None]_vars

\* An archive whose creation was answered with success is listed and in place, whatever
\* failed or was killed later, until its deletion begins.
AnsweredIsKept ==
    \A b \in acked : saved.list[b] # None /\ reg.list[b] # None /\ disk[b] # None

\* When the answer says that a backup was created, it is listed.
CreatedIsListed ==
    op.at = "answer" /\ op.verb = "create" /\ op.result \in {"ok", "unresumed"} =>
        reg.list[op.id] # None
=============================================================================
