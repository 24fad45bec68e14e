---------------------------- MODULE Provisioning ----------------------------
(***************************************************************************)
(* Creation and deletion of managed resources: applications, domains,      *)
(* databases, DNS records, schedules, backups and blocked addresses. The   *)
(* panel (src/src/main.rs, create_resource and remove_resource) checks its *)
(* table resources, has the agent do the work, and then inserts or deletes *)
(* its row. The agent (src/src/agent.rs) works under its registry mutex,   *)
(* changes its registry in memory, and writes registry.json before it      *)
(* answers. Nothing makes the two changes atomic: a client may leave, the  *)
(* agent may outlast the panel's patience or be killed, a host program or  *)
(* a write may fail, and each leaves the two registries apart in its way.  *)
(***************************************************************************)
EXTENDS Naturals, FiniteSets

CONSTANTS
    Ids,       \* identifiers of resources: random UUIDs, never used twice
    Owners,    \* rows of table users, all of them enabled
    Names,     \* domain names
    Requests,  \* HTTP handlers that can be in flight at once
    Kinds,     \* the kinds of resources in use, from AllKinds
    Quota,     \* users.quota, the same for every owner
    Faults,    \* what may go wrong, from AllFaults
    None       \* null

AllKinds == {"apps", "domains", "databases", "dns", "schedules", "backups", "blocks"}

\* "host": a program the agent runs fails, before the registry is touched;
\* "publish": one fails after it; "save": registry.json is not written;
\* "crash": the agent is killed; "drop": the panel stops waiting for the agent, or never
\* gets to its own statement; "db": that statement fails.
AllFaults == {"host", "publish", "save", "crash", "drop", "db"}

ASSUME ConstantsAssumption ==
    /\ Kinds \subseteq AllKinds
    /\ Faults \subseteq AllFaults
    /\ Quota \in Nat
    /\ None \notin Ids \cup Names \cup Requests
    /\ IsFiniteSet(Ids)

VARIABLES
    what,     \* what each identifier was drawn for
    rows,     \* table resources
    retired,  \* history: resources whose row was deleted
    doomed,   \* history: resources whose deletion was sent to the agent
    writes,   \* who holds the panel's writes mutex
    panel,    \* where each HTTP handler is
    call,     \* where each handler's operation is, which may outlive the handler
    up,       \* the agent is running
    items,    \* the agent's registry, in memory
    saved,    \* registry.json
    built,    \* what exists on the host: container, vhost, database or archive
    spared    \* history: nothing but host programs has failed so far

panelVars == <<what, rows, retired, doomed, writes, panel>>
agentVars == <<up, items, saved, built>>
vars == <<panelVars, call, agentVars, spared>>

-----------------------------------------------------------------------------
(* Resources and their links. *)

\* The panel sends the agent the owner and the data it later inserts, so both registries
\* describe a resource alike and a set of identifiers stands for either.
Resource == [kind : Kinds, owner : Owners, name : Names \cup {None}, link : Ids \cup {None}]

ASSUME NullAssumption == None \notin Resource

\* A domain may be linked to an application; the others must be linked.
LinkedKind == [dns |-> "domains", domains |-> "apps", schedules |-> "apps", backups |-> "apps"]
MustLink == {"dns", "schedules", "backups"}

\* Kinds with something on the host that deletion takes down, and those for which taking
\* down what is not there is an error.
Hosted == {"apps", "domains", "databases", "backups"}
Removed == {"domains", "backups"}

Domains(S) == {i \in S : what[i].kind = "domains"}
NameFree(S, v) == v.kind = "domains" => \A i \in Domains(S) : what[i].name # v.name

\* owned and reference: the link is in the registry, of the right kind and owner.
LinkIn(S, v) ==
    IF v.link = None
        THEN v.kind \notin MustLink
        ELSE /\ v.kind \in DOMAIN LinkedKind
             /\ v.link \in S
             /\ what[v.link].kind = LinkedKind[v.kind]
             /\ what[v.link].owner = v.owner

Owned(o, k) == {i \in rows : what[i].owner = o /\ what[i].kind = k}

IdlePanel == [at |-> "idle", verb |-> None, id |-> None]
IdleCall == [at |-> "none", verb |-> None, id |-> None, ok |-> FALSE]

\* Where an operation holds the agent's registry mutex.
Inside == {"work", "record", "save"}
MutexFree == \A r \in Requests : call[r].at \notin Inside

-----------------------------------------------------------------------------
Init ==
    /\ what = [i \in Ids |-> None]
    /\ rows = {} /\ retired = {} /\ doomed = {}
    /\ writes = None
    /\ panel = [r \in Requests |-> IdlePanel]
    /\ call = [r \in Requests |-> IdleCall]
    /\ up = TRUE
    /\ items = {} /\ saved = {} /\ built = {}
    /\ spared = TRUE

-----------------------------------------------------------------------------
(* The panel. *)

\* Mutant: the handler does not take the writes mutex.
SendUnlocked(r, verb, i) ==
    /\ panel[r].at = "idle" /\ call[r].at = "none"
    /\ writes' = r
    /\ panel' = [panel EXCEPT ![r] = [at |-> "wait", verb |-> verb, id |-> i]]
    /\ call' = [call EXCEPT ![r] = [at |-> "sent", verb |-> verb, id |-> i, ok |-> FALSE]]

\* The handler got the writes mutex and found nothing to refuse; it sends the operation.
Send(r, verb, i) ==
    /\ panel[r].at = "idle" /\ call[r].at = "none"
    /\ writes = None
    /\ writes' = r
    /\ panel' = [panel EXCEPT ![r] = [at |-> "wait", verb |-> verb, id |-> i]]
    /\ call' = [call EXCEPT ![r] = [at |-> "sent", verb |-> verb, id |-> i, ok |-> FALSE]]

\* POST /api/resources/{kind}, from an administrator or an account that may.
Create(r, i, v) ==
    /\ what[i] = None
    /\ (v.kind = "domains") <=> (v.name # None)
    /\ Cardinality(Owned(v.owner, v.kind)) < Quota
    /\ NameFree(rows, v)
    /\ LinkIn(rows, v)
    /\ what' = [what EXCEPT ![i] = v]
    /\ Send(r, "create", i)
    /\ UNCHANGED <<rows, retired, doomed, agentVars, spared>>

\* DELETE /api/resource/{id}.
Delete(r, i) ==
    /\ i \in rows
    /\ \A j \in rows \ {i} : what[j].link # i
    /\ Send(r, "delete", i)
    /\ doomed' = doomed \cup {i}
    /\ UNCHANGED <<what, rows, retired, agentVars, spared>>

\* The handler returns, and its lock guard with it.
Return(r) ==
    /\ panel' = [panel EXCEPT ![r] = IdlePanel]
    /\ writes' = None

\* Mutant: the identifier is read from the answer, which has none.
ApprovedByAnswer(r) ==
    /\ panel[r].at = "wait" /\ call[r].at = "answer" /\ call[r].ok
    /\ panel' = [panel EXCEPT ![r].at = "commit", ![r].id = None]
    /\ call' = [call EXCEPT ![r] = IdleCall]
    /\ UNCHANGED <<what, rows, retired, doomed, writes, agentVars, spared>>

\* The agent answers that it is done.
Approved(r) ==
    /\ panel[r].at = "wait" /\ call[r].at = "answer" /\ call[r].ok
    /\ panel' = [panel EXCEPT ![r].at = "commit"]
    /\ call' = [call EXCEPT ![r] = IdleCall]
    /\ UNCHANGED <<what, rows, retired, doomed, writes, agentVars, spared>>

\* Mutant: the row goes whether or not the agent could delete the resource.
RefusedForgiving(r) ==
    /\ panel[r].at = "wait"
    /\ call[r].at = "cut" \/ (call[r].at = "answer" /\ ~call[r].ok)
    /\ rows' = IF panel[r].verb = "delete" THEN rows \ {panel[r].id} ELSE rows
    /\ Return(r)
    /\ call' = [call EXCEPT ![r] = IdleCall]
    /\ UNCHANGED <<what, retired, doomed, agentVars, spared>>

\* The agent answers with an error, or the connection breaks.
Refused(r) ==
    /\ panel[r].at = "wait"
    /\ call[r].at = "cut" \/ (call[r].at = "answer" /\ ~call[r].ok)
    /\ Return(r)
    /\ call' = [call EXCEPT ![r] = IdleCall]
    /\ UNCHANGED <<what, rows, retired, doomed, agentVars, spared>>

\* The INSERT or the DELETE.
Commit(r) ==
    /\ panel[r].at = "commit"
    /\ LET i == panel[r].id IN
        IF panel[r].verb = "create"
            THEN rows' = rows \cup {i} /\ UNCHANGED retired
            ELSE rows' = rows \ {i} /\ retired' = retired \cup {i}
    /\ Return(r)
    /\ UNCHANGED <<what, doomed, call, agentVars, spared>>

\* The statement fails: the database was locked for longer than the busy timeout.
CommitFails(r) ==
    /\ "db" \in Faults
    /\ panel[r].at = "commit"
    /\ Return(r)
    /\ spared' = FALSE
    /\ UNCHANGED <<what, rows, retired, doomed, call, agentVars>>

\* The client went away and the handler was dropped at an await, or agent_call waited for
\* 360 seconds, or the panel was killed. The agent is not told.
Abandon(r) ==
    /\ "drop" \in Faults
    /\ panel[r].at \in {"wait", "commit"}
    /\ Return(r)
    /\ spared' = FALSE
    /\ UNCHANGED <<what, rows, retired, doomed, call, agentVars>>

\* Nobody reads the answer to an operation whose handler is gone.
Unheard(r) ==
    /\ panel[r].at = "idle" /\ call[r].at \in {"answer", "cut"}
    /\ call' = [call EXCEPT ![r] = IdleCall]
    /\ UNCHANGED <<panelVars, agentVars, spared>>

-----------------------------------------------------------------------------
(* The agent: one operation at a time, under the registry mutex. *)

\* Mutant: the agent leaves domain names to the panel.
AcceptsAnyName(verb, i) ==
    IF verb = "create" THEN i \notin items /\ LinkIn(items, what[i]) ELSE i \in items

\* The checks of execute and of the operation itself.
Accepts(verb, i) ==
    IF verb = "create"
        THEN i \notin items /\ NameFree(items, what[i]) /\ LinkIn(items, what[i])
        ELSE i \in items

\* The operation gets the mutex. A refusal is followed by a save like everything else.
Take(r) ==
    /\ up /\ MutexFree
    /\ call[r].at = "sent"
    /\ call' = [call EXCEPT ![r].at =
                  IF Accepts(call[r].verb, call[r].id) THEN "work" ELSE "save"]
    /\ UNCHANGED <<panelVars, agentVars, spared>>

\* The host's programs: podman, nginx, the database server, tar. (A domain with mailboxes
\* in use is refused here too: that leaves what a failing first program leaves.)
Work(r) ==
    /\ call[r].at = "work"
    /\ LET i == call[r].id
           k == what[i].kind IN
        IF call[r].verb = "create"
            THEN built' = IF k \in Hosted THEN built \cup {i} ELSE built
            ELSE /\ k \in Removed => i \in built
                 /\ built' = built \ {i}
    /\ call' = [call EXCEPT ![r].at = "record"]
    /\ UNCHANGED <<panelVars, up, items, saved, spared>>

\* One of them fails, after it did its work or before. remove_file also fails, for a vhost
\* or an archive, when the file is gone already.
WorkFails(r) ==
    /\ call[r].at = "work"
    /\ LET i == call[r].id
           k == what[i].kind
           made == IF call[r].verb = "create" THEN built \cup {i} ELSE built \ {i} IN
        \/ "host" \in Faults /\ k \in Hosted /\ built' \in {built, made}
        \/ call[r].verb = "delete" /\ k \in Removed /\ i \notin built /\ UNCHANGED built
    /\ call' = [call EXCEPT ![r].at = "save"]
    /\ UNCHANGED <<panelVars, up, items, saved, spared>>

\* reg.items.insert or remove, and what depends on it: zones, vhosts, access lists.
Record(r) ==
    /\ call[r].at = "record"
    /\ items' = IF call[r].verb = "create" THEN items \cup {call[r].id}
                                           ELSE items \ {call[r].id}
    /\ call' = [call EXCEPT ![r].at = "save", ![r].ok = TRUE]
    /\ UNCHANGED <<panelVars, up, saved, built, spared>>

\* Mutant: a failing dns_sync takes the vhost of a new domain back, but not its entry.
RecordFailsHalfway(r) ==
    /\ "publish" \in Faults
    /\ call[r].at = "record" /\ call[r].verb = "create"
    /\ what[call[r].id].kind = "domains"
    /\ built' = built \ {call[r].id}
    /\ items' = items \cup {call[r].id}
    /\ call' = [call EXCEPT ![r].at = "save"]
    /\ spared' = FALSE
    /\ UNCHANGED <<panelVars, up, saved>>

\* What depends on it fails. Only a failing dns_sync of a creation is undone, and the
\* domain's vhost with it; otherwise the registry keeps the change and the answer is an error.
RecordFails(r) ==
    /\ "publish" \in Faults
    /\ call[r].at = "record"
    /\ LET i == call[r].id
           k == what[i].kind IN
        \/ /\ call[r].verb = "create" /\ k \in {"domains", "dns"}
           /\ built' = built \ {i}
           /\ UNCHANGED items
        \/ /\ call[r].verb = "create" /\ k \in {"apps", "domains", "databases", "blocks"}
           /\ items' = items \cup {i}
           /\ UNCHANGED built
        \/ /\ call[r].verb = "delete" /\ k \in {"domains", "dns", "databases", "blocks"}
           /\ items' = items \ {i}
           /\ UNCHANGED built
    /\ call' = [call EXCEPT ![r].at = "save"]
    /\ spared' = FALSE
    /\ UNCHANGED <<panelVars, up, saved>>

\* The registry file is replaced, the mutex is released, the answer is written.
Save(r) ==
    /\ call[r].at = "save"
    /\ saved' = items
    /\ call' = [call EXCEPT ![r].at = "answer"]
    /\ UNCHANGED <<panelVars, up, items, built, spared>>

\* Mutant: the result of save is dropped, as cron_agent does.
SaveFailsSilently(r) ==
    /\ "save" \in Faults
    /\ call[r].at = "save"
    /\ call' = [call EXCEPT ![r].at = "answer"]
    /\ spared' = FALSE
    /\ UNCHANGED <<panelVars, agentVars>>

\* The file cannot be written: the answer is an error whatever was done.
SaveFails(r) ==
    /\ "save" \in Faults
    /\ call[r].at = "save"
    /\ call' = [call EXCEPT ![r].at = "answer", ![r].ok = FALSE]
    /\ spared' = FALSE
    /\ UNCHANGED <<panelVars, agentVars>>

\* Every other operation of the agent ends with the same save, and so does its cron loop.
SaveOther ==
    /\ up /\ MutexFree
    /\ saved' = items
    /\ UNCHANGED <<panelVars, call, up, items, built, spared>>

\* The agent is killed, or stopped for a release: every connection breaks.
Crash ==
    /\ "crash" \in Faults
    /\ up
    /\ up' = FALSE
    /\ call' = [r \in Requests |->
                  IF call[r].at = "none" THEN call[r] ELSE [call[r] EXCEPT !.at = "cut"]]
    /\ spared' = FALSE
    /\ UNCHANGED <<panelVars, items, saved, built>>

\* A connection to a socket that nobody listens on.
Unreachable(r) ==
    /\ ~up
    /\ call[r].at = "sent"
    /\ call' = [call EXCEPT ![r].at = "cut"]
    /\ UNCHANGED <<panelVars, agentVars, spared>>

\* main reads the file back and renders the vhost of every domain in it. A domain whose
\* application is not registered is an error there, and the agent exits.
CanStart(S) ==
    \A i \in Domains(S) : what[i].link # None => what[i].link \in S

Restart ==
    /\ ~up
    /\ CanStart(saved)
    /\ up' = TRUE
    /\ items' = saved
    /\ built' = built \cup Domains(saved)
    /\ UNCHANGED <<panelVars, call, saved, spared>>

-----------------------------------------------------------------------------
Panel(r) ==
    \/ \E i \in Ids, v \in Resource : Create(r, i, v)
    \/ \E i \in Ids : Delete(r, i)
    \/ Approved(r) \/ Refused(r) \/ Commit(r) \/ CommitFails(r)
    \/ Abandon(r) \/ Unheard(r)

Agent(r) ==
    \/ Take(r) \/ Work(r) \/ WorkFails(r) \/ Record(r) \/ RecordFails(r)
    \/ Save(r) \/ SaveFails(r) \/ Unreachable(r)

Next ==
    \/ \E r \in Requests : Panel(r) \/ Agent(r)
    \/ SaveOther \/ Crash \/ Restart

Spec == Init /\ [][Next]_vars

-----------------------------------------------------------------------------
(* Properties. *)

PanelType == [at : {"idle", "wait", "commit"}, verb : {"create", "delete", None},
              id : Ids \cup {None}]
CallType == [at : {"none", "sent", "answer", "cut"} \cup Inside,
             verb : {"create", "delete", None}, id : Ids \cup {None}, ok : BOOLEAN]

TypeOK ==
    /\ what \in [Ids -> Resource \cup {None}]
    /\ rows \subseteq Ids /\ retired \subseteq Ids /\ doomed \subseteq Ids
    /\ writes \in Requests \cup {None}
    /\ panel \in [Requests -> PanelType]
    /\ call \in [Requests -> CallType]
    /\ up \in BOOLEAN
    /\ items \subseteq Ids /\ saved \subseteq Ids /\ built \subseteq Ids
    /\ spared \in BOOLEAN

\* The two registries keep the promise of Catalogue: every row was on registry.json when it
\* was inserted, the agent gives up only what the panel lists, and nothing withdrawn comes
\* back, whichever step of create_resource, remove_resource or the agent's save fails or is
\* overtaken by a restart.
C == INSTANCE Catalogue WITH kept <- saved, listed <- rows
CatalogueKept == C!CSpec

\* remove_resource looks for links and create_resource for their target under one lock: no
\* row is left with a link to a row that is gone, whatever became of the agent's part.
LinksResolve ==
    \A i \in rows : what[i].link # None => what[i].link \in rows

\* Two domains never share a name, in the panel or in the agent: each checks for itself,
\* because either can know a domain that the other does not.
NameOnce ==
    \A S \in {rows, items, saved} : \A i, j \in Domains(S) :
        what[i].name = what[j].name => i = j

\* What registry.json describes exists on the host until its deletion is tried, also after a
\* failure that takes part of a creation back and after a restart.
StoredIsBuilt ==
    \A i \in saved \ doomed : what[i].kind \in Hosted => i \in built

\* When only host programs fail, before the registry is touched, the panel, the agent and
\* its file agree whenever no request is under way.
AtRest == \A r \in Requests : panel[r].at = "idle" /\ call[r].at = "none"
AgreeAtRest == spared /\ AtRest => rows = items /\ items = saved

\* "Remove linked resources first" (docs/API-REFERENCE.md:702): an application leaves the
\* agent's registry only when no domain there is linked to it.
LinkedRemovedFirst == CanStart(items)
=============================================================================
