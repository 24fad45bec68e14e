----------------------------- MODULE Container -----------------------------
(***************************************************************************)
(* The containers of one account's applications and what they share: the   *)
(* budget of the account and the counter of host ports. Modelled are the   *)
(* operations of the agent that create, start, stop, replace, resize and   *)
(* delete them (src/src/agent.rs, workspace_agent.rs, egress_agent.rs,     *)
(* resources_agent.rs). Each runs under the registry mutex from its first  *)
(* check to the save of the registry, so they never interleave; but each   *)
(* is a sequence of calls to podman, any of which may fail or time out,    *)
(* the agent may be killed between any two, and it then starts again with  *)
(* the registry it saved last, whatever has become of the host.            *)
(***************************************************************************)
EXTENDS Naturals, FiniteSets, Functions

CONSTANTS
    Apps,         \* identifiers of applications, random and never used twice
    Versions,     \* versions of a runtime
    Allocations,  \* of memory and disk (processor time follows the same rule as memory)
    Budgets,      \* budgets an administrator may set
    FirstBudget,  \* the one an account has before that
    IdeMemory,    \* what an enabled IDE reserves
    PortLimit,    \* the first port not to be used; ports are counted from 1
    MaxFaults,    \* bound: how many calls to the host fail and how often the agent is killed
    Nothing       \* where there is no container

Amounts == [memory : Nat, disk : Nat \ {0}]

VARIABLES
    host,    \* what podman and the volume helper keep for each application
    reg,     \* the agent's registry, in memory
    saved,   \* registry.json
    op,      \* the operation that holds the registry mutex
    faults   \* how many calls failed and how often the agent was killed so far

vars == <<host, reg, saved, op, faults>>

-----------------------------------------------------------------------------
\* An entry "apps" of the registry.
Item == [memory : Nat, disk : Nat \ {0}, version : Versions, port : Nat, proxied : BOOLEAN,
         ide_enabled : BOOLEAN, ide_port : Nat]

IsRegistry(r) ==
    /\ r = [items |-> r.items, ports |-> r.ports, budget |-> r.budget]
    /\ DOMAIN r.items \subseteq Apps /\ r.items \in [DOMAIN r.items -> Item]
    /\ r.ports \in Nat /\ r.budget \in Amounts

AppContainer == [version : Versions, memory : Nat, port : Nat, proxied : BOOLEAN,
                 running : BOOLEAN]
IdeContainer == [port : Nat, running : BOOLEAN]

ASSUME ConstantsAssumption ==
    /\ IsFiniteSet(Apps)
    /\ Allocations \subseteq Amounts
    /\ Budgets \subseteq Amounts /\ FirstBudget \in Amounts
    /\ IdeMemory \in Nat /\ PortLimit \in Nat \ {0}
    /\ Nothing \notin AppContainer \cup IdeContainer
    /\ MaxFaults \in Nat

\* cont and prev are the containers cgp_<id> and cgp_<id>_previous, ide is cgp_ide_<id>,
\* gate the port the egress gateway cgpx_<id> listens on and volume the size of the
\* workspace's volume, both 0 when there is none.
Host == [cont : AppContainer \cup {Nothing}, prev : AppContainer \cup {Nothing},
         ide : IdeContainer \cup {Nothing}, gate : Nat, volume : Nat]

Bare == [cont |-> Nothing, prev |-> Nothing, ide |-> Nothing, gate |-> 0, volume |-> 0]

\* "activate" is the second half of "runtime", which creates the container for good.
Kinds == {"create", "start", "stop", "runtime", "activate", "egress", "ide_on", "ide_off",
          "limits", "delete"}

Steps == {"volume", "port", "gateway", "ready", "run", "verb", "stop", "rename", "health",
          "retire", "discard", "rollback", "restore", "revive", "settle", "drop", "remove",
          "cleanup", "ide_port", "ide_clear", "ide_run", "ide_ready", "ide_remove",
          "ide_reload", "stop_ide", "grow", "start", "update", "resume", "resume_ide"}

\* item is what the operation goes to register, old a copy of the entry it found and was
\* whether the container ran.
Operation == [kind : Kinds, step : Steps, app : Apps, item : Item, old : Item, was : BOOLEAN]

\* No operation, and one that has ended but for the save of the registry.
Idle == [kind |-> "none", step |-> "idle"]
Ended == [kind |-> "none", step |-> "save"]

Init ==
    /\ host = [a \in Apps |-> Bare]
    /\ reg = [items |-> [a \in {} |-> Nothing], ports |-> 0, budget |-> FirstBudget]
    /\ saved = reg
    /\ op = Idle
    /\ faults = 0

-----------------------------------------------------------------------------
Registered == DOMAIN reg.items

Register(a, item) ==
    [reg EXCEPT !.items = [b \in Registered \cup {a} |-> IF b = a THEN item ELSE @[b]]]

\* Mutant: the entry of a deleted application is emptied and left in place.
ForgetData(a) == [reg EXCEPT !.items[a] = Nothing]

Forget(a) == [reg EXCEPT !.items = [b \in Registered \ {a} |-> @[b]]]

\* Memory and disk the applications but those of except reserve. A volume counts with its
\* own size, also one whose application was deleted.
UsedMemory(except) ==
    LET reserved == [a \in Registered |->
                        reg.items[a].memory + (IF reg.items[a].ide_enabled THEN IdeMemory ELSE 0)]
    IN  SumFunctionOnSet(reserved, Registered \ except)

UsedDisk(except) ==
    LET reserved == [a \in Apps |->
                        IF host[a].volume # 0 THEN host[a].volume
                        ELSE IF a \in Registered THEN reg.items[a].disk ELSE 0]
    IN  SumFunctionOnSet(reserved, Apps \ except)

\* Mutant: an IDE that is enabled already is not counted.
FitsWithoutIde(a, item, extraIde) ==
    /\ UsedMemory({a}) + item.memory + (IF extraIde THEN IdeMemory ELSE 0) <= reg.budget.memory
    /\ UsedDisk({a}) + item.disk <= reg.budget.disk

\* resources_agent::check.
Fits(a, item, extraIde) ==
    LET ide == IF extraIde \/ (a \in Registered /\ reg.items[a].ide_enabled)
               THEN IdeMemory ELSE 0
    IN  /\ UsedMemory({a}) + item.memory + ide <= reg.budget.memory
        /\ UsedDisk({a}) + item.disk <= reg.budget.disk

\* A running container, gateway or IDE has published the port.
Busy(port) ==
    \E a \in Apps :
        \/ host[a].cont # Nothing /\ host[a].cont.running /\ ~host[a].cont.proxied
           /\ host[a].cont.port = port
        \/ host[a].gate = port
        \/ host[a].ide # Nothing /\ host[a].ide.running /\ host[a].ide.port = port

\* podman can start the container: it runs already, or its port is free, or it has the
\* network of the gateway and the gateway is there.
Startable(a, c) ==
    c.running \/ (IF c.proxied THEN host[a].gate # 0 ELSE ~Busy(c.port))

Has(a) == host[a].cont # Nothing

\* What calls make of the host.
SetCont(a, c) == [host EXCEPT ![a].cont = c]
SetPrev(a, c) == [host EXCEPT ![a].prev = c]
SetIde(a, i) == [host EXCEPT ![a].ide = i]
SetGate(a, port) == [host EXCEPT ![a].gate = port]
SetVolume(a, size) == [host EXCEPT ![a].volume = size]

\* podman rename, of the container to the previous one and back.
KeepCont(a) == [host EXCEPT ![a] = [@ EXCEPT !.prev = host[a].cont, !.cont = Nothing]]
TakeBack(a) == [host EXCEPT ![a] = [@ EXCEPT !.cont = host[a].prev, !.prev = Nothing]]

\* podman start and podman stop.
WithCont(a, running) == SetCont(a, [host[a].cont EXCEPT !.running = running])

\* A call to the host. It has its effect h, the registry becomes r and the operation goes on
\* with next; or it fails, or is killed when its time is over, with or without effect, and
\* the operation goes on with failed.
Call(h, r, next, failed) ==
    /\ \/ host' = h /\ reg' = r /\ op' = next /\ UNCHANGED faults
       \/ /\ faults < MaxFaults /\ faults' = faults + 1
          /\ host' \in {host, h} /\ op' = failed /\ UNCHANGED reg
    /\ UNCHANGED saved

\* The same for a call that needs a condition on the host to succeed.
CallIf(condition, h, r, next, failed) ==
    IF condition THEN Call(h, r, next, failed)
    ELSE op' = failed /\ UNCHANGED <<host, reg, saved, faults>>

\* podman run. If only the port cannot be published the container may have been created all
\* the same.
Run(taken, startable, running, created, r, next, failed) ==
    IF ~taken /\ startable THEN Call(running, r, next, failed)
    ELSE /\ host' \in {host} \cup (IF taken THEN {} ELSE {created})
         /\ op' = failed
         /\ UNCHANGED <<reg, saved, faults>>

\* A step without a call.
Go(r, next) ==
    /\ reg' = r /\ op' = next
    /\ UNCHANGED <<host, saved, faults>>

To(step) == [op EXCEPT !.step = step]

\* create_app, of an application that has its entry and its volume, checks the budget again.
Recreate(step, refused) == IF Fits(op.app, op.item, FALSE) THEN To(step) ELSE refused

Begin(kind, step, a, item, was) ==
    /\ op = Idle
    /\ Go(reg, [kind |-> kind, step |-> step, app |-> a, item |-> item,
                old |-> IF a \in Registered THEN reg.items[a] ELSE item, was |-> was])
-----------------------------------------------------------------------------
(* Creation of a container, which the runtime switch and egress share. *)

\* create_app. The identifier is fresh, and application_input lets no proxy in.
CreateApp(a, limits, version) ==
    LET item == [memory |-> limits.memory, disk |-> limits.disk, version |-> version, port |-> 0,
                 proxied |-> FALSE, ide_enabled |-> FALSE, ide_port |-> 0]
    IN  /\ a \notin Registered /\ host[a] = Bare
        /\ Fits(a, item, FALSE)
        /\ Begin("create", "volume", a, item, FALSE)

\* The volume helper makes the volume of the workspace.
MakeVolume ==
    /\ op.step = "volume"
    /\ Call(SetVolume(op.app, op.item.disk), reg, To("port"), Ended)

\* Mutant: the counter is read and not moved.
TakePortUncounted ==
    LET port == reg.ports + 1
    IN  /\ op.step = "port"
        /\ Go(reg, IF port < PortLimit THEN [op EXCEPT !.item.port = port, !.step = "run"]
                   ELSE Ended)

\* The next port is taken; the counter moves only if it is below the limit.
TakePort ==
    LET port == reg.ports + 1
    IN  /\ op.step = "port"
        /\ IF port < PortLimit
           THEN Go([reg EXCEPT !.ports = port],
                   [op EXCEPT !.item.port = port, !.step = "run"])
           ELSE Go(reg, Ended)

\* The container is created and runs, and the application is registered.
RunContainer ==
    LET a == op.app
        created == [version |-> op.item.version, memory |-> op.item.memory,
                    port |-> op.item.port, proxied |-> op.item.proxied, running |-> FALSE]
        next == CASE op.kind = "runtime" -> To("health")
                  [] op.kind = "activate" -> To("settle")
                  [] OTHER -> Ended
        failed == IF op.kind \in {"runtime", "activate"} THEN To("rollback") ELSE Ended
    IN  /\ op.step = "run"
        /\ Run(Has(a), Startable(a, created), SetCont(a, [created EXCEPT !.running = TRUE]),
               SetCont(a, created), Register(a, op.item), next, failed)

-----------------------------------------------------------------------------
(* start_app and stop_app. *)

StartOrStop(a, kind) ==
    /\ a \in Registered /\ kind \in {"start", "stop"}
    /\ Begin(kind, "verb", a, reg.items[a], FALSE)

Verb ==
    LET a == op.app
    IN  /\ op.step = "verb"
        /\ CallIf(Has(a) /\ (op.kind = "start" => Startable(a, host[a].cont)),
                  WithCont(a, op.kind = "start"), reg, Ended, Ended)

-----------------------------------------------------------------------------
(* workspace_agent::runtime: another version of the runtime, with rollback. *)

SwitchRuntime(a, version) ==
    /\ a \in Registered /\ ~reg.items[a].proxied
    /\ Has(a) /\ host[a].prev = Nothing
    /\ Begin("runtime", "stop", a, [reg.items[a] EXCEPT !.version = version],
             host[a].cont.running)

\* Mutant: a failure to stop the old container is rolled back like those that come later.
StopOldOrRollBack ==
    /\ op.kind = "runtime" /\ op.step = "stop"
    /\ Call(WithCont(op.app, FALSE), reg, To("rename"), To("rollback"))

StopOld ==
    /\ op.kind = "runtime" /\ op.step = "stop"
    /\ Call(WithCont(op.app, FALSE), reg, To("rename"), Ended)

RenameOld ==
    /\ op.step = "rename"
    /\ Call(KeepCont(op.app), reg, Recreate("run", To("rollback")), Ended)

\* Four seconds later the container of the new version runs, or it has exited by itself.
CheckHealth ==
    /\ op.step = "health"
    /\ \/ Call(host, reg, To("retire"), To("rollback"))
       \/ /\ host' = WithCont(op.app, FALSE) /\ op' = To("rollback")
          /\ UNCHANGED <<reg, saved, faults>>

\* The container that was tried without a restart policy is stopped, removed and created
\* again with one.
StopTried ==
    /\ op.step = "retire"
    /\ Call(WithCont(op.app, FALSE), reg, To("discard"), To("rollback"))

RemoveTried ==
    /\ op.step = "discard"
    /\ Call(SetCont(op.app, Nothing), reg,
            [Recreate("run", To("rollback")) EXCEPT !.kind = "activate"], To("rollback"))

\* Rollback: what became of the removal is ignored.
RemoveNew ==
    /\ op.step = "rollback"
    /\ Call(SetCont(op.app, Nothing), reg, To("restore"), To("restore"))

RenameBack ==
    /\ op.step = "restore"
    /\ CallIf(~Has(op.app), TakeBack(op.app), reg, To("revive"), Ended)

\* Mutant: the entry of the new version stays.
ReviveOnly ==
    LET a == op.app
    IN  /\ op.step = "revive"
        /\ IF op.was
           THEN CallIf(Startable(a, host[a].cont), WithCont(a, TRUE), reg, Ended, Ended)
           ELSE Go(reg, Ended)

\* The old entry is registered again after the old container runs again, if it ran.
Revive ==
    LET a == op.app
    IN  /\ op.step = "revive"
        /\ IF op.was
           THEN CallIf(Startable(a, host[a].cont), WithCont(a, TRUE),
                       Register(a, op.old), Ended, Ended)
           ELSE Go(Register(a, op.old), Ended)

\* Mutant: that the old container did not run is forgotten.
SettleRunning == op.step = "settle" /\ Go(reg, To("drop"))

\* The new container is stopped if the old one did not run, and the old one is removed.
Settle ==
    /\ op.step = "settle"
    /\ IF op.was THEN Go(reg, To("drop"))
       ELSE Call(WithCont(op.app, FALSE), reg, To("drop"), Ended)

DropPrevious ==
    /\ op.step = "drop"
    /\ Call(SetPrev(op.app, Nothing), reg, Ended, Ended)

-----------------------------------------------------------------------------
(* egress_agent::configure: the container is made again, with or without a gateway. *)

ConfigureEgress(a, proxied) ==
    /\ a \in Registered /\ Has(a)
    /\ Begin("egress", "remove", a, [reg.items[a] EXCEPT !.proxied = proxied], FALSE)

\* Mutant: the outcome is ignored.
RemoveContainerOrNot ==
    /\ op.step = "remove"
    /\ Call(SetCont(op.app, Nothing), reg, To("cleanup"), To("cleanup"))

\* podman rm -f, in egress and in deletion; without --ignore it needs the container to be there.
RemoveContainer ==
    /\ op.step = "remove"
    /\ Call(SetCont(op.app, Nothing), reg, To("cleanup"), Ended)

\* egress_agent::cleanup, whose result is ignored. A deletion then ends with the removal of
\* the entry.
RemoveGateway ==
    LET h == SetGate(op.app, 0)
        next == Recreate(IF op.item.proxied THEN "gateway" ELSE "run", Ended)
    IN  /\ op.step = "cleanup"
        /\ IF op.kind = "delete"
           THEN /\ \/ host' = h /\ UNCHANGED faults
                   \/ faults < MaxFaults /\ faults' = faults + 1 /\ UNCHANGED host
                /\ reg' = Forget(op.app) /\ op' = Ended
                /\ UNCHANGED saved
           ELSE Call(h, reg, next, next)

\* egress_agent::prepare starts the gateway, which publishes the application's port.
RunGateway ==
    LET a == op.app
    IN  /\ op.step = "gateway"
        /\ CallIf(host[a].gate = 0 /\ ~Busy(op.item.port),
                  SetGate(a, op.item.port), reg, To("ready"), Ended)

\* The gateway becomes ready, or it does not and is left as it is.
AwaitGateway ==
    /\ op.step = "ready"
    /\ \E next \in {To("run"), Ended} : Go(reg, next)

-----------------------------------------------------------------------------
(* workspace_agent::ide: the IDE of an application. *)

\* An IDE that was installed before keeps its port.
EnableIde(a) ==
    /\ a \in Registered /\ Fits(a, reg.items[a], TRUE)
    \* A bound: every attempt beyond the limit moves the counter, a u16, on.
    /\ reg.items[a].ide_port # 0 \/ reg.ports < PortLimit
    /\ Begin("ide_on", "ide_port", a, [reg.items[a] EXCEPT !.ide_enabled = TRUE], FALSE)

\* Unlike in create_app the counter moves also when the limit is reached.
TakeIdePort ==
    LET new == reg.ports + 1
        port == IF op.item.ide_port = 0 THEN new ELSE op.item.ide_port
        ports == IF op.item.ide_port = 0 THEN new ELSE reg.ports
    IN  /\ op.step = "ide_port"
        /\ Go([reg EXCEPT !.ports = ports],
              IF port < PortLimit
              THEN [op EXCEPT !.item.ide_port = port, !.step = "ide_clear"]
              ELSE Ended)

ClearIde ==
    /\ op.step = "ide_clear"
    /\ Call(SetIde(op.app, Nothing), reg, To("ide_run"), To("ide_run"))

RunIde ==
    LET a == op.app
        ide(running) == [port |-> op.item.ide_port, running |-> running]
    IN  /\ op.step = "ide_run"
        /\ Run(host[a].ide # Nothing, ~Busy(op.item.ide_port), SetIde(a, ide(TRUE)),
               SetIde(a, ide(FALSE)), reg, To("ide_ready"), Ended)

\* The IDE answers and is registered (what follows, the vhost and the firewall, may fail and
\* changes nothing more), or it does not and is removed, as far as podman does so.
AwaitIde ==
    /\ op.step = "ide_ready"
    /\ \/ Go(Register(op.app, op.item), Ended)
       \/ Call(SetIde(op.app, Nothing), reg, Ended, Ended)

DisableIde(a) ==
    /\ a \in Registered
    /\ Begin("ide_off", "ide_remove", a, [reg.items[a] EXCEPT !.ide_enabled = FALSE], FALSE)

\* What became of the removal is ignored.
RemoveIde ==
    /\ op.step = "ide_remove"
    /\ Call(SetIde(op.app, Nothing), reg, To("ide_reload"), To("ide_reload"))

\* nginx is reloaded, the IDE registered as disabled and the firewall written; a deletion
\* goes on when nothing of it failed.
UnregisterIde ==
    LET off == Register(op.app, op.item)
    IN  /\ op.step = "ide_reload"
        /\ \/ Go(off, IF op.kind = "delete" THEN To("remove") ELSE Ended)
           \/ /\ faults < MaxFaults /\ faults' = faults + 1
              /\ reg' \in {reg, off} /\ op' = Ended
              /\ UNCHANGED <<host, saved>>

-----------------------------------------------------------------------------
(* resources_agent: the allocation of an application and the account's budget. *)

\* configure, of an application that runs.
ConfigureLimits(a, limits) ==
    /\ a \in Registered
    /\ LET item == [reg.items[a] EXCEPT !.memory = limits.memory, !.disk = limits.disk]
       IN  /\ Fits(a, item, FALSE)
           /\ Has(a) /\ host[a].cont.running
           /\ Begin("limits", "stop", a, item, TRUE)

QuietApp ==
    /\ op.kind = "limits" /\ op.step = "stop"
    /\ Call(WithCont(op.app, FALSE), reg,
            To(IF op.item.ide_enabled THEN "stop_ide" ELSE "grow"), To("resume"))

QuietIde ==
    LET a == op.app
    IN  /\ op.step = "stop_ide"
        /\ IF host[a].ide # Nothing
           THEN Call(SetIde(a, [host[a].ide EXCEPT !.running = FALSE]), reg,
                     To("grow"), To("resume"))
           ELSE Go(reg, To("resume"))

\* A volume only grows. The new size is registered at once.
GrowVolume ==
    LET a == op.app
    IN  /\ op.step = "grow"
        /\ CallIf(op.item.disk >= host[a].volume, SetVolume(a, op.item.disk),
                  Register(a, [op.old EXCEPT !.disk = op.item.disk]), To("start"), To("resume"))

StartResized ==
    LET a == op.app
    IN  /\ op.step = "start"
        /\ CallIf(Startable(a, host[a].cont), WithCont(a, TRUE), reg, To("update"), To("resume"))

\* podman update; the new amount of memory is registered only now.
UpdateContainer ==
    LET a == op.app
    IN  /\ op.step = "update"
        /\ Call(SetCont(a, [host[a].cont EXCEPT !.memory = op.item.memory]), Register(a, op.item),
                To("resume"), To("resume"))

\* Whatever failed, the application and its IDE are started again.
ResumeApp ==
    LET a == op.app
        next == IF op.item.ide_enabled THEN To("resume_ide") ELSE Ended
    IN  /\ op.step = "resume"
        /\ CallIf(Startable(a, host[a].cont), WithCont(a, TRUE), reg, next, next)

ResumeIde ==
    LET a == op.app
    IN  /\ op.step = "resume_ide"
        /\ IF host[a].ide # Nothing
           THEN CallIf(host[a].ide.running \/ ~Busy(host[a].ide.port),
                       SetIde(a, [host[a].ide EXCEPT !.running = TRUE]), reg, Ended, Ended)
           ELSE Go(reg, Ended)

\* set_budget.
SetBudget(budget) ==
    /\ UsedMemory({}) <= budget.memory /\ UsedDisk({}) <= budget.disk
    /\ op = Idle
    /\ Go([reg EXCEPT !.budget = budget], Ended)

-----------------------------------------------------------------------------
\* delete_app. An IDE that was ever installed is disabled first; the volume and a container
\* kept as previous remain.
DeleteApp(a) ==
    /\ a \in Registered
    /\ Begin("delete", IF reg.items[a].ide_port # 0 THEN "ide_remove" ELSE "remove", a,
             [reg.items[a] EXCEPT !.ide_enabled = FALSE], FALSE)

\* The registry is saved after every operation, also one that failed.
Save ==
    /\ op = Ended
    /\ saved' = reg /\ op' = Idle
    /\ UNCHANGED <<host, reg, faults>>

\* The agent is killed and starts again. Containers are not its children.
Crash ==
    /\ op # Idle
    /\ faults < MaxFaults /\ faults' = faults + 1
    /\ reg' = saved /\ op' = Idle
    /\ UNCHANGED <<host, saved>>

Request ==
    \/ \E a \in Apps :
        \/ \E limits \in Allocations, version \in Versions : CreateApp(a, limits, version)
        \/ \E kind \in {"start", "stop"} : StartOrStop(a, kind)
        \/ \E version \in Versions : SwitchRuntime(a, version)
        \/ \E proxied \in BOOLEAN : ConfigureEgress(a, proxied)
        \/ EnableIde(a)
        \/ DisableIde(a)
        \/ \E limits \in Allocations : ConfigureLimits(a, limits)
        \/ DeleteApp(a)
    \/ \E budget \in Budgets : SetBudget(budget)

Step ==
    \/ MakeVolume \/ TakePort \/ RunContainer \/ Verb
    \/ StopOld \/ RenameOld \/ CheckHealth \/ StopTried \/ RemoveTried
    \/ RemoveNew \/ RenameBack \/ Revive \/ Settle \/ DropPrevious
    \/ RemoveContainer \/ RemoveGateway \/ RunGateway \/ AwaitGateway
    \/ TakeIdePort \/ ClearIde \/ RunIde \/ AwaitIde \/ RemoveIde \/ UnregisterIde
    \/ QuietApp \/ QuietIde \/ GrowVolume \/ StartResized \/ UpdateContainer
    \/ ResumeApp \/ ResumeIde

Next == Request \/ Step \/ Save \/ Crash

Spec == Init /\ [][Next]_vars
-----------------------------------------------------------------------------
(* Properties *)

\* The variables have their types.
TypeOK ==
    /\ host \in [Apps -> Host]
    /\ IsRegistry(reg) /\ IsRegistry(saved)
    /\ op \in Operation \cup {Idle, Ended}
    /\ faults \in 0..MaxFaults

\* What applications, enabled IDEs and volumes reserve never exceeds the account's budget, in
\* whatever order they are created, resized, deleted and the budget is changed, whichever of
\* the calls fail, and also with the registry a killed agent starts from (used and check,
\* resources_agent.rs:33 and 66, against the partial updates of configure, 190-216).
BudgetHolds ==
    /\ UsedMemory({}) <= reg.budget.memory
    /\ UsedDisk({}) <= reg.budget.disk

\* An application has a container, of its own name or kept as the previous one.
HasCopy(a) == Has(a) \/ host[a].prev # Nothing

\* The last container of an application is removed only by its deletion or by a change of
\* egress: a runtime switch keeps one whatever fails and wherever the agent is killed
\* (workspace_agent.rs:110, the order of rename, rm and run).
LastContainerStays ==
    [][\A a \in Apps : HasCopy(a) /\ ~HasCopy(a)' =>
            op.kind \in {"delete", "egress"} /\ op.app = a]_vars

\* The port nginx uses for a registered application is published by no container of another
\* one, although the counter is saved after the containers were made, so that a killed agent
\* counts the same port again (agent.rs:318, workspace_agent.rs:402).
PortReachesOwner ==
    \A a \in Registered : \A b \in Apps \ {a} :
        LET port == reg.items[a].port
        IN  /\ Has(b) /\ host[b].cont.running /\ ~host[b].cont.proxied =>
                    host[b].cont.port # port
            /\ host[b].gate # port
            /\ host[b].ide # Nothing /\ host[b].ide.running => host[b].ide.port # port

\* As long as the host did what it was told, the host is between operations as the registry
\* says, also after a new version did not stay up, an IDE or a gateway did not become ready
\* and a shrinking volume was refused: each container has the registered version, memory
\* and port, none is kept as previous, an IDE that runs is counted as enabled, and nothing runs
\* of an application that is not registered.
HostAsRegistered ==
    op = Idle /\ faults = 0 =>
        /\ \A a \in Registered :
            LET h == host[a]
                item == reg.items[a]
            IN  /\ Has(a) => /\ h.cont.version = item.version
                             /\ h.cont.memory = item.memory
                             /\ h.cont.port = item.port
                             /\ h.cont.proxied = item.proxied
                /\ h.prev = Nothing
                /\ h.volume = item.disk
                /\ h.ide # Nothing =>
                       item.ide_enabled /\ h.ide = [port |-> item.ide_port, running |-> TRUE]
        /\ \A a \in Apps \ Registered :
            (Has(a) => ~host[a].cont.running) /\ host[a].prev = Nothing /\ host[a].ide = Nothing

\* A switch of the runtime ends, as long as the host did what it was told, with the
\* application running exactly if it ran before, whether the new version stays up or not
\* (docs/V0.4-GUIDE.md:25).
SwitchKeepsState ==
    [][op.kind \in {"runtime", "activate"} /\ op' = Ended /\ faults' = 0 =>
            host'[op.app].cont # Nothing /\ host'[op.app].cont.running = op.was]_vars

\* Once a saved registry no longer has an application, the application has no container that
\* could serve: a deletion that fails half way leaves the entry, so that it can be repeated
\* (agent.rs:1183).
DeletedIsGone ==
    [][\A a \in DOMAIN saved.items \ DOMAIN saved'.items : ~Has(a)]_vars

\* What the guide says of a change of the proxy: it recreates the container and retains
\* workspace, environment and web port (docs/V0.2-GUIDE.md:63); when the gateway does not
\* become ready the application "remains stopped" (egress_agent.rs:105). Either way there is
\* a container, which start_app could start. With a host that does what it is told.
ContainerRecreated ==
    op = Idle /\ faults = 0 => \A a \in Registered : Has(a)
=============================================================================
