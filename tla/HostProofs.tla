----------------------------- MODULE HostProofs -----------------------------
(***************************************************************************)
(* Proofs about what the registry of Container says of the host: that a    *)
(* port of it leads to its owner, whatever fails, and that a host that     *)
(* does what it is told is as the registry says. For every set of          *)
(* applications, versions and allocations and every bound.                 *)
(***************************************************************************)
EXTENDS ContainerProofs

-----------------------------------------------------------------------------
(* The ports. *)

\* A container of b has published the port.
Publishes(h, b, port) ==
    \/ h[b].cont # Nothing /\ h[b].cont.running /\ ~h[b].cont.proxied /\ h[b].cont.port = port
    \/ h[b].gate = port
    \/ h[b].ide # Nothing /\ h[b].ide.running /\ h[b].ide.port = port

\* The ports of a registry are those counted so far, and no two of them are equal.
Distinct(r) ==
    \A a \in DOMAIN r.items :
        LET item == r.items[a]
        IN  /\ item.port # 0 /\ item.port <= r.ports /\ item.ide_port <= r.ports
            /\ item.port # item.ide_port
            /\ item.ide_enabled => item.ide_port # 0
            /\ \A b \in DOMAIN r.items \ {a} :
                /\ r.items[b].port \notin {item.port, item.ide_port}
                /\ item.ide_port # 0 => r.items[b].ide_port # item.ide_port

\* The containers of a registered application have its ports, running or not. An IDE that is
\* registered with none may have one that was counted by an agent killed before the save.
Matches(x, item) ==
    /\ x.cont # Nothing => x.cont.port = item.port
    /\ x.prev # Nothing => x.prev.port = item.port
    /\ x.gate \in {0, item.port}
    /\ x.ide # Nothing /\ item.ide_port # 0 => x.ide.port = item.ide_port

\* The port of an application is published by no other one.
Alone(h, r) ==
    \A a \in DOMAIN r.items : \A b \in Apps \ {a} : ~Publishes(h, b, r.items[a].port)

Wired(h, r) ==
    /\ Distinct(r) /\ Alone(h, r)
    /\ \A a \in DOMAIN r.items : Matches(h[a], r.items[a])

SamePorts(item, other) == item.port = other.port /\ item.ide_port = other.ide_port

\* Counted since the registry was saved.
Fresh(port, r) == saved.ports < port /\ port <= r.ports

\* What an operation o with the registry r and the host h keeps to: the entries have the ports
\* of the saved ones, and what it goes to register has them too, or one just counted.
Carries(o, r, h) ==
    LET a == o.app
        x == h[a]
    IN  /\ saved.ports <= r.ports
        /\ \A b \in DOMAIN r.items : SamePorts(r.items[b], saved.items[b])
        /\ o.item.ide_enabled /\ o.step # "ide_port" => o.item.ide_port # 0
        /\ o.kind = "ide_on" => o.item.ide_enabled
        /\ o.step = "resume_ide" => o.item.ide_enabled
        /\ o.step = "ide_ready" => x.ide # Nothing /\ x.ide.port = o.item.ide_port
        /\ IF o.kind = "create"
           THEN /\ x.cont = Nothing /\ x.prev = Nothing /\ x.ide = Nothing /\ x.gate = 0
                /\ o.item.ide_port = 0 /\ ~o.item.proxied /\ ~o.item.ide_enabled
                /\ IF o.step = "run" THEN Fresh(o.item.port, r) ELSE o.item.port = 0
           ELSE /\ o.item.port = saved.items[a].port
                /\ SamePorts(o.old, saved.items[a])
                /\ o.old.ide_enabled => o.old.ide_port # 0
                /\ \/ o.item.ide_port = saved.items[a].ide_port
                   \/ /\ o.kind = "ide_on" /\ saved.items[a].ide_port = 0
                      /\ Fresh(o.item.ide_port, r)

PortsKept ==
    /\ Wired(host, reg) /\ Wired(host, saved)
    /\ InOperation => Carries(op, reg, host)

\* What a step makes of its application on the host: containers with the ports of the entry
\* the operation carries, and no IDE with another one is started.
Stocked(x, y) ==
    /\ x.cont # Nothing => x.cont.port = op.item.port
    /\ x.prev # Nothing => x.prev.port = op.item.port
    /\ x.gate \in {0, op.item.port}
    /\ x.ide # Nothing =>
        \/ y.ide # Nothing /\ x.ide.port = y.ide.port /\ (x.ide.running => y.ide.running)
        \/ op.item.ide_port # 0 /\ x.ide.port = op.item.ide_port

Stock(h) == Near(h) /\ Stocked(h[op.app], host[op.app])

\* What it makes of the registry.
Enters(r) ==
    /\ IsRegistry(r) /\ reg.ports <= r.ports
    /\ DOMAIN r.items \ {op.app} = Registered \ {op.app}
    /\ \A b \in Registered \ {op.app} : r.items[b] = reg.items[b]
    /\ op.app \in DOMAIN r.items /\ op.kind # "create" =>
        /\ r.items[op.app].port = saved.items[op.app].port
        /\ r.items[op.app].ide_enabled => r.items[op.app].ide_port # 0
        /\ \/ r.items[op.app].ide_port = saved.items[op.app].ide_port
           \/ op.step = "ide_ready" /\ r.items[op.app].ide_port = op.item.ide_port
    /\ op.app \in DOMAIN r.items /\ op.kind = "create" =>
        op.step = "run" /\ ~Busy(op.item.port) /\ r.items[op.app] = op.item

LEMMA InPorts ==
    ASSUME Inv, PortsKept, op.step \in Steps
    PROVE  /\ Carries(op, reg, host) /\ Wired(host, reg) /\ Wired(host, saved)
           /\ Registered = DOMAIN saved.items
           /\ op.app \in Registered <=> op.kind # "create"
           /\ DOMAIN reg.items = Registered
BY InStep DEF PortsKept, InOperation, Inv, EntriesOK, Operation, Kinds, Registered

LEMMA StockNow ==
    ASSUME Inv, PortsKept, op.step \in Steps
    PROVE  /\ Stock(host) /\ Stocked(host[op.app], host[op.app])
           /\ op.kind = "create" => /\ host[op.app].cont = Nothing /\ host[op.app].prev = Nothing
                                    /\ host[op.app].ide = Nothing /\ host[op.app].gate = 0
<1>1. CASE op.kind = "create"
  BY <1>1, InStep, InPorts DEF Carries, Stock, Stocked
<1>2. CASE op.kind # "create"
  <2>1. op.app \in DOMAIN saved.items /\ op.item.port = saved.items[op.app].port
    BY <1>2, InPorts DEF Carries
  <2>2. Matches(host[op.app], saved.items[op.app])
    BY <2>1, InPorts DEF Wired
  <2>3. Stocked(host[op.app], host[op.app])
    BY <2>1, <2>2 DEF Matches, Stocked
  <2>4. QED
    BY <1>2, <2>3, InStep DEF Stock
<1>3. QED
  BY <1>1, <1>2

LEMMA StockWhen ==
    ASSUME Inv, PortsKept, op.step \in Steps
    PROVE  /\ Stock(host)
           /\ \A c \in AppContainer \cup {Nothing} :
                  (c # Nothing => c.port = op.item.port) =>
                      Stock(SetCont(op.app, c)) /\ Stock(SetPrev(op.app, c))
           /\ \A i \in IdeContainer \cup {Nothing} :
                  (i # Nothing => \/ /\ host[op.app].ide # Nothing /\ ~i.running
                                     /\ i.port = host[op.app].ide.port
                                  \/ op.item.ide_port # 0 /\ i.port = op.item.ide_port) =>
                      Stock(SetIde(op.app, i))
           /\ Stock(SetGate(op.app, 0)) /\ Stock(SetGate(op.app, op.item.port))
           /\ Stock(SetVolume(op.app, op.item.disk))
           /\ Stock(KeepCont(op.app)) /\ Stock(TakeBack(op.app))
           /\ Has(op.app) => Stock(WithCont(op.app, TRUE)) /\ Stock(WithCont(op.app, FALSE))
<1> DEFINE a == op.app
<1>1. /\ a \in Apps /\ host \in [Apps -> Host] /\ Stocked(host[a], host[a])
      /\ op.item.port \in Nat /\ op.item.disk \in Nat /\ op.item.ide_port \in Nat /\ 0 \in Nat
  BY InStep, StockNow DEF Item
<1>2. ASSUME NEW c \in AppContainer \cup {Nothing}, c # Nothing => c.port = op.item.port
      PROVE  Stock(SetCont(a, c)) /\ Stock(SetPrev(a, c))
  BY <1>1, <1>2, Remakes DEF Stock, Stocked, Near, Remade
<1>3. ASSUME NEW i \in IdeContainer \cup {Nothing},
             i # Nothing => \/ /\ host[a].ide # Nothing /\ ~i.running
                               /\ i.port = host[a].ide.port
                            \/ op.item.ide_port # 0 /\ i.port = op.item.ide_port
      PROVE  Stock(SetIde(a, i))
  BY <1>1, <1>3, Remakes DEF Stock, Stocked, Near, Remade
<1>4. ASSUME NEW n \in {0, op.item.port} PROVE Stock(SetGate(a, n))
  <2>1. n \in Nat
    BY <1>1
  <2>2. Remade(SetGate(a, n), a, host[a].cont, host[a].prev, host[a].ide, n, host[a].volume)
    BY <1>1, <2>1, Remakes
  <2>3. QED
    BY <1>1, <2>2 DEF Stock, Stocked, Near, Remade
<1>8. Stock(SetVolume(a, op.item.disk))
  BY <1>1, Remakes DEF Stock, Stocked, Near, Remade
<1>5. Stock(KeepCont(a)) /\ Stock(TakeBack(a))
  BY <1>1, Remakes DEF Stock, Stocked, Near, Remade
<1>6. ASSUME Has(a), NEW running \in BOOLEAN PROVE Stock(WithCont(a, running))
  <2> DEFINE c == [host[a].cont EXCEPT !.running = running]
  <2>1. host[a].cont \in AppContainer /\ host[a].cont.port = op.item.port
    BY <1>1, <1>6 DEF Host, Has, Stocked
  <2>2. c \in AppContainer /\ c.port = op.item.port
    BY <2>1 DEF AppContainer
  <2>3. QED
    BY <1>2, <2>2 DEF WithCont
<1>7. QED
  BY <1>2, <1>3, <1>4, <1>8, <1>5, <1>6, StockNow

LEMMA EntersWhen ==
    ASSUME Inv, PortsKept, op.step \in Steps
    PROVE  /\ Enters(reg)
           /\ op.kind \notin {"create", "ide_on"} => Enters(Register(op.app, op.item))
           /\ op.kind # "create" /\ op.step # "ide_port" => Enters(Register(op.app, op.old))
<1>1. Enters(reg)
  <2>1. Carries(op, reg, host) /\ IsRegistry(reg) /\ Wired(host, reg)
    BY InPorts, InStep
  <2>2. reg.ports <= reg.ports
    BY <2>1 DEF IsRegistry
  <2>3. QED
    BY <2>1, <2>2, InPorts DEF Enters, Carries, Wired, Distinct, SamePorts, Registered
<1>2. ASSUME NEW item \in {op.item, op.old}, op.kind # "create", op.app \in Registered,
             item.port = saved.items[op.app].port, item.ide_enabled => item.ide_port # 0,
             item.ide_port = saved.items[op.app].ide_port
      PROVE  Enters(Register(op.app, item))
  <2>1. item \in Item /\ IsRegistry(reg)
    BY InStep
  <2>2. /\ IsRegistry(Register(op.app, item))
        /\ DOMAIN Register(op.app, item).items = Registered \cup {op.app}
        /\ Register(op.app, item).items[op.app] = item
        /\ \A b \in Registered \ {op.app} : Register(op.app, item).items[b] = reg.items[b]
        /\ Register(op.app, item).ports = reg.ports /\ reg.ports <= reg.ports
    BY <2>1, InStep, RegisterType DEF IsRegistry
  <2>3. QED
    BY <1>2, <2>2 DEF Enters
<1>3. op.kind \notin {"create", "ide_on"} => op.step # "ide_port"
  BY DEF Inv, StepOK, Ready
<1>4. QED
  BY <1>1, <1>2, <1>3, InPorts DEF Carries, SamePorts

\* Where an operation may lead whatever it made of the host.
Leads(o, r) == o = Ended \/ \A h : Carries(o, r, h)

LEMMA LeadsTo ==
    ASSUME Inv, PortsKept, op.step \in Steps, op.kind # "create", op.step # "ide_port"
    PROVE  /\ \A r : Leads(Ended, r)
           /\ \A s \in Steps \ {"ide_ready", "resume_ide"} :
                /\ Leads(To(s), reg)
                /\ op.kind # "ide_on" => Leads(To(s), Register(op.app, op.item))
                /\ Leads(To(s), Register(op.app, op.old))
           /\ op.item.ide_enabled => Leads(To("resume_ide"), reg)
<1>1. /\ Carries(op, reg, host) /\ op.app \in Registered /\ Registered = DOMAIN reg.items
  BY InPorts
<1>2. ASSUME NEW r, r.ports = reg.ports, NEW s \in Steps \ {"ide_ready"},
             s = "resume_ide" => op.item.ide_enabled,
             \A b \in DOMAIN r.items : SamePorts(r.items[b], saved.items[b])
      PROVE  Leads(To(s), r)
  <2>1. /\ To(s).app = op.app /\ To(s).kind = op.kind /\ To(s).step = s
        /\ To(s).item = op.item /\ To(s).old = op.old
    BY Steady
  <2>2. QED
    BY <1>1, <1>2, <2>1 DEF Carries, Fresh, Leads
<1>3. ASSUME NEW s \in Steps \ {"ide_ready"}, s = "resume_ide" => op.item.ide_enabled
      PROVE  Leads(To(s), reg)
  BY <1>1, <1>2, <1>3 DEF Carries
<1>4. ASSUME NEW item \in {op.item, op.old}, SamePorts(item, saved.items[op.app]),
             NEW s \in Steps \ {"ide_ready", "resume_ide"}
      PROVE  Leads(To(s), Register(op.app, item))
  <2>1. /\ DOMAIN Register(op.app, item).items = Registered \cup {op.app}
        /\ Register(op.app, item).items[op.app] = item
        /\ \A b \in Registered \ {op.app} : Register(op.app, item).items[b] = reg.items[b]
        /\ Register(op.app, item).ports = reg.ports
    BY InStep, RegisterType
  <2>2. \A b \in DOMAIN Register(op.app, item).items :
            SamePorts(Register(op.app, item).items[b], saved.items[b])
    BY <1>1, <1>4, <2>1 DEF Carries
  <2>3. QED
    BY <1>2, <2>1, <2>2
<1>5. /\ op.kind # "ide_on" => SamePorts(op.item, saved.items[op.app])
      /\ SamePorts(op.old, saved.items[op.app])
  BY <1>1 DEF Carries, SamePorts
<1>6. op.item.ide_enabled => Leads(To("resume_ide"), reg)
  BY <1>3 DEF Steps
<1>7. QED
  BY <1>3, <1>4, <1>5, <1>6 DEF Leads

Rewires ==
    /\ op.step \in Steps /\ saved' = saved
    /\ Stock(host') /\ Enters(reg') /\ (Leads(op', reg') \/ Carries(op', reg', host'))
    /\ op.step = "ide_ready" => host' = host \/ reg' = reg

\* A call, and a step without one, of an operation on a registered application.
LEMMA CallRewires ==
    ASSUME Inv, PortsKept, op.step \in Steps, op.step # "ide_ready",
           NEW h, NEW r, NEW next, NEW failed,
           Stock(h), Enters(r), Leads(next, r), Leads(failed, reg), Call(h, r, next, failed)
    PROVE  Rewires
<1>1. Enters(reg) /\ Stock(host)
  BY EntersWhen, StockWhen
<1>2. QED
  BY <1>1 DEF Call, Rewires

LEMMA CallIfRewires ==
    ASSUME Inv, PortsKept, op.step \in Steps, op.step # "ide_ready",
           NEW condition, NEW h, NEW r, NEW next, NEW failed,
           condition => Stock(h), Enters(r), Leads(next, r), Leads(failed, reg),
           CallIf(condition, h, r, next, failed)
    PROVE  Rewires
<1>1. Enters(reg) /\ Stock(host)
  BY EntersWhen, StockWhen
<1>2. CASE condition
  BY <1>2, CallRewires DEF CallIf
<1>3. CASE ~condition
  BY <1>1, <1>3 DEF CallIf, Rewires
<1>4. QED
  BY <1>2, <1>3

LEMMA GoRewires ==
    ASSUME Inv, PortsKept, op.step \in Steps, op.step # "ide_ready", NEW r, NEW next,
           Enters(r), Leads(next, r), Go(r, next)
    PROVE  Rewires
BY StockWhen DEF Go, Rewires

LEMMA MakeVolumeRewires == ASSUME Inv, PortsKept, MakeVolume PROVE Rewires
<1>1. op.step = "volume" /\ op.step \in Steps /\ op.kind = "create"
  BY DEF MakeVolume, Steps, Inv, StepOK, Ready
<1>2. /\ To("port").app = op.app /\ To("port").kind = op.kind /\ To("port").step = "port"
      /\ To("port").item = op.item
  BY <1>1, Steady DEF Steps
<1>3. SetVolume(op.app, op.item.disk)[op.app].cont = host[op.app].cont
      /\ SetVolume(op.app, op.item.disk)[op.app].prev = host[op.app].prev
      /\ SetVolume(op.app, op.item.disk)[op.app].ide = host[op.app].ide
      /\ SetVolume(op.app, op.item.disk)[op.app].gate = host[op.app].gate
  BY <1>1, InStep, Remakes DEF Remade, Item
<1>4. Carries(To("port"), reg, SetVolume(op.app, op.item.disk))
  BY <1>1, <1>2, <1>3, InPorts DEF Carries
<1>5. Stock(host) /\ Stock(SetVolume(op.app, op.item.disk)) /\ Enters(reg)
  BY <1>1, StockWhen, EntersWhen
<1>6. QED
  BY <1>1, <1>4, <1>5 DEF MakeVolume, Call, Rewires, Leads

LEMMA TakePortRewires == ASSUME Inv, PortsKept, TakePort PROVE Rewires
<1> DEFINE port == reg.ports + 1
           r == [reg EXCEPT !.ports = port]
           next == [op EXCEPT !.item.port = port, !.step = "run"]
<1>1. op.step = "port" /\ op.step \in Steps /\ op.kind = "create"
  BY DEF TakePort, Steps, Inv, StepOK, Ready
<1>2. op \in Operation /\ reg.ports \in Nat /\ saved.ports \in Nat /\ saved.ports <= reg.ports
  BY <1>1, InStep, InPorts DEF IsRegistry, Carries
<1>3. /\ port \in Nat /\ reg.ports <= port /\ saved.ports < port
      /\ IsRegistry(r) /\ r.items = reg.items /\ r.ports = port
  BY <1>1, <1>2, InStep DEF IsRegistry
<1>4. /\ next.app = op.app /\ next.kind = op.kind /\ next.step = "run"
      /\ next.item.port = port /\ next.item.ide_port = op.item.ide_port
      /\ next.item.proxied = op.item.proxied /\ next.item.ide_enabled = op.item.ide_enabled
  BY <1>2 DEF Operation, Item
<1>5. Carries(next, r, host)
  BY <1>1, <1>2, <1>3, <1>4, InPorts DEF Carries, Fresh
<1>6. Stock(host) /\ Enters(reg)
  BY <1>1, StockWhen, EntersWhen
<1>7. Enters(r)
  BY <1>1, <1>3, <1>6 DEF Enters, Registered
<1>8. QED
  BY <1>1, <1>5, <1>6, <1>7 DEF TakePort, Go, Rewires, Leads

LEMMA RunContainerRewires == ASSUME Inv, PortsKept, RunContainer PROVE Rewires
<1> DEFINE a == op.app
           created == [version |-> op.item.version, memory |-> op.item.memory,
                       port |-> op.item.port, proxied |-> op.item.proxied, running |-> FALSE]
           started == [created EXCEPT !.running = TRUE]
<1>1. op.step = "run" /\ op.step \in Steps /\ op.kind # "ide_on"
  BY DEF RunContainer, Steps, Inv, StepOK, Ready
<1>2. created \in AppContainer /\ started \in AppContainer /\ started.port = op.item.port
  BY <1>1, InStep DEF AppContainer, Item
<1>3. Stock(SetCont(a, created)) /\ Stock(SetCont(a, started)) /\ Stock(host) /\ Enters(reg)
  BY <1>1, <1>2, StockWhen, EntersWhen
<1>4. /\ host' \in {host, SetCont(a, created), SetCont(a, started)} /\ saved' = saved
      /\ \/ reg' = reg /\ op' \in {Ended, To("rollback")}
         \/ /\ reg' = Register(a, op.item) /\ op' \in {Ended, To("health"), To("settle")}
            /\ Startable(a, created)
      /\ op.kind = "create" => op' = Ended
  BY DEF RunContainer, Run, Call
<1>5. CASE op.kind # "create"
  <2>1. Enters(Register(a, op.item))
    BY <1>1, <1>5, EntersWhen
  <2>2. Leads(op', reg')
    BY <1>1, <1>4, <1>5, LeadsTo DEF Steps
  <2>3. QED
    BY <1>1, <1>3, <1>4, <2>1, <2>2 DEF Rewires
<1>6. CASE op.kind = "create"
  <2>1. ASSUME Startable(a, created) PROVE ~Busy(op.item.port)
    BY <1>6, <2>1, InPorts, <1>1 DEF Startable, Carries
  <2>2. ASSUME ~Busy(op.item.port) PROVE Enters(Register(a, op.item))
    <3>1. /\ IsRegistry(Register(a, op.item)) /\ IsRegistry(reg)
          /\ DOMAIN Register(a, op.item).items = Registered \cup {a}
          /\ Register(a, op.item).items[a] = op.item
          /\ \A b \in Registered \ {a} : Register(a, op.item).items[b] = reg.items[b]
          /\ Register(a, op.item).ports = reg.ports
      BY <1>1, InStep, RegisterType
    <3>2. reg.ports <= reg.ports
      BY <3>1 DEF IsRegistry
    <3>3. QED
      BY <1>1, <1>6, <2>2, <3>1, <3>2 DEF Enters
  <2>3. QED
    BY <1>1, <1>3, <1>4, <1>6, <2>1, <2>2 DEF Rewires, Leads
<1>7. QED
  BY <1>5, <1>6

LEMMA VerbRewires == ASSUME Inv, PortsKept, Verb PROVE Rewires
<1>1. /\ op.step \in Steps /\ op.step \notin {"volume", "port", "ide_port", "ide_ready"}
      /\ op.kind # "create"
  BY DEF Verb, Steps, Inv, StepOK, Ready
<1>3. QED
  BY <1>1, StockWhen, EntersWhen, LeadsTo, CallRewires, CallIfRewires, GoRewires
     DEF Verb, Recreate, Steps, Inv, StepOK, Ready, Has

LEMMA StopOldRewires == ASSUME Inv, PortsKept, StopOld PROVE Rewires
<1>1. /\ op.step \in Steps /\ op.step \notin {"volume", "port", "ide_port", "ide_ready"}
      /\ op.kind # "create"
  BY DEF StopOld, Steps, Inv, StepOK, Ready
<1>3. QED
  BY <1>1, StockWhen, EntersWhen, LeadsTo, CallRewires, CallIfRewires, GoRewires
     DEF StopOld, Recreate, Steps, Inv, StepOK, Ready, Has

LEMMA RenameOldRewires == ASSUME Inv, PortsKept, RenameOld PROVE Rewires
<1>1. /\ op.step \in Steps /\ op.step \notin {"volume", "port", "ide_port", "ide_ready"}
      /\ op.kind # "create"
  BY DEF RenameOld, Steps, Inv, StepOK, Ready
<1>3. QED
  BY <1>1, StockWhen, EntersWhen, LeadsTo, CallRewires, CallIfRewires, GoRewires
     DEF RenameOld, Recreate, Steps, Inv, StepOK, Ready, Has

LEMMA CheckHealthRewires == ASSUME Inv, PortsKept, CheckHealth PROVE Rewires
<1>1. op.step = "health" /\ op.step \in Steps /\ op.kind # "create" /\ Has(op.app)
  BY DEF CheckHealth, Steps, Inv, StepOK, Ready, Has
<1>2. Stock(host) /\ Stock(WithCont(op.app, FALSE)) /\ Enters(reg)
  BY <1>1, StockWhen, EntersWhen
<1>3. Leads(To("retire"), reg) /\ Leads(To("rollback"), reg)
  BY <1>1, LeadsTo DEF Steps
<1>4. QED
  BY <1>1, <1>2, <1>3 DEF CheckHealth, Call, Rewires

LEMMA StopTriedRewires == ASSUME Inv, PortsKept, StopTried PROVE Rewires
<1>1. /\ op.step \in Steps /\ op.step \notin {"volume", "port", "ide_port", "ide_ready"}
      /\ op.kind # "create"
  BY DEF StopTried, Steps, Inv, StepOK, Ready
<1>3. QED
  BY <1>1, StockWhen, EntersWhen, LeadsTo, CallRewires, CallIfRewires, GoRewires
     DEF StopTried, Recreate, Steps, Inv, StepOK, Ready, Has

LEMMA RemoveTriedRewires == ASSUME Inv, PortsKept, RemoveTried PROVE Rewires
<1>1. op.step = "discard" /\ op.step \in Steps /\ op.kind = "runtime" /\ op \in Operation
  BY InStep DEF RemoveTried, Steps, Inv, StepOK, Ready
<1>2. Stock(SetCont(op.app, Nothing)) /\ Enters(reg)
  BY <1>1, StockWhen, EntersWhen
<1>3. ASSUME NEW s \in {"run", "rollback"} PROVE Leads([To(s) EXCEPT !.kind = "activate"], reg)
  <2> DEFINE o == [To(s) EXCEPT !.kind = "activate"]
  <2>1. /\ o.app = op.app /\ o.kind = "activate" /\ o.step = s
        /\ o.item = op.item /\ o.old = op.old
    BY <1>1 DEF To, Operation
  <2>2. QED
    BY <1>1, <1>3, <2>1, InPorts DEF Leads, Carries
<1>4. Leads([Recreate("run", To("rollback")) EXCEPT !.kind = "activate"], reg)
  BY <1>3 DEF Recreate
<1>5. Leads(To("rollback"), reg)
  BY <1>1, LeadsTo DEF Steps
<1>6. QED
  BY <1>1, <1>2, <1>4, <1>5, CallRewires DEF RemoveTried

LEMMA RemoveNewRewires == ASSUME Inv, PortsKept, RemoveNew PROVE Rewires
<1>1. /\ op.step \in Steps /\ op.step \notin {"volume", "port", "ide_port", "ide_ready"}
      /\ op.kind # "create"
  BY DEF RemoveNew, Steps, Inv, StepOK, Ready
<1>3. QED
  BY <1>1, StockWhen, EntersWhen, LeadsTo, CallRewires, CallIfRewires, GoRewires
     DEF RemoveNew, Recreate, Steps, Inv, StepOK, Ready, Has

LEMMA RenameBackRewires == ASSUME Inv, PortsKept, RenameBack PROVE Rewires
<1>1. /\ op.step \in Steps /\ op.step \notin {"volume", "port", "ide_port", "ide_ready"}
      /\ op.kind # "create"
  BY DEF RenameBack, Steps, Inv, StepOK, Ready
<1>3. QED
  BY <1>1, StockWhen, EntersWhen, LeadsTo, CallRewires, CallIfRewires, GoRewires
     DEF RenameBack, Recreate, Steps, Inv, StepOK, Ready, Has

LEMMA ReviveRewires == ASSUME Inv, PortsKept, Revive PROVE Rewires
<1>1. /\ op.step \in Steps /\ op.step \notin {"volume", "port", "ide_port", "ide_ready"}
      /\ op.kind # "create"
  BY DEF Revive, Steps, Inv, StepOK, Ready
<1>3. QED
  BY <1>1, StockWhen, EntersWhen, LeadsTo, CallRewires, CallIfRewires, GoRewires
     DEF Revive, Recreate, Steps, Inv, StepOK, Ready, Has

LEMMA SettleRewires == ASSUME Inv, PortsKept, Settle PROVE Rewires
<1>1. /\ op.step \in Steps /\ op.step \notin {"volume", "port", "ide_port", "ide_ready"}
      /\ op.kind # "create"
  BY DEF Settle, Steps, Inv, StepOK, Ready
<1>3. QED
  BY <1>1, StockWhen, EntersWhen, LeadsTo, CallRewires, CallIfRewires, GoRewires
     DEF Settle, Recreate, Steps, Inv, StepOK, Ready, Has

LEMMA DropPreviousRewires == ASSUME Inv, PortsKept, DropPrevious PROVE Rewires
<1>1. /\ op.step \in Steps /\ op.step \notin {"volume", "port", "ide_port", "ide_ready"}
      /\ op.kind # "create"
  BY DEF DropPrevious, Steps, Inv, StepOK, Ready
<1>3. QED
  BY <1>1, StockWhen, EntersWhen, LeadsTo, CallRewires, CallIfRewires, GoRewires
     DEF DropPrevious, Recreate, Steps, Inv, StepOK, Ready, Has

LEMMA RemoveContainerRewires == ASSUME Inv, PortsKept, RemoveContainer PROVE Rewires
<1>1. /\ op.step \in Steps /\ op.step \notin {"volume", "port", "ide_port", "ide_ready"}
      /\ op.kind # "create"
  BY DEF RemoveContainer, Steps, Inv, StepOK, Ready
<1>3. QED
  BY <1>1, StockWhen, EntersWhen, LeadsTo, CallRewires, CallIfRewires, GoRewires
     DEF RemoveContainer, Recreate, Steps, Inv, StepOK, Ready, Has

LEMMA RemoveGatewayRewires == ASSUME Inv, PortsKept, RemoveGateway PROVE Rewires
<1> DEFINE a == op.app
<1>1. /\ op.step = "cleanup" /\ op.step \in Steps /\ a \in Apps /\ IsRegistry(reg)
      /\ op.kind \in {"egress", "delete"}
  BY InStep DEF RemoveGateway, Steps, Inv, StepOK, Ready
<1>2. Stock(host) /\ Stock(SetGate(a, 0)) /\ Enters(reg)
  BY <1>1, StockWhen, EntersWhen
<1>3. Enters(Forget(a))
  <2>1. reg.ports <= reg.ports
    BY <1>1 DEF IsRegistry
  <2>2. /\ IsRegistry(Forget(a)) /\ DOMAIN Forget(a).items = Registered \ {a}
        /\ \A b \in Registered \ {a} : Forget(a).items[b] = reg.items[b]
        /\ Forget(a).ports = reg.ports
    BY <1>1, ForgetType
  <2>3. QED
    BY <2>1, <2>2 DEF Enters
<1>4. Leads(Ended, Forget(a)) /\ Leads(Ended, reg) /\ Leads(To("gateway"), reg)
      /\ Leads(To("run"), reg)
  BY <1>1, LeadsTo DEF Steps
<1>5. CASE op.kind = "delete"
  BY <1>1, <1>2, <1>3, <1>4, <1>5 DEF RemoveGateway, Rewires
<1>6. CASE op.kind = "egress"
  BY <1>1, <1>2, <1>4, <1>6, CallRewires DEF RemoveGateway, Recreate
<1>7. QED
  BY <1>1, <1>5, <1>6

LEMMA RunGatewayRewires == ASSUME Inv, PortsKept, RunGateway PROVE Rewires
<1>1. /\ op.step \in Steps /\ op.step \notin {"volume", "port", "ide_port", "ide_ready"}
      /\ op.kind # "create"
  BY DEF RunGateway, Steps, Inv, StepOK, Ready
<1>3. QED
  BY <1>1, StockWhen, EntersWhen, LeadsTo, CallRewires, CallIfRewires, GoRewires
     DEF RunGateway, Recreate, Steps, Inv, StepOK, Ready, Has

LEMMA AwaitGatewayRewires == ASSUME Inv, PortsKept, AwaitGateway PROVE Rewires
<1>1. /\ op.step \in Steps /\ op.step \notin {"volume", "port", "ide_port", "ide_ready"}
      /\ op.kind # "create"
  BY DEF AwaitGateway, Steps, Inv, StepOK, Ready
<1>3. QED
  BY <1>1, StockWhen, EntersWhen, LeadsTo, CallRewires, CallIfRewires, GoRewires
     DEF AwaitGateway, Recreate, Steps, Inv, StepOK, Ready, Has

LEMMA TakeIdePortRewires == ASSUME Inv, PortsKept, TakeIdePort PROVE Rewires
<1> DEFINE new == reg.ports + 1
           port == IF op.item.ide_port = 0 THEN new ELSE op.item.ide_port
           ports == IF op.item.ide_port = 0 THEN new ELSE reg.ports
           r == [reg EXCEPT !.ports = ports]
           next == [op EXCEPT !.item.ide_port = port, !.step = "ide_clear"]
<1>1. op.step = "ide_port" /\ op.step \in Steps /\ op.kind = "ide_on"
  BY DEF TakeIdePort, Steps, Inv, StepOK, Ready
<1>2. /\ op \in Operation /\ reg.ports \in Nat /\ saved.ports \in Nat
      /\ saved.ports <= reg.ports /\ op.item.ide_port \in Nat
  BY <1>1, InStep, InPorts DEF IsRegistry, Carries, Item
<1>3. /\ ports \in Nat /\ reg.ports <= ports
      /\ IsRegistry(r) /\ r.items = reg.items /\ r.ports = ports
  BY <1>1, <1>2, InStep DEF IsRegistry
<1>4. /\ next.app = op.app /\ next.kind = op.kind /\ next.step = "ide_clear"
      /\ next.item.port = op.item.port /\ next.item.ide_port = port
      /\ next.item.ide_enabled = op.item.ide_enabled /\ next.old = op.old
  BY <1>2 DEF Operation, Item
<1>5. /\ port # 0 /\ op.item.port = saved.items[op.app].port /\ saved.ports <= ports
      /\ \/ port = saved.items[op.app].ide_port
         \/ /\ saved.items[op.app].ide_port = 0
            /\ saved.ports < port /\ port <= ports
  BY <1>1, <1>2, <1>3, InPorts DEF Carries, Fresh
<1>6. Carries(next, r, host)
  BY <1>1, <1>3, <1>4, <1>5, InPorts DEF Carries, Fresh
<1>7. Stock(host) /\ Enters(reg)
  BY <1>1, StockWhen, EntersWhen
<1>8. Enters(r)
  BY <1>1, <1>2, <1>3, <1>7 DEF Enters, Registered
<1>9. QED
  BY <1>1, <1>6, <1>7, <1>8 DEF TakeIdePort, Go, Rewires, Leads

LEMMA ClearIdeRewires == ASSUME Inv, PortsKept, ClearIde PROVE Rewires
<1>1. /\ op.step \in Steps /\ op.step \notin {"volume", "port", "ide_port", "ide_ready"}
      /\ op.kind # "create"
  BY DEF ClearIde, Steps, Inv, StepOK, Ready
<1>3. QED
  BY <1>1, StockWhen, EntersWhen, LeadsTo, CallRewires, CallIfRewires, GoRewires
     DEF ClearIde, Recreate, Steps, Inv, StepOK, Ready, Has

LEMMA RunIdeRewires == ASSUME Inv, PortsKept, RunIde PROVE Rewires
<1> DEFINE ide(running) == [port |-> op.item.ide_port, running |-> running]
<1>1. op.step = "ide_run" /\ op.step \in Steps /\ op.kind = "ide_on"
  BY DEF RunIde, Steps, Inv, StepOK, Ready
<1>2. /\ ide(TRUE) \in IdeContainer /\ ide(FALSE) \in IdeContainer
      /\ ide(TRUE).port = op.item.ide_port /\ ide(FALSE).port = op.item.ide_port
      /\ op.item.ide_port # 0 /\ ide(TRUE) # Nothing
  <2>1. op.item.ide_port \in Nat /\ op.item.ide_port # 0
    BY <1>1, InStep, InPorts DEF Item, Carries
  <2>2. ide(TRUE) \in IdeContainer /\ ide(FALSE) \in IdeContainer
    BY <2>1 DEF IdeContainer
  <2>3. QED
    BY <2>1, <2>2, ConstantsAssumption
<1>3. /\ Stock(SetIde(op.app, ide(TRUE))) /\ Stock(SetIde(op.app, ide(FALSE))) /\ Stock(host)
      /\ Enters(reg)
  BY <1>1, <1>2, StockWhen, EntersWhen
<1>4. SetIde(op.app, ide(TRUE))[op.app].ide = ide(TRUE)
  BY <1>1, <1>2, InStep, Remakes DEF Remade
<1>5. /\ To("ide_ready").app = op.app /\ To("ide_ready").kind = op.kind
      /\ To("ide_ready").step = "ide_ready"
      /\ To("ide_ready").item = op.item /\ To("ide_ready").old = op.old
  BY <1>1, Steady DEF Steps
<1>6. Carries(To("ide_ready"), reg, SetIde(op.app, ide(TRUE)))
  BY <1>1, <1>2, <1>4, <1>5, InPorts DEF Carries
<1>7. CASE Call(SetIde(op.app, ide(TRUE)), reg, To("ide_ready"), Ended)
  BY <1>1, <1>3, <1>6, <1>7 DEF Call, Rewires, Leads
<1>8. CASE host' \in {host, SetIde(op.app, ide(FALSE))} /\ op' = Ended /\ UNCHANGED <<reg, saved>>
  BY <1>1, <1>3, <1>8 DEF Rewires, Leads
<1>9. QED
  BY <1>7, <1>8 DEF RunIde, Run

LEMMA AwaitIdeRewires == ASSUME Inv, PortsKept, AwaitIde PROVE Rewires
<1>1. op.step = "ide_ready" /\ op.step \in Steps /\ op.kind = "ide_on"
  BY DEF AwaitIde, Steps, Inv, StepOK, Ready
<1>2. Stock(host) /\ Stock(SetIde(op.app, Nothing)) /\ Enters(reg)
  BY <1>1, StockWhen, EntersWhen
<1>3. Enters(Register(op.app, op.item))
  <2>1. /\ IsRegistry(Register(op.app, op.item)) /\ IsRegistry(reg)
        /\ DOMAIN Register(op.app, op.item).items = Registered \cup {op.app}
        /\ Register(op.app, op.item).items[op.app] = op.item
        /\ \A b \in Registered \ {op.app} : Register(op.app, op.item).items[b] = reg.items[b]
        /\ Register(op.app, op.item).ports = reg.ports
    BY <1>1, InStep, RegisterType
  <2>2. reg.ports <= reg.ports
    BY <2>1 DEF IsRegistry
  <2>3. QED
    BY <1>1, <2>1, <2>2, InPorts DEF Enters, Carries
<1>4. QED
  BY <1>1, <1>2, <1>3 DEF AwaitIde, Call, Go, Rewires, Leads

LEMMA RemoveIdeRewires == ASSUME Inv, PortsKept, RemoveIde PROVE Rewires
<1>1. /\ op.step \in Steps /\ op.step \notin {"volume", "port", "ide_port", "ide_ready"}
      /\ op.kind # "create"
  BY DEF RemoveIde, Steps, Inv, StepOK, Ready
<1>3. QED
  BY <1>1, StockWhen, EntersWhen, LeadsTo, CallRewires, CallIfRewires, GoRewires
     DEF RemoveIde, Recreate, Steps, Inv, StepOK, Ready, Has

LEMMA UnregisterIdeRewires == ASSUME Inv, PortsKept, UnregisterIde PROVE Rewires
<1>1. op.step = "ide_reload" /\ op.step \in Steps /\ op.kind \in {"ide_off", "delete"}
  BY DEF UnregisterIde, Steps, Inv, StepOK, Ready
<1>2. Stock(host) /\ Enters(reg) /\ Enters(Register(op.app, op.item))
  BY <1>1, StockWhen, EntersWhen
<1>3. /\ Leads(To("remove"), Register(op.app, op.item)) /\ Leads(Ended, reg)
      /\ Leads(Ended, Register(op.app, op.item))
  BY <1>1, LeadsTo DEF Steps
<1>4. QED
  BY <1>1, <1>2, <1>3 DEF UnregisterIde, Go, Rewires

LEMMA QuietAppRewires == ASSUME Inv, PortsKept, QuietApp PROVE Rewires
<1>1. /\ op.step \in Steps /\ op.step \notin {"volume", "port", "ide_port", "ide_ready"}
      /\ op.kind # "create"
  BY DEF QuietApp, Steps, Inv, StepOK, Ready
<1>3. QED
  BY <1>1, StockWhen, EntersWhen, LeadsTo, CallRewires, CallIfRewires, GoRewires
     DEF QuietApp, Recreate, Steps, Inv, StepOK, Ready, Has

LEMMA QuietIdeRewires == ASSUME Inv, PortsKept, QuietIde PROVE Rewires
<1> DEFINE ide == [host[op.app].ide EXCEPT !.running = FALSE]
<1>1. op.step = "stop_ide" /\ op.step \in Steps /\ op.kind = "limits"
  BY DEF QuietIde, Steps, Inv, StepOK, Ready
<1>2. host[op.app].ide # Nothing =>
          ide \in IdeContainer /\ ide.port = host[op.app].ide.port /\ ~ide.running
  BY <1>1, InStep DEF Host, IdeContainer
<1>3. Stock(host) /\ (host[op.app].ide # Nothing => Stock(SetIde(op.app, ide))) /\ Enters(reg)
  BY <1>1, <1>2, StockWhen, EntersWhen
<1>4. Leads(To("grow"), reg) /\ Leads(To("resume"), reg)
  BY <1>1, LeadsTo DEF Steps
<1>5. QED
  BY <1>1, <1>3, <1>4, CallRewires, GoRewires DEF QuietIde

LEMMA GrowVolumeRewires == ASSUME Inv, PortsKept, GrowVolume PROVE Rewires
<1> DEFINE item == [op.old EXCEPT !.disk = op.item.disk]
           r == Register(op.app, item)
<1>1. op.step = "grow" /\ op.step \in Steps /\ op.kind = "limits"
  BY DEF GrowVolume, Steps, Inv, StepOK, Ready
<1>2. /\ item \in Item /\ item.port = op.old.port /\ item.ide_port = op.old.ide_port
      /\ item.ide_enabled = op.old.ide_enabled
  BY <1>1, InStep DEF Item
<1>3. /\ IsRegistry(r) /\ IsRegistry(reg)
      /\ DOMAIN r.items = Registered \cup {op.app} /\ r.items[op.app] = item
      /\ \A b \in Registered \ {op.app} : r.items[b] = reg.items[b]
      /\ r.ports = reg.ports /\ reg.ports <= reg.ports
  <2>1. IsRegistry(reg) /\ reg.ports <= reg.ports /\ op.app \in Apps
    BY <1>1, InStep DEF IsRegistry
  <2> HIDE DEF item
  <2>2. QED
    BY <1>2, <2>1, RegisterType
<1>4. Enters(r)
  BY <1>1, <1>2, <1>3, InPorts DEF Enters, Carries, SamePorts
<1>5. /\ To("start").app = op.app /\ To("start").kind = op.kind /\ To("start").step = "start"
      /\ To("start").item = op.item /\ To("start").old = op.old
  BY <1>1, Steady DEF Steps
<1>6. \A b \in DOMAIN r.items : SamePorts(r.items[b], saved.items[b])
  <2>1. ASSUME NEW b \in DOMAIN r.items PROVE SamePorts(r.items[b], saved.items[b])
    <3>1. /\ \A c \in Registered : SamePorts(reg.items[c], saved.items[c])
          /\ SamePorts(op.old, saved.items[op.app])
      BY <1>1, InPorts DEF Carries
    <3>2. CASE b = op.app
      BY <1>2, <1>3, <3>1, <3>2 DEF SamePorts
    <3>3. CASE b # op.app
      <4>1. b \in Registered \ {op.app}
        BY <1>3, <3>3
      <4>2. r.items[b] = reg.items[b]
        BY <1>3, <4>1
      <4>3. QED
        BY <3>1, <4>1, <4>2
    <3>4. QED
      BY <3>2, <3>3
  <2>2. QED
    BY <2>1
<1>7. Leads(To("start"), r)
  BY <1>1, <1>3, <1>5, <1>6, InPorts DEF Carries, Leads
<1>8. Leads(To("resume"), reg) /\ Stock(SetVolume(op.app, op.item.disk))
  BY <1>1, LeadsTo, StockWhen DEF Steps
<1>9. QED
  BY <1>1, <1>4, <1>7, <1>8, CallIfRewires DEF GrowVolume

LEMMA StartResizedRewires == ASSUME Inv, PortsKept, StartResized PROVE Rewires
<1>1. /\ op.step \in Steps /\ op.step \notin {"volume", "port", "ide_port", "ide_ready"}
      /\ op.kind # "create"
  BY DEF StartResized, Steps, Inv, StepOK, Ready
<1>3. QED
  BY <1>1, StockWhen, EntersWhen, LeadsTo, CallRewires, CallIfRewires, GoRewires
     DEF StartResized, Recreate, Steps, Inv, StepOK, Ready, Has

LEMMA UpdateContainerRewires == ASSUME Inv, PortsKept, UpdateContainer PROVE Rewires
<1> DEFINE c == [host[op.app].cont EXCEPT !.memory = op.item.memory]
<1>1. /\ op.step = "update" /\ op.step \in Steps /\ op.kind = "limits"
      /\ host[op.app].cont # Nothing
  BY DEF UpdateContainer, Steps, Inv, StepOK, Ready
<1>2. host[op.app].cont \in AppContainer /\ op.item.memory \in Nat
      /\ host[op.app].cont.port = op.item.port
  BY <1>1, InStep, StockNow DEF Host, Item, Stocked
<1>3. c \in AppContainer /\ c.port = op.item.port
  BY <1>2 DEF AppContainer
<1>4. Stock(SetCont(op.app, c)) /\ Enters(Register(op.app, op.item))
  BY <1>1, <1>3, StockWhen, EntersWhen
<1>5. Leads(To("resume"), reg) /\ Leads(To("resume"), Register(op.app, op.item))
  BY <1>1, LeadsTo DEF Steps
<1>6. QED
  BY <1>1, <1>4, <1>5, CallRewires DEF UpdateContainer

LEMMA ResumeAppRewires == ASSUME Inv, PortsKept, ResumeApp PROVE Rewires
<1>1. /\ op.step \in Steps /\ op.step \notin {"volume", "port", "ide_port", "ide_ready"}
      /\ op.kind # "create"
  BY DEF ResumeApp, Steps, Inv, StepOK, Ready
<1>3. QED
  BY <1>1, StockWhen, EntersWhen, LeadsTo, CallRewires, CallIfRewires, GoRewires
     DEF ResumeApp, Recreate, Steps, Inv, StepOK, Ready, Has

LEMMA ResumeIdeRewires == ASSUME Inv, PortsKept, ResumeIde PROVE Rewires
<1> DEFINE ide == [host[op.app].ide EXCEPT !.running = TRUE]
<1>1. op.step = "resume_ide" /\ op.step \in Steps /\ op.kind = "limits"
  BY DEF ResumeIde, Steps, Inv, StepOK, Ready
<1>2. op.item.ide_port # 0 /\ op.item.ide_port = saved.items[op.app].ide_port
      /\ op.app \in DOMAIN saved.items
  BY <1>1, InPorts DEF Carries
<1>3. host[op.app].ide # Nothing => ide \in IdeContainer /\ ide.port = op.item.ide_port
  BY <1>1, <1>2, InStep, InPorts DEF Host, IdeContainer, Wired, Matches
<1>4. Stock(host) /\ (host[op.app].ide # Nothing => Stock(SetIde(op.app, ide))) /\ Enters(reg)
  BY <1>1, <1>2, <1>3, StockWhen, EntersWhen
<1>5. Leads(Ended, reg)
  BY DEF Leads
<1>6. QED
  BY <1>1, <1>4, <1>5, CallIfRewires, GoRewires DEF ResumeIde

LEMMA StepRewires == ASSUME Inv, PortsKept, Step PROVE Rewires
BY MakeVolumeRewires, TakePortRewires, RunContainerRewires, VerbRewires, StopOldRewires,
   RenameOldRewires, CheckHealthRewires, StopTriedRewires, RemoveTriedRewires, RemoveNewRewires,
   RenameBackRewires, ReviveRewires, SettleRewires, DropPreviousRewires, RemoveContainerRewires,
   RemoveGatewayRewires, RunGatewayRewires, AwaitGatewayRewires, TakeIdePortRewires,
   ClearIdeRewires, RunIdeRewires, AwaitIdeRewires, RemoveIdeRewires, UnregisterIdeRewires,
   QuietAppRewires, QuietIdeRewires, GrowVolumeRewires, StartResizedRewires,
   UpdateContainerRewires, ResumeAppRewires, ResumeIdeRewires DEF Step

\* The ports of the saved registry lie below those counted since.
LEMMA SavedPorts ==
    ASSUME Inv, PortsKept, op.step \in Steps, NEW b \in DOMAIN saved.items
    PROVE  /\ saved.items[b].port \in Nat \ {0} /\ saved.items[b].ide_port \in Nat
           /\ saved.items[b].port <= saved.ports /\ saved.items[b].ide_port <= saved.ports
           /\ saved.ports \in Nat
BY InStep, InPorts DEF IsRegistry, Item, Wired, Distinct

\* What the application of the operation publishes.
LEMMA StepPublishes ==
    ASSUME Inv, PortsKept, op.step \in Steps, Stock(host'), NEW port \in Nat \ {0},
           Publishes(host', op.app, port)
    PROVE  \/ port = op.item.port
           \/ op.item.ide_port # 0 /\ port = op.item.ide_port
           \/ Publishes(host, op.app, port)
BY DEF Stock, Stocked, Publishes

LEMMA StepAlone ==
    ASSUME Inv, PortsKept, Rewires
    PROVE  Alone(host', saved) /\ Alone(host', reg')
<1> DEFINE app == op.app
<1>1. /\ op.step \in Steps /\ Stock(host') /\ Near(host') /\ Enters(reg')
      /\ Carries(op, reg, host) /\ Alone(host, saved) /\ Alone(host, reg) /\ Distinct(saved)
      /\ Registered = DOMAIN saved.items /\ (app \in Registered <=> op.kind # "create")
      /\ DOMAIN saved.items \subseteq Apps /\ app \in Apps
  BY InPorts, InStep DEF Rewires, Stock, Wired, IsRegistry
<1>2. ASSUME NEW a \in DOMAIN saved.items \ {app}
      PROVE  ~Publishes(host', app, saved.items[a].port)
  <2> DEFINE port == saved.items[a].port
  <2>1. port \in Nat \ {0} /\ port <= saved.ports /\ saved.ports \in Nat
    BY <1>1, SavedPorts
  <2>2. ~Publishes(host, app, port)
    BY <1>1 DEF Alone
  <2>3. port # op.item.port
    <3>1. CASE op.kind = "create"
      BY <1>1, <2>1, <3>1 DEF Carries, Fresh
    <3>2. CASE op.kind # "create"
      BY <1>1, <3>2 DEF Carries, Distinct
    <3>3. QED
      BY <3>1, <3>2
  <2>4. op.item.ide_port # 0 => port # op.item.ide_port
    <3>1. CASE op.kind = "create"
      BY <1>1, <3>1 DEF Carries
    <3>2. CASE op.kind # "create" /\ op.item.ide_port = saved.items[app].ide_port
      BY <1>1, <3>2 DEF Distinct
    <3>3. CASE op.kind # "create" /\ Fresh(op.item.ide_port, reg)
      BY <1>1, <2>1, <3>3 DEF Fresh
    <3>4. QED
      BY <1>1, <3>1, <3>2, <3>3 DEF Carries
  <2> HIDE DEF port
  <2>5. ~Publishes(host', app, port)
    BY <1>1, <2>1, <2>2, <2>3, <2>4, StepPublishes
  <2>6. QED
    BY <2>5 DEF port
<1>3. \A b \in Apps \ {app} : \A port : Publishes(host', b, port) <=> Publishes(host, b, port)
  BY <1>1 DEF Near, Publishes
<1>4. Alone(host', saved)
  <2>1. ASSUME NEW a \in DOMAIN saved.items, NEW b \in Apps \ {a}
        PROVE  ~Publishes(host', b, saved.items[a].port)
    <3>1. CASE b = app
      BY <1>2, <2>1, <3>1
    <3>2. CASE b # app
      BY <1>1, <1>3, <2>1, <3>2 DEF Alone
    <3>3. QED
      BY <3>1, <3>2
  <2>2. QED
    BY <2>1 DEF Alone
<1>5. ASSUME NEW a \in DOMAIN reg'.items, a \in DOMAIN saved.items
      PROVE  reg'.items[a].port = saved.items[a].port
  <2>1. CASE a = app
    BY <1>1, <1>5, <2>1 DEF Enters
  <2>2. CASE a # app
    BY <1>1, <1>5, <2>2 DEF Enters, Carries, SamePorts, Registered
  <2>3. QED
    BY <2>1, <2>2
<1>6. ASSUME NEW a \in DOMAIN reg'.items, a \notin DOMAIN saved.items, NEW b \in Apps \ {a}
      PROVE  ~Publishes(host', b, reg'.items[a].port)
  <2>1. a = app /\ op.kind = "create"
    BY <1>1, <1>6 DEF Enters
  <2>2. ~Busy(op.item.port) /\ reg'.items[a] = op.item
    BY <1>1, <1>6, <2>1 DEF Enters
  <2>3. ~Publishes(host, b, op.item.port)
    BY <2>2 DEF Busy, Publishes
  <2>4. QED
    BY <1>3, <1>6, <2>1, <2>2, <2>3
<1>7. QED
  BY <1>4, <1>5, <1>6 DEF Alone

LEMMA StepDistinct ==
    ASSUME Inv, PortsKept, Rewires
    PROVE  Distinct(reg')
<1> DEFINE app == op.app
<1>1. /\ op.step \in Steps /\ Enters(reg') /\ IsRegistry(reg) /\ IsRegistry(reg')
      /\ Carries(op, reg, host) /\ Distinct(reg) /\ Distinct(saved)
      /\ Registered = DOMAIN saved.items /\ (app \in Registered <=> op.kind # "create")
      /\ reg.ports \in Nat /\ reg'.ports \in Nat /\ saved.ports \in Nat
      /\ saved.ports <= reg.ports /\ reg.ports <= reg'.ports
  BY InPorts, InStep DEF Rewires, Enters, Wired, IsRegistry, Carries
<1>2. ASSUME NEW b \in DOMAIN reg'.items \ {app}
      PROVE  /\ b \in DOMAIN saved.items /\ reg'.items[b].port = saved.items[b].port
             /\ reg'.items[b].ide_port = saved.items[b].ide_port
             /\ reg'.items[b].ide_enabled => reg'.items[b].ide_port # 0
  <2>1. b \in Registered /\ reg'.items[b] = reg.items[b]
    BY <1>1 DEF Enters
  <2>2. QED
    BY <1>1, <2>1 DEF Carries, SamePorts, Distinct, Registered
<1>3. ASSUME app \in DOMAIN reg'.items
      PROVE  LET item == reg'.items[app]
             IN  /\ item.ide_enabled => item.ide_port # 0
                 /\ \/ app \in DOMAIN saved.items /\ item.port = saved.items[app].port
                    \/ saved.ports < item.port /\ item.port <= reg'.ports /\ item.ide_port = 0
                 /\ \/ item.ide_port = 0
                    \/ /\ app \in DOMAIN saved.items
                       /\ item.ide_port = saved.items[app].ide_port
                    \/ saved.ports < item.ide_port /\ item.ide_port <= reg'.ports
  <2> DEFINE item == reg'.items[app]
  <2>1. CASE op.kind = "create"
    <3>1. op.step = "run" /\ item = op.item
      BY <1>1, <1>3, <2>1 DEF Enters
    <3>2. /\ op.item.ide_port = 0 /\ ~op.item.ide_enabled
          /\ saved.ports < op.item.port /\ op.item.port <= reg.ports
      BY <1>1, <2>1, <3>1 DEF Carries, Fresh
    <3>3. op.item.port \in Nat
      BY <1>1, InStep DEF Item
    <3>4. QED
      BY <1>1, <3>1, <3>2, <3>3
  <2>2. CASE op.kind # "create"
    <3>1. /\ item.port = saved.items[app].port /\ app \in DOMAIN saved.items
          /\ item.ide_enabled => item.ide_port # 0
          /\ \/ item.ide_port = saved.items[app].ide_port
             \/ item.ide_port = op.item.ide_port
      BY <1>1, <1>3, <2>2 DEF Enters
    <3>2. \/ op.item.ide_port = saved.items[app].ide_port
          \/ saved.ports < op.item.ide_port /\ op.item.ide_port <= reg.ports
      BY <1>1, <2>2 DEF Carries, Fresh
    <3>3. op.item.ide_port \in Nat
      BY <1>1, InStep DEF Item
    <3>4. QED
      BY <1>1, <3>1, <3>2, <3>3
  <2>3. QED
    BY <2>1, <2>2
<1>4. \A b \in DOMAIN saved.items :
          /\ saved.items[b].port \in Nat \ {0} /\ saved.items[b].ide_port \in Nat
          /\ saved.items[b].port <= saved.ports /\ saved.items[b].ide_port <= saved.ports
  BY <1>1, SavedPorts
<1>5. \A b \in DOMAIN reg'.items : reg'.items[b].port \in Nat /\ reg'.items[b].ide_port \in Nat
  BY <1>1 DEF IsRegistry, Item
<1>6. ASSUME NEW a \in DOMAIN reg'.items
      PROVE  LET item == reg'.items[a]
             IN  /\ item.port # 0 /\ item.port <= reg'.ports /\ item.ide_port <= reg'.ports
                 /\ item.port # item.ide_port
                 /\ item.ide_enabled => item.ide_port # 0
  <2>1. CASE a = app
    <3>1. app \in DOMAIN saved.items => saved.items[app].port # saved.items[app].ide_port
      BY <1>1 DEF Distinct
    <3>2. QED
      BY <1>1, <1>3, <1>4, <1>5, <2>1, <3>1
  <2>2. CASE a # app
    <3>1. saved.items[a].port # saved.items[a].ide_port
      BY <1>1, <1>2, <2>2 DEF Distinct
    <3>2. QED
      BY <1>1, <1>2, <1>4, <1>5, <2>2, <3>1
  <2>3. QED
    BY <2>1, <2>2
<1>7. ASSUME NEW a \in DOMAIN reg'.items, NEW b \in DOMAIN reg'.items \ {a}
      PROVE  /\ reg'.items[b].port \notin {reg'.items[a].port, reg'.items[a].ide_port}
             /\ reg'.items[a].ide_port # 0 => reg'.items[b].ide_port # reg'.items[a].ide_port
  <2>1. ASSUME NEW c \in DOMAIN saved.items, NEW d \in DOMAIN saved.items \ {c}
        PROVE  /\ saved.items[d].port # saved.items[c].port
               /\ saved.items[d].port # saved.items[c].ide_port
               /\ saved.items[c].ide_port # 0 =>
                      saved.items[d].ide_port # saved.items[c].ide_port
    BY <1>1 DEF Distinct
  <2>2. CASE a # app /\ b # app
    BY <1>2, <2>1, <2>2
  <2>3. CASE a = app
    <3>1. /\ b \in DOMAIN saved.items /\ reg'.items[b].port = saved.items[b].port
          /\ reg'.items[b].ide_port = saved.items[b].ide_port
      BY <1>2, <2>3
    <3>2. app \in DOMAIN saved.items =>
              /\ saved.items[b].port # saved.items[app].port
              /\ saved.items[b].port # saved.items[app].ide_port
              /\ saved.items[app].ide_port # 0 =>
                      saved.items[b].ide_port # saved.items[app].ide_port
      BY <2>1, <2>3, <3>1
    <3>3. /\ saved.items[b].port \in Nat \ {0} /\ saved.items[b].ide_port \in Nat
          /\ saved.items[b].port <= saved.ports /\ saved.items[b].ide_port <= saved.ports
      BY <1>4, <3>1
    <3>4. QED
      BY <1>1, <1>3, <1>5, <2>3, <3>1, <3>2, <3>3
  <2>4. CASE b = app
    <3>1. /\ a \in DOMAIN saved.items /\ reg'.items[a].port = saved.items[a].port
          /\ reg'.items[a].ide_port = saved.items[a].ide_port
      BY <1>2, <2>4
    <3>2. app \in DOMAIN saved.items =>
              /\ saved.items[app].port # saved.items[a].port
              /\ saved.items[app].port # saved.items[a].ide_port
              /\ saved.items[a].ide_port # 0 =>
                      saved.items[app].ide_port # saved.items[a].ide_port
      BY <2>1, <2>4, <3>1
    <3>3. /\ saved.items[a].port \in Nat \ {0} /\ saved.items[a].ide_port \in Nat
          /\ saved.items[a].port <= saved.ports /\ saved.items[a].ide_port <= saved.ports
      BY <1>4, <3>1
    <3>4. QED
      BY <1>1, <1>3, <1>5, <2>4, <3>1, <3>2, <3>3
  <2>5. QED
    BY <2>2, <2>3, <2>4
<1>8. QED
  BY <1>6, <1>7 DEF Distinct

LEMMA StepMatches ==
    ASSUME Inv, PortsKept, Rewires
    PROVE  /\ \A a \in DOMAIN saved.items : Matches(host'[a], saved.items[a])
           /\ \A a \in DOMAIN reg'.items : Matches(host'[a], reg'.items[a])
<1> DEFINE app == op.app
           x == host'[app]
<1>1. /\ op.step \in Steps /\ Near(host') /\ Stocked(x, host[app]) /\ Enters(reg')
      /\ Carries(op, reg, host)
      /\ Registered = DOMAIN saved.items /\ (app \in Registered <=> op.kind # "create")
      /\ DOMAIN saved.items \subseteq Apps
      /\ \A a \in Registered : Matches(host[a], saved.items[a]) /\ Matches(host[a], reg.items[a])
  BY InPorts, InStep DEF Rewires, Stock, Wired, IsRegistry, Registered
<1>2. ASSUME app \in DOMAIN saved.items PROVE Matches(x, saved.items[app])
  <2>1. /\ op.item.port = saved.items[app].port
        /\ saved.items[app].ide_port # 0 => op.item.ide_port = saved.items[app].ide_port
        /\ Matches(host[app], saved.items[app])
    BY <1>1, <1>2 DEF Carries
  <2> HIDE DEF x
  <2>2. QED
    BY <1>1, <2>1 DEF Stocked, Matches
<1>3. \A a \in DOMAIN saved.items : Matches(host'[a], saved.items[a])
  BY <1>1, <1>2 DEF Near
<1>4. ASSUME NEW a \in DOMAIN reg'.items \ {app} PROVE Matches(host'[a], reg'.items[a])
  BY <1>1, <1>4 DEF Near, Enters
<1>5. ASSUME app \in DOMAIN reg'.items PROVE Matches(x, reg'.items[app])
  <2>1. CASE op.kind = "create"
    <3>1. reg'.items[app] = op.item /\ op.item.ide_port = 0
      BY <1>1, <1>5, <2>1 DEF Enters, Carries
    <3>2. QED
      BY <1>1, <3>1 DEF Stocked, Matches
  <2>2. CASE op.kind # "create" /\ reg'.items[app].ide_port = saved.items[app].ide_port
    <3>1. reg'.items[app].port = saved.items[app].port
      BY <1>1, <1>5, <2>2 DEF Enters
    <3>2. QED
      BY <1>1, <1>2, <2>2, <3>1 DEF Matches
  <2>3. CASE /\ op.kind # "create" /\ op.step = "ide_ready"
             /\ reg'.items[app].ide_port = op.item.ide_port
    <3>1. reg'.items[app].port = op.item.port
      BY <1>1, <1>5, <2>3 DEF Enters, Carries
    <3>2. host' = host \/ reg' = reg
      BY <2>3 DEF Rewires
    <3>3. CASE host' = host
      <4>1. host[app].ide.port = op.item.ide_port
        BY <1>1, <2>3 DEF Carries
      <4>2. QED
        BY <1>1, <2>3, <3>1, <3>3, <4>1 DEF Stocked, Matches
    <3>4. CASE reg' = reg
      <4>1. reg.items[app].ide_port = saved.items[app].ide_port
            /\ reg.items[app].port = saved.items[app].port
        BY <1>1, <1>5, <3>4 DEF Carries, SamePorts
      <4>2. QED
        BY <1>1, <1>2, <2>3, <3>4, <4>1 DEF Matches
    <3>5. QED
      BY <3>2, <3>3, <3>4
  <2>4. QED
    BY <1>1, <1>5, <2>1, <2>2, <2>3 DEF Enters
<1>6. QED
  BY <1>3, <1>4, <1>5

LEMMA StepPorts == ASSUME Inv, PortsKept, Step PROVE PortsKept'
<1>1. Rewires
  BY StepRewires
<1>2. Wired(host', reg') /\ Wired(host', saved')
  BY <1>1, InPorts, StepAlone, StepDistinct, StepMatches DEF Wired, Rewires
<1>3. op' = Ended \/ Carries(op', reg', host')
  BY <1>1 DEF Rewires, Leads
<1>4. Carries(op', reg', host') => Carries(op, reg, host)'
  BY <1>1 DEF Carries, Fresh, Rewires
<1>5. QED
  BY <1>2, <1>3, <1>4 DEF PortsKept, InOperation, Ended

LEMMA BeginPorts ==
    ASSUME Inv, PortsKept, NEW a \in Apps, NEW kind, NEW item, NEW was,
           NEW step \in Steps \ {"run", "ide_ready", "resume_ide"},
           Begin(kind, step, a, item, was),
           item.ide_enabled /\ step # "ide_port" => item.ide_port # 0,
           kind = "ide_on" => item.ide_enabled,
           IF kind = "create"
           THEN /\ host[a] = Bare /\ item.port = 0 /\ item.ide_port = 0
                /\ ~item.proxied /\ ~item.ide_enabled
           ELSE a \in Registered /\ SamePorts(item, reg.items[a])
    PROVE  PortsKept'
<1>1. /\ UNCHANGED <<host, reg, saved>> /\ op = Idle
      /\ op'.kind = kind /\ op'.step = step /\ op'.app = a /\ op'.item = item
      /\ a \in Registered => op'.old = reg.items[a]
  BY DEF Begin, Go
<1>2. reg = saved /\ IsRegistry(reg) /\ Distinct(reg)
  BY <1>1 DEF Inv, EntriesOK, TypeOK, PortsKept, Wired
<1>3. /\ saved.ports <= reg.ports
      /\ \A b \in DOMAIN reg.items : SamePorts(reg.items[b], saved.items[b])
  BY <1>2 DEF SamePorts, IsRegistry
<1>4. CASE kind = "create"
  <2>1. /\ host[a].cont = Nothing /\ host[a].prev = Nothing
        /\ host[a].ide = Nothing /\ host[a].gate = 0
    BY <1>4 DEF Bare
  <2>2. Carries(op', reg', host') => Carries(op, reg, host)'
    BY <1>1 DEF Carries, Fresh
  <2>3. Carries(op', reg', host')
    BY <1>1, <1>3, <1>4, <2>1 DEF Carries
  <2>4. QED
    BY <1>1, <2>2, <2>3 DEF PortsKept, Wired, Distinct, Alone, Publishes, Matches
<1>5. CASE kind # "create"
  <2>1. reg.items[a].ide_enabled => reg.items[a].ide_port # 0
    BY <1>2, <1>5 DEF Distinct, Registered
  <2>2. Carries(op', reg', host') => Carries(op, reg, host)'
    BY <1>1 DEF Carries, Fresh
  <2>3. Carries(op', reg', host')
    BY <1>1, <1>2, <1>3, <1>5, <2>1 DEF Carries, SamePorts
  <2>4. QED
    BY <1>1, <2>2, <2>3 DEF PortsKept, Wired, Distinct, Alone, Publishes, Matches
<1>6. QED
  BY <1>4, <1>5

LEMMA RequestPorts == ASSUME Inv, PortsKept, Request PROVE PortsKept'
<1>1. ASSUME NEW a \in Apps, NEW limits \in Allocations, NEW version \in Versions,
             CreateApp(a, limits, version)
      PROVE  PortsKept'
  BY <1>1, BeginPorts DEF CreateApp, Steps
<1>2. ASSUME NEW a \in Registered
      PROVE  reg.items[a] \in Item /\ (reg.items[a].ide_enabled => reg.items[a].ide_port # 0)
  BY Found DEF PortsKept, Wired, Distinct, Registered
<1>3. ASSUME NEW a \in Apps, NEW kind \in {"start", "stop"}, StartOrStop(a, kind)
      PROVE  PortsKept'
  BY <1>2, <1>3, BeginPorts DEF StartOrStop, Steps, SamePorts
<1>4. ASSUME NEW a \in Apps, NEW version \in Versions, SwitchRuntime(a, version)
      PROVE  PortsKept'
  <2> DEFINE item == [reg.items[a] EXCEPT !.version = version]
  <2>1. a \in Registered /\ Begin("runtime", "stop", a, item, host[a].cont.running)
    BY <1>4 DEF SwitchRuntime
  <2>2. SamePorts(item, reg.items[a]) /\ item.ide_enabled = reg.items[a].ide_enabled
    BY <1>2, <2>1 DEF Item, SamePorts
  <2>3. item.ide_enabled => item.ide_port # 0
    BY <1>2, <2>1, <2>2 DEF SamePorts
  <2> HIDE DEF item
  <2>4. "stop" \in Steps \ {"run", "ide_ready", "resume_ide"}
    BY DEF Steps
  <2>5. QED
    BY <2>1, <2>2, <2>3, <2>4, BeginPorts
<1>5. ASSUME NEW a \in Apps, NEW proxied \in BOOLEAN, ConfigureEgress(a, proxied)
      PROVE  PortsKept'
  <2> DEFINE item == [reg.items[a] EXCEPT !.proxied = proxied]
  <2>1. a \in Registered /\ Begin("egress", "remove", a, item, FALSE)
    BY <1>5 DEF ConfigureEgress
  <2>2. SamePorts(item, reg.items[a]) /\ item.ide_enabled = reg.items[a].ide_enabled
    BY <1>2, <2>1 DEF Item, SamePorts
  <2>3. QED
    BY <1>2, <2>1, <2>2, BeginPorts DEF Steps, SamePorts
<1>6. ASSUME NEW a \in Apps, EnableIde(a) PROVE PortsKept'
  <2> DEFINE item == [reg.items[a] EXCEPT !.ide_enabled = TRUE]
  <2>1. a \in Registered /\ Begin("ide_on", "ide_port", a, item, FALSE)
    BY <1>6 DEF EnableIde
  <2>2. SamePorts(item, reg.items[a]) /\ item.ide_enabled
    BY <1>2, <2>1 DEF Item, SamePorts
  <2>3. QED
    BY <2>1, <2>2, BeginPorts DEF Steps
<1>7. ASSUME NEW a \in Apps, DisableIde(a) PROVE PortsKept'
  <2> DEFINE item == [reg.items[a] EXCEPT !.ide_enabled = FALSE]
  <2>1. a \in Registered /\ Begin("ide_off", "ide_remove", a, item, FALSE)
    BY <1>7 DEF DisableIde
  <2>2. SamePorts(item, reg.items[a]) /\ ~item.ide_enabled
    BY <1>2, <2>1 DEF Item, SamePorts
  <2>3. QED
    BY <2>1, <2>2, BeginPorts DEF Steps
<1>8. ASSUME NEW a \in Apps, NEW limits \in Allocations, ConfigureLimits(a, limits)
      PROVE  PortsKept'
  <2> DEFINE item == [reg.items[a] EXCEPT !.memory = limits.memory, !.disk = limits.disk]
  <2>1. a \in Registered /\ Begin("limits", "stop", a, item, TRUE)
    BY <1>8 DEF ConfigureLimits
  <2>2. SamePorts(item, reg.items[a]) /\ item.ide_enabled = reg.items[a].ide_enabled
    BY <1>2, <2>1 DEF Item, SamePorts
  <2>3. QED
    BY <1>2, <2>1, <2>2, BeginPorts DEF Steps, SamePorts
<1>9. ASSUME NEW a \in Apps, DeleteApp(a) PROVE PortsKept'
  <2> DEFINE item == [reg.items[a] EXCEPT !.ide_enabled = FALSE]
             step == IF reg.items[a].ide_port # 0 THEN "ide_remove" ELSE "remove"
  <2>1. a \in Registered /\ Begin("delete", step, a, item, FALSE)
    BY <1>9 DEF DeleteApp
  <2>2. SamePorts(item, reg.items[a]) /\ ~item.ide_enabled
    BY <1>2, <2>1 DEF Item, SamePorts
  <2>3. QED
    BY <2>1, <2>2, BeginPorts DEF Steps
<1>10. ASSUME NEW budget \in Budgets, SetBudget(budget) PROVE PortsKept'
  <2>1. /\ reg' = [reg EXCEPT !.budget = budget] /\ op' = Ended /\ UNCHANGED <<host, saved>>
    BY <1>10 DEF SetBudget, Go
  <2>2. reg'.items = reg.items /\ reg'.ports = reg.ports
    BY <2>1 DEF IsRegistry, Inv, TypeOK
  <2>3. QED
    BY <2>1, <2>2 DEF PortsKept, InOperation, Ended, Wired, Distinct, Alone, Publishes, Matches
<1>11. QED
  BY <1>1, <1>3, <1>4, <1>5, <1>6, <1>7, <1>8, <1>9, <1>10 DEF Request

LEMMA PortsNext == Inv /\ PortsKept /\ [Next]_vars => PortsKept'
<1> SUFFICES ASSUME Inv, PortsKept, [Next]_vars PROVE PortsKept'
  OBVIOUS
<1>1. CASE Save
  BY <1>1 DEF Save, Idle, InOperation, PortsKept, Wired, Distinct, Alone, Publishes, Matches
<1>2. CASE Crash
  BY <1>2 DEF Crash, Idle, InOperation, PortsKept, Wired, Distinct, Alone, Publishes, Matches
<1>3. CASE UNCHANGED vars
  BY <1>3 DEF vars, InOperation, PortsKept, Wired, Distinct, Alone, Publishes, Matches,
              Carries, Fresh
<1>4. QED
  BY <1>1, <1>2, <1>3, RequestPorts, StepPorts DEF Next

LEMMA PortsInit == Init => PortsKept
BY DEF Init, Idle, InOperation, PortsKept, Wired, Distinct, Alone

\* The port nginx uses for an application is published by no container of another one, wherever
\* the agent is killed between the count of a port and the save.
THEOREM PortsReachOwners == Spec => []PortReachesOwner
<1>1. PortsKept => PortReachesOwner
  BY DEF PortsKept, Wired, Alone, Publishes, PortReachesOwner, Registered, Has
<1>2. QED
  BY <1>1, PortsInit, PortsNext, Invariance, PTL DEF Spec

-----------------------------------------------------------------------------
(* A host that does what it is told. *)

\* The container was made for the entry.
CopyOf(c, item) ==
    /\ c # Nothing /\ c.version = item.version /\ c.memory = item.memory
    /\ c.port = item.port /\ c.proxied = item.proxied

\* The volume and the IDE of a registered application, whose IDE runs unless quiet.
Kept(x, item, quiet) ==
    /\ x.volume = item.disk
    /\ x.ide # Nothing => /\ item.ide_enabled /\ x.ide.port = item.ide_port
                          /\ x.ide.running \/ quiet

Single(x, item) ==
    /\ x.cont # Nothing => CopyOf(x.cont, item) /\ (item.proxied \/ x.gate = 0)
    /\ x.prev = Nothing

AsRegistered(x, item) == Single(x, item) /\ Kept(x, item, FALSE)

Gone(x) ==
    /\ x.cont # Nothing => ~x.cont.running
    /\ x.prev = Nothing /\ x.ide = Nothing /\ x.gate = 0

\* What the operations make of an application x with the entry, step by step, with a host that
\* does what it is told.
Creating(o, x) == o.step # "volume" => x.volume = o.item.disk

Removing(o, entry, x) ==
    /\ AsRegistered(x, entry)
    /\ o.item.version = entry.version /\ o.item.memory = entry.memory
    /\ o.item.disk = entry.disk /\ o.item.proxied = entry.proxied
    /\ o.item.port = entry.port /\ ~o.item.ide_enabled
    /\ o.step # "ide_remove" => x.ide = Nothing

Proxying(o, entry, x) ==
    /\ AsRegistered(x, entry)
    /\ o.item.disk = entry.disk /\ o.item.ide_enabled = entry.ide_enabled
    /\ o.item.ide_port = entry.ide_port
    /\ o.step # "remove" => x.cont = Nothing
    /\ o.step = "gateway" => x.gate = 0 /\ o.item.proxied
    /\ o.step = "ready" => x.gate # 0 /\ o.item.proxied
    /\ o.step = "run" => (o.item.proxied <=> x.gate # 0)

Enabling(o, entry, x) ==
    /\ o.item.version = entry.version /\ o.item.memory = entry.memory
    /\ o.item.disk = entry.disk /\ o.item.proxied = entry.proxied
    /\ o.item.port = entry.port /\ o.item.ide_enabled
    /\ Single(x, entry)
    /\ IF o.step = "ide_ready"
       THEN /\ x.volume = entry.disk
            /\ x.ide # Nothing /\ x.ide.port = o.item.ide_port /\ x.ide.running
       ELSE Kept(x, entry, FALSE)
    /\ o.step = "ide_run" => x.ide = Nothing

Resizing(o, entry, x) ==
    /\ Single(x, entry) /\ Kept(x, entry, TRUE)
    /\ \A item \in {o.item, o.old} :
        /\ item.version = entry.version /\ item.proxied = entry.proxied
        /\ item.port = entry.port
        /\ item.ide_enabled = entry.ide_enabled /\ item.ide_port = entry.ide_port
    /\ o.step \in {"stop", "stop_ide", "grow", "start", "update"} => o.old.memory = entry.memory
    /\ o.step \in {"start", "update"} => o.item.disk = entry.disk

Switching(o, entry, x) ==
    /\ Kept(x, entry, FALSE) /\ x.gate = 0
    /\ ~entry.proxied
    /\ \A item \in {o.item, o.old} :
        /\ item.memory = entry.memory /\ item.disk = entry.disk
        /\ item.proxied = entry.proxied /\ item.port = entry.port
        /\ item.ide_enabled = entry.ide_enabled /\ item.ide_port = entry.ide_port
    /\ o.step \in {"stop", "rename"} =>
        x.prev = Nothing /\ CopyOf(x.cont, entry) /\ entry.version = o.old.version
    /\ o.step = "stop" => (x.cont.running <=> o.was)
    /\ o.step = "rename" => ~x.cont.running
    /\ o.step \in {"run", "health", "retire", "discard", "rollback", "restore", "settle", "drop"} =>
        CopyOf(x.prev, o.old) /\ ~x.prev.running
    /\ o.step \in {"run", "restore"} => x.cont = Nothing
    /\ o.step \in {"settle", "drop"} => CopyOf(x.cont, entry)
    /\ o.step = "settle" => x.cont.running
    /\ o.step = "drop" => (x.cont.running <=> o.was)
    /\ o.step = "revive" => x.prev = Nothing /\ CopyOf(x.cont, o.old) /\ ~x.cont.running

Going(o, entry, x) ==
    /\ o.kind = "create" => Creating(o, x)
    /\ o.kind \in {"start", "stop"} => AsRegistered(x, entry)
    /\ o.kind \in {"ide_off", "delete"} => Removing(o, entry, x)
    /\ o.kind = "egress" => Proxying(o, entry, x)
    /\ o.kind = "ide_on" => Enabling(o, entry, x)
    /\ o.kind = "limits" => Resizing(o, entry, x)
    /\ o.kind \in {"runtime", "activate"} => Switching(o, entry, x)

Rests(r, h, a) == IF a \in DOMAIN r.items THEN AsRegistered(h[a], r.items[a]) ELSE Gone(h[a])

Told ==
    faults = 0 =>
        /\ \A a \in Apps : (InOperation /\ op.app = a) \/ Rests(reg, host, a)
        /\ InOperation => Going(op, reg.items[op.app], host[op.app])

\* What holds of the application of an operation at a step.
LEMMA InTold ==
    ASSUME Inv, PortsKept, Told, op.step \in Steps, faults = 0
    PROVE  /\ Going(op, reg.items[op.app], host[op.app])
           /\ \A b \in Apps \ {op.app} : Rests(reg, host, b)
           /\ host[op.app].volume \in Nat /\ host[op.app].gate \in Nat
           /\ op.kind # "create" =>
                  /\ op.app \in DOMAIN reg.items /\ reg.items[op.app] \in Item
                  /\ op.item.port = reg.items[op.app].port /\ op.item.port # 0
                  /\ op.old.port = reg.items[op.app].port
                  /\ reg.items[op.app].ide_enabled => reg.items[op.app].ide_port # 0
                  /\ op.item.ide_port # op.item.port
<1>1. InOperation /\ op \in Operation /\ host[op.app] \in Host /\ IsRegistry(reg)
  BY InStep DEF InOperation, Operation, Kinds
<1>2. Going(op, reg.items[op.app], host[op.app]) /\ \A b \in Apps \ {op.app} : Rests(reg, host, b)
  BY <1>1 DEF Told
<1>3. host[op.app].volume \in Nat /\ host[op.app].gate \in Nat
  BY <1>1 DEF Host
<1>4. ASSUME op.kind # "create"
      PROVE  /\ op.app \in DOMAIN reg.items /\ reg.items[op.app] \in Item
             /\ op.item.port = reg.items[op.app].port /\ op.item.port # 0
             /\ op.old.port = reg.items[op.app].port
             /\ reg.items[op.app].ide_enabled => reg.items[op.app].ide_port # 0
             /\ op.item.ide_port # op.item.port
  <2>1. /\ Carries(op, reg, host) /\ Distinct(reg) /\ Distinct(saved)
        /\ op.app \in DOMAIN reg.items /\ op.app \in DOMAIN saved.items
    BY <1>4, InPorts DEF Wired
  <2>2. reg.items[op.app] \in Item /\ saved.items[op.app] \in Item /\ saved.ports \in Nat
    BY <2>1, InStep DEF IsRegistry
  <2>3. /\ op.item.port = reg.items[op.app].port /\ op.old.port = reg.items[op.app].port
        /\ op.item.port = saved.items[op.app].port
    BY <1>4, <2>1 DEF Carries, SamePorts
  <2>4. /\ saved.items[op.app].port # 0 /\ saved.items[op.app].port <= saved.ports
        /\ saved.items[op.app].port # saved.items[op.app].ide_port
        /\ reg.items[op.app].ide_enabled => reg.items[op.app].ide_port # 0
    BY <2>1 DEF Distinct
  <2>5. op.item.ide_port # op.item.port
    <3>1. op.item.ide_port \in Nat /\ op.item.port \in Nat
      BY InStep DEF Item
    <3>2. CASE op.item.ide_port = saved.items[op.app].ide_port
      BY <2>3, <2>4, <3>2
    <3>3. CASE saved.ports < op.item.ide_port
      BY <2>2, <2>3, <2>4, <3>1, <3>3
    <3>4. QED
      BY <1>4, <2>1, <3>2, <3>3 DEF Carries, Fresh
  <2>6. QED
    BY <2>1, <2>2, <2>3, <2>4, <2>5
<1>5. QED
  BY <1>2, <1>3, <1>4

\* The container was started or stopped.
Turned(y, x, running) ==
    /\ y.cont # Nothing /\ (y.cont.running <=> running)
    /\ y.cont.version = x.cont.version /\ y.cont.memory = x.cont.memory
    /\ y.cont.port = x.cont.port /\ y.cont.proxied = x.cont.proxied
    /\ y.prev = x.prev /\ y.ide = x.ide /\ y.gate = x.gate /\ y.volume = x.volume

LEMMA WithContTurns ==
    ASSUME Inv, op.step \in Steps, Has(op.app), NEW running \in BOOLEAN
    PROVE  Turned(WithCont(op.app, running)[op.app], host[op.app], running)
<1> DEFINE c == host[op.app].cont
           d == [c EXCEPT !.running = running]
<1>1. c \in AppContainer
  BY InStep DEF Has, Host
<1>2. /\ d.running = running /\ d.version = c.version /\ d.memory = c.memory
      /\ d.port = c.port /\ d.proxied = c.proxied /\ d \in AppContainer
  BY <1>1 DEF AppContainer
<1>3. d # Nothing
  BY <1>2, ConstantsAssumption
<1>4. Remade(WithCont(op.app, running), op.app, d, host[op.app].prev, host[op.app].ide,
             host[op.app].gate, host[op.app].volume)
  BY InStep, Remakes
<1> HIDE DEF d
<1>5. QED
  BY <1>2, <1>3, <1>4 DEF Remade, Turned

\* A call of a host that does what it is told.
LEMMA CallDone ==
    ASSUME NEW h, NEW r, NEW next, NEW failed,
           Call(h, r, next, failed), faults' = 0, faults \in Nat
    PROVE  host' = h /\ reg' = r /\ op' = next
BY DEF Call

\* The application is, once the operation has ended, as registered.
Performs(o, r, h) ==
    /\ o = Ended =>
        /\ Rests(r, h, op.app)
        /\ op.kind \in {"runtime", "activate"} =>
            h[op.app].cont # Nothing /\ (h[op.app].cont.running <=> op.was)
    /\ o # Ended =>
        o.kind # "none" /\ o.app = op.app /\ Going(o, r.items[op.app], h[op.app])

\* What a step finds.
Loyal ==
    /\ Inv /\ PortsKept /\ Told
    /\ op.step \in Steps /\ faults = 0 /\ faults' = 0 /\ faults \in Nat

LEMMA LoyalStep ==
    ASSUME Inv, PortsKept, Told, Step, faults' = 0
    PROVE  Loyal
<1>1. op.step \in Steps
  BY StepRewires DEF Rewires
<1>2. faults \in Nat
  BY <1>1, InStep
<1>3. faults' \in {faults, faults + 1}
  BY DEF Step, MakeVolume, TakePort, RunContainer, Verb, StopOld, RenameOld, CheckHealth,
         StopTried, RemoveTried, RemoveNew, RenameBack, Revive, Settle, DropPrevious,
         RemoveContainer, RemoveGateway, RunGateway, AwaitGateway, TakeIdePort, ClearIde,
         RunIde, AwaitIde, RemoveIde, UnregisterIde, QuietApp, QuietIde, GrowVolume,
         StartResized, UpdateContainer, ResumeApp, ResumeIde, Call, CallIf, Go, Run
<1>4. QED
  BY <1>1, <1>2, <1>3 DEF Loyal

\* The operation goes on to the step s.
Follows(o, s) ==
    /\ o.kind = op.kind /\ o.step = s /\ o.item = op.item /\ o.old = op.old /\ o.was = op.was

LEMMA GoesOn ==
    ASSUME Loyal, NEW s \in Steps, NEW r, NEW h,
           \A o : Follows(o, s) => Going(o, r.items[op.app], h[op.app])
    PROVE  Performs(To(s), r, h)
<1>1. Inv /\ op.step \in Steps
  BY DEF Loyal
<1>2. Follows(To(s), s) /\ To(s).app = op.app /\ To(s).kind # "none"
  BY <1>1, Steady, InStep DEF Operation, Kinds, Follows
<1>3. To(s) # Ended
  BY <1>2 DEF Ended
<1>4. QED
  BY <1>2, <1>3 DEF Performs

LEMMA EndsAsRegistered ==
    ASSUME Loyal, NEW r, NEW h, op.app \in DOMAIN r.items,
           AsRegistered(h[op.app], r.items[op.app]),
           op.kind \in {"runtime", "activate"} =>
               h[op.app].cont # Nothing /\ (h[op.app].cont.running <=> op.was)
    PROVE  Performs(Ended, r, h)
BY DEF Performs, Rests

\* What Register makes of the entry.
LEMMA Entered ==
    ASSUME Loyal, NEW item \in Item
    PROVE  /\ op.app \in DOMAIN Register(op.app, item).items
           /\ Register(op.app, item).items[op.app] = item
BY InStep, RegisterType DEF Loyal

LEMMA CallIfDone ==
    ASSUME NEW condition, NEW h, NEW r, NEW next, NEW failed,
           CallIf(condition, h, r, next, failed), faults' = 0, faults \in Nat
    PROVE  /\ condition => host' = h /\ reg' = r /\ op' = next
           /\ ~condition => host' = host /\ reg' = reg /\ op' = failed
BY CallDone DEF CallIf

\* Only the application of the operation could have published the port it carries.
LEMMA PortFree ==
    ASSUME Loyal, op.kind # "create",
           host[op.app].cont # Nothing => ~host[op.app].cont.running, host[op.app].gate = 0,
           host[op.app].ide # Nothing => host[op.app].ide.port = reg.items[op.app].ide_port
    PROVE  ~Busy(op.item.port)
<1> DEFINE port == op.item.port
<1>1. /\ port = reg.items[op.app].port /\ port # 0 /\ op.app \in DOMAIN reg.items
      /\ Alone(host, reg) /\ Distinct(reg)
  BY InTold, InPorts DEF Loyal, Wired
<1>2. port # reg.items[op.app].ide_port
  BY <1>1 DEF Distinct
<1>3. ASSUME NEW b \in Apps, Publishes(host, b, port) PROVE FALSE
  <2>1. b = op.app
    BY <1>1, <1>3 DEF Alone
  <2>2. QED
    BY <1>1, <1>2, <1>3, <2>1 DEF Publishes
<1>4. QED
  BY <1>3 DEF Busy, Publishes

\* The same of the port of its IDE.
LEMMA IdePortFree ==
    ASSUME Loyal, op.kind # "create", op.item.ide_port # 0,
           host[op.app].ide # Nothing => ~host[op.app].ide.running
    PROVE  ~Busy(op.item.ide_port)
<1> DEFINE a == op.app
           port == op.item.ide_port
<1>1. /\ a \in DOMAIN reg.items /\ a \in DOMAIN saved.items /\ DOMAIN reg.items = DOMAIN saved.items
      /\ Carries(op, reg, host) /\ Distinct(reg) /\ Distinct(saved)
      /\ \A b \in DOMAIN reg.items : Matches(host[b], reg.items[b])
      /\ op.item.port = reg.items[a].port /\ port # op.item.port
      /\ \A b \in Apps \ {a} : Rests(reg, host, b)
  BY InTold, InPorts DEF Loyal, Wired, Registered
<1>2. /\ saved.ports \in Nat /\ port \in Nat
      /\ \A b \in DOMAIN saved.items : /\ saved.items[b].port \in Nat
                                       /\ saved.items[b].ide_port \in Nat
  BY InStep, <1>1, SavedPorts DEF Loyal, Item
<1>3. \A b \in DOMAIN reg.items : /\ reg.items[b].port = saved.items[b].port
                                  /\ reg.items[b].ide_port = saved.items[b].ide_port
  BY <1>1 DEF Carries, SamePorts
<1>4. port = reg.items[a].ide_port \/ saved.ports < port
  BY <1>1, <1>3 DEF Carries, Fresh
<1>5. ASSUME NEW b \in DOMAIN reg.items \ {a}
      PROVE  port # reg.items[b].port /\ port # reg.items[b].ide_port
  <2>1. /\ reg.items[b].port <= saved.ports /\ reg.items[b].ide_port <= saved.ports
        /\ reg.items[b].port \in Nat /\ reg.items[b].ide_port \in Nat
    BY <1>1, <1>2, <1>3 DEF Distinct
  <2>2. CASE saved.ports < port
    BY <1>2, <2>1, <2>2
  <2>3. CASE port = reg.items[a].ide_port
    BY <1>1, <2>3 DEF Distinct
  <2>4. QED
    BY <1>4, <2>2, <2>3
<1>6. ASSUME NEW b \in Apps \ {a}, Publishes(host, b, port) PROVE FALSE
  <2>1. CASE b \in DOMAIN reg.items
    <3>1. /\ AsRegistered(host[b], reg.items[b]) /\ Matches(host[b], reg.items[b])
          /\ port # reg.items[b].port /\ port # reg.items[b].ide_port
      BY <1>1, <1>5, <2>1 DEF Rests
    <3>2. QED
      BY <1>6, <3>1 DEF AsRegistered, Single, Kept, CopyOf, Matches, Publishes
  <2>2. CASE b \notin DOMAIN reg.items
    <3>1. Gone(host[b])
      BY <1>1, <2>2 DEF Rests
    <3>2. QED
      BY <1>6, <3>1 DEF Gone, Publishes
  <2>3. QED
    BY <2>1, <2>2
<1>7. ~Publishes(host, a, port)
  BY <1>1 DEF Matches, Publishes
<1>8. QED
  BY <1>6, <1>7 DEF Busy, Publishes

LEMMA MakeVolumePerforms == ASSUME Loyal, MakeVolume PROVE Performs(op', reg', host')
<1> DEFINE h == SetVolume(op.app, op.item.disk)
<1>1. op.step = "volume" /\ op.step \in Steps /\ op.kind = "create" /\ Inv
  BY DEF Loyal, MakeVolume, Steps, Inv, StepOK, Ready
<1>2. op.item.disk \in Nat /\ h[op.app].volume = op.item.disk
  BY <1>1, InStep, Remakes DEF Remade, Item
<1>3. host' = h /\ reg' = reg /\ op' = To("port")
  BY CallDone DEF Loyal, MakeVolume
<1>4. Performs(To("port"), reg, h)
  BY <1>1, <1>2, GoesOn DEF Going, Creating, Follows, Steps
<1>5. QED
  BY <1>3, <1>4

LEMMA TakePortPerforms == ASSUME Loyal, TakePort PROVE Performs(op', reg', host')
<1> DEFINE a == op.app
           next == [op EXCEPT !.item.port = reg.ports + 1, !.step = "run"]
<1>1. op.step = "port" /\ op.step \in Steps /\ op.kind = "create" /\ Inv /\ PortsKept
  BY DEF Loyal, TakePort, Steps, Inv, StepOK, Ready
<1>2. op \in Operation /\ host' = host /\ reg'.items = reg.items /\ op' \in {next, Ended}
  BY <1>1, InStep DEF TakePort, Go, IsRegistry
<1>3. /\ next.app = a /\ next.kind = "create" /\ next.step = "run"
      /\ next.item.disk = op.item.disk
  BY <1>1, <1>2 DEF Operation, Item
<1>4. CASE op' = next
  <2>1. Creating(op, host[a])
    BY <1>1, InTold DEF Loyal, Going
  <2>2. Going(next, reg'.items[a], host[a])
    BY <1>1, <1>3, <2>1 DEF Going, Creating
  <2>3. next # Ended
    BY <1>3 DEF Ended
  <2>4. QED
    BY <1>2, <1>3, <1>4, <2>2, <2>3 DEF Performs
<1>5. CASE op' = Ended
  <2>1. /\ host[a].cont = Nothing /\ host[a].prev = Nothing
        /\ host[a].ide = Nothing /\ host[a].gate = 0
    BY <1>1, StockNow
  <2>2. a \notin DOMAIN reg'.items
    BY <1>1, <1>2, InPorts
  <2>3. QED
    BY <1>1, <1>2, <1>5, <2>1, <2>2 DEF Performs, Rests, Gone
<1>6. QED
  BY <1>2, <1>4, <1>5

LEMMA RunContainerPerforms == ASSUME Loyal, RunContainer PROVE Performs(op', reg', host')
<1> DEFINE a == op.app
           x == host[a]
           e == reg.items[a]
           r == Register(a, op.item)
           created == [version |-> op.item.version, memory |-> op.item.memory,
                       port |-> op.item.port, proxied |-> op.item.proxied, running |-> FALSE]
           started == [created EXCEPT !.running = TRUE]
           h == SetCont(a, started)
           y == h[a]
           z == SetCont(a, created)[a]
<1>1. /\ op.step = "run" /\ op.step \in Steps /\ Inv /\ PortsKept
      /\ op.kind \in {"create", "runtime", "activate", "egress"}
  BY DEF Loyal, RunContainer, Steps, Inv, StepOK, Ready
<1>2. created \in AppContainer /\ started \in AppContainer
  BY <1>1, InStep DEF AppContainer, Item
<1>3. created # Nothing /\ started # Nothing
  BY <1>2, ConstantsAssumption
<1>4. /\ a \in DOMAIN r.items /\ r.items[a] = op.item
      /\ Going(op, e, x)
  BY <1>1, InStep, InTold, Entered DEF Loyal
<1>5. /\ y.cont = started /\ y.prev = x.prev /\ y.ide = x.ide
      /\ y.gate = x.gate /\ y.volume = x.volume
      /\ z.cont = created /\ z.prev = x.prev /\ z.ide = x.ide
      /\ z.gate = x.gate /\ z.volume = x.volume
  BY <1>1, <1>2, InStep, Remakes DEF Remade
<1>6. CopyOf(y.cont, op.item) /\ y.cont.running /\ CopyOf(z.cont, op.item) /\ ~z.cont.running
  BY <1>3, <1>5 DEF CopyOf
<1>7. CASE ~Has(a) /\ Startable(a, created)
  <2>1. /\ host' = h /\ reg' = r
        /\ op' = CASE op.kind = "runtime" -> To("health")
                   [] op.kind = "activate" -> To("settle")
                   [] OTHER -> Ended
    <3> DEFINE next == CASE op.kind = "runtime" -> To("health")
                         [] op.kind = "activate" -> To("settle")
                         [] OTHER -> Ended
               failed == IF op.kind \in {"runtime", "activate"} THEN To("rollback") ELSE Ended
    <3>1. Call(h, r, next, failed)
      BY <1>7 DEF RunContainer, Run
    <3> HIDE DEF h, r, next, failed
    <3>2. host' = h /\ reg' = r /\ op' = next
      BY <3>1, CallDone DEF Loyal
    <3>3. QED
      BY <3>2 DEF next
  <2>2. CASE op.kind = "create"
    <3>1. x.prev = Nothing /\ x.ide = Nothing /\ x.gate = 0 /\ x.volume = op.item.disk
      BY <1>1, <1>4, <2>2, StockNow DEF Going, Creating
    <3> HIDE DEF x, y
    <3>2. AsRegistered(y, op.item)
      BY <1>5, <1>6, <3>1 DEF AsRegistered, Single, Kept
    <3> USE DEF x, y
    <3> HIDE DEF r
    <3>3. Performs(Ended, r, h)
      BY <1>4, <2>2, <3>2, EndsAsRegistered
    <3>4. QED
      BY <2>1, <2>2, <3>3
  <2>3. CASE op.kind = "egress"
    <3> HIDE DEF x, y, e
    <3>1. AsRegistered(y, op.item)
      BY <1>1, <1>4, <1>5, <1>6, <2>3
         DEF Going, Proxying, AsRegistered, Single, Kept
    <3> USE DEF x, y, e
    <3> HIDE DEF r
    <3>2. Performs(Ended, r, h)
      BY <1>4, <2>3, <3>1, EndsAsRegistered
    <3>3. QED
      BY <2>1, <2>3, <3>2
  <2>4. CASE op.kind \in {"runtime", "activate"}
    <3> HIDE DEF x, y, e
    <3>1. ASSUME NEW o, o.step \in {"health", "settle"}, o.item = op.item, o.old = op.old
          PROVE  Switching(o, op.item, y)
      BY <1>1, <1>4, <1>5, <1>6, <2>4, <3>1 DEF Going, Switching, Kept
    <3> USE DEF x, y, e
    <3> HIDE DEF r
    <3> HIDE DEF h
    <3>2. ASSUME NEW o, Follows(o, "health") \/ Follows(o, "settle")
          PROVE  Going(o, r.items[a], h[a])
      <4>1. Switching(o, op.item, h[a]) /\ o.kind = op.kind
        BY <3>1, <3>2 DEF Follows
      <4>2. r.items[a] = op.item
        BY <1>4
      <4>3. QED
        BY <2>4, <4>1, <4>2 DEF Going
    <3>3. Performs(To("health"), r, h) /\ Performs(To("settle"), r, h)
      BY <3>2, GoesOn DEF Steps
    <3>4. QED
      BY <2>1, <2>4, <3>3
  <2>5. QED
    BY <1>1, <2>2, <2>3, <2>4
<1>8. CASE ~(~Has(a) /\ Startable(a, created))
  <2>1. /\ reg' = reg
        /\ host' \in {host, SetCont(a, created)} /\ (Has(a) => host' = host)
        /\ op' = IF op.kind \in {"runtime", "activate"} THEN To("rollback") ELSE Ended
    BY <1>8 DEF RunContainer, Run
  <2>2. CASE op.kind = "create"
    <3>1. /\ x.cont = Nothing /\ x.prev = Nothing /\ x.ide = Nothing /\ x.gate = 0
          /\ a \notin DOMAIN reg.items
      BY <1>1, <2>2, StockNow, InPorts
    <3>2. Gone(x) /\ Gone(z)
      BY <1>5, <1>6, <3>1 DEF Gone
    <3>3. Performs(Ended, reg, host) /\ Performs(Ended, reg, SetCont(a, created))
      BY <2>2, <3>1, <3>2 DEF Performs, Rests
    <3>4. QED
      BY <2>1, <2>2, <3>3
  <2>3. CASE op.kind = "egress"
    <3>1. Proxying(op, e, x)
      BY <1>4, <2>3 DEF Going
    <3>2. /\ x.cont = Nothing /\ (op.item.proxied <=> x.gate # 0)
          /\ x.ide # Nothing => x.ide.port = e.ide_port
      <4> HIDE DEF x, e
      <4>1. QED
        BY <1>1, <3>1 DEF Proxying, AsRegistered, Kept
    <3>3. ~op.item.proxied => ~Busy(op.item.port)
      BY <2>3, <3>2, PortFree
    <3>4. Startable(a, created)
      BY <3>2, <3>3 DEF Startable
    <3>5. QED
      BY <1>8, <3>2, <3>4 DEF Has
  <2>4. CASE op.kind \in {"runtime", "activate"}
    <3> HIDE DEF x, z, e
    <3>1. ASSUME NEW o, Follows(o, "rollback") PROVE Switching(o, e, x) /\ Switching(o, e, z)
      BY <1>1, <1>4, <1>5, <1>6, <2>4, <3>1 DEF Follows, Going, Switching, Kept
    <3> USE DEF x, z, e
    <3>2. Performs(To("rollback"), reg, host) /\ Performs(To("rollback"), reg, SetCont(a, created))
      BY <1>4, <2>4, <3>1, GoesOn DEF Going, Follows, Steps
    <3>3. QED
      BY <2>1, <2>4, <3>2
  <2>5. QED
    BY <1>1, <2>2, <2>3, <2>4
<1>9. QED
  BY <1>7, <1>8

LEMMA VerbPerforms == ASSUME Loyal, Verb PROVE Performs(op', reg', host')
<1> DEFINE a == op.app
           x == host[a]
           e == reg.items[a]
           running == op.kind = "start"
           h == WithCont(a, running)
           y == h[a]
<1>1. op.step = "verb" /\ op.step \in Steps /\ op.kind \in {"start", "stop"} /\ Inv
  BY DEF Loyal, Verb, Steps, Inv, StepOK, Ready
<1>2. AsRegistered(x, e) /\ a \in DOMAIN reg.items
  BY <1>1, InTold DEF Loyal, Going
<1> DEFINE able == Has(a) /\ (running => Startable(a, host[a].cont))
<1>3. reg' = reg /\ op' = Ended /\ (host' = host \/ (Has(a) /\ host' = h))
  <2>1. CallIf(able, h, reg, Ended, Ended)
    BY DEF Verb
  <2>2. able => Has(a)
    OBVIOUS
  <2> HIDE DEF able, h
  <2>3. QED
    BY <2>1, <2>2, CallIfDone DEF Loyal
<1>4. ASSUME Has(a) PROVE AsRegistered(y, e)
  <2>1. x.cont # Nothing
    BY <1>4 DEF Has
  <2>2. Turned(y, x, running)
    BY <1>1, <1>4, WithContTurns
  <2> HIDE DEF x, y, e
  <2>3. QED
    BY <1>2, <2>1, <2>2 DEF AsRegistered, Single, Kept, CopyOf, Turned
<1>5. QED
  BY <1>1, <1>2, <1>3, <1>4, EndsAsRegistered

LEMMA StopOldPerforms == ASSUME Loyal, StopOld PROVE Performs(op', reg', host')
<1> DEFINE a == op.app
           x == host[a]
           e == reg.items[a]
           h == WithCont(a, FALSE)
           y == h[a]
<1>1. /\ op.step = "stop" /\ op.step \in Steps /\ op.kind = "runtime" /\ Inv /\ Has(a)
      /\ x.cont # Nothing
  BY DEF Loyal, StopOld, Steps, Inv, StepOK, Ready, Has
<1>2. Switching(op, e, x)
  BY <1>1, InTold DEF Loyal, Going
<1>3. Turned(y, x, FALSE)
  BY <1>1, WithContTurns
<1>4. host' = h /\ reg' = reg /\ op' = To("rename")
  BY <1>1, CallDone DEF Loyal, StopOld, Recreate
<1> HIDE DEF x, y, e
<1>5. ASSUME NEW o, Follows(o, "rename") PROVE Switching(o, e, y)
  BY <1>1, <1>2, <1>3, <1>5 DEF Follows, Switching, Kept, CopyOf, Turned
<1> USE DEF x, y, e
<1>6. Performs(To("rename"), reg, h)
  BY <1>1, <1>5, GoesOn DEF Going, Follows, Steps
<1>7. QED
  BY <1>4, <1>6

LEMMA RenameOldPerforms == ASSUME Loyal, RenameOld PROVE Performs(op', reg', host')
<1> DEFINE a == op.app
           x == host[a]
           e == reg.items[a]
           h == KeepCont(a)
           y == h[a]
<1>1. /\ op.step = "rename" /\ op.step \in Steps /\ op.kind = "runtime" /\ Inv /\ Has(a)
      /\ x.cont # Nothing
  BY DEF Loyal, RenameOld, Steps, Inv, StepOK, Ready, Has
<1>2. Switching(op, e, x)
  BY <1>1, InTold DEF Loyal, Going
<1>3. /\ y.cont = Nothing /\ y.prev = x.cont /\ y.ide = x.ide
      /\ y.gate = x.gate /\ y.volume = x.volume
  BY <1>1, InStep, Remakes DEF Remade
<1>4. host' = h /\ reg' = reg /\ op' \in {To("run"), To("rollback")}
  BY <1>1, CallDone DEF Loyal, RenameOld, Recreate
<1> HIDE DEF x, y, e
<1>5. ASSUME NEW o, Follows(o, "run") PROVE Switching(o, e, y)
  BY <1>1, <1>2, <1>3, <1>5 DEF Follows, Switching, Kept, CopyOf
<1>6. ASSUME NEW o, Follows(o, "rollback") PROVE Switching(o, e, y)
  BY <1>1, <1>2, <1>3, <1>6 DEF Follows, Switching, Kept, CopyOf
<1> USE DEF x, y, e
<1>7. Performs(To("run"), reg, h)
  BY <1>1, <1>5, GoesOn DEF Going, Follows, Steps
<1>8. Performs(To("rollback"), reg, h)
  BY <1>1, <1>6, GoesOn DEF Going, Follows, Steps
<1>9. QED
  BY <1>4, <1>7, <1>8

LEMMA CheckHealthPerforms == ASSUME Loyal, CheckHealth PROVE Performs(op', reg', host')
<1> DEFINE a == op.app
           x == host[a]
           e == reg.items[a]
           h == WithCont(a, FALSE)
           y == h[a]
<1>1. /\ op.step = "health" /\ op.step \in Steps /\ op.kind = "runtime" /\ Inv /\ Has(a)
      /\ x.cont # Nothing
  BY DEF Loyal, CheckHealth, Steps, Inv, StepOK, Ready, Has
<1>2. Switching(op, e, x)
  BY <1>1, InTold DEF Loyal, Going
<1>3. Turned(y, x, FALSE)
  BY <1>1, WithContTurns
<1>4. /\ reg' = reg
      /\ \/ host' = host /\ op' = To("retire")
         \/ host' = h /\ op' = To("rollback")
  BY CallDone DEF Loyal, CheckHealth
<1> HIDE DEF x, y, e
<1>5. ASSUME NEW o, Follows(o, "retire") PROVE Switching(o, e, x)
  BY <1>1, <1>2, <1>5 DEF Follows, Switching, Kept, CopyOf
<1>6. ASSUME NEW o, Follows(o, "rollback") PROVE Switching(o, e, y)
  BY <1>1, <1>2, <1>3, <1>6 DEF Follows, Switching, Kept, CopyOf, Turned
<1> USE DEF x, y, e
<1>7. Performs(To("retire"), reg, host)
  BY <1>1, <1>5, GoesOn DEF Going, Follows, Steps
<1>8. Performs(To("rollback"), reg, h)
  BY <1>1, <1>6, GoesOn DEF Going, Follows, Steps
<1>9. QED
  BY <1>4, <1>7, <1>8

LEMMA StopTriedPerforms == ASSUME Loyal, StopTried PROVE Performs(op', reg', host')
<1> DEFINE a == op.app
           x == host[a]
           e == reg.items[a]
           h == WithCont(a, FALSE)
           y == h[a]
<1>1. /\ op.step = "retire" /\ op.step \in Steps /\ op.kind = "runtime" /\ Inv /\ Has(a)
      /\ x.cont # Nothing
  BY DEF Loyal, StopTried, Steps, Inv, StepOK, Ready, Has
<1>2. Switching(op, e, x)
  BY <1>1, InTold DEF Loyal, Going
<1>3. Turned(y, x, FALSE)
  BY <1>1, WithContTurns
<1>4. host' = h /\ reg' = reg /\ op' = To("discard")
  BY <1>1, CallDone DEF Loyal, StopTried, Recreate
<1> HIDE DEF x, y, e
<1>5. ASSUME NEW o, Follows(o, "discard") PROVE Switching(o, e, y)
  BY <1>1, <1>2, <1>3, <1>5 DEF Follows, Switching, Kept, CopyOf, Turned
<1> USE DEF x, y, e
<1>6. Performs(To("discard"), reg, h)
  BY <1>1, <1>5, GoesOn DEF Going, Follows, Steps
<1>7. QED
  BY <1>4, <1>6

LEMMA RemoveTriedPerforms == ASSUME Loyal, RemoveTried PROVE Performs(op', reg', host')
<1> DEFINE a == op.app
           x == host[a]
           e == reg.items[a]
           h == SetCont(a, Nothing)
           y == h[a]
<1>1. op.step = "discard" /\ op.step \in Steps /\ op.kind = "runtime" /\ Inv
  BY DEF Loyal, RemoveTried, Steps, Inv, StepOK, Ready
<1>2. Switching(op, e, x)
  BY <1>1, InTold DEF Loyal, Going
<1>3. /\ y.cont = Nothing /\ y.prev = x.prev /\ y.ide = x.ide
      /\ y.gate = x.gate /\ y.volume = x.volume
  BY <1>1, InStep, Remakes DEF Remade
<1>4. PICK s \in {"run", "rollback"} :
          host' = h /\ reg' = reg /\ op' = [To(s) EXCEPT !.kind = "activate"]
  BY CallDone DEF Loyal, RemoveTried, Recreate
<1>5. op \in Operation
  BY <1>1, InStep
<1>6. /\ op'.app = a /\ op'.kind = "activate" /\ op'.step = s
      /\ op'.item = op.item /\ op'.old = op.old /\ op'.was = op.was
  BY <1>4, <1>5 DEF To, Operation
<1> HIDE DEF x, y, e
<1>7. Switching(op', e, y)
  BY <1>1, <1>2, <1>3, <1>4, <1>6 DEF Switching, Kept, CopyOf
<1>8. Going(op', e, y)
  BY <1>6, <1>7 DEF Going
<1>9. QED
  BY <1>4, <1>6, <1>8 DEF Performs, Ended, y, e

LEMMA RemoveNewPerforms == ASSUME Loyal, RemoveNew PROVE Performs(op', reg', host')
<1> DEFINE a == op.app
           x == host[a]
           e == reg.items[a]
           h == SetCont(a, Nothing)
           y == h[a]
<1>1. /\ op.step = "rollback" /\ op.step \in Steps /\ op.kind \in {"runtime", "activate"} /\ Inv
  BY DEF Loyal, RemoveNew, Steps, Inv, StepOK, Ready, Has
<1>2. Switching(op, e, x)
  BY <1>1, InTold DEF Loyal, Going
<1>3. /\ y.cont = Nothing /\ y.prev = x.prev /\ y.ide = x.ide
      /\ y.gate = x.gate /\ y.volume = x.volume
  BY <1>1, InStep, Remakes DEF Remade
<1>4. host' = h /\ reg' = reg /\ op' = To("restore")
  BY <1>1, CallDone DEF Loyal, RemoveNew, Recreate
<1> HIDE DEF x, y, e
<1>5. ASSUME NEW o, Follows(o, "restore") PROVE Switching(o, e, y)
  BY <1>1, <1>2, <1>3, <1>5 DEF Follows, Switching, Kept, CopyOf
<1> USE DEF x, y, e
<1>6. Performs(To("restore"), reg, h)
  BY <1>1, <1>5, GoesOn DEF Going, Follows, Steps
<1>7. QED
  BY <1>4, <1>6

LEMMA RenameBackPerforms == ASSUME Loyal, RenameBack PROVE Performs(op', reg', host')
<1> DEFINE a == op.app
           x == host[a]
           e == reg.items[a]
           h == TakeBack(a)
           y == h[a]
<1>1. op.step = "restore" /\ op.step \in Steps /\ op.kind \in {"runtime", "activate"} /\ Inv
  BY DEF Loyal, RenameBack, Steps, Inv, StepOK, Ready
<1>2. Switching(op, e, x)
  BY <1>1, InTold DEF Loyal, Going
<1>3. /\ y.cont = x.prev /\ y.prev = Nothing /\ y.ide = x.ide
      /\ y.gate = x.gate /\ y.volume = x.volume
  BY <1>1, InStep, Remakes DEF Remade
<1>4. ~Has(a)
  BY <1>1, <1>2 DEF Switching, Has
<1>5. host' = h /\ reg' = reg /\ op' = To("revive")
  BY <1>4, CallIfDone DEF Loyal, RenameBack
<1> HIDE DEF x, y, e
<1>6. ASSUME NEW o, Follows(o, "revive") PROVE Switching(o, e, y)
  BY <1>1, <1>2, <1>3, <1>6 DEF Follows, Switching, Kept, CopyOf
<1> USE DEF x, y, e
<1>7. Performs(To("revive"), reg, h)
  BY <1>1, <1>6, GoesOn DEF Going, Follows, Steps
<1>8. QED
  BY <1>5, <1>7

LEMMA RevivePerforms == ASSUME Loyal, Revive PROVE Performs(op', reg', host')
<1> DEFINE a == op.app
           x == host[a]
           e == reg.items[a]
           r == Register(a, op.old)
           h == WithCont(a, TRUE)
           y == h[a]
<1>1. /\ op.step = "revive" /\ op.step \in Steps /\ op.kind \in {"runtime", "activate"} /\ Inv
      /\ Has(a) /\ x.cont # Nothing /\ op.was \in BOOLEAN
  BY InStep DEF Loyal, Revive, Steps, Inv, StepOK, Ready, Has
<1>2. Switching(op, e, x)
  BY <1>1, InTold DEF Loyal, Going
<1>3. Turned(y, x, TRUE)
  BY <1>1, WithContTurns
<1>4. a \in DOMAIN r.items /\ r.items[a] = op.old
  BY <1>1, InStep, Entered
<1>5. Startable(a, x.cont)
  <2>1. /\ ~x.cont.running /\ x.gate = 0 /\ ~x.cont.proxied /\ x.cont.port = op.item.port
        /\ x.ide # Nothing => x.ide.port = e.ide_port
    <3>1. x.cont.port = op.item.port
      BY <1>1, <1>2, InTold DEF Loyal, Switching, CopyOf
    <3> HIDE DEF x, e
    <3>2. QED
      BY <1>1, <1>2, <3>1 DEF Switching, Kept, CopyOf
  <2>2. ~Busy(op.item.port)
    BY <1>1, <2>1, PortFree
  <2>3. QED
    BY <2>1, <2>2 DEF Startable
<1>6. reg' = r /\ op' = Ended /\ (IF op.was THEN host' = h ELSE host' = host)
  <2>1. CASE op.was
    <3>1. CallIf(Startable(a, x.cont), h, r, Ended, Ended)
      BY <2>1 DEF Revive
    <3>2. QED
      BY <1>5, <2>1, <3>1, CallIfDone DEF Loyal
  <2>2. CASE ~op.was
    BY <2>2 DEF Revive, Go
  <2>3. QED
    BY <2>1, <2>2
<1> HIDE DEF x, y, e
<1>7. AsRegistered(x, op.old) /\ AsRegistered(y, op.old)
  BY <1>1, <1>2, <1>3 DEF Switching, AsRegistered, Single, Kept, CopyOf, Turned
<1>8. y.cont # Nothing /\ y.cont.running /\ ~x.cont.running
  BY <1>1, <1>2, <1>3 DEF Switching, Turned
<1> USE DEF x, y, e
<1>9. CASE op.was
  <2>1. Performs(Ended, r, h)
    BY <1>4, <1>7, <1>8, <1>9, EndsAsRegistered
  <2>2. QED
    BY <1>6, <1>9, <2>1
<1>10. CASE ~op.was
  <2>1. Performs(Ended, r, host)
    BY <1>1, <1>4, <1>7, <1>8, <1>10, EndsAsRegistered
  <2>2. QED
    BY <1>6, <1>10, <2>1
<1>11. QED
  BY <1>9, <1>10

LEMMA SettlePerforms == ASSUME Loyal, Settle PROVE Performs(op', reg', host')
<1> DEFINE a == op.app
           x == host[a]
           e == reg.items[a]
           h == WithCont(a, FALSE)
           y == h[a]
<1>1. /\ op.step = "settle" /\ op.step \in Steps /\ op.kind \in {"runtime", "activate"} /\ Inv
      /\ Has(a) /\ x.cont # Nothing
  BY DEF Loyal, Settle, Steps, Inv, StepOK, Ready, Has
<1>2. Switching(op, e, x)
  BY <1>1, InTold DEF Loyal, Going
<1>3. Turned(y, x, FALSE)
  BY <1>1, WithContTurns
<1>4. reg' = reg /\ op' = To("drop") /\ (IF op.was THEN host' = host ELSE host' = h)
  BY CallDone DEF Loyal, Settle, Go
<1> HIDE DEF x, y, e
<1>5. ASSUME NEW o, Follows(o, "drop"), op.was PROVE Switching(o, e, x)
  BY <1>1, <1>2, <1>5 DEF Follows, Switching, Kept, CopyOf
<1>6. ASSUME NEW o, Follows(o, "drop"), ~op.was PROVE Switching(o, e, y)
  BY <1>1, <1>2, <1>3, <1>6 DEF Follows, Switching, Kept, CopyOf, Turned
<1> USE DEF x, y, e
<1>7. op.was => Performs(To("drop"), reg, host)
  BY <1>1, <1>5, GoesOn DEF Going, Follows, Steps
<1>8. ~op.was => Performs(To("drop"), reg, h)
  BY <1>1, <1>6, GoesOn DEF Going, Follows, Steps
<1>9. QED
  BY <1>4, <1>7, <1>8

LEMMA DropPreviousPerforms == ASSUME Loyal, DropPrevious PROVE Performs(op', reg', host')
<1> DEFINE a == op.app
           x == host[a]
           e == reg.items[a]
           h == SetPrev(a, Nothing)
           y == h[a]
<1>1. /\ op.step = "drop" /\ op.step \in Steps /\ op.kind \in {"runtime", "activate"} /\ Inv
      /\ x.cont # Nothing
  BY DEF Loyal, DropPrevious, Steps, Inv, StepOK, Ready
<1>2. Switching(op, e, x) /\ a \in DOMAIN reg.items
  BY <1>1, InTold DEF Loyal, Going
<1>3. /\ y.cont = x.cont /\ y.prev = Nothing /\ y.ide = x.ide
      /\ y.gate = x.gate /\ y.volume = x.volume
  BY <1>1, InStep, Remakes DEF Remade
<1>4. host' = h /\ reg' = reg /\ op' = Ended
  BY CallDone DEF Loyal, DropPrevious
<1> HIDE DEF x, y, e
<1>5. AsRegistered(y, e) /\ y.cont # Nothing /\ (y.cont.running <=> op.was)
  BY <1>1, <1>2, <1>3 DEF Switching, AsRegistered, Single, Kept, CopyOf
<1>6. Performs(Ended, reg, h)
  BY <1>2, <1>5, EndsAsRegistered DEF y, e
<1>7. QED
  BY <1>4, <1>6

LEMMA RemoveContainerPerforms == ASSUME Loyal, RemoveContainer PROVE Performs(op', reg', host')
<1> DEFINE a == op.app
           x == host[a]
           e == reg.items[a]
           h == SetCont(a, Nothing)
           y == h[a]
<1>1. /\ op.step = "remove" /\ op.step \in Steps /\ op.kind \in {"egress", "delete"} /\ Inv
  BY DEF Loyal, RemoveContainer, Steps, Inv, StepOK, Ready, Has
<1>2. /\ y.cont = Nothing /\ y.prev = x.prev /\ y.ide = x.ide
      /\ y.gate = x.gate /\ y.volume = x.volume
  BY <1>1, InStep, Remakes DEF Remade
<1>3. host' = h /\ reg' = reg /\ op' = To("cleanup")
  BY CallDone DEF Loyal, RemoveContainer
<1>4. /\ op.kind = "egress" => Proxying(op, e, x)
      /\ op.kind = "delete" => Removing(op, e, x)
  BY <1>1, InTold DEF Loyal, Going
<1> HIDE DEF x, y, e
<1>5. ASSUME NEW o, Follows(o, "cleanup"), op.kind = "egress" PROVE Proxying(o, e, y)
  BY <1>1, <1>2, <1>4, <1>5
     DEF Follows, Proxying, AsRegistered, Single, Kept, CopyOf
<1>6. ASSUME NEW o, Follows(o, "cleanup"), op.kind = "delete" PROVE Removing(o, e, y)
  BY <1>1, <1>2, <1>4, <1>6
     DEF Follows, Removing, AsRegistered, Single, Kept, CopyOf
<1> USE DEF x, y, e
<1>7. Performs(To("cleanup"), reg, h)
  BY <1>1, <1>5, <1>6, GoesOn DEF Going, Follows, Steps
<1>8. QED
  BY <1>3, <1>7

LEMMA RemoveGatewayPerforms == ASSUME Loyal, RemoveGateway PROVE Performs(op', reg', host')
<1> DEFINE a == op.app
           x == host[a]
           e == reg.items[a]
           h == SetGate(a, 0)
           y == h[a]
<1>1. /\ op.step = "cleanup" /\ op.step \in Steps /\ op.kind \in {"egress", "delete"} /\ Inv
      /\ x.cont = Nothing
  BY DEF Loyal, RemoveGateway, Steps, Inv, StepOK, Ready, Has
<1>2. /\ y.cont = x.cont /\ y.prev = x.prev /\ y.ide = x.ide
      /\ y.gate = 0 /\ y.volume = x.volume
  <2>1. 0 \in Nat
    OBVIOUS
  <2>2. Remade(h, a, x.cont, x.prev, x.ide, 0, x.volume)
    BY <1>1, <2>1, InStep, Remakes
  <2> HIDE DEF h
  <2>3. QED
    BY <2>2 DEF Remade
<1>3. CASE op.kind = "delete"
  <2>1. host' = h /\ reg' = Forget(a) /\ op' = Ended
    BY <1>3 DEF Loyal, RemoveGateway
  <2>2. a \notin DOMAIN Forget(a).items
    BY <1>1, InStep, ForgetType
  <2>3. Removing(op, e, x)
    BY <1>1, <1>3, InTold DEF Loyal, Going
  <2>4. Gone(y)
    <3> HIDE DEF x, y, e
    <3>1. QED
      BY <1>1, <1>2, <2>3 DEF Removing, AsRegistered, Single, Gone
  <2>5. QED
    BY <1>3, <2>1, <2>2, <2>4 DEF Performs, Rests
<1>4. CASE op.kind = "egress"
  <2>1. /\ host' = h /\ reg' = reg
        /\ op' = Ended \/ op' = To(IF op.item.proxied THEN "gateway" ELSE "run")
    BY <1>4, CallDone DEF Loyal, RemoveGateway, Recreate
  <2>2. Proxying(op, e, x) /\ a \in DOMAIN reg.items
    BY <1>1, <1>4, InTold DEF Loyal, Going
  <2> HIDE DEF x, y, e
  <2>3. AsRegistered(y, e)
    BY <1>1, <1>2, <2>2 DEF Proxying, AsRegistered, Single, Kept
  <2>4. ASSUME NEW o, Follows(o, "gateway"), op.item.proxied PROVE Proxying(o, e, y)
    BY <1>1, <1>2, <2>2, <2>3, <2>4 DEF Follows, Proxying
  <2>5. ASSUME NEW o, Follows(o, "run"), ~op.item.proxied PROVE Proxying(o, e, y)
    BY <1>1, <1>2, <2>2, <2>3, <2>5 DEF Follows, Proxying
  <2> USE DEF x, y, e
  <2>6. Performs(Ended, reg, h)
    BY <1>4, <2>2, <2>3, EndsAsRegistered
  <2>7. op.item.proxied => Performs(To("gateway"), reg, h)
    BY <1>1, <1>4, <2>4, GoesOn DEF Going, Follows, Steps
  <2>8. ~op.item.proxied => Performs(To("run"), reg, h)
    BY <1>1, <1>4, <2>5, GoesOn DEF Going, Follows, Steps
  <2>9. QED
    BY <2>1, <2>6, <2>7, <2>8
<1>5. QED
  BY <1>1, <1>3, <1>4

LEMMA RunGatewayPerforms == ASSUME Loyal, RunGateway PROVE Performs(op', reg', host')
<1> DEFINE a == op.app
           x == host[a]
           e == reg.items[a]
           h == SetGate(a, op.item.port)
           y == h[a]
<1>1. /\ op.step = "gateway" /\ op.step \in Steps /\ op.kind = "egress" /\ Inv
  BY DEF Loyal, RunGateway, Steps, Inv, StepOK, Ready, Has
<1>2. Proxying(op, e, x) /\ a \in DOMAIN reg.items
  BY <1>1, InTold DEF Loyal, Going
<1>3. op.item.port \in Nat /\ op.item.port # 0
  BY <1>1, InStep, InTold DEF Loyal, Item
<1>4. /\ y.cont = x.cont /\ y.prev = x.prev /\ y.ide = x.ide
      /\ y.gate = op.item.port /\ y.volume = x.volume
  BY <1>1, <1>3, InStep, Remakes DEF Remade
<1>5. \/ host' = h /\ reg' = reg /\ op' = To("ready")
      \/ host' = host /\ reg' = reg /\ op' = Ended
  <2> DEFINE able == host[a].gate = 0 /\ ~Busy(op.item.port)
  <2>1. CallIf(able, h, reg, To("ready"), Ended)
    BY DEF RunGateway
  <2> HIDE DEF able, h
  <2>2. QED
    BY <2>1, CallIfDone DEF Loyal
<1> HIDE DEF x, y, e
<1>6. ASSUME NEW o, Follows(o, "ready") PROVE Proxying(o, e, y)
  BY <1>1, <1>2, <1>3, <1>4, <1>6 DEF Follows, Proxying, AsRegistered, Single, Kept
<1>7. AsRegistered(x, e)
  BY <1>2 DEF Proxying
<1> USE DEF x, y, e
<1>8. Performs(To("ready"), reg, h)
  BY <1>1, <1>6, GoesOn DEF Going, Follows, Steps
<1>9. Performs(Ended, reg, host)
  BY <1>1, <1>2, <1>7, EndsAsRegistered
<1>10. QED
  BY <1>5, <1>8, <1>9

LEMMA AwaitGatewayPerforms == ASSUME Loyal, AwaitGateway PROVE Performs(op', reg', host')
<1> DEFINE a == op.app
           x == host[a]
           e == reg.items[a]
<1>1. /\ op.step = "ready" /\ op.step \in Steps /\ op.kind = "egress" /\ Inv
  BY DEF Loyal, AwaitGateway, Steps, Inv, StepOK, Ready, Has
<1>2. Proxying(op, e, x) /\ a \in DOMAIN reg.items
  BY <1>1, InTold DEF Loyal, Going
<1>3. host' = host /\ reg' = reg /\ op' \in {To("run"), Ended}
  BY DEF AwaitGateway, Go
<1> HIDE DEF x, e
<1>4. ASSUME NEW o, Follows(o, "run") PROVE Proxying(o, e, x)
  BY <1>1, <1>2, <1>4 DEF Follows, Proxying
<1>5. AsRegistered(x, e)
  BY <1>2 DEF Proxying
<1> USE DEF x, e
<1>6. Performs(To("run"), reg, host)
  BY <1>1, <1>4, GoesOn DEF Going, Follows, Steps
<1>7. Performs(Ended, reg, host)
  BY <1>1, <1>2, <1>5, EndsAsRegistered
<1>8. QED
  BY <1>3, <1>6, <1>7

LEMMA TakeIdePortPerforms == ASSUME Loyal, TakeIdePort PROVE Performs(op', reg', host')
<1> DEFINE a == op.app
           x == host[a]
           e == reg.items[a]
           port == IF op.item.ide_port = 0 THEN reg.ports + 1 ELSE op.item.ide_port
           next == [op EXCEPT !.item.ide_port = port, !.step = "ide_clear"]
<1>1. op.step = "ide_port" /\ op.step \in Steps /\ op.kind = "ide_on" /\ Inv
  BY DEF Loyal, TakeIdePort, Steps, Inv, StepOK, Ready
<1>2. Enabling(op, e, x) /\ a \in DOMAIN reg.items
  BY <1>1, InTold DEF Loyal, Going
<1>3. op \in Operation /\ host' = host /\ reg'.items = reg.items /\ op' \in {next, Ended}
  BY <1>1, InStep DEF TakeIdePort, Go, IsRegistry
<1>4. /\ next.app = a /\ next.kind = "ide_on" /\ next.step = "ide_clear"
      /\ next.item.version = op.item.version /\ next.item.memory = op.item.memory
      /\ next.item.disk = op.item.disk /\ next.item.proxied = op.item.proxied
      /\ next.item.port = op.item.port /\ next.item.ide_enabled = op.item.ide_enabled
  BY <1>1, <1>3 DEF Operation, Item
<1> HIDE DEF x, e, next
<1>5. Enabling(next, e, x)
  BY <1>1, <1>2, <1>4 DEF Enabling
<1>6. AsRegistered(x, e)
  BY <1>1, <1>2 DEF Enabling, AsRegistered
<1>7. next # Ended
  BY <1>4 DEF Ended
<1>8. Performs(next, reg', host')
  BY <1>3, <1>4, <1>5, <1>7 DEF Performs, Going, x, e
<1>9. Performs(Ended, reg', host')
  BY <1>1, <1>2, <1>3, <1>6, EndsAsRegistered DEF x, e
<1>10. QED
  BY <1>3, <1>8, <1>9

LEMMA ClearIdePerforms == ASSUME Loyal, ClearIde PROVE Performs(op', reg', host')
<1> DEFINE a == op.app
           x == host[a]
           e == reg.items[a]
           h == SetIde(a, Nothing)
           y == h[a]
<1>1. /\ op.step = "ide_clear" /\ op.step \in Steps /\ op.kind = "ide_on" /\ Inv
  BY DEF Loyal, ClearIde, Steps, Inv, StepOK, Ready, Has
<1>2. Enabling(op, e, x)
  BY <1>1, InTold DEF Loyal, Going
<1>3. /\ y.cont = x.cont /\ y.prev = x.prev /\ y.ide = Nothing
      /\ y.gate = x.gate /\ y.volume = x.volume
  BY <1>1, InStep, Remakes DEF Remade
<1>4. host' = h /\ reg' = reg /\ op' = To("ide_run")
  BY <1>1, CallDone DEF Loyal, ClearIde, Recreate
<1> HIDE DEF x, y, e
<1>5. ASSUME NEW o, Follows(o, "ide_run") PROVE Enabling(o, e, y)
  BY <1>1, <1>2, <1>3, <1>5 DEF Follows, Enabling, Single, Kept, CopyOf
<1> USE DEF x, y, e
<1>6. Performs(To("ide_run"), reg, h)
  BY <1>1, <1>5, GoesOn DEF Going, Follows, Steps
<1>7. QED
  BY <1>4, <1>6

LEMMA RunIdePerforms == ASSUME Loyal, RunIde PROVE Performs(op', reg', host')
<1> DEFINE a == op.app
           x == host[a]
           e == reg.items[a]
           ide == [port |-> op.item.ide_port, running |-> TRUE]
           h == SetIde(a, ide)
           y == h[a]
<1>1. op.step = "ide_run" /\ op.step \in Steps /\ op.kind = "ide_on" /\ Inv /\ PortsKept
  BY DEF Loyal, RunIde, Steps, Inv, StepOK, Ready
<1>2. Enabling(op, e, x) /\ a \in DOMAIN reg.items
  BY <1>1, InTold DEF Loyal, Going
<1>3. ide \in IdeContainer /\ ide # Nothing /\ op.item.ide_port # 0
  <2>1. op.item.ide_port \in Nat
    BY <1>1, InStep DEF Item
  <2>2. ide \in IdeContainer
    BY <2>1 DEF IdeContainer
  <2>3. QED
    BY <1>1, <2>2, InPorts, ConstantsAssumption DEF Carries
<1>4. /\ y.cont = x.cont /\ y.prev = x.prev /\ y.ide = ide
      /\ y.gate = x.gate /\ y.volume = x.volume
  BY <1>1, <1>3, InStep, Remakes DEF Remade
<1>5. x.ide = Nothing
  BY <1>1, <1>2 DEF Enabling
<1>6. ~Busy(op.item.ide_port)
  BY <1>1, <1>3, <1>5, IdePortFree
<1>7. Call(h, reg, To("ide_ready"), Ended)
  BY <1>5, <1>6 DEF RunIde, Run
<1>8. host' = h /\ reg' = reg /\ op' = To("ide_ready")
  BY <1>7, CallDone DEF Loyal
<1>9. y.ide # Nothing /\ y.ide.port = op.item.ide_port /\ y.ide.running
  BY <1>3, <1>4
<1> HIDE DEF x, y, e, ide
<1>10. ASSUME NEW o, Follows(o, "ide_ready") PROVE Enabling(o, e, y)
  BY <1>1, <1>2, <1>4, <1>9, <1>10 DEF Follows, Enabling, Single, Kept
<1> USE DEF x, y, e
<1>11. Performs(To("ide_ready"), reg, h)
  BY <1>1, <1>10, GoesOn DEF Going, Follows, Steps
<1>12. QED
  BY <1>8, <1>11

LEMMA AwaitIdePerforms == ASSUME Loyal, AwaitIde PROVE Performs(op', reg', host')
<1> DEFINE a == op.app
           x == host[a]
           e == reg.items[a]
           h == SetIde(a, Nothing)
           y == h[a]
<1>1. /\ op.step = "ide_ready" /\ op.step \in Steps /\ op.kind = "ide_on" /\ Inv
  BY DEF Loyal, AwaitIde, Steps, Inv, StepOK, Ready, Has
<1>2. Enabling(op, e, x) /\ a \in DOMAIN reg.items
  BY <1>1, InTold DEF Loyal, Going
<1> DEFINE r == Register(a, op.item)
<1>3. /\ y.cont = x.cont /\ y.prev = x.prev /\ y.ide = Nothing
      /\ y.gate = x.gate /\ y.volume = x.volume
  BY <1>1, InStep, Remakes DEF Remade
<1>4. a \in DOMAIN r.items /\ r.items[a] = op.item
  BY <1>1, InStep, Entered
<1>5. op' = Ended /\ ((host' = host /\ reg' = r) \/ (host' = h /\ reg' = reg))
  BY CallDone DEF Loyal, AwaitIde, Go
<1> HIDE DEF x, y, e
<1>6. AsRegistered(x, op.item)
  BY <1>1, <1>2 DEF Enabling, AsRegistered, Single, Kept, CopyOf
<1>7. AsRegistered(y, e)
  BY <1>1, <1>2, <1>3 DEF Enabling, AsRegistered, Single, Kept
<1> USE DEF x, y, e
<1>8. Performs(Ended, r, host)
  BY <1>1, <1>4, <1>6, EndsAsRegistered
<1>9. Performs(Ended, reg, h)
  BY <1>1, <1>2, <1>7, EndsAsRegistered
<1>10. QED
  BY <1>5, <1>8, <1>9

LEMMA RemoveIdePerforms == ASSUME Loyal, RemoveIde PROVE Performs(op', reg', host')
<1> DEFINE a == op.app
           x == host[a]
           e == reg.items[a]
           h == SetIde(a, Nothing)
           y == h[a]
<1>1. /\ op.step = "ide_remove" /\ op.step \in Steps /\ op.kind \in {"ide_off", "delete"} /\ Inv
  BY DEF Loyal, RemoveIde, Steps, Inv, StepOK, Ready, Has
<1>2. Removing(op, e, x) /\ a \in DOMAIN reg.items
  BY <1>1, InTold DEF Loyal, Going
<1>3. /\ y.cont = x.cont /\ y.prev = x.prev /\ y.ide = Nothing
      /\ y.gate = x.gate /\ y.volume = x.volume
  BY <1>1, InStep, Remakes DEF Remade
<1>4. host' = h /\ reg' = reg /\ op' = To("ide_reload")
  BY CallDone DEF Loyal, RemoveIde
<1> HIDE DEF x, y, e
<1>5. ASSUME NEW o, Follows(o, "ide_reload") PROVE Removing(o, e, y)
  BY <1>1, <1>2, <1>3, <1>5 DEF Follows, Removing, AsRegistered, Single, Kept
<1> USE DEF x, y, e
<1>6. Performs(To("ide_reload"), reg, h)
  BY <1>1, <1>5, GoesOn DEF Going, Follows, Steps
<1>7. QED
  BY <1>4, <1>6

LEMMA UnregisterIdePerforms == ASSUME Loyal, UnregisterIde PROVE Performs(op', reg', host')
<1> DEFINE a == op.app
           x == host[a]
           e == reg.items[a]
<1>1. /\ op.step = "ide_reload" /\ op.step \in Steps /\ op.kind \in {"ide_off", "delete"} /\ Inv
  BY DEF Loyal, UnregisterIde, Steps, Inv, StepOK, Ready, Has
<1>2. Removing(op, e, x) /\ a \in DOMAIN reg.items
  BY <1>1, InTold DEF Loyal, Going
<1> DEFINE r == Register(a, op.item)
<1>3. a \in DOMAIN r.items /\ r.items[a] = op.item
  BY <1>1, InStep, Entered
<1>4. /\ host' = host /\ reg' = r
      /\ op' = IF op.kind = "delete" THEN To("remove") ELSE Ended
  BY DEF Loyal, UnregisterIde, Go
<1> HIDE DEF x, e
<1>5. AsRegistered(x, op.item) /\ x.ide = Nothing /\ ~op.item.ide_enabled
  BY <1>1, <1>2 DEF Removing, AsRegistered, Single, Kept, CopyOf
<1>6. ASSUME NEW o, Follows(o, "remove") PROVE Removing(o, op.item, x)
  BY <1>5, <1>6 DEF Follows, Removing
<1> USE DEF x, e
<1> HIDE DEF r
<1>7. op.kind = "delete" => Performs(To("remove"), r, host)
  BY <1>1, <1>3, <1>6, GoesOn DEF Going, Follows, Steps
<1>8. Performs(Ended, r, host)
  BY <1>1, <1>3, <1>5, EndsAsRegistered
<1>9. QED
  BY <1>4, <1>7, <1>8

LEMMA QuietAppPerforms == ASSUME Loyal, QuietApp PROVE Performs(op', reg', host')
<1> DEFINE a == op.app
           x == host[a]
           e == reg.items[a]
           h == WithCont(a, FALSE)
           y == h[a]
<1>1. /\ op.step = "stop" /\ op.step \in Steps /\ op.kind = "limits" /\ Inv /\ Has(a)
      /\ x.cont # Nothing
  BY DEF Loyal, QuietApp, Steps, Inv, StepOK, Ready, Has
<1>2. Resizing(op, e, x)
  BY <1>1, InTold DEF Loyal, Going
<1>3. Turned(y, x, FALSE)
  BY <1>1, WithContTurns
<1>4. host' = h /\ reg' = reg /\ op' \in {To("stop_ide"), To("grow")}
  BY <1>1, CallDone DEF Loyal, QuietApp, Recreate
<1> HIDE DEF x, y, e
<1>5. ASSUME NEW o, Follows(o, "stop_ide") PROVE Resizing(o, e, y)
  BY <1>1, <1>2, <1>3, <1>5 DEF Follows, Resizing, Single, Kept, CopyOf, Turned
<1>6. ASSUME NEW o, Follows(o, "grow") PROVE Resizing(o, e, y)
  BY <1>1, <1>2, <1>3, <1>6 DEF Follows, Resizing, Single, Kept, CopyOf, Turned
<1> USE DEF x, y, e
<1>7. Performs(To("stop_ide"), reg, h)
  BY <1>1, <1>5, GoesOn DEF Going, Follows, Steps
<1>8. Performs(To("grow"), reg, h)
  BY <1>1, <1>6, GoesOn DEF Going, Follows, Steps
<1>9. QED
  BY <1>4, <1>7, <1>8

LEMMA QuietIdePerforms == ASSUME Loyal, QuietIde PROVE Performs(op', reg', host')
<1> DEFINE a == op.app
           x == host[a]
           e == reg.items[a]
<1>1. /\ op.step = "stop_ide" /\ op.step \in Steps /\ op.kind = "limits" /\ Inv
  BY DEF Loyal, QuietIde, Steps, Inv, StepOK, Ready, Has
<1>2. Resizing(op, e, x) /\ a \in DOMAIN reg.items
  BY <1>1, InTold DEF Loyal, Going
<1> DEFINE ide == [x.ide EXCEPT !.running = FALSE]
           h == SetIde(a, ide)
           y == h[a]
<1>3. CASE x.ide = Nothing
  <2>1. host' = host /\ reg' = reg /\ op' = To("resume")
    BY <1>3 DEF QuietIde, Go
  <2> HIDE DEF x, e
  <2>2. ASSUME NEW o, Follows(o, "resume") PROVE Resizing(o, e, x)
    BY <1>1, <1>2, <2>2 DEF Follows, Resizing
  <2> USE DEF x, e
  <2>3. Performs(To("resume"), reg, host)
    BY <1>1, <2>2, GoesOn DEF Going, Follows, Steps
  <2>4. QED
    BY <2>1, <2>3
<1>4. CASE x.ide # Nothing
  <2>1. host' = h /\ reg' = reg /\ op' = To("grow")
    <3>1. Call(h, reg, To("grow"), To("resume"))
      BY <1>4 DEF QuietIde
    <3> HIDE DEF h
    <3>2. QED
      BY <3>1, CallDone DEF Loyal
  <2>2. ide \in IdeContainer /\ ide.port = x.ide.port
    BY <1>1, <1>4, InStep DEF Host, IdeContainer
  <2> HIDE DEF ide
  <2>3. /\ y.cont = x.cont /\ y.prev = x.prev /\ y.ide = ide
        /\ y.gate = x.gate /\ y.volume = x.volume
    BY <1>1, <2>2, InStep, Remakes DEF Remade
  <2> HIDE DEF x, y, e, ide
  <2>4. Single(y, e) /\ Kept(y, e, TRUE)
    BY <1>1, <1>2, <1>4, <2>2, <2>3 DEF Resizing, Single, Kept
  <2>5. ASSUME NEW o, Follows(o, "grow") PROVE Resizing(o, e, y)
    BY <1>1, <1>2, <2>4, <2>5 DEF Follows, Resizing
  <2> USE DEF x, y, e
  <2>6. Performs(To("grow"), reg, h)
    BY <1>1, <2>5, GoesOn DEF Going, Follows, Steps
  <2>7. QED
    BY <2>1, <2>6
<1>5. QED
  BY <1>3, <1>4

LEMMA GrowVolumePerforms == ASSUME Loyal, GrowVolume PROVE Performs(op', reg', host')
<1> DEFINE a == op.app
           x == host[a]
           e == reg.items[a]
           h == SetVolume(a, op.item.disk)
           y == h[a]
<1>1. /\ op.step = "grow" /\ op.step \in Steps /\ op.kind = "limits" /\ Inv
      /\ Has(a) /\ x.cont # Nothing
  BY DEF Loyal, GrowVolume, Steps, Inv, StepOK, Ready, Has
<1>2. Resizing(op, e, x) /\ a \in DOMAIN reg.items
  BY <1>1, InTold DEF Loyal, Going
<1> DEFINE item == [op.old EXCEPT !.disk = op.item.disk]
           r == Register(a, item)
<1>3. /\ item \in Item /\ item.version = op.old.version /\ item.memory = op.old.memory
      /\ item.disk = op.item.disk /\ item.port = op.old.port /\ item.proxied = op.old.proxied
      /\ item.ide_enabled = op.old.ide_enabled /\ item.ide_port = op.old.ide_port
      /\ op.item.disk \in Nat
  BY <1>1, InStep DEF Item
<1> HIDE DEF item
<1>4. a \in DOMAIN r.items /\ r.items[a] = item
  BY <1>1, <1>3, Entered
<1>5. /\ y.cont = x.cont /\ y.prev = x.prev /\ y.ide = x.ide
      /\ y.gate = x.gate /\ y.volume = op.item.disk
  BY <1>1, <1>3, InStep, Remakes DEF Remade
<1>6. \/ host' = h /\ reg' = r /\ op' = To("start")
      \/ host' = host /\ reg' = reg /\ op' = To("resume")
  <2> DEFINE able == op.item.disk >= host[a].volume
  <2>1. CallIf(able, h, r, To("start"), To("resume"))
    BY DEF GrowVolume, item
  <2> HIDE DEF able, h, r
  <2>2. QED
    BY <2>1, CallIfDone DEF Loyal
<1> HIDE DEF x, y, e
<1>7. Single(y, item) /\ Kept(y, item, TRUE)
  BY <1>1, <1>2, <1>3, <1>5 DEF Resizing, Single, Kept, CopyOf
<1>8. ASSUME NEW o, Follows(o, "start") PROVE Resizing(o, item, y)
  BY <1>1, <1>2, <1>3, <1>7, <1>8 DEF Follows, Resizing
<1>9. ASSUME NEW o, Follows(o, "resume") PROVE Resizing(o, e, x)
  BY <1>1, <1>2, <1>9 DEF Follows, Resizing
<1> USE DEF x, y, e
<1> HIDE DEF r
<1>10. Performs(To("start"), r, h)
  BY <1>1, <1>4, <1>8, GoesOn DEF Going, Follows, Steps
<1>11. Performs(To("resume"), reg, host)
  BY <1>1, <1>9, GoesOn DEF Going, Follows, Steps
<1>12. QED
  BY <1>6, <1>10, <1>11

LEMMA StartResizedPerforms == ASSUME Loyal, StartResized PROVE Performs(op', reg', host')
<1> DEFINE a == op.app
           x == host[a]
           e == reg.items[a]
           h == WithCont(a, TRUE)
           y == h[a]
<1>1. /\ op.step = "start" /\ op.step \in Steps /\ op.kind = "limits" /\ Inv
      /\ Has(a) /\ x.cont # Nothing
  BY DEF Loyal, StartResized, Steps, Inv, StepOK, Ready, Has
<1>2. Resizing(op, e, x) /\ a \in DOMAIN reg.items
  BY <1>1, InTold DEF Loyal, Going
<1>3. Turned(y, x, TRUE)
  BY <1>1, WithContTurns
<1>4. \/ host' = h /\ reg' = reg /\ op' = To("update")
      \/ host' = host /\ reg' = reg /\ op' = To("resume")
  <2>1. CallIf(Startable(a, x.cont), h, reg, To("update"), To("resume"))
    BY DEF StartResized
  <2> HIDE DEF h
  <2>2. QED
    BY <2>1, CallIfDone DEF Loyal
<1> HIDE DEF x, y, e
<1>5. Single(y, e) /\ Kept(y, e, TRUE)
  BY <1>1, <1>2, <1>3 DEF Resizing, Single, Kept, CopyOf, Turned
<1>6. ASSUME NEW o, Follows(o, "update") PROVE Resizing(o, e, y)
  BY <1>1, <1>2, <1>5, <1>6 DEF Follows, Resizing
<1>7. ASSUME NEW o, Follows(o, "resume") PROVE Resizing(o, e, x)
  BY <1>1, <1>2, <1>7 DEF Follows, Resizing
<1> USE DEF x, y, e
<1>8. Performs(To("update"), reg, h)
  BY <1>1, <1>6, GoesOn DEF Going, Follows, Steps
<1>9. Performs(To("resume"), reg, host)
  BY <1>1, <1>7, GoesOn DEF Going, Follows, Steps
<1>10. QED
  BY <1>4, <1>8, <1>9

LEMMA UpdateContainerPerforms ==
    ASSUME Loyal, UpdateContainer PROVE Performs(op', reg', host')
<1> DEFINE a == op.app
           x == host[a]
           e == reg.items[a]
           r == Register(a, op.item)
           c == [x.cont EXCEPT !.memory = op.item.memory]
           h == SetCont(a, c)
           y == h[a]
<1>1. /\ op.step = "update" /\ op.step \in Steps /\ op.kind = "limits" /\ Inv
      /\ x.cont # Nothing
  BY DEF Loyal, UpdateContainer, Steps, Inv, StepOK, Ready
<1>2. Resizing(op, e, x)
  BY <1>1, InTold DEF Loyal, Going
<1>3. /\ c \in AppContainer /\ c.memory = op.item.memory /\ c.version = x.cont.version
      /\ c.port = x.cont.port /\ c.proxied = x.cont.proxied
  BY <1>1, InStep DEF Host, AppContainer, Item
<1>4. c # Nothing
  BY <1>3, ConstantsAssumption
<1>5. a \in DOMAIN r.items /\ r.items[a] = op.item
  BY <1>1, InStep, Entered
<1> HIDE DEF c
<1>6. /\ y.cont = c /\ y.prev = x.prev /\ y.ide = x.ide
      /\ y.gate = x.gate /\ y.volume = x.volume
  BY <1>1, <1>3, InStep, Remakes DEF Remade
<1>7. host' = h /\ reg' = r /\ op' = To("resume")
  <2>1. Call(h, r, To("resume"), To("resume"))
    BY DEF UpdateContainer, c
  <2> HIDE DEF h, r
  <2>2. QED
    BY <2>1, CallDone DEF Loyal
<1> HIDE DEF x, y, e
<1>8. Single(y, op.item) /\ Kept(y, op.item, TRUE)
  BY <1>1, <1>2, <1>3, <1>4, <1>6 DEF Resizing, Single, Kept, CopyOf
<1>9. ASSUME NEW o, Follows(o, "resume") PROVE Resizing(o, op.item, y)
  BY <1>1, <1>2, <1>8, <1>9 DEF Follows, Resizing
<1> USE DEF x, y, e
<1> HIDE DEF r
<1>10. Performs(To("resume"), r, h)
  BY <1>1, <1>5, <1>9, GoesOn DEF Going, Follows, Steps
<1>11. QED
  BY <1>7, <1>10

LEMMA ResumeAppPerforms == ASSUME Loyal, ResumeApp PROVE Performs(op', reg', host')
<1> DEFINE a == op.app
           x == host[a]
           e == reg.items[a]
           h == WithCont(a, TRUE)
           y == h[a]
<1>1. /\ op.step = "resume" /\ op.step \in Steps /\ op.kind = "limits" /\ Inv
      /\ Has(a) /\ x.cont # Nothing
  BY DEF Loyal, ResumeApp, Steps, Inv, StepOK, Ready, Has
<1>2. Resizing(op, e, x) /\ a \in DOMAIN reg.items
  BY <1>1, InTold DEF Loyal, Going
<1>3. Turned(y, x, TRUE)
  BY <1>1, WithContTurns
<1>4. /\ host' \in {host, h} /\ reg' = reg
      /\ op' = IF op.item.ide_enabled THEN To("resume_ide") ELSE Ended
  <2> DEFINE next == IF op.item.ide_enabled THEN To("resume_ide") ELSE Ended
  <2>1. CallIf(Startable(a, x.cont), h, reg, next, next)
    BY DEF ResumeApp
  <2> HIDE DEF h, next
  <2>2. host' \in {host, h} /\ reg' = reg /\ op' = next
    BY <2>1, CallIfDone DEF Loyal
  <2>3. QED
    BY <2>2 DEF next
<1> HIDE DEF x, y, e
<1>5. Single(x, e) /\ Kept(x, e, TRUE) /\ Single(y, e) /\ Kept(y, e, TRUE)
  BY <1>1, <1>2, <1>3 DEF Resizing, Single, Kept, CopyOf, Turned
<1>6. ~op.item.ide_enabled => AsRegistered(x, e) /\ AsRegistered(y, e)
  BY <1>2, <1>5 DEF Resizing, AsRegistered, Kept
<1>7. ASSUME NEW o, Follows(o, "resume_ide") PROVE Resizing(o, e, x) /\ Resizing(o, e, y)
  BY <1>1, <1>2, <1>5, <1>7 DEF Follows, Resizing
<1> USE DEF x, y, e
<1>8. Performs(To("resume_ide"), reg, host) /\ Performs(To("resume_ide"), reg, h)
  BY <1>1, <1>7, GoesOn DEF Going, Follows, Steps
<1>9. ~op.item.ide_enabled => Performs(Ended, reg, host) /\ Performs(Ended, reg, h)
  BY <1>1, <1>2, <1>6, EndsAsRegistered
<1>10. QED
  BY <1>4, <1>8, <1>9

LEMMA ResumeIdePerforms == ASSUME Loyal, ResumeIde PROVE Performs(op', reg', host')
<1> DEFINE a == op.app
           x == host[a]
           e == reg.items[a]
<1>1. /\ op.step = "resume_ide" /\ op.step \in Steps /\ op.kind = "limits" /\ Inv
  BY DEF Loyal, ResumeIde, Steps, Inv, StepOK, Ready, Has
<1>2. Resizing(op, e, x) /\ a \in DOMAIN reg.items
  BY <1>1, InTold DEF Loyal, Going
<1> DEFINE ide == [x.ide EXCEPT !.running = TRUE]
           h == SetIde(a, ide)
           y == h[a]
<1>3. CASE x.ide = Nothing
  <2>1. host' = host /\ reg' = reg /\ op' = Ended
    BY <1>3 DEF ResumeIde, Go
  <2> HIDE DEF x, e
  <2>2. AsRegistered(x, e)
    BY <1>2, <1>3 DEF Resizing, AsRegistered, Kept
  <2> USE DEF x, e
  <2>3. QED
    BY <1>1, <1>2, <2>1, <2>2, EndsAsRegistered
<1>4. CASE x.ide # Nothing
  <2>1. x.ide.port = op.item.ide_port /\ op.item.ide_port # 0
    <3>1. e.ide_enabled => e.ide_port # 0
      BY <1>1, InTold DEF Loyal
    <3> HIDE DEF x, e
    <3>2. QED
      BY <1>2, <1>4, <3>1 DEF Resizing, Kept
  <2>2. x.ide.running \/ ~Busy(x.ide.port)
    BY <1>1, <2>1, IdePortFree
  <2>3. host' = h /\ reg' = reg /\ op' = Ended
    <3>1. CallIf(x.ide.running \/ ~Busy(x.ide.port), h, reg, Ended, Ended)
      BY <1>4 DEF ResumeIde
    <3> HIDE DEF h
    <3>2. QED
      BY <2>2, <3>1, CallIfDone DEF Loyal
  <2>4. ide \in IdeContainer /\ ide.port = x.ide.port /\ ide.running
    BY <1>1, <1>4, InStep DEF Host, IdeContainer
  <2> HIDE DEF ide
  <2>5. /\ y.cont = x.cont /\ y.prev = x.prev /\ y.ide = ide
        /\ y.gate = x.gate /\ y.volume = x.volume
    BY <1>1, <2>4, InStep, Remakes DEF Remade
  <2> HIDE DEF x, y, e, ide
  <2>6. AsRegistered(y, e)
    BY <1>2, <1>4, <2>4, <2>5 DEF Resizing, AsRegistered, Single, Kept
  <2> USE DEF x, y, e
  <2>7. Performs(Ended, reg, h)
    BY <1>1, <1>2, <2>6, EndsAsRegistered
  <2>8. QED
    BY <2>3, <2>7
<1>5. QED
  BY <1>3, <1>4

LEMMA StepPerforms == ASSUME Loyal, Step PROVE Performs(op', reg', host')
BY MakeVolumePerforms, TakePortPerforms, RunContainerPerforms, VerbPerforms, StopOldPerforms,
   RenameOldPerforms, CheckHealthPerforms, StopTriedPerforms, RemoveTriedPerforms,
   RemoveNewPerforms, RenameBackPerforms, RevivePerforms, SettlePerforms, DropPreviousPerforms,
   RemoveContainerPerforms, RemoveGatewayPerforms, RunGatewayPerforms, AwaitGatewayPerforms,
   TakeIdePortPerforms, ClearIdePerforms, RunIdePerforms, AwaitIdePerforms, RemoveIdePerforms,
   UnregisterIdePerforms, QuietAppPerforms, QuietIdePerforms, GrowVolumePerforms,
   StartResizedPerforms, UpdateContainerPerforms, ResumeAppPerforms, ResumeIdePerforms DEF Step

LEMMA ToldStep == ASSUME Inv, PortsKept, Told, Step PROVE Told'
<1> SUFFICES ASSUME faults' = 0
             PROVE  /\ \A a \in Apps : (InOperation' /\ op'.app = a) \/ Rests(reg', host', a)
                    /\ InOperation' => Going(op', reg'.items[op'.app], host'[op'.app])
  BY DEF Told, Going, Creating, Removing, Proxying, Enabling, Resizing, Switching, Rests
<1>1. Loyal /\ Rewires
  BY LoyalStep, StepRewires
<1>2. Performs(op', reg', host')
  BY <1>1, StepPerforms
<1>3. \A b \in Apps \ {op.app} : Rests(reg, host, b)
  BY <1>1, InTold DEF Loyal
<1>4. ASSUME NEW b \in Apps \ {op.app} PROVE Rests(reg', host', b)
  BY <1>1, <1>3, <1>4 DEF Rewires, Stock, Near, Enters, Registered, Rests
<1>5. CASE op' = Ended
  BY <1>2, <1>4, <1>5 DEF Performs, InOperation, Ended
<1>6. CASE op' # Ended
  BY <1>2, <1>4, <1>6 DEF Performs, InOperation
<1>7. QED
  BY <1>5, <1>6

\* An operation begins with the application as registered.
LEMMA BeginTold ==
    ASSUME Inv, Told, NEW a \in Apps, NEW kind \in Kinds, NEW step, NEW item, NEW was,
           Begin(kind, step, a, item, was),
           \A o : o.kind = kind /\ o.step = step /\ o.item = item /\ o.was = was
                  /\ (a \in Registered => o.old = reg.items[a])
                  /\ Rests(reg, host, a) => Going(o, reg.items[a], host[a])
    PROVE  Told'
<1> SUFFICES ASSUME faults' = 0
             PROVE  /\ \A b \in Apps : (InOperation' /\ op'.app = b) \/ Rests(reg', host', b)
                    /\ InOperation' => Going(op', reg'.items[op'.app], host'[op'.app])
  BY DEF Told, Going, Creating, Removing, Proxying, Enabling, Resizing, Switching, Rests
<1>1. /\ UNCHANGED <<host, reg, saved, faults>> /\ op = Idle
      /\ op'.kind = kind /\ op'.step = step /\ op'.app = a /\ op'.item = item /\ op'.was = was
      /\ a \in Registered => op'.old = reg.items[a]
  BY DEF Begin, Go
<1>2. \A b \in Apps : Rests(reg, host, b)
  BY <1>1 DEF Told, InOperation, Idle
<1>3. Going(op', reg.items[a], host[a])
  BY <1>1, <1>2
<1>4. QED
  BY <1>1, <1>2, <1>3

LEMMA RequestTold == ASSUME Inv, PortsKept, Told, Request PROVE Told'
<1>1. ASSUME NEW a \in Apps, NEW limits \in Allocations, NEW version \in Versions,
             CreateApp(a, limits, version)
      PROVE  Told'
  <2>1. \A o, e : o.kind = "create" /\ o.step = "volume" => Going(o, e, host[a])
    BY DEF Going, Creating
  <2>2. QED
    BY <1>1, <2>1, BeginTold DEF CreateApp, Kinds
<1>2. ASSUME NEW a \in Registered
      PROVE  reg.items[a] \in Item /\ (reg.items[a].ide_enabled => reg.items[a].ide_port # 0)
  BY Found DEF PortsKept, Wired, Distinct, Registered
<1>20. ASSUME NEW a \in Registered, Rests(reg, host, a) PROVE AsRegistered(host[a], reg.items[a])
  BY <1>20 DEF Rests, Registered
<1>3. ASSUME NEW a \in Apps, NEW kind \in {"start", "stop"}, StartOrStop(a, kind)
      PROVE  Told'
  <2>1. a \in Registered /\ Begin(kind, "verb", a, reg.items[a], FALSE)
    BY <1>3 DEF StartOrStop
  <2>2. \A o : o.kind = kind /\ Rests(reg, host, a) => Going(o, reg.items[a], host[a])
    BY <1>20, <2>1 DEF Going
  <2>3. QED
    BY <2>1, <2>2, BeginTold DEF Kinds
<1>4. ASSUME NEW a \in Apps, NEW version \in Versions, SwitchRuntime(a, version)
      PROVE  Told'
  <2> DEFINE e == reg.items[a]
             x == host[a]
             item == [e EXCEPT !.version = version]
             was == x.cont.running
  <2>1. /\ a \in Registered /\ Begin("runtime", "stop", a, item, was)
        /\ ~e.proxied /\ x.cont # Nothing
    BY <1>4 DEF SwitchRuntime, Has
  <2>2. /\ item.memory = e.memory /\ item.disk = e.disk /\ item.proxied = e.proxied
        /\ item.port = e.port /\ item.ide_enabled = e.ide_enabled /\ item.ide_port = e.ide_port
    BY <1>2, <2>1 DEF Item
  <2> HIDE DEF e, x, item
  <2>3. ASSUME NEW o, o.step = "stop", o.item = item, o.old = e, o.was = was, AsRegistered(x, e)
        PROVE  Switching(o, e, x)
    BY <2>1, <2>2, <2>3 DEF Switching, AsRegistered, Single, Kept, CopyOf, was
  <2> USE DEF e, x
  <2> HIDE DEF was
  <2>4. \A o : o.kind = "runtime" /\ o.step = "stop" /\ o.item = item /\ o.was = was /\ o.old = e
               /\ Rests(reg, host, a) => Going(o, e, x)
    BY <1>20, <2>1, <2>3 DEF Going
  <2>5. QED
    BY <2>1, <2>4, BeginTold DEF Kinds
<1>5. ASSUME NEW a \in Apps, NEW proxied \in BOOLEAN, ConfigureEgress(a, proxied)
      PROVE  Told'
  <2> DEFINE e == reg.items[a]
             x == host[a]
             item == [e EXCEPT !.proxied = proxied]
  <2>1. a \in Registered /\ Begin("egress", "remove", a, item, FALSE)
    BY <1>5 DEF ConfigureEgress
  <2>2. item.disk = e.disk /\ item.ide_enabled = e.ide_enabled /\ item.ide_port = e.ide_port
    BY <1>2, <2>1 DEF Item
  <2> HIDE DEF e, x, item
  <2>3. ASSUME NEW o, o.step = "remove", o.item = item, AsRegistered(x, e)
        PROVE  Proxying(o, e, x)
    BY <2>2, <2>3 DEF Proxying
  <2> USE DEF e, x
  <2>4. \A o : o.kind = "egress" /\ o.step = "remove" /\ o.item = item
               /\ Rests(reg, host, a) => Going(o, e, x)
    BY <1>20, <2>1, <2>3 DEF Going
  <2>5. QED
    BY <2>1, <2>4, BeginTold DEF Kinds
<1>6. ASSUME NEW a \in Apps, EnableIde(a) PROVE Told'
  <2> DEFINE e == reg.items[a]
             x == host[a]
             item == [e EXCEPT !.ide_enabled = TRUE]
  <2>1. a \in Registered /\ Begin("ide_on", "ide_port", a, item, FALSE)
    BY <1>6 DEF EnableIde
  <2>2. /\ item.version = e.version /\ item.memory = e.memory /\ item.disk = e.disk
        /\ item.proxied = e.proxied /\ item.port = e.port /\ item.ide_enabled
    BY <1>2, <2>1 DEF Item
  <2> HIDE DEF e, x, item
  <2>3. ASSUME NEW o, o.step = "ide_port", o.item = item, AsRegistered(x, e)
        PROVE  Enabling(o, e, x)
    BY <2>2, <2>3 DEF Enabling, AsRegistered
  <2> USE DEF e, x
  <2>4. \A o : o.kind = "ide_on" /\ o.step = "ide_port" /\ o.item = item
               /\ Rests(reg, host, a) => Going(o, e, x)
    BY <1>20, <2>1, <2>3 DEF Going
  <2>5. QED
    BY <2>1, <2>4, BeginTold DEF Kinds
<1>7. ASSUME NEW a \in Apps, NEW kind \in {"ide_off", "delete"}, a \in Registered,
             NEW step \in {"ide_remove", "remove"},
             step = "ide_remove" \/ reg.items[a].ide_port = 0,
             Begin(kind, step, a, [reg.items[a] EXCEPT !.ide_enabled = FALSE], FALSE)
      PROVE  Told'
  <2> DEFINE e == reg.items[a]
             x == host[a]
             item == [e EXCEPT !.ide_enabled = FALSE]
  <2>1. /\ item.version = e.version /\ item.memory = e.memory /\ item.disk = e.disk
        /\ item.proxied = e.proxied /\ item.port = e.port /\ ~item.ide_enabled
    BY <1>2, <1>7 DEF Item
  <2>2. e.ide_enabled => e.ide_port # 0
    BY <1>2, <1>7
  <2>3. Begin(kind, step, a, item, FALSE) /\ (step = "ide_remove" \/ e.ide_port = 0)
    BY <1>7
  <2> HIDE DEF e, x, item
  <2>4. ASSUME NEW o, o.step = step, o.item = item, AsRegistered(x, e)
        PROVE  Removing(o, e, x)
    BY <1>7, <2>1, <2>2, <2>3, <2>4 DEF Removing, AsRegistered, Kept
  <2> USE DEF e, x
  <2>5. \A o : o.kind = kind /\ o.step = step /\ o.item = item
               /\ Rests(reg, host, a) => Going(o, e, x)
    BY <1>7, <1>20, <2>4 DEF Going
  <2>6. QED
    BY <2>3, <2>5, BeginTold DEF Kinds
<1>8. ASSUME NEW a \in Apps, NEW limits \in Allocations, ConfigureLimits(a, limits)
      PROVE  Told'
  <2> DEFINE e == reg.items[a]
             x == host[a]
             item == [e EXCEPT !.memory = limits.memory, !.disk = limits.disk]
  <2>1. /\ a \in Registered /\ Begin("limits", "stop", a, item, TRUE)
    BY <1>8 DEF ConfigureLimits
  <2>2. /\ item.version = e.version /\ item.proxied = e.proxied /\ item.port = e.port
        /\ item.ide_enabled = e.ide_enabled /\ item.ide_port = e.ide_port
    BY <1>2, <2>1 DEF Item
  <2> HIDE DEF e, x, item
  <2>3. ASSUME NEW o, o.step = "stop", o.item = item, o.old = e, AsRegistered(x, e)
        PROVE  Resizing(o, e, x)
    BY <2>2, <2>3 DEF Resizing, AsRegistered, Kept
  <2> USE DEF e, x
  <2>4. \A o : o.kind = "limits" /\ o.step = "stop" /\ o.item = item /\ o.old = e
               /\ Rests(reg, host, a) => Going(o, e, x)
    BY <1>20, <2>1, <2>3 DEF Going
  <2>5. QED
    BY <2>1, <2>4, BeginTold DEF Kinds
<1>9. ASSUME NEW a \in Apps, DisableIde(a) PROVE Told'
  BY <1>7, <1>9 DEF DisableIde
<1>10. ASSUME NEW a \in Apps, DeleteApp(a) PROVE Told'
  BY <1>7, <1>10 DEF DeleteApp
<1>11. ASSUME NEW budget \in Budgets, SetBudget(budget) PROVE Told'
  <2>1. /\ reg' = [reg EXCEPT !.budget = budget] /\ op' = Ended /\ op = Idle
        /\ UNCHANGED <<host, saved, faults>>
    BY <1>11 DEF SetBudget, Go
  <2>2. reg'.items = reg.items
    BY <2>1 DEF IsRegistry, Inv, TypeOK
  <2>3. QED
    BY <2>1, <2>2 DEF Told, InOperation, Idle, Ended, Rests
<1>12. QED
  BY <1>1, <1>3, <1>4, <1>5, <1>6, <1>8, <1>9, <1>10, <1>11 DEF Request

LEMMA ToldNext == Inv /\ PortsKept /\ Told /\ [Next]_vars => Told'
<1> SUFFICES ASSUME Inv, PortsKept, Told, [Next]_vars PROVE Told'
  OBVIOUS
<1>1. CASE Save
  BY <1>1 DEF Save, Idle, Ended, InOperation, Told, Rests
<1>2. CASE Crash
  <2>1. faults \in Nat
    BY ConstantsAssumption DEF Inv, TypeOK
  <2>2. faults' # 0
    BY <1>2, <2>1 DEF Crash
  <2>3. QED
    BY <2>2 DEF Told
<1>3. CASE UNCHANGED vars
  BY <1>3 DEF vars, Told, InOperation, Rests, Going, Creating, Removing, Proxying, Enabling,
              Resizing, Switching
<1>4. QED
  BY <1>1, <1>2, <1>3, RequestTold, ToldStep DEF Next

\* As long as no call failed and the agent was not killed, the host is between operations as
\* the registry says, for every application and whatever operations there were.
THEOREM HostIsAsRegistered == Spec => []HostAsRegistered
<1>1. Init => Told
  BY DEF Init, Idle, InOperation, Told, Rests, Gone, Bare
<1>2. Inv /\ Told => HostAsRegistered
  <2> SUFFICES ASSUME Inv, Told, op = Idle, faults = 0
               PROVE  /\ \A a \in Registered :
                          LET h == host[a]
                              item == reg.items[a]
                          IN  /\ Has(a) => /\ h.cont.version = item.version
                                           /\ h.cont.memory = item.memory
                                           /\ h.cont.port = item.port
                                           /\ h.cont.proxied = item.proxied
                              /\ h.prev = Nothing
                              /\ h.volume = item.disk
                              /\ h.ide # Nothing =>
                                     /\ item.ide_enabled
                                     /\ h.ide = [port |-> item.ide_port, running |-> TRUE]
                      /\ \A a \in Apps \ Registered :
                          /\ Has(a) => ~host[a].cont.running
                          /\ host[a].prev = Nothing /\ host[a].ide = Nothing
    BY DEF HostAsRegistered
  <2>1. \A a \in Apps : Rests(reg, host, a)
    BY DEF Told, InOperation, Idle
  <2>2. ASSUME NEW a \in Registered
        PROVE  LET h == host[a]
                   item == reg.items[a]
               IN  /\ Has(a) => /\ h.cont.version = item.version
                                /\ h.cont.memory = item.memory
                                /\ h.cont.port = item.port
                                /\ h.cont.proxied = item.proxied
                   /\ h.prev = Nothing
                   /\ h.volume = item.disk
                   /\ h.ide # Nothing =>
                          item.ide_enabled /\ h.ide = [port |-> item.ide_port, running |-> TRUE]
    <3> DEFINE x == host[a]
               e == reg.items[a]
    <3>1. AsRegistered(x, e) /\ x \in Host
      BY <2>1, <2>2 DEF Rests, Registered, Inv, TypeOK, IsRegistry
    <3>2. x.ide # Nothing => x.ide \in IdeContainer /\ x.ide.port = e.ide_port /\ x.ide.running
      BY <3>1 DEF AsRegistered, Kept, Host
    <3>3. x.ide # Nothing => x.ide = [port |-> e.ide_port, running |-> TRUE]
      BY <3>2 DEF IdeContainer
    <3>4. QED
      BY <3>1, <3>3 DEF AsRegistered, Single, Kept, CopyOf, Has
  <2>3. ASSUME NEW a \in Apps \ Registered
        PROVE  /\ Has(a) => ~host[a].cont.running
               /\ host[a].prev = Nothing /\ host[a].ide = Nothing
    BY <2>1, <2>3 DEF Rests, Gone, Registered, Has
  <2>4. QED
    BY <2>2, <2>3
<1>3. QED
  BY <1>1, <1>2, Invariance, PortsInit, PortsNext, ToldNext, PTL DEF Spec

\* A switch of the runtime that meets no fault ends with the application running exactly if it
\* ran before, whether the new version stays up or not.
THEOREM SwitchesKeepState == Spec => SwitchKeepsState
<1>1. Init => Told
  BY DEF Init, Idle, InOperation, Told, Rests, Gone, Bare
<1>2. ASSUME Inv, PortsKept, Told, [Next]_vars,
             op.kind \in {"runtime", "activate"}, op' = Ended, op' # op, faults' = 0
      PROVE  host'[op.app].cont # Nothing /\ host'[op.app].cont.running = op.was
  <2>1. op # Idle /\ op # Ended /\ op' # Idle /\ ~UNCHANGED vars
    BY <1>2 DEF Idle, Ended, vars
  <2>2. Step
    BY <1>2, <2>1 DEF Next, Request, Save, Crash, CreateApp, StartOrStop, SwitchRuntime,
                      ConfigureEgress, EnableIde, DisableIde, ConfigureLimits, DeleteApp,
                      SetBudget, Begin
  <2>3. Loyal /\ Rewires
    BY <1>2, <2>2, LoyalStep, StepRewires
  <2>4. host'[op.app].cont # Nothing /\ (host'[op.app].cont.running <=> op.was)
    BY <1>2, <2>2, <2>3, StepPerforms DEF Performs
  <2>5. op.was \in BOOLEAN /\ host'[op.app].cont \in AppContainer
    BY <2>3, <2>4, InStep DEF Loyal, Rewires, Stock, Near, Host
  <2>6. host'[op.app].cont.running \in BOOLEAN
    BY <2>5 DEF AppContainer
  <2>7. QED
    BY <2>4, <2>5, <2>6
<1>3. Inv /\ PortsKept /\ Told /\ [Next]_vars =>
          [op.kind \in {"runtime", "activate"} /\ op' = Ended /\ faults' = 0 =>
              host'[op.app].cont # Nothing /\ host'[op.app].cont.running = op.was]_vars
  BY <1>2 DEF Ended
<1>4. QED
  BY <1>1, <1>3, Invariance, PortsInit, PortsNext, ToldNext, PTL DEF Spec, SwitchKeepsState
=============================================================================
