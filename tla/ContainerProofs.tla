-------------------------- MODULE ContainerProofs --------------------------
(***************************************************************************)
(* Proofs about Container, for every set of applications, versions and     *)
(* allocations and every bound.                                            *)
(***************************************************************************)
EXTENDS Container, FiniteSetTheorems, TLAPS

-----------------------------------------------------------------------------
(* The inductive invariant. *)

InOperation == op.kind # "none"

\* What an operation of some kind on application a relies on at a step: which containers there
\* are, and of which kinds it can be.
Ready(step, kind, a, h) ==
    /\ step \in {"stop", "rename", "health", "retire", "discard", "revive", "settle", "drop",
                 "stop_ide", "grow", "start", "update", "resume"} => h[a].cont # Nothing
    /\ step \in {"health", "retire", "discard", "rollback", "restore"} => h[a].prev # Nothing
    /\ step = "run" /\ kind \in {"runtime", "activate"} => h[a].prev # Nothing
    /\ step = "cleanup" => h[a].cont = Nothing
    /\ step \in {"volume", "port"} => kind = "create"
    /\ step = "verb" => kind \in {"start", "stop"}
    /\ step = "stop" => kind \in {"runtime", "limits"}
    /\ step \in {"rename", "health", "retire", "discard"} => kind = "runtime"
    /\ step \in {"rollback", "restore", "revive", "settle", "drop"} =>
            kind \in {"runtime", "activate"}
    /\ step \in {"remove", "cleanup"} => kind \in {"egress", "delete"}
    /\ step \in {"gateway", "ready"} => kind = "egress"
    /\ step = "run" => kind \in {"create", "runtime", "activate", "egress"}
    /\ step \in {"ide_port", "ide_clear", "ide_run", "ide_ready"} => kind = "ide_on"
    /\ step \in {"ide_remove", "ide_reload"} => kind \in {"ide_off", "delete"}
    /\ step \in {"stop_ide", "grow", "start", "update", "resume", "resume_ide"} => kind = "limits"

StepOK == Ready(op.step, op.kind, op.app, host)

\* An operation finds the registry as it was saved last, and in it the application unless it
\* creates one; of an entry that is only in the saved registry there is no container.
EntriesOK ==
    /\ op = Idle => reg = saved
    /\ InOperation =>
        /\ Registered = DOMAIN saved.items
        /\ op.app \in Registered <=> op.kind # "create"
    /\ \A a \in DOMAIN saved.items \ Registered : ~Has(a)

Inv == TypeOK /\ StepOK /\ EntriesOK

-----------------------------------------------------------------------------
(* What the operators on the registry and the host yield. *)

\* Register enters or replaces one item.
LEMMA RegisterType ==
    ASSUME IsRegistry(reg), NEW a \in Apps, NEW item \in Item
    PROVE  /\ IsRegistry(Register(a, item))
           /\ DOMAIN Register(a, item).items = Registered \cup {a}
           /\ Register(a, item).items[a] = item
           /\ \A b \in Registered \ {a} : Register(a, item).items[b] = reg.items[b]
           /\ Register(a, item).ports = reg.ports
           /\ Register(a, item).budget = reg.budget
BY DEF IsRegistry, Register, Registered

\* Forget removes one.
LEMMA ForgetType ==
    ASSUME IsRegistry(reg), NEW a \in Apps
    PROVE  /\ IsRegistry(Forget(a))
           /\ DOMAIN Forget(a).items = Registered \ {a}
           /\ \A b \in Registered \ {a} : Forget(a).items[b] = reg.items[b]
           /\ Forget(a).ports = reg.ports
BY DEF IsRegistry, Forget, Registered

\* The host is as it was but for the containers of one application, of which cont and prev
\* are now those named.
Becomes(h, a, cont, prev) ==
    /\ h \in [Apps -> Host]
    /\ \A b \in Apps \ {a} : h[b] = host[b]
    /\ h[a].cont = cont /\ h[a].prev = prev

\* What each call makes of the containers.
LEMMA SetContHost ==
    ASSUME host \in [Apps -> Host], NEW a \in Apps, NEW c \in AppContainer \cup {Nothing}
    PROVE  Becomes(SetCont(a, c), a, c, host[a].prev)
BY DEF Host, SetCont, Becomes

LEMMA SetPrevHost ==
    ASSUME host \in [Apps -> Host], NEW a \in Apps, NEW c \in AppContainer \cup {Nothing}
    PROVE  Becomes(SetPrev(a, c), a, host[a].cont, c)
BY DEF Host, SetPrev, Becomes

LEMMA SetIdeHost ==
    ASSUME host \in [Apps -> Host], NEW a \in Apps, NEW i \in IdeContainer \cup {Nothing}
    PROVE  Becomes(SetIde(a, i), a, host[a].cont, host[a].prev)
BY DEF Host, SetIde, Becomes

LEMMA SetGateHost ==
    ASSUME host \in [Apps -> Host], NEW a \in Apps, NEW n \in Nat
    PROVE  Becomes(SetGate(a, n), a, host[a].cont, host[a].prev)
BY DEF Host, SetGate, Becomes

LEMMA SetVolumeHost ==
    ASSUME host \in [Apps -> Host], NEW a \in Apps, NEW n \in Nat
    PROVE  Becomes(SetVolume(a, n), a, host[a].cont, host[a].prev)
BY DEF Host, SetVolume, Becomes

LEMMA KeepContHost ==
    ASSUME host \in [Apps -> Host], NEW a \in Apps
    PROVE  Becomes(KeepCont(a), a, Nothing, host[a].cont)
BY DEF Host, KeepCont, Becomes

LEMMA TakeBackHost ==
    ASSUME host \in [Apps -> Host], NEW a \in Apps
    PROVE  Becomes(TakeBack(a), a, host[a].prev, Nothing)
BY DEF Host, TakeBack, Becomes

LEMMA WithContHost ==
    ASSUME host \in [Apps -> Host], NEW a \in Apps, Has(a), NEW running \in BOOLEAN
    PROVE  /\ Becomes(WithCont(a, running), a, WithCont(a, running)[a].cont, host[a].prev)
           /\ WithCont(a, running)[a].cont # Nothing
<1> DEFINE c == [host[a].cont EXCEPT !.running = running]
<1>1. host[a].cont \in AppContainer
  BY DEF Host, Has
<1>2. c \in AppContainer
  BY <1>1 DEF AppContainer
<1>3. c # Nothing
  BY <1>2, ConstantsAssumption
<1>4. Becomes(WithCont(a, running), a, c, host[a].prev)
  BY <1>2, SetContHost DEF WithCont
<1>5. QED
  BY <1>3, <1>4 DEF Becomes

-----------------------------------------------------------------------------
(* Steps of an operation. *)

\* What every step does but the last one of a deletion.
Near(h) == h \in [Apps -> Host] /\ \A b \in Apps \ {op.app} : h[b] = host[b]

Grown(r) ==
    /\ IsRegistry(r)
    /\ Registered \subseteq DOMAIN r.items /\ DOMAIN r.items \subseteq Registered \cup {op.app}

Onward(o) ==
    o \in Operation /\ o.app = op.app /\ (o.kind = "create" <=> op.kind = "create")

Progress ==
    /\ Near(host') /\ Grown(reg')
    /\ op' = Ended \/ (Onward(op') /\ DOMAIN reg'.items = Registered)
    /\ saved' = saved /\ faults' \in 0..MaxFaults

\* What is known when an operation is at a step.
LEMMA InStep ==
    ASSUME Inv, op.step \in Steps
    PROVE  /\ op \in Operation /\ op.app \in Apps /\ op.item \in Item /\ op.old \in Item
           /\ op.kind \in Kinds /\ op.was \in BOOLEAN /\ op # Idle /\ op # Ended
           /\ host \in [Apps -> Host] /\ IsRegistry(reg) /\ IsRegistry(saved)
           /\ faults \in 0..MaxFaults /\ MaxFaults \in Nat
           /\ host[op.app] \in Host
           /\ Near(host) /\ Grown(reg) /\ Grown(Register(op.app, op.item))
           /\ Grown(Register(op.app, op.old))
           /\ op.kind # "create" =>
                  /\ DOMAIN Register(op.app, op.item).items = Registered
                  /\ DOMAIN Register(op.app, op.old).items = Registered
           /\ DOMAIN reg.items = Registered
<1>1. op \in Operation
  BY DEF Inv, TypeOK, Steps, Idle, Ended
<1>2. op # Idle /\ op # Ended
  BY DEF Steps, Idle, Ended
<1>3. op.kind # "create" => op.app \in Registered
  BY <1>1 DEF Inv, EntriesOK, InOperation, Operation, Kinds
<1>4. IsRegistry(reg) /\ op.app \in Apps /\ op.item \in Item /\ op.old \in Item
  BY <1>1 DEF Inv, TypeOK, Operation
<1>5. Grown(reg) /\ Grown(Register(op.app, op.item)) /\ Grown(Register(op.app, op.old))
  BY <1>4, RegisterType DEF Grown, Registered
<1>6. op.kind # "create" =>
          /\ DOMAIN Register(op.app, op.item).items = Registered
          /\ DOMAIN Register(op.app, op.old).items = Registered
  <2>1. ASSUME op.app \in Registered PROVE Registered \cup {op.app} = Registered
    BY <2>1
  <2>2. QED
    BY <1>3, <1>4, <2>1, RegisterType
<1>7. QED
  BY <1>1, <1>2, <1>4, <1>5, <1>6, ConstantsAssumption DEF Inv, TypeOK, Operation, Near, Registered

\* An operation goes on to another step.
LEMMA Steady ==
    ASSUME Inv, op.step \in Steps, NEW s \in Steps
    PROVE  /\ Onward(To(s)) /\ To(s).app = op.app /\ To(s).kind = op.kind /\ To(s).step = s
           /\ To(s).item = op.item /\ To(s).old = op.old /\ To(s).was = op.was
<1>1. op \in Operation
  BY InStep
<1>2. QED
  BY <1>1 DEF Operation, To, Onward

\* Such a step keeps the types and what the operation found.
LEMMA ProgressKept ==
    ASSUME Inv, op.step \in Steps, Progress
    PROVE  TypeOK' /\ EntriesOK'
<1>1. op \in Operation /\ InOperation
  BY InStep DEF InOperation, Operation, Kinds
<1>2. TypeOK'
  BY <1>1, InStep DEF Progress, Near, Grown, Onward, TypeOK
<1>3. op' # Idle
  BY DEF Progress, Onward, Idle, Ended, Operation, Kinds
<1>4. \A a \in DOMAIN saved'.items \ Registered' : ~Has(a)'
  BY <1>1 DEF Inv, EntriesOK, Progress, Grown, Registered
<1>5. InOperation' => /\ Registered' = DOMAIN saved'.items
                      /\ op'.app \in Registered' <=> op'.kind # "create"
  BY <1>1 DEF Inv, EntriesOK, Progress, Onward, Registered, InOperation, Ended
<1>6. QED
  BY <1>2, <1>3, <1>4, <1>5 DEF EntriesOK

\* Where a step may lead.
May(o, h) == (o = Ended \/ Onward(o)) /\ Ready(o.step, o.kind, o.app, h)

LEMMA MayEnd == \A h : May(Ended, h)
BY DEF May, Ended, Ready

LEMMA MayGo ==
    ASSUME Inv, op.step \in Steps, NEW s \in Steps, NEW h, Ready(s, op.kind, op.app, h)
    PROVE  May(To(s), h)
BY Steady DEF May

LEMMA KeepsInv ==
    ASSUME Inv, op.step \in Steps, Near(host'), Grown(reg'), May(op', host'),
           op' = Ended \/ DOMAIN reg'.items = Registered,
           saved' = saved, faults' \in 0..MaxFaults
    PROVE  Inv'
<1>1. Progress
  BY DEF Progress, May
<1>2. StepOK'
  BY DEF StepOK, May
<1>3. QED
  BY <1>1, <1>2, ProgressKept DEF Inv

\* A call, wherever it leads, and a step without one.
LEMMA CallKept ==
    ASSUME Inv, op.step \in Steps, NEW h, NEW r, NEW next, NEW failed,
           Near(h), Grown(r), next = Ended \/ DOMAIN r.items = Registered,
           May(next, h), May(failed, h), May(failed, host), Call(h, r, next, failed)
    PROVE  Inv'
<1>1. CASE host' = h /\ reg' = r /\ op' = next /\ UNCHANGED faults
  BY <1>1, InStep, KeepsInv DEF Call
<1>2. CASE /\ faults < MaxFaults /\ faults' = faults + 1
           /\ host' \in {host, h} /\ op' = failed /\ UNCHANGED reg
  BY <1>2, InStep, KeepsInv DEF Call
<1>3. QED
  BY <1>1, <1>2 DEF Call

LEMMA CallIfKept ==
    ASSUME Inv, op.step \in Steps, NEW condition, NEW h, NEW r, NEW next, NEW failed,
           condition => Near(h), Grown(r), next = Ended \/ DOMAIN r.items = Registered,
           condition => May(next, h), condition => May(failed, h), May(failed, host),
           CallIf(condition, h, r, next, failed)
    PROVE  Inv'
<1>1. CASE condition
  BY <1>1, CallKept DEF CallIf
<1>2. CASE ~condition
  BY <1>2, InStep, KeepsInv DEF CallIf
<1>3. QED
  BY <1>1, <1>2

LEMMA GoKept ==
    ASSUME Inv, op.step \in Steps, NEW r, NEW next,
           Grown(r), next = Ended \/ DOMAIN r.items = Registered, May(next, host), Go(r, next)
    PROVE  Inv'
BY InStep, KeepsInv DEF Go

-----------------------------------------------------------------------------
(* Every step of an operation keeps the invariant: a fact about what it makes of the host, one *)
(* about what is relied on where it leads, and CallKept, CallIfKept or GoKept.                 *)

LEMMA MakeVolumeKept == Inv /\ MakeVolume => Inv'
<1> SUFFICES ASSUME Inv, MakeVolume PROVE Inv'
  OBVIOUS
<1>1. op.step = "volume" /\ op.step \in Steps /\ op.kind = "create"
  BY DEF MakeVolume, Steps, Inv, StepOK, Ready
<1>2. Becomes(SetVolume(op.app, op.item.disk), op.app, host[op.app].cont, host[op.app].prev)
  BY <1>1, InStep, SetVolumeHost DEF Item
<1>3. Ready("port", op.kind, op.app, SetVolume(op.app, op.item.disk))
  BY <1>1 DEF Ready
<1>4. QED
  BY <1>1, <1>2, <1>3, InStep, CallKept, MayGo, MayEnd DEF MakeVolume, Becomes, Near, Steps

LEMMA VerbKept == Inv /\ Verb => Inv'
<1> SUFFICES ASSUME Inv, Verb PROVE Inv'
  OBVIOUS
<1>1. op.step = "verb" /\ op.step \in Steps /\ op.kind \in {"start", "stop"}
  BY DEF Verb, Steps, Inv, StepOK, Ready
<1>2. Has(op.app) => \A r \in BOOLEAN :
           Becomes(WithCont(op.app, r), op.app, WithCont(op.app, r)[op.app].cont,
                   host[op.app].prev)
  BY <1>1, InStep, WithContHost
<1>3. QED
  BY <1>1, <1>2, InStep, CallIfKept, MayEnd
     DEF Verb, Becomes, Near

LEMMA StopOldKept == Inv /\ StopOld => Inv'
<1> SUFFICES ASSUME Inv, StopOld PROVE Inv'
  OBVIOUS
<1>1. op.step = "stop" /\ op.step \in Steps /\ op.kind = "runtime"
  BY DEF StopOld, Steps, Inv, StepOK, Ready
<1>2. /\ Becomes(WithCont(op.app, FALSE), op.app, WithCont(op.app, FALSE)[op.app].cont,
                 host[op.app].prev)
      /\ WithCont(op.app, FALSE)[op.app].cont # Nothing
  BY <1>1, InStep, WithContHost DEF Inv, StepOK, Ready, Has
<1>3. Ready("rename", op.kind, op.app, WithCont(op.app, FALSE))
  BY <1>1, <1>2 DEF Ready, Becomes, Inv, StepOK
<1>4. QED
  BY <1>1, <1>2, <1>3, InStep, CallKept, MayGo, MayEnd
     DEF StopOld, Becomes, Near, Steps

LEMMA RenameOldKept == Inv /\ RenameOld => Inv'
<1> SUFFICES ASSUME Inv, RenameOld PROVE Inv'
  OBVIOUS
<1>1. op.step = "rename" /\ op.step \in Steps /\ op.kind = "runtime"
  BY DEF RenameOld, Steps, Inv, StepOK, Ready
<1>2. Becomes(KeepCont(op.app), op.app, Nothing, host[op.app].cont)
  BY <1>1, InStep, KeepContHost
<1>3. Ready("run", op.kind, op.app, KeepCont(op.app))
  BY <1>1, <1>2 DEF Ready, Becomes, Inv, StepOK
<1>4. Ready("rollback", op.kind, op.app, KeepCont(op.app))
  BY <1>1, <1>2 DEF Ready, Becomes, Inv, StepOK
<1>5. QED
  BY <1>1, <1>2, <1>3, <1>4, InStep, CallKept, MayGo, MayEnd
     DEF RenameOld, Becomes, Near, Steps, Recreate

LEMMA StopTriedKept == Inv /\ StopTried => Inv'
<1> SUFFICES ASSUME Inv, StopTried PROVE Inv'
  OBVIOUS
<1>1. op.step = "retire" /\ op.step \in Steps /\ op.kind = "runtime"
  BY DEF StopTried, Steps, Inv, StepOK, Ready
<1>2. /\ Becomes(WithCont(op.app, FALSE), op.app, WithCont(op.app, FALSE)[op.app].cont,
                 host[op.app].prev)
      /\ WithCont(op.app, FALSE)[op.app].cont # Nothing
  BY <1>1, InStep, WithContHost DEF Inv, StepOK, Ready, Has
<1>3. Ready("discard", op.kind, op.app, WithCont(op.app, FALSE))
  BY <1>1, <1>2 DEF Ready, Becomes, Inv, StepOK
<1>4. Ready("rollback", op.kind, op.app, WithCont(op.app, FALSE))
  BY <1>1, <1>2 DEF Ready, Becomes, Inv, StepOK
<1>5. Ready("rollback", op.kind, op.app, host)
  BY <1>1, <1>2 DEF Ready, Becomes, Inv, StepOK
<1>6. QED
  BY <1>1, <1>2, <1>3, <1>4, <1>5, InStep, CallKept, MayGo
     DEF StopTried, Becomes, Near, Steps

LEMMA RemoveNewKept == Inv /\ RemoveNew => Inv'
<1> SUFFICES ASSUME Inv, RemoveNew PROVE Inv'
  OBVIOUS
<1>1. op.step = "rollback" /\ op.step \in Steps /\ op.kind \in {"runtime", "activate"}
  BY DEF RemoveNew, Steps, Inv, StepOK, Ready
<1>2. Becomes(SetCont(op.app, Nothing), op.app, Nothing, host[op.app].prev)
  BY <1>1, InStep, SetContHost
<1>3. Ready("restore", op.kind, op.app, SetCont(op.app, Nothing))
  BY <1>1, <1>2 DEF Ready, Becomes, Inv, StepOK
<1>4. Ready("restore", op.kind, op.app, host)
  BY <1>1, <1>2 DEF Ready, Becomes, Inv, StepOK
<1>5. QED
  BY <1>1, <1>2, <1>3, <1>4, InStep, CallKept, MayGo
     DEF RemoveNew, Becomes, Near, Steps

LEMMA RenameBackKept == Inv /\ RenameBack => Inv'
<1> SUFFICES ASSUME Inv, RenameBack PROVE Inv'
  OBVIOUS
<1>1. op.step = "restore" /\ op.step \in Steps /\ op.kind \in {"runtime", "activate"}
  BY DEF RenameBack, Steps, Inv, StepOK, Ready
<1>2. Becomes(TakeBack(op.app), op.app, host[op.app].prev, Nothing)
  BY <1>1, InStep, TakeBackHost
<1>3. Ready("revive", op.kind, op.app, TakeBack(op.app))
  BY <1>1, <1>2 DEF Ready, Becomes, Inv, StepOK
<1>4. QED
  BY <1>1, <1>2, <1>3, InStep, CallIfKept, MayGo, MayEnd
     DEF RenameBack, Becomes, Near, Steps

LEMMA ReviveKept == Inv /\ Revive => Inv'
<1> SUFFICES ASSUME Inv, Revive PROVE Inv'
  OBVIOUS
<1>1. op.step = "revive" /\ op.step \in Steps /\ op.kind \in {"runtime", "activate"}
  BY DEF Revive, Steps, Inv, StepOK, Ready
<1>2. /\ Becomes(WithCont(op.app, TRUE), op.app, WithCont(op.app, TRUE)[op.app].cont,
                 host[op.app].prev)
      /\ WithCont(op.app, TRUE)[op.app].cont # Nothing
  BY <1>1, InStep, WithContHost DEF Inv, StepOK, Ready, Has
<1>3. QED
  BY <1>1, <1>2, InStep, CallIfKept, GoKept, MayEnd
     DEF Revive, Becomes, Near

LEMMA SettleKept == Inv /\ Settle => Inv'
<1> SUFFICES ASSUME Inv, Settle PROVE Inv'
  OBVIOUS
<1>1. op.step = "settle" /\ op.step \in Steps /\ op.kind \in {"runtime", "activate"}
  BY DEF Settle, Steps, Inv, StepOK, Ready
<1>2. /\ Becomes(WithCont(op.app, FALSE), op.app, WithCont(op.app, FALSE)[op.app].cont,
                 host[op.app].prev)
      /\ WithCont(op.app, FALSE)[op.app].cont # Nothing
  BY <1>1, InStep, WithContHost DEF Inv, StepOK, Ready, Has
<1>3. Ready("drop", op.kind, op.app, WithCont(op.app, FALSE))
  BY <1>1, <1>2 DEF Ready, Becomes, Inv, StepOK
<1>4. Ready("drop", op.kind, op.app, host)
  BY <1>1, <1>2 DEF Ready, Becomes, Inv, StepOK
<1>5. QED
  BY <1>1, <1>2, <1>3, <1>4, InStep, CallKept, GoKept, MayGo, MayEnd
     DEF Settle, Becomes, Near, Steps

LEMMA DropPreviousKept == Inv /\ DropPrevious => Inv'
<1> SUFFICES ASSUME Inv, DropPrevious PROVE Inv'
  OBVIOUS
<1>1. op.step = "drop" /\ op.step \in Steps /\ op.kind \in {"runtime", "activate"}
  BY DEF DropPrevious, Steps, Inv, StepOK, Ready
<1>2. Becomes(SetPrev(op.app, Nothing), op.app, host[op.app].cont, Nothing)
  BY <1>1, InStep, SetPrevHost
<1>3. QED
  BY <1>1, <1>2, InStep, CallKept, MayEnd
     DEF DropPrevious, Becomes, Near

LEMMA RemoveContainerKept == Inv /\ RemoveContainer => Inv'
<1> SUFFICES ASSUME Inv, RemoveContainer PROVE Inv'
  OBVIOUS
<1>1. op.step = "remove" /\ op.step \in Steps /\ op.kind \in {"egress", "delete"}
  BY DEF RemoveContainer, Steps, Inv, StepOK, Ready
<1>2. Becomes(SetCont(op.app, Nothing), op.app, Nothing, host[op.app].prev)
  BY <1>1, InStep, SetContHost
<1>3. Ready("cleanup", op.kind, op.app, SetCont(op.app, Nothing))
  BY <1>1, <1>2 DEF Ready, Becomes, Inv, StepOK
<1>4. QED
  BY <1>1, <1>2, <1>3, InStep, CallKept, MayGo, MayEnd
     DEF RemoveContainer, Becomes, Near, Steps

LEMMA RunGatewayKept == Inv /\ RunGateway => Inv'
<1> SUFFICES ASSUME Inv, RunGateway PROVE Inv'
  OBVIOUS
<1>1. op.step = "gateway" /\ op.step \in Steps /\ op.kind = "egress"
  BY DEF RunGateway, Steps, Inv, StepOK, Ready
<1>2. Becomes(SetGate(op.app, op.item.port), op.app, host[op.app].cont, host[op.app].prev)
  BY <1>1, InStep, SetGateHost DEF Item
<1>3. Ready("ready", op.kind, op.app, SetGate(op.app, op.item.port))
  BY <1>1, <1>2 DEF Ready, Becomes, Inv, StepOK
<1>4. QED
  BY <1>1, <1>2, <1>3, InStep, CallIfKept, MayGo, MayEnd
     DEF RunGateway, Becomes, Near, Steps

LEMMA AwaitGatewayKept == Inv /\ AwaitGateway => Inv'
<1> SUFFICES ASSUME Inv, AwaitGateway PROVE Inv'
  OBVIOUS
<1>1. op.step = "ready" /\ op.step \in Steps /\ op.kind = "egress"
  BY DEF AwaitGateway, Steps, Inv, StepOK, Ready
<1>2. Ready("run", op.kind, op.app, host)
  BY <1>1 DEF Ready, Becomes, Inv, StepOK
<1>3. QED
  BY <1>1, <1>2, InStep, GoKept, MayGo, MayEnd
     DEF AwaitGateway, Becomes, Near, Steps

LEMMA ClearIdeKept == Inv /\ ClearIde => Inv'
<1> SUFFICES ASSUME Inv, ClearIde PROVE Inv'
  OBVIOUS
<1>1. op.step = "ide_clear" /\ op.step \in Steps /\ op.kind = "ide_on"
  BY DEF ClearIde, Steps, Inv, StepOK, Ready
<1>2. Becomes(SetIde(op.app, Nothing), op.app, host[op.app].cont, host[op.app].prev)
  BY <1>1, InStep, SetIdeHost
<1>3. Ready("ide_run", op.kind, op.app, SetIde(op.app, Nothing))
  BY <1>1, <1>2 DEF Ready, Becomes, Inv, StepOK
<1>4. Ready("ide_run", op.kind, op.app, host)
  BY <1>1, <1>2 DEF Ready, Becomes, Inv, StepOK
<1>5. QED
  BY <1>1, <1>2, <1>3, <1>4, InStep, CallKept, MayGo
     DEF ClearIde, Becomes, Near, Steps

LEMMA AwaitIdeKept == Inv /\ AwaitIde => Inv'
<1> SUFFICES ASSUME Inv, AwaitIde PROVE Inv'
  OBVIOUS
<1>1. op.step = "ide_ready" /\ op.step \in Steps /\ op.kind = "ide_on"
  BY DEF AwaitIde, Steps, Inv, StepOK, Ready
<1>2. Becomes(SetIde(op.app, Nothing), op.app, host[op.app].cont, host[op.app].prev)
  BY <1>1, InStep, SetIdeHost
<1>3. QED
  BY <1>1, <1>2, InStep, CallKept, GoKept, MayEnd
     DEF AwaitIde, Becomes, Near

LEMMA RemoveIdeKept == Inv /\ RemoveIde => Inv'
<1> SUFFICES ASSUME Inv, RemoveIde PROVE Inv'
  OBVIOUS
<1>1. op.step = "ide_remove" /\ op.step \in Steps /\ op.kind \in {"ide_off", "delete"}
  BY DEF RemoveIde, Steps, Inv, StepOK, Ready
<1>2. Becomes(SetIde(op.app, Nothing), op.app, host[op.app].cont, host[op.app].prev)
  BY <1>1, InStep, SetIdeHost
<1>3. Ready("ide_reload", op.kind, op.app, SetIde(op.app, Nothing))
  BY <1>1, <1>2 DEF Ready, Becomes, Inv, StepOK
<1>4. Ready("ide_reload", op.kind, op.app, host)
  BY <1>1, <1>2 DEF Ready, Becomes, Inv, StepOK
<1>5. QED
  BY <1>1, <1>2, <1>3, <1>4, InStep, CallKept, MayGo
     DEF RemoveIde, Becomes, Near, Steps

LEMMA QuietAppKept == Inv /\ QuietApp => Inv'
<1> SUFFICES ASSUME Inv, QuietApp PROVE Inv'
  OBVIOUS
<1>1. op.step = "stop" /\ op.step \in Steps /\ op.kind = "limits"
  BY DEF QuietApp, Steps, Inv, StepOK, Ready
<1>2. /\ Becomes(WithCont(op.app, FALSE), op.app, WithCont(op.app, FALSE)[op.app].cont,
                 host[op.app].prev)
      /\ WithCont(op.app, FALSE)[op.app].cont # Nothing
  BY <1>1, InStep, WithContHost DEF Inv, StepOK, Ready, Has
<1>3. Ready("stop_ide", op.kind, op.app, WithCont(op.app, FALSE))
  BY <1>1, <1>2 DEF Ready, Becomes, Inv, StepOK
<1>4. Ready("grow", op.kind, op.app, WithCont(op.app, FALSE))
  BY <1>1, <1>2 DEF Ready, Becomes, Inv, StepOK
<1>5. Ready("resume", op.kind, op.app, WithCont(op.app, FALSE))
  BY <1>1, <1>2 DEF Ready, Becomes, Inv, StepOK
<1>6. Ready("resume", op.kind, op.app, host)
  BY <1>1, <1>2 DEF Ready, Becomes, Inv, StepOK
<1>7. QED
  BY <1>1, <1>2, <1>3, <1>4, <1>5, <1>6, InStep, CallKept, MayGo
     DEF QuietApp, Becomes, Near, Steps

LEMMA StartResizedKept == Inv /\ StartResized => Inv'
<1> SUFFICES ASSUME Inv, StartResized PROVE Inv'
  OBVIOUS
<1>1. op.step = "start" /\ op.step \in Steps /\ op.kind = "limits"
  BY DEF StartResized, Steps, Inv, StepOK, Ready
<1>2. /\ Becomes(WithCont(op.app, TRUE), op.app, WithCont(op.app, TRUE)[op.app].cont,
                 host[op.app].prev)
      /\ WithCont(op.app, TRUE)[op.app].cont # Nothing
  BY <1>1, InStep, WithContHost DEF Inv, StepOK, Ready, Has
<1>3. Ready("update", op.kind, op.app, WithCont(op.app, TRUE))
  BY <1>1, <1>2 DEF Ready, Becomes, Inv, StepOK
<1>4. Ready("resume", op.kind, op.app, WithCont(op.app, TRUE))
  BY <1>1, <1>2 DEF Ready, Becomes, Inv, StepOK
<1>5. Ready("resume", op.kind, op.app, host)
  BY <1>1, <1>2 DEF Ready, Becomes, Inv, StepOK
<1>6. QED
  BY <1>1, <1>2, <1>3, <1>4, <1>5, InStep, CallIfKept, MayGo, MayEnd
     DEF StartResized, Becomes, Near, Steps

LEMMA ResumeAppKept == Inv /\ ResumeApp => Inv'
<1> SUFFICES ASSUME Inv, ResumeApp PROVE Inv'
  OBVIOUS
<1>1. op.step = "resume" /\ op.step \in Steps /\ op.kind = "limits"
  BY DEF ResumeApp, Steps, Inv, StepOK, Ready
<1>2. /\ Becomes(WithCont(op.app, TRUE), op.app, WithCont(op.app, TRUE)[op.app].cont,
                 host[op.app].prev)
      /\ WithCont(op.app, TRUE)[op.app].cont # Nothing
  BY <1>1, InStep, WithContHost DEF Inv, StepOK, Ready, Has
<1>3. Ready("resume_ide", op.kind, op.app, WithCont(op.app, TRUE))
  BY <1>1, <1>2 DEF Ready, Becomes, Inv, StepOK
<1>4. Ready("resume_ide", op.kind, op.app, host)
  BY <1>1, <1>2 DEF Ready, Becomes, Inv, StepOK
<1>5. /\ May(To("resume_ide"), host) /\ May(To("resume_ide"), WithCont(op.app, TRUE))
  BY <1>1, <1>3, <1>4, MayGo DEF Steps
<1>6. QED
  BY <1>1, <1>2, <1>5, InStep, CallIfKept, MayEnd DEF ResumeApp, Becomes, Near

LEMMA CheckHealthKept == Inv /\ CheckHealth => Inv'
<1> SUFFICES ASSUME Inv, CheckHealth PROVE Inv'
  OBVIOUS
<1>1. op.step = "health" /\ op.step \in Steps /\ op.kind = "runtime" /\ Has(op.app)
  BY DEF CheckHealth, Steps, Inv, StepOK, Ready, Has
<1>2. /\ Becomes(WithCont(op.app, FALSE), op.app, WithCont(op.app, FALSE)[op.app].cont,
                 host[op.app].prev)
  BY <1>1, InStep, WithContHost
<1>3. /\ Ready("retire", op.kind, op.app, host)
      /\ Ready("rollback", op.kind, op.app, host)
      /\ Ready("rollback", op.kind, op.app, WithCont(op.app, FALSE))
  BY <1>1, <1>2 DEF Ready, Becomes, Inv, StepOK
<1>4. May(To("retire"), host) /\ May(To("rollback"), host)
      /\ May(To("rollback"), WithCont(op.app, FALSE))
  BY <1>1, <1>3, MayGo DEF Steps
<1>5. CASE Call(host, reg, To("retire"), To("rollback"))
  BY <1>1, <1>4, <1>5, InStep, CallKept
<1>6. CASE /\ host' = WithCont(op.app, FALSE) /\ op' = To("rollback")
           /\ UNCHANGED <<reg, saved, faults>>
  BY <1>1, <1>2, <1>4, <1>6, InStep, KeepsInv DEF Becomes, Near
<1>7. QED
  BY <1>5, <1>6 DEF CheckHealth

LEMMA RemoveTriedKept == Inv /\ RemoveTried => Inv'
<1> SUFFICES ASSUME Inv, RemoveTried PROVE Inv'
  OBVIOUS
<1> DEFINE h == SetCont(op.app, Nothing)
           next == [Recreate("run", To("rollback")) EXCEPT !.kind = "activate"]
<1>1. op.step = "discard" /\ op.step \in Steps /\ op.kind = "runtime"
  BY DEF RemoveTried, Steps, Inv, StepOK, Ready
<1>2. Becomes(h, op.app, Nothing, host[op.app].prev)
  BY <1>1, InStep, SetContHost
<1>3. /\ Ready("run", "activate", op.app, h) /\ Ready("rollback", "activate", op.app, h)
      /\ Ready("rollback", op.kind, op.app, h) /\ Ready("rollback", op.kind, op.app, host)
  BY <1>1, <1>2 DEF Ready, Becomes, Inv, StepOK
<1>4. May(To("rollback"), h) /\ May(To("rollback"), host)
  BY <1>1, <1>3, MayGo DEF Steps
<1>5. May(next, h)
  <2>1. ASSUME NEW s \in {"run", "rollback"}
        PROVE  May([To(s) EXCEPT !.kind = "activate"], h)
    <3> DEFINE o == [To(s) EXCEPT !.kind = "activate"]
    <3>1. o \in Operation /\ o.app = op.app /\ o.kind = "activate" /\ o.step = s
      BY <1>1, InStep DEF To, Operation, Kinds, Steps
    <3>2. QED
      BY <1>1, <1>3, <3>1 DEF May, Onward
  <2>2. QED
    BY <2>1 DEF Recreate
<1>6. QED
  BY <1>1, <1>2, <1>4, <1>5, InStep, CallKept DEF RemoveTried, Becomes, Near

LEMMA TakePortKept == Inv /\ TakePort => Inv'
<1> SUFFICES ASSUME Inv, TakePort PROVE Inv'
  OBVIOUS
<1> DEFINE port == reg.ports + 1
           r == [reg EXCEPT !.ports = port]
           next == [op EXCEPT !.item.port = port, !.step = "run"]
<1>1. op.step = "port" /\ op.step \in Steps /\ op.kind = "create"
  BY DEF TakePort, Steps, Inv, StepOK, Ready
<1>2. Grown(r) /\ DOMAIN r.items = Registered /\ port \in Nat
  BY <1>1, InStep DEF Grown, IsRegistry, Registered
<1>3. next \in Operation /\ next.app = op.app /\ next.kind = op.kind /\ next.step = "run"
  BY <1>1, <1>2, InStep DEF Operation, Item, Steps
<1>4. May(next, host)
  BY <1>1, <1>3 DEF May, Onward, Ready
<1>5. QED
  BY <1>1, <1>2, <1>4, InStep, GoKept, MayEnd DEF TakePort

LEMMA RunContainerKept == Inv /\ RunContainer => Inv'
<1> SUFFICES ASSUME Inv, RunContainer PROVE Inv'
  OBVIOUS
<1> DEFINE a == op.app
           created == [version |-> op.item.version, memory |-> op.item.memory,
                       port |-> op.item.port, proxied |-> op.item.proxied, running |-> FALSE]
           started == [created EXCEPT !.running = TRUE]
           h == SetCont(a, started)
           next == CASE op.kind = "runtime" -> To("health")
                     [] op.kind = "activate" -> To("settle")
                     [] OTHER -> Ended
           failed == IF op.kind \in {"runtime", "activate"} THEN To("rollback") ELSE Ended
<1>1. op.step = "run" /\ op.step \in Steps
  BY DEF RunContainer, Steps
<1>2. created \in AppContainer /\ started \in AppContainer
  BY <1>1, InStep DEF AppContainer, Item
<1>3. started # Nothing
  BY <1>2, ConstantsAssumption
<1>4. Becomes(h, a, started, host[a].prev) /\ Becomes(SetCont(a, created), a, created, host[a].prev)
  BY <1>1, <1>2, InStep, SetContHost
<1>5. ASSUME op.kind \in {"runtime", "activate"}
      PROVE  /\ Ready("rollback", op.kind, a, host) /\ Ready("rollback", op.kind, a, h)
             /\ Ready("rollback", op.kind, a, SetCont(a, created))
  BY <1>1, <1>4, <1>5 DEF Ready, Becomes, Inv, StepOK
<1>6. May(failed, host) /\ May(failed, h) /\ May(failed, SetCont(a, created))
  BY <1>1, <1>5, MayGo, MayEnd DEF Steps
<1>7. op.kind = "runtime" => Ready("health", op.kind, a, h)
  BY <1>1, <1>3, <1>4 DEF Ready, Becomes, Inv, StepOK
<1>8. op.kind = "activate" => Ready("settle", op.kind, a, h)
  BY <1>1, <1>3, <1>4 DEF Ready, Becomes, Inv, StepOK
<1>9. May(next, h)
  BY <1>1, <1>7, <1>8, MayGo, MayEnd DEF Steps
<1>10. next = Ended \/ DOMAIN Register(a, op.item).items = Registered
  BY <1>1, InStep
<1>11. CASE Call(h, Register(a, op.item), next, failed)
  BY <1>1, <1>4, <1>6, <1>9, <1>10, <1>11, InStep, CallKept DEF Becomes, Near
<1>12. CASE /\ host' \in {host, SetCont(a, created)} /\ op' = failed
            /\ UNCHANGED <<reg, saved, faults>>
  BY <1>1, <1>4, <1>6, <1>12, InStep, KeepsInv DEF Becomes, Near
<1>13. QED
  BY <1>11, <1>12 DEF RunContainer, Run

\* The last step of a deletion is the one that takes an entry away; there is no container then.
LEMMA RemoveGatewayKept == Inv /\ RemoveGateway => Inv'
<1> SUFFICES ASSUME Inv, RemoveGateway PROVE Inv'
  OBVIOUS
<1> DEFINE a == op.app
           h == SetGate(a, 0)
           next == Recreate(IF op.item.proxied THEN "gateway" ELSE "run", Ended)
<1>1. op.step = "cleanup" /\ op.step \in Steps /\ op.kind \in {"egress", "delete"} /\ ~Has(a)
  BY DEF RemoveGateway, Steps, Inv, StepOK, Ready, Has
<1>2. Becomes(h, a, host[a].cont, host[a].prev)
  BY <1>1, InStep, SetGateHost
<1>3. CASE op.kind = "delete"
  <2>1. /\ host' \in {host, h} /\ reg' = Forget(a) /\ op' = Ended /\ saved' = saved
        /\ faults' \in 0..MaxFaults
    BY <1>1, <1>3, InStep DEF RemoveGateway
  <2>2. IsRegistry(reg') /\ Registered' = Registered \ {a}
    BY <1>1, <2>1, InStep, ForgetType DEF Registered
  <2>3. TypeOK'
    BY <1>1, <1>2, <2>1, <2>2, InStep DEF TypeOK, Becomes
  <2>4. StepOK'
    BY <2>1 DEF StepOK, Ready, Ended
  <2>5. \A b \in Apps : Has(b)' => Has(b) /\ b # a
    BY <1>1, <1>2, <2>1, InStep DEF Has, Becomes
  <2>6. Registered = DOMAIN saved.items /\ DOMAIN saved.items \subseteq Apps
    BY <1>1, InStep DEF Inv, EntriesOK, InOperation, IsRegistry, Kinds
  <2>7. \A b \in DOMAIN saved'.items \ Registered' : ~Has(b)'
    BY <1>1, <2>1, <2>2, <2>5, <2>6
  <2>8. EntriesOK'
    BY <2>1, <2>7 DEF EntriesOK, InOperation, Ended, Idle
  <2>9. QED
    BY <2>3, <2>4, <2>8 DEF Inv
<1>4. CASE op.kind = "egress"
  <2>1. Call(h, reg, next, next)
    BY <1>4 DEF RemoveGateway
  <2>2. \A s \in {"gateway", "run"}, g \in {host, h} : Ready(s, op.kind, a, g)
    BY <1>4 DEF Ready
  <2>3. \A s \in {"gateway", "run"}, g \in {host, h} : May(To(s), g)
    BY <1>1, <2>2, MayGo DEF Steps
  <2>4. May(next, host) /\ May(next, h)
    BY <2>3, MayEnd DEF Recreate
  <2>5. QED
    BY <1>1, <1>2, <2>1, <2>4, InStep, CallKept DEF Becomes, Near
<1>5. QED
  BY <1>1, <1>3, <1>4

LEMMA TakeIdePortKept == Inv /\ TakeIdePort => Inv'
<1> SUFFICES ASSUME Inv, TakeIdePort PROVE Inv'
  OBVIOUS
<1> DEFINE new == reg.ports + 1
           port == IF op.item.ide_port = 0 THEN new ELSE op.item.ide_port
           ports == IF op.item.ide_port = 0 THEN new ELSE reg.ports
           r == [reg EXCEPT !.ports = ports]
           next == [op EXCEPT !.item.ide_port = port, !.step = "ide_clear"]
<1>1. op.step = "ide_port" /\ op.step \in Steps /\ op.kind = "ide_on"
  BY DEF TakeIdePort, Steps, Inv, StepOK, Ready
<1>2. port \in Nat /\ ports \in Nat
  BY <1>1, InStep DEF IsRegistry, Item
<1>3. Grown(r) /\ DOMAIN r.items = Registered
  BY <1>1, <1>2, InStep DEF Grown, IsRegistry, Registered
<1>4. next \in Operation /\ next.app = op.app /\ next.kind = op.kind /\ next.step = "ide_clear"
  BY <1>1, <1>2, InStep DEF Operation, Item, Steps
<1>5. May(next, host)
  BY <1>1, <1>4 DEF May, Onward, Ready
<1>6. QED
  BY <1>1, <1>3, <1>5, InStep, GoKept, MayEnd DEF TakeIdePort

LEMMA RunIdeKept == Inv /\ RunIde => Inv'
<1> SUFFICES ASSUME Inv, RunIde PROVE Inv'
  OBVIOUS
<1> DEFINE ide(running) == [port |-> op.item.ide_port, running |-> running]
           h(running) == SetIde(op.app, ide(running))
<1>1. op.step = "ide_run" /\ op.step \in Steps /\ op.kind = "ide_on"
  BY DEF RunIde, Steps, Inv, StepOK, Ready
<1>2. \A running \in BOOLEAN : Becomes(h(running), op.app, host[op.app].cont, host[op.app].prev)
  BY <1>1, InStep, SetIdeHost DEF IdeContainer, Item
<1>3. May(To("ide_ready"), h(TRUE))
  BY <1>1, MayGo DEF Ready, Steps
<1>4. CASE Call(h(TRUE), reg, To("ide_ready"), Ended)
  BY <1>1, <1>2, <1>3, <1>4, InStep, CallKept, MayEnd DEF Becomes, Near
<1>5. CASE host' \in {host, h(FALSE)} /\ op' = Ended /\ UNCHANGED <<reg, saved, faults>>
  BY <1>1, <1>2, <1>5, InStep, KeepsInv, MayEnd DEF Becomes, Near
<1>6. QED
  BY <1>4, <1>5 DEF RunIde, Run

LEMMA UnregisterIdeKept == Inv /\ UnregisterIde => Inv'
<1> SUFFICES ASSUME Inv, UnregisterIde PROVE Inv'
  OBVIOUS
<1> DEFINE off == Register(op.app, op.item)
<1>1. /\ op.step = "ide_reload" /\ op.step \in Steps /\ op.kind \in {"ide_off", "delete"}
      /\ op.kind # "create"
  BY DEF UnregisterIde, Steps, Inv, StepOK, Ready
<1>2. op.kind = "delete" => May(To("remove"), host)
  BY <1>1, MayGo DEF Ready, Steps
<1>3. CASE Go(off, IF op.kind = "delete" THEN To("remove") ELSE Ended)
  BY <1>1, <1>2, <1>3, InStep, GoKept, MayEnd
<1>4. CASE /\ faults < MaxFaults /\ faults' = faults + 1
           /\ reg' \in {reg, off} /\ op' = Ended
           /\ UNCHANGED <<host, saved>>
  BY <1>1, <1>4, InStep, KeepsInv, MayEnd
<1>5. QED
  BY <1>3, <1>4 DEF UnregisterIde

LEMMA QuietIdeKept == Inv /\ QuietIde => Inv'
<1> SUFFICES ASSUME Inv, QuietIde PROVE Inv'
  OBVIOUS
<1> DEFINE a == op.app
           h == SetIde(a, [host[a].ide EXCEPT !.running = FALSE])
<1>1. op.step = "stop_ide" /\ op.step \in Steps /\ op.kind = "limits" /\ host[a].cont # Nothing
  BY DEF QuietIde, Steps, Inv, StepOK, Ready
<1>2. Ready("resume", op.kind, a, host)
  BY <1>1 DEF Ready
<1>3. May(To("resume"), host)
  BY <1>1, <1>2, MayGo DEF Steps
<1>4. CASE host[a].ide # Nothing
  <2>1. [host[a].ide EXCEPT !.running = FALSE] \in IdeContainer
    BY <1>1, <1>4, InStep DEF Host, IdeContainer
  <2>2. Becomes(h, a, host[a].cont, host[a].prev)
    BY <1>1, <2>1, InStep, SetIdeHost
  <2>3. Ready("grow", op.kind, a, h) /\ Ready("resume", op.kind, a, h)
    BY <1>1, <2>2 DEF Ready, Becomes
  <2>4. May(To("grow"), h) /\ May(To("resume"), h)
    BY <1>1, <2>3, MayGo DEF Steps
  <2>5. Call(h, reg, To("grow"), To("resume"))
    BY <1>4 DEF QuietIde
  <2>6. QED
    BY <1>1, <1>3, <2>2, <2>4, <2>5, InStep, CallKept DEF Becomes, Near
<1>5. CASE host[a].ide = Nothing
  BY <1>1, <1>3, <1>5, InStep, GoKept DEF QuietIde
<1>6. QED
  BY <1>4, <1>5

LEMMA GrowVolumeKept == Inv /\ GrowVolume => Inv'
<1> SUFFICES ASSUME Inv, GrowVolume PROVE Inv'
  OBVIOUS
<1> DEFINE a == op.app
           h == SetVolume(a, op.item.disk)
           item == [op.old EXCEPT !.disk = op.item.disk]
<1>1. op.step = "grow" /\ op.step \in Steps /\ op.kind = "limits" /\ host[a].cont # Nothing
  BY DEF GrowVolume, Steps, Inv, StepOK, Ready
<1>2. Becomes(h, a, host[a].cont, host[a].prev)
  BY <1>1, InStep, SetVolumeHost DEF Item
<1>3. /\ Ready("start", op.kind, a, h) /\ Ready("resume", op.kind, a, h)
      /\ Ready("resume", op.kind, a, host)
  BY <1>1, <1>2 DEF Ready, Becomes
<1>4. May(To("start"), h) /\ May(To("resume"), h) /\ May(To("resume"), host)
  BY <1>1, <1>3, MayGo DEF Steps
<1>5. item \in Item
  BY <1>1, InStep DEF Item
<1>6. a \in Registered
  BY <1>1, InStep DEF Inv, EntriesOK, InOperation
<1>7. Grown(Register(a, item)) /\ DOMAIN Register(a, item).items = Registered
  <2>1. Registered \cup {a} = Registered
    BY <1>6
  <2>2. IsRegistry(Register(a, item)) /\ DOMAIN Register(a, item).items = Registered \cup {a}
    BY <1>1, <1>5, InStep, RegisterType
  <2>3. QED
    BY <2>1, <2>2 DEF Grown
<1>8. CallIf(op.item.disk >= host[a].volume, h, Register(a, item), To("start"), To("resume"))
  BY DEF GrowVolume
<1>9. QED
  BY <1>1, <1>2, <1>4, <1>7, <1>8, CallIfKept DEF Becomes, Near

LEMMA UpdateContainerKept == Inv /\ UpdateContainer => Inv'
<1> SUFFICES ASSUME Inv, UpdateContainer PROVE Inv'
  OBVIOUS
<1> DEFINE a == op.app
           c == [host[a].cont EXCEPT !.memory = op.item.memory]
           h == SetCont(a, c)
<1>1. op.step = "update" /\ op.step \in Steps /\ op.kind = "limits" /\ host[a].cont # Nothing
  BY DEF UpdateContainer, Steps, Inv, StepOK, Ready
<1>2. host[a].cont \in AppContainer /\ op.item.memory \in Nat
  BY <1>1, InStep DEF Host, Item
<1>3. c \in AppContainer
  BY <1>2 DEF AppContainer
<1>4. c # Nothing
  BY <1>3, ConstantsAssumption
<1>5. Becomes(h, a, c, host[a].prev)
  BY <1>1, <1>3, InStep, SetContHost
<1>6. Ready("resume", op.kind, a, h) /\ Ready("resume", op.kind, a, host)
  BY <1>1, <1>4, <1>5 DEF Ready, Becomes
<1>7. May(To("resume"), h) /\ May(To("resume"), host)
  BY <1>1, <1>6, MayGo DEF Steps
<1>8. Call(h, Register(a, op.item), To("resume"), To("resume"))
  BY DEF UpdateContainer
<1>9. QED
  BY <1>1, <1>5, <1>7, <1>8, InStep, CallKept DEF Becomes, Near

LEMMA ResumeIdeKept == Inv /\ ResumeIde => Inv'
<1> SUFFICES ASSUME Inv, ResumeIde PROVE Inv'
  OBVIOUS
<1> DEFINE a == op.app
           h == SetIde(a, [host[a].ide EXCEPT !.running = TRUE])
<1>1. op.step = "resume_ide" /\ op.step \in Steps /\ op.kind = "limits"
  BY DEF ResumeIde, Steps, Inv, StepOK, Ready
<1>2. CASE host[a].ide # Nothing
  <2>1. [host[a].ide EXCEPT !.running = TRUE] \in IdeContainer
    BY <1>1, <1>2, InStep DEF Host, IdeContainer
  <2>2. Becomes(h, a, host[a].cont, host[a].prev)
    BY <1>1, <2>1, InStep, SetIdeHost
  <2>3. CallIf(host[a].ide.running \/ ~Busy(host[a].ide.port), h, reg, Ended, Ended)
    BY <1>2 DEF ResumeIde
  <2>4. QED
    BY <1>1, <2>2, <2>3, InStep, CallIfKept, MayEnd DEF Becomes, Near
<1>3. CASE host[a].ide = Nothing
  BY <1>1, <1>3, InStep, GoKept, MayEnd DEF ResumeIde
<1>4. QED
  BY <1>2, <1>3

-----------------------------------------------------------------------------
(* Requests, the save, a crash. *)

LEMMA BeginKept ==
    ASSUME Inv, NEW a \in Apps, NEW kind \in Kinds, NEW step \in Steps, NEW item \in Item,
           NEW was \in BOOLEAN, a \in Registered <=> kind # "create",
           Ready(step, kind, a, host), Begin(kind, step, a, item, was)
    PROVE  Inv'
<1>1. (IF a \in Registered THEN reg.items[a] ELSE item) \in Item
  BY DEF Inv, TypeOK, IsRegistry, Registered
<1>2. /\ op' \in Operation /\ op'.kind = kind /\ op'.step = step /\ op'.app = a
      /\ op = Idle /\ UNCHANGED <<host, reg, saved, faults>>
  BY <1>1 DEF Begin, Go, Operation
<1>3. TypeOK'
  BY <1>2 DEF Inv, TypeOK
<1>4. StepOK'
  BY <1>2 DEF StepOK
<1>5. op' # Idle
  BY <1>2 DEF Idle, Kinds
<1>6. EntriesOK'
  BY <1>2, <1>5 DEF Inv, EntriesOK, Registered, Has
<1>7. QED
  BY <1>3, <1>4, <1>6 DEF Inv

\* The entry a request finds.
LEMMA Found ==
    ASSUME Inv, NEW a \in Registered
    PROVE  a \in Apps /\ reg.items[a] \in Item
BY DEF Inv, TypeOK, IsRegistry, Registered

LEMMA CreateAppKept ==
    ASSUME Inv, NEW a \in Apps, NEW limits \in Allocations, NEW version \in Versions,
           CreateApp(a, limits, version)
    PROVE  Inv'
<1> DEFINE item == [memory |-> limits.memory, disk |-> limits.disk, version |-> version,
                    port |-> 0, proxied |-> FALSE, ide_enabled |-> FALSE, ide_port |-> 0]
<1>1. item \in Item
  BY ConstantsAssumption DEF Item, Amounts
<1>2. Ready("volume", "create", a, host)
  BY DEF Ready
<1>3. QED
  BY <1>1, <1>2, BeginKept DEF CreateApp, Kinds, Steps

LEMMA StartOrStopKept ==
    ASSUME Inv, NEW a \in Apps, NEW kind \in {"start", "stop"}, StartOrStop(a, kind)
    PROVE  Inv'
<1>1. Ready("verb", kind, a, host)
  BY DEF Ready
<1>2. QED
  BY <1>1, BeginKept, Found DEF StartOrStop, Kinds, Steps

LEMMA SwitchRuntimeKept ==
    ASSUME Inv, NEW a \in Apps, NEW version \in Versions, SwitchRuntime(a, version)
    PROVE  Inv'
<1>1. a \in Registered /\ Has(a)
  BY DEF SwitchRuntime
<1>2. [reg.items[a] EXCEPT !.version = version] \in Item
  BY <1>1, Found DEF Item
<1>3. host[a].cont.running \in BOOLEAN
  BY <1>1 DEF Has, Inv, TypeOK, Host, AppContainer
<1>4. Ready("stop", "runtime", a, host)
  BY <1>1 DEF Ready, Has
<1>5. QED
  BY <1>1, <1>2, <1>3, <1>4, BeginKept DEF SwitchRuntime, Kinds, Steps

LEMMA ConfigureEgressKept ==
    ASSUME Inv, NEW a \in Apps, NEW proxied \in BOOLEAN, ConfigureEgress(a, proxied)
    PROVE  Inv'
<1>1. a \in Registered
  BY DEF ConfigureEgress
<1>2. [reg.items[a] EXCEPT !.proxied = proxied] \in Item
  BY <1>1, Found DEF Item
<1>3. Ready("remove", "egress", a, host)
  BY DEF Ready
<1>4. QED
  BY <1>1, <1>2, <1>3, BeginKept DEF ConfigureEgress, Kinds, Steps

LEMMA EnableIdeKept == ASSUME Inv, NEW a \in Apps, EnableIde(a) PROVE Inv'
<1>1. a \in Registered
  BY DEF EnableIde
<1>2. [reg.items[a] EXCEPT !.ide_enabled = TRUE] \in Item
  BY <1>1, Found DEF Item
<1>3. Ready("ide_port", "ide_on", a, host)
  BY DEF Ready
<1>4. QED
  BY <1>1, <1>2, <1>3, BeginKept DEF EnableIde, Kinds, Steps

LEMMA DisableIdeKept == ASSUME Inv, NEW a \in Apps, DisableIde(a) PROVE Inv'
<1>1. a \in Registered
  BY DEF DisableIde
<1>2. [reg.items[a] EXCEPT !.ide_enabled = FALSE] \in Item
  BY <1>1, Found DEF Item
<1>3. Ready("ide_remove", "ide_off", a, host)
  BY DEF Ready
<1>4. QED
  BY <1>1, <1>2, <1>3, BeginKept DEF DisableIde, Kinds, Steps

LEMMA ConfigureLimitsKept ==
    ASSUME Inv, NEW a \in Apps, NEW limits \in Allocations, ConfigureLimits(a, limits)
    PROVE  Inv'
<1> DEFINE item == [reg.items[a] EXCEPT !.memory = limits.memory, !.disk = limits.disk]
<1>1. a \in Registered /\ Has(a) /\ Begin("limits", "stop", a, item, TRUE)
  BY DEF ConfigureLimits
<1>2. item \in Item
  BY <1>1, Found, ConstantsAssumption DEF Item, Amounts
<1>3. Ready("stop", "limits", a, host)
  BY <1>1 DEF Ready, Has
<1>4. QED
  BY <1>1, <1>2, <1>3, BeginKept DEF Kinds, Steps

LEMMA DeleteAppKept == ASSUME Inv, NEW a \in Apps, DeleteApp(a) PROVE Inv'
<1> DEFINE step == IF reg.items[a].ide_port # 0 THEN "ide_remove" ELSE "remove"
           item == [reg.items[a] EXCEPT !.ide_enabled = FALSE]
<1>1. a \in Registered /\ Begin("delete", step, a, item, FALSE)
  BY DEF DeleteApp
<1>2. item \in Item
  BY <1>1, Found DEF Item
<1>3. Ready(step, "delete", a, host) /\ step \in Steps
  BY DEF Ready, Steps
<1>4. QED
  BY <1>1, <1>2, <1>3, BeginKept DEF Kinds

LEMMA SetBudgetKept == ASSUME Inv, NEW budget \in Budgets, SetBudget(budget) PROVE Inv'
<1>1. /\ reg' = [reg EXCEPT !.budget = budget] /\ op' = Ended
      /\ UNCHANGED <<host, saved, faults>>
  BY DEF SetBudget, Go
<1>2. IsRegistry(reg') /\ DOMAIN reg'.items = Registered
  BY <1>1, ConstantsAssumption DEF Inv, TypeOK, IsRegistry, Registered
<1>3. TypeOK' /\ StepOK'
  BY <1>1, <1>2 DEF Inv, TypeOK, StepOK, Ready, Ended
<1>4. EntriesOK'
  BY <1>1, <1>2 DEF Inv, EntriesOK, Registered, Has, InOperation, Ended, Idle
<1>5. QED
  BY <1>3, <1>4 DEF Inv

LEMMA RequestKept == Inv /\ Request => Inv'
BY CreateAppKept, StartOrStopKept, SwitchRuntimeKept, ConfigureEgressKept, EnableIdeKept,
   DisableIdeKept, ConfigureLimitsKept, DeleteAppKept, SetBudgetKept DEF Request

LEMMA StepKept == Inv /\ Step => Inv'
BY MakeVolumeKept, TakePortKept, RunContainerKept, VerbKept, StopOldKept, RenameOldKept,
   CheckHealthKept, StopTriedKept, RemoveTriedKept, RemoveNewKept, RenameBackKept, ReviveKept,
   SettleKept, DropPreviousKept, RemoveContainerKept, RemoveGatewayKept, RunGatewayKept,
   AwaitGatewayKept, TakeIdePortKept, ClearIdeKept, RunIdeKept, AwaitIdeKept, RemoveIdeKept,
   UnregisterIdeKept, QuietAppKept, QuietIdeKept, GrowVolumeKept, StartResizedKept,
   UpdateContainerKept, ResumeAppKept, ResumeIdeKept DEF Step

LEMMA SaveKept == Inv /\ Save => Inv'
<1> SUFFICES ASSUME Inv, Save PROVE Inv'
  OBVIOUS
<1>1. TypeOK'
  BY DEF Inv, Save, TypeOK
<1>2. StepOK'
  BY DEF Save, StepOK, Ready, Idle
<1>3. EntriesOK'
  BY DEF Save, EntriesOK, InOperation, Idle, Registered
<1>4. QED
  BY <1>1, <1>2, <1>3 DEF Inv

LEMMA CrashKept == Inv /\ Crash => Inv'
<1> SUFFICES ASSUME Inv, Crash PROVE Inv'
  OBVIOUS
<1>1. TypeOK'
  BY ConstantsAssumption DEF Inv, Crash, TypeOK
<1>2. StepOK'
  BY DEF Crash, StepOK, Ready, Idle
<1>3. EntriesOK'
  BY DEF Crash, EntriesOK, InOperation, Idle, Registered
<1>4. QED
  BY <1>1, <1>2, <1>3 DEF Inv

LEMMA InitInv == Init => Inv
<1> SUFFICES ASSUME Init PROVE Inv
  OBVIOUS
<1>1. host \in [Apps -> Host]
  BY DEF Init, Bare, Host
<1>2. IsRegistry(reg)
  BY ConstantsAssumption DEF Init, IsRegistry
<1>3. TypeOK
  BY <1>1, <1>2, ConstantsAssumption DEF Init, TypeOK
<1>4. StepOK /\ EntriesOK
  BY DEF Init, StepOK, Ready, Idle, EntriesOK, InOperation, Registered
<1>5. QED
  BY <1>3, <1>4 DEF Inv

-----------------------------------------------------------------------------
(* Theorems. *)

\* Inv is an invariant: types, what each step of an operation relies on, and how registry and
\* file differ.
THEOREM Invariance == Spec => []Inv
<1>1. Inv /\ [Next]_vars => Inv'
  <2>1. Inv /\ UNCHANGED vars => Inv'
    BY DEF vars, Inv, TypeOK, StepOK, EntriesOK, InOperation, Registered, Has
  <2>2. QED
    BY <2>1, RequestKept, StepKept, SaveKept, CrashKept DEF Next
<1>2. QED
  BY <1>1, InitInv, PTL DEF Spec

\* The variables have their types, for every account and whatever fails.
THEOREM TypeCorrect == Spec => []TypeOK
BY Invariance, PTL DEF Inv

\* Operations save nothing themselves.
LEMMA OnlySaveSaves == Request \/ Step \/ Crash => UNCHANGED saved
<1>1. Request => UNCHANGED saved
  BY DEF Request, CreateApp, StartOrStop, SwitchRuntime, ConfigureEgress, EnableIde, DisableIde,
         ConfigureLimits, DeleteApp, SetBudget, Begin, Go
<1>2. Step => UNCHANGED saved
  BY DEF Step, MakeVolume, TakePort, RunContainer, Verb, StopOld, RenameOld, CheckHealth,
         StopTried, RemoveTried, RemoveNew, RenameBack, Revive, Settle, DropPrevious,
         RemoveContainer, RemoveGateway, RunGateway, AwaitGateway, TakeIdePort, ClearIde, RunIde,
         AwaitIde, RemoveIde, UnregisterIde, QuietApp, QuietIde, GrowVolume, StartResized,
         UpdateContainer, ResumeApp, ResumeIde, Call, CallIf, Run, Go
<1>3. Crash => UNCHANGED saved
  BY DEF Crash
<1>4. QED
  BY <1>1, <1>2, <1>3

\* An application whose entry leaves the saved registry has no container, wherever the agent
\* was killed and whatever failed on the way.
THEOREM DeletedAreGone == Spec => DeletedIsGone
<1>1. Inv /\ [Next]_vars =>
        [\A a \in DOMAIN saved.items \ DOMAIN saved'.items : ~Has(a)]_vars
  <2> SUFFICES ASSUME Inv, Next,
                      NEW a \in DOMAIN saved.items \ DOMAIN saved'.items
               PROVE  ~Has(a)
    OBVIOUS
  <2>1. Save
    BY OnlySaveSaves DEF Next
  <2>2. QED
    BY <2>1 DEF Save, Inv, EntriesOK, Registered
<1>2. QED
  BY <1>1, Invariance, PTL DEF Spec, DeletedIsGone

\* What a step makes of the containers of its application.
Treats(h) ==
    LET a == op.app
    IN  \/ h = host
        \/ \E running \in BOOLEAN : h = WithCont(a, running) /\ Has(a)
        \/ \E c \in AppContainer : c # Nothing /\ Becomes(h, a, c, host[a].prev)
        \/ h = SetCont(a, Nothing) /\ (op.kind \in {"egress", "delete"} \/ host[a].prev # Nothing)
        \/ h = KeepCont(a) /\ Has(a)
        \/ h = TakeBack(a) /\ host[a].prev # Nothing
        \/ h = SetPrev(a, Nothing) /\ Has(a)
        \/ Becomes(h, a, host[a].cont, host[a].prev)

LEMMA TreatsStep ==
    ASSUME Inv, Step
    PROVE  op.step \in Steps /\ Treats(host')
<1>1. CASE MakeVolume
  BY <1>1, InStep, SetVolumeHost
     DEF MakeVolume, Call, CallIf, Go, Treats, Steps, Inv, StepOK, Ready, Has, Item
<1>2. CASE TakePort
  BY <1>2, InStep
     DEF TakePort, Call, CallIf, Go, Treats, Steps, Inv, StepOK, Ready, Has
<1>3. CASE RunContainer
  <2> DEFINE created == [version |-> op.item.version, memory |-> op.item.memory,
                         port |-> op.item.port, proxied |-> op.item.proxied, running |-> FALSE]
             started == [created EXCEPT !.running = TRUE]
  <2>1. op.step \in Steps
    BY <1>3 DEF RunContainer, Steps
  <2>2. created \in AppContainer /\ started \in AppContainer
    BY <2>1, InStep DEF AppContainer, Item
  <2>3. created # Nothing /\ started # Nothing
    BY <2>2, ConstantsAssumption
  <2>4. host' \in {host, SetCont(op.app, created), SetCont(op.app, started)}
    BY <1>3 DEF RunContainer, Run, Call
  <2>5. QED
    BY <2>1, <2>2, <2>3, <2>4, InStep, SetContHost DEF Treats
<1>4. CASE Verb
  BY <1>4, InStep
     DEF Verb, Call, CallIf, Go, Treats, Steps, Inv, StepOK, Ready, Has
<1>5. CASE StopOld
  BY <1>5, InStep
     DEF StopOld, Call, CallIf, Go, Treats, Steps, Inv, StepOK, Ready, Has
<1>6. CASE RenameOld
  BY <1>6, InStep
     DEF RenameOld, Call, CallIf, Go, Treats, Steps, Inv, StepOK, Ready, Has
<1>7. CASE CheckHealth
  BY <1>7, InStep
     DEF CheckHealth, Call, CallIf, Go, Treats, Steps, Inv, StepOK, Ready, Has
<1>8. CASE StopTried
  BY <1>8, InStep
     DEF StopTried, Call, CallIf, Go, Treats, Steps, Inv, StepOK, Ready, Has
<1>9. CASE RemoveTried
  BY <1>9, InStep
     DEF RemoveTried, Call, CallIf, Go, Treats, Steps, Inv, StepOK, Ready, Has
<1>10. CASE RemoveNew
  BY <1>10, InStep
     DEF RemoveNew, Call, CallIf, Go, Treats, Steps, Inv, StepOK, Ready, Has
<1>11. CASE RenameBack
  BY <1>11, InStep
     DEF RenameBack, Call, CallIf, Go, Treats, Steps, Inv, StepOK, Ready, Has
<1>12. CASE Revive
  BY <1>12, InStep
     DEF Revive, Call, CallIf, Go, Treats, Steps, Inv, StepOK, Ready, Has
<1>13. CASE Settle
  BY <1>13, InStep
     DEF Settle, Call, CallIf, Go, Treats, Steps, Inv, StepOK, Ready, Has
<1>14. CASE DropPrevious
  BY <1>14, InStep
     DEF DropPrevious, Call, CallIf, Go, Treats, Steps, Inv, StepOK, Ready, Has
<1>15. CASE RemoveContainer
  BY <1>15, InStep
     DEF RemoveContainer, Call, CallIf, Go, Treats, Steps, Inv, StepOK, Ready, Has
<1>16. CASE RemoveGateway
  BY <1>16, InStep, SetGateHost
     DEF RemoveGateway, Call, CallIf, Go, Treats, Steps, Inv, StepOK, Ready, Has
<1>17. CASE RunGateway
  BY <1>17, InStep, SetGateHost
     DEF RunGateway, Call, CallIf, Go, Treats, Steps, Inv, StepOK, Ready, Has, Item
<1>18. CASE AwaitGateway
  BY <1>18, InStep
     DEF AwaitGateway, Call, CallIf, Go, Treats, Steps, Inv, StepOK, Ready, Has
<1>19. CASE TakeIdePort
  BY <1>19, InStep
     DEF TakeIdePort, Call, CallIf, Go, Treats, Steps, Inv, StepOK, Ready, Has
<1>20. CASE ClearIde
  BY <1>20, InStep, SetIdeHost
     DEF ClearIde, Call, CallIf, Go, Treats, Steps, Inv, StepOK, Ready, Has
<1>21. CASE RunIde
  <2> DEFINE ide(running) == [port |-> op.item.ide_port, running |-> running]
  <2>1. op.step \in Steps
    BY <1>21 DEF RunIde, Steps
  <2>2. ide(TRUE) \in IdeContainer /\ ide(FALSE) \in IdeContainer
    BY <2>1, InStep DEF IdeContainer, Item
  <2>3. host' \in {host, SetIde(op.app, ide(TRUE)), SetIde(op.app, ide(FALSE))}
    BY <1>21 DEF RunIde, Run, Call
  <2>4. QED
    BY <2>1, <2>2, <2>3, InStep, SetIdeHost DEF Treats
<1>22. CASE AwaitIde
  BY <1>22, InStep, SetIdeHost
     DEF AwaitIde, Call, CallIf, Go, Treats, Steps, Inv, StepOK, Ready, Has
<1>23. CASE RemoveIde
  BY <1>23, InStep, SetIdeHost
     DEF RemoveIde, Call, CallIf, Go, Treats, Steps, Inv, StepOK, Ready, Has
<1>24. CASE UnregisterIde
  BY <1>24, InStep
     DEF UnregisterIde, Call, CallIf, Go, Treats, Steps, Inv, StepOK, Ready, Has
<1>25. CASE QuietApp
  BY <1>25, InStep
     DEF QuietApp, Call, CallIf, Go, Treats, Steps, Inv, StepOK, Ready, Has
<1>26. CASE QuietIde
  <2>1. op.step \in Steps
    BY <1>26 DEF QuietIde, Steps
  <2>2. host[op.app].ide # Nothing => [host[op.app].ide EXCEPT !.running = FALSE] \in IdeContainer
    BY <2>1, InStep DEF Host, IdeContainer
  <2>3. \/ host' = host
        \/ /\ host[op.app].ide # Nothing
           /\ host' = SetIde(op.app, [host[op.app].ide EXCEPT !.running = FALSE])
    BY <1>26 DEF QuietIde, Call, Go
  <2>4. QED
    BY <2>1, <2>2, <2>3, InStep, SetIdeHost DEF Treats
<1>27. CASE GrowVolume
  BY <1>27, InStep, SetVolumeHost
     DEF GrowVolume, Call, CallIf, Go, Treats, Steps, Inv, StepOK, Ready, Has, Item
<1>28. CASE StartResized
  BY <1>28, InStep
     DEF StartResized, Call, CallIf, Go, Treats, Steps, Inv, StepOK, Ready, Has
<1>29. CASE UpdateContainer
  <2> DEFINE c == [host[op.app].cont EXCEPT !.memory = op.item.memory]
  <2>1. op.step \in Steps /\ host[op.app].cont # Nothing
    BY <1>29 DEF UpdateContainer, Steps, Inv, StepOK, Ready
  <2>2. host[op.app].cont \in AppContainer /\ op.item.memory \in Nat
    BY <2>1, InStep DEF Host, Item
  <2>3. c \in AppContainer
    BY <2>2 DEF AppContainer
  <2>4. c # Nothing
    BY <2>3, ConstantsAssumption
  <2>5. host' \in {host, SetCont(op.app, c)}
    BY <1>29 DEF UpdateContainer, Call
  <2>6. QED
    BY <2>1, <2>3, <2>4, <2>5, InStep, SetContHost DEF Treats
<1>30. CASE ResumeApp
  BY <1>30, InStep
     DEF ResumeApp, Call, CallIf, Go, Treats, Steps, Inv, StepOK, Ready, Has
<1>31. CASE ResumeIde
  <2>1. op.step \in Steps
    BY <1>31 DEF ResumeIde, Steps
  <2>2. host[op.app].ide # Nothing => [host[op.app].ide EXCEPT !.running = TRUE] \in IdeContainer
    BY <2>1, InStep DEF Host, IdeContainer
  <2>3. \/ host' = host
        \/ /\ host[op.app].ide # Nothing
           /\ host' = SetIde(op.app, [host[op.app].ide EXCEPT !.running = TRUE])
    BY <1>31 DEF ResumeIde, CallIf, Call, Go
  <2>4. QED
    BY <2>1, <2>2, <2>3, InStep, SetIdeHost DEF Treats
<1>32. QED
  BY <1>1, <1>2, <1>3, <1>4, <1>5, <1>6, <1>7, <1>8, <1>9, <1>10, <1>11, <1>12, <1>13, <1>14,
     <1>15, <1>16, <1>17, <1>18, <1>19, <1>20, <1>21, <1>22, <1>23, <1>24, <1>25, <1>26, <1>27,
     <1>28, <1>29, <1>30, <1>31 DEF Step

LEMMA CopyKept ==
    ASSUME Inv, op.step \in Steps, Treats(host'), NEW a \in Apps, HasCopy(a), ~HasCopy(a)'
    PROVE  op.kind \in {"delete", "egress"} /\ op.app = a
<1> DEFINE b == op.app
<1>1. CASE host' = host
  BY <1>1 DEF HasCopy, Has
<1>2. ASSUME NEW running \in BOOLEAN, host' = WithCont(b, running), Has(b) PROVE FALSE
  BY <1>2, InStep, WithContHost DEF HasCopy, Has, Becomes
<1>3. ASSUME NEW c \in AppContainer, c # Nothing, Becomes(host', b, c, host[b].prev) PROVE FALSE
  BY <1>3, InStep DEF HasCopy, Has, Becomes
<1>4. CASE /\ host' = SetCont(b, Nothing)
           /\ op.kind \in {"egress", "delete"} \/ host[b].prev # Nothing
  <2>1. Becomes(host', b, Nothing, host[b].prev)
    BY <1>4, InStep, SetContHost
  <2>2. QED
    BY <1>4, <2>1, InStep DEF HasCopy, Has, Becomes
<1>5. CASE host' = KeepCont(b) /\ Has(b)
  BY <1>5, InStep, KeepContHost DEF HasCopy, Has, Becomes
<1>6. CASE host' = TakeBack(b) /\ host[b].prev # Nothing
  BY <1>6, InStep, TakeBackHost DEF HasCopy, Has, Becomes
<1>7. CASE host' = SetPrev(b, Nothing) /\ Has(b)
  BY <1>7, InStep, SetPrevHost DEF HasCopy, Has, Becomes
<1>8. CASE Becomes(host', b, host[b].cont, host[b].prev)
  BY <1>8, InStep DEF HasCopy, Has, Becomes
<1>9. QED
  BY <1>1, <1>2, <1>3, <1>4, <1>5, <1>6, <1>7, <1>8 DEF Treats

\* Only a deletion or a change of egress removes the last container of an application: a
\* runtime switch keeps one whatever fails and wherever the agent is killed.
THEOREM LastContainersStay == Spec => LastContainerStays
<1>1. Inv /\ [Next]_vars =>
        [\A a \in Apps : HasCopy(a) /\ ~HasCopy(a)' =>
            op.kind \in {"delete", "egress"} /\ op.app = a]_vars
  <2> SUFFICES ASSUME Inv, Next, NEW a \in Apps, HasCopy(a), ~HasCopy(a)'
               PROVE  op.kind \in {"delete", "egress"} /\ op.app = a
    OBVIOUS
  <2>1. CASE Step
    BY <2>1, TreatsStep, CopyKept
  <2>2. CASE Request \/ Save \/ Crash
    <3>1. UNCHANGED host
      BY <2>2 DEF Request, Save, Crash, CreateApp, StartOrStop, SwitchRuntime, ConfigureEgress,
            EnableIde, DisableIde, ConfigureLimits, DeleteApp, SetBudget, Begin, Go
    <3>2. QED
      BY <3>1 DEF HasCopy, Has
  <2>3. QED
    BY <2>1, <2>2 DEF Next
<1>2. QED
  BY <1>1, Invariance, PTL DEF Spec, LastContainerStays

-----------------------------------------------------------------------------
(* Sums over finite sets: how SumFunctionOnSet, which is defined by recursion, depends on the *)
(* terms. The sum is the number of the units that the terms count; that it is, is shown with  *)
(* a minimal subset of which it would not be.                                                 *)

\* The units a function counts at one element, and at those of a set: as many as their sum.
UnitsAt(f, x) == {x} \X (1 .. f[x])
Units(f, S) == UNION {UnitsAt(f, x) : x \in S}

Counts(f, S) == IsFiniteSet(S) /\ \A x \in S : f[x] \in Nat

LEMMA UnitsFinite ==
    ASSUME NEW f, NEW S, Counts(f, S)
    PROVE  IsFiniteSet(Units(f, S))
<1> DEFINE T == {UnitsAt(f, x) : x \in S}
           s == [x \in S |-> UnitsAt(f, x)]
<1>1. s \in Surjection(S, T)
  BY DEF Surjection
<1>2. IsFiniteSet(T)
  BY <1>1, FS_Surjection DEF Counts
<1>3. ASSUME NEW x \in S PROVE IsFiniteSet(UnitsAt(f, x))
  <2>1. f[x] \in Int /\ 1 \in Int
    BY DEF Counts
  <2>2. IsFiniteSet({x}) /\ IsFiniteSet(1 .. f[x])
    BY <2>1, FS_Singleton, FS_Interval
  <2> QED
    BY <2>2, FS_Product DEF UnitsAt
<1>4. \A t \in T : IsFiniteSet(t)
  BY <1>3
<1> HIDE DEF T
<1>5. IsFiniteSet(UNION T)
  BY <1>2, <1>4, FS_UNION
<1> QED
  BY <1>5 DEF T, Units

LEMMA UnitsSplit ==
    ASSUME NEW f, NEW S, Counts(f, S), NEW x \in S
    PROVE  /\ Counts(f, S \ {x})
           /\ Cardinality(Units(f, S)) = f[x] + Cardinality(Units(f, S \ {x}))
<1>1. Counts(f, S \ {x})
  BY FS_RemoveElement DEF Counts
<1>2. Units(f, S) = UnitsAt(f, x) \cup Units(f, S \ {x})
  BY DEF Units
<1>3. UnitsAt(f, x) \cap Units(f, S \ {x}) = {}
  BY DEF Units, UnitsAt
<1>4. f[x] \in Nat /\ IsFiniteSet({x}) /\ Cardinality({x}) = 1
  BY FS_Singleton DEF Counts
<1>5. IsFiniteSet(1 .. f[x]) /\ Cardinality(1 .. f[x]) = f[x]
  <2>1. f[x] \in Int /\ 1 \in Int
    BY <1>4
  <2>2. /\ IsFiniteSet(1 .. f[x])
        /\ Cardinality(1 .. f[x]) = IF 1 > f[x] THEN 0 ELSE f[x] - 1 + 1
    BY <2>1, FS_Interval
  <2> QED
    BY <1>4, <2>2
<1>6. IsFiniteSet(UnitsAt(f, x)) /\ Cardinality(UnitsAt(f, x)) = f[x]
  <2>1. IsFiniteSet({x} \X (1 .. f[x]))
        /\ Cardinality({x} \X (1 .. f[x])) = Cardinality({x}) * Cardinality(1 .. f[x])
    BY <1>4, <1>5, FS_Product
  <2> QED
    BY <1>4, <1>5, <2>1 DEF UnitsAt
<1>7. IsFiniteSet(Units(f, S \ {x}))
  BY <1>1, UnitsFinite
<1>8. Cardinality(UnitsAt(f, x) \cup Units(f, S \ {x})) =
          Cardinality(UnitsAt(f, x)) + Cardinality(Units(f, S \ {x})) - Cardinality({})
  BY <1>3, <1>6, <1>7, FS_Union
<1>9. Cardinality(Units(f, S \ {x})) \in Nat /\ Cardinality({}) = 0
  BY <1>7, FS_CardinalityType, FS_EmptySet
<1> QED
  BY <1>1, <1>2, <1>4, <1>6, <1>8, <1>9

Recursion(g, f, S) ==
    g = [s \in SUBSET S |-> IF s = {} THEN 0
                            ELSE f[CHOOSE x \in s : TRUE] + g[s \ {CHOOSE x \in s : TRUE}]]

LEMMA SumIsFold ==
    ASSUME NEW f, NEW S
    PROVE  SumFunctionOnSet(f, S) = (CHOOSE g : Recursion(g, f, S))[S]
BY DEF SumFunctionOnSet, FoldFunctionOnSet, MapThenFoldSet, Recursion

\* The function that the recursion defines is the number of units.
LEMMA RecursionCounts ==
    ASSUME NEW f, NEW S, Counts(f, S), NEW g, Recursion(g, f, S)
    PROVE  g[S] = Cardinality(Units(f, S))
<1> DEFINE Bad == {s \in SUBSET S : g[s] # Cardinality(Units(f, s))}
<1>1. SUFFICES ASSUME Bad # {} PROVE FALSE
  OBVIOUS
<1>2. IsWellFoundedOn(StrictSubsetOrdering(S), SUBSET S)
  BY FS_StrictSubsetOrderingWellFounded, FS_FiniteSubsetsOfFinite DEF Counts
<1>3. PICK s \in Bad : \A t \in Bad : <<t, s>> \notin StrictSubsetOrdering(S)
  <2>1. Bad \subseteq SUBSET S
    OBVIOUS
  <2> HIDE DEF Bad
  <2> QED
    BY <1>1, <1>2, <2>1, WFMin
<1>4. s \in SUBSET S /\ g[s] # Cardinality(Units(f, s))
  OBVIOUS
<1>5. CASE s = {}
  <2>1. g[{}] = 0
    BY DEF Recursion
  <2>2. Units(f, {}) = {}
    BY DEF Units
  <2> QED
    BY <1>4, <1>5, <2>1, <2>2, FS_EmptySet
<1>6. CASE s # {}
  <2> DEFINE x == CHOOSE y \in s : TRUE
             t == s \ {x}
  <2>1. x \in s
    BY <1>6
  <2>2. g[s] = f[x] + g[t]
    BY <1>4, <1>6 DEF Recursion
  <2> HIDE DEF x
  <2>3. Counts(f, s)
    BY <1>4, FS_Subset DEF Counts
  <2>4. t \in SUBSET S /\ <<t, s>> \in StrictSubsetOrdering(S)
    BY <1>4, <2>1 DEF StrictSubsetOrdering
  <2>5. g[t] = Cardinality(Units(f, t))
    BY <1>3, <2>4
  <2>6. Cardinality(Units(f, s)) = f[x] + Cardinality(Units(f, t))
    BY <2>1, <2>3, UnitsSplit
  <2> QED
    BY <1>4, <2>2, <2>5, <2>6
<1> QED
  BY <1>5, <1>6

LEMMA RecursionHas ==
    ASSUME NEW f, NEW S, Counts(f, S)
    PROVE  \E g : Recursion(g, f, S)
<1> DEFINE g == [s \in SUBSET S |-> Cardinality(Units(f, s))]
<1>1. ASSUME NEW s \in SUBSET S
      PROVE  g[s] = IF s = {} THEN 0
                    ELSE f[CHOOSE x \in s : TRUE] + g[s \ {CHOOSE x \in s : TRUE}]
  <2>1. CASE s = {}
    <3>1. Units(f, {}) = {}
      BY DEF Units
    <3> QED
      BY <2>1, <3>1, FS_EmptySet
  <2>2. CASE s # {}
    <3> DEFINE x == CHOOSE y \in s : TRUE
    <3>1. x \in s
      BY <2>2
    <3> HIDE DEF x
    <3>2. Counts(f, s)
      BY FS_Subset DEF Counts
    <3>3. Cardinality(Units(f, s)) = f[x] + Cardinality(Units(f, s \ {x}))
      BY <3>1, <3>2, UnitsSplit
    <3>4. g[s] = f[x] + g[s \ {x}]
      BY <3>3
    <3> QED
      BY <2>2, <3>4 DEF x
  <2> QED
    BY <2>1, <2>2
<1> HIDE DEF g
<1>2. g = [s \in SUBSET S |-> g[s]]
  BY DEF g
<1>3. Recursion(g, f, S)
  BY <1>1, <1>2 DEF Recursion
<1> QED
  BY <1>3

LEMMA SumIs ==
    ASSUME NEW f, NEW S, Counts(f, S)
    PROVE  SumFunctionOnSet(f, S) = Cardinality(Units(f, S))
<1> DEFINE g == CHOOSE g : Recursion(g, f, S)
<1>1. Recursion(g, f, S)
  BY RecursionHas
<1> HIDE DEF g
<1>2. g[S] = Cardinality(Units(f, S))
  BY <1>1, RecursionCounts
<1> QED
  BY <1>2, SumIsFold DEF g

\* What a sum is made of: a term and the others.
LEMMA SumSplit ==
    ASSUME NEW f, NEW S, Counts(f, S)
    PROVE  /\ SumFunctionOnSet(f, S) \in Nat
           /\ \A x \in S : /\ Counts(f, S \ {x})
                           /\ SumFunctionOnSet(f, S) = f[x] + SumFunctionOnSet(f, S \ {x})
<1>1. Cardinality(Units(f, S)) \in Nat
  BY UnitsFinite, FS_CardinalityType
<1> QED
  BY <1>1, SumIs, UnitsSplit

\* Equal terms have equal sums.
LEMMA SumSame ==
    ASSUME NEW f, NEW g, NEW S, Counts(f, S), \A x \in S : g[x] = f[x]
    PROVE  Counts(g, S) /\ SumFunctionOnSet(g, S) = SumFunctionOnSet(f, S)
<1>1. Counts(g, S)
  BY DEF Counts
<1>2. Units(g, S) = Units(f, S)
  BY DEF Units, UnitsAt
<1> QED
  BY <1>1, <1>2, SumIs

\* No terms, or none but zeros, sum to zero.
LEMMA SumZero ==
    ASSUME NEW f, NEW S, IsFiniteSet(S), \A x \in S : f[x] = 0
    PROVE  SumFunctionOnSet(f, S) = 0
<1>1. Counts(f, S)
  BY DEF Counts
<1>2. Units(f, S) = {}
  <2>1. \A x \in S : UnitsAt(f, x) = {}
    BY DEF UnitsAt
  <2> QED
    BY <2>1 DEF Units
<1> QED
  BY <1>1, <1>2, SumIs, FS_EmptySet

LEMMA SumEmpty == \A f : SumFunctionOnSet(f, {}) = 0
BY SumZero, FS_EmptySet

-----------------------------------------------------------------------------
(* The budget. *)

\* What the entries of a registry reserve of memory, and the sizes of the volumes.
Reserved(r) == [a \in DOMAIN r.items |-> r.items[a].memory
                                         + (IF r.items[a].ide_enabled THEN IdeMemory ELSE 0)]
Volumes(h) == [a \in Apps |-> h[a].volume]

MemoryOf(item) == item.memory + (IF item.ide_enabled THEN IdeMemory ELSE 0)

Within(r, h) ==
    /\ SumFunctionOnSet(Reserved(r), DOMAIN r.items) <= r.budget.memory
    /\ SumFunctionOnSet(Volumes(h), Apps) <= r.budget.disk

\* An entry in the place of that of a application fits into the memory of the account, and a
\* size in the place of that of its volume into the disk.
Room(r, a, item) ==
    SumFunctionOnSet(Reserved(r), DOMAIN r.items \ {a}) + MemoryOf(item) <= r.budget.memory
Space(r, h, a, size) == SumFunctionOnSet(Volumes(h), Apps \ {a}) + size <= r.budget.disk

\* Every registered application has a volume, so that the size it asked for never counts.
BudgetKept ==
    /\ Within(reg, host) /\ Within(saved, host)
    /\ \A a \in Registered \cup DOMAIN saved.items : host[a].volume # 0
    /\ InOperation =>
        /\ saved.budget = reg.budget
        /\ Room(reg, op.app, op.item) /\ Room(reg, op.app, op.old)
        /\ op.kind \in {"create", "limits"} => Space(reg, host, op.app, op.item.disk)
        /\ op.kind = "create" /\ op.step # "volume" => host[op.app].volume # 0

\* What each call makes of the host: all that podman keeps for one application.
Remade(h, a, cont, prev, ide, gate, volume) ==
    /\ h \in [Apps -> Host]
    /\ \A b \in Apps \ {a} : h[b] = host[b]
    /\ h[a].cont = cont /\ h[a].prev = prev /\ h[a].ide = ide
    /\ h[a].gate = gate /\ h[a].volume = volume

LEMMA Remakes ==
    ASSUME host \in [Apps -> Host], NEW a \in Apps
    PROVE  /\ \A c \in AppContainer \cup {Nothing} :
                /\ Remade(SetCont(a, c), a, c, host[a].prev, host[a].ide, host[a].gate,
                          host[a].volume)
                /\ Remade(SetPrev(a, c), a, host[a].cont, c, host[a].ide, host[a].gate,
                          host[a].volume)
           /\ \A i \in IdeContainer \cup {Nothing} :
                Remade(SetIde(a, i), a, host[a].cont, host[a].prev, i, host[a].gate,
                       host[a].volume)
           /\ \A n \in Nat :
                /\ Remade(SetGate(a, n), a, host[a].cont, host[a].prev, host[a].ide, n,
                          host[a].volume)
                /\ Remade(SetVolume(a, n), a, host[a].cont, host[a].prev, host[a].ide,
                          host[a].gate, n)
           /\ Remade(KeepCont(a), a, Nothing, host[a].cont, host[a].ide, host[a].gate,
                     host[a].volume)
           /\ Remade(TakeBack(a), a, host[a].prev, Nothing, host[a].ide, host[a].gate,
                     host[a].volume)
           /\ Has(a) => \A running \in BOOLEAN :
                Remade(WithCont(a, running), a, [host[a].cont EXCEPT !.running = running],
                       host[a].prev, host[a].ide, host[a].gate, host[a].volume)
<1>1. ASSUME NEW c \in AppContainer \cup {Nothing}
      PROVE  /\ Remade(SetCont(a, c), a, c, host[a].prev, host[a].ide, host[a].gate,
                       host[a].volume)
             /\ Remade(SetPrev(a, c), a, host[a].cont, c, host[a].ide, host[a].gate,
                       host[a].volume)
  <2>1. Remade(SetCont(a, c), a, c, host[a].prev, host[a].ide, host[a].gate, host[a].volume)
    BY DEF Remade, Host, SetCont
  <2>2. Remade(SetPrev(a, c), a, host[a].cont, c, host[a].ide, host[a].gate, host[a].volume)
    BY DEF Remade, Host, SetPrev
  <2>3. QED
    BY <2>1, <2>2
<1>2. ASSUME NEW i \in IdeContainer \cup {Nothing}
      PROVE  Remade(SetIde(a, i), a, host[a].cont, host[a].prev, i, host[a].gate, host[a].volume)
  BY DEF Remade, Host, SetIde
<1>3. ASSUME NEW n \in Nat
      PROVE  /\ Remade(SetGate(a, n), a, host[a].cont, host[a].prev, host[a].ide, n,
                       host[a].volume)
             /\ Remade(SetVolume(a, n), a, host[a].cont, host[a].prev, host[a].ide,
                       host[a].gate, n)
  <2>1. Remade(SetGate(a, n), a, host[a].cont, host[a].prev, host[a].ide, n, host[a].volume)
    BY DEF Remade, Host, SetGate
  <2>2. Remade(SetVolume(a, n), a, host[a].cont, host[a].prev, host[a].ide, host[a].gate, n)
    BY DEF Remade, Host, SetVolume
  <2>3. QED
    BY <2>1, <2>2
<1>4. Remade(KeepCont(a), a, Nothing, host[a].cont, host[a].ide, host[a].gate, host[a].volume)
  BY DEF Remade, Host, KeepCont
<1>5. Remade(TakeBack(a), a, host[a].prev, Nothing, host[a].ide, host[a].gate, host[a].volume)
  BY DEF Remade, Host, TakeBack
<1>6. ASSUME Has(a), NEW running \in BOOLEAN
      PROVE  Remade(WithCont(a, running), a, [host[a].cont EXCEPT !.running = running],
                    host[a].prev, host[a].ide, host[a].gate, host[a].volume)
  <2>1. host[a].cont \in AppContainer
    BY <1>6 DEF Host, Has
  <2>2. [host[a].cont EXCEPT !.running = running] \in AppContainer
    BY <2>1 DEF AppContainer
  <2>3. QED
    BY <1>1, <2>2 DEF WithCont
<1>7. QED
  BY <1>1, <1>2, <1>3, <1>4, <1>5, <1>6

LEMMA ReservedCounts ==
    ASSUME NEW r, IsRegistry(r), NEW S, S \subseteq DOMAIN r.items
    PROVE  Counts(Reserved(r), S)
<1>1. IsFiniteSet(S)
  BY ConstantsAssumption, FS_Subset DEF IsRegistry
<1>2. ASSUME NEW a \in S PROVE Reserved(r)[a] \in Nat
  BY ConstantsAssumption DEF IsRegistry, Reserved, Item
<1>3. QED
  BY <1>1, <1>2 DEF Counts

LEMMA VolumesCount ==
    ASSUME NEW h \in [Apps -> Host], NEW S, S \subseteq Apps
    PROVE  Counts(Volumes(h), S)
<1>1. IsFiniteSet(S)
  BY ConstantsAssumption, FS_Subset
<1>2. ASSUME NEW a \in S PROVE Volumes(h)[a] \in Nat
  BY DEF Volumes, Host
<1>3. QED
  BY <1>1, <1>2 DEF Counts

\* What used counts, when every registered application has a volume.
LEMMA UsedIs ==
    ASSUME host \in [Apps -> Host], IsRegistry(reg), NEW except
    PROVE  /\ UsedMemory(except) = SumFunctionOnSet(Reserved(reg), Registered \ except)
           /\ (\A a \in Registered : host[a].volume # 0) =>
                  UsedDisk(except) = SumFunctionOnSet(Volumes(host), Apps \ except)
<1>1. UsedMemory(except) = SumFunctionOnSet(Reserved(reg), Registered \ except)
  BY DEF UsedMemory, Reserved, Registered
<1>2. ASSUME \A a \in Registered : host[a].volume # 0
      PROVE  UsedDisk(except) = SumFunctionOnSet(Volumes(host), Apps \ except)
  <2>1. [a \in Apps |-> IF host[a].volume # 0 THEN host[a].volume
                        ELSE IF a \in Registered THEN reg.items[a].disk ELSE 0] = Volumes(host)
    BY <1>2 DEF Volumes, Host
  <2>2. QED
    BY <2>1 DEF UsedDisk
<1>3. QED
  BY <1>1, <1>2

\* The memory that is reserved splits into that of one application and that of the others.
LEMMA MemorySplit ==
    ASSUME NEW r, IsRegistry(r), NEW a
    PROVE  /\ SumFunctionOnSet(Reserved(r), DOMAIN r.items \ {a}) \in Nat
           /\ SumFunctionOnSet(Reserved(r), DOMAIN r.items) \in Nat
           /\ a \in DOMAIN r.items =>
                  /\ MemoryOf(r.items[a]) \in Nat
                  /\ SumFunctionOnSet(Reserved(r), DOMAIN r.items) =
                         MemoryOf(r.items[a]) + SumFunctionOnSet(Reserved(r), DOMAIN r.items \ {a})
           /\ a \notin DOMAIN r.items => DOMAIN r.items \ {a} = DOMAIN r.items
<1>1. Counts(Reserved(r), DOMAIN r.items) /\ Counts(Reserved(r), DOMAIN r.items \ {a})
  BY ReservedCounts
<1>2. ASSUME a \in DOMAIN r.items
      PROVE  /\ MemoryOf(r.items[a]) \in Nat
             /\ SumFunctionOnSet(Reserved(r), DOMAIN r.items) =
                   MemoryOf(r.items[a]) + SumFunctionOnSet(Reserved(r), DOMAIN r.items \ {a})
  <2>1. Reserved(r)[a] = MemoryOf(r.items[a])
    BY <1>2 DEF Reserved, MemoryOf
  <2>2. Reserved(r)[a] \in Nat
    BY <1>1, <1>2 DEF Counts
  <2>3. SumFunctionOnSet(Reserved(r), DOMAIN r.items) =
            Reserved(r)[a] + SumFunctionOnSet(Reserved(r), DOMAIN r.items \ {a})
    BY <1>1, <1>2, SumSplit
  <2>4. QED
    BY <2>1, <2>2, <2>3
<1>3. QED
  BY <1>1, <1>2, SumSplit

\* So do the volumes.
LEMMA DiskSplit ==
    ASSUME NEW h \in [Apps -> Host], NEW a \in Apps
    PROVE  /\ SumFunctionOnSet(Volumes(h), Apps \ {a}) \in Nat
           /\ SumFunctionOnSet(Volumes(h), Apps) =
                  h[a].volume + SumFunctionOnSet(Volumes(h), Apps \ {a})
<1>1. Counts(Volumes(h), Apps) /\ Counts(Volumes(h), Apps \ {a})
  BY VolumesCount
<1>2. SumFunctionOnSet(Volumes(h), Apps) =
          Volumes(h)[a] + SumFunctionOnSet(Volumes(h), Apps \ {a})
  BY <1>1, SumSplit
<1>3. QED
  BY <1>1, <1>2, SumSplit DEF Volumes

\* Registries that differ only in one entry leave the same room for it.
LEMMA SameRoom ==
    ASSUME NEW r, NEW q, IsRegistry(r), IsRegistry(q), NEW a,
           DOMAIN q.items \ {a} = DOMAIN r.items \ {a}, q.budget = r.budget,
           \A b \in DOMAIN r.items \ {a} : q.items[b] = r.items[b]
    PROVE  /\ SumFunctionOnSet(Reserved(q), DOMAIN q.items \ {a}) =
                  SumFunctionOnSet(Reserved(r), DOMAIN r.items \ {a})
           /\ \A item : Room(q, a, item) <=> Room(r, a, item)
<1>1. Counts(Reserved(r), DOMAIN r.items \ {a})
  BY ReservedCounts
<1>2. \A b \in DOMAIN r.items \ {a} : Reserved(q)[b] = Reserved(r)[b]
  BY DEF Reserved
<1>3. SumFunctionOnSet(Reserved(q), DOMAIN q.items \ {a}) =
          SumFunctionOnSet(Reserved(r), DOMAIN r.items \ {a})
  BY <1>1, <1>2, SumSame
<1>4. QED
  BY <1>3 DEF Room

\* Hosts that differ only in one volume leave the same space for it.
LEMMA SameSpace ==
    ASSUME NEW h \in [Apps -> Host], NEW g \in [Apps -> Host], NEW a \in Apps,
           \A b \in Apps \ {a} : g[b].volume = h[b].volume
    PROVE  SumFunctionOnSet(Volumes(g), Apps \ {a}) = SumFunctionOnSet(Volumes(h), Apps \ {a})
<1>1. Counts(Volumes(h), Apps \ {a})
  BY VolumesCount
<1>2. \A b \in Apps \ {a} : Volumes(g)[b] = Volumes(h)[b]
  BY DEF Volumes
<1>3. QED
  BY <1>1, <1>2, SumSame

\* A registry in which one entry was replaced by one there is room for, or removed, is within
\* the memory.
LEMMA RoomSuffices ==
    ASSUME NEW r, NEW q, IsRegistry(r), IsRegistry(q), NEW a, q.budget = r.budget,
           DOMAIN q.items \ {a} = DOMAIN r.items \ {a},
           \A b \in DOMAIN r.items \ {a} : q.items[b] = r.items[b],
           a \in DOMAIN q.items => Room(r, a, q.items[a]),
           SumFunctionOnSet(Reserved(r), DOMAIN r.items) <= r.budget.memory
    PROVE  SumFunctionOnSet(Reserved(q), DOMAIN q.items) <= q.budget.memory
<1>1. SumFunctionOnSet(Reserved(q), DOMAIN q.items \ {a}) =
          SumFunctionOnSet(Reserved(r), DOMAIN r.items \ {a})
  BY SameRoom
<1>2. CASE a \in DOMAIN q.items
  BY <1>1, <1>2, MemorySplit DEF Room
<1>3. CASE a \notin DOMAIN q.items
  <2>1. r.budget.memory \in Nat
    BY DEF IsRegistry, Amounts
  <2> DEFINE all == SumFunctionOnSet(Reserved(r), DOMAIN r.items)
             others == SumFunctionOnSet(Reserved(r), DOMAIN r.items \ {a})
  <2>2. all \in Nat /\ others \in Nat /\ others <= all
    <3>1. all \in Nat /\ others \in Nat
      BY MemorySplit
    <3>2. CASE a \in DOMAIN r.items
      <4>1. MemoryOf(r.items[a]) \in Nat /\ all = MemoryOf(r.items[a]) + others
        BY <3>2, MemorySplit
      <4> HIDE DEF all, others
      <4>2. QED
        BY <3>1, <4>1
    <3>3. CASE a \notin DOMAIN r.items
      <4>1. all = others
        BY <3>3, MemorySplit
      <4>2. QED
        BY <3>1, <4>1
    <3>4. QED
      BY <3>2, <3>3
  <2>3. SumFunctionOnSet(Reserved(q), DOMAIN q.items) =
            others
    BY <1>1, <1>3, MemorySplit
  <2>4. all <= r.budget.memory
    OBVIOUS
  <2> HIDE DEF all, others
  <2>5. QED
    BY <2>1, <2>2, <2>3, <2>4
<1>4. QED
  BY <1>2, <1>3

\* What a step makes of volumes, entries and the operation, as far as it matters for the budget.
Frugal(h) ==
    /\ h \in [Apps -> Host]
    /\ \A b \in Apps \ {op.app} : h[b].volume = host[b].volume
    /\ \/ h[op.app].volume = host[op.app].volume
       \/ op.kind \in {"create", "limits"} /\ h[op.app].volume = op.item.disk

Modest(r) ==
    /\ IsRegistry(r) /\ r.budget = reg.budget
    /\ DOMAIN r.items \ {op.app} = Registered \ {op.app}
    /\ \A b \in Registered \ {op.app} : r.items[b] = reg.items[b]
    /\ op.app \in DOMAIN r.items =>
        \/ op.app \in Registered /\ r.items[op.app] = reg.items[op.app]
        \/ /\ op.step # "volume"
           /\ \E item \in {op.item, op.old} : MemoryOf(r.items[op.app]) = MemoryOf(item)

Pursues(o, h) ==
    \/ o = Ended
    \/ /\ o.kind # "none" /\ o.app = op.app /\ o.old = op.old
       /\ MemoryOf(o.item) = MemoryOf(op.item) /\ o.item.disk = op.item.disk
       /\ o.kind \in {"create", "limits"} => o.kind = op.kind
       /\ op.step = "volume" => h[op.app].volume # 0

LEMMA FrugalWhen ==
    ASSUME Inv, op.step \in Steps
    PROVE  /\ Frugal(host)
           /\ \A h, cont, prev, ide, gate :
                Remade(h, op.app, cont, prev, ide, gate, host[op.app].volume) => Frugal(h)
           /\ op.kind \in {"create", "limits"} => Frugal(SetVolume(op.app, op.item.disk))
<1>1. op.item.disk \in Nat
  BY InStep DEF Item
<1>2. QED
  BY <1>1, InStep, Remakes DEF Frugal, Remade

LEMMA FrugalCalls ==
    ASSUME Inv, op.step \in Steps
    PROVE  /\ \A c \in AppContainer \cup {Nothing} :
                Frugal(SetCont(op.app, c)) /\ Frugal(SetPrev(op.app, c))
           /\ \A i \in IdeContainer \cup {Nothing} : Frugal(SetIde(op.app, i))
           /\ \A n \in Nat : Frugal(SetGate(op.app, n))
           /\ Frugal(KeepCont(op.app)) /\ Frugal(TakeBack(op.app))
           /\ Has(op.app) => Frugal(WithCont(op.app, TRUE)) /\ Frugal(WithCont(op.app, FALSE))
BY InStep, Remakes, FrugalWhen

LEMMA ModestWhen ==
    ASSUME Inv, op.step \in Steps
    PROVE  /\ Modest(reg)
           /\ op.step # "volume" =>
                  Modest(Register(op.app, op.item)) /\ Modest(Register(op.app, op.old))
<1>1. Modest(reg)
  BY InStep DEF Modest, Registered
<1>2. ASSUME op.step # "volume", NEW item \in {op.item, op.old}
      PROVE  Modest(Register(op.app, item))
  <2>1. item \in Item
    BY InStep
  <2>2. /\ IsRegistry(Register(op.app, item))
        /\ DOMAIN Register(op.app, item).items = Registered \cup {op.app}
        /\ Register(op.app, item).items[op.app] = item
        /\ \A b \in Registered \ {op.app} : Register(op.app, item).items[b] = reg.items[b]
        /\ Register(op.app, item).budget = reg.budget
    BY <2>1, InStep, RegisterType
  <2>3. QED
    BY <1>2, <2>2 DEF Modest
<1>3. QED
  BY <1>1, <1>2

LEMMA PursuesWhen ==
    ASSUME Inv, op.step \in Steps, op.step # "volume", NEW s \in Steps
    PROVE  \A h : Pursues(To(s), h)
BY Steady, InStep DEF Pursues, Operation, Kinds

LEMMA PursuesEnded == \A h : Pursues(Ended, h)
BY DEF Pursues

Thrifty ==
    /\ op.step \in Steps /\ saved' = saved
    /\ Frugal(host') /\ Modest(reg') /\ Pursues(op', host')

LEMMA MakeVolumeThrifty == ASSUME Inv, MakeVolume PROVE Thrifty
<1>1. op.step = "volume" /\ op.step \in Steps /\ op.kind = "create" /\ op.item.disk \in Nat \ {0}
  BY InStep DEF MakeVolume, Steps, Inv, StepOK, Ready, Item
<1>2. SetVolume(op.app, op.item.disk)[op.app].volume # 0
  BY <1>1, InStep, Remakes DEF Remade
<1>3. Pursues(To("port"), SetVolume(op.app, op.item.disk))
  BY <1>1, <1>2, InStep, Steady DEF Pursues, Operation, Kinds, Steps
<1>4. QED
  BY <1>1, <1>3, InStep, FrugalWhen, ModestWhen, PursuesEnded DEF MakeVolume, Call, Thrifty

LEMMA TakePortThrifty == ASSUME Inv, TakePort PROVE Thrifty
<1> DEFINE port == reg.ports + 1
           r == [reg EXCEPT !.ports = port]
           next == [op EXCEPT !.item.port = port, !.step = "run"]
<1>1. op.step = "port" /\ op.step \in Steps /\ op \in Operation /\ reg.ports \in Nat
  BY InStep DEF TakePort, Steps, IsRegistry
<1>2. Modest(r)
  BY <1>1, InStep DEF Modest, IsRegistry, Registered
<1>3. /\ next.kind = op.kind /\ next.app = op.app /\ next.old = op.old
      /\ next.item = [op.item EXCEPT !.port = port]
  BY <1>1 DEF Operation
<1>4. \A h : Pursues(next, h)
  BY <1>1, <1>3, InStep DEF Pursues, Operation, Kinds, MemoryOf, Item
<1>5. QED
  BY <1>1, <1>2, <1>4, InStep, FrugalWhen, ModestWhen, PursuesEnded DEF TakePort, Go, Thrifty

LEMMA RunContainerThrifty == ASSUME Inv, RunContainer PROVE Thrifty
<1> DEFINE a == op.app
           created == [version |-> op.item.version, memory |-> op.item.memory,
                       port |-> op.item.port, proxied |-> op.item.proxied, running |-> FALSE]
           started == [created EXCEPT !.running = TRUE]
<1>1. op.step = "run" /\ op.step \in Steps
  BY DEF RunContainer, Steps
<1>2. created \in AppContainer /\ started \in AppContainer
  BY <1>1, InStep DEF AppContainer, Item
<1>3. Frugal(SetCont(a, created)) /\ Frugal(SetCont(a, started)) /\ Frugal(host)
  BY <1>1, <1>2, FrugalWhen, FrugalCalls
<1>4. /\ host' \in {host, SetCont(a, created), SetCont(a, started)}
      /\ reg' \in {reg, Register(a, op.item)} /\ saved' = saved
      /\ op' \in {Ended, To("health"), To("settle"), To("rollback")}
  BY DEF RunContainer, Run, Call
<1>5. \A h : Pursues(op', h)
  BY <1>1, <1>4, PursuesWhen, PursuesEnded DEF Steps
<1>6. QED
  BY <1>1, <1>3, <1>4, <1>5, ModestWhen DEF Thrifty

LEMMA VerbThrifty == ASSUME Inv, Verb PROVE Thrifty
<1>1. op.step \in Steps /\ op.step # "volume"
  BY DEF Verb, Steps
<1>2. QED
  BY <1>1, InStep, FrugalWhen, FrugalCalls, ModestWhen, PursuesWhen, PursuesEnded
     DEF Verb, Call, CallIf, Go, Recreate, Thrifty, Steps, Inv, StepOK, Ready, Has

LEMMA StopOldThrifty == ASSUME Inv, StopOld PROVE Thrifty
<1>1. op.step \in Steps /\ op.step # "volume"
  BY DEF StopOld, Steps
<1>2. QED
  BY <1>1, InStep, FrugalWhen, FrugalCalls, ModestWhen, PursuesWhen, PursuesEnded
     DEF StopOld, Call, CallIf, Go, Recreate, Thrifty, Steps, Inv, StepOK, Ready, Has

LEMMA RenameOldThrifty == ASSUME Inv, RenameOld PROVE Thrifty
<1>1. op.step \in Steps /\ op.step # "volume"
  BY DEF RenameOld, Steps
<1>2. QED
  BY <1>1, InStep, FrugalWhen, FrugalCalls, ModestWhen, PursuesWhen, PursuesEnded
     DEF RenameOld, Call, CallIf, Go, Recreate, Thrifty, Steps, Inv, StepOK, Ready, Has

LEMMA CheckHealthThrifty == ASSUME Inv, CheckHealth PROVE Thrifty
<1>1. op.step \in Steps /\ op.step # "volume"
  BY DEF CheckHealth, Steps
<1>2. QED
  BY <1>1, InStep, FrugalWhen, FrugalCalls, ModestWhen, PursuesWhen, PursuesEnded
     DEF CheckHealth, Call, CallIf, Go, Recreate, Thrifty, Steps, Inv, StepOK, Ready, Has

LEMMA StopTriedThrifty == ASSUME Inv, StopTried PROVE Thrifty
<1>1. op.step \in Steps /\ op.step # "volume"
  BY DEF StopTried, Steps
<1>2. QED
  BY <1>1, InStep, FrugalWhen, FrugalCalls, ModestWhen, PursuesWhen, PursuesEnded
     DEF StopTried, Call, CallIf, Go, Recreate, Thrifty, Steps, Inv, StepOK, Ready, Has

LEMMA RemoveTriedThrifty == ASSUME Inv, RemoveTried PROVE Thrifty
<1>1. op.step = "discard" /\ op.step \in Steps /\ op \in Operation /\ op.kind = "runtime"
  BY InStep DEF RemoveTried, Steps, Inv, StepOK, Ready
<1>2. ASSUME NEW s \in {"run", "rollback"}, NEW h
      PROVE  Pursues([To(s) EXCEPT !.kind = "activate"], h)
  BY <1>1 DEF Pursues, To, Operation
<1>3. \A h : Pursues([Recreate("run", To("rollback")) EXCEPT !.kind = "activate"], h)
  BY <1>2 DEF Recreate
<1>4. \A h : Pursues(To("rollback"), h)
  BY <1>1, PursuesWhen DEF Steps
<1>5. QED
  BY <1>1, <1>3, <1>4, FrugalWhen, FrugalCalls, ModestWhen DEF RemoveTried, Call, Thrifty

LEMMA RemoveNewThrifty == ASSUME Inv, RemoveNew PROVE Thrifty
<1>1. op.step \in Steps /\ op.step # "volume"
  BY DEF RemoveNew, Steps
<1>2. QED
  BY <1>1, InStep, FrugalWhen, FrugalCalls, ModestWhen, PursuesWhen, PursuesEnded
     DEF RemoveNew, Call, CallIf, Go, Recreate, Thrifty, Steps, Inv, StepOK, Ready, Has

LEMMA RenameBackThrifty == ASSUME Inv, RenameBack PROVE Thrifty
<1>1. op.step \in Steps /\ op.step # "volume"
  BY DEF RenameBack, Steps
<1>2. QED
  BY <1>1, InStep, FrugalWhen, FrugalCalls, ModestWhen, PursuesWhen, PursuesEnded
     DEF RenameBack, Call, CallIf, Go, Recreate, Thrifty, Steps, Inv, StepOK, Ready, Has

LEMMA ReviveThrifty == ASSUME Inv, Revive PROVE Thrifty
<1>1. op.step \in Steps /\ op.step # "volume"
  BY DEF Revive, Steps
<1>2. QED
  BY <1>1, InStep, FrugalWhen, FrugalCalls, ModestWhen, PursuesWhen, PursuesEnded
     DEF Revive, Call, CallIf, Go, Recreate, Thrifty, Steps, Inv, StepOK, Ready, Has

LEMMA SettleThrifty == ASSUME Inv, Settle PROVE Thrifty
<1>1. op.step \in Steps /\ op.step # "volume"
  BY DEF Settle, Steps
<1>2. QED
  BY <1>1, InStep, FrugalWhen, FrugalCalls, ModestWhen, PursuesWhen, PursuesEnded
     DEF Settle, Call, CallIf, Go, Recreate, Thrifty, Steps, Inv, StepOK, Ready, Has

LEMMA DropPreviousThrifty == ASSUME Inv, DropPrevious PROVE Thrifty
<1>1. op.step \in Steps /\ op.step # "volume"
  BY DEF DropPrevious, Steps
<1>2. QED
  BY <1>1, InStep, FrugalWhen, FrugalCalls, ModestWhen, PursuesWhen, PursuesEnded
     DEF DropPrevious, Call, CallIf, Go, Recreate, Thrifty, Steps, Inv, StepOK, Ready, Has

LEMMA RemoveContainerThrifty == ASSUME Inv, RemoveContainer PROVE Thrifty
<1>1. op.step \in Steps /\ op.step # "volume"
  BY DEF RemoveContainer, Steps
<1>2. QED
  BY <1>1, InStep, FrugalWhen, FrugalCalls, ModestWhen, PursuesWhen, PursuesEnded
     DEF RemoveContainer, Call, CallIf, Go, Recreate, Thrifty, Steps, Inv, StepOK, Ready, Has

LEMMA RemoveGatewayThrifty == ASSUME Inv, RemoveGateway PROVE Thrifty
<1> DEFINE a == op.app
<1>1. op.step = "cleanup" /\ op.step \in Steps /\ a \in Apps /\ IsRegistry(reg)
  BY InStep DEF RemoveGateway, Steps
<1>2. Modest(Forget(a))
  <2>1. Forget(a).budget = reg.budget
    BY <1>1 DEF Forget, IsRegistry
  <2>2. QED
    BY <1>1, <2>1, ForgetType DEF Modest
<1>3. /\ host' \in {host, SetGate(a, 0)} /\ reg' \in {reg, Forget(a)} /\ saved' = saved
      /\ op' \in {Ended, To("gateway"), To("run")}
  BY DEF RemoveGateway, Call, Recreate
<1>4. \A h : Pursues(op', h)
  BY <1>1, <1>3, PursuesWhen, PursuesEnded DEF Steps
<1>5. QED
  BY <1>1, <1>2, <1>3, <1>4, FrugalWhen, FrugalCalls, ModestWhen DEF Thrifty

LEMMA RunGatewayThrifty == ASSUME Inv, RunGateway PROVE Thrifty
<1>1. op.step = "gateway" /\ op.step \in Steps /\ op.item.port \in Nat
  BY InStep DEF RunGateway, Steps, Item
<1>2. Frugal(SetGate(op.app, op.item.port))
  BY <1>1, FrugalCalls
<1>3. QED
  BY <1>1, <1>2, FrugalWhen, ModestWhen, PursuesWhen, PursuesEnded
     DEF RunGateway, Call, CallIf, Thrifty, Steps

LEMMA AwaitGatewayThrifty == ASSUME Inv, AwaitGateway PROVE Thrifty
<1>1. op.step \in Steps /\ op.step # "volume"
  BY DEF AwaitGateway, Steps
<1>2. QED
  BY <1>1, InStep, FrugalWhen, FrugalCalls, ModestWhen, PursuesWhen, PursuesEnded
     DEF AwaitGateway, Call, CallIf, Go, Recreate, Thrifty, Steps, Inv, StepOK, Ready, Has

LEMMA TakeIdePortThrifty == ASSUME Inv, TakeIdePort PROVE Thrifty
<1> DEFINE new == reg.ports + 1
           port == IF op.item.ide_port = 0 THEN new ELSE op.item.ide_port
           ports == IF op.item.ide_port = 0 THEN new ELSE reg.ports
           r == [reg EXCEPT !.ports = ports]
           next == [op EXCEPT !.item.ide_port = port, !.step = "ide_clear"]
<1>1. op.step = "ide_port" /\ op.step \in Steps /\ op \in Operation /\ ports \in Nat
  BY InStep DEF TakeIdePort, Steps, IsRegistry
<1>2. Modest(r)
  BY <1>1, InStep DEF Modest, IsRegistry, Registered
<1>3. /\ next.kind = op.kind /\ next.app = op.app /\ next.old = op.old
      /\ next.item = [op.item EXCEPT !.ide_port = port]
  BY <1>1 DEF Operation
<1>4. \A h : Pursues(next, h)
  BY <1>1, <1>3, InStep DEF Pursues, Operation, Kinds, MemoryOf, Item
<1>5. QED
  BY <1>1, <1>2, <1>4, InStep, FrugalWhen, ModestWhen, PursuesEnded DEF TakeIdePort, Go, Thrifty

LEMMA ClearIdeThrifty == ASSUME Inv, ClearIde PROVE Thrifty
<1>1. op.step \in Steps /\ op.step # "volume"
  BY DEF ClearIde, Steps
<1>2. QED
  BY <1>1, InStep, FrugalWhen, FrugalCalls, ModestWhen, PursuesWhen, PursuesEnded
     DEF ClearIde, Call, CallIf, Go, Recreate, Thrifty, Steps, Inv, StepOK, Ready, Has

LEMMA RunIdeThrifty == ASSUME Inv, RunIde PROVE Thrifty
<1> DEFINE ide(running) == [port |-> op.item.ide_port, running |-> running]
<1>1. op.step = "ide_run" /\ op.step \in Steps
  BY DEF RunIde, Steps
<1>2. ide(TRUE) \in IdeContainer /\ ide(FALSE) \in IdeContainer
  BY <1>1, InStep DEF IdeContainer, Item
<1>3. Frugal(SetIde(op.app, ide(TRUE))) /\ Frugal(SetIde(op.app, ide(FALSE)))
  BY <1>1, <1>2, FrugalCalls
<1>4. /\ host' \in {host, SetIde(op.app, ide(TRUE)), SetIde(op.app, ide(FALSE))}
      /\ reg' = reg /\ saved' = saved /\ op' \in {Ended, To("ide_ready")}
  BY DEF RunIde, Run, Call
<1>5. QED
  BY <1>1, <1>3, <1>4, FrugalWhen, ModestWhen, PursuesWhen, PursuesEnded DEF Thrifty, Steps

LEMMA AwaitIdeThrifty == ASSUME Inv, AwaitIde PROVE Thrifty
<1>1. op.step \in Steps /\ op.step # "volume"
  BY DEF AwaitIde, Steps
<1>2. QED
  BY <1>1, InStep, FrugalWhen, FrugalCalls, ModestWhen, PursuesWhen, PursuesEnded
     DEF AwaitIde, Call, CallIf, Go, Recreate, Thrifty, Steps, Inv, StepOK, Ready, Has

LEMMA RemoveIdeThrifty == ASSUME Inv, RemoveIde PROVE Thrifty
<1>1. op.step \in Steps /\ op.step # "volume"
  BY DEF RemoveIde, Steps
<1>2. QED
  BY <1>1, InStep, FrugalWhen, FrugalCalls, ModestWhen, PursuesWhen, PursuesEnded
     DEF RemoveIde, Call, CallIf, Go, Recreate, Thrifty, Steps, Inv, StepOK, Ready, Has

LEMMA UnregisterIdeThrifty == ASSUME Inv, UnregisterIde PROVE Thrifty
<1>1. op.step \in Steps /\ op.step # "volume"
  BY DEF UnregisterIde, Steps
<1>2. QED
  BY <1>1, InStep, FrugalWhen, FrugalCalls, ModestWhen, PursuesWhen, PursuesEnded
     DEF UnregisterIde, Call, CallIf, Go, Recreate, Thrifty, Steps, Inv, StepOK, Ready, Has

LEMMA QuietAppThrifty == ASSUME Inv, QuietApp PROVE Thrifty
<1>1. op.step \in Steps /\ op.step # "volume"
  BY DEF QuietApp, Steps
<1>2. QED
  BY <1>1, InStep, FrugalWhen, FrugalCalls, ModestWhen, PursuesWhen, PursuesEnded
     DEF QuietApp, Call, CallIf, Go, Recreate, Thrifty, Steps, Inv, StepOK, Ready, Has

LEMMA QuietIdeThrifty == ASSUME Inv, QuietIde PROVE Thrifty
<1> DEFINE ide == [host[op.app].ide EXCEPT !.running = FALSE]
<1>1. op.step = "stop_ide" /\ op.step \in Steps
  BY DEF QuietIde, Steps
<1>2. host[op.app].ide # Nothing => ide \in IdeContainer
  BY <1>1, InStep DEF Host, IdeContainer
<1>3. host[op.app].ide # Nothing => Frugal(SetIde(op.app, ide))
  BY <1>1, <1>2, FrugalCalls
<1>4. /\ host' = host \/ (host[op.app].ide # Nothing /\ host' = SetIde(op.app, ide))
      /\ reg' = reg /\ saved' = saved /\ op' \in {To("grow"), To("resume")}
  BY DEF QuietIde, Call, Go
<1>5. QED
  BY <1>1, <1>3, <1>4, FrugalWhen, ModestWhen, PursuesWhen DEF Thrifty, Steps

LEMMA GrowVolumeThrifty == ASSUME Inv, GrowVolume PROVE Thrifty
<1> DEFINE item == [op.old EXCEPT !.disk = op.item.disk]
<1>1. op.step = "grow" /\ op.step \in Steps /\ op.kind = "limits"
  BY DEF GrowVolume, Steps, Inv, StepOK, Ready
<1>2. item \in Item /\ MemoryOf(item) = MemoryOf(op.old)
  BY <1>1, InStep DEF Item, MemoryOf
<1>3. /\ IsRegistry(Register(op.app, item))
      /\ DOMAIN Register(op.app, item).items = Registered \cup {op.app}
      /\ Register(op.app, item).items[op.app] = item
      /\ \A b \in Registered \ {op.app} : Register(op.app, item).items[b] = reg.items[b]
      /\ Register(op.app, item).budget = reg.budget
  BY <1>1, <1>2, InStep, RegisterType
<1>4. Modest(Register(op.app, item))
  BY <1>1, <1>2, <1>3 DEF Modest
<1>5. QED
  BY <1>1, <1>4, FrugalWhen, ModestWhen, PursuesWhen DEF GrowVolume, CallIf, Call, Thrifty, Steps

LEMMA StartResizedThrifty == ASSUME Inv, StartResized PROVE Thrifty
<1>1. op.step \in Steps /\ op.step # "volume"
  BY DEF StartResized, Steps
<1>2. QED
  BY <1>1, InStep, FrugalWhen, FrugalCalls, ModestWhen, PursuesWhen, PursuesEnded
     DEF StartResized, Call, CallIf, Go, Recreate, Thrifty, Steps, Inv, StepOK, Ready, Has

LEMMA UpdateContainerThrifty == ASSUME Inv, UpdateContainer PROVE Thrifty
<1> DEFINE c == [host[op.app].cont EXCEPT !.memory = op.item.memory]
<1>1. op.step = "update" /\ op.step \in Steps /\ host[op.app].cont # Nothing
  BY DEF UpdateContainer, Steps, Inv, StepOK, Ready
<1>2. host[op.app].cont \in AppContainer /\ op.item.memory \in Nat
  BY <1>1, InStep DEF Host, Item
<1>3. c \in AppContainer
  BY <1>2 DEF AppContainer
<1>4. Frugal(SetCont(op.app, c))
  BY <1>1, <1>3, FrugalCalls
<1>5. QED
  BY <1>1, <1>4, FrugalWhen, ModestWhen, PursuesWhen DEF UpdateContainer, Call, Thrifty, Steps

LEMMA ResumeAppThrifty == ASSUME Inv, ResumeApp PROVE Thrifty
<1>1. op.step \in Steps /\ op.step # "volume"
  BY DEF ResumeApp, Steps
<1>2. QED
  BY <1>1, InStep, FrugalWhen, FrugalCalls, ModestWhen, PursuesWhen, PursuesEnded
     DEF ResumeApp, Call, CallIf, Go, Recreate, Thrifty, Steps, Inv, StepOK, Ready, Has

LEMMA ResumeIdeThrifty == ASSUME Inv, ResumeIde PROVE Thrifty
<1> DEFINE ide == [host[op.app].ide EXCEPT !.running = TRUE]
<1>1. op.step = "resume_ide" /\ op.step \in Steps
  BY DEF ResumeIde, Steps
<1>2. host[op.app].ide # Nothing => ide \in IdeContainer
  BY <1>1, InStep DEF Host, IdeContainer
<1>3. host[op.app].ide # Nothing => Frugal(SetIde(op.app, ide))
  BY <1>1, <1>2, FrugalCalls
<1>4. /\ host' = host \/ (host[op.app].ide # Nothing /\ host' = SetIde(op.app, ide))
      /\ reg' = reg /\ saved' = saved /\ op' = Ended
  BY DEF ResumeIde, CallIf, Call, Go
<1>5. QED
  BY <1>1, <1>3, <1>4, FrugalWhen, ModestWhen, PursuesEnded DEF Thrifty, Steps

LEMMA StepThrifty == ASSUME Inv, Step PROVE Thrifty
BY MakeVolumeThrifty, TakePortThrifty, RunContainerThrifty, VerbThrifty, StopOldThrifty,
   RenameOldThrifty, CheckHealthThrifty, StopTriedThrifty, RemoveTriedThrifty, RemoveNewThrifty,
   RenameBackThrifty, ReviveThrifty, SettleThrifty, DropPreviousThrifty, RemoveContainerThrifty,
   RemoveGatewayThrifty, RunGatewayThrifty, AwaitGatewayThrifty, TakeIdePortThrifty,
   ClearIdeThrifty, RunIdeThrifty, AwaitIdeThrifty, RemoveIdeThrifty, UnregisterIdeThrifty,
   QuietAppThrifty, QuietIdeThrifty, GrowVolumeThrifty, StartResizedThrifty,
   UpdateContainerThrifty, ResumeAppThrifty, ResumeIdeThrifty DEF Step

LEMMA BudgetStep == ASSUME Inv, BudgetKept, Step PROVE BudgetKept'
<1> DEFINE a == op.app
<1>1. /\ op.step \in Steps /\ saved' = saved
      /\ Frugal(host') /\ Modest(reg') /\ Pursues(op', host')
  BY StepThrifty DEF Thrifty
<1>2. /\ a \in Apps /\ op \in Operation /\ host \in [Apps -> Host] /\ host' \in [Apps -> Host]
      /\ IsRegistry(reg) /\ IsRegistry(saved) /\ IsRegistry(reg') /\ reg'.budget = reg.budget
      /\ DOMAIN reg'.items \ {a} = DOMAIN reg.items \ {a}
      /\ \A b \in DOMAIN reg.items \ {a} : reg'.items[b] = reg.items[b]
      /\ op.item.disk \in Nat \ {0}
  BY <1>1, InStep DEF Frugal, Modest, Registered, Item
<1>3. /\ saved.budget = reg.budget
      /\ Room(reg, a, op.item) /\ Room(reg, a, op.old)
      /\ op.kind \in {"create", "limits"} => Space(reg, host, a, op.item.disk)
      /\ op.kind = "create" /\ op.step # "volume" => host[a].volume # 0
      /\ Within(reg, host) /\ Within(saved, host)
  BY <1>2 DEF BudgetKept, InOperation, Operation, Kinds
<1>4. SumFunctionOnSet(Reserved(reg'), DOMAIN reg'.items) <= reg'.budget.memory
  <2>1. ASSUME a \in Registered PROVE Room(reg, a, reg.items[a])
    <3> DEFINE all == SumFunctionOnSet(Reserved(reg), DOMAIN reg.items)
               others == SumFunctionOnSet(Reserved(reg), DOMAIN reg.items \ {a})
               own == MemoryOf(reg.items[a])
    <3>1. own \in Nat /\ others \in Nat /\ all = own + others
      BY <1>2, <2>1, MemorySplit DEF Registered
    <3>2. all <= reg.budget.memory
      BY <1>3 DEF Within
    <3> HIDE DEF all, others, own
    <3>3. others + own <= reg.budget.memory
      BY <3>1, <3>2
    <3>4. QED
      BY <3>3 DEF others, own, Room
  <2>2. ASSUME a \in DOMAIN reg'.items PROVE Room(reg, a, reg'.items[a])
    BY <1>1, <1>3, <2>1, <2>2 DEF Modest, Room
  <2>3. QED
    BY <1>2, <1>3, <2>2, RoomSuffices DEF Within
<1>5. SumFunctionOnSet(Volumes(host'), Apps \ {a}) = SumFunctionOnSet(Volumes(host), Apps \ {a})
  BY <1>1, <1>2, SameSpace DEF Frugal
<1>6. SumFunctionOnSet(Volumes(host'), Apps) <= reg.budget.disk
  <2>1. /\ SumFunctionOnSet(Volumes(host'), Apps) =
               host'[a].volume + SumFunctionOnSet(Volumes(host), Apps \ {a})
        /\ SumFunctionOnSet(Volumes(host), Apps) =
               host[a].volume + SumFunctionOnSet(Volumes(host), Apps \ {a})
        /\ SumFunctionOnSet(Volumes(host), Apps \ {a}) \in Nat
    BY <1>2, <1>5, DiskSplit
  <2>2. SumFunctionOnSet(Volumes(host), Apps) <= reg.budget.disk
    BY <1>3 DEF Within
  <2>3. CASE host'[a].volume = host[a].volume
    BY <2>1, <2>2, <2>3
  <2>4. CASE op.kind \in {"create", "limits"} /\ host'[a].volume = op.item.disk
    <3>1. SumFunctionOnSet(Volumes(host), Apps \ {a}) + op.item.disk <= reg.budget.disk
      BY <1>3, <2>4 DEF Space
    <3>2. SumFunctionOnSet(Volumes(host'), Apps) =
              SumFunctionOnSet(Volumes(host), Apps \ {a}) + op.item.disk
      BY <1>2, <2>1, <2>4
    <3>3. QED
      BY <3>1, <3>2
  <2>5. QED
    BY <1>1, <2>3, <2>4 DEF Frugal
<1>7. Within(reg', host') /\ Within(saved', host')
  BY <1>1, <1>2, <1>3, <1>4, <1>6 DEF Within
<1>8. ASSUME NEW b \in DOMAIN reg'.items \cup DOMAIN saved.items PROVE host'[b].volume # 0
  <2>1. b \in Apps
    BY <1>2 DEF IsRegistry
  <2>2. CASE b # a
    BY <1>1, <1>2, <1>8, <2>1, <2>2 DEF BudgetKept, Frugal, Registered
  <2>3. CASE b = a /\ host[a].volume # 0
    BY <1>1, <1>2, <2>3 DEF Frugal
  <2>4. CASE b = a /\ host[a].volume = 0
    <3>1. a \notin Registered /\ a \notin DOMAIN saved.items
      BY <2>4 DEF BudgetKept
    <3>2. op.kind = "create"
      BY <1>2, <3>1 DEF Inv, EntriesOK, InOperation, Operation, Kinds
    <3>3. op.step # "volume"
      BY <1>1, <1>8, <2>4, <3>1 DEF Modest
    <3>4. QED
      BY <1>3, <2>4, <3>2, <3>3
  <2>5. QED
    BY <2>2, <2>3, <2>4
<1>9. ASSUME op'.kind # "none"
      PROVE  /\ saved'.budget = reg'.budget
             /\ Room(reg', op'.app, op'.item) /\ Room(reg', op'.app, op'.old)
             /\ op'.kind \in {"create", "limits"} =>
                    Space(reg', host', op'.app, op'.item.disk)
             /\ op'.kind = "create" /\ op'.step # "volume" => host'[op'.app].volume # 0
  <2>1. /\ op'.app = a /\ op'.old = op.old /\ MemoryOf(op'.item) = MemoryOf(op.item)
        /\ op'.item.disk = op.item.disk
        /\ op'.kind \in {"create", "limits"} => op'.kind = op.kind
        /\ op.step = "volume" => host'[a].volume # 0
    BY <1>1, <1>9 DEF Pursues, Ended
  <2>2. \A item : Room(reg', a, item) <=> Room(reg, a, item)
    BY <1>2, SameRoom
  <2>3. Room(reg', a, op'.item) /\ Room(reg', a, op'.old)
    BY <1>3, <2>1, <2>2 DEF Room
  <2>4. op'.kind \in {"create", "limits"} => Space(reg', host', a, op'.item.disk)
    BY <1>2, <1>3, <1>5, <2>1 DEF Space
  <2>5. host[a].volume # 0 => host'[a].volume # 0
    BY <1>1, <1>2 DEF Frugal
  <2>6. op'.kind = "create" /\ op'.step # "volume" => host'[a].volume # 0
    BY <1>3, <2>1, <2>5
  <2>7. QED
    BY <1>1, <1>2, <1>3, <2>1, <2>3, <2>4, <2>6
<1>10. QED
  BY <1>1, <1>7, <1>8, <1>9 DEF BudgetKept, InOperation, Registered

\* Requests: what check let pass is what an operation relies on.
LEMMA BeginBudget ==
    ASSUME Inv, BudgetKept, NEW a \in Apps, NEW kind, NEW step, NEW item, NEW was,
           Begin(kind, step, a, item, was), kind # "create" \/ step = "volume",
           Room(reg, a, item),
           kind \in {"create", "limits"} => Space(reg, host, a, item.disk)
    PROVE  BudgetKept'
<1>1. /\ UNCHANGED <<host, reg, saved>> /\ op = Idle
      /\ op'.kind = kind /\ op'.step = step /\ op'.app = a /\ op'.item = item
      /\ op'.old = IF a \in Registered THEN reg.items[a] ELSE item
  BY DEF Begin, Go
<1>2. reg = saved
  BY <1>1 DEF Inv, EntriesOK
<1>3. Room(reg, a, op'.old)
  <2>1. CASE a \in Registered
    <3> DEFINE all == SumFunctionOnSet(Reserved(reg), DOMAIN reg.items)
               others == SumFunctionOnSet(Reserved(reg), DOMAIN reg.items \ {a})
               own == MemoryOf(reg.items[a])
    <3>1. own \in Nat /\ others \in Nat /\ all = own + others
      BY <2>1, MemorySplit DEF Registered, Inv, TypeOK
    <3>2. all <= reg.budget.memory
      BY DEF Within, BudgetKept
    <3> HIDE DEF all, others, own
    <3>3. others + own <= reg.budget.memory
      BY <3>1, <3>2
    <3>4. QED
      BY <1>1, <2>1, <3>3 DEF others, own, Room
  <2>2. CASE a \notin Registered
    BY <1>1, <2>2
  <2>3. QED
    BY <2>1, <2>2
<1>4. Within(reg', host') /\ Within(saved', host')
  BY <1>1 DEF BudgetKept
<1>5. \A b \in Registered' \cup DOMAIN saved'.items : host'[b].volume # 0
  BY <1>1 DEF BudgetKept, Registered
<1>6. /\ saved'.budget = reg'.budget
      /\ Room(reg', op'.app, op'.item) /\ Room(reg', op'.app, op'.old)
      /\ op'.kind \in {"create", "limits"} => Space(reg', host', op'.app, op'.item.disk)
      /\ op'.kind = "create" /\ op'.step # "volume" => host'[op'.app].volume # 0
  BY <1>1, <1>2, <1>3
<1>7. QED
  BY <1>4, <1>5, <1>6 DEF BudgetKept

\* What check found there was room and space for.
LEMMA FitsIs ==
    ASSUME Inv, BudgetKept, NEW a \in Apps, NEW item \in Item, NEW extraIde \in BOOLEAN,
           Fits(a, item, extraIde),
           item.ide_enabled => extraIde \/ (a \in Registered /\ reg.items[a].ide_enabled)
    PROVE  Room(reg, a, item) /\ Space(reg, host, a, item.disk)
<1>1. host \in [Apps -> Host] /\ IsRegistry(reg)
  BY DEF Inv, TypeOK
<1>2. /\ UsedMemory({a}) = SumFunctionOnSet(Reserved(reg), DOMAIN reg.items \ {a})
      /\ UsedDisk({a}) = SumFunctionOnSet(Volumes(host), Apps \ {a})
  BY <1>1, UsedIs DEF BudgetKept, Registered
<1>3. /\ UsedMemory({a}) \in Nat /\ item.memory \in Nat /\ IdeMemory \in Nat
      /\ reg.budget.memory \in Nat
  BY <1>1, <1>2, MemorySplit, ConstantsAssumption DEF Item, IsRegistry, Amounts
<1>4. UsedMemory({a}) + MemoryOf(item) <= reg.budget.memory
  BY <1>3 DEF Fits, MemoryOf
<1>5. Space(reg, host, a, item.disk)
  BY <1>2 DEF Fits, Space
<1>6. QED
  BY <1>2, <1>4, <1>5 DEF Room

LEMMA RequestBudget == ASSUME Inv, BudgetKept, Request PROVE BudgetKept'
<1>1. ASSUME NEW a \in Apps, NEW limits \in Allocations, NEW version \in Versions,
             CreateApp(a, limits, version)
      PROVE  BudgetKept'
  <2> DEFINE item == [memory |-> limits.memory, disk |-> limits.disk, version |-> version,
                      port |-> 0, proxied |-> FALSE, ide_enabled |-> FALSE, ide_port |-> 0]
  <2>1. item \in Item
    BY ConstantsAssumption DEF Item, Amounts
  <2>2. Fits(a, item, FALSE) /\ Begin("create", "volume", a, item, FALSE)
    BY <1>1 DEF CreateApp
  <2> HIDE DEF item
  <2>3. item.ide_enabled = FALSE
    BY DEF item
  <2>4. Room(reg, a, item) /\ Space(reg, host, a, item.disk)
    BY <2>1, <2>2, <2>3, FitsIs
  <2>5. QED
    BY <2>2, <2>4, BeginBudget
<1>2. ASSUME NEW a \in Registered, NEW item, NEW kind \in Kinds \ {"create", "limits"},
             NEW step, NEW was, Begin(kind, step, a, item, was),
             item.memory = reg.items[a].memory,
             item.ide_enabled => reg.items[a].ide_enabled, item.ide_enabled \in BOOLEAN
      PROVE  BudgetKept'
  <2>1. a \in Apps /\ reg.items[a] \in Item /\ IsRegistry(reg)
    BY Found DEF Inv, TypeOK
  <2> DEFINE all == SumFunctionOnSet(Reserved(reg), DOMAIN reg.items)
             others == SumFunctionOnSet(Reserved(reg), DOMAIN reg.items \ {a})
             own == MemoryOf(reg.items[a])
  <2>2. own \in Nat /\ others \in Nat /\ all = own + others
    BY <2>1, MemorySplit DEF Registered
  <2>3. all <= reg.budget.memory /\ reg.budget.memory \in Nat
    BY <2>1 DEF Within, BudgetKept, IsRegistry, Amounts
  <2>4. MemoryOf(item) \in Nat /\ MemoryOf(item) <= own
    BY <1>2, <2>1, ConstantsAssumption DEF MemoryOf, Item
  <2> HIDE DEF all, others, own
  <2>5. others + MemoryOf(item) <= reg.budget.memory
    BY <2>2, <2>3, <2>4
  <2>6. Room(reg, a, item)
    BY <2>5 DEF others, Room
  <2>7. QED
    BY <1>2, <2>1, <2>6, BeginBudget
<1>3. ASSUME NEW a \in Apps, NEW kind \in {"start", "stop"}, StartOrStop(a, kind)
      PROVE  BudgetKept'
  BY <1>2, <1>3, Found DEF StartOrStop, Kinds, Item
<1>4. ASSUME NEW a \in Apps, NEW version \in Versions, SwitchRuntime(a, version)
      PROVE  BudgetKept'
  <2> DEFINE item == [reg.items[a] EXCEPT !.version = version]
  <2>1. a \in Registered /\ Begin("runtime", "stop", a, item, host[a].cont.running)
    BY <1>4 DEF SwitchRuntime
  <2>2. reg.items[a] \in Item
    BY <2>1, Found
  <2>3. item.memory = reg.items[a].memory /\ item.ide_enabled = reg.items[a].ide_enabled
        /\ item.ide_enabled \in BOOLEAN
    BY <2>2 DEF Item
  <2>4. QED
    BY <1>2, <2>1, <2>3 DEF Kinds
<1>5. ASSUME NEW a \in Apps, NEW proxied \in BOOLEAN, ConfigureEgress(a, proxied)
      PROVE  BudgetKept'
  <2> DEFINE item == [reg.items[a] EXCEPT !.proxied = proxied]
  <2>1. a \in Registered /\ Begin("egress", "remove", a, item, FALSE)
    BY <1>5 DEF ConfigureEgress
  <2>2. reg.items[a] \in Item
    BY <2>1, Found
  <2>3. item.memory = reg.items[a].memory /\ item.ide_enabled = reg.items[a].ide_enabled
        /\ item.ide_enabled \in BOOLEAN
    BY <2>2 DEF Item
  <2>4. QED
    BY <1>2, <2>1, <2>3 DEF Kinds
<1>6. ASSUME NEW a \in Apps, EnableIde(a) PROVE BudgetKept'
  <2> DEFINE item == [reg.items[a] EXCEPT !.ide_enabled = TRUE]
  <2>1. a \in Registered /\ Begin("ide_on", "ide_port", a, item, FALSE)
    BY <1>6 DEF EnableIde
  <2>2. reg.items[a] \in Item /\ Fits(a, reg.items[a], TRUE)
    BY <1>6, <2>1, Found DEF EnableIde
  <2>3. /\ item \in Item /\ item.ide_enabled = TRUE
        /\ item.memory = reg.items[a].memory /\ item.disk = reg.items[a].disk
    BY <2>2 DEF Item
  <2>4. Fits(a, item, TRUE)
    BY <2>2, <2>3 DEF Fits
  <2>5. Room(reg, a, item)
    BY <2>3, <2>4, FitsIs
  <2>6. QED
    BY <2>1, <2>5, BeginBudget
<1>7. ASSUME NEW a \in Apps, DisableIde(a) PROVE BudgetKept'
  <2> DEFINE item == [reg.items[a] EXCEPT !.ide_enabled = FALSE]
  <2>1. a \in Registered /\ Begin("ide_off", "ide_remove", a, item, FALSE)
    BY <1>7 DEF DisableIde
  <2>2. reg.items[a] \in Item
    BY <2>1, Found
  <2>3. item.memory = reg.items[a].memory /\ item.ide_enabled = FALSE
    BY <2>2 DEF Item
  <2>4. QED
    BY <1>2, <2>1, <2>3 DEF Kinds
<1>8. ASSUME NEW a \in Apps, NEW limits \in Allocations, ConfigureLimits(a, limits)
      PROVE  BudgetKept'
  <2> DEFINE item == [reg.items[a] EXCEPT !.memory = limits.memory, !.disk = limits.disk]
  <2>1. a \in Registered /\ Fits(a, item, FALSE) /\ Begin("limits", "stop", a, item, TRUE)
    BY <1>8 DEF ConfigureLimits
  <2>2. reg.items[a] \in Item
    BY <2>1, Found
  <2>3. item \in Item /\ item.ide_enabled = reg.items[a].ide_enabled
    BY <2>2, ConstantsAssumption DEF Item, Amounts
  <2>4. Room(reg, a, item) /\ Space(reg, host, a, item.disk)
    BY <2>1, <2>3, FitsIs
  <2>5. QED
    BY <2>1, <2>4, BeginBudget
<1>9. ASSUME NEW a \in Apps, DeleteApp(a) PROVE BudgetKept'
  <2> DEFINE item == [reg.items[a] EXCEPT !.ide_enabled = FALSE]
             step == IF reg.items[a].ide_port # 0 THEN "ide_remove" ELSE "remove"
  <2>1. a \in Registered /\ Begin("delete", step, a, item, FALSE)
    BY <1>9 DEF DeleteApp
  <2>2. reg.items[a] \in Item
    BY <2>1, Found
  <2>3. item.memory = reg.items[a].memory /\ item.ide_enabled = FALSE
    BY <2>2 DEF Item
  <2>4. QED
    BY <1>2, <2>1, <2>3 DEF Kinds
<1>10. ASSUME NEW budget \in Budgets, SetBudget(budget) PROVE BudgetKept'
  <2>1. /\ reg' = [reg EXCEPT !.budget = budget] /\ op' = Ended
        /\ UNCHANGED <<host, saved>>
        /\ UsedMemory({}) <= budget.memory /\ UsedDisk({}) <= budget.disk
    BY <1>10 DEF SetBudget, Go
  <2>2. /\ IsRegistry(reg) /\ host \in [Apps -> Host]
        /\ Registered \ {} = Registered /\ Apps \ {} = Apps
    BY DEF Inv, TypeOK
  <2>3. /\ UsedMemory({}) = SumFunctionOnSet(Reserved(reg), DOMAIN reg.items)
        /\ UsedDisk({}) = SumFunctionOnSet(Volumes(host), Apps)
    BY <2>2, UsedIs DEF BudgetKept, Registered
  <2>4. reg'.items = reg.items /\ reg'.budget = budget
    BY <2>1, <2>2 DEF IsRegistry
  <2>5. Within(reg', host') /\ Within(saved', host')
    BY <2>1, <2>3, <2>4 DEF Within, Reserved, BudgetKept
  <2>6. QED
    BY <2>1, <2>4, <2>5 DEF BudgetKept, InOperation, Ended, Registered
<1>11. QED
  BY <1>1, <1>3, <1>4, <1>5, <1>6, <1>7, <1>8, <1>9, <1>10 DEF Request

LEMMA BudgetInit == Init => BudgetKept
<1> SUFFICES ASSUME Init PROVE BudgetKept
  OBVIOUS
<1>1. Inv
  BY InitInv
<1>2. /\ DOMAIN reg.items = {} /\ reg.budget = FirstBudget /\ saved = reg
      /\ \A a \in Apps : host[a].volume = 0
      /\ FirstBudget.memory \in Nat /\ FirstBudget.disk \in Nat
  BY ConstantsAssumption DEF Init, Bare, Amounts
<1>3. SumFunctionOnSet(Reserved(reg), {}) = 0
  BY SumEmpty
<1>4. SumFunctionOnSet(Volumes(host), Apps) = 0
  <2>1. \A a \in Apps : Volumes(host)[a] = 0
    BY <1>2 DEF Volumes
  <2>2. QED
    BY <2>1, ConstantsAssumption, SumZero
<1>5. Within(reg, host)
  BY <1>2, <1>3, <1>4 DEF Within
<1>6. QED
  BY <1>2, <1>5 DEF BudgetKept, InOperation, Init, Idle, Registered

\* What applications, IDEs and volumes reserve never exceeds the budget.
LEMMA BudgetImplied == Inv /\ BudgetKept => BudgetHolds
<1> SUFFICES ASSUME Inv, BudgetKept PROVE BudgetHolds
  OBVIOUS
<1>1. /\ IsRegistry(reg) /\ host \in [Apps -> Host]
      /\ Registered \ {} = Registered /\ Apps \ {} = Apps
  BY DEF Inv, TypeOK
<1>2. /\ UsedMemory({}) = SumFunctionOnSet(Reserved(reg), DOMAIN reg.items)
      /\ UsedDisk({}) = SumFunctionOnSet(Volumes(host), Apps)
  BY <1>1, UsedIs DEF BudgetKept, Registered
<1>3. QED
  BY <1>2 DEF BudgetHolds, BudgetKept, Within

\* What applications, enabled IDEs and volumes reserve never exceeds the account's budget,
\* whichever of the calls fail and wherever the agent is killed.
THEOREM BudgetIsKept == Spec => []BudgetHolds
<1>1. Inv /\ BudgetKept /\ [Next]_vars => BudgetKept'
  <2> SUFFICES ASSUME Inv, BudgetKept, [Next]_vars PROVE BudgetKept'
    OBVIOUS
  <2>1. CASE Save
    BY <2>1 DEF Save, BudgetKept, InOperation, Idle, Registered
  <2>2. CASE Crash
    BY <2>2 DEF Crash, BudgetKept, InOperation, Idle, Registered
  <2>3. CASE UNCHANGED vars
    BY <2>3 DEF vars, BudgetKept, InOperation, Registered
  <2>4. QED
    BY <2>1, <2>2, <2>3, RequestBudget, BudgetStep DEF Next
<1>2. QED
  BY <1>1, Invariance, BudgetInit, BudgetImplied, PTL DEF Spec
=============================================================================
