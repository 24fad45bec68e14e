----------------------------- MODULE PartsProofs -----------------------------
(* Proofs about three parts that meet no other: the zone files (Zones), for every set of domains, *)
(* records and challenges; the check of visitors (Protection), for every set of sites, handlers   *)
(* and challenges; and schedules (Schedules), for every set of schedules and every bound.         *)
EXTENDS Zones, Protection, Schedules, FiniteSetTheorems, TLAPS

-----------------------------------------------------------------------------
(* The zone files: the inductive invariant. *)

Zone == [serial : Nat, records : SUBSET Records, challenges : SUBSET Challenges]

ZonesTyped ==
    /\ second \in Nat
    /\ zone \in [Domains -> Zone]
    /\ stored \in [Domains -> SUBSET Challenges]
    /\ named \subseteq Domains \cup Records
    /\ savedNamed \subseteq Domains \cup Records
    /\ sync.time \in Nat
    /\ behind \in BOOLEAN

Working == {"read", "write", "check"}

\* One process holds the file lock, and which one follows from where it is.
Locks ==
    /\ flock = "agent" <=> sync.at \in Working
    /\ flock = "hook" <=> hook.at \in {"store", "zone", "load"}

\* A hook is about one challenge.
HookOK == hook # NoHook => \E c \in Challenges : hook.challenge = {c}

\* Where dns_sync is, and what it has read of the zone that it is at: nobody changes that while
\* it holds the lock.
SyncOK ==
    /\ sync.at \in Working \cup {"idle", "lock", "save"}
    /\ sync.at = "idle" => sync = NoSync
    /\ sync.at = "save" => sync.item = {}
    /\ sync.at \in Working => sync.todo \subseteq Registered(named)
    /\ sync.kind = "domain" => sync.item \subseteq Domains
    /\ sync.at \in {"lock"} \cup Working => sync.kind \in {"domain", "record", "delete", "undo"}
    /\ sync.at \in {"write", "check"} =>
           \E d \in Registered(named) : sync.domain = {d}
    /\ sync.at = "write" =>
           sync.last = zone[SyncDomain].serial /\ sync.kept = stored[SyncDomain]

\* The file of domain d is what it should be, or will be once the hook has edited it.
Right(d) ==
    /\ zone[d].records = RecordsOf(d)
    /\ zone[d].challenges = IF hook.at = "zone" /\ d = HookZone THEN hook.old ELSE stored[d]

\* What dns_sync has written in this round.
Written ==
    sync.at \in Working =>
        \A d \in Registered(named) \ sync.todo :
            (sync.at = "write" => d \notin sync.domain) => Right(d)

\* What a failed creation of a domain falls back to: the other domains were right before and
\* are right throughout. Other operations write all files again, or leave the files behind.
Kept ==
    ~behind /\ (sync.at \in {"idle", "save"} \/ sync.kind = "domain") =>
        \A d \in Registered(named) \ sync.item : Right(d)

ZonesInv == ZonesTyped /\ Locks /\ HookOK /\ SyncOK /\ Written /\ Kept

-----------------------------------------------------------------------------
LEMMA ZonesStart == ZonesInit => ZonesInv
<1> SUFFICES ASSUME ZonesInit PROVE ZonesInv
  OBVIOUS
<1>1. NoZone \in Zone /\ NoSync.time = 0 /\ NoSync.at = "idle" /\ NoSync.kind = "none"
  <2>1. NoZone \in Zone
    BY DEF NoZone, Zone
  <2>2. NoSync.time = 0 /\ NoSync.at = "idle" /\ NoSync.kind = "none"
    BY DEF NoSync
  <2> QED
    BY <2>1, <2>2
<1>2. ZonesTyped
  <2>1. behind \in BOOLEAN
    BY DEF ZonesInit
  <2>2. zone \in [Domains -> Zone] /\ sync.time \in Nat
    BY <1>1 DEF ZonesInit
  <2> QED
    BY <2>1, <2>2 DEF ZonesInit, ZonesTyped
<1>3. HookOK /\ hook.at = "idle" /\ NoSync.item = {}
  BY DEF ZonesInit, HookOK, NoHook, NoSync
<1>4. Locks /\ SyncOK /\ Written /\ Kept
  BY <1>1, <1>3 DEF ZonesInit, Locks, Working, SyncOK, Written, Kept, Registered
<1> QED
  BY <1>2, <1>3, <1>4 DEF ZonesInv

LEMMA HookZoneIs ==
    ASSUME HookOK, hook # NoHook
    PROVE  HookZone \in Domains /\ TheChallenge \in Challenges /\ hook.challenge = {TheChallenge}
<1>1. PICK c \in Challenges : hook.challenge = {c}
  BY DEF HookOK
<1>2. TheChallenge = c
  BY <1>1 DEF TheChallenge
<1> QED
  BY <1>1, <1>2, ZonesAssumption DEF HookZone

LEMMA SyncDomainIs ==
    ASSUME SyncOK, sync.at \in {"write", "check"}
    PROVE  SyncDomain \in Registered(named) /\ sync.domain = {SyncDomain}
<1>1. PICK d \in Registered(named) : sync.domain = {d}
  BY DEF SyncOK
<1>2. SyncDomain = d
  BY <1>1 DEF SyncDomain
<1> QED
  BY <1>1, <1>2

\* A registry that differs in domains only, or in records of no domain, has the same records.
LEMMA SameRecords ==
    ASSUME NEW ds \in SUBSET Domains, NEW d
    PROVE  /\ named' = named \cup ds => RecordsOf(d)' = RecordsOf(d)
           /\ named' = named \ ds => RecordsOf(d)' = RecordsOf(d)
           /\ named' = named => RecordsOf(d)' = RecordsOf(d)
BY ZonesAssumption DEF RecordsOf

-----------------------------------------------------------------------------
(* The operations of the agent. *)

LEMMA CreateDomainStep ==
    ASSUME ZonesInv, NEW d \in Domains, CreateDomain(d)
    PROVE  ZonesInv'
<1> USE DEF ZonesInv
<1>1. /\ sync = NoSync /\ named' = named \cup {d}
      /\ sync' = [NoSync EXCEPT !.kind = "domain", !.at = "lock", !.item = {d}]
      /\ UNCHANGED <<second, savedNamed, zone, stored, flock, hook, zoneFaults, behind>>
  BY DEF CreateDomain, Change
<1>2. /\ sync'.at = "lock" /\ sync'.kind = "domain" /\ sync'.item = {d} /\ sync'.time = 0
      /\ sync.at = "idle" /\ sync.item = {}
  BY <1>1 DEF NoSync
<1>3. ZonesTyped' /\ HookOK'
  BY <1>1, <1>2 DEF ZonesTyped, HookOK
<1>4. Locks' /\ SyncOK' /\ Written'
  BY <1>1, <1>2 DEF Locks, Working, SyncOK, Written
<1>5. Kept'
  <2> SUFFICES ASSUME ~behind, NEW e \in Registered(named') \ {d} PROVE Right(e)'
    BY <1>1, <1>2 DEF Kept, Registered
  <2>1. Right(e)
    BY <1>1, <1>2 DEF Kept, Registered
  <2>2. RecordsOf(e)' = RecordsOf(e)
    BY <1>1, SameRecords
  <2> QED
    BY <1>1, <2>1, <2>2 DEF Right, HookZone, TheChallenge
<1> QED
  BY <1>3, <1>4, <1>5

\* The other operations claim nothing of the files before they are written.
LEMMA OtherChangeStep ==
    ASSUME ZonesInv, NEW kind \in {"record", "delete"}, NEW x,
           NEW names \in SUBSET (Domains \cup Records),
           Change(kind, x, names),
           UNCHANGED <<second, savedNamed, zone, stored, flock, hook, behind>>
    PROVE  ZonesInv'
<1> USE DEF ZonesInv
<1>1. /\ sync = NoSync /\ named' = names
      /\ sync' = [NoSync EXCEPT !.kind = kind, !.at = "lock", !.item = {x}]
  BY DEF Change
<1>2. sync'.at = "lock" /\ sync'.kind = kind /\ sync'.time = 0 /\ sync.at = "idle"
  BY <1>1 DEF NoSync
<1>3. ZonesTyped' /\ HookOK'
  BY <1>1, <1>2 DEF ZonesTyped, HookOK
<1>4. Locks' /\ SyncOK' /\ Written' /\ Kept'
  BY <1>1, <1>2 DEF Locks, Working, SyncOK, Written, Kept
<1> QED
  BY <1>3, <1>4

LEMMA SyncLockStep == ASSUME ZonesInv, SyncLock PROVE ZonesInv'
<1> USE DEF ZonesInv
<1>1. /\ sync.at = "lock" /\ flock = "free" /\ flock' = "agent"
      /\ sync' = [sync EXCEPT !.at = "read", !.time = second, !.todo = Registered(named)]
      /\ UNCHANGED <<second, registryVars, zone, stored, hook, zoneFaults, behind>>
  BY DEF SyncLock
<1> QED
  BY <1>1 DEF registryVars, ZonesTyped, HookOK, Locks, Working, SyncOK, Written, Kept, Registered,
     Right, RecordsOf, HookZone, TheChallenge

LEMMA SyncReadStep == ASSUME ZonesInv, NEW d \in Domains, SyncRead(d) PROVE ZonesInv'
<1> USE DEF ZonesInv
<1>1. /\ sync.at = "read" /\ d \in sync.todo
      /\ sync' = [sync EXCEPT !.at = "write", !.todo = @ \ {d}, !.domain = {d},
                             !.last = zone[d].serial, !.kept = stored[d]]
      /\ UNCHANGED <<second, named, savedNamed, drawnNames, zone, stored, flock, hook, zoneFaults,
                    behind>>
  BY DEF SyncRead, registryVars
<1>2. /\ sync'.at = "write" /\ sync'.todo = sync.todo \ {d} /\ sync'.domain = {d}
      /\ sync'.last = zone[d].serial /\ sync'.kept = stored[d]
      /\ sync'.kind = sync.kind /\ sync'.item = sync.item /\ sync'.time = sync.time
  BY <1>1
<1>3. SyncDomain' = d /\ d \in Registered(named)
  BY <1>1, <1>2 DEF SyncDomain, SyncOK, Working
<1>4. \A e : Right(e)' <=> Right(e)
  BY <1>1 DEF Right, RecordsOf, HookZone, TheChallenge
<1>5. ZonesTyped' /\ HookOK' /\ Locks'
  BY <1>1, <1>2 DEF ZonesTyped, HookOK, Locks, Working
<1>6. SyncOK'
  BY <1>1, <1>2, <1>3 DEF SyncOK, Working, Registered
<1>7. Written' /\ Kept'
  BY <1>1, <1>2, <1>4 DEF Written, Kept, Working, Registered
<1> QED
  BY <1>5, <1>6, <1>7

LEMMA SyncWriteStep == ASSUME ZonesInv, SyncWrite PROVE ZonesInv'
<1> USE DEF ZonesInv
<1>0. sync.at = "write"
  BY DEF SyncWrite, WriteZone
<1> PICK d \in Registered(named) : d = SyncDomain /\ sync.domain = {d}
  BY <1>0, SyncDomainIs
<1>1. /\ sync.at = "write" /\ d \in Registered(named) /\ sync.domain = {d}
      /\ sync.last = zone[d].serial /\ sync.kept = stored[d]
  BY <1>0 DEF SyncOK
<1>2. /\ zone' = [zone EXCEPT ![d] = [serial |-> Later(sync.time, sync.last + 1),
                                     records |-> RecordsOf(d), challenges |-> sync.kept]]
      /\ sync' = [sync EXCEPT !.at = "check", !.last = 0, !.kept = {}]
      /\ UNCHANGED <<second, named, savedNamed, drawnNames, stored, flock, hook, zoneFaults,
                    behind>>
  BY DEF SyncWrite, WriteZone, registryVars
<1>3. /\ sync'.at = "check" /\ sync'.todo = sync.todo /\ sync'.domain = sync.domain
      /\ sync'.kind = sync.kind /\ sync'.item = sync.item /\ sync'.time = sync.time
  BY <1>2
<1>4. d \in Domains /\ zone[d].serial \in Nat
  BY <1>1 DEF Registered, ZonesTyped, Zone
<1>5. [serial |-> Later(sync.time, sync.last + 1), records |-> RecordsOf(d),
       challenges |-> sync.kept] \in Zone
  <2>1. Later(sync.time, sync.last + 1) \in Nat
    BY <1>1, <1>4 DEF Later, ZonesTyped
  <2>2. RecordsOf(d) \subseteq Records /\ sync.kept \subseteq Challenges
    BY <1>1, <1>4 DEF RecordsOf, ZonesTyped
  <2> QED
    BY <2>1, <2>2 DEF Zone
<1>6. /\ zone' \in [Domains -> Zone] /\ \A e \in Domains \ {d} : zone'[e] = zone[e]
      /\ zone'[d].records = RecordsOf(d) /\ zone'[d].challenges = stored[d]
  BY <1>1, <1>2, <1>4, <1>5 DEF ZonesTyped
<1>7. hook.at # "zone"
  BY <1>1 DEF Locks, Working
<1>8. Right(d)'
  BY <1>2, <1>6, <1>7 DEF Right, RecordsOf
<1>9. \A e \in Domains : Right(e) => Right(e)'
  BY <1>2, <1>6, <1>8 DEF Right, RecordsOf, HookZone, TheChallenge
<1>10. ZonesTyped' /\ HookOK' /\ Locks'
  BY <1>1, <1>2, <1>3, <1>6 DEF ZonesTyped, HookOK, Locks, Working
<1>11. SyncOK'
  <2>1. \E e \in Registered(named') : sync'.domain = {e}
    BY <1>1, <1>2, <1>3 DEF Registered
  <2> QED
    BY <2>1, <1>1, <1>2, <1>3 DEF SyncOK, Working, Registered
<1>12. Written'
  BY <1>1, <1>2, <1>3, <1>8, <1>9 DEF Written, Working, Registered
<1>13. Kept'
  BY <1>1, <1>2, <1>3, <1>8, <1>9 DEF Kept, Registered
<1> QED
  BY <1>10, <1>11, <1>12, <1>13

\* A failure before or while the files are written.
LEMMA SyncFailedStep ==
    ASSUME ZonesInv, sync.at \in {"lock"} \cup Working, SyncFailed,
           UNCHANGED <<second, savedNamed, drawnNames, zone, stored, hook>>
    PROVE  ZonesInv'
<1> USE DEF ZonesInv
<1>1. sync.kind \in {"domain", "record", "delete", "undo"}
  BY DEF SyncOK, Working
<1>2. /\ named' \subseteq named
      /\ sync'.at \in {"lock", "save"} /\ sync'.time = 0
      /\ sync'.at = "lock" => sync'.kind = "undo"
      /\ sync'.at = "save" => sync'.kind = "none" /\ sync'.item = {}
  BY DEF SyncFailed, Synced, NoSync
<1>3. ZonesTyped' /\ HookOK'
  BY <1>2 DEF ZonesTyped, HookOK, SyncFailed
<1>4. Locks'
  BY <1>2 DEF Locks, Working, SyncFailed
<1>5. SyncOK' /\ Written'
  BY <1>2 DEF Working, SyncOK, Written
<1>6. Kept'
  <2> SUFFICES ASSUME ~behind', sync'.at = "save", NEW e \in Registered(named') PROVE Right(e)'
    BY <1>2 DEF Kept
  <2>1. sync.kind = "domain" /\ ~behind
    BY <1>1 DEF SyncFailed, NoSync
  <2>2. named' = named \ sync.item /\ sync.item \subseteq Domains
    BY <2>1 DEF SyncFailed, SyncOK
  <2>3. Right(e)
    BY <2>1, <2>2 DEF Kept, Registered
  <2>4. RecordsOf(e)' = RecordsOf(e)
    BY <2>2, SameRecords
  <2> QED
    BY <2>3, <2>4 DEF Right, HookZone, TheChallenge
<1> QED
  BY <1>3, <1>4, <1>5, <1>6

LEMMA SyncBreaksStep == ASSUME ZonesInv, SyncBreaks PROVE ZonesInv'
BY SyncFailedStep DEF SyncBreaks, Working

LEMMA SyncCheckStep == ASSUME ZonesInv, SyncCheck PROVE ZonesInv'
<1> USE DEF ZonesInv
<1>1. /\ sync.at = "check"
      /\ UNCHANGED <<second, savedNamed, drawnNames, zone, stored, hook>>
  BY DEF SyncCheck
<1>2. CASE SyncFailed
  BY <1>1, <1>2, SyncFailedStep DEF Working
<1>3. CASE /\ sync' = [sync EXCEPT !.at = "read", !.domain = {}]
           /\ UNCHANGED <<named, flock, behind, zoneFaults>>
  <2>1. /\ sync'.at = "read" /\ sync'.todo = sync.todo /\ sync'.kind = sync.kind
        /\ sync'.item = sync.item /\ sync'.time = sync.time
    BY <1>3
  <2>2. \A e : Right(e)' <=> Right(e)
    BY <1>1, <1>3 DEF Right, RecordsOf, HookZone, TheChallenge
  <2>3. ZonesTyped' /\ HookOK' /\ Locks' /\ SyncOK'
    BY <1>1, <1>3, <2>1 DEF ZonesTyped, HookOK, Locks, Working, SyncOK, Registered
  <2>4. Written' /\ Kept'
    BY <1>1, <1>3, <2>1, <2>2 DEF Written, Kept, Working, Registered
  <2> QED
    BY <2>3, <2>4
<1> QED
  BY <1>2, <1>3 DEF SyncCheck

LEMMA SyncLoadStep == ASSUME ZonesInv, SyncLoad PROVE ZonesInv'
<1> USE DEF ZonesInv
<1>1. /\ sync.at = "read" /\ sync.todo = {}
      /\ flock' = "free" /\ behind' = FALSE /\ sync' = Synced
      /\ UNCHANGED <<second, named, savedNamed, drawnNames, zone, stored, hook, zoneFaults>>
  BY DEF SyncLoad, registryVars
<1>2. sync'.at = "save" /\ sync'.item = {} /\ sync'.time = 0 /\ sync'.kind = "none"
  BY <1>1 DEF Synced, NoSync
<1>3. hook.at \notin {"store", "zone", "load"}
  BY <1>1 DEF Locks, Working
<1>4. \A e \in Registered(named) : Right(e)
  BY <1>1 DEF Written, Working
<1>5. \A e : Right(e)' <=> Right(e)
  BY <1>1 DEF Right, RecordsOf, HookZone, TheChallenge
<1>6. (behind \in BOOLEAN)'
  BY <1>1
<1>7. ZonesTyped'
  BY <1>1, <1>2, <1>6 DEF ZonesTyped
<1>8. HookOK'
  BY <1>1 DEF HookOK
<1>9. Locks'
  BY <1>1, <1>2, <1>3 DEF Locks, Working
<1>10. SyncOK' /\ Written'
  BY <1>2 DEF Working, SyncOK, Written
<1>11. Kept'
  BY <1>1, <1>2, <1>4, <1>5 DEF Kept, Registered
<1> QED
  BY <1>7, <1>8, <1>9, <1>10, <1>11

LEMMA SaveNamesStep == ASSUME ZonesInv, SaveNames PROVE ZonesInv'
<1> USE DEF ZonesInv
<1>1. /\ sync.at = "save" /\ sync' = NoSync /\ savedNamed' \in {named, savedNamed}
      /\ UNCHANGED <<second, named, drawnNames, zone, stored, flock, hook, behind>>
  BY DEF SaveNames
<1>2. sync'.at = "idle" /\ sync'.kind = "none" /\ sync'.item = {} /\ sync'.time = 0
  BY <1>1 DEF NoSync
<1>3. \A e : Right(e)' <=> Right(e)
  BY <1>1 DEF Right, RecordsOf, HookZone, TheChallenge
<1>4. ZonesTyped' /\ HookOK' /\ Locks' /\ SyncOK' /\ Written'
  BY <1>1, <1>2 DEF ZonesTyped, HookOK, Locks, Working, SyncOK, Written
<1>5. Kept'
  BY <1>1, <1>2, <1>3 DEF Kept, SyncOK, Registered
<1> QED
  BY <1>4, <1>5

LEMMA KillAgentStep == ASSUME ZonesInv, KillAgent PROVE ZonesInv'
<1> USE DEF ZonesInv
<1>1. /\ flock' = IF flock = "agent" THEN "free" ELSE flock
      /\ behind' = (behind \/ sync # NoSync \/ named # savedNamed)
      /\ named' = savedNamed /\ sync' = NoSync
      /\ UNCHANGED <<second, savedNamed, drawnNames, zone, stored, hook>>
  BY DEF KillAgent
<1>2. sync'.at = "idle" /\ sync'.kind = "none" /\ sync'.item = {} /\ sync'.time = 0
  BY <1>1 DEF NoSync
<1>3. ZonesTyped' /\ HookOK' /\ Locks' /\ SyncOK' /\ Written'
  BY <1>1, <1>2 DEF ZonesTyped, HookOK, Locks, Working, SyncOK, Written
<1>4. Kept'
  <2> SUFFICES ASSUME ~behind', NEW e \in Registered(named') PROVE Right(e)'
    BY <1>2 DEF Kept
  <2>1. ~behind /\ sync = NoSync /\ named' = named /\ NoSync.at = "idle" /\ NoSync.item = {}
    BY <1>1 DEF NoSync
  <2>2. Right(e)
    BY <2>1 DEF Kept, Registered
  <2> QED
    BY <1>1, <2>1, <2>2 DEF Right, RecordsOf, HookZone, TheChallenge
<1> QED
  BY <1>3, <1>4

-----------------------------------------------------------------------------
(* The hook. *)

\* The steps of the hook that edit no file.
LEMMA QuietHookStep ==
    ASSUME ZonesInv, UNCHANGED <<second, named, savedNamed, zone, stored, sync>>,
           behind' \in {behind, TRUE}, Locks', HookOK',
           hook.at = "zone" => behind' = TRUE, hook'.at # "zone"
    PROVE  ZonesInv'
<1> USE DEF ZonesInv
<1>1. \A e : behind' # TRUE => (Right(e) => Right(e)')
  BY DEF Right, RecordsOf
<1>2. ZonesTyped' /\ SyncOK'
  BY DEF ZonesTyped, SyncOK, Working, Registered, SyncDomain
<1>3. Written'
  <2>1. CASE sync.at \in Working
    <3>1. hook.at # "zone"
      BY <2>1 DEF Locks, Working
    <3>2. \A e : Right(e) => Right(e)'
      BY <3>1 DEF Right, RecordsOf
    <3> QED
      BY <3>2 DEF Written, Registered
  <2>2. CASE sync.at \notin Working
    BY <2>2 DEF Written
  <2> QED
    BY <2>1, <2>2
<1>4. Kept'
  BY <1>1 DEF Kept, Registered, ZonesTyped
<1> QED
  BY <1>2, <1>3, <1>4

LEMMA StartHookStep ==
    ASSUME ZonesInv, NEW c \in Challenges, NEW add \in BOOLEAN, StartHook(c, add)
    PROVE  ZonesInv'
<1>1. /\ hook = NoHook /\ hook' = [at |-> "lock", challenge |-> {c}, add |-> add, old |-> {}]
      /\ UNCHANGED <<second, named, savedNamed, zone, stored, flock, sync, zoneFaults, behind>>
  BY DEF StartHook
<1>2. hook.at = "idle" /\ hook'.at = "lock" /\ hook'.challenge = {c}
  BY <1>1 DEF NoHook
<1>3. Locks' /\ HookOK'
  BY <1>1, <1>2 DEF ZonesInv, Locks, HookOK
<1> QED
  BY <1>1, <1>2, <1>3, QuietHookStep

LEMMA LockHookStep == ASSUME ZonesInv, LockHook PROVE ZonesInv'
<1>1. /\ hook.at = "lock" /\ flock = "free" /\ flock' = "hook"
      /\ hook' = [hook EXCEPT !.at = "store"]
      /\ UNCHANGED <<second, named, savedNamed, zone, stored, sync, behind>>
  BY DEF LockHook, registryVars
<1>2. hook'.at = "store" /\ hook'.challenge = hook.challenge /\ hook # NoHook
  BY <1>1 DEF NoHook
<1>3. Locks' /\ HookOK'
  BY <1>1, <1>2 DEF ZonesInv, Locks, HookOK, Working
<1> QED
  BY <1>1, <1>2, <1>3, QuietHookStep

LEMMA EndHookStep == ASSUME ZonesInv, EndHook PROVE ZonesInv'
<1>1. /\ hook.at = "load" /\ flock' = "free" /\ hook' = NoHook
      /\ UNCHANGED <<second, named, savedNamed, zone, stored, sync, behind>>
  BY DEF EndHook, registryVars
<1>2. hook'.at = "idle"
  BY <1>1 DEF NoHook
<1>3. Locks' /\ HookOK'
  BY <1>1, <1>2 DEF ZonesInv, Locks, HookOK, Working
<1> QED
  BY <1>1, <1>2, <1>3, QuietHookStep

LEMMA KillHookStep == ASSUME ZonesInv, KillHook PROVE ZonesInv'
<1>1. /\ flock' = IF flock = "hook" THEN "free" ELSE flock
      /\ behind' = (behind \/ hook.at = "zone") /\ hook' = NoHook
      /\ UNCHANGED <<second, named, savedNamed, zone, stored, sync>>
  BY DEF KillHook, registryVars
<1>2. hook'.at = "idle" /\ behind \in BOOLEAN
  BY <1>1 DEF NoHook, ZonesInv, ZonesTyped
<1>3. Locks' /\ HookOK'
  BY <1>1, <1>2 DEF ZonesInv, Locks, HookOK, Working
<1> QED
  BY <1>1, <1>2, <1>3, QuietHookStep

\* Where the hook works on the files the agent does not.
LEMMA HookAlone ==
    ASSUME ZonesInv, hook.at \in {"store", "zone", "load"}
    PROVE  flock = "hook" /\ sync.at \notin Working /\ hook # NoHook
BY DEF ZonesInv, Locks, Working, NoHook

LEMMA StoreChallengeStep == ASSUME ZonesInv, StoreChallenge PROVE ZonesInv'
<1> DEFINE d == HookZone
<1> USE DEF ZonesInv
<1>1. /\ hook.at = "store"
      /\ hook' = [hook EXCEPT !.at = "zone", !.old = stored[d]]
      /\ stored' = [stored EXCEPT ![d] = (@ \ hook.challenge) \cup
                                        (IF hook.add THEN hook.challenge ELSE {})]
      /\ UNCHANGED <<second, named, savedNamed, drawnNames, zone, flock, sync, zoneFaults, behind>>
  BY DEF StoreChallenge, registryVars
<1>2. sync.at \notin Working /\ flock = "hook" /\ hook # NoHook
  BY <1>1, HookAlone
<1>3. d \in Domains /\ hook.challenge \subseteq Challenges
  BY <1>2, HookZoneIs
<1>4. hook'.at = "zone" /\ hook'.old = stored[d] /\ hook'.challenge = hook.challenge
  BY <1>1
<1>5. d' = d
  BY <1>4 DEF HookZone, TheChallenge
<1> HIDE DEF d
<1>6. /\ stored' \in [Domains -> SUBSET Challenges]
      /\ \A e \in Domains \ {d} : stored'[e] = stored[e]
  <2>1. (stored[d] \ hook.challenge) \cup (IF hook.add THEN hook.challenge ELSE {})
            \in SUBSET Challenges
    BY <1>3 DEF ZonesTyped
  <2> QED
    BY <1>1, <2>1 DEF ZonesTyped
<1>7. \A e \in Domains : Right(e) => Right(e)'
  <2> SUFFICES ASSUME NEW e \in Domains, Right(e) PROVE Right(e)'
    OBVIOUS
  <2>1. zone[e].records = RecordsOf(e) /\ zone[e].challenges = stored[e]
    BY <1>1 DEF Right
  <2>2. RecordsOf(e)' = RecordsOf(e)
    BY <1>1 DEF RecordsOf
  <2>3. CASE e = d
    BY <1>1, <1>4, <1>5, <2>1, <2>2, <2>3 DEF Right, d
  <2>4. CASE e # d
    BY <1>1, <1>4, <1>5, <1>6, <2>1, <2>2, <2>4 DEF Right, d
  <2> QED
    BY <2>3, <2>4
<1>8. ZonesTyped' /\ HookOK' /\ Locks'
  BY <1>1, <1>2, <1>4, <1>6 DEF ZonesTyped, HookOK, Locks, Working
<1>9. SyncOK' /\ Written'
  BY <1>1, <1>2 DEF SyncOK, Working, Written, Registered
<1>10. Kept'
  BY <1>1, <1>7 DEF Kept, Registered
<1> QED
  BY <1>8, <1>9, <1>10

\* What the hook writes.
LEMMA EditedZone ==
    ASSUME EditZone
    PROVE  zone' = [zone EXCEPT ![HookZone] =
                      [zone[HookZone] EXCEPT
                         !.serial = Later(zone[HookZone].serial + 1, second),
                         !.challenges = (zone[HookZone].challenges \ hook.old)
                                        \cup stored[HookZone]]]
<1> HIDE DEF HookZone, Later
<1> QED
  BY DEF EditZone

LEMMA EditZoneStep == ASSUME ZonesInv, EditZone PROVE ZonesInv'
<1> DEFINE d == HookZone
           edited == [zone[d] EXCEPT !.serial = Later(zone[d].serial + 1, second),
                                     !.challenges = (zone[d].challenges \ hook.old) \cup stored[d]]
<1> USE DEF ZonesInv
<1>1. /\ hook.at = "zone" /\ hook' = [hook EXCEPT !.at = "load"]
      /\ zone' = [zone EXCEPT ![d] = edited]
      /\ UNCHANGED <<second, named, savedNamed, drawnNames, stored, flock, sync, zoneFaults,
                     behind>>
  <2>1. hook.at = "zone" /\ hook' = [hook EXCEPT !.at = "load"]
    BY DEF EditZone
  <2>2. UNCHANGED <<second, named, savedNamed, drawnNames, stored, flock, sync, zoneFaults, behind>>
    BY DEF EditZone, registryVars
  <2> QED
    BY <2>1, <2>2, EditedZone
<1>2. sync.at \notin Working /\ flock = "hook" /\ hook # NoHook
  BY <1>1, HookAlone
<1>3. d \in Domains
  BY <1>2, HookZoneIs
<1>4. hook'.at = "load" /\ hook'.challenge = hook.challenge
  BY <1>1
<1>5. zone[d] \in Zone
  BY <1>3 DEF ZonesTyped
<1>6. /\ edited.records = zone[d].records
      /\ edited.challenges = (zone[d].challenges \ hook.old) \cup stored[d]
      /\ edited \in Zone
  <2>1. Later(zone[d].serial + 1, second) \in Nat
    BY <1>5 DEF Zone, Later, ZonesTyped
  <2>2. (zone[d].challenges \ hook.old) \cup stored[d] \in SUBSET Challenges
    BY <1>3, <1>5 DEF Zone, ZonesTyped
  <2> HIDE DEF d
  <2> QED
    BY <1>5, <2>1, <2>2 DEF Zone
<1>7. /\ zone' \in [Domains -> Zone] /\ zone'[d] = edited
      /\ \A e \in Domains \ {d} : zone'[e] = zone[e]
  <2> HIDE DEF edited, d
  <2> QED
    BY <1>1, <1>3, <1>6 DEF ZonesTyped
<1>8. \A e \in Domains : Right(e) => Right(e)'
  <2> SUFFICES ASSUME NEW e \in Domains, Right(e) PROVE Right(e)'
    OBVIOUS
  <2> HIDE DEF edited
  <2>1. RecordsOf(e)' = RecordsOf(e)
    BY <1>1 DEF RecordsOf
  <2>2. CASE e = d
    <3>1. zone[d].challenges = hook.old /\ zone[d].records = RecordsOf(d)
      BY <1>1, <2>2 DEF Right
    <3>2. edited.challenges = stored[d] /\ edited.records = RecordsOf(d)
      BY <3>1, <1>6
    <3> QED
      BY <1>1, <1>4, <1>7, <2>1, <2>2, <3>2 DEF Right
  <2>3. CASE e # d
    BY <1>1, <1>4, <1>7, <2>1, <2>3 DEF Right
  <2> QED
    BY <2>2, <2>3
<1> HIDE DEF d, edited
<1>9. ZonesTyped' /\ HookOK' /\ Locks'
  BY <1>1, <1>2, <1>4, <1>7 DEF ZonesTyped, HookOK, Locks, Working
<1>10. SyncOK' /\ Written'
  BY <1>1, <1>2 DEF SyncOK, Working, Written, Registered
<1>11. Kept'
  BY <1>1, <1>8 DEF Kept, Registered
<1> QED
  BY <1>9, <1>10, <1>11

-----------------------------------------------------------------------------
LEMMA TickStep == ASSUME ZonesInv, ZoneTick PROVE ZonesInv'
BY DEF ZonesInv, ZoneTick, registryVars, ZonesTyped, Locks, HookOK, SyncOK, Written, Kept, Right,
       RecordsOf,
   HookZone, TheChallenge, Registered, SyncDomain

LEMMA ZonesStutter == ASSUME ZonesInv, UNCHANGED zoneVars PROVE ZonesInv'
BY DEF ZonesInv, zoneVars, ZonesTyped, Locks, HookOK, SyncOK, Written, Kept, Right, RecordsOf,
       HookZone,
   TheChallenge, Registered, SyncDomain

LEMMA ZonesKept == ZonesInv /\ [ZonesNext]_zoneVars => ZonesInv'
<1> SUFFICES ASSUME ZonesInv, [ZonesNext]_zoneVars PROVE ZonesInv'
  OBVIOUS
<1>1. ASSUME NEW d \in Domains, CreateDomain(d) PROVE ZonesInv'
  BY <1>1, CreateDomainStep
<1>2. ASSUME NEW r \in Records, CreateDns(r) PROVE ZonesInv'
  <2>1. named \cup {r} \in SUBSET (Domains \cup Records)
    BY DEF ZonesInv, ZonesTyped
  <2> QED
    BY <1>2, <2>1, OtherChangeStep DEF CreateDns
<1>3. ASSUME NEW x \in Domains \cup Records, DeleteName(x) PROVE ZonesInv'
  <2>1. named \ {x} \in SUBSET (Domains \cup Records)
    BY DEF ZonesInv, ZonesTyped
  <2> QED
    BY <1>3, <2>1, OtherChangeStep DEF DeleteName
<1>4. ASSUME NEW d \in Domains, SyncRead(d) PROVE ZonesInv'
  BY <1>4, SyncReadStep
<1>5. ASSUME NEW c \in Challenges, NEW add \in BOOLEAN, StartHook(c, add) PROVE ZonesInv'
  BY <1>5, StartHookStep
<1> QED
  BY <1>1, <1>2, <1>3, <1>4, <1>5, SyncLockStep, SyncWriteStep, SyncBreaksStep, SyncCheckStep,
     SyncLoadStep, SaveNamesStep, KillAgentStep, LockHookStep, StoreChallengeStep, EditZoneStep,
     EndHookStep,
     KillHookStep, TickStep, ZonesStutter DEF ZonesNext

\* The inductive invariant: the file lock and where its two users are, what dns_sync has read and
\* written, and that every zone outside a running change is right or about to be edited so.
THEOREM ZonesAlways == ZonesSpec => []ZonesInv
BY ZonesStart, ZonesKept, PTL DEF ZonesSpec

\* Between two changes every registered domain has its records and its challenges in its zone
\* file, whatever agent and hook did to the same files, unless something failed since the last
\* complete change.
THEOREM ZonesStayCurrent == ZonesSpec => []ZonesAreCurrent
<1>1. ZonesInv => ZonesAreCurrent
  <2> SUFFICES ASSUME ZonesInv, sync = NoSync, flock = "free", ~behind, NEW d \in Registered(named)
               PROVE  zone[d].records = RecordsOf(d) /\ zone[d].challenges = stored[d]
    BY DEF ZonesAreCurrent
  <2>1. sync.at = "idle" /\ sync.item = {}
    BY DEF NoSync
  <2>2. Right(d)
    BY <2>1 DEF ZonesInv, Kept
  <2>3. hook.at # "zone"
    BY DEF ZonesInv, Locks
  <2> QED
    BY <2>2, <2>3 DEF Right
<1> QED
  BY <1>1, ZonesAlways, PTL

\* A step that changes a zone file gives it a later serial: dns_sync and the hook each compute it
\* from the one they read while they hold the lock.
LEMMA SerialStep ==
    ASSUME ZonesInv, [ZonesNext]_zoneVars, NEW d \in Domains, zone'[d] # zone[d]
    PROVE  zone'[d].serial > zone[d].serial
<1>1. zone[d].serial \in Nat /\ second \in Nat /\ sync.time \in Nat
  BY DEF ZonesInv, ZonesTyped, Zone
<1>2. CASE SyncWrite
  <2>1. sync.at = "write" /\ sync.last = zone[SyncDomain].serial
    BY <1>2 DEF SyncWrite, WriteZone, ZonesInv, SyncOK
  <2>2. d = SyncDomain /\ zone'[d].serial = Later(sync.time, sync.last + 1)
    BY <1>2 DEF SyncWrite, WriteZone, ZonesInv, ZonesTyped
  <2> QED
    BY <1>1, <2>1, <2>2 DEF Later
<1>3. CASE EditZone
  <2>1. /\ zone'[HookZone] = [zone[HookZone] EXCEPT
              !.serial = Later(zone[HookZone].serial + 1, second),
              !.challenges = (zone[HookZone].challenges \ hook.old) \cup stored[HookZone]]
             \/ HookZone \notin Domains
        /\ \A e \in Domains : e = HookZone \/ zone'[e] = zone[e]
    BY <1>3, EditedZone DEF ZonesInv, ZonesTyped
  <2>2. d = HookZone
    BY <2>1
  <2>3. zone'[d].serial = Later(zone[d].serial + 1, second)
    BY <2>1, <2>2 DEF ZonesInv, ZonesTyped, Zone
  <2> QED
    BY <1>1, <2>3 DEF Later
<1>4. CASE ~SyncWrite /\ ~EditZone
  <2>1. zone' = zone
    BY <1>4 DEF ZonesNext, zoneVars, CreateDomain, CreateDns, DeleteName, SyncLock, SyncRead,
       SyncBreaks, SyncCheck, SyncLoad, SaveNames, KillAgent, StartHook, LockHook, StoreChallenge,
       EndHook,
       KillHook, ZoneTick
  <2> QED
    BY <2>1
<1> QED
  BY <1>2, <1>3, <1>4

\* A step that changes a zone file gives it a later serial, whichever of the two processes takes it
\* (serial_after, under the file lock).
THEOREM SerialsAlwaysGrow == ZonesSpec => SerialsGrow
<1>1. ZonesInv /\ [ZonesNext]_zoneVars
          => [\A d \in Domains : zone'[d] # zone[d] => zone'[d].serial > zone[d].serial]_zoneVars
  BY SerialStep
<1> QED
  BY <1>1, ZonesAlways, PTL DEF ZonesSpec, SerialsGrow

-----------------------------------------------------------------------------
(* The check of visitors: the inductive invariant. *)

Kinds == {"none", "configure", "solve"}
Places == {"idle", "row", "call", "done", "failed", "delete", "restore", "settings", "insert"}

Guard == [op : Kinds, at : Places, site : Sites \cup {Nowhere}, new : Nat, before : Nat,
          visit : Visits \cup {Nowhere}, overtaken : BOOLEAN]
Order == [from : Guards \cup {Nowhere}, site : Sites, new : Nat]
PassRow == [visit : Visits, site : Sites, rule : Nat, overtaken : BOOLEAN]

ProtectionTyped ==
    /\ rule \in [Sites -> Nat] /\ gate \in [Sites -> Nat] /\ keptGate \in [Sites -> Nat]
    /\ vhost \in [Sites -> Nat] /\ up \in BOOLEAN /\ rules \in Nat
    /\ nonces \subseteq Visits \X Sites /\ passes \subseteq PassRow
    /\ guard \in [Guards -> Guard]
    /\ orders \in Seq(Order)
    /\ loose \in [Sites -> SUBSET {"gate", "passes"}]

\* Which handler is where, and that one change is made at a time.
Turns ==
    \A h \in Guards :
        /\ guard[h].at \in {"row"} \cup Midway =>
               saving = h /\ guard[h].op = "configure" /\ guard[h].site \in Sites
        /\ guard[h].at \in {"settings", "insert"} =>
               guard[h].op = "solve" /\ guard[h].site \in Sites /\ guard[h].visit \in Visits

\* A call that nobody waits for is of a site that may be behind; the call that a handler waits
\* for is the last.
Calls ==
    \A i \in 1..Len(orders) :
        LET o == orders[i]
        IN  \/ o.from = Nowhere /\ "gate" \in loose[o.site]
            \/ /\ o.from \in Guards /\ i = Len(orders)
               /\ guard[o.from].at = "call" /\ guard[o.from].site = o.site
               /\ rule[o.site] = o.new

\* Between the panel and the agent: nothing is left to answer when the agent is done, and a row
\* that is put back is what the agent has.
Halfway ==
    \A h \in Guards :
        LET s == guard[h].site
        IN  /\ guard[h].at \in {"done", "delete"} =>
                   orders = <<>> /\ AgentHas(s, rule[s]) /\ vhost[s] = rule[s]
            /\ guard[h].at \in {"call", "failed", "restore"} =>
                   AgentHas(s, guard[h].before) \/ "gate" \in loose[s]

\* What is about to become a pass, and what is one.
Solvers ==
    \A h \in Guards :
        LET s == guard[h].site
        IN  guard[h].at = "insert" =>
                guard[h].new = rule[s] \/ guard[h].overtaken \/ Changing(s) \/ "passes" \in loose[s]

ProtectionInv == ProtectionTyped /\ Turns /\ Calls /\ Halfway /\ GateFollowsRule /\ Solvers
                 /\ PassesFollowRule

-----------------------------------------------------------------------------
LEMMA NoGuardIs ==
    /\ NoGuard \in Guard /\ NoGuard.op = "none" /\ NoGuard.at = "idle" /\ NoGuard.site = Nowhere
    /\ NoGuard.visit = Nowhere
<1>1. NoGuard.overtaken \in BOOLEAN
  BY DEF NoGuard
<1>2. NoGuard \in Guard
  BY <1>1 DEF NoGuard, Guard, Kinds, Places
<1> QED
  BY <1>2 DEF NoGuard

LEMMA ProtectionStart == ProtectionInit => ProtectionInv
<1> SUFFICES ASSUME ProtectionInit PROVE ProtectionInv
  OBVIOUS
<1>1. ProtectionTyped
  <2>1. orders \in Seq(Order)
    BY DEF ProtectionInit
  <2>2. guard \in [Guards -> Guard]
    BY NoGuardIs DEF ProtectionInit
  <2>3. loose \in [Sites -> SUBSET {"gate", "passes"}]
    BY DEF ProtectionInit
  <2> QED
    BY <2>1, <2>2, <2>3 DEF ProtectionInit, ProtectionTyped
<1>2. \A h \in Guards : guard[h].at = "idle"
  BY NoGuardIs DEF ProtectionInit
<1>3. Turns /\ Halfway /\ Solvers
  BY <1>2 DEF Turns, Halfway, Solvers, Midway
<1>4. Calls /\ GateFollowsRule /\ PassesFollowRule
  BY DEF ProtectionInit, Calls, GateFollowsRule, AgentHas, PassesFollowRule
<1> QED
  BY <1>1, <1>3, <1>4 DEF ProtectionInv

\* A handler that only goes on.
LEMMA Goes ==
    ASSUME guard \in [Guards -> Guard], NEW h \in Guards, NEW at \in Places,
           guard' = [guard EXCEPT ![h].at = at]
    PROVE  /\ guard' \in [Guards -> Guard]
           /\ \A g \in Guards \ {h} : guard'[g] = guard[g]
           /\ guard'[h] \in Guard /\ guard'[h].at = at
           /\ guard'[h].op = guard[h].op /\ guard'[h].site = guard[h].site
           /\ guard'[h].new = guard[h].new /\ guard'[h].before = guard[h].before
           /\ guard'[h].visit = guard[h].visit /\ guard'[h].overtaken = guard[h].overtaken
<1> DEFINE r == [guard[h] EXCEPT !.at = at]
<1>1. r \in Guard /\ r.at = at /\ r.op = guard[h].op /\ r.site = guard[h].site
      /\ r.new = guard[h].new /\ r.before = guard[h].before
      /\ r.visit = guard[h].visit /\ r.overtaken = guard[h].overtaken
  <2>1. guard[h] \in Guard
    OBVIOUS
  <2> QED
    BY <2>1 DEF Guard
<1>2. guard' = [guard EXCEPT ![h] = r]
  OBVIOUS
<1> HIDE DEF r
<1> QED
  BY <1>1, <1>2

\* A handler that ends, or goes somewhere else with everything it holds.
LEMMA Becomes ==
    ASSUME guard \in [Guards -> Guard], NEW h \in Guards, NEW r \in Guard,
           guard' = [guard EXCEPT ![h] = r]
    PROVE  /\ guard' \in [Guards -> Guard] /\ guard'[h] = r
           /\ \A g \in Guards \ {h} : guard'[g] = guard[g]
OBVIOUS

\* Two handlers are never both in the middle of a change.
LEMMA OneTurn ==
    ASSUME Turns, NEW g \in Guards, NEW h \in Guards,
           guard[g].at \in {"row"} \cup Midway, guard[h].at \in {"row"} \cup Midway
    PROVE  g = h
BY DEF Turns

LEMMA OrderSites == ASSUME ProtectionTyped PROVE \A i \in 1..Len(orders) : orders[i].site \in Sites
<1> SUFFICES ASSUME NEW i \in 1..Len(orders) PROVE orders[i].site \in Sites
  OBVIOUS
<1>1. orders[i] \in Order
  BY DEF ProtectionTyped
<1> QED
  BY <1>1 DEF Order

\* What is left of the calls when h no longer waits.
LEMMA AbandonedCalls ==
    ASSUME ProtectionTyped, NEW h \in Guards
    PROVE  /\ Abandoned(h) \in Seq(Order) /\ Len(Abandoned(h)) = Len(orders)
           /\ \A i \in 1..Len(orders) :
                  /\ Abandoned(h)[i].site = orders[i].site
                  /\ Abandoned(h)[i].from = IF orders[i].from = h THEN Nowhere ELSE orders[i].from
                  /\ Abandoned(h)[i].new = orders[i].new
<1> DEFINE A(i) == [orders[i] EXCEPT !.from = IF @ = h THEN Nowhere ELSE @]
<1>1. orders \in Seq(Order) /\ DOMAIN orders = 1..Len(orders) /\ Len(orders) \in Nat
  BY DEF ProtectionTyped
<1>2. \A i \in 1..Len(orders) :
          /\ A(i) \in Order /\ A(i).site = orders[i].site /\ A(i).new = orders[i].new
          /\ A(i).from = IF orders[i].from = h THEN Nowhere ELSE orders[i].from
  <2> SUFFICES ASSUME NEW i \in 1..Len(orders)
               PROVE  /\ A(i) \in Order /\ A(i).site = orders[i].site /\ A(i).new = orders[i].new
                      /\ A(i).from = IF orders[i].from = h THEN Nowhere ELSE orders[i].from
    OBVIOUS
  <2>1. orders[i] \in Order
    BY <1>1
  <2> QED
    BY <2>1 DEF Order
<1>3. Abandoned(h) = [i \in 1..Len(orders) |-> A(i)]
  BY <1>1 DEF Abandoned
<1> HIDE DEF A
<1>4. Abandoned(h) \in Seq(Order) /\ Len(Abandoned(h)) = Len(orders)
  BY <1>1, <1>2, <1>3
<1> QED
  BY <1>2, <1>3, <1>4

\* The first call is answered.
LEMMA Answered ==
    ASSUME ProtectionInv, NEW at \in {"done", "failed"}, Answers(at)
    PROVE  /\ guard' \in [Guards -> Guard] /\ orders' \in Seq(Order) /\ orders' = Tail(orders)
           /\ Len(orders') = Len(orders) - 1 /\ Len(orders) > 0
           /\ \A i \in 1..Len(orders') : orders'[i] = orders[i + 1]
           /\ Head(orders) = orders[1] /\ orders[1] \in Order
           /\ \A g \in Guards :
                 IF g = Head(orders).from
                 THEN /\ guard[g].at = "call" /\ guard'[g].at = at /\ orders' = <<>>
                      /\ guard[g].site = Head(orders).site /\ guard'[g].site = guard[g].site
                      /\ guard'[g].op = guard[g].op /\ guard'[g].before = guard[g].before
                      /\ rule[guard[g].site] = Head(orders).new
                 ELSE guard'[g] = guard[g]
           /\ Head(orders).from \notin Guards => "gate" \in loose[Head(orders).site]
           /\ \A s : Changing(s)' <=> Changing(s)
<1> USE DEF ProtectionInv
<1>1. orders \in Seq(Order) /\ orders # <<>> /\ orders' = Tail(orders)
      /\ guard' = [h \in Guards |-> IF h = Head(orders).from THEN [guard[h] EXCEPT !.at = at]
                                    ELSE guard[h]]
  BY DEF ProtectionTyped, Answers
<1>2. /\ orders' \in Seq(Order) /\ Len(orders') = Len(orders) - 1 /\ Len(orders) > 0
      /\ \A i \in 1..Len(orders') : orders'[i] = orders[i + 1]
      /\ Head(orders) = orders[1] /\ orders[1] \in Order
  BY <1>1
<1>3. \A g \in Guards : [guard[g] EXCEPT !.at = at] \in Guard
  <2> SUFFICES ASSUME NEW g \in Guards PROVE [guard[g] EXCEPT !.at = at] \in Guard
    OBVIOUS
  <2>1. guard[g] \in Guard
    BY DEF ProtectionTyped
  <2>2. at \in Places
    BY DEF Places
  <2> QED
    BY <2>1, <2>2 DEF Guard
<1>4. guard' \in [Guards -> Guard]
  BY <1>1, <1>3 DEF ProtectionTyped
<1>5. \A g \in Guards : g # Head(orders).from => guard'[g] = guard[g]
  BY <1>1
<1>6. ASSUME NEW g \in Guards, g = Head(orders).from
      PROVE  /\ guard[g].at = "call" /\ guard'[g].at = at /\ orders' = <<>>
             /\ guard[g].site = Head(orders).site /\ guard'[g].site = guard[g].site
             /\ guard'[g].op = guard[g].op /\ guard'[g].before = guard[g].before
             /\ rule[guard[g].site] = Head(orders).new
  <2>1. guard[g] \in Guard /\ guard'[g] = [guard[g] EXCEPT !.at = at]
    BY <1>1, <1>6 DEF ProtectionTyped
  <2>2. g # Nowhere
    BY ProtectionAssumption
  <2>3. /\ 1 = Len(orders) /\ guard[g].at = "call" /\ guard[g].site = Head(orders).site
        /\ rule[guard[g].site] = Head(orders).new
    BY <1>2, <1>6, <2>2 DEF Calls
  <2>4. orders' = <<>>
    BY <1>1, <2>3
  <2>5. /\ guard'[g].at = at /\ guard'[g].site = guard[g].site /\ guard'[g].op = guard[g].op
        /\ guard'[g].before = guard[g].before
    BY <2>1 DEF Guard
  <2> QED
    BY <2>3, <2>4, <2>5
<1>7. Head(orders).from \notin Guards => "gate" \in loose[Head(orders).site]
  BY <1>2 DEF Calls
<1>8. \A s : Changing(s)' <=> Changing(s)
  BY <1>5, <1>6 DEF Changing, Midway
<1> QED
  BY <1>1, <1>2, <1>4, <1>5, <1>6, <1>7, <1>8

-----------------------------------------------------------------------------
(* A change of the settings. *)

LEMMA ConfigureLockStep ==
    ASSUME ProtectionInv, NEW h \in Guards, NEW s \in Sites, ConfigureLock(h, s)
    PROVE  ProtectionInv'
<1> DEFINE r == [NoGuard EXCEPT !.op = "configure", !.at = "row", !.site = s]
<1> USE DEF ProtectionInv
<1>1. /\ guard[h] = NoGuard /\ saving = Nowhere /\ saving' = h /\ guard' = [guard EXCEPT ![h] = r]
      /\ UNCHANGED <<rule, rules, asks, nonces, drawnVisits, passes, gate, keptGate, vhost, up,
                     orders, loose>>
  BY DEF ConfigureLock, visits, rendered, served
<1>2. r \in Guard /\ r.op = "configure" /\ r.at = "row" /\ r.site = s
  BY NoGuardIs DEF Guard, Kinds, Places
<1>3. guard[h].at = "idle"
  BY <1>1, NoGuardIs
<1> HIDE DEF r
<1>4. /\ guard' \in [Guards -> Guard] /\ guard'[h] = r
      /\ \A g \in Guards \ {h} : guard'[g] = guard[g]
  BY <1>1, <1>2, Becomes DEF ProtectionTyped
<1>5. ProtectionTyped'
  BY <1>1, <1>4 DEF ProtectionTyped
<1>6. \A g \in Guards : guard[g].at \notin {"row"} \cup Midway
  BY <1>1, ProtectionAssumption DEF Turns
<1>7. Turns'
  BY <1>1, <1>2, <1>4, <1>6 DEF Turns, Midway
<1>8. \A t : Changing(t)' <=> Changing(t)
  BY <1>2, <1>3, <1>4 DEF Changing, Midway
<1>9. Calls' /\ GateFollowsRule' /\ PassesFollowRule'
  BY <1>1, <1>2, <1>3, <1>4, <1>8 DEF Calls, GateFollowsRule, AgentHas, PassesFollowRule
<1>10. Halfway' /\ Solvers'
  BY <1>1, <1>2, <1>3, <1>4, <1>8 DEF Halfway, AgentHas, Solvers
<1> QED
  BY <1>5, <1>7, <1>9, <1>10

LEMMA ConfigureRowStep ==
    ASSUME ProtectionInv, NEW h \in Guards, NEW captcha \in BOOLEAN, ConfigureRow(h, captcha)
    PROVE  ProtectionInv'
<1> USE DEF ProtectionInv
<1>0. guard[h].at = "row"
  BY DEF ConfigureRow, Guarding
<1> PICK s \in Sites : s = guard[h].site
  BY <1>0 DEF Turns
<1> DEFINE r == [guard[h] EXCEPT !.at = IF up THEN "call" ELSE "restore",
                                 !.new = rules', !.before = rule[s]]
           o == [from |-> h, site |-> s, new |-> rules']
<1>1. /\ guard[h].op = "configure" /\ guard[h].at = "row" /\ rules' = rules + 1
      /\ rule' = [rule EXCEPT ![s] = rules']
      /\ orders' = IF up THEN Append(orders, o) ELSE orders
      /\ UNCHANGED <<gate, keptGate, vhost, up, nonces, drawnVisits, passes, saving, loose>>
  BY DEF ConfigureRow, Guarding, visits, served
<1>2. s \in Sites /\ saving = h /\ guard[h] \in Guard /\ rules' \in Nat /\ rule[s] \in Nat
  BY <1>1 DEF Turns, ProtectionTyped
<1>3. guard' = [guard EXCEPT ![h] = r]
  BY DEF ConfigureRow
<1>4. /\ r \in Guard /\ r.site = s /\ r.before = rule[s] /\ r.op = "configure"
      /\ r.at = IF up THEN "call" ELSE "restore"
      /\ o \in Order /\ o.from = h /\ o.site = s /\ o.new = rules'
  BY <1>1, <1>2 DEF Guard, Order, Places
<1> HIDE DEF r, o
<1>5. /\ guard' \in [Guards -> Guard] /\ guard'[h] = r
      /\ \A g \in Guards \ {h} : guard'[g] = guard[g]
  BY <1>3, <1>4, Becomes DEF ProtectionTyped
<1>6. rule' \in [Sites -> Nat] /\ rule'[s] = rules' /\ \A t \in Sites \ {s} : rule'[t] = rule[t]
  BY <1>1, <1>2 DEF ProtectionTyped
<1>7. /\ orders' \in Seq(Order) /\ Len(orders) \in Nat
      /\ \A i \in 1..Len(orders) : orders'[i] = orders[i]
      /\ up => Len(orders') = Len(orders) + 1 /\ orders'[Len(orders')] = o
      /\ ~up => orders' = orders
  <2>1. orders \in Seq(Order)
    BY DEF ProtectionTyped
  <2>2. CASE up
    BY <1>1, <1>4, <2>1, <2>2
  <2>3. CASE ~up
    BY <1>1, <2>1, <2>3
  <2> QED
    BY <2>2, <2>3
<1>8. ProtectionTyped'
  BY <1>1, <1>2, <1>5, <1>6, <1>7 DEF ProtectionTyped
<1>9. \A g \in Guards : guard[g].at \in {"row"} \cup Midway => g = h
  BY <1>1, OneTurn
<1>10. Turns'
  BY <1>1, <1>2, <1>4, <1>5 DEF Turns, Midway
<1>11. /\ \A t : t # s => (Changing(t)' <=> Changing(t))
       /\ Changing(s)'
  BY <1>1, <1>4, <1>5 DEF Changing, Midway
<1>12. ~Changing(s)
  BY <1>1, <1>9 DEF Changing, Midway
<1>13. \A i \in 1..Len(orders) : orders[i].from = Nowhere /\ "gate" \in loose[orders[i].site]
  BY <1>1, <1>9 DEF Calls, Midway
<1>14. Calls'
  <2> SUFFICES ASSUME NEW i \in 1..Len(orders')
               PROVE  \/ orders'[i].from = Nowhere /\ "gate" \in loose'[orders'[i].site]
                      \/ /\ orders'[i].from \in Guards /\ i = Len(orders')
                         /\ guard'[orders'[i].from].at = "call"
                         /\ guard'[orders'[i].from].site = orders'[i].site
                         /\ rule'[orders'[i].site] = orders'[i].new
    BY DEF Calls
  <2>1. CASE i \in 1..Len(orders)
    BY <1>1, <1>7, <1>13, <2>1
  <2>2. CASE up /\ i = Len(orders')
    BY <1>4, <1>5, <1>6, <1>7, <2>2
  <2> QED
    BY <1>7, <2>1, <2>2
<1>15. Halfway'
  <2>1. AgentHas(s, rule[s]) \/ "gate" \in loose[s]
    BY <1>2, <1>12 DEF GateFollowsRule
  <2>2. \A g \in Guards \ {h} : guard'[g].at \notin Midway
    BY <1>5, <1>9
  <2> QED
    BY <1>1, <1>4, <1>5, <2>1, <2>2 DEF Halfway, Midway, AgentHas
<1>16. GateFollowsRule'
  <2> SUFFICES ASSUME NEW t \in Sites
               PROVE  AgentHas(t, rule'[t]) \/ Changing(t)' \/ "gate" \in loose[t]
    BY <1>1 DEF GateFollowsRule, AgentHas
  <2>1. CASE t = s
    BY <1>11, <2>1
  <2>2. CASE t # s
    BY <1>6, <1>11, <2>2 DEF GateFollowsRule
  <2> QED
    BY <2>1, <2>2
<1>17. Solvers' /\ PassesFollowRule'
  <2>1. \A t \in Sites : t # s => rule'[t] = rule[t]
    BY <1>6
  <2>2. Solvers'
    <3> SUFFICES ASSUME NEW g \in Guards, guard'[g].at = "insert",
                        NEW t \in Sites, t = guard[g].site
                 PROVE  \/ guard'[g].new = rule'[t] \/ guard'[g].overtaken
                        \/ Changing(t)' \/ "passes" \in loose[t]
      <4>1. \A g \in Guards : guard'[g].at = "insert" =>
               g # h /\ guard'[g] = guard[g] /\ guard[g].site \in Sites
        BY <1>4, <1>5 DEF Turns
      <4> QED
        BY <1>1, <4>1 DEF Solvers, Changing
    <3>1. g # h /\ guard'[g] = guard[g]
      BY <1>4, <1>5
    <3>2. CASE t = s
      BY <1>11, <3>2
    <3>3. CASE t # s
      BY <1>1, <1>11, <2>1, <3>1, <3>3 DEF Solvers
    <3> QED
      BY <3>2, <3>3
  <2>3. PassesFollowRule'
    <3> SUFFICES ASSUME NEW p \in passes, NEW t \in Sites, t = p.site
                 PROVE  \/ p.rule = rule'[t] \/ p.overtaken \/ Changing(t)' \/ "passes" \in loose[t]
      BY <1>1 DEF PassesFollowRule, Changing, ProtectionTyped, PassRow
    <3>1. CASE t = s
      BY <1>11, <3>1
    <3>2. CASE t # s
      BY <1>11, <2>1, <3>2 DEF PassesFollowRule
    <3> QED
      BY <3>1, <3>2
  <2> QED
    BY <2>2, <2>3
<1> QED
  BY <1>8, <1>10, <1>14, <1>15, <1>16, <1>17

\* The answers of the agent: the settings are rendered, registered and saved, or some of that is,
\* or none.
LEMMA AnswerStep ==
    ASSUME ProtectionInv, NEW at \in {"done", "failed"}, Answers(at),
           UNCHANGED <<rule, up, rules, asks, nonces, drawnVisits, passes, saving>>,
           gate' \in {gate, Ordered(gate)}, keptGate' \in {keptGate, gate, gate'},
           vhost' \in {vhost, Ordered(vhost)},
           \/ /\ at = "done" /\ loose' = loose
              /\ gate' = Ordered(gate) /\ keptGate' = gate' /\ vhost' = Ordered(vhost)
           \/ at = "failed" /\ loose' = Loosened(Head(orders).site)
           \/ at = "failed" /\ loose' = loose /\ gate' = gate /\ vhost' = vhost
    PROVE  ProtectionInv'
<1> USE DEF ProtectionInv
<1>1. PICK o \in Order : o = Head(orders) /\ o = orders[1]
  BY Answered
<1>2. /\ guard' \in [Guards -> Guard] /\ orders' \in Seq(Order)
      /\ Len(orders') = Len(orders) - 1 /\ Len(orders) > 0 /\ Len(orders) \in Nat
      /\ \A i \in 1..Len(orders') : orders'[i] = orders[i + 1]
      /\ o.site \in Sites /\ o.new \in Nat
      /\ \A s : Changing(s)' <=> Changing(s)
  <2>1. /\ guard' \in [Guards -> Guard] /\ orders' \in Seq(Order)
        /\ Len(orders') = Len(orders) - 1 /\ Len(orders) > 0
        /\ \A i \in 1..Len(orders') : orders'[i] = orders[i + 1]
    BY Answered
  <2>2. \A s : Changing(s)' <=> Changing(s)
    BY Answered
  <2>3. Len(orders) \in Nat
    BY DEF ProtectionTyped
  <2>4. o.site \in Sites /\ o.new \in Nat
    BY DEF Order
  <2> QED
    BY <2>1, <2>2, <2>3, <2>4
<1>3. /\ \A g \in Guards : g # o.from => guard'[g] = guard[g]
      /\ o.from \in Guards =>
            /\ guard[o.from].at = "call" /\ guard'[o.from].at = at /\ orders' = <<>>
            /\ guard[o.from].site = o.site /\ guard'[o.from].site = o.site
            /\ guard'[o.from].op = guard[o.from].op
            /\ guard'[o.from].before = guard[o.from].before
            /\ rule[o.site] = o.new
      /\ o.from \notin Guards => "gate" \in loose[o.site]
  BY <1>1, Answered
<1>4. /\ gate' \in [Sites -> Nat] /\ keptGate' \in [Sites -> Nat] /\ vhost' \in [Sites -> Nat]
      /\ loose' \in [Sites -> SUBSET {"gate", "passes"}]
      /\ \A s \in Sites : loose[s] \subseteq loose'[s]
      /\ \A s \in Sites \ {o.site} :
            gate'[s] = gate[s] /\ keptGate'[s] \in {gate[s], keptGate[s]} /\ vhost'[s] = vhost[s]
      /\ at = "done" => gate'[o.site] = o.new /\ keptGate'[o.site] = o.new /\ vhost'[o.site] = o.new
      /\ at = "failed" => \/ /\ gate'[o.site] = gate[o.site] /\ vhost'[o.site] = vhost[o.site]
                             /\ keptGate'[o.site] \in {gate[o.site], keptGate[o.site]}
                          \/ "gate" \in loose'[o.site]
  <2>1. /\ gate \in [Sites -> Nat] /\ keptGate \in [Sites -> Nat] /\ vhost \in [Sites -> Nat]
        /\ loose \in [Sites -> SUBSET {"gate", "passes"}]
    BY DEF ProtectionTyped
  <2>2. /\ Ordered(gate) = [gate EXCEPT ![o.site] = o.new]
        /\ Ordered(vhost) = [vhost EXCEPT ![o.site] = o.new]
        /\ Loosened(Head(orders).site) = [loose EXCEPT ![o.site] = @ \cup {"gate"}]
    BY <1>1 DEF Ordered, Loosened
  <2>3. /\ gate' \in [Sites -> Nat] /\ vhost' \in [Sites -> Nat]
        /\ \A s \in Sites \ {o.site} : gate'[s] = gate[s] /\ vhost'[s] = vhost[s]
    <3>1. gate' = gate \/ gate' = [gate EXCEPT ![o.site] = o.new]
      BY <2>2
    <3>2. vhost' = vhost \/ vhost' = [vhost EXCEPT ![o.site] = o.new]
      BY <2>2
    <3>3. gate' \in [Sites -> Nat] /\ \A s \in Sites \ {o.site} : gate'[s] = gate[s]
      BY <1>2, <2>1, <3>1
    <3>4. vhost' \in [Sites -> Nat] /\ \A s \in Sites \ {o.site} : vhost'[s] = vhost[s]
      BY <1>2, <2>1, <3>2
    <3> QED
      BY <3>3, <3>4
  <2>4. /\ keptGate' \in [Sites -> Nat]
        /\ \A s \in Sites \ {o.site} : keptGate'[s] \in {gate[s], keptGate[s]}
    <3>1. CASE keptGate' = gate'
      BY <2>3, <3>1
    <3>2. CASE keptGate' \in {keptGate, gate}
      BY <2>1, <3>2
    <3> QED
      BY <3>1, <3>2
  <2>5. /\ loose' \in [Sites -> SUBSET {"gate", "passes"}]
        /\ \A s \in Sites : loose[s] \subseteq loose'[s]
    <3>1. CASE loose' = loose
      BY <2>1, <3>1
    <3>2. CASE loose' = [loose EXCEPT ![o.site] = @ \cup {"gate"}]
      BY <1>2, <2>1, <3>2
    <3> QED
      BY <2>2, <3>1, <3>2
  <2>6. at = "done" => gate'[o.site] = o.new /\ keptGate'[o.site] = o.new /\ vhost'[o.site] = o.new
    BY <1>2, <2>1, <2>2
  <2>7. at = "failed" => \/ /\ gate'[o.site] = gate[o.site] /\ vhost'[o.site] = vhost[o.site]
                            /\ keptGate'[o.site] \in {gate[o.site], keptGate[o.site]}
                         \/ "gate" \in loose'[o.site]
    BY <1>2, <2>1, <2>2
  <2> QED
    BY <2>3, <2>4, <2>5, <2>6, <2>7
<1>5. ProtectionTyped'
  BY <1>2, <1>4 DEF ProtectionTyped
<1>6. Turns'
  BY <1>3 DEF Turns, Midway
<1>7. Calls'
  <2> SUFFICES ASSUME NEW i \in 1..Len(orders')
               PROVE  \/ orders'[i].from = Nowhere /\ "gate" \in loose'[orders'[i].site]
                      \/ /\ orders'[i].from \in Guards /\ i = Len(orders')
                         /\ guard'[orders'[i].from].at = "call"
                         /\ guard'[orders'[i].from].site = orders'[i].site
                         /\ rule'[orders'[i].site] = orders'[i].new
    BY DEF Calls
  <2>1. i + 1 \in 1..Len(orders) /\ orders'[i] = orders[i + 1] /\ orders[i + 1] \in Order
    BY <1>2 DEF ProtectionTyped
  <2>2. o.from \notin Guards
    BY <1>2, <1>3
  <2>3. orders[i + 1].site \in Sites
    BY <2>1 DEF Order
  <2> DEFINE c == orders[i + 1]
  <2>4. \/ c.from = Nowhere /\ "gate" \in loose[c.site]
        \/ /\ c.from \in Guards /\ i + 1 = Len(orders) /\ guard[c.from].at = "call"
           /\ guard[c.from].site = c.site /\ rule[c.site] = c.new
    BY <2>1 DEF Calls
  <2>5. orders'[i] = c /\ c.site \in Sites
    BY <2>1, <2>3
  <2> HIDE DEF c
  <2>6. CASE c.from = Nowhere /\ "gate" \in loose[c.site]
    BY <1>4, <2>5, <2>6
  <2>7. CASE ~(c.from = Nowhere /\ "gate" \in loose[c.site])
    <3>1. guard'[c.from] = guard[c.from] /\ i = Len(orders')
      BY <1>2, <1>3, <2>2, <2>4, <2>7
    <3>2. guard'[c.from].at = "call" /\ guard'[c.from].site = c.site
      BY <2>4, <2>7, <3>1
    <3> QED
      BY <2>4, <2>5, <2>7, <3>1, <3>2
  <2> QED
    BY <2>4, <2>6, <2>7
<1>8. ASSUME NEW s \in Sites, NEW n, AgentHas(s, n), "gate" \notin loose'[s],
             s = o.site => o.from \in Guards /\ at = "failed"
      PROVE  gate'[s] = n /\ keptGate'[s] = n /\ (vhost'[s] = n \/ ~up)
  BY <1>4, <1>8 DEF AgentHas
<1>9. GateFollowsRule'
  <2> SUFFICES ASSUME NEW s \in Sites, ~Changing(s), "gate" \notin loose'[s]
               PROVE  gate'[s] = rule[s] /\ keptGate'[s] = rule[s] /\ (vhost'[s] = rule[s] \/ ~up)
    BY <1>2 DEF GateFollowsRule, AgentHas
  <2>1. AgentHas(s, rule[s])
    BY <1>4 DEF GateFollowsRule
  <2>2. s = o.site => o.from \notin Guards
    BY <1>3 DEF Changing, Midway
  <2>3. s # o.site
    BY <1>3, <1>4, <2>2
  <2> QED
    BY <1>8, <2>1, <2>3
<1>12. Halfway'
  <2> SUFFICES ASSUME NEW g \in Guards, NEW s \in Sites, s = guard'[g].site
               PROVE  /\ guard'[g].at \in {"done", "delete"} =>
                             /\ orders' = <<>> /\ gate'[s] = rule[s] /\ keptGate'[s] = rule[s]
                             /\ vhost'[s] = rule[s]
                      /\ guard'[g].at \in {"call", "failed", "restore"} =>
                             \/ /\ gate'[s] = guard'[g].before /\ keptGate'[s] = guard'[g].before
                                /\ vhost'[s] = guard'[g].before \/ ~up
                             \/ "gate" \in loose'[s]
    <3>1. \A g \in Guards : guard'[g].at \in Midway => guard'[g].site \in Sites
      BY <1>6 DEF Turns
    <3> QED
      BY <3>1 DEF Halfway, Midway, AgentHas
  <2>1. CASE g = o.from
    <3>1. guard[g].at = "call" /\ guard[g].site = s /\ guard'[g].before = guard[g].before
          /\ s = o.site /\ guard'[g].at = at /\ orders' = <<>> /\ rule[s] = o.new
      BY <1>3, <2>1
    <3>2. CASE at = "done"
      BY <1>4, <3>1, <3>2
    <3>3. CASE at = "failed"
      <4>1. AgentHas(s, guard[g].before) \/ "gate" \in loose[s]
        BY <3>1 DEF Halfway
      <4> QED
        BY <1>4, <1>8, <2>1, <3>1, <3>3, <4>1
    <3> QED
      BY <3>2, <3>3
  <2>2. CASE g # o.from
    <3>1. guard'[g] = guard[g]
      BY <1>3, <2>2
    <3>2. guard[g].at \notin {"done", "delete"}
      <4>1. orders # <<>>
        BY <1>2
      <4> QED
        BY <4>1 DEF Halfway
    <3>3. ASSUME guard[g].at \in {"call", "failed", "restore"}, "gate" \notin loose'[s]
          PROVE  /\ gate'[s] = guard[g].before /\ keptGate'[s] = guard[g].before
                 /\ vhost'[s] = guard[g].before \/ ~up
      <4>1. AgentHas(s, guard[g].before)
        BY <1>4, <3>1, <3>3 DEF Halfway
      <4>2. o.from \notin Guards
        <5> SUFFICES ASSUME o.from \in Guards PROVE FALSE
          OBVIOUS
        <5>1. guard[o.from].at \in Midway /\ guard[g].at \in Midway
          BY <1>3, <3>3 DEF Midway
        <5> QED
          BY <2>2, <5>1, OneTurn
      <4>3. s # o.site
        BY <1>3, <1>4, <3>3, <4>2
      <4>4. /\ gate[s] = guard[g].before /\ keptGate[s] = guard[g].before
            /\ vhost[s] = guard[g].before \/ ~up
        BY <4>1 DEF AgentHas
      <4>5. gate'[s] = gate[s] /\ keptGate'[s] \in {gate[s], keptGate[s]} /\ vhost'[s] = vhost[s]
        BY <1>4, <4>3
      <4> QED
        BY <4>4, <4>5
    <3> QED
      BY <3>1, <3>2, <3>3
  <2> QED
    BY <2>1, <2>2
<1>10. Solvers'
  <2> SUFFICES ASSUME NEW g \in Guards, guard'[g].at = "insert", NEW t \in Sites, t = guard[g].site,
                      guard'[g] = guard[g]
               PROVE  \/ guard[g].new = rule[t] \/ guard[g].overtaken
                      \/ Changing(t)' \/ "passes" \in loose'[t]
    <3>1. \A g \in Guards : guard'[g].at = "insert"
             => guard'[g] = guard[g] /\ guard[g].site \in Sites
      BY <1>3 DEF Turns
    <3> QED
      BY <3>1 DEF Solvers, Changing
  <2> QED
    BY <1>2, <1>4 DEF Solvers
<1>11. PassesFollowRule'
  <2> SUFFICES ASSUME NEW p \in passes, NEW t \in Sites, t = p.site
               PROVE  \/ p.rule = rule[t] \/ p.overtaken \/ Changing(t)' \/ "passes" \in loose'[t]
    BY DEF PassesFollowRule, Changing, ProtectionTyped, PassRow
  <2> QED
    BY <1>2, <1>4 DEF PassesFollowRule
<1> QED
  BY <1>5, <1>6, <1>7, <1>9, <1>10, <1>11, <1>12

LEMMA AgentStep ==
    ASSUME ProtectionInv, AgentConfigure \/ AgentUnsaved \/ AgentHalf \/ AgentRefuse
    PROVE  ProtectionInv'
<1>1. CASE AgentConfigure
  BY <1>1, AnswerStep DEF AgentConfigure, visits
<1>2. CASE AgentUnsaved
  BY <1>2, AnswerStep DEF AgentUnsaved, visits
<1>3. CASE AgentHalf
  BY <1>3, AnswerStep DEF AgentHalf, visits
<1>4. CASE AgentRefuse
  BY <1>4, AnswerStep DEF AgentRefuse, visits
<1> QED
  BY <1>1, <1>2, <1>3, <1>4

\* Steps of the agent alone, which keep what it has once it has it.
LEMMA AgentAloneStep ==
    ASSUME ProtectionInv,
           UNCHANGED <<rule, rules, nonces, passes, saving, guard, orders, loose>>,
           gate' \in [Sites -> Nat], keptGate' \in [Sites -> Nat], vhost' \in [Sites -> Nat],
           up' \in BOOLEAN,
           \A s \in Sites, n \in Nat :
               AgentHas(s, n) => /\ AgentHas(s, n)'
                                 /\ vhost[s] = n => vhost'[s] = n
    PROVE  ProtectionInv'
<1> USE DEF ProtectionInv
<1>1. \A t : Changing(t)' <=> Changing(t)
  BY DEF Changing
<1>2. ProtectionTyped' /\ Turns' /\ Calls' /\ Solvers' /\ PassesFollowRule'
  BY <1>1 DEF ProtectionTyped, Turns, Calls, Solvers, PassesFollowRule, Changing
<1>3. \A s \in Sites : rule[s] \in Nat
  BY DEF ProtectionTyped
<1>4. \A h \in Guards : guard[h].before \in Nat
  BY DEF ProtectionTyped, Guard
<1>5. GateFollowsRule'
  BY <1>1, <1>3 DEF GateFollowsRule, AgentHas
<1>6. Halfway'
  <2> SUFFICES ASSUME NEW h \in Guards, NEW s \in Sites, s = guard[h].site
               PROVE  /\ guard[h].at \in {"done", "delete"} =>
                             orders = <<>> /\ AgentHas(s, rule[s])' /\ vhost'[s] = rule[s]
                      /\ guard[h].at \in {"call", "failed", "restore"} =>
                             AgentHas(s, guard[h].before)' \/ "gate" \in loose[s]
    BY DEF Halfway, Turns, Midway
  <2> QED
    BY <1>3, <1>4 DEF Halfway, AgentHas
<1> QED
  BY <1>2, <1>5, <1>6

LEMMA AgentElseStep ==
    ASSUME ProtectionInv, (\E s \in Sites : AgentElse(s) \/ AgentRenders(s)) \/ AgentStarts
    PROVE  ProtectionInv'
<1>1. /\ gate \in [Sites -> Nat] /\ keptGate \in [Sites -> Nat] /\ vhost \in [Sites -> Nat]
      /\ up \in BOOLEAN
  BY DEF ProtectionInv, ProtectionTyped
<1>2. UNCHANGED <<rule, rules, nonces, passes, saving, guard, orders, loose>>
  BY DEF AgentElse, AgentRenders, AgentStarts, visits
<1>3. /\ gate' \in [Sites -> Nat] /\ keptGate' \in [Sites -> Nat] /\ vhost' \in [Sites -> Nat]
      /\ up' \in BOOLEAN
  BY <1>1 DEF AgentElse, AgentRenders, AgentStarts
<1>4. ASSUME NEW s \in Sites, NEW n \in Nat, AgentHas(s, n)
      PROVE  /\ gate'[s] = n /\ keptGate'[s] = n /\ (vhost'[s] = n \/ ~up')
             /\ vhost[s] = n => vhost'[s] = n
  BY <1>1, <1>4 DEF AgentHas, AgentElse, AgentRenders, AgentStarts
<1> QED
  BY <1>2, <1>3, <1>4, AgentAloneStep DEF AgentHas

LEMMA AgentDiesStep == ASSUME ProtectionInv, AgentDies PROVE ProtectionInv'
<1> USE DEF ProtectionInv
<1> DEFINE r(g) == [guard[g] EXCEPT !.at = "restore"]
<1>1. /\ orders' = <<>> /\ gate' = keptGate /\ up' = FALSE
      /\ vhost' \in {vhost} \cup (IF orders = <<>> THEN {} ELSE {Ordered(vhost)})
      /\ guard' = [g \in Guards |-> IF guard[g].at \in AtAgent THEN r(g) ELSE guard[g]]
      /\ loose' = [s \in Sites |->
                      IF \E h \in Guards : guard[h].site = s /\ guard[h].at = "done"
                      THEN loose[s] \cup {"gate"} ELSE loose[s]]
      /\ UNCHANGED <<rule, keptGate, rules, asks, nonces, drawnVisits, passes, saving>>
  BY DEF AgentDies, visits
<1>2. \A g \in Guards : /\ r(g) \in Guard /\ r(g).at = "restore" /\ r(g).op = guard[g].op
                        /\ r(g).site = guard[g].site /\ r(g).before = guard[g].before
  <2> SUFFICES ASSUME NEW g \in Guards
               PROVE  /\ r(g) \in Guard /\ r(g).at = "restore" /\ r(g).op = guard[g].op
                      /\ r(g).site = guard[g].site /\ r(g).before = guard[g].before
    OBVIOUS
  <2>1. guard[g] \in Guard
    BY DEF ProtectionTyped
  <2> QED
    BY <2>1 DEF Guard, Places
<1> HIDE DEF r
<1>3. /\ guard' \in [Guards -> Guard]
      /\ \A g \in Guards : guard[g].at \notin AtAgent => guard'[g] = guard[g]
      /\ \A g \in Guards : guard[g].at \in AtAgent =>
            /\ guard'[g].at = "restore" /\ guard'[g].op = guard[g].op
            /\ guard'[g].site = guard[g].site /\ guard'[g].before = guard[g].before
  BY <1>1, <1>2 DEF ProtectionTyped
<1>4. \A t : Changing(t)' <=> Changing(t)
  BY <1>3 DEF Changing, Midway, AtAgent
<1>5. /\ loose' \in [Sites -> SUBSET {"gate", "passes"}]
      /\ \A s \in Sites : loose[s] \subseteq loose'[s]
      /\ \A g \in Guards : guard[g].at = "done" => "gate" \in loose'[guard[g].site]
  <2>1. loose \in [Sites -> SUBSET {"gate", "passes"}]
    BY DEF ProtectionTyped
  <2>2. \A g \in Guards : guard[g].at = "done" => guard[g].site \in Sites
    BY DEF Turns, Midway
  <2> QED
    BY <1>1, <2>1, <2>2
<1>6. vhost' \in [Sites -> Nat] /\ (orders = <<>> => vhost' = vhost)
  <2>1. CASE orders = <<>>
    BY <1>1, <2>1 DEF ProtectionTyped
  <2>2. CASE orders # <<>>
    <3>1. Head(orders) \in Order
      BY <2>2 DEF ProtectionTyped
    <3>2. Head(orders).new \in Nat
      BY <3>1 DEF Order
    <3> QED
      BY <1>1, <2>2, <3>2 DEF ProtectionTyped, Ordered
  <2> QED
    BY <2>1, <2>2
<1>7. ProtectionTyped'
  <2>1. (orders \in Seq(Order))'
    BY <1>1
  <2> QED
    BY <1>1, <1>3, <1>5, <1>6, <2>1 DEF ProtectionTyped
<1>8. Turns'
  BY <1>1, <1>3 DEF Turns, Midway, AtAgent
<1>9. Calls'
  BY <1>1 DEF Calls
<1>10. Halfway'
  <2> SUFFICES ASSUME NEW g \in Guards, NEW s \in Sites, s = guard[g].site, guard'[g].site = s
               PROVE  /\ guard'[g].at \in {"done", "delete"} =>
                             orders' = <<>> /\ keptGate[s] = rule[s] /\ vhost'[s] = rule[s]
                      /\ guard'[g].at \in {"call", "failed", "restore"} =>
                             keptGate[s] = guard'[g].before \/ "gate" \in loose'[s]
    <3>1. \A g \in Guards : guard'[g].at \in Midway => guard'[g].site \in Sites
      BY <1>8 DEF Turns
    <3>2. \A g \in Guards : guard'[g].site = guard[g].site
      BY <1>3
    <3> QED
      BY <1>1, <3>1, <3>2 DEF Halfway, Midway, AgentHas
  <2>1. CASE guard[g].at \in AtAgent
    <3>1. CASE guard[g].at = "done"
      BY <1>3, <1>5, <2>1, <3>1
    <3>2. CASE guard[g].at \in {"call", "failed"}
      BY <1>3, <1>5, <2>1, <3>2 DEF Halfway, AgentHas
    <3> QED
      BY <2>1, <3>1, <3>2 DEF AtAgent
  <2>2. CASE guard[g].at \notin AtAgent
    <3>1. guard'[g] = guard[g] /\ guard[g].at \notin {"call", "done", "failed"}
      BY <1>3, <2>2 DEF AtAgent
    <3>2. guard[g].at = "delete" => orders = <<>> /\ keptGate[s] = rule[s] /\ vhost[s] = rule[s]
      BY DEF Halfway, AgentHas
    <3>3. guard[g].at = "restore" => keptGate[s] = guard[g].before \/ "gate" \in loose[s]
      BY DEF Halfway, AgentHas
    <3> QED
      BY <1>1, <1>5, <1>6, <3>1, <3>2, <3>3
  <2> QED
    BY <2>1, <2>2
<1>11. GateFollowsRule'
  BY <1>1, <1>4, <1>5 DEF GateFollowsRule, AgentHas
<1>12. Solvers'
  <2> SUFFICES ASSUME NEW g \in Guards, guard[g].at = "insert", guard'[g] = guard[g],
                      NEW s \in Sites, s = guard[g].site
               PROVE  \/ guard[g].new = rule[s] \/ guard[g].overtaken
                      \/ Changing(s)' \/ "passes" \in loose'[s]
    <3>1. \A g \in Guards : guard'[g].at = "insert"
             => guard[g].at = "insert" /\ guard'[g] = guard[g] /\ guard[g].site \in Sites
      BY <1>3 DEF Turns, AtAgent
    <3> QED
      BY <1>1, <3>1 DEF Solvers, Changing
  <2> QED
    BY <1>4, <1>5 DEF Solvers
<1>13. PassesFollowRule'
  <2>1. \A p \in passes : p.site \in Sites
    BY DEF ProtectionTyped, PassRow
  <2> QED
    BY <1>1, <1>4, <1>5, <2>1 DEF PassesFollowRule
<1> QED
  BY <1>7, <1>8, <1>9, <1>10, <1>11, <1>12, <1>13

\* The answer reaches the handler that waits for it.
LEMMA AnswerArrivesStep ==
    ASSUME ProtectionInv, NEW h \in Guards, AnswerArrives(h)
    PROVE  ProtectionInv'
<1> USE DEF ProtectionInv
<1> DEFINE at == IF guard[h].at = "done" THEN "delete" ELSE "restore"
<1>1. /\ guard[h].at \in {"done", "failed"} /\ guard' = [guard EXCEPT ![h].at = at]
      /\ UNCHANGED <<rule, rules, nonces, passes, saving, gate, keptGate, vhost, up, orders, loose>>
  BY DEF AnswerArrives, Guarding, GuardGoes, visits, rendered, served
<1>2. at \in Places /\ (guard[h].at = "done" => at = "delete")
      /\ (guard[h].at = "failed" => at = "restore")
  BY DEF Places
<1> HIDE DEF at
<1>3. /\ guard' \in [Guards -> Guard]
      /\ \A g \in Guards \ {h} : guard'[g] = guard[g]
      /\ guard'[h].at = at /\ guard'[h].op = guard[h].op /\ guard'[h].site = guard[h].site
      /\ guard'[h].before = guard[h].before
  BY <1>1, <1>2, Goes DEF ProtectionTyped
<1>4. \A t : Changing(t)' <=> Changing(t)
  BY <1>1, <1>2, <1>3 DEF Changing, Midway
<1>5. ProtectionTyped' /\ Turns'
  BY <1>1, <1>2, <1>3 DEF ProtectionTyped, Turns, Midway
<1>6. Calls'
  BY <1>1, <1>3 DEF Calls
<1>7. Halfway'
  BY <1>1, <1>2, <1>3 DEF Halfway, AgentHas
<1>8. GateFollowsRule' /\ PassesFollowRule'
  BY <1>1, <1>4 DEF GateFollowsRule, AgentHas, PassesFollowRule
<1>9. Solvers'
  BY <1>1, <1>2, <1>3, <1>4 DEF Solvers, Changing
<1> QED
  BY <1>5, <1>6, <1>7, <1>8, <1>9

LEMMA CallGivenUpStep == ASSUME ProtectionInv, NEW h \in Guards, CallGivenUp(h) PROVE ProtectionInv'
<1> USE DEF ProtectionInv
<1>0. guard[h].at \in {"call", "done", "failed"}
  BY DEF CallGivenUp, AtAgent
<1> PICK s \in Sites : s = guard[h].site
  BY <1>0 DEF Turns, Midway
<1>1. /\ orders' = Abandoned(h) /\ guard' = [guard EXCEPT ![h].at = "restore"]
      /\ loose' = [loose EXCEPT ![s] = @ \cup {"gate"}]
      /\ UNCHANGED <<rule, gate, keptGate, vhost, up, rules, asks, nonces, drawnVisits, passes,
                     saving>>
  BY DEF CallGivenUp, GuardGoes, Loosened, visits, served
<1>2. /\ guard' \in [Guards -> Guard]
      /\ \A g \in Guards \ {h} : guard'[g] = guard[g]
      /\ guard'[h] \in Guard /\ guard'[h].at = "restore"
      /\ guard'[h].op = guard[h].op /\ guard'[h].site = guard[h].site
      /\ guard'[h].before = guard[h].before
  BY <1>1, Goes DEF ProtectionTyped, Places
<1>3. /\ orders' \in Seq(Order) /\ Len(orders') = Len(orders)
      /\ \A i \in 1..Len(orders) :
             /\ orders'[i].site = orders[i].site /\ orders'[i].new = orders[i].new
             /\ orders'[i].from = IF orders[i].from = h THEN Nowhere ELSE orders[i].from
             /\ orders[i].site \in Sites
  <2>1. \A i \in 1..Len(orders) : orders[i].site \in Sites
    BY OrderSites
  <2> QED
    BY <1>1, <2>1, AbandonedCalls
<1>4. /\ loose' \in [Sites -> SUBSET {"gate", "passes"}] /\ "gate" \in loose'[s]
      /\ \A t \in Sites : loose[t] \subseteq loose'[t]
      /\ \A t \in Sites \ {s} : loose'[t] = loose[t]
  BY <1>1 DEF ProtectionTyped
<1>5. \A t : Changing(t)' <=> Changing(t)
  BY <1>0, <1>2 DEF Changing, Midway
<1>6. ProtectionTyped' /\ Turns'
  BY <1>0, <1>1, <1>2, <1>3, <1>4 DEF ProtectionTyped, Turns, Midway
<1>7. Calls'
  <2> SUFFICES ASSUME NEW i \in 1..Len(orders)
               PROVE  \/ orders'[i].from = Nowhere /\ "gate" \in loose'[orders'[i].site]
                      \/ /\ orders'[i].from \in Guards /\ i = Len(orders')
                         /\ guard'[orders'[i].from].at = "call"
                         /\ guard'[orders'[i].from].site = orders'[i].site
                         /\ rule'[orders'[i].site] = orders'[i].new
    BY <1>3 DEF Calls
  <2>1. h # Nowhere
    BY ProtectionAssumption
  <2>2. CASE orders[i].from = h
    BY <1>3, <1>4, <2>1, <2>2 DEF Calls
  <2>3. CASE orders[i].from # h
    BY <1>1, <1>2, <1>3, <1>4, <2>3 DEF Calls
  <2> QED
    BY <2>2, <2>3
<1>8. Halfway'
  <2> SUFFICES ASSUME NEW g \in Guards, NEW t \in Sites, t = guard[g].site, guard'[g].site = t,
                      g = h \/ guard'[g] = guard[g]
               PROVE  /\ guard'[g].at \in {"done", "delete"} =>
                             orders' = <<>> /\ AgentHas(t, rule[t]) /\ vhost[t] = rule[t]
                      /\ guard'[g].at \in {"call", "failed", "restore"} =>
                             AgentHas(t, guard'[g].before) \/ "gate" \in loose'[t]
    <3>1. \A g \in Guards : guard'[g].at \in Midway => guard'[g].site \in Sites
      BY <1>6 DEF Turns
    <3> QED
      BY <1>1, <1>2, <3>1 DEF Halfway, Midway, AgentHas
  <2>1. guard[g].at \in Midway => g = h
    BY <1>0, OneTurn DEF Midway
  <2> QED
    BY <1>2, <1>4, <2>1 DEF Midway
<1>9. GateFollowsRule'
  BY <1>1, <1>4, <1>5 DEF GateFollowsRule, AgentHas
<1>10. Solvers' /\ PassesFollowRule'
  <2>1. \A g \in Guards : guard'[g].at = "insert" => guard'[g] = guard[g] /\ guard[g].site \in Sites
    BY <1>2 DEF Turns
  <2>2. Solvers'
    BY <1>1, <1>4, <1>5, <2>1 DEF Solvers, Changing
  <2>3. \A p \in passes : p.site \in Sites
    BY DEF ProtectionTyped, PassRow
  <2>4. PassesFollowRule'
    BY <1>1, <1>4, <1>5, <2>3 DEF PassesFollowRule
  <2> QED
    BY <2>2, <2>4
<1> QED
  BY <1>6, <1>7, <1>8, <1>9, <1>10

\* The end of a handler: it holds nothing any more, and neither does it the mutex.
LEMMA Ends ==
    ASSUME ProtectionTyped, Turns, NEW h \in Guards, GuardEnds(h)
    PROVE  /\ guard' \in [Guards -> Guard] /\ guard'[h] = NoGuard /\ guard'[h].at = "idle"
           /\ \A g \in Guards \ {h} : guard'[g] = guard[g]
           /\ Turns'
           /\ \A t : t # guard[h].site \/ guard[h].at \notin Midway
                 => (Changing(t)' <=> Changing(t))
<1>1. /\ guard' \in [Guards -> Guard] /\ guard'[h] = NoGuard /\ guard'[h].at = "idle"
      /\ \A g \in Guards \ {h} : guard'[g] = guard[g]
  BY Becomes, NoGuardIs DEF GuardEnds, ProtectionTyped
<1>2. Turns'
  <2>1. \A g \in Guards \ {h} : guard[g].at \in {"row"} \cup Midway => saving' = g
    BY DEF Turns, GuardEnds
  <2> QED
    BY <1>1, <2>1 DEF Turns, Midway
<1>3. \A t : t # guard[h].site \/ guard[h].at \notin Midway => (Changing(t)' <=> Changing(t))
  BY <1>1 DEF Changing, Midway
<1> QED
  BY <1>1, <1>2, <1>3

LEMMA ConfigureRestoreStep ==
    ASSUME ProtectionInv, NEW h \in Guards, ConfigureRestore(h)
    PROVE  ProtectionInv'
<1> USE DEF ProtectionInv
<1>0. guard[h].at = "restore"
  BY DEF ConfigureRestore, Guarding
<1> PICK s \in Sites : s = guard[h].site
  BY <1>0 DEF Turns, Midway
<1>1. /\ rule' = [rule EXCEPT ![s] = guard[h].before] /\ GuardEnds(h)
      /\ loose' = [loose EXCEPT ![s] = @ \cup {"passes"}]
      /\ UNCHANGED <<rules, asks, nonces, drawnVisits, passes, gate, keptGate, vhost, up, orders>>
  BY DEF ConfigureRestore, visits, rendered, served
<1>2. /\ guard' \in [Guards -> Guard] /\ guard'[h].at = "idle"
      /\ \A g \in Guards \ {h} : guard'[g] = guard[g]
  BY <1>1, Ends
<1>3. Turns'
  BY <1>1, Ends
<1>4. \A t : t # s => (Changing(t)' <=> Changing(t))
  BY <1>1, Ends
<1>5. /\ loose' \in [Sites -> SUBSET {"gate", "passes"}]
      /\ "passes" \in loose'[s] /\ ("gate" \in loose[s] => "gate" \in loose'[s])
      /\ \A t \in Sites : t # s => loose'[t] = loose[t]
  BY <1>1 DEF ProtectionTyped
<1>6. /\ rule' \in [Sites -> Nat] /\ rule'[s] = guard[h].before
      /\ \A t \in Sites : t # s => rule'[t] = rule[t]
  <2>1. guard[h].before \in Nat
    BY DEF ProtectionTyped, Guard
  <2> QED
    BY <1>1, <2>1 DEF ProtectionTyped
<1>7. ProtectionTyped'
  BY <1>1, <1>2, <1>5, <1>6 DEF ProtectionTyped
<1>8. \A g \in Guards : guard[g].at \in Midway => g = h
  BY <1>0, OneTurn DEF Midway
<1>9. \A i \in 1..Len(orders) : orders[i].from = Nowhere /\ "gate" \in loose[orders[i].site]
  BY <1>0, <1>8 DEF Calls, Midway
<1>10. Calls'
  <2>1. \A i \in 1..Len(orders) : orders[i].site \in Sites
    BY OrderSites
  <2> QED
    BY <1>1, <1>5, <1>9, <2>1 DEF Calls
<1>11. Halfway'
  BY <1>2, <1>8 DEF Halfway, Midway
<1>12. GateFollowsRule'
  <2> SUFFICES ASSUME NEW t \in Sites
               PROVE  AgentHas(t, rule'[t]) \/ Changing(t)' \/ "gate" \in loose'[t]
    BY <1>1 DEF GateFollowsRule, AgentHas
  <2>1. CASE t = s
    BY <1>0, <1>5, <1>6, <2>1 DEF Halfway
  <2>2. CASE t # s
    BY <1>4, <1>5, <1>6, <2>2 DEF GateFollowsRule
  <2> QED
    BY <2>1, <2>2
<1>13. Solvers'
  <2> SUFFICES ASSUME NEW g \in Guards, guard[g].at = "insert", guard'[g] = guard[g],
                      NEW t \in Sites, t = guard[g].site
               PROVE  \/ guard[g].new = rule'[t] \/ guard[g].overtaken
                      \/ Changing(t)' \/ "passes" \in loose'[t]
    <3>1. \A g \in Guards : guard'[g].at = "insert"
             => guard'[g] = guard[g] /\ guard[g].site \in Sites
      BY <1>2 DEF Turns
    <3> QED
      BY <3>1 DEF Solvers, Changing
  <2>1. CASE t = s
    BY <1>5, <2>1
  <2>2. CASE t # s
    BY <1>4, <1>5, <1>6, <2>2 DEF Solvers
  <2> QED
    BY <2>1, <2>2
<1>14. PassesFollowRule'
  <2> SUFFICES ASSUME NEW p \in passes, NEW t \in Sites, t = p.site
               PROVE  \/ p.rule = rule'[t] \/ p.overtaken \/ Changing(t)' \/ "passes" \in loose'[t]
    BY <1>1 DEF PassesFollowRule, Changing, ProtectionTyped, PassRow
  <2>1. CASE t = s
    BY <1>5, <2>1
  <2>2. CASE t # s
    BY <1>4, <1>5, <1>6, <2>2 DEF PassesFollowRule
  <2> QED
    BY <2>1, <2>2
<1> QED
  BY <1>3, <1>7, <1>10, <1>11, <1>12, <1>13, <1>14

LEMMA ConfigureDeleteStep ==
    ASSUME ProtectionInv, NEW h \in Guards, ConfigureDelete(h)
    PROVE  ProtectionInv'
<1> USE DEF ProtectionInv
<1>0. guard[h].at = "delete"
  BY DEF ConfigureDelete, Guarding
<1> PICK s \in Sites : s = guard[h].site
  BY <1>0 DEF Turns, Midway
<1> DEFINE late(g) == guard[g].op = "solve" /\ guard[g].at = "insert" /\ guard[g].site = s
           r(g) == [guard[g] EXCEPT !.overtaken = TRUE]
<1>1. /\ passes' = {p \in passes : p.site # s} /\ loose' = [loose EXCEPT ![s] = {}]
      /\ saving' = Nowhere
      /\ guard' = [g \in Guards |-> IF g = h THEN NoGuard ELSE IF late(g) THEN r(g) ELSE guard[g]]
      /\ UNCHANGED <<rule, rules, asks, nonces, drawnVisits, gate, keptGate, vhost, up, orders>>
  BY DEF ConfigureDelete, Guarding, rendered, served
<1>2. \A g \in Guards : /\ r(g) \in Guard /\ r(g).overtaken /\ r(g).at = guard[g].at
                        /\ r(g).site = guard[g].site /\ r(g).op = guard[g].op
                        /\ r(g).visit = guard[g].visit
  <2> SUFFICES ASSUME NEW g \in Guards
               PROVE  /\ r(g) \in Guard /\ r(g).overtaken /\ r(g).at = guard[g].at
                      /\ r(g).site = guard[g].site /\ r(g).op = guard[g].op
                      /\ r(g).visit = guard[g].visit
    OBVIOUS
  <2>1. guard[g] \in Guard
    BY DEF ProtectionTyped
  <2> QED
    BY <2>1 DEF Guard
<1> HIDE DEF r
<1>3. /\ guard' \in [Guards -> Guard] /\ guard'[h] = NoGuard /\ guard'[h].at = "idle"
      /\ \A g \in Guards \ {h} :
            /\ late(g) => guard'[g] = r(g)
            /\ ~late(g) => guard'[g] = guard[g]
            /\ guard'[g].at = guard[g].at /\ guard'[g].site = guard[g].site
            /\ guard'[g].op = guard[g].op /\ guard'[g].visit = guard[g].visit
  BY <1>1, <1>2, NoGuardIs DEF ProtectionTyped
<1>4. /\ loose' \in [Sites -> SUBSET {"gate", "passes"}]
      /\ \A t \in Sites : t # s => loose'[t] = loose[t]
  BY <1>1 DEF ProtectionTyped
<1>5. ProtectionTyped'
  BY <1>1, <1>3, <1>4 DEF ProtectionTyped
<1>6. \A g \in Guards : guard[g].at \in {"row"} \cup Midway => g = h
  BY <1>0, OneTurn DEF Midway
<1>7. Turns'
  BY <1>3, <1>6 DEF Turns, Midway
<1>8. \A t : t # s => (Changing(t)' <=> Changing(t))
  BY <1>3 DEF Changing, Midway
<1>9. orders = <<>> /\ AgentHas(s, rule[s])
  BY <1>0 DEF Halfway
<1>10. Calls'
  BY <1>1, <1>9 DEF Calls
<1>11. Halfway'
  BY <1>3, <1>6 DEF Halfway, Midway
<1>12. GateFollowsRule'
  <2> SUFFICES ASSUME NEW t \in Sites
               PROVE  AgentHas(t, rule[t]) \/ Changing(t)' \/ "gate" \in loose'[t]
    BY <1>1 DEF GateFollowsRule, AgentHas
  <2>1. CASE t = s
    BY <1>9, <2>1
  <2>2. CASE t # s
    BY <1>4, <1>8, <2>2 DEF GateFollowsRule
  <2> QED
    BY <2>1, <2>2
<1>13. Solvers'
  <2> SUFFICES ASSUME NEW g \in Guards \ {h}, guard[g].at = "insert", guard[g].op = "solve",
                      NEW t \in Sites, t = guard[g].site
               PROVE  \/ guard'[g].new = rule[t] \/ guard'[g].overtaken
                      \/ Changing(t)' \/ "passes" \in loose'[t]
    <3>1. \A g \in Guards : guard'[g].at = "insert" =>
             /\ g # h /\ guard[g].at = "insert" /\ guard[g].op = "solve" /\ guard[g].site \in Sites
             /\ guard'[g].site = guard[g].site
      BY <1>3 DEF Turns
    <3> QED
      BY <1>1, <3>1 DEF Solvers, Changing
  <2>1. CASE t = s
    BY <1>2, <1>3, <2>1
  <2>2. CASE t # s
    BY <1>3, <1>4, <1>8, <2>2 DEF Solvers
  <2> QED
    BY <2>1, <2>2
<1>14. PassesFollowRule'
  <2> SUFFICES ASSUME NEW p \in passes, NEW t \in Sites \ {s}, t = p.site
               PROVE  \/ p.rule = rule[t] \/ p.overtaken \/ Changing(t)' \/ "passes" \in loose'[t]
    BY <1>1 DEF PassesFollowRule, Changing, ProtectionTyped, PassRow
  <2> QED
    BY <1>4, <1>8 DEF PassesFollowRule
<1> QED
  BY <1>5, <1>7, <1>10, <1>11, <1>12, <1>13, <1>14

-----------------------------------------------------------------------------
(* Visitors, and handlers that end early. *)

\* Steps of one visitor: no row, no call and no change of the settings is touched.
LEMMA VisitorStep ==
    ASSUME ProtectionInv, NEW h \in Guards, guard' \in [Guards -> Guard],
           \A g \in Guards \ {h} : guard'[g] = guard[g],
           guard[h].at \notin {"row"} \cup Midway, guard'[h].at \notin {"row"} \cup Midway,
           UNCHANGED <<rule, rules, gate, keptGate, vhost, up, orders, loose>>,
           \A g \in Guards : guard[g].at \in {"row"} \cup Midway => saving' = saving,
           nonces' \subseteq nonces, passes' \subseteq PassRow,
           \A p \in passes' : \/ p \in passes
                              \/ /\ guard[h].at = "insert" /\ p.site = guard[h].site
                                 /\ p.rule = guard[h].new /\ p.overtaken = guard[h].overtaken,
           guard'[h].at \in {"settings", "insert"} =>
               /\ guard'[h].op = "solve" /\ guard'[h].site \in Sites /\ guard'[h].visit \in Visits,
           guard'[h].at = "insert" => guard'[h].new = rule[guard'[h].site]
    PROVE  ProtectionInv'
<1> USE DEF ProtectionInv
<1>1. ProtectionTyped'
  BY DEF ProtectionTyped
<1>2. Turns'
  BY DEF Turns
<1>3. \A t : Changing(t)' <=> Changing(t)
  BY DEF Changing, Midway
<1>4. Calls'
  BY DEF Calls, Midway
<1>5. Halfway'
  BY DEF Halfway, Midway, AgentHas
<1>6. GateFollowsRule'
  BY <1>3 DEF GateFollowsRule, AgentHas
<1>7. Solvers'
  BY <1>3 DEF Solvers, Changing
<1>8. PassesFollowRule'
  <2> SUFFICES ASSUME NEW p \in passes', NEW t, t = p.site
               PROVE  \/ p.rule = rule[t] \/ p.overtaken \/ Changing(t)' \/ "passes" \in loose[t]
    BY DEF PassesFollowRule, Changing
  <2>1. CASE p \in passes
    BY <1>3, <2>1 DEF PassesFollowRule
  <2>2. CASE /\ guard[h].at = "insert" /\ p.site = guard[h].site
             /\ p.rule = guard[h].new /\ p.overtaken = guard[h].overtaken
    <3>1. guard[h].new = rule[t] \/ guard[h].overtaken \/ Changing(t) \/ "passes" \in loose[t]
      BY <2>2 DEF Solvers
    <3> QED
      BY <1>3, <2>2, <3>1
  <2> QED
    BY <2>1, <2>2
<1> QED
  BY <1>1, <1>2, <1>4, <1>5, <1>6, <1>7, <1>8

LEMMA SolveNonceStep ==
    ASSUME ProtectionInv, NEW h \in Guards, NEW v \in Visits, NEW s \in Sites, SolveNonce(h, v, s)
    PROVE  ProtectionInv'
<1> DEFINE r == [NoGuard EXCEPT !.op = "solve", !.at = "settings", !.site = s, !.visit = v]
<1>1. /\ guard[h] = NoGuard /\ guard' = [guard EXCEPT ![h] = r] /\ nonces' \subseteq nonces
      /\ UNCHANGED <<rule, rules, gate, keptGate, vhost, up, orders, loose, passes, saving>>
  BY DEF SolveNonce, rendered, served
<1>2. r \in Guard /\ r.op = "solve" /\ r.at = "settings" /\ r.site = s /\ r.visit = v
  BY NoGuardIs DEF Guard, Kinds, Places
<1>3. guard[h].at = "idle"
  BY <1>1, NoGuardIs
<1> HIDE DEF r
<1>4. /\ guard' \in [Guards -> Guard] /\ guard'[h] = r
      /\ \A g \in Guards \ {h} : guard'[g] = guard[g]
  BY <1>1, <1>2, Becomes DEF ProtectionInv, ProtectionTyped
<1>5. passes' \subseteq PassRow
  BY <1>1 DEF ProtectionInv, ProtectionTyped
<1> QED
  BY <1>1, <1>2, <1>3, <1>4, <1>5, VisitorStep DEF Midway

LEMMA SolveReadStep == ASSUME ProtectionInv, NEW h \in Guards, SolveRead(h) PROVE ProtectionInv'
<1>1. guard[h].op = "solve" /\ guard[h].at = "settings" /\ guard[h].site \in Sites
      /\ guard[h].visit \in Visits /\ guard[h] \in Guard
  BY DEF SolveRead, Guarding, ProtectionInv, Turns, ProtectionTyped
<1> DEFINE r == [guard[h] EXCEPT !.at = "insert", !.new = rule[guard[h].site]]
<1>2. /\ guard' = [guard EXCEPT ![h] = r]
      /\ UNCHANGED <<rule, rules, gate, keptGate, vhost, up, orders, loose, passes, nonces, saving>>
  BY DEF SolveRead, visits, rendered, served
<1>3. rule[guard[h].site] \in Nat
  BY <1>1 DEF ProtectionInv, ProtectionTyped
<1>4. /\ r \in Guard /\ r.at = "insert" /\ r.new = rule[guard[h].site] /\ r.site = guard[h].site
      /\ r.op = guard[h].op /\ r.visit = guard[h].visit
  BY <1>1, <1>3 DEF Guard, Places
<1> HIDE DEF r
<1>5. /\ guard' \in [Guards -> Guard] /\ guard'[h] = r
      /\ \A g \in Guards \ {h} : guard'[g] = guard[g]
  BY <1>2, <1>4, Becomes DEF ProtectionInv, ProtectionTyped
<1>6. passes' \subseteq PassRow
  BY <1>2 DEF ProtectionInv, ProtectionTyped
<1> QED
  BY <1>1, <1>2, <1>4, <1>5, <1>6, VisitorStep DEF Midway

LEMMA SolveInsertStep == ASSUME ProtectionInv, NEW h \in Guards, SolveInsert(h) PROVE ProtectionInv'
<1>1. guard[h].at = "insert" /\ guard[h].site \in Sites
      /\ guard[h].visit \in Visits /\ guard[h] \in Guard
  BY DEF SolveInsert, Guarding, ProtectionInv, Turns, ProtectionTyped
<1> DEFINE p == [visit |-> guard[h].visit, site |-> guard[h].site,
                 rule |-> guard[h].new, overtaken |-> guard[h].overtaken]
<1>2. /\ passes' = passes \cup {p} /\ GuardEnds(h)
      /\ UNCHANGED <<rule, rules, gate, keptGate, vhost, up, orders, loose, nonces>>
  BY DEF SolveInsert, rendered, served
<1>3. /\ p \in PassRow /\ p.site = guard[h].site /\ p.rule = guard[h].new
      /\ p.overtaken = guard[h].overtaken
  BY <1>1 DEF Guard, PassRow
<1>4. /\ guard' \in [Guards -> Guard] /\ guard'[h].at = "idle"
      /\ \A g \in Guards \ {h} : guard'[g] = guard[g]
  BY <1>2, Ends DEF ProtectionInv
<1>5. \A g \in Guards : guard[g].at \in {"row"} \cup Midway => saving' = saving
  BY <1>1, <1>2 DEF GuardEnds, ProtectionInv, Turns, Midway
<1> HIDE DEF p
<1>6. passes' \subseteq PassRow
  BY <1>2, <1>3 DEF ProtectionInv, ProtectionTyped
<1> QED
  BY <1>1, <1>2, <1>3, <1>4, <1>5, <1>6, VisitorStep DEF Midway

LEMMA ChallengeStep ==
    ASSUME ProtectionInv, NEW v \in Visits, NEW s \in Sites, Challenge(v, s)
    PROVE  ProtectionInv'
<1>1. /\ nonces' = nonces \cup {<<v, s>>}
      /\ UNCHANGED <<rule, rules, passes, saving, guard, gate, keptGate, vhost, up, orders, loose>>
  BY DEF Challenge, rendered, served
<1>2. \A t : Changing(t)' <=> Changing(t)
  BY <1>1 DEF Changing
<1>3. ProtectionTyped'
  BY <1>1 DEF ProtectionInv, ProtectionTyped
<1> QED
  BY <1>1, <1>2, <1>3 DEF ProtectionInv, Turns, Calls, Halfway, GateFollowsRule, AgentHas, Solvers,
                          PassesFollowRule, Changing

LEMMA ExpirePassStep == ASSUME ProtectionInv, NEW p, ExpirePass(p) PROVE ProtectionInv'
<1>1. /\ passes' \subseteq passes
      /\ UNCHANGED <<rule, rules, nonces, saving, guard, gate, keptGate, vhost, up, orders, loose>>
  BY DEF ExpirePass, rendered, served
<1>2. \A t : Changing(t)' <=> Changing(t)
  BY <1>1 DEF Changing
<1>3. ProtectionTyped'
  BY <1>1 DEF ProtectionInv, ProtectionTyped
<1> QED
  BY <1>1, <1>2, <1>3 DEF ProtectionInv, Turns, Calls, Halfway, GateFollowsRule, AgentHas, Solvers,
                          PassesFollowRule, Changing

LEMMA DropGuardStep == ASSUME ProtectionInv, NEW h \in Guards, DropGuard(h) PROVE ProtectionInv'
<1> USE DEF ProtectionInv
<1>1. /\ GuardEnds(h) /\ orders' = Abandoned(h)
      /\ UNCHANGED <<rule, gate, keptGate, vhost, up, rules, asks, nonces, drawnVisits, passes>>
  BY DEF DropGuard, visits, served
<1>2. /\ guard' \in [Guards -> Guard] /\ guard'[h].at = "idle"
      /\ \A g \in Guards \ {h} : guard'[g] = guard[g]
  BY <1>1, Ends
<1>3. Turns'
  BY <1>1, Ends
<1>4. \A t : t # guard[h].site \/ guard[h].at \notin Midway => (Changing(t)' <=> Changing(t))
  BY <1>1, Ends
<1>5. /\ loose' \in [Sites -> SUBSET {"gate", "passes"}]
      /\ \A t \in Sites : loose[t] \subseteq loose'[t]
      /\ guard[h].at \in Midway =>
             /\ guard[h].site \in Sites
             /\ "gate" \in loose'[guard[h].site] /\ "passes" \in loose'[guard[h].site]
  <2>1. loose \in [Sites -> SUBSET {"gate", "passes"}]
    BY DEF ProtectionTyped
  <2>2. CASE guard[h].at \notin Midway
    <3>1. loose' = loose
      BY <2>2 DEF DropGuard, Midway
    <3> QED
      BY <2>1, <2>2, <3>1
  <2>3. CASE guard[h].at \in Midway
    <3>1. guard[h].site \in Sites
      BY <2>3 DEF Turns
    <3>2. loose' = [loose EXCEPT ![guard[h].site] = @ \cup {"gate", "passes"}]
      BY <2>3 DEF DropGuard, Midway
    <3> QED
      BY <2>1, <2>3, <3>1, <3>2
  <2> QED
    BY <2>2, <2>3
<1>6. /\ orders' \in Seq(Order) /\ Len(orders') = Len(orders)
      /\ \A i \in 1..Len(orders) :
             /\ orders'[i].site = orders[i].site /\ orders'[i].new = orders[i].new
             /\ orders'[i].from = IF orders[i].from = h THEN Nowhere ELSE orders[i].from
             /\ orders[i].site \in Sites
  <2>1. \A i \in 1..Len(orders) : orders[i].site \in Sites
    BY OrderSites
  <2> QED
    BY <1>1, <2>1, AbandonedCalls
<1>7. ProtectionTyped'
  BY <1>1, <1>2, <1>5, <1>6 DEF ProtectionTyped
<1>8. Calls'
  <2> SUFFICES ASSUME NEW i \in 1..Len(orders)
               PROVE  \/ orders'[i].from = Nowhere /\ "gate" \in loose'[orders'[i].site]
                      \/ /\ orders'[i].from \in Guards /\ i = Len(orders')
                         /\ guard'[orders'[i].from].at = "call"
                         /\ guard'[orders'[i].from].site = orders'[i].site
                         /\ rule'[orders'[i].site] = orders'[i].new
    BY <1>6 DEF Calls
  <2>1. h # Nowhere
    BY ProtectionAssumption
  <2>2. CASE orders[i].from = h
    <3>1. guard[h].at = "call" /\ guard[h].site = orders[i].site
      BY <2>1, <2>2 DEF Calls
    <3> QED
      BY <1>5, <1>6, <2>2, <3>1 DEF Midway
  <2>3. CASE orders[i].from # h
    BY <1>1, <1>2, <1>5, <1>6, <2>3 DEF Calls
  <2> QED
    BY <2>2, <2>3
<1>9. Halfway'
  <2> SUFFICES ASSUME NEW g \in Guards \ {h}, NEW t \in Sites, t = guard[g].site
               PROVE  /\ guard[g].at \in {"done", "delete"} =>
                             orders' = <<>> /\ AgentHas(t, rule[t]) /\ vhost[t] = rule[t]
                      /\ guard[g].at \in {"call", "failed", "restore"} =>
                             AgentHas(t, guard[g].before) \/ "gate" \in loose'[t]
    <3>1. \A g \in Guards : guard'[g].at \in Midway =>
             g # h /\ guard'[g] = guard[g] /\ guard[g].site \in Sites
      BY <1>2, <1>3 DEF Turns, Midway
    <3> QED
      BY <1>1, <3>1 DEF Halfway, Midway, AgentHas
  <2>1. guard[g].at \in {"done", "delete"} => orders' = <<>>
    BY <1>6 DEF Halfway
  <2> QED
    BY <1>5, <2>1 DEF Halfway
<1>10. GateFollowsRule'
  <2> SUFFICES ASSUME NEW t \in Sites
               PROVE  AgentHas(t, rule[t]) \/ Changing(t)' \/ "gate" \in loose'[t]
    BY <1>1 DEF GateFollowsRule, AgentHas
  <2>1. CASE t = guard[h].site /\ guard[h].at \in Midway
    BY <1>5, <2>1
  <2>2. CASE t # guard[h].site \/ guard[h].at \notin Midway
    BY <1>4, <1>5, <2>2 DEF GateFollowsRule
  <2> QED
    BY <2>1, <2>2
<1>11. Solvers'
  <2> SUFFICES ASSUME NEW g \in Guards, guard[g].at = "insert", NEW t \in Sites, t = guard[g].site
               PROVE  \/ guard[g].new = rule[t] \/ guard[g].overtaken
                      \/ Changing(t)' \/ "passes" \in loose'[t]
    <3>1. \A g \in Guards : guard'[g].at = "insert"
             => guard'[g] = guard[g] /\ guard[g].site \in Sites
      BY <1>2 DEF Turns
    <3> QED
      BY <1>1, <3>1 DEF Solvers, Changing
  <2>1. CASE t = guard[h].site /\ guard[h].at \in Midway
    BY <1>5, <2>1
  <2>2. CASE t # guard[h].site \/ guard[h].at \notin Midway
    BY <1>4, <1>5, <2>2 DEF Solvers
  <2> QED
    BY <2>1, <2>2
<1>12. PassesFollowRule'
  <2> SUFFICES ASSUME NEW p \in passes, NEW t \in Sites, t = p.site
               PROVE  \/ p.rule = rule[t] \/ p.overtaken \/ Changing(t)' \/ "passes" \in loose'[t]
    BY <1>1 DEF PassesFollowRule, Changing, ProtectionTyped, PassRow
  <2>1. CASE t = guard[h].site /\ guard[h].at \in Midway
    BY <1>5, <2>1
  <2>2. CASE t # guard[h].site \/ guard[h].at \notin Midway
    BY <1>4, <1>5, <2>2 DEF PassesFollowRule
  <2> QED
    BY <2>1, <2>2
<1> QED
  BY <1>3, <1>7, <1>8, <1>9, <1>10, <1>11, <1>12

LEMMA ProtectionStutter == ASSUME ProtectionInv, UNCHANGED protectionVars PROVE ProtectionInv'
<1>1. UNCHANGED <<rule, rules, nonces, passes, saving, guard, gate, keptGate, vhost, up, orders,
                  loose>>
  BY DEF protectionVars
<1> QED
  BY <1>1 DEF ProtectionInv, ProtectionTyped, Turns, Calls, Halfway, GateFollowsRule, AgentHas,
              Solvers, PassesFollowRule, Changing

-----------------------------------------------------------------------------
LEMMA ProtectionKept == ProtectionInv /\ [ProtectionNext]_protectionVars => ProtectionInv'
<1> SUFFICES ASSUME ProtectionInv, [ProtectionNext]_protectionVars PROVE ProtectionInv'
  OBVIOUS
<1>1. CASE \E h \in Guards :
             \/ \E s \in Sites : ConfigureLock(h, s)
             \/ \E captcha \in BOOLEAN : ConfigureRow(h, captcha)
             \/ AnswerArrives(h) \/ ConfigureRestore(h) \/ ConfigureDelete(h)
             \/ \E v \in Visits, s \in Sites : SolveNonce(h, v, s)
             \/ SolveRead(h) \/ SolveInsert(h) \/ DropGuard(h) \/ CallGivenUp(h)
  BY <1>1, ConfigureLockStep, ConfigureRowStep, ConfigureRestoreStep, ConfigureDeleteStep,
     SolveNonceStep, SolveReadStep, SolveInsertStep, DropGuardStep, CallGivenUpStep,
     AnswerArrivesStep
<1>2. CASE AgentConfigure \/ AgentUnsaved \/ AgentHalf \/ AgentRefuse
  BY <1>2, AgentStep
<1>3. CASE AgentDies
  BY <1>3, AgentDiesStep
<1>4. CASE \E v \in Visits, s \in Sites : Challenge(v, s)
  BY <1>4, ChallengeStep
<1>5. CASE \E p \in passes : ExpirePass(p)
  BY <1>5, ExpirePassStep
<1>6. CASE (\E s \in Sites : AgentElse(s) \/ AgentRenders(s)) \/ AgentStarts
  BY <1>6, AgentElseStep
<1>7. CASE UNCHANGED protectionVars
  BY <1>7, ProtectionStutter
<1> QED
  BY <1>1, <1>2, <1>3, <1>4, <1>5, <1>6, <1>7 DEF ProtectionNext

\* The inductive invariant: one change at a time, which calls are still to come and what they can
\* do, what a handler half way through a change relies on, and what is about to become a pass.
THEOREM ProtectionAlways == ProtectionSpec => []ProtectionInv
BY ProtectionStart, ProtectionKept, PTL DEF ProtectionSpec

-----------------------------------------------------------------------------
(* Nothing comes back from before the last change that came to its end. *)

\* Neither an answer that is still to come nor a row that is put back is older than that.
Numbers ==
    /\ completed \in [Sites -> Nat]
    /\ NothingOlder
    /\ \A s \in Sites : rule[s] <= rules
    /\ \A i \in 1..Len(orders) : completed[orders[i].site] <= orders[i].new
    /\ \A h \in Guards :
           guard[h].at \in Midway =>
               completed[guard[h].site] <= guard[h].before /\ guard[h].before <= rules

LEMMA NumbersStart == ProtectionInit => Numbers
<1> SUFFICES ASSUME ProtectionInit PROVE Numbers
  OBVIOUS
<1>1. \A h \in Guards : guard[h].at \notin Midway
  BY NoGuardIs DEF ProtectionInit, Midway
<1>2. NothingOlder /\ (\A s \in Sites : rule[s] <= rules) /\ completed \in [Sites -> Nat]
  BY DEF ProtectionInit, NothingOlder
<1>3. Len(orders) = 0
  BY DEF ProtectionInit
<1> QED
  BY <1>1, <1>2, <1>3 DEF Numbers

\* Steps that end no change and try no settings.
LEMMA NumbersStep ==
    ASSUME ProtectionInv, Numbers, UNCHANGED <<completed, rules>>,
           \A s \in Sites : /\ rule'[s] = rule[s] \/ \E h \in Guards : guard[h].at \in Midway
                                     /\ guard[h].site = s /\ rule'[s] = guard[h].before
                            /\ completed[s] <= gate'[s] /\ completed[s] <= keptGate'[s]
                            /\ completed[s] <= vhost'[s],
           \A i \in 1..Len(orders') :
               \E j \in 1..Len(orders) :
                   orders'[i].site = orders[j].site /\ orders'[i].new = orders[j].new,
           \A h \in Guards :
               guard'[h].at \in Midway =>
                   /\ guard[h].at \in Midway /\ guard'[h].site = guard[h].site
                   /\ guard'[h].before = guard[h].before
    PROVE  Numbers'
<1>1. NothingOlder'
  BY DEF NothingOlder, Numbers
<1>2. \A s \in Sites : rule'[s] <= rules
  BY DEF Numbers
<1>3. \A i \in 1..Len(orders') : completed[orders'[i].site] <= orders'[i].new
  BY DEF Numbers
<1>4. \A h \in Guards :
          guard'[h].at \in Midway =>
              completed[guard'[h].site] <= guard'[h].before /\ guard'[h].before <= rules
  BY DEF Numbers
<1>5. completed' \in [Sites -> Nat]
  BY DEF Numbers
<1> QED
  BY <1>1, <1>2, <1>3, <1>4, <1>5 DEF Numbers

\* The calls that are left when h no longer waits, when the first is answered, when none changes.
LEMMA SameCalls ==
    ASSUME ProtectionTyped,
           \/ orders' = orders
           \/ orders' = <<>>
           \/ \E h \in Guards : orders' = Abandoned(h)
           \/ orders # <<>> /\ orders' = Tail(orders)
    PROVE  \A i \in 1..Len(orders') :
               \E j \in 1..Len(orders) :
                   orders'[i].site = orders[j].site /\ orders'[i].new = orders[j].new
<1>1. orders \in Seq(Order) /\ Len(orders) \in Nat
  BY DEF ProtectionTyped
<1>2. CASE orders' = orders \/ orders' = <<>>
  BY <1>2
<1>3. CASE \E h \in Guards : orders' = Abandoned(h)
  BY <1>3, AbandonedCalls
<1>4. CASE orders # <<>> /\ orders' = Tail(orders)
  <2> SUFFICES ASSUME NEW i \in 1..Len(orders')
               PROVE  \E j \in 1..Len(orders) :
                          orders'[i].site = orders[j].site /\ orders'[i].new = orders[j].new
    OBVIOUS
  <2>1. i + 1 \in 1..Len(orders) /\ orders'[i] = orders[i + 1]
    BY <1>1, <1>4
  <2> QED
    BY <2>1
<1> QED
  BY <1>2, <1>3, <1>4

LEMMA ConfigureRowNumbers ==
    ASSUME ProtectionInv, Numbers, NEW h \in Guards, NEW captcha \in BOOLEAN,
           ConfigureRow(h, captcha)
    PROVE  Numbers'
<1> USE DEF ProtectionInv
<1>0. guard[h].at = "row"
  BY DEF ConfigureRow, Guarding
<1> PICK s \in Sites : s = guard[h].site
  BY <1>0 DEF Turns
<1> DEFINE r == [guard[h] EXCEPT !.at = IF up THEN "call" ELSE "restore",
                                 !.new = rules', !.before = rule[s]]
           o == [from |-> h, site |-> s, new |-> rules']
<1>1. /\ rules' = rules + 1 /\ rule' = [rule EXCEPT ![s] = rules']
      /\ guard' = [guard EXCEPT ![h] = r]
      /\ orders' = IF up THEN Append(orders, o) ELSE orders
      /\ UNCHANGED <<gate, keptGate, vhost, completed>>
  BY DEF ConfigureRow, Guarding, visits, served
<1>2. /\ rules \in Nat /\ rule \in [Sites -> Nat] /\ completed \in [Sites -> Nat]
      /\ \A t \in Sites : completed[t] <= rule[t] /\ rule[t] <= rules
      /\ orders \in Seq(Order) /\ guard \in [Guards -> Guard]
  BY DEF ProtectionTyped, Numbers, NothingOlder
<1>3. r.site = s /\ r.before = rule[s] /\ o.site = s /\ o.new = rules' /\ o \in Order
  BY <1>1, <1>2 DEF Guard, Order
<1> HIDE DEF r, o
<1>4. guard'[h] = r /\ \A g \in Guards \ {h} : guard'[g] = guard[g]
  BY <1>1, <1>2
<1>5. completed[s] <= rules'
  <2>1. completed[s] \in Nat /\ rule[s] \in Nat /\ completed[s] <= rule[s] /\ rule[s] <= rules
    BY <1>2
  <2> QED
    BY <1>1, <1>2, <2>1
<1>6. \A t \in Sites : completed[t] <= rule'[t] /\ rule'[t] <= rules'
  <2> SUFFICES ASSUME NEW t \in Sites PROVE completed[t] <= rule'[t] /\ rule'[t] <= rules'
    OBVIOUS
  <2>1. CASE t = s
    BY <1>1, <1>2, <1>5, <2>1
  <2>2. CASE t # s
    <3>1. rule'[t] = rule[t] /\ rule[t] \in Nat /\ completed[t] <= rule[t] /\ rule[t] <= rules
      BY <1>1, <1>2, <2>2
    <3> QED
      BY <1>1, <1>2, <3>1
  <2> QED
    BY <2>1, <2>2
<1>7. \A i \in 1..Len(orders') : completed[orders'[i].site] <= orders'[i].new
  <2> SUFFICES ASSUME NEW i \in 1..Len(orders')
               PROVE  completed[orders'[i].site] <= orders'[i].new
    OBVIOUS
  <2>1. CASE ~up
    BY <1>1, <2>1 DEF Numbers
  <2>2. CASE up
    <3>1. /\ i \in 1..Len(orders) \/ i = Len(orders) + 1
          /\ orders'[i] = IF i = Len(orders) + 1 THEN o ELSE orders[i]
      BY <1>1, <1>2, <1>3, <2>2
    <3> QED
      BY <1>3, <1>5, <3>1 DEF Numbers
  <2> QED
    BY <2>1, <2>2
<1>8. \A g \in Guards :
          guard'[g].at \in Midway =>
              completed[guard'[g].site] <= guard'[g].before /\ guard'[g].before <= rules'
  <2>1. \A g \in Guards \ {h} : guard[g].at \notin Midway
    BY <1>0, OneTurn
  <2>2. rule[s] <= rules'
    <3>1. rule[s] \in Nat /\ rule[s] <= rules
      BY <1>2
    <3> QED
      BY <1>1, <1>2, <3>1
  <2> QED
    BY <1>2, <1>3, <1>4, <2>1, <2>2
<1>9. NothingOlder'
  BY <1>1, <1>6 DEF Numbers, NothingOlder
<1> QED
  BY <1>1, <1>2, <1>6, <1>7, <1>8, <1>9 DEF Numbers

LEMMA ConfigureDeleteNumbers ==
    ASSUME ProtectionInv, Numbers, NEW h \in Guards, ConfigureDelete(h)
    PROVE  Numbers'
<1> USE DEF ProtectionInv
<1>0. guard[h].at = "delete"
  BY DEF ConfigureDelete, Guarding
<1> PICK s \in Sites : s = guard[h].site
  BY <1>0 DEF Turns, Midway
<1>1. /\ completed' = [completed EXCEPT ![s] = rule[s]]
      /\ UNCHANGED <<rule, rules, gate, keptGate, vhost, orders>>
  BY DEF ConfigureDelete, rendered, served
<1>2. /\ orders = <<>> /\ gate[s] = rule[s] /\ keptGate[s] = rule[s] /\ vhost[s] = rule[s]
      /\ rule[s] \in Nat
  BY <1>0 DEF Halfway, AgentHas, ProtectionTyped
<1>3. \A g \in Guards : guard'[g].at \notin Midway
  <2>1. \A g \in Guards \ {h} : guard[g].at \notin Midway
    BY <1>0, OneTurn DEF Midway
  <2>2. guard'[h] = NoGuard
    BY DEF ConfigureDelete
  <2>3. \A g \in Guards \ {h} : guard'[g] = guard[g] \/ guard'[g].at = "insert"
    <3> SUFFICES ASSUME NEW g \in Guards \ {h} PROVE guard'[g] = guard[g] \/ guard'[g].at = "insert"
      OBVIOUS
    <3>1. guard[g] \in Guard
      BY DEF ProtectionTyped
    <3>2. \/ guard'[g] = guard[g]
          \/ guard[g].at = "insert" /\ guard'[g] = [guard[g] EXCEPT !.overtaken = TRUE]
      BY DEF ConfigureDelete, Guarding
    <3> QED
      BY <3>1, <3>2 DEF Guard
  <2> QED
    BY <2>1, <2>2, <2>3, NoGuardIs DEF Midway
<1>4. completed' \in [Sites -> Nat]
  BY <1>1, <1>2 DEF Numbers
<1>5. NothingOlder'
  <2> SUFFICES ASSUME NEW t \in Sites
               PROVE  /\ completed'[t] <= rule[t] /\ completed'[t] <= gate[t]
                      /\ completed'[t] <= keptGate[t] /\ completed'[t] <= vhost[t]
    BY <1>1 DEF NothingOlder
  <2>1. CASE t = s
    BY <1>1, <1>2, <2>1 DEF Numbers
  <2>2. CASE t # s
    BY <1>1, <2>2 DEF Numbers, NothingOlder
  <2> QED
    BY <2>1, <2>2
<1>6. Len(orders') = 0
  BY <1>1, <1>2
<1>7. \A t \in Sites : rule'[t] <= rules'
  BY <1>1 DEF Numbers
<1> QED
  BY <1>3, <1>4, <1>5, <1>6, <1>7 DEF Numbers

\* The calls and the answers of the agent.
LEMMA AnswerNumbers ==
    ASSUME ProtectionInv, Numbers,
           AgentConfigure \/ AgentUnsaved \/ AgentHalf \/ AgentRefuse
    PROVE  Numbers'
<1>1. /\ UNCHANGED <<rule, rules, completed>>
      /\ gate' \in {gate, Ordered(gate)} /\ keptGate' \in {keptGate, gate, gate'}
      /\ vhost' \in {vhost, Ordered(vhost)}
  BY DEF AgentConfigure, AgentUnsaved, AgentHalf, AgentRefuse
<1> PICK at \in {"done", "failed"} : Answers(at)
  BY DEF AgentConfigure, AgentUnsaved, AgentHalf, AgentRefuse
<1>2. /\ Head(orders) = orders[1] /\ 1 \in 1..Len(orders)
      /\ orders # <<>> /\ orders' = Tail(orders)
      /\ \A g \in Guards :
            IF g = Head(orders).from
            THEN guard[g].at = "call" /\ guard'[g].site = guard[g].site
                 /\ guard'[g].before = guard[g].before
            ELSE guard'[g] = guard[g]
  <2>1. Len(orders) \in Nat /\ Len(orders) > 0
    BY Answered DEF ProtectionInv, ProtectionTyped
  <2>2. orders # <<>> /\ orders' = Tail(orders)
    BY DEF Answers
  <2>3. Head(orders) = orders[1]
    BY Answered
  <2>4. \A g \in Guards :
            IF g = Head(orders).from
            THEN guard[g].at = "call" /\ guard'[g].site = guard[g].site
                 /\ guard'[g].before = guard[g].before
            ELSE guard'[g] = guard[g]
    BY Answered
  <2> QED
    BY <2>1, <2>2, <2>3, <2>4
<1>3. \A s \in Sites : /\ s = Head(orders).site => completed[s] <= Head(orders).new
                       /\ completed[s] <= gate[s] /\ completed[s] <= keptGate[s]
                       /\ completed[s] <= vhost[s]
  BY <1>2 DEF Numbers, NothingOlder
<1>4. gate \in [Sites -> Nat] /\ vhost \in [Sites -> Nat]
  BY DEF ProtectionInv, ProtectionTyped
<1>5. \A s \in Sites : completed[s] <= gate'[s] /\ completed[s] <= vhost'[s]
  BY <1>1, <1>3, <1>4 DEF Ordered
<1>6. \A s \in Sites : completed[s] <= keptGate'[s]
  BY <1>1, <1>3, <1>5
<1>7. \A i \in 1..Len(orders') :
          \E j \in 1..Len(orders) :
              orders'[i].site = orders[j].site /\ orders'[i].new = orders[j].new
  BY <1>2, SameCalls DEF ProtectionInv
<1>8. \A g \in Guards :
          guard'[g].at \in Midway =>
              /\ guard[g].at \in Midway /\ guard'[g].site = guard[g].site
              /\ guard'[g].before = guard[g].before
  BY <1>2 DEF Midway
<1> QED
  BY <1>1, <1>5, <1>6, <1>7, <1>8, NumbersStep

LEMMA AgentNumbers ==
    ASSUME ProtectionInv, Numbers,
           \/ \E s \in Sites : AgentElse(s) \/ AgentRenders(s)
           \/ AgentStarts \/ AgentDies
    PROVE  Numbers'
<1>1. /\ UNCHANGED <<rule, rules, completed>>
      /\ orders' = orders \/ orders' = <<>>
      /\ gate' \in {gate, keptGate} /\ keptGate' \in {keptGate, gate}
  BY DEF AgentElse, AgentRenders, AgentStarts, AgentDies, visits
<1>2. /\ gate \in [Sites -> Nat] /\ keptGate \in [Sites -> Nat] /\ vhost \in [Sites -> Nat]
      /\ \A s \in Sites : completed[s] <= gate[s] /\ completed[s] <= keptGate[s]
                          /\ completed[s] <= vhost[s]
  BY DEF ProtectionInv, ProtectionTyped, Numbers, NothingOlder
<1>3. \A s \in Sites : completed[s] <= vhost'[s]
  <2>1. CASE AgentDies
    <3>1. CASE vhost' = vhost
      BY <1>2, <3>1
    <3>2. CASE orders # <<>> /\ vhost' = Ordered(vhost)
      <4>1. Head(orders) = orders[1] /\ 1 \in 1..Len(orders)
        BY <3>2 DEF ProtectionInv, ProtectionTyped
      <4>2. completed[Head(orders).site] <= Head(orders).new
        BY <4>1 DEF Numbers
      <4> QED
        BY <1>2, <3>2, <4>2 DEF Ordered
    <3> QED
      BY <2>1, <3>1, <3>2 DEF AgentDies
  <2>2. CASE (\E s \in Sites : AgentElse(s) \/ AgentRenders(s)) \/ AgentStarts
    BY <1>2, <2>2 DEF AgentElse, AgentRenders, AgentStarts
  <2> QED
    BY <2>1, <2>2
<1>4. \A g \in Guards :
          guard'[g].at \in Midway =>
              /\ guard[g].at \in Midway /\ guard'[g].site = guard[g].site
              /\ guard'[g].before = guard[g].before
  <2>1. CASE guard' = guard
    BY <2>1
  <2>2. CASE AgentDies
    <3> SUFFICES ASSUME NEW g \in Guards, guard'[g] # guard[g]
                 PROVE  /\ guard[g].at \in Midway /\ guard'[g].site = guard[g].site
                        /\ guard'[g].before = guard[g].before
      OBVIOUS
    <3>1. guard[g] \in Guard
      BY DEF ProtectionInv, ProtectionTyped
    <3>2. guard[g].at \in AtAgent /\ guard'[g] = [guard[g] EXCEPT !.at = "restore"]
      BY <2>2 DEF AgentDies
    <3> QED
      BY <3>1, <3>2 DEF Guard, AtAgent, Midway
  <2> QED
    BY <2>1, <2>2 DEF AgentElse, AgentRenders, AgentStarts
<1>5. \A i \in 1..Len(orders') :
          \E j \in 1..Len(orders) :
              orders'[i].site = orders[j].site /\ orders'[i].new = orders[j].new
  BY <1>1, SameCalls DEF ProtectionInv
<1> QED
  BY <1>1, <1>2, <1>3, <1>4, <1>5, NumbersStep

\* Handlers that begin, go on or end, and visitors.
LEMMA HandlerNumbers ==
    ASSUME ProtectionInv, Numbers, NEW h \in Guards,
           \/ \E s \in Sites : ConfigureLock(h, s)
           \/ AnswerArrives(h) \/ ConfigureRestore(h) \/ CallGivenUp(h) \/ DropGuard(h)
           \/ \E v \in Visits, s \in Sites : SolveNonce(h, v, s)
           \/ SolveRead(h) \/ SolveInsert(h)
    PROVE  Numbers'
<1>1. UNCHANGED <<rules, completed, gate, keptGate, vhost>>
  BY DEF ConfigureLock, AnswerArrives, ConfigureRestore, CallGivenUp, DropGuard, SolveNonce,
     SolveRead, SolveInsert, visits, rendered, served
<1>2. orders' = orders \/ orders' = Abandoned(h)
  BY DEF ConfigureLock, AnswerArrives, ConfigureRestore, CallGivenUp, DropGuard, SolveNonce,
     SolveRead, SolveInsert, visits, rendered, served
<1>3. guard \in [Guards -> Guard] /\ guard[h] \in Guard
  BY DEF ProtectionInv, ProtectionTyped
<1>4. \A g \in Guards \ {h} : guard'[g] = guard[g]
  BY <1>3 DEF ConfigureLock, AnswerArrives, ConfigureRestore, CallGivenUp, DropGuard, SolveNonce,
     SolveRead, SolveInsert, GuardGoes, GuardEnds
<1>5. guard'[h].at \in Midway =>
          /\ guard[h].at \in Midway /\ guard'[h].site = guard[h].site
          /\ guard'[h].before = guard[h].before
  <2>1. CASE AnswerArrives(h) \/ CallGivenUp(h)
    <3>1. guard[h].at \in Midway /\ \E at \in {"delete", "restore"} :
              guard'[h] = [guard[h] EXCEPT !.at = at]
      BY <1>3, <2>1 DEF AnswerArrives, CallGivenUp, Guarding, GuardGoes, AtAgent, Midway
    <3> QED
      BY <1>3, <3>1 DEF Guard
  <2>2. CASE ConfigureRestore(h) \/ DropGuard(h) \/ SolveInsert(h)
    BY <1>3, <2>2, NoGuardIs DEF ConfigureRestore, DropGuard, SolveInsert, GuardEnds, Midway
  <2>3. CASE \E s \in Sites : ConfigureLock(h, s)
    <3>1. guard'[h].at = "row"
      BY <1>3, <2>3 DEF ConfigureLock, NoGuard
    <3> QED
      BY <3>1 DEF Midway
  <2>4. CASE \E v \in Visits, s \in Sites : SolveNonce(h, v, s)
    <3>1. guard'[h].at = "settings"
      BY <1>3, <2>4 DEF SolveNonce, NoGuard
    <3> QED
      BY <3>1 DEF Midway
  <2>5. CASE SolveRead(h)
    <3>1. guard'[h].at = "insert"
      BY <1>3, <2>5 DEF SolveRead, Guard
    <3> QED
      BY <3>1 DEF Midway
  <2> QED
    BY <2>1, <2>2, <2>3, <2>4, <2>5
<1>6. \A s \in Sites : \/ rule'[s] = rule[s]
                       \/ \E g \in Guards : guard[g].at \in Midway /\ guard[g].site = s
                                            /\ rule'[s] = guard[g].before
  <2>1. CASE ConfigureRestore(h)
    BY <2>1 DEF ConfigureRestore, Guarding, Midway, ProtectionInv, ProtectionTyped
  <2>2. CASE ~ConfigureRestore(h)
    <3>1. rule' = rule
      BY <2>2 DEF ConfigureLock, AnswerArrives, CallGivenUp, DropGuard, SolveNonce,
         SolveRead, SolveInsert
    <3> QED
      BY <3>1
  <2> QED
    BY <2>1, <2>2
<1>7. \A s \in Sites : completed[s] <= gate'[s] /\ completed[s] <= keptGate'[s]
                       /\ completed[s] <= vhost'[s]
  BY <1>1 DEF Numbers, NothingOlder
<1>8. \A i \in 1..Len(orders') :
          \E j \in 1..Len(orders) :
              orders'[i].site = orders[j].site /\ orders'[i].new = orders[j].new
  BY <1>2, SameCalls DEF ProtectionInv
<1> QED
  BY <1>1, <1>4, <1>5, <1>6, <1>7, <1>8, NumbersStep

LEMMA VisitorNumbers ==
    ASSUME ProtectionInv, Numbers,
           \/ \E v \in Visits, s \in Sites : Challenge(v, s)
           \/ \E p \in passes : ExpirePass(p)
           \/ UNCHANGED protectionVars
    PROVE  Numbers'
<1>1. UNCHANGED <<rule, rules, completed, gate, keptGate, vhost, orders, guard>>
  BY DEF Challenge, ExpirePass, protectionVars, rendered, served
<1> QED
  BY <1>1 DEF Numbers, NothingOlder

LEMMA NumbersKept ==
    ProtectionInv /\ Numbers /\ [ProtectionNext]_protectionVars => Numbers'
<1> SUFFICES ASSUME ProtectionInv, Numbers, [ProtectionNext]_protectionVars PROVE Numbers'
  OBVIOUS
<1>1. CASE \E h \in Guards :
             \/ \E s \in Sites : ConfigureLock(h, s)
             \/ AnswerArrives(h) \/ ConfigureRestore(h) \/ CallGivenUp(h) \/ DropGuard(h)
             \/ \E v \in Visits, s \in Sites : SolveNonce(h, v, s)
             \/ SolveRead(h) \/ SolveInsert(h)
  BY <1>1, HandlerNumbers
<1>2. CASE \E h \in Guards, captcha \in BOOLEAN : ConfigureRow(h, captcha)
  BY <1>2, ConfigureRowNumbers
<1>3. CASE \E h \in Guards : ConfigureDelete(h)
  BY <1>3, ConfigureDeleteNumbers
<1>4. CASE AgentConfigure \/ AgentUnsaved \/ AgentHalf \/ AgentRefuse
  BY <1>4, AnswerNumbers
<1>5. CASE (\E s \in Sites : AgentElse(s) \/ AgentRenders(s)) \/ AgentStarts \/ AgentDies
  BY <1>5, AgentNumbers
<1>6. CASE \/ \E v \in Visits, s \in Sites : Challenge(v, s)
           \/ \E p \in passes : ExpirePass(p)
           \/ UNCHANGED protectionVars
  BY <1>6, VisitorNumbers
<1> QED
  BY <1>1, <1>2, <1>3, <1>4, <1>5, <1>6 DEF ProtectionNext

\* Panel, agent, web server and passes agree about every site that is not being changed, and none
\* goes back behind a change that came to its end, whatever changes, calls that fail, are late or
\* stop half way, restarts and visitors come together.
THEOREM ProtectionStaysAgreed == ProtectionSpec => []ProtectionAgrees
<1>1. ProtectionInv /\ Numbers => ProtectionAgrees
  BY DEF ProtectionInv, Numbers, ProtectionAgrees
<1>2. ProtectionSpec => [](ProtectionInv /\ Numbers)
  BY ProtectionStart, ProtectionKept, NumbersStart, NumbersKept, PTL DEF ProtectionSpec
<1> QED
  BY <1>1, <1>2, PTL

-----------------------------------------------------------------------------
(* Schedules: the inductive invariant. *)

\* The schedules of a registry: of drawn identifiers, each with a minute it is due in.
Scheduled(r) ==
    /\ DOMAIN r \subseteq drawnTasks /\ r \in [DOMAIN r -> Minutes]
    /\ IsFiniteSet(DOMAIN r)

\* The occurrence is the next one of its schedule.
IsNext(r, o) == o[1] \in DOMAIN r /\ r[o[1]] = o[2]

\* Collected and not started yet.
Waiting == IF running THEN ToSet(Tail(batch)) ELSE ToSet(batch)

CronTyped ==
    /\ minute \in 0 .. LastMinute /\ drawnTasks \subseteq Tasks
    /\ Scheduled(tasks) /\ Scheduled(savedTasks)
    /\ batch \in Seq(Occurrences) /\ IsInjective(batch)
    /\ running \in BOOLEAN /\ (running => batch # <<>>)
    /\ cronFaults \in Nat
    /\ started \in [Occurrences -> Nat]

\* What was collected is no longer next in memory, and lies, as what was started, not ahead.
Collected ==
    /\ \A o \in ToSet(batch) : o[1] \in drawnTasks /\ o[2] <= minute /\ ~IsNext(tasks, o)
    /\ \A o \in Occurrences : started[o] > 0 => o[2] <= minute

\* How many faults it took to start an occurrence that often: two for each start but the last
\* one when it will not be started again; two for each start when it will be; and when only the
\* saved registry still has it, one of the two may be still to come.
Repeated(o) ==
    /\ 2 * started[o] <= cronFaults + 2
    /\ IsNext(tasks, o) \/ o \in Waiting => 2 * started[o] <= cronFaults
    /\ IsNext(savedTasks, o) /\ ~IsNext(tasks, o) =>
        IF o \in Waiting THEN 2 * started[o] + 1 <= cronFaults
        ELSE 2 * started[o] <= cronFaults + 1

CronInv == CronTyped /\ Collected /\ \A o \in Occurrences : Repeated(o)

-----------------------------------------------------------------------------
(* Schedules: sets and sequences. *)

LEMMA ListOf ==
    ASSUME NEW S, IsFiniteSet(S)
    PROVE  /\ SetToSeq(S) \in Seq(S) /\ IsInjective(SetToSeq(S)) /\ ToSet(SetToSeq(S)) \subseteq S
<1> DEFINE n == Cardinality(S)
<1>1. n \in Nat /\ ExistsBijection(1..n, S)
  BY FS_CardinalityType
<1>2. PICK g \in Bijection(1..n, S) : TRUE
  BY <1>1 DEF ExistsBijection
<1>3. g \in [1..n -> S] /\ \A i, j \in 1..n : g[i] = g[j] => i = j
  BY <1>2 DEF Bijection, Injection, IsInjective
<1>4. IsInjective(g)
  BY <1>3 DEF IsInjective
<1>5. SetToSeq(S) \in [1..n -> S] /\ IsInjective(SetToSeq(S))
  BY <1>3, <1>4 DEF SetToSeq
<1>6. QED
  BY <1>1, <1>5 DEF ToSet

LEMMA TailOf ==
    ASSUME NEW S, NEW s \in Seq(S), s # <<>>, IsInjective(s)
    PROVE  /\ Tail(s) \in Seq(S) /\ IsInjective(Tail(s))
           /\ Head(s) \in S /\ Head(s) \in ToSet(s)
           /\ ToSet(Tail(s)) = ToSet(s) \ {Head(s)}
<1>1. /\ Len(s) \in Nat \ {0} /\ DOMAIN s = 1..Len(s) /\ Head(s) = s[1]
      /\ Tail(s) \in Seq(S) /\ DOMAIN Tail(s) = 1..(Len(s) - 1)
      /\ \A i \in 1..(Len(s) - 1) : Tail(s)[i] = s[i + 1]
  OBVIOUS
<1>2. Head(s) \in S /\ Head(s) \in ToSet(s)
  BY <1>1 DEF ToSet
<1>3. IsInjective(Tail(s))
  <2>1. ASSUME NEW i \in 1..(Len(s) - 1), NEW j \in 1..(Len(s) - 1), Tail(s)[i] = Tail(s)[j]
        PROVE  i = j
    <3>1. i + 1 \in DOMAIN s /\ j + 1 \in DOMAIN s /\ s[i + 1] = s[j + 1]
      BY <1>1, <2>1
    <3>2. i + 1 = j + 1
      BY <3>1 DEF IsInjective
    <3>3. QED
      BY <3>2
  <2>2. QED
    BY <1>1, <2>1 DEF IsInjective
<1>4. ASSUME NEW x \in ToSet(Tail(s)) PROVE x \in ToSet(s) \ {Head(s)}
  <2>1. PICK i \in 1..(Len(s) - 1) : x = s[i + 1]
    BY <1>1, <1>4 DEF ToSet
  <2>2. i + 1 \in DOMAIN s /\ 1 \in DOMAIN s /\ i + 1 # 1
    BY <1>1
  <2>3. QED
    BY <1>1, <2>1, <2>2 DEF ToSet, IsInjective
<1>5. ASSUME NEW x \in ToSet(s) \ {Head(s)} PROVE x \in ToSet(Tail(s))
  <2>1. PICK i \in 1..Len(s) : x = s[i]
    BY <1>1, <1>5 DEF ToSet
  <2>2. i # 1
    BY <1>1, <1>5, <2>1
  <2>3. i - 1 \in 1..(Len(s) - 1) /\ Tail(s)[i - 1] = s[i]
    BY <1>1, <2>2
  <2>4. QED
    BY <1>1, <2>1, <2>3 DEF ToSet
<1>6. QED
  BY <1>1, <1>2, <1>3, <1>4, <1>5

\* What is due is a finite set of occurrences.
LEMMA DueOccurrences ==
    ASSUME CronTyped
    PROVE  LET collected == {<<t, tasks[t]>> : t \in DueTasks}
           IN  /\ collected \subseteq Occurrences /\ IsFiniteSet(collected)
               /\ \A o \in collected : IsNext(tasks, o) /\ o[1] \in DueTasks
<1> DEFINE collected == {<<t, tasks[t]>> : t \in DueTasks}
           f == [t \in DueTasks |-> <<t, tasks[t]>>]
<1>1. collected \subseteq Occurrences
  BY DEF CronTyped, Scheduled, Occurrences, DueTasks
<1>2. IsFiniteSet(DueTasks)
  BY FS_Subset DEF CronTyped, Scheduled, DueTasks
<1>3. f \in Surjection(DueTasks, collected)
  BY DEF Surjection
<1>4. IsFiniteSet(collected)
  BY <1>2, <1>3, FS_Surjection
<1>5. \A o \in collected : IsNext(tasks, o) /\ o[1] \in DueTasks
  BY DEF IsNext, DueTasks
<1>6. QED
  BY <1>1, <1>4, <1>5

-----------------------------------------------------------------------------
(* Schedules: the steps. *)

\* The schedules that are next without the one of t, with it, and with those that are due moved.
LEMMA ScheduledWithout ==
    ASSUME CronTyped, NEW t \in DOMAIN tasks
    PROVE  LET r == [u \in DOMAIN tasks \ {t} |-> tasks[u]]
           IN  Scheduled(r) /\ \A o : IsNext(r, o) <=> IsNext(tasks, o) /\ o[1] # t
<1> DEFINE r == [u \in DOMAIN tasks \ {t} |-> tasks[u]]
<1>1. IsFiniteSet(DOMAIN tasks \ {t})
  BY FS_RemoveElement DEF CronTyped, Scheduled
<1>2. QED
  BY <1>1 DEF CronTyped, Scheduled, IsNext

LEMMA ScheduledWith ==
    ASSUME CronTyped, NEW t \in Tasks \ drawnTasks
    PROVE  LET r == [u \in DOMAIN tasks \cup {t} |-> IF u = t THEN minute + 1 ELSE tasks[u]]
           IN  /\ DOMAIN r = DOMAIN tasks \cup {t} /\ r \in [DOMAIN r -> Minutes]
               /\ IsFiniteSet(DOMAIN r)
               /\ \A o : IsNext(r, o) <=> IF o[1] = t THEN o[2] = minute + 1 ELSE IsNext(tasks, o)
<1> DEFINE r == [u \in DOMAIN tasks \cup {t} |-> IF u = t THEN minute + 1 ELSE tasks[u]]
<1>1. IsFiniteSet(DOMAIN tasks \cup {t})
  BY FS_AddElement DEF CronTyped, Scheduled
<1>2. minute + 1 \in Minutes
  BY SchedulesAssumption DEF CronTyped, Minutes
<1>3. QED
  BY <1>1, <1>2 DEF CronTyped, Scheduled, IsNext

LEMMA ScheduledLater ==
    ASSUME CronTyped
    PROVE  LET r == [t \in DOMAIN tasks |-> IF t \in DueTasks THEN minute + 1 ELSE tasks[t]]
           IN  /\ Scheduled(r)
               /\ \A o : IsNext(r, o) <=> IF o[1] \in DueTasks THEN o[2] = minute + 1
                                          ELSE IsNext(tasks, o)
<1>1. minute + 1 \in Minutes
  BY SchedulesAssumption DEF CronTyped, Minutes
<1>2. QED
  BY <1>1 DEF CronTyped, Scheduled, IsNext, DueTasks

LEMMA FaultCounts ==
    ASSUME CronTyped, Fault
    PROVE  cronFaults' = cronFaults + 1 /\ cronFaults' \in Nat /\ cronFaults \in Nat
BY DEF CronTyped, Fault

\* What a save makes of an occurrence: the registry in memory becomes r, in which an occurrence
\* is next that was so before or was never started.
LEMMA SaveRepeats ==
    ASSUME CronTyped, NEW r, NEW collected, SaveAs(r, collected), NEW o \in Occurrences,
           Repeated(o), UNCHANGED started,
           o \in Waiting' => IsNext(tasks, o) \/ o \in Waiting,
           o \in Waiting /\ IsNext(savedTasks, o) => o \in Waiting',
           IsNext(tasks, o) => o \notin Waiting,
           IsNext(r, o) => IsNext(tasks, o) \/ started[o] = 0
    PROVE  Repeated(o)'
<1> DEFINE s == started[o]
<1>1. s \in Nat /\ cronFaults \in Nat /\ started'[o] = s
  BY DEF CronTyped
<1>2. /\ 2 * s <= cronFaults + 2
      /\ IsNext(tasks, o) \/ o \in Waiting => 2 * s <= cronFaults
      /\ IsNext(savedTasks, o) /\ ~IsNext(tasks, o) =>
            IF o \in Waiting THEN 2 * s + 1 <= cronFaults ELSE 2 * s <= cronFaults + 1
  BY DEF Repeated
<1>3. CASE tasks' = r /\ savedTasks' = r /\ UNCHANGED cronFaults
  <2>1. 2 * started'[o] <= cronFaults' + 2
    BY <1>1, <1>2, <1>3
  <2>2. IsNext(tasks', o) \/ o \in Waiting' => 2 * started'[o] <= cronFaults'
    BY <1>1, <1>2, <1>3
  <2>3. ~(IsNext(savedTasks', o) /\ ~IsNext(tasks', o))
    BY <1>3
  <2>4. QED
    BY <2>1, <2>2, <2>3 DEF Repeated, IsNext
<1>4. CASE tasks' = r /\ savedTasks' = savedTasks /\ Fault
  <2>1. cronFaults' = cronFaults + 1
    BY <1>4, FaultCounts
  <2>2. 2 * started'[o] <= cronFaults' + 2
    BY <1>1, <1>2, <2>1
  <2>3. IsNext(tasks', o) \/ o \in Waiting' => 2 * started'[o] <= cronFaults'
    BY <1>1, <1>2, <1>4, <2>1
  <2>4. IsNext(savedTasks', o) /\ ~IsNext(tasks', o) =>
            IF o \in Waiting' THEN 2 * started'[o] + 1 <= cronFaults'
            ELSE 2 * started'[o] <= cronFaults' + 1
    BY <1>1, <1>2, <1>4, <2>1
  <2>5. QED
    BY <2>2, <2>3, <2>4 DEF Repeated, IsNext
<1>5. QED
  BY <1>3, <1>4 DEF SaveAs

LEMMA SaveTypes ==
    ASSUME CronTyped, NEW r, NEW collected, SaveAs(r, collected)
    PROVE  /\ tasks' = r /\ savedTasks' \in {r, savedTasks} /\ cronFaults' \in Nat
BY FaultCounts DEF SaveAs, CronTyped

LEMMA CreateScheduleKeeps ==
    ASSUME CronInv, NEW t \in Tasks, CreateSchedule(t)
    PROVE  CronInv'
<1> DEFINE r == [u \in DOMAIN tasks \cup {t} |-> IF u = t THEN minute + 1 ELSE tasks[u]]
<1>1. /\ t \in Tasks \ drawnTasks /\ drawnTasks' = drawnTasks \cup {t} /\ SaveAs(r, {})
      /\ UNCHANGED <<minute, batch, running, started>>
      /\ CronTyped /\ Collected /\ \A o \in Occurrences : Repeated(o)
  BY DEF CreateSchedule, CronInv
<1>2. /\ DOMAIN r = DOMAIN tasks \cup {t} /\ r \in [DOMAIN r -> Minutes]
      /\ IsFiniteSet(DOMAIN r)
      /\ \A o : IsNext(r, o) <=> IF o[1] = t THEN o[2] = minute + 1 ELSE IsNext(tasks, o)
  BY <1>1, ScheduledWith
<1> HIDE DEF r
<1>3. tasks' = r /\ savedTasks' \in {r, savedTasks} /\ cronFaults' \in Nat
  BY <1>1, SaveTypes
<1>4. CronTyped'
  BY <1>1, <1>2, <1>3 DEF CronTyped, Scheduled
<1>5. Collected'
  BY <1>1, <1>2, <1>3 DEF Collected, CronTyped, IsNext
<1>6. ASSUME NEW o \in Occurrences PROVE Repeated(o)'
  <2>1. Waiting' = Waiting
    BY <1>1 DEF Waiting
  <2>2. IsNext(tasks, o) => o \notin Waiting
    BY <1>1, TailOf DEF Waiting, Collected, CronTyped
  <2>3. o[1] = t /\ o[2] = minute + 1 => started[o] = 0
    <3>1. started[o] \in Nat /\ minute \in Int
      BY <1>1 DEF CronTyped
    <3>2. started[o] > 0 => o[2] <= minute
      BY <1>1 DEF Collected
    <3>3. QED
      BY <3>1, <3>2
  <2>4. IsNext(r, o) => IsNext(tasks, o) \/ started[o] = 0
    BY <1>2, <2>3
  <2>5. QED
    BY <1>1, <2>1, <2>2, <2>4, SaveRepeats
<1>7. QED
  BY <1>4, <1>5, <1>6 DEF CronInv, Occurrences, Minutes

LEMMA DeleteScheduleKeeps ==
    ASSUME CronInv, NEW t \in Tasks, DeleteSchedule(t)
    PROVE  CronInv'
<1> DEFINE r == [u \in DOMAIN tasks \ {t} |-> tasks[u]]
<1>1. /\ t \in DOMAIN tasks /\ SaveAs(r, {})
      /\ UNCHANGED <<minute, drawnTasks, batch, running, started>>
      /\ CronTyped /\ Collected /\ \A o \in Occurrences : Repeated(o)
  BY DEF DeleteSchedule, CronInv
<1>2. Scheduled(r) /\ \A o : IsNext(r, o) <=> IsNext(tasks, o) /\ o[1] # t
  BY <1>1, ScheduledWithout
<1> HIDE DEF r
<1>3. tasks' = r /\ savedTasks' \in {r, savedTasks} /\ cronFaults' \in Nat
  BY <1>1, SaveTypes
<1>4. CronTyped'
  BY <1>1, <1>2, <1>3 DEF CronTyped, Scheduled
<1>5. Collected'
  BY <1>1, <1>2, <1>3 DEF Collected, CronTyped, IsNext
<1>6. ASSUME NEW o \in Occurrences PROVE Repeated(o)'
  <2>1. Waiting' = Waiting
    BY <1>1 DEF Waiting
  <2>2. IsNext(tasks, o) => o \notin Waiting
    BY <1>1, TailOf DEF Waiting, Collected, CronTyped
  <2>3. QED
    BY <1>1, <1>2, <2>1, <2>2, SaveRepeats
<1>7. QED
  BY <1>4, <1>5, <1>6 DEF CronInv, Occurrences, Minutes

LEMMA CollectKeeps == ASSUME CronInv, Collect PROVE CronInv'
<1> DEFINE collected == {<<t, tasks[t]>> : t \in DueTasks}
           r == [t \in DOMAIN tasks |-> IF t \in DueTasks THEN minute + 1 ELSE tasks[t]]
<1>1. /\ batch = <<>> /\ batch' = SetToSeq(collected) /\ SaveAs(r, collected)
      /\ UNCHANGED <<minute, drawnTasks, running, started>>
      /\ CronTyped /\ Collected /\ \A o \in Occurrences : Repeated(o)
  BY DEF Collect, CronInv
<1>2. /\ collected \subseteq Occurrences /\ IsFiniteSet(collected)
      /\ \A o \in collected : IsNext(tasks, o) /\ o[1] \in DueTasks
  BY <1>1, DueOccurrences
<1>3. /\ Scheduled(r)
      /\ \A o : IsNext(r, o) <=> IF o[1] \in DueTasks THEN o[2] = minute + 1
                                 ELSE IsNext(tasks, o)
  BY <1>1, ScheduledLater
<1>4. \A t \in DueTasks : t \in DOMAIN tasks /\ tasks[t] <= minute
  BY DEF DueTasks
<1> HIDE DEF collected, r
<1>5. batch' \in Seq(collected) /\ IsInjective(batch') /\ ToSet(batch') \subseteq collected
  BY <1>1, <1>2, ListOf
<1>6. tasks' = r /\ savedTasks' \in {r, savedTasks} /\ cronFaults' \in Nat
  BY <1>1, SaveTypes
<1>7. ~running /\ ~running'
  BY <1>1 DEF CronTyped
<1>8. batch' \in Seq(Occurrences)
  BY <1>2, <1>5
<1>9. CronTyped'
  BY <1>1, <1>3, <1>5, <1>6, <1>7, <1>8 DEF CronTyped, Scheduled
<1>10. minute \in Int
  BY <1>1 DEF CronTyped
<1>11. Collected'
  <2>1. ASSUME NEW o \in ToSet(batch')
        PROVE  o[1] \in drawnTasks' /\ o[2] <= minute' /\ ~IsNext(tasks', o)
    <3>1. o \in collected /\ o[1] \in DueTasks /\ IsNext(tasks, o)
      BY <1>2, <1>5, <2>1
    <3>2. o[1] \in drawnTasks /\ o[2] <= minute
      BY <1>1, <1>4, <3>1 DEF CronTyped, Scheduled, IsNext
    <3>3. o[2] # minute + 1
      <4>1. o \in Occurrences
        BY <1>2, <3>1
      <4>2. o[2] \in Int
        BY <4>1 DEF Occurrences, Minutes
      <4>3. QED
        BY <1>10, <3>2, <4>2
    <3>4. QED
      BY <1>1, <1>3, <1>6, <3>1, <3>2, <3>3
  <2>2. QED
    BY <1>1, <2>1 DEF Collected, IsNext, Occurrences, Minutes
<1>12. ASSUME NEW o \in Occurrences PROVE Repeated(o)'
  <2>1. Waiting = {}
    BY <1>1, <1>7 DEF Waiting, ToSet
  <2>2. o \in Waiting' => IsNext(tasks, o)
    BY <1>2, <1>5, <1>7 DEF Waiting
  <2>3. o[2] = minute + 1 => started[o] = 0
    <3>1. started[o] \in Nat
      BY <1>1 DEF CronTyped
    <3>2. started[o] > 0 => o[2] <= minute
      BY <1>1 DEF Collected
    <3>3. QED
      BY <1>10, <3>1, <3>2
  <2>4. IsNext(r, o) => IsNext(tasks, o) \/ started[o] = 0
    BY <1>3, <2>3
  <2>5. QED
    BY <1>1, <2>1, <2>2, <2>4, SaveRepeats
<1>13. QED
  BY <1>9, <1>11, <1>12 DEF CronInv, Occurrences, Minutes

LEMMA StartKeeps == ASSUME CronInv, Start PROVE CronInv'
<1>0. PICK h : h = Head(batch)
  OBVIOUS
<1>1. /\ batch # <<>> /\ ~running /\ running' = TRUE
      /\ started' = [started EXCEPT ![h] = @ + 1]
      /\ UNCHANGED <<minute, tasks, savedTasks, drawnTasks, batch, cronFaults>>
      /\ CronTyped /\ Collected /\ \A o \in Occurrences : Repeated(o)
  BY <1>0 DEF Start, CronInv
<1>2. h \in Occurrences /\ h \in ToSet(batch) /\ ToSet(Tail(batch)) = ToSet(batch) \ {h}
  BY <1>0, <1>1, TailOf DEF CronTyped
<1>3. Waiting = ToSet(batch) /\ Waiting' = ToSet(batch) \ {h}
  BY <1>0, <1>1, <1>2 DEF Waiting
<1>4. /\ started' \in [Occurrences -> Nat] /\ started'[h] = started[h] + 1
      /\ \A o \in Occurrences \ {h} : started'[o] = started[o]
  BY <1>1, <1>2 DEF CronTyped
<1>5. CronTyped'
  BY <1>1, <1>4 DEF CronTyped, Scheduled
<1>6. Collected'
  BY <1>1, <1>2, <1>4 DEF Collected, IsNext
<1>7. ASSUME NEW o \in Occurrences \ {h} PROVE Repeated(o)'
  <2>1. Repeated(o) /\ (o \in Waiting' <=> o \in Waiting) /\ started'[o] = started[o]
    BY <1>1, <1>3, <1>4
  <2>2. QED
    BY <1>1, <2>1 DEF Repeated, IsNext
<1>8. Repeated(h)'
  <2>1. Repeated(h) /\ h \in Waiting /\ h \notin Waiting' /\ ~IsNext(tasks, h)
    BY <1>1, <1>2, <1>3 DEF Collected
  <2>2. /\ 2 * started[h] <= cronFaults
        /\ IsNext(savedTasks, h) => 2 * started[h] + 1 <= cronFaults
    BY <2>1 DEF Repeated
  <2>3. started[h] \in Nat /\ cronFaults \in Nat
    BY <1>1, <1>2 DEF CronTyped
  <2>4. /\ 2 * started'[h] <= cronFaults' + 2
        /\ IsNext(savedTasks, h) => 2 * started'[h] <= cronFaults' + 1
    BY <1>1, <1>4, <2>2, <2>3
  <2>5. Repeated(h)' <=> /\ 2 * started'[h] <= cronFaults' + 2
                         /\ IsNext(savedTasks, h) => 2 * started'[h] <= cronFaults' + 1
    BY <1>1, <2>1 DEF Repeated, IsNext
  <2>6. QED
    BY <2>4, <2>5
<1>9. \A o \in Occurrences : Repeated(o)'
  BY <1>7, <1>8
<1>10. QED
  BY <1>5, <1>6, <1>9 DEF CronInv, Occurrences, Minutes

LEMMA RecordKeeps == ASSUME CronInv, Record PROVE CronInv'
<1>1. /\ running /\ running' = FALSE /\ batch' = Tail(batch)
      /\ UNCHANGED <<minute, drawnTasks, started>>
      /\ SaveAs(tasks, {}) \/ UNCHANGED <<tasks, savedTasks, cronFaults>>
      /\ CronTyped /\ Collected /\ \A o \in Occurrences : Repeated(o)
  BY DEF Record, CronInv
<1>2. /\ batch' \in Seq(Occurrences) /\ IsInjective(batch') /\ ToSet(batch') \subseteq ToSet(batch)
  BY <1>1, TailOf DEF CronTyped
<1>3. Waiting' = Waiting
  BY <1>1 DEF Waiting
<1>4. tasks' = tasks /\ savedTasks' \in {tasks, savedTasks} /\ cronFaults' \in Nat
  BY <1>1, SaveTypes DEF CronTyped
<1>5. CronTyped'
  BY <1>1, <1>2, <1>4 DEF CronTyped, Scheduled
<1>6. Collected'
  BY <1>1, <1>2, <1>4 DEF Collected, IsNext
<1>7. ASSUME NEW o \in Occurrences PROVE Repeated(o)'
  <2>1. IsNext(tasks, o) => o \notin Waiting
    BY <1>1, TailOf DEF Waiting, Collected, CronTyped
  <2>2. CASE SaveAs(tasks, {})
    BY <1>1, <1>3, <2>1, <2>2, SaveRepeats
  <2>3. CASE UNCHANGED <<tasks, savedTasks, cronFaults>>
    BY <1>1, <1>3, <2>3 DEF Repeated, IsNext
  <2>4. QED
    BY <1>1, <2>2, <2>3
<1>8. QED
  BY <1>5, <1>6, <1>7 DEF CronInv, Occurrences, Minutes

LEMMA KillKeeps == ASSUME CronInv, Kill PROVE CronInv'
<1>1. /\ Fault /\ tasks' = savedTasks /\ batch' = <<>> /\ running' = FALSE
      /\ UNCHANGED <<minute, savedTasks, drawnTasks, started>>
      /\ CronTyped /\ Collected /\ \A o \in Occurrences : Repeated(o)
  BY DEF Kill, CronInv
<1>2. cronFaults' = cronFaults + 1 /\ cronFaults \in Nat /\ cronFaults' \in Nat
  BY <1>1, FaultCounts
<1>3. ToSet(batch') = {} /\ Waiting' = {} /\ IsInjective(batch') /\ batch' \in Seq(Occurrences)
  BY <1>1 DEF ToSet, Waiting, IsInjective
<1>4. CronTyped'
  BY <1>1, <1>2, <1>3 DEF CronTyped, Scheduled
<1>5. Collected'
  BY <1>1, <1>3 DEF Collected
<1>6. ASSUME NEW o \in Occurrences PROVE Repeated(o)'
  <2>1. Repeated(o) /\ started[o] \in Nat
    BY <1>1 DEF CronTyped
  <2>2. 2 * started[o] <= cronFaults + 2
    BY <2>1 DEF Repeated
  <2>3. IsNext(savedTasks, o) => 2 * started[o] <= cronFaults + 1
    BY <1>2, <2>1 DEF Repeated
  <2>4. /\ 2 * started[o] <= cronFaults' + 2
        /\ IsNext(savedTasks, o) => 2 * started[o] <= cronFaults'
    BY <1>2, <2>1, <2>2, <2>3
  <2>5. QED
    BY <1>1, <1>3, <2>4 DEF Repeated, IsNext
<1>7. QED
  BY <1>4, <1>5, <1>6 DEF CronInv, Occurrences, Minutes

LEMMA PassKeeps == ASSUME CronInv, Pass PROVE CronInv'
<1>1. /\ minute < LastMinute /\ minute' = minute + 1
      /\ UNCHANGED <<tasks, savedTasks, drawnTasks, batch, running, cronFaults, started>>
      /\ CronTyped /\ Collected /\ \A o \in Occurrences : Repeated(o)
  BY DEF Pass, CronInv
<1>2. minute \in 0 .. LastMinute /\ minute' \in 0 .. LastMinute
  BY <1>1, SchedulesAssumption DEF CronTyped
<1>3. CronTyped'
  BY <1>1, <1>2 DEF CronTyped, Scheduled
<1>4. ToSet(batch) \subseteq Occurrences
  BY <1>1 DEF CronTyped, ToSet
<1>5. \A o \in Occurrences : o[2] <= minute => o[2] <= minute'
  BY <1>1, <1>2 DEF Occurrences, Minutes
<1>6. Collected'
  BY <1>1, <1>4, <1>5 DEF Collected, IsNext
<1>7. \A o \in Occurrences : Repeated(o)'
  BY <1>1 DEF Repeated, IsNext, Waiting
<1>8. QED
  BY <1>3, <1>6, <1>7 DEF CronInv, Occurrences, Minutes

LEMMA CronStart == CronInit => CronInv
<1> SUFFICES ASSUME CronInit PROVE CronInv
  OBVIOUS
<1>1. /\ minute = 0 /\ DOMAIN tasks = {} /\ DOMAIN savedTasks = {} /\ savedTasks = tasks
      /\ tasks = [t \in {} |-> 0] /\ drawnTasks = {} /\ batch = <<>> /\ running = FALSE
      /\ cronFaults = 0 /\ started = [o \in Occurrences |-> 0]
  BY DEF CronInit
<1>2. tasks \in [DOMAIN tasks -> Minutes] /\ IsFiniteSet(DOMAIN tasks)
  BY <1>1, FS_EmptySet
<1>3. ToSet(batch) = {} /\ IsInjective(batch) /\ batch \in Seq(Occurrences)
  BY <1>1 DEF ToSet, IsInjective
<1>4. CronTyped
  <2>1. minute \in 0 .. LastMinute /\ drawnTasks \subseteq Tasks /\ cronFaults \in Nat
    BY <1>1, SchedulesAssumption
  <2>2. Scheduled(tasks) /\ Scheduled(savedTasks)
    BY <1>1, <1>2 DEF Scheduled
  <2>3. started \in [Occurrences -> Nat]
    BY <1>1
  <2>4. running \in BOOLEAN /\ (running => batch # <<>>)
    BY <1>1
  <2>5. QED
    BY <1>3, <2>1, <2>2, <2>3, <2>4 DEF CronTyped
<1>5. Collected
  BY <1>1, <1>3 DEF Collected
<1>6. \A o \in Occurrences : Repeated(o)
  BY <1>1, <1>3 DEF Repeated, IsNext, Waiting
<1>7. QED
  BY <1>4, <1>5, <1>6 DEF CronInv

LEMMA CronKept == CronInv /\ [CronNext]_cronVars => CronInv'
<1>1. ASSUME CronInv, UNCHANGED cronVars PROVE CronInv'
  BY <1>1 DEF cronVars, CronInv, CronTyped, Scheduled, Collected, Repeated, IsNext, Waiting,
              Occurrences, Minutes
<1>2. QED
  BY <1>1, CreateScheduleKeeps, DeleteScheduleKeeps, CollectKeeps, StartKeeps, RecordKeeps,
     KillKeeps, PassKeeps DEF CronNext

\* An occurrence is started a second time only after two faults, a third time after four, for
\* every number of schedules, minutes and faults.
THEOREM OccurrencesStartOnce == CronSpec => []StartedOnce
<1>1. CronInv => StartedOnce
  <2> SUFFICES ASSUME CronInv, NEW o \in Occurrences, started[o] > 1
               PROVE  2 * (started[o] - 1) <= cronFaults
    BY DEF StartedOnce
  <2>1. started[o] \in Nat /\ cronFaults \in Nat /\ 2 * started[o] <= cronFaults + 2
    BY DEF CronInv, CronTyped, Repeated
  <2>2. QED
    BY <2>1
<1>2. QED
  BY <1>1, CronStart, CronKept, PTL DEF CronSpec
=============================================================================
