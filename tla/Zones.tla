------------------------------- MODULE Zones -------------------------------
(***************************************************************************)
(* The zone files of the name server. The agent writes all of them again   *)
(* after every change of a domain or a record (dns_sync in agent.rs), and  *)
(* certbot runs a hook (acme_hook.rs) that adds a challenge to one of them *)
(* or takes it away: two processes, with a file lock between them, that    *)
(* change the same files and may each fail or be killed half way.          *)
(***************************************************************************)
EXTENDS Naturals, FiniteSets

CONSTANTS
    Domains,        \* identifiers of domains, random and never used twice
    Records,        \* identifiers of records, likewise
    DomainOf(_),    \* the domain a record is of
    Refused,        \* records that named-checkzone refuses, next to those a zone has anyway
    Challenges,     \* validation tokens of certbot, likewise
    ChallengeOf(_), \* the domain a token is for
    LastSecond,     \* bound: how long the clock runs
    MaxZoneFaults   \* bound: how often a program fails or is killed

ASSUME ZonesAssumption ==
    /\ Domains \cap Records = {} /\ Refused \subseteq Records
    /\ \A r \in Records : DomainOf(r) \in Domains
    /\ \A c \in Challenges : ChallengeOf(c) \in Domains
    /\ LastSecond \in Nat /\ MaxZoneFaults \in Nat

VARIABLES
    second,      \* the clock
    named,       \* the domains and records of the registry, in memory
    savedNamed,  \* and in registry.json
    drawnNames,  \* the identifiers that were drawn
    zone,        \* the zone files: serial, records and challenges
    stored,      \* the files of challenges
    flock,       \* who holds /run/cgpanel/dns.lock
    sync,        \* the operation that holds the registry mutex
    hook,        \* the running hook
    zoneFaults,
    behind       \* a change of the registry may not have reached the files, for the properties

zoneVars == <<second, named, savedNamed, drawnNames, zone, stored, flock, sync, hook, zoneFaults,
              behind>>

registryVars == <<named, savedNamed, drawnNames>>

NoZone == [serial |-> 0, records |-> {}, challenges |-> {}]
\* item is what an operation creates or deletes; dns_sync began in second time, is at the zone of
\* domain, whose serial was last and whose stored challenges were kept, and has todo before it.
NoSync == [kind |-> "none", at |-> "idle", item |-> {}, time |-> 0, todo |-> {}, domain |-> {},
           last |-> 0, kept |-> {}]
NoHook == [at |-> "idle", challenge |-> {}, add |-> FALSE, old |-> {}]

ZonesInit ==
    /\ second = 1
    /\ named = {} /\ savedNamed = {} /\ drawnNames = {}
    /\ zone = [d \in Domains |-> NoZone]
    /\ stored = [d \in Domains |-> {}]
    /\ flock = "free"
    /\ sync = NoSync /\ hook = NoHook
    /\ zoneFaults = 0
    /\ behind = FALSE

-----------------------------------------------------------------------------
Registered(names) == names \cap Domains
RecordsOf(d) == {r \in named \cap Records : DomainOf(r) = d}
Later(a, b) == IF a > b THEN a ELSE b

ZoneFault == zoneFaults < MaxZoneFaults /\ zoneFaults' = zoneFaults + 1

\* The step of an operation before dns_sync: the registry is changed in memory.
Change(kind, item, names) ==
    /\ sync = NoSync
    /\ named' = names
    /\ sync' = [NoSync EXCEPT !.kind = kind, !.at = "lock", !.item = {item}]

CreateDomain(d) ==
    /\ d \notin drawnNames /\ drawnNames' = drawnNames \cup {d}
    /\ Change("domain", d, named \cup {d})
    /\ UNCHANGED <<second, savedNamed, zone, stored, flock, hook, zoneFaults, behind>>

CreateDns(r) ==
    /\ r \notin drawnNames /\ drawnNames' = drawnNames \cup {r}
    /\ DomainOf(r) \in named
    /\ Change("record", r, named \cup {r})
    /\ UNCHANGED <<second, savedNamed, zone, stored, flock, hook, zoneFaults, behind>>

\* delete_domain and delete_dns; the panel asks to remove what is linked to a domain first.
DeleteName(x) ==
    /\ x \in named /\ (x \in Domains => RecordsOf(x) = {})
    /\ Change("delete", x, named \ {x})
    /\ UNCHANGED <<second, savedNamed, drawnNames, zone, stored, flock, hook, zoneFaults, behind>>

-----------------------------------------------------------------------------
(* dns_sync. *)

SyncLock ==
    /\ sync.at = "lock" /\ flock = "free"
    /\ flock' = "agent"
    /\ sync' = [sync EXCEPT !.at = "read", !.time = second, !.todo = Registered(named)]
    /\ UNCHANGED <<second, registryVars, zone, stored, hook, zoneFaults, behind>>

\* The old serial of a zone and the challenges that are to stay are read.
SyncRead(d) ==
    /\ sync.at = "read" /\ d \in sync.todo
    /\ sync' = [sync EXCEPT !.at = "write", !.todo = @ \ {d}, !.domain = {d},
                            !.last = zone[d].serial, !.kept = stored[d]]
    /\ UNCHANGED <<second, registryVars, zone, stored, flock, hook, zoneFaults, behind>>

SyncDomain == CHOOSE d \in sync.domain : TRUE

\* The file is replaced.
WriteZone(serial) ==
    /\ sync.at = "write"
    /\ zone' = [zone EXCEPT ![SyncDomain] = [serial |-> serial, records |-> RecordsOf(SyncDomain),
                                             challenges |-> sync.kept]]
    /\ sync' = [sync EXCEPT !.at = "check", !.last = 0, !.kept = {}]
    /\ UNCHANGED <<second, registryVars, stored, flock, hook, zoneFaults, behind>>

\* Mutant: the serial is the time.
SyncWriteTime == WriteZone(sync.time)

\* A serial later than the old one and not before the time.
SyncWrite == WriteZone(Later(sync.time, sync.last + 1))

\* What is left of an operation then.
Synced == [NoSync EXCEPT !.at = "save"]

\* Mutant: create_dns takes its record back and leaves the files as they are.
SyncFailedOnce ==
    /\ flock' = IF flock = "agent" THEN "free" ELSE flock
    /\ named' = IF sync.kind \in {"domain", "record"} THEN named \ sync.item ELSE named
    /\ behind' = (behind \/ sync.kind \in {"undo", "delete"})
    /\ sync' = Synced

\* A failure ends dns_sync and drops its lock. create_domain takes its domain back; create_dns
\* takes its record back and writes the files again, and there a failure is ignored.
SyncFailed ==
    /\ flock' = IF flock = "agent" THEN "free" ELSE flock
    /\ named' = IF sync.kind \in {"domain", "record"} THEN named \ sync.item ELSE named
    /\ behind' = (behind \/ sync.kind \in {"undo", "delete"})
    /\ sync' = IF sync.kind = "record" THEN [NoSync EXCEPT !.kind = "undo", !.at = "lock"]
               ELSE Synced

\* The lock file cannot be opened, or something fails between the lock and the end of the last
\* file, zones.conf and named-checkconf included.
SyncBreaks ==
    /\ sync.at \in {"lock", "read", "write"}
    /\ ZoneFault /\ SyncFailed
    /\ UNCHANGED <<second, savedNamed, drawnNames, zone, stored, hook>>

\* named-checkzone, before the next file.
SyncCheck ==
    LET refused == RecordsOf(SyncDomain) \cap Refused # {}
    IN  /\ sync.at = "check"
        /\ \/ /\ ~refused
              /\ sync' = [sync EXCEPT !.at = "read", !.domain = {}]
              /\ UNCHANGED <<named, flock, behind, zoneFaults>>
           \/ refused /\ SyncFailed /\ UNCHANGED zoneFaults
           \/ ~refused /\ ZoneFault /\ SyncFailed
        /\ UNCHANGED <<second, savedNamed, drawnNames, zone, stored, hook>>

\* zones.conf, named-checkconf and rndc, when all files are written.
SyncLoad ==
    /\ sync.at = "read" /\ sync.todo = {}
    /\ flock' = "free" /\ behind' = FALSE
    /\ sync' = Synced
    /\ UNCHANGED <<second, registryVars, zone, stored, hook, zoneFaults>>

\* The dispatcher saves the registry, also after an error.
SaveNames ==
    /\ sync.at = "save"
    /\ sync' = NoSync
    /\ \/ savedNamed' = named /\ UNCHANGED zoneFaults
       \/ ZoneFault /\ UNCHANGED savedNamed
    /\ UNCHANGED <<second, named, drawnNames, zone, stored, flock, hook, behind>>

\* The agent is killed; the kernel drops its lock, and it starts with the saved registry
\* and does not write the files.
KillAgent ==
    /\ ZoneFault
    /\ flock' = IF flock = "agent" THEN "free" ELSE flock
    /\ behind' = (behind \/ sync # NoSync \/ named # savedNamed)
    /\ named' = savedNamed
    /\ sync' = NoSync
    /\ UNCHANGED <<second, savedNamed, drawnNames, zone, stored, hook>>

-----------------------------------------------------------------------------
(* The hook. *)

TheChallenge == CHOOSE c \in hook.challenge : TRUE
HookZone == ChallengeOf(TheChallenge)

\* It looks up the domain in registry.json before it asks for the lock. certbot cleans up what
\* it placed.
StartHook(c, add) ==
    /\ hook = NoHook
    /\ ChallengeOf(c) \in savedNamed
    /\ IF add THEN c \notin drawnNames ELSE c \in stored[ChallengeOf(c)]
    /\ drawnNames' = drawnNames \cup {c}
    /\ hook' = [at |-> "lock", challenge |-> {c}, add |-> add, old |-> {}]
    /\ UNCHANGED <<second, named, savedNamed, zone, stored, flock, sync, zoneFaults, behind>>

LockHook ==
    /\ hook.at = "lock" /\ flock = "free"
    /\ flock' = "hook"
    /\ hook' = [hook EXCEPT !.at = "store"]
    /\ UNCHANGED <<second, registryVars, zone, stored, sync, zoneFaults, behind>>

\* The file of challenges is read and replaced.
StoreChallenge ==
    /\ hook.at = "store"
    /\ hook' = [hook EXCEPT !.at = "zone", !.old = stored[HookZone]]
    /\ stored' = [stored EXCEPT ![HookZone] =
                     (@ \ hook.challenge) \cup (IF hook.add THEN hook.challenge ELSE {})]
    /\ UNCHANGED <<second, registryVars, zone, flock, sync, zoneFaults, behind>>

\* The zone file is read, the lines of the challenges that were stored before are left out and
\* those stored now appended, under a serial that grows.
EditZone ==
    /\ hook.at = "zone"
    /\ LET file == zone[HookZone]
       IN  zone' = [zone EXCEPT ![HookZone] =
                      [file EXCEPT !.serial = Later(file.serial + 1, second),
                                   !.challenges = (@ \ hook.old) \cup stored[HookZone]]]
    /\ hook' = [hook EXCEPT !.at = "load"]
    /\ UNCHANGED <<second, registryVars, stored, flock, sync, zoneFaults, behind>>

\* named-checkzone and rndc, whatever they say: the files stay and the lock is dropped.
EndHook ==
    /\ hook.at = "load"
    /\ flock' = "free" /\ hook' = NoHook
    /\ UNCHANGED <<second, registryVars, zone, stored, sync, zoneFaults, behind>>

KillHook ==
    /\ hook # NoHook /\ ZoneFault
    /\ flock' = IF flock = "hook" THEN "free" ELSE flock
    /\ behind' = (behind \/ hook.at = "zone")
    /\ hook' = NoHook
    /\ UNCHANGED <<second, registryVars, zone, stored, sync>>

ZoneTick ==
    /\ second < LastSecond /\ second' = second + 1
    /\ UNCHANGED <<registryVars, zone, stored, flock, sync, hook, zoneFaults, behind>>

ZonesNext ==
    \/ \E d \in Domains : CreateDomain(d) \/ SyncRead(d)
    \/ \E r \in Records : CreateDns(r)
    \/ \E x \in Domains \cup Records : DeleteName(x)
    \/ SyncLock \/ SyncWrite \/ SyncBreaks \/ SyncCheck \/ SyncLoad \/ SaveNames \/ KillAgent
    \/ \E c \in Challenges, add \in BOOLEAN : StartHook(c, add)
    \/ LockHook \/ StoreChallenge \/ EditZone \/ EndHook \/ KillHook
    \/ ZoneTick

ZonesSpec == ZonesInit /\ [][ZonesNext]_zoneVars

-----------------------------------------------------------------------------
\* Whenever neither the agent nor the hook is at work, every registered domain has a zone file
\* with exactly its registered records and the challenges that are stored, so that no change of
\* one process undoes one of the other, unless a program failed or was killed and no later
\* change has written the files again. A record that named-checkzone refuses is taken out.
ZonesAreCurrent ==
    sync = NoSync /\ flock = "free" /\ ~behind =>
        \A d \in Registered(named) :
            zone[d].records = RecordsOf(d) /\ zone[d].challenges = stored[d]

\* A zone file never changes without a later serial, also when it changes more often than once a
\* second and from both processes: secondaries and resolvers would keep the old one.
SerialsGrow ==
    [][\A d \in Domains : zone'[d] # zone[d] => zone'[d].serial > zone[d].serial]_zoneVars
=============================================================================
