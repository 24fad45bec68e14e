------------------------------ MODULE MCParts ------------------------------
(***************************************************************************)
(* Small instances of the smaller components, which share no state: each   *)
(* behaviour is one of one component, and the others stay at their start.  *)
(***************************************************************************)
EXTENDS Schedules, Zones, Workspace, Import, Protection

CONSTANTS d1, d2, r1, r2

VARIABLE moving  \* the component that moves

MCDomainOf(r) == IF r \in {r1, r2} THEN d1 ELSE d2
MCChallengeOf(c) == d1

MCInit ==
    /\ moving \in {"schedules", "zones", "workspace", "import", "protection"}
    /\ CronInit /\ ZonesInit /\ WsInit /\ ImportInit /\ ProtectionInit

MCNext ==
    /\ UNCHANGED moving
    /\ \/ /\ moving = "schedules" /\ CronNext
          /\ UNCHANGED <<zoneVars, wsVars, importVars, protectionVars>>
       \/ /\ moving = "zones" /\ ZonesNext
          /\ UNCHANGED <<cronVars, wsVars, importVars, protectionVars>>
       \/ /\ moving = "workspace" /\ WsNext
          /\ UNCHANGED <<cronVars, zoneVars, importVars, protectionVars>>
       \/ /\ moving = "import" /\ ImportNext
          /\ UNCHANGED <<cronVars, zoneVars, wsVars, protectionVars>>
       \/ /\ moving = "protection" /\ ProtectionNext
          /\ UNCHANGED <<cronVars, zoneVars, wsVars, importVars>>

MCSpec ==
    /\ MCInit
    /\ [][MCNext]_<<moving, cronVars, zoneVars, wsVars, importVars, protectionVars>>
    /\ CronFairness
=============================================================================
