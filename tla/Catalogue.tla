----------------------------- MODULE Catalogue -----------------------------
(***************************************************************************)
(* What the two registries of a CGPanel server promise together about a    *)
(* managed resource: the agent keeps it in its registry file, the panel    *)
(* lists it in its database, and its identifier lives through              *)
(*                                                                         *)
(*    unknown -> kept -> listed -> withdrawn -> retired                    *)
(*                                                                         *)
(* in this order and only once. So the panel lists nothing that was not    *)
(* kept when it was first listed, the agent gives up nothing that the      *)
(* panel does not list, and what is withdrawn never comes back. An         *)
(* identifier may stay kept for ever: an orphan, of which the panel knows  *)
(* nothing. It may stay withdrawn for ever: a row that nothing backs.      *)
(* Provisioning is shown to implement this module.                         *)
(***************************************************************************)
CONSTANT Ids

VARIABLES
    kept,    \* in the agent's registry file
    listed,  \* in the panel's database
    retired  \* no longer listed

cvars == <<kept, listed, retired>>

CInit == kept = {} /\ listed = {} /\ retired = {}

\* The agent writes its registry file: resources made since, and resources taken down.
\* Several of each, because an earlier write may have failed.
Persist ==
    \E made \in SUBSET (Ids \ (kept \cup listed \cup retired)), gone \in SUBSET listed :
        /\ kept' = (kept \cup made) \ gone
        /\ UNCHANGED <<listed, retired>>

\* The panel inserts the row of a resource.
List ==
    \E i \in kept \ (listed \cup retired) :
        /\ listed' = listed \cup {i}
        /\ UNCHANGED <<kept, retired>>

\* The panel deletes the row of a resource.
Retire ==
    \E i \in listed \ kept :
        /\ listed' = listed \ {i}
        /\ retired' = retired \cup {i}
        /\ UNCHANGED kept

CNext == Persist \/ List \/ Retire

CSpec == CInit /\ [][CNext]_cvars
=============================================================================
