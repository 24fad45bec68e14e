--------------------------- MODULE MCProvisioning ---------------------------
(* Small instances of Provisioning. *)
EXTENDS Provisioning, TLC

\* Identifiers are drawn at random and handlers are alike.
MCSymmetry == Permutations(Ids) \cup Permutations(Requests)
=============================================================================
