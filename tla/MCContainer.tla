----------------------------- MODULE MCContainer -----------------------------
(* Small instances of Container. *)
EXTENDS Container, TLC

MCAllocations == {[memory |-> 1, disk |-> 1], [memory |-> 2, disk |-> 2]}
MCBudgets == {[memory |-> 2, disk |-> 2], [memory |-> 3, disk |-> 2]}
MCFirstBudget == [memory |-> 3, disk |-> 2]

MCSymmetry == Permutations(Apps) \cup Permutations(Versions)
=============================================================================
