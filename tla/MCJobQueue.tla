----------------------------- MODULE MCJobQueue -----------------------------
(* Small instances of JobQueue: two accounts with one application each. *)
EXTENDS JobQueue, TLC

CONSTANTS o1, o2, a1, a2, p1

MCOwnerOf == [a \in Apps |-> IF a = a1 THEN o1 ELSE o2]
MCAppOf == [p \in Plans |-> IF p = p1 THEN a1 ELSE a2]

\* Jobs are interchangeable, and so are the handlers.
MCSymmetry == Permutations(Jobs) \cup Permutations(Requests)
=============================================================================
