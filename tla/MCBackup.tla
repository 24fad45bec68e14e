------------------------------ MODULE MCBackup ------------------------------
(* Small instances of Backup. *)
EXTENDS Backup, TLC

\* Identifiers are drawn at random, and what is written is alike.
MCSymmetry == Permutations(Ids) \cup Permutations(Writes)
=============================================================================
