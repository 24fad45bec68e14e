----------------------------- MODULE MCAccounts -----------------------------
(* Small instances of Accounts. *)
EXTENDS Accounts, FiniteSetsExt, TLC

CONSTANT MaxChanges  \* bound: changes of access, and secrets drawn

MCSymmetry == Permutations(Handlers) \cup Permutations(Sessions) \cup Permutations(Tokens)

\* The first version of an account's access is its creation.
MCChanges == MapThenSumSet(LAMBDA u : IF access[u] = 0 THEN 0 ELSE access[u] - 1, Users)

\* Where secrets are drawn, the administrator is alone, keeps the password and has no tokens. The
\* steps from a state within the bound are checked also where they leave it.
MCBound ==
    /\ drawn <= MaxChanges
    /\ IF drawn = 0 THEN MCChanges < MaxChanges
       ELSE /\ MCChanges = 0
            /\ \A t \in Tokens : token[t] = NoGrant
            /\ \A u \in Users \ Admins : access[u] = 0
=============================================================================
