------------------------------ MODULE Accounts ------------------------------
(***************************************************************************)
(* Accounts of the panel, the sessions and API tokens granted to them, and *)
(* their second factor (src/src/main.rs, mfa.rs, admin_api.rs).            *)
(*                                                                         *)
(* Requests are handled concurrently and every await is a point where      *)
(* others run, or where the handler is dropped because its client left.    *)
(* Some hold the mutex "writes" of the panel; a login, a change of the     *)
(* password, a logout and a revocation do not. What a request may do is    *)
(* settled when it is authenticated, and not looked at again.              *)
(***************************************************************************)
EXTENDS Naturals, FiniteSets

CONSTANTS
    Users,          \* accounts, created or yet to be
    Admins,         \* those with the role admin, which the installer creates
    Handlers,       \* requests that are handled at the same time
    Sessions,       \* sessions that exist at the same time
    Tokens,         \* API tokens that are valid at the same time
    RecoveryCodes,  \* which of the ten recovery codes of an enrolment
    TokenLimit,     \* active tokens of an administrator (20)
    MaxAccess,      \* bound: how often the access of an account changes
    MaxSecrets,     \* bound: how many authenticator secrets are drawn
    MaxPeriod,      \* bound: periods of 30 seconds that pass
    NoOne           \* nobody, no handler, no session

VARIABLES
    access,      \* table users: the version of the password, the switch and the addresses of
                 \* an account, 0 before it is created
    enabled,     \* the switch itself
    session,     \* table sessions, the rows that have not expired
    token,       \* table api_tokens, the rows that are neither revoked nor expired
    mfa,         \* table user_mfa: the secret, 0 if there is none, and the last step counted
    pending,     \* table mfa_pending: a secret that is not confirmed yet, or 0
    recovery,    \* table mfa_recovery: the recovery codes that were not used
    drawn,       \* how many secrets were drawn
    writes,      \* the handler that holds the mutex
    handler,     \* what each request is about, and the statement it executes next
    accepted,    \* how often a code of an enrolment was counted, for the properties
    unfinished   \* deletions that a dropped change still owed, for the properties

accounts == <<access, enabled>>
factors == <<mfa, pending, recovery, drawn, accepted>>
grants == <<session, token>>

vars == <<accounts, grants, factors, writes, handler, unfinished>>

-----------------------------------------------------------------------------
Secrets == 1 .. MaxSecrets
Periods == 0 .. MaxPeriod

\* A code of an authenticator belongs to a period. Time is left out: a request may present the
\* code of any period, where the code takes the current one and its neighbours, so that it has
\* accepted every sequence of periods that can be accepted at some time.
Codes == Secrets \X (Periods \cup RecoveryCodes)

ASSUME AccountsAssumption ==
    /\ Admins \subseteq Users
    /\ NoOne \notin Users \cup Handlers \cup Sessions \cup Tokens
    /\ RecoveryCodes \cap Nat = {}
    /\ IsFiniteSet(Tokens) /\ TokenLimit \in Nat
    /\ MaxAccess \in Nat /\ MaxSecrets \in Nat /\ MaxPeriod \in Nat

Ops == {"none", "login", "logout", "change", "update", "create", "enroll", "confirm", "disable",
        "mint", "revoke"}

Places == {"idle", "secret", "code", "insert", "end", "lock", "row", "password", "sessions",
           "tokens", "pending", "confirm", "clear", "count"}

\* What a session or a token was granted on: the account, the version of its access, and the
\* secret a code was asked for. overtaken says that the sessions or tokens of the account were
\* deleted after that was read and before the row was inserted.
Grant == [user : Users \cup {NoOne}, access : Nat, secret : Nat, overtaken : BOOLEAN]
NoGrant == [user |-> NoOne, access |-> 0, secret |-> 0, overtaken |-> FALSE]

\* user is the account a request is about, sess the session that made it where that matters,
\* and grant what it is about to insert.
Request == [op : Ops, at : Places, user : Users \cup {NoOne}, sess : Sessions \cup {NoOne},
            grant : Grant]
Idle == [op |-> "none", at |-> "idle", user |-> NoOne, sess |-> NoOne, grant |-> NoGrant]

Init ==
    /\ access = [u \in Users |-> IF u \in Admins THEN 1 ELSE 0]
    /\ enabled = [u \in Users |-> TRUE]
    /\ session = [s \in Sessions |-> NoGrant]
    /\ token = [t \in Tokens |-> NoGrant]
    /\ mfa = [u \in Users |-> [secret |-> 0, last |-> 0]]
    /\ pending = [u \in Users |-> 0]
    /\ recovery = [u \in Users |-> {}]
    /\ drawn = 0
    /\ writes = NoOne
    /\ handler = [h \in Handlers |-> Idle]
    /\ accepted = [c \in Codes |-> 0]
    /\ unfinished = [u \in Users |-> {}]

-----------------------------------------------------------------------------
Live(s) == session[s].user # NoOne
Active(u) == {t \in Tokens : token[t].user = u}

\* Once the row is written, the deletions a change of access has still to make.
DueOf(r) ==
    CASE r.op = "change" /\ r.at = "sessions" -> {"sessions", "tokens"}
      [] r.op = "change" /\ r.at = "tokens" -> {"tokens"}
      [] r.op = "update" /\ r.at \in {"password", "sessions"} -> {"sessions"}
      [] OTHER -> {}

Due(u, what) ==
    \/ what \in unfinished[u]
    \/ \E h \in Handlers : handler[h].user = u /\ what \in DueOf(handler[h])

At(h, op, at) == handler[h].op = op /\ handler[h].at = at
Now(h, at) == [handler[h] EXCEPT !.at = at]

\* Handler h goes on with r, or ends; the mutex is dropped with its guard.
Goes(h, r) == handler' = [handler EXCEPT ![h] = r] /\ UNCHANGED writes
Ends(h) ==
    /\ handler' = [handler EXCEPT ![h] = Idle]
    /\ writes' = IF writes = h THEN NoOne ELSE writes

\* The same for a handler that deletes what requests of kind op are about to grant to u.
Passed(r, op, u) == IF r.op = op /\ r.user = u THEN [r EXCEPT !.grant.overtaken = TRUE] ELSE r
Overtakes(h, op, u, r) ==
    /\ handler' = [g \in Handlers |-> IF g = h THEN r ELSE Passed(handler[g], op, u)]
    /\ writes' = IF r = Idle /\ writes = h THEN NoOne ELSE writes

\* DELETE FROM sessions WHERE user_id=? [AND csrf<>?].
SessionsBut(u, kept) ==
    [s \in Sessions |-> IF session[s].user = u /\ s # kept THEN NoGrant ELSE session[s]]

Accept(c) == accepted' = [accepted EXCEPT ![c] = @ + 1]

-----------------------------------------------------------------------------
(* login. A wrong password, an address that is not allowed, a refused code and the limits on
   attempts end the handler like Drop. *)

LoginRead(h, u) ==
    /\ handler[h] = Idle
    /\ access[u] # 0 /\ enabled[u]
    /\ Goes(h, [Idle EXCEPT !.op = "login", !.at = "secret", !.user = u,
                            !.grant = [NoGrant EXCEPT !.user = u, !.access = access[u]]])
    /\ UNCHANGED <<accounts, grants, factors, unfinished>>

\* verify reads the secret; without one no code is asked for.
LoginSecret(h) ==
    LET secret == mfa[handler[h].user].secret
    IN  /\ At(h, "login", "secret")
        /\ Goes(h, [handler[h] EXCEPT !.grant.secret = secret,
                                      !.at = IF secret = 0 THEN "insert" ELSE "code"])
        /\ UNCHANGED <<accounts, grants, factors, unfinished>>

\* Mutant: the last step is written whatever it was.
CountStepAnyway(u, k) ==
    /\ mfa[u].secret # 0
    /\ mfa' = [mfa EXCEPT ![u].last = k]
    /\ Accept(<<mfa[u].secret, k>>)
    /\ UNCHANGED <<pending, recovery, drawn>>

\* verify: the row counts step k if it counted none as late as that. The code was compared
\* with the secret that was read, and the row may hold another by now.
CountStep(u, k) ==
    /\ mfa[u].secret # 0 /\ mfa[u].last < k
    /\ mfa' = [mfa EXCEPT ![u].last = k]
    /\ Accept(<<mfa[u].secret, k>>)
    /\ UNCHANGED <<pending, recovery, drawn>>

\* verify: a recovery code is deleted by the request it is good for.
UseRecovery(u, c) ==
    /\ c \in recovery[u]
    /\ recovery' = [recovery EXCEPT ![u] = @ \ {c}]
    /\ Accept(<<mfa[u].secret, c>>)
    /\ UNCHANGED <<mfa, pending, drawn>>

Verified(u) ==
    \/ \E k \in Periods : CountStep(u, k)
    \/ \E c \in RecoveryCodes : UseRecovery(u, c)

LoginCode(h) ==
    /\ At(h, "login", "code")
    /\ Verified(handler[h].user)
    /\ Goes(h, Now(h, "insert"))
    /\ UNCHANGED <<accounts, grants, unfinished>>

\* Session s has a random token, which no row and no request holds.
LoginInsert(h, s) ==
    /\ At(h, "login", "insert")
    /\ ~Live(s) /\ \A g \in Handlers : handler[g].sess # s
    /\ session' = [session EXCEPT ![s] = handler[h].grant]
    /\ Ends(h)
    /\ UNCHANGED <<accounts, token, factors, unfinished>>

-----------------------------------------------------------------------------
(* Requests of someone who signed in. *)

\* What the handler of a request does first.
FirstPlace(op) ==
    CASE op \in {"logout", "revoke"} -> "end"
      [] op = "change" -> "password"
      [] OTHER -> "lock"

\* What someone with grant g may ask for; the account is the own one but for an administrator
\* who changes or creates that of a user.
MayAsk(g, op, u) ==
    \/ op \in {"logout", "change", "enroll", "confirm", "disable"} /\ u = g.user
    \/ op \in {"mint", "revoke"} /\ g.user \in Admins /\ u = g.user
    \/ op \in {"update", "create"} /\ g.user \in Admins /\ u \notin Admins

\* authenticate: the session is there and the account enabled. A token will be granted on what
\* the session was granted on.
Authenticate(h, s, op, u) ==
    LET g == session[s]
    IN  /\ handler[h] = Idle
        /\ Live(s) /\ enabled[g.user] /\ MayAsk(g, op, u)
        /\ Goes(h, [op |-> op, at |-> FirstPlace(op), user |-> u,
                    sess |-> IF op \in {"logout", "confirm", "disable"} THEN s ELSE NoOne,
                    grant |-> IF op = "mint" THEN [g EXCEPT !.secret = 0] ELSE NoGrant])
        /\ UNCHANGED <<accounts, grants, factors, unfinished>>

\* authenticate_token: a token with the scope admin.
AuthenticateToken(h, t, op, u) ==
    LET g == token[t]
    IN  /\ handler[h] = Idle
        /\ g # NoGrant /\ enabled[g.user] /\ MayAsk(g, op, u) /\ op \in {"update", "create"}
        /\ Goes(h, [op |-> op, at |-> "lock", user |-> u, sess |-> NoOne, grant |-> NoGrant])
        /\ UNCHANGED <<accounts, grants, factors, unfinished>>

\* Where a handler goes on once it holds the mutex.
Within(op) ==
    CASE op \in {"update", "create"} -> "row"
      [] op = "enroll" -> "pending"
      [] op = "confirm" -> "confirm"
      [] op = "disable" -> "code"
      [] op = "mint" -> "count"

\* Mutant: the tokens are counted before the mutex is asked for.
LockUnlessMint(h) ==
    /\ handler[h].at = "lock" /\ (handler[h].op = "mint" \/ writes = NoOne)
    /\ writes' = IF handler[h].op = "mint" THEN writes ELSE h
    /\ handler' = [handler EXCEPT ![h] = Now(h, Within(handler[h].op))]
    /\ UNCHANGED <<accounts, grants, factors, unfinished>>

Lock(h) ==
    /\ handler[h].at = "lock" /\ writes = NoOne
    /\ writes' = h
    /\ handler' = [handler EXCEPT ![h] = Now(h, Within(handler[h].op))]
    /\ UNCHANGED <<accounts, grants, factors, unfinished>>

Logout(h) ==
    LET s == handler[h].sess
    IN  /\ At(h, "logout", "end")
        /\ session' = [session EXCEPT ![s] = NoGrant]
        /\ Ends(h)
        /\ UNCHANGED <<accounts, token, factors, unfinished>>

-----------------------------------------------------------------------------
(* Changes of access: by the owner, who gave the current password, and by an administrator. *)

NewAccess(u, on) ==
    /\ access[u] < MaxAccess
    /\ access' = [access EXCEPT ![u] = @ + 1]
    /\ enabled' = [enabled EXCEPT ![u] = on]

\* Mutant: change_password revokes the tokens and leaves the sessions alone.
WritePasswordOnly(h) ==
    LET u == handler[h].user
    IN  /\ handler[h].at = "password"
        /\ NewAccess(u, enabled[u])
        /\ Goes(h, Now(h, IF handler[h].op = "change" THEN "tokens" ELSE "sessions"))
        /\ UNCHANGED <<grants, factors, unfinished>>

\* change_password writes the hash. update_user writes it after the rest of the row.
WritePassword(h) ==
    LET u == handler[h].user
    IN  /\ handler[h].at = "password"
        /\ NewAccess(u, enabled[u])
        /\ Goes(h, Now(h, "sessions"))
        /\ UNCHANGED <<grants, factors, unfinished>>

\* update_user writes addresses and switch of an account that is there, and goes on with the
\* password if it was given one.
UpdateRow(h, on) ==
    LET u == handler[h].user
    IN  /\ At(h, "update", "row")
        /\ access[u] # 0
        /\ NewAccess(u, on)
        /\ \E at \in {"password", "sessions"} : Goes(h, Now(h, at))
        /\ UNCHANGED <<grants, factors, unfinished>>

\* Both delete the sessions then; update_user asks the agent to stop the IDEs of an account it
\* switched off, and ends whatever the answer.
DeleteSessions(h) ==
    LET u == handler[h].user
    IN  /\ handler[h].at = "sessions"
        /\ session' = SessionsBut(u, NoOne)
        /\ Overtakes(h, "login", u, IF handler[h].op = "change" THEN Now(h, "tokens") ELSE Idle)
        /\ unfinished' = [unfinished EXCEPT ![u] = @ \ {"sessions"}]
        /\ UNCHANGED <<accounts, token, factors>>

\* change_password revokes the tokens last.
RevokeTokens(h) ==
    LET u == handler[h].user
    IN  /\ handler[h].at = "tokens"
        /\ token' = [t \in Tokens |-> IF token[t].user = u THEN NoGrant ELSE token[t]]
        /\ Overtakes(h, "mint", u, Idle)
        /\ unfinished' = [unfinished EXCEPT ![u] = @ \ {"tokens"}]
        /\ UNCHANGED <<accounts, session, factors>>

\* create_user, after its tenant was made on the host.
CreateUser(h) ==
    LET u == handler[h].user
    IN  /\ At(h, "create", "row")
        /\ access[u] = 0
        /\ access' = [access EXCEPT ![u] = 1]
        /\ Ends(h)
        /\ UNCHANGED <<enabled, grants, factors, unfinished>>

-----------------------------------------------------------------------------
(* The second factor. All but its use are under the mutex, and each transaction is one step. *)

Enroll(h) ==
    LET u == handler[h].user
    IN  /\ At(h, "enroll", "pending")
        /\ mfa[u].secret = 0 /\ drawn < MaxSecrets
        /\ drawn' = drawn + 1
        /\ pending' = [pending EXCEPT ![u] = drawn']
        /\ Ends(h)
        /\ UNCHANGED <<accounts, grants, mfa, recovery, accepted, unfinished>>

\* confirm, in one transaction: the code counts as the last one, codes are the recovery codes,
\* and of the sessions the rows remain.
Confirms(h, k, codes, rows) ==
    LET u == handler[h].user
        s == handler[h].sess
    IN  /\ At(h, "confirm", "confirm")
        /\ pending[u] # 0
        /\ mfa' = [mfa EXCEPT ![u] = [secret |-> pending[u], last |-> k]]
        /\ recovery' = [recovery EXCEPT ![u] = codes]
        /\ pending' = [pending EXCEPT ![u] = 0]
        /\ Accept(<<pending[u], k>>)
        /\ session' = IF Live(s) THEN [rows EXCEPT ![s].secret = pending[u]] ELSE rows
        /\ Overtakes(h, "login", u, Idle)
        /\ UNCHANGED <<accounts, token, drawn, unfinished>>

\* Mutant: the other sessions are left alone.
ConfirmOnly(h, k) == Confirms(h, k, RecoveryCodes, session)

\* Every session but that of the request ends.
Confirm(h, k) ==
    Confirms(h, k, RecoveryCodes, SessionsBut(handler[h].user, handler[h].sess))

\* disable asks for a code like a login.
DisableCode(h) ==
    LET u == handler[h].user
    IN  /\ At(h, "disable", "code")
        /\ IF mfa[u].secret = 0 THEN UNCHANGED factors ELSE Verified(u)
        /\ Goes(h, Now(h, "clear"))
        /\ UNCHANGED <<accounts, grants, unfinished>>

Disable(h) ==
    LET u == handler[h].user
    IN  /\ At(h, "disable", "clear")
        /\ mfa' = [mfa EXCEPT ![u] = [secret |-> 0, last |-> 0]]
        /\ recovery' = [recovery EXCEPT ![u] = {}]
        /\ pending' = [pending EXCEPT ![u] = 0]
        /\ session' = SessionsBut(u, handler[h].sess)
        /\ Overtakes(h, "login", u, Idle)
        /\ UNCHANGED <<accounts, token, drawn, accepted, unfinished>>

-----------------------------------------------------------------------------
(* API tokens. *)

CountTokens(h) ==
    /\ At(h, "mint", "count")
    /\ Cardinality(Active(handler[h].user)) < TokenLimit
    /\ Goes(h, Now(h, "insert"))
    /\ UNCHANGED <<accounts, grants, factors, unfinished>>

InsertToken(h, t) ==
    /\ At(h, "mint", "insert")
    /\ token[t] = NoGrant
    /\ token' = [token EXCEPT ![t] = handler[h].grant]
    /\ Ends(h)
    /\ UNCHANGED <<accounts, session, factors, unfinished>>

RevokeToken(h, t) ==
    /\ At(h, "revoke", "end")
    /\ token[t].user = handler[h].user
    /\ token' = [token EXCEPT ![t] = NoGrant]
    /\ Ends(h)
    /\ UNCHANGED <<accounts, session, factors, unfinished>>

-----------------------------------------------------------------------------
(* What happens to requests and rows. *)

\* The client leaves, a check refuses, a statement fails: the handler ends where it is.
Drop(h) ==
    LET u == handler[h].user
    IN  /\ handler[h] # Idle
        /\ Ends(h)
        /\ unfinished' = [v \in Users |-> IF v = u THEN unfinished[v] \cup DueOf(handler[h])
                                          ELSE unfinished[v]]
        /\ UNCHANGED <<accounts, grants, factors>>

ExpireSession(s) ==
    /\ Live(s)
    /\ session' = [session EXCEPT ![s] = NoGrant]
    /\ UNCHANGED <<accounts, token, factors, writes, handler, unfinished>>

ExpireToken(t) ==
    /\ token[t] # NoGrant
    /\ token' = [token EXCEPT ![t] = NoGrant]
    /\ UNCHANGED <<accounts, session, factors, writes, handler, unfinished>>

ExpirePending(u) ==
    /\ pending[u] # 0
    /\ pending' = [pending EXCEPT ![u] = 0]
    /\ UNCHANGED <<accounts, grants, mfa, recovery, drawn, accepted, writes, handler,
                   unfinished>>

Login(h) ==
    \/ \E u \in Users : LoginRead(h, u)
    \/ LoginSecret(h) \/ LoginCode(h)
    \/ \E s \in Sessions : LoginInsert(h, s)

Ask(h) ==
    \E op \in Ops, u \in Users :
        \/ \E s \in Sessions : Authenticate(h, s, op, u)
        \/ \E t \in Tokens : AuthenticateToken(h, t, op, u)

ChangeAccess(h) ==
    \/ WritePassword(h) \/ DeleteSessions(h) \/ RevokeTokens(h) \/ CreateUser(h)
    \/ \E on \in BOOLEAN : UpdateRow(h, on)

ChangeFactor(h) ==
    \/ Enroll(h) \/ DisableCode(h) \/ Disable(h)
    \/ \E k \in Periods : Confirm(h, k)

ChangeTokens(h) ==
    \/ CountTokens(h)
    \/ \E t \in Tokens : InsertToken(h, t) \/ RevokeToken(h, t)

Next ==
    \/ \E h \in Handlers :
           \/ Login(h) \/ Ask(h) \/ Lock(h) \/ Logout(h)
           \/ ChangeAccess(h) \/ ChangeFactor(h) \/ ChangeTokens(h) \/ Drop(h)
    \/ \E s \in Sessions : ExpireSession(s)
    \/ \E t \in Tokens : ExpireToken(t)
    \/ \E u \in Users : ExpirePending(u)

Spec == Init /\ [][Next]_vars

-----------------------------------------------------------------------------
(* Type correctness. *)

TypeOK ==
    /\ access \in [Users -> Nat] /\ enabled \in [Users -> BOOLEAN]
    /\ session \in [Sessions -> Grant] /\ token \in [Tokens -> Grant]
    /\ mfa \in [Users -> [secret : 0 .. MaxSecrets, last : Periods]]
    /\ pending \in [Users -> 0 .. MaxSecrets]
    /\ recovery \in [Users -> SUBSET RecoveryCodes]
    /\ drawn \in 0 .. MaxSecrets
    /\ writes \in Handlers \cup {NoOne}
    /\ handler \in [Handlers -> Request]
    /\ accepted \in [Codes -> Nat]
    /\ unfinished \in [Users -> SUBSET {"sessions", "tokens"}]

\* A session or an API token that was granted before the last change of its account's password,
\* switch or addresses is about to be deleted by the request that made the change, unless its
\* own request was in flight when they were deleted, or the change was dropped half way.
GrantsAreCurrent ==
    /\ \A s \in Sessions : Live(s) =>
          \/ session[s].access = access[session[s].user] \/ session[s].overtaken
          \/ Due(session[s].user, "sessions")
    /\ \A t \in Tokens : token[t].user # NoOne =>
          \/ token[t].access = access[token[t].user] \/ token[t].overtaken
          \/ Due(token[t].user, "sessions") \/ Due(token[t].user, "tokens")

\* While an account has a second factor, its sessions were opened with a code of that very
\* enrolment, or were in flight when the other sessions were deleted.
SecondFactorHolds ==
    \A s \in Sessions :
        Live(s) /\ mfa[session[s].user].secret # 0 =>
            \/ session[s].secret = mfa[session[s].user].secret
            \/ session[s].overtaken

\* No step and no recovery code of an enrolment is counted twice: not by two logins at the same
\* time, nor by a login and the request that confirms or disables the second factor.
CodesCountOnce == \A c \in Codes : accepted[c] <= 1

\* An administrator never has more active tokens than the limit, however many requests create
\* them at the same time.
TokenLimitHolds == \A u \in Users : Cardinality(Active(u)) <= TokenLimit
=============================================================================
