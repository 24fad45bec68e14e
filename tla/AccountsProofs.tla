--------------------------- MODULE AccountsProofs ---------------------------
(* Proofs about the accounts, for every number of accounts, requests, sessions and tokens. *)
EXTENDS Accounts, FiniteSetTheorems, TLAPS

-----------------------------------------------------------------------------
(* The inductive invariant. *)

\* Where a request of each kind can be.
PlacesOf(op) ==
    CASE op = "none" -> {"idle"}
      [] op = "login" -> {"secret", "code", "insert"}
      [] op \in {"logout", "revoke"} -> {"end"}
      [] op = "change" -> {"password", "sessions", "tokens"}
      [] op = "update" -> {"lock", "row", "password", "sessions"}
      [] op = "create" -> {"lock", "row"}
      [] op = "enroll" -> {"lock", "pending"}
      [] op = "confirm" -> {"lock", "confirm"}
      [] op = "disable" -> {"lock", "code", "clear"}
      [] op = "mint" -> {"lock", "count", "insert"}

\* A request is about an account, what it is about to grant is granted to that account, and only
\* administrators create tokens and only users are changed by someone else.
ShapeOf(r) ==
    /\ r.at \in PlacesOf(r.op)
    /\ r.op = "none" <=> r.user = NoOne
    /\ r.op \in {"login", "mint"} => r.grant.user = r.user
    /\ r.op = "mint" => r.user \in Admins
    /\ r.op \in {"update", "create"} => r.user \notin Admins
    /\ r.op \in {"logout", "confirm", "disable"} => r.sess # NoOne

Shape == \A h \in Handlers : ShapeOf(handler[h])

\* The places that are reached with the mutex.
Locked(r) ==
    \/ r.at \in {"row", "pending", "confirm", "clear", "count"}
    \/ r.op = "update" /\ r.at \in {"password", "sessions"}
    \/ r.op = "disable" /\ r.at = "code"
    \/ r.op = "mint" /\ r.at = "insert"

Mutex == \A h \in Handlers : Locked(handler[h]) => writes = h

\* A request that ends or confirms goes back to the session it was made with, or to none.
SameSession ==
    \A h \in Handlers : handler[h].sess # NoOne =>
        session[handler[h].sess].user \in {handler[h].user, NoOne}

\* Who has a session was created, and who has a token is an administrator.
Holders ==
    /\ \A s \in Sessions : Live(s) => access[session[s].user] # 0
    /\ \A h \in Handlers : handler[h].op = "login" => access[handler[h].user] # 0
    /\ \A t \in Tokens : token[t].user \in Admins \/ token[t] = NoGrant

\* What GrantsAreCurrent says of rows holds of those that are about to be inserted.
Current(g) == g.access = access[g.user] \/ g.overtaken \/ Due(g.user, "sessions")
CurrentToken(g) == Current(g) \/ Due(g.user, "tokens")

InFlightCurrent ==
    \A h \in Handlers :
        /\ handler[h].op = "login" => Current(handler[h].grant)
        /\ handler[h].op = "mint" => CurrentToken(handler[h].grant)

\* And what SecondFactorHolds says.
InFlightSecond ==
    \A h \in Handlers :
        /\ handler[h].op = "login" /\ handler[h].at \in {"code", "insert"}
        /\ mfa[handler[h].user].secret # 0
        => \/ handler[h].grant.secret = mfa[handler[h].user].secret
           \/ handler[h].grant.overtaken

\* A secret is in one place.
OwnSecrets ==
    /\ \A u \in Users : mfa[u].secret <= drawn /\ pending[u] <= drawn
    /\ \A u, v \in Users :
           /\ u # v /\ mfa[u].secret # 0 => mfa[u].secret # mfa[v].secret
           /\ u # v /\ pending[u] # 0 => pending[u] # pending[v]
           /\ pending[u] # 0 => pending[u] # mfa[v].secret

\* Which codes can not have been accepted yet.
UnusedCodes ==
    /\ \A c \in Codes : c[1] > drawn => accepted[c] = 0
    /\ \A u \in Users, c \in Codes : c[1] = pending[u] => accepted[c] = 0
    /\ \A u \in Users, c \in Codes :
           c[1] = mfa[u].secret /\ c[2] \in recovery[u] => accepted[c] = 0
    /\ \A u \in Users, c \in Codes :
           c[1] = mfa[u].secret /\ c[2] \in Periods /\ c[2] > mfa[u].last => accepted[c] = 0
    /\ \A u \in Users : mfa[u].secret = 0 => recovery[u] = {}

\* A request that counted fewer tokens than the limit still would.
CountedTokens ==
    \A h \in Handlers : handler[h].op = "mint" /\ handler[h].at = "insert" =>
        Cardinality(Active(handler[h].user)) < TokenLimit

IInv ==
    /\ TypeOK /\ Shape /\ Mutex /\ SameSession /\ Holders
    /\ GrantsAreCurrent /\ InFlightCurrent
    /\ SecondFactorHolds /\ InFlightSecond
    /\ OwnSecrets /\ UnusedCodes /\ CodesCountOnce
    /\ TokenLimitHolds /\ CountedTokens

-----------------------------------------------------------------------------
(* What a step does to the requests. *)

\* r became q, and at most what it was about to grant was overtaken.
Same(r, q) ==
    /\ q.op = r.op /\ q.at = r.at /\ q.user = r.user /\ q.sess = r.sess
    /\ q.grant.user = r.grant.user /\ q.grant.access = r.grant.access
    /\ q.grant.secret = r.grant.secret
    /\ r.grant.overtaken => q.grant.overtaken

Others(h) == \A g \in Handlers \ {h} : Same(handler[g], handler'[g])

\* Only the place of h changed.
MovesTo(h, at) ==
    /\ handler'[h].op = handler[h].op /\ handler'[h].at = at
    /\ handler'[h].user = handler[h].user /\ handler'[h].sess = handler[h].sess
    /\ handler'[h].grant = handler[h].grant

IsRequests(f) == f \in [Handlers -> Request]

LEMMA IdleType == Idle \in Request /\ NoGrant \in Grant
BY DEF Idle, Request, NoGrant, Grant, Ops, Places

LEMMA GoesTo ==
    ASSUME TypeOK, NEW h \in Handlers, NEW r \in Request, Goes(h, r)
    PROVE  IsRequests(handler') /\ handler'[h] = r /\ Others(h) /\ writes' = writes
BY DEF TypeOK, Goes, IsRequests, Others, Same

LEMMA NowFields ==
    ASSUME TypeOK, NEW h \in Handlers, NEW at \in Places
    PROVE  /\ Now(h, at) \in Request
           /\ Now(h, at).op = handler[h].op /\ Now(h, at).at = at
           /\ Now(h, at).user = handler[h].user /\ Now(h, at).sess = handler[h].sess
           /\ Now(h, at).grant = handler[h].grant
BY DEF TypeOK, Now, Request

LEMMA GoesNow ==
    ASSUME TypeOK, NEW h \in Handlers, NEW at \in Places, Goes(h, Now(h, at))
    PROVE  IsRequests(handler') /\ MovesTo(h, at) /\ Others(h) /\ writes' = writes
BY GoesTo, NowFields DEF MovesTo

\* What every handler that ends leaves of the mutex.
Frees(h) ==
    /\ writes = h => writes' = NoOne
    /\ writes # h => writes' = writes

LEMMA EndsTo ==
    ASSUME TypeOK, NEW h \in Handlers, Ends(h)
    PROVE  IsRequests(handler') /\ handler'[h] = Idle /\ Others(h) /\ Frees(h)
BY IdleType DEF TypeOK, Ends, IsRequests, Others, Same, Frees

LEMMA PassedSame ==
    ASSUME NEW r \in Request, NEW op, NEW u
    PROVE  /\ Passed(r, op, u) \in Request
           /\ Same(r, Passed(r, op, u))
           /\ r.op = op /\ r.user = u => Passed(r, op, u).grant.overtaken
BY DEF Request, Grant, Passed, Same

\* What is deleted overtakes the requests that are about to grant it.
LEMMA OvertakesTo ==
    ASSUME TypeOK, NEW h \in Handlers, NEW op, NEW u, NEW r \in Request, Overtakes(h, op, u, r)
    PROVE  /\ IsRequests(handler') /\ handler'[h] = r /\ Others(h)
           /\ \A g \in Handlers \ {h} : handler[g].op = op /\ handler[g].user = u =>
                  handler'[g].grant.overtaken
           /\ r = Idle => Frees(h)
           /\ r # Idle => writes' = writes
<1> DEFINE P(g) == Passed(handler[g], op, u)
<1>1. \A g \in Handlers : handler[g] \in Request
  BY DEF TypeOK
<1>2. \A g \in Handlers :
          /\ P(g) \in Request /\ Same(handler[g], P(g))
          /\ handler[g].op = op /\ handler[g].user = u => P(g).grant.overtaken
  BY <1>1, PassedSame
<1>3. handler' = [g \in Handlers |-> IF g = h THEN r ELSE P(g)]
  BY DEF Overtakes
<1>4. r = Idle => Frees(h)
  BY DEF Overtakes, Frees
<1>5. r # Idle => writes' = writes
  BY DEF Overtakes
<1> HIDE DEF P
<1> QED
  BY <1>2, <1>3, <1>4, <1>5 DEF IsRequests, Others

-----------------------------------------------------------------------------
(* What each action does, without its EXCEPTs. *)

\* A step that only concerns the requests.
Quiet == UNCHANGED <<accounts, grants, factors, unfinished>>

LEMMA QuietTypes ==
    ASSUME TypeOK, Quiet, IsRequests(handler'), writes' \in Handlers \cup {NoOne}
    PROVE  TypeOK'
BY DEF TypeOK, Quiet, accounts, grants, factors, IsRequests, Codes, Grant

LEMMA LoginReadBecomes ==
    ASSUME TypeOK, NEW h \in Handlers, NEW u \in Users, LoginRead(h, u)
    PROVE  /\ TypeOK' /\ Others(h) /\ writes' = writes /\ Quiet
           /\ handler[h] = Idle /\ access[u] # 0
           /\ handler'[h].op = "login" /\ handler'[h].at = "secret" /\ handler'[h].user = u
           /\ handler'[h].sess = NoOne /\ handler'[h].grant.user = u
           /\ handler'[h].grant.access = access[u]
<1> DEFINE g == [NoGrant EXCEPT !.user = u, !.access = access[u]]
           r == [Idle EXCEPT !.op = "login", !.at = "secret", !.user = u, !.grant = g]
<1>1. g \in Grant /\ g.user = u /\ g.access = access[u]
  BY DEF NoGrant, Grant, TypeOK
<1>2. /\ r \in Request /\ r.op = "login" /\ r.at = "secret" /\ r.user = u /\ r.sess = NoOne
      /\ r.grant = g
  <2> HIDE DEF g
  <2> QED BY <1>1 DEF Idle, Request, Ops, Places
<1>3. Goes(h, r) /\ handler[h] = Idle /\ access[u] # 0 /\ Quiet
  BY DEF LoginRead, Quiet
<1> HIDE DEF g, r
<1>4. IsRequests(handler') /\ handler'[h] = r /\ Others(h) /\ writes' = writes
  BY <1>2, <1>3, GoesTo
<1>5. TypeOK'
  <2>1. writes' \in Handlers \cup {NoOne}
    BY <1>4 DEF TypeOK
  <2> QED BY <1>3, <1>4, <2>1, QuietTypes
<1> QED
  BY <1>1, <1>2, <1>3, <1>4, <1>5

\* A request is made by or for an account.
LEMMA HasUser ==
    ASSUME TypeOK, Shape, NEW h \in Handlers, handler[h].op # "none"
    PROVE  handler[h].user \in Users
BY DEF TypeOK, Shape, ShapeOf, Request

LEMMA LoginSecretBecomes ==
    ASSUME TypeOK, Shape, NEW h \in Handlers, LoginSecret(h)
    PROVE  /\ TypeOK' /\ Others(h) /\ writes' = writes /\ Quiet
           /\ handler[h].op = "login" /\ handler[h].at = "secret"
           /\ handler'[h].op = "login" /\ handler'[h].at \in {"code", "insert"}
           /\ handler'[h].user = handler[h].user /\ handler'[h].sess = handler[h].sess
           /\ handler'[h].grant.user = handler[h].grant.user
           /\ handler'[h].grant.access = handler[h].grant.access
           /\ handler'[h].grant.overtaken = handler[h].grant.overtaken
           /\ handler'[h].grant.secret = mfa[handler[h].user].secret
<1> DEFINE secret == mfa[handler[h].user].secret
           at == IF secret = 0 THEN "insert" ELSE "code"
           r == [handler[h] EXCEPT !.grant.secret = secret, !.at = at]
<1>1. handler[h] \in Request /\ handler[h].grant \in Grant
  BY DEF TypeOK, Request
<1>2. handler[h].op = "login" /\ handler[h].at = "secret" /\ Goes(h, r) /\ Quiet
  BY DEF LoginSecret, At, Quiet
<1>3. secret \in Nat
  BY <1>2, HasUser DEF TypeOK
<1>4. at \in {"insert", "code"}
  OBVIOUS
<1>5. /\ r \in Request /\ r.op = handler[h].op /\ r.at = at
      /\ r.user = handler[h].user /\ r.sess = handler[h].sess
      /\ r.grant.user = handler[h].grant.user /\ r.grant.access = handler[h].grant.access
      /\ r.grant.secret = secret /\ r.grant.overtaken = handler[h].grant.overtaken
  <2> HIDE DEF secret, at
  <2> QED BY <1>1, <1>3, <1>4 DEF Request, Grant, Places
<1> HIDE DEF r, at
<1>6. IsRequests(handler') /\ handler'[h] = r /\ Others(h) /\ writes' = writes
  BY <1>2, <1>5, GoesTo
<1>7. TypeOK'
  <2>1. writes' \in Handlers \cup {NoOne}
    BY <1>6 DEF TypeOK
  <2> QED BY <1>2, <1>6, <2>1, QuietTypes
<1> QED
  BY <1>2, <1>4, <1>5, <1>6, <1>7

LEMMA AuthenticateBecomes ==
    ASSUME TypeOK, NEW h \in Handlers, NEW s \in Sessions, NEW op \in Ops, NEW u \in Users,
           Authenticate(h, s, op, u)
    PROVE  /\ TypeOK' /\ Others(h) /\ writes' = writes /\ Quiet
           /\ handler[h] = Idle /\ MayAsk(session[s], op, u) /\ Live(s)
           /\ handler'[h].op = op /\ handler'[h].at = FirstPlace(op) /\ handler'[h].user = u
           /\ handler'[h].sess = IF op \in {"logout", "confirm", "disable"} THEN s ELSE NoOne
           /\ op = "mint" => /\ handler'[h].grant.user = session[s].user
                             /\ handler'[h].grant.access = session[s].access
                             /\ handler'[h].grant.overtaken = session[s].overtaken
<1> DEFINE g == IF op = "mint" THEN [session[s] EXCEPT !.secret = 0] ELSE NoGrant
           own == IF op \in {"logout", "confirm", "disable"} THEN s ELSE NoOne
           r == [op |-> op, at |-> FirstPlace(op), user |-> u, sess |-> own, grant |-> g]
<1>1. session[s] \in Grant
  BY DEF TypeOK
<1>2. /\ g \in Grant
      /\ op = "mint" => /\ g.user = session[s].user /\ g.access = session[s].access
                        /\ g.overtaken = session[s].overtaken
  BY <1>1, IdleType DEF Grant
<1>3. FirstPlace(op) \in Places
  BY DEF FirstPlace, Places
<1>4. own \in Sessions \cup {NoOne}
  OBVIOUS
<1>5. /\ r \in Request /\ r.op = op /\ r.at = FirstPlace(op) /\ r.user = u /\ r.sess = own
      /\ r.grant = g
  <2> HIDE DEF g, own
  <2> QED BY <1>2, <1>3, <1>4 DEF Request
<1>6. /\ handler[h] = Idle /\ Live(s) /\ MayAsk(session[s], op, u)
      /\ Goes(h, r) /\ Quiet
  BY DEF Authenticate, Quiet
<1> HIDE DEF g, r
<1>7. IsRequests(handler') /\ handler'[h] = r /\ Others(h) /\ writes' = writes
  BY <1>5, <1>6, GoesTo
<1>8. TypeOK'
  <2>1. writes' \in Handlers \cup {NoOne}
    BY <1>7 DEF TypeOK
  <2> QED BY <1>6, <1>7, <2>1, QuietTypes
<1> QED
  BY <1>2, <1>5, <1>6, <1>7, <1>8

LEMMA AuthenticateTokenBecomes ==
    ASSUME TypeOK, NEW h \in Handlers, NEW t \in Tokens, NEW op \in Ops, NEW u \in Users,
           AuthenticateToken(h, t, op, u)
    PROVE  /\ TypeOK' /\ Others(h) /\ writes' = writes /\ Quiet
           /\ handler[h] = Idle /\ MayAsk(token[t], op, u)
           /\ handler'[h].op = op /\ op \in {"update", "create"}
           /\ handler'[h].at = "lock" /\ handler'[h].user = u /\ handler'[h].sess = NoOne
<1> DEFINE r == [op |-> op, at |-> "lock", user |-> u, sess |-> NoOne, grant |-> NoGrant]
<1>1. r \in Request /\ r.op = op /\ r.at = "lock" /\ r.user = u /\ r.sess = NoOne
  BY IdleType DEF Request, Places
<1>2. /\ handler[h] = Idle /\ op \in {"update", "create"} /\ MayAsk(token[t], op, u)
      /\ Goes(h, r) /\ Quiet
  BY DEF AuthenticateToken, Quiet
<1> HIDE DEF r
<1>3. IsRequests(handler') /\ handler'[h] = r /\ Others(h) /\ writes' = writes
  BY <1>1, <1>2, GoesTo
<1>4. TypeOK'
  <2>1. writes' \in Handlers \cup {NoOne}
    BY <1>3 DEF TypeOK
  <2> QED BY <1>2, <1>3, <2>1, QuietTypes
<1> QED
  BY <1>1, <1>2, <1>3, <1>4

LEMMA LockBecomes ==
    ASSUME TypeOK, Shape, NEW h \in Handlers, Lock(h)
    PROVE  /\ TypeOK' /\ Others(h) /\ writes = NoOne /\ writes' = h /\ Quiet
           /\ handler[h].at = "lock" /\ MovesTo(h, Within(handler[h].op))
           /\ handler[h].op \in {"update", "create", "enroll", "confirm", "disable", "mint"}
<1>1. handler[h].at = "lock" /\ writes = NoOne /\ writes' = h /\ Quiet
  BY DEF Lock, Quiet
<1>2. handler[h].op \in {"update", "create", "enroll", "confirm", "disable", "mint"}
  <2>1. handler[h].op \in Ops /\ handler[h].at \in PlacesOf(handler[h].op)
    BY DEF TypeOK, Request, Shape, ShapeOf
  <2> QED BY <1>1, <2>1 DEF Ops, PlacesOf
<1>3. Within(handler[h].op) \in Places
  BY <1>2 DEF Within, Places
<1>4. handler' = [handler EXCEPT ![h] = Now(h, Within(handler[h].op))]
  BY DEF Lock
<1>5. IsRequests(handler') /\ MovesTo(h, Within(handler[h].op)) /\ Others(h)
  <2>1. /\ Now(h, Within(handler[h].op)) \in Request
        /\ Now(h, Within(handler[h].op)).op = handler[h].op
        /\ Now(h, Within(handler[h].op)).at = Within(handler[h].op)
        /\ Now(h, Within(handler[h].op)).user = handler[h].user
        /\ Now(h, Within(handler[h].op)).sess = handler[h].sess
        /\ Now(h, Within(handler[h].op)).grant = handler[h].grant
    BY <1>3, NowFields
  <2> QED BY <1>4, <2>1 DEF TypeOK, IsRequests, MovesTo, Others, Same
<1>6. TypeOK'
  BY <1>1, <1>5, QuietTypes
<1> QED
  BY <1>1, <1>2, <1>5, <1>6

LEMMA CountTokensBecomes ==
    ASSUME TypeOK, NEW h \in Handlers, CountTokens(h)
    PROVE  /\ TypeOK' /\ Others(h) /\ writes' = writes /\ Quiet
           /\ handler[h].op = "mint" /\ handler[h].at = "count" /\ MovesTo(h, "insert")
           /\ Cardinality(Active(handler[h].user)) < TokenLimit
<1>1. /\ Goes(h, Now(h, "insert")) /\ Quiet /\ handler[h].op = "mint" /\ handler[h].at = "count"
      /\ Cardinality(Active(handler[h].user)) < TokenLimit
  BY DEF CountTokens, Quiet, At
<1>2. "insert" \in Places
  BY DEF Places
<1>3. IsRequests(handler') /\ MovesTo(h, "insert") /\ Others(h) /\ writes' = writes
  BY <1>1, <1>2, GoesNow
<1>4. TypeOK'
  <2>1. writes' \in Handlers \cup {NoOne}
    BY <1>3 DEF TypeOK
  <2> QED BY <1>1, <1>3, <2>1, QuietTypes
<1> QED
  BY <1>1, <1>3, <1>4

\* The types of the tables.
AccountsTyped == access \in [Users -> Nat] /\ enabled \in [Users -> BOOLEAN]
GrantsTyped == session \in [Sessions -> Grant] /\ token \in [Tokens -> Grant]
FactorsTyped ==
    /\ mfa \in [Users -> [secret : 0 .. MaxSecrets, last : Periods]]
    /\ pending \in [Users -> 0 .. MaxSecrets]
    /\ recovery \in [Users -> SUBSET RecoveryCodes]
    /\ drawn \in 0 .. MaxSecrets
    /\ accepted \in [Codes -> Nat]
UnfinishedTyped == unfinished \in [Users -> SUBSET {"sessions", "tokens"}]
MutexTyped == writes \in Handlers \cup {NoOne}

LEMMA TypeParts ==
    /\ TypeOK <=> /\ AccountsTyped /\ GrantsTyped /\ FactorsTyped /\ UnfinishedTyped
                  /\ MutexTyped /\ IsRequests(handler)
    /\ TypeOK' <=> /\ AccountsTyped' /\ GrantsTyped' /\ FactorsTyped' /\ UnfinishedTyped'
                   /\ MutexTyped' /\ IsRequests(handler')
BY DEF TypeOK, AccountsTyped, GrantsTyped, FactorsTyped, UnfinishedTyped, MutexTyped, IsRequests

\* What a step leaves alone keeps its type.
LEMMA TypesStay ==
    ASSUME TypeOK
    PROVE  /\ UNCHANGED accounts => AccountsTyped'
           /\ UNCHANGED grants => GrantsTyped'
           /\ UNCHANGED session => session' \in [Sessions -> Grant]
           /\ UNCHANGED token => token' \in [Tokens -> Grant]
           /\ UNCHANGED factors => FactorsTyped'
           /\ UNCHANGED unfinished => UnfinishedTyped'
           /\ writes' = writes => MutexTyped'
           /\ \A h \in Handlers : Frees(h) => MutexTyped'
BY TypeParts DEF AccountsTyped, GrantsTyped, FactorsTyped, UnfinishedTyped, MutexTyped, accounts,
   grants, factors, Codes, Frees

LEMMA AcceptType ==
    ASSUME TypeOK, NEW c, Accept(c)
    PROVE  /\ accepted' \in [Codes -> Nat]
           /\ c \in Codes => accepted'[c] = accepted[c] + 1
           /\ \A d \in Codes : d # c => accepted'[d] = accepted[d]
<1>1. accepted \in [Codes -> Nat] /\ accepted' = [accepted EXCEPT ![c] = @ + 1]
  BY DEF TypeOK, Accept
<1>2. \A d \in Codes : accepted[d] \in Nat /\ accepted[d] + 1 \in Nat
  BY <1>1
<1>3. /\ DOMAIN accepted' = Codes
      /\ \A d \in Codes : accepted'[d] = IF d = c THEN accepted[d] + 1 ELSE accepted[d]
      /\ accepted' = [d \in Codes |-> accepted'[d]]
  BY <1>1, Zenon
<1> QED
  BY <1>2, <1>3

LEMMA VerifiedTypes ==
    ASSUME TypeOK, NEW u \in Users, Verified(u)
    PROVE  /\ FactorsTyped'
           /\ \A v \in Users : mfa'[v].secret = mfa[v].secret
           /\ pending' = pending /\ drawn' = drawn
<1>1. CASE \E k \in Periods : CountStep(u, k)
  <2>1. PICK k \in Periods : CountStep(u, k)
    BY <1>1
  <2>2. accepted' \in [Codes -> Nat]
    BY <2>1, AcceptType DEF CountStep
  <2>3. /\ mfa' = [mfa EXCEPT ![u].last = k]
        /\ pending' = pending /\ drawn' = drawn /\ recovery' = recovery
    BY <2>1 DEF CountStep
  <2>4. /\ mfa' \in [Users -> [secret : 0 .. MaxSecrets, last : Periods]]
        /\ \A v \in Users : mfa'[v].secret = mfa[v].secret
    BY <2>3 DEF TypeOK
  <2> QED
    BY <2>2, <2>3, <2>4 DEF TypeOK, FactorsTyped
<1>2. CASE \E c \in RecoveryCodes : UseRecovery(u, c)
  <2>1. PICK c \in RecoveryCodes : UseRecovery(u, c)
    BY <1>2
  <2>2. accepted' \in [Codes -> Nat]
    BY <2>1, AcceptType DEF UseRecovery
  <2>3. /\ recovery' = [recovery EXCEPT ![u] = @ \ {c}]
        /\ pending' = pending /\ drawn' = drawn /\ mfa' = mfa
    BY <2>1 DEF UseRecovery
  <2>4. recovery' \in [Users -> SUBSET RecoveryCodes]
    BY <2>3 DEF TypeOK
  <2> QED
    BY <2>2, <2>3, <2>4 DEF TypeOK, FactorsTyped
<1> QED
  BY <1>1, <1>2 DEF Verified

LEMMA LoginCodeBecomes ==
    ASSUME TypeOK, Shape, NEW h \in Handlers, LoginCode(h)
    PROVE  /\ TypeOK' /\ Others(h) /\ writes' = writes
           /\ UNCHANGED <<accounts, grants, unfinished>>
           /\ handler[h].op = "login" /\ handler[h].at = "code" /\ MovesTo(h, "insert")
           /\ Verified(handler[h].user)
<1>1. /\ Goes(h, Now(h, "insert")) /\ handler[h].op = "login" /\ handler[h].at = "code"
      /\ Verified(handler[h].user) /\ UNCHANGED <<accounts, grants, unfinished>>
  BY DEF LoginCode, At
<1>2. "insert" \in Places
  BY DEF Places
<1>3. IsRequests(handler') /\ MovesTo(h, "insert") /\ Others(h) /\ writes' = writes
  BY <1>1, <1>2, GoesNow
<1>4. TypeOK'
  BY <1>1, <1>3, HasUser, VerifiedTypes, TypesStay, TypeParts
<1> QED
  BY <1>1, <1>3, <1>4

LEMMA DisableCodeBecomes ==
    ASSUME TypeOK, Shape, NEW h \in Handlers, DisableCode(h)
    PROVE  /\ TypeOK' /\ Others(h) /\ writes' = writes
           /\ UNCHANGED <<accounts, grants, unfinished>>
           /\ handler[h].op = "disable" /\ handler[h].at = "code" /\ MovesTo(h, "clear")
           /\ Verified(handler[h].user) \/ UNCHANGED factors
<1>1. /\ Goes(h, Now(h, "clear")) /\ handler[h].op = "disable" /\ handler[h].at = "code"
      /\ Verified(handler[h].user) \/ UNCHANGED factors
      /\ UNCHANGED <<accounts, grants, unfinished>>
  BY DEF DisableCode, At
<1>2. "clear" \in Places
  BY DEF Places
<1>3. IsRequests(handler') /\ MovesTo(h, "clear") /\ Others(h) /\ writes' = writes
  BY <1>1, <1>2, GoesNow
<1>4. TypeOK'
  BY <1>1, <1>3, HasUser, VerifiedTypes, TypesStay, TypeParts
<1> QED
  BY <1>1, <1>3, <1>4

LEMMA LoginInsertBecomes ==
    ASSUME TypeOK, Shape, NEW h \in Handlers, NEW s \in Sessions, LoginInsert(h, s)
    PROVE  /\ TypeOK' /\ Others(h) /\ Frees(h)
           /\ UNCHANGED <<accounts, token, factors, unfinished>>
           /\ handler[h].op = "login" /\ handler[h].at = "insert" /\ handler'[h] = Idle
           /\ ~Live(s) /\ \A g \in Handlers : handler[g].sess # s
           /\ session'[s] = handler[h].grant
           /\ \A r \in Sessions \ {s} : session'[r] = session[r]
<1>1. /\ Ends(h) /\ UNCHANGED <<accounts, token, factors, unfinished>>
      /\ handler[h].op = "login" /\ handler[h].at = "insert"
      /\ ~Live(s) /\ \A g \in Handlers : handler[g].sess # s
      /\ session' = [session EXCEPT ![s] = handler[h].grant]
  BY DEF LoginInsert, At
<1>2. IsRequests(handler') /\ handler'[h] = Idle /\ Others(h) /\ Frees(h)
  BY <1>1, EndsTo
<1>3. /\ session' \in [Sessions -> Grant] /\ session'[s] = handler[h].grant
      /\ \A r \in Sessions \ {s} : session'[r] = session[r]
  BY <1>1 DEF TypeOK, Request
<1>4. GrantsTyped'
  BY <1>1, <1>3, TypesStay DEF GrantsTyped
<1>5. TypeOK'
  BY <1>1, <1>2, <1>4, TypesStay, TypeParts
<1> QED
  BY <1>1, <1>2, <1>3, <1>5

LEMMA LogoutBecomes ==
    ASSUME TypeOK, Shape, NEW h \in Handlers, Logout(h)
    PROVE  /\ TypeOK' /\ Others(h) /\ Frees(h)
           /\ UNCHANGED <<accounts, token, factors, unfinished>>
           /\ handler[h].op = "logout" /\ handler[h].at = "end" /\ handler'[h] = Idle
           /\ \A r \in Sessions : session'[r] \in {session[r], NoGrant}
<1>1. /\ Ends(h) /\ UNCHANGED <<accounts, token, factors, unfinished>>
      /\ handler[h].op = "logout" /\ handler[h].at = "end"
      /\ session' = [session EXCEPT ![handler[h].sess] = NoGrant]
  BY DEF Logout, At
<1>2. IsRequests(handler') /\ handler'[h] = Idle /\ Others(h) /\ Frees(h)
  BY <1>1, EndsTo
<1>3. /\ session' \in [Sessions -> Grant]
      /\ \A r \in Sessions : session'[r] \in {session[r], NoGrant}
  BY <1>1, IdleType DEF TypeOK
<1>4. GrantsTyped'
  BY <1>1, <1>3, TypesStay DEF GrantsTyped
<1>5. TypeOK'
  BY <1>1, <1>2, <1>4, TypesStay, TypeParts
<1> QED
  BY <1>1, <1>2, <1>3, <1>5

LEMMA NewAccessBecomes ==
    ASSUME TypeOK, NEW u \in Users, NEW on \in BOOLEAN, NewAccess(u, on)
    PROVE  /\ AccountsTyped' /\ access'[u] # 0
           /\ \A v \in Users \ {u} : access'[v] = access[v]
BY DEF TypeOK, NewAccess, AccountsTyped

LEMMA WritePasswordBecomes ==
    ASSUME TypeOK, Shape, NEW h \in Handlers, WritePassword(h)
    PROVE  /\ TypeOK' /\ Others(h) /\ writes' = writes
           /\ UNCHANGED <<grants, factors, unfinished>>
           /\ handler[h].op \in {"change", "update"} /\ handler[h].at = "password"
           /\ MovesTo(h, "sessions") /\ handler[h].user \in Users
           /\ access'[handler[h].user] # 0
           /\ \A v \in Users \ {handler[h].user} : access'[v] = access[v]
<1>1. /\ Goes(h, Now(h, "sessions")) /\ handler[h].at = "password"
      /\ NewAccess(handler[h].user, enabled[handler[h].user])
      /\ UNCHANGED <<grants, factors, unfinished>>
  BY DEF WritePassword
<1>2. handler[h].op \in {"change", "update"}
  <2>1. handler[h].op \in Ops /\ handler[h].at \in PlacesOf(handler[h].op)
    BY DEF TypeOK, Request, Shape, ShapeOf
  <2> QED BY <1>1, <2>1 DEF Ops, PlacesOf
<1>3. handler[h].user \in Users /\ enabled[handler[h].user] \in BOOLEAN
  BY <1>2, HasUser DEF TypeOK
<1>4. "sessions" \in Places
  BY DEF Places
<1>5. IsRequests(handler') /\ MovesTo(h, "sessions") /\ Others(h) /\ writes' = writes
  BY <1>1, <1>4, GoesNow
<1>6. /\ AccountsTyped' /\ access'[handler[h].user] # 0
      /\ \A v \in Users \ {handler[h].user} : access'[v] = access[v]
  BY <1>1, <1>3, NewAccessBecomes
<1>7. TypeOK'
  BY <1>1, <1>5, <1>6, TypesStay, TypeParts
<1> QED
  BY <1>1, <1>2, <1>3, <1>5, <1>6, <1>7

LEMMA UpdateRowBecomes ==
    ASSUME TypeOK, Shape, NEW h \in Handlers, NEW on \in BOOLEAN, UpdateRow(h, on)
    PROVE  /\ TypeOK' /\ Others(h) /\ writes' = writes
           /\ UNCHANGED <<grants, factors, unfinished>>
           /\ handler[h].op = "update" /\ handler[h].at = "row"
           /\ MovesTo(h, "password") \/ MovesTo(h, "sessions")
           /\ handler[h].user \in Users
           /\ access'[handler[h].user] # 0
           /\ \A v \in Users \ {handler[h].user} : access'[v] = access[v]
<1>1. /\ \E at \in {"password", "sessions"} : Goes(h, Now(h, at))
      /\ handler[h].op = "update" /\ handler[h].at = "row"
      /\ NewAccess(handler[h].user, on)
      /\ UNCHANGED <<grants, factors, unfinished>>
  BY DEF UpdateRow, At
<1>2. PICK at \in {"password", "sessions"} : Goes(h, Now(h, at))
  BY <1>1
<1>3. handler[h].user \in Users
  BY <1>1, HasUser
<1>4. at \in Places
  BY DEF Places
<1>5. IsRequests(handler') /\ MovesTo(h, at) /\ Others(h) /\ writes' = writes
  BY <1>2, <1>4, GoesNow
<1>6. /\ AccountsTyped' /\ access'[handler[h].user] # 0
      /\ \A v \in Users \ {handler[h].user} : access'[v] = access[v]
  BY <1>1, <1>3, NewAccessBecomes
<1>7. TypeOK'
  BY <1>1, <1>5, <1>6, TypesStay, TypeParts
<1> QED
  BY <1>1, <1>2, <1>3, <1>5, <1>6, <1>7

LEMMA SessionsButBecomes ==
    ASSUME TypeOK, NEW u, NEW kept
    PROVE  /\ SessionsBut(u, kept) \in [Sessions -> Grant]
           /\ \A s \in Sessions :
                  /\ SessionsBut(u, kept)[s] \in {session[s], NoGrant}
                  /\ session[s].user = u /\ s # kept => SessionsBut(u, kept)[s] = NoGrant
BY IdleType DEF TypeOK, SessionsBut

LEMMA DeleteSessionsBecomes ==
    ASSUME TypeOK, Shape, NEW h \in Handlers, DeleteSessions(h)
    PROVE  /\ TypeOK' /\ Others(h) /\ UNCHANGED <<accounts, token, factors>>
           /\ handler[h].op \in {"change", "update"} /\ handler[h].at = "sessions"
           /\ handler[h].user \in Users
           /\ handler[h].op = "change" => MovesTo(h, "tokens") /\ writes' = writes
           /\ handler[h].op = "update" => handler'[h] = Idle /\ Frees(h)
           /\ \A g \in Handlers \ {h} :
                  handler[g].op = "login" /\ handler[g].user = handler[h].user =>
                      handler'[g].grant.overtaken
           /\ \A s \in Sessions :
                  /\ session'[s] \in {session[s], NoGrant}
                  /\ session[s].user = handler[h].user => session'[s] = NoGrant
           /\ \A v \in Users \ {handler[h].user} : unfinished'[v] = unfinished[v]
           /\ unfinished'[handler[h].user] = unfinished[handler[h].user] \ {"sessions"}
<1> DEFINE u == handler[h].user
           r == IF handler[h].op = "change" THEN Now(h, "tokens") ELSE Idle
<1>1. /\ handler[h].at = "sessions"
      /\ session' = SessionsBut(u, NoOne) /\ Overtakes(h, "login", u, r)
      /\ unfinished' = [unfinished EXCEPT ![u] = @ \ {"sessions"}]
      /\ UNCHANGED <<accounts, token, factors>>
  BY DEF DeleteSessions
<1>2. handler[h].op \in {"change", "update"}
  <2>1. handler[h].op \in Ops /\ handler[h].at \in PlacesOf(handler[h].op)
    BY DEF TypeOK, Request, Shape, ShapeOf
  <2> QED BY <1>1, <2>1 DEF Ops, PlacesOf
<1>3. u \in Users
  BY <1>2, HasUser
<1>4. /\ r \in Request
      /\ handler[h].op = "change" =>
             /\ r.op = handler[h].op /\ r.at = "tokens" /\ r.user = handler[h].user
             /\ r.sess = handler[h].sess /\ r.grant = handler[h].grant
      /\ handler[h].op = "update" => r = Idle
      /\ handler[h].op = "change" => r # Idle
  <2>1. "tokens" \in Places
    BY DEF Places
  <2> QED BY <1>2, <2>1, NowFields, IdleType DEF Idle
<1> HIDE DEF r
<1>5. /\ IsRequests(handler') /\ handler'[h] = r /\ Others(h)
      /\ \A g \in Handlers \ {h} : handler[g].op = "login" /\ handler[g].user = u =>
             handler'[g].grant.overtaken
      /\ r = Idle => Frees(h)
      /\ r # Idle => writes' = writes
  BY <1>1, <1>4, OvertakesTo
<1>6. /\ session' \in [Sessions -> Grant]
      /\ \A s \in Sessions :
             /\ session'[s] \in {session[s], NoGrant}
             /\ session[s].user = u => session'[s] = NoGrant
  BY <1>1, SessionsButBecomes, AccountsAssumption
<1>7. /\ unfinished' \in [Users -> SUBSET {"sessions", "tokens"}]
      /\ \A v \in Users \ {u} : unfinished'[v] = unfinished[v]
      /\ unfinished'[u] = unfinished[u] \ {"sessions"}
  <2> HIDE DEF u
  <2> QED BY <1>1, <1>3 DEF TypeOK
<1>8. MovesTo(h, "tokens") \/ handler[h].op = "update"
  BY <1>2, <1>4, <1>5 DEF MovesTo
<1>9. TypeOK'
  <2>1. GrantsTyped'
    BY <1>1, <1>6, TypesStay DEF GrantsTyped
  <2>2. UnfinishedTyped'
    BY <1>7 DEF UnfinishedTyped
  <2>3. MutexTyped'
    BY <1>5, TypesStay
  <2> QED BY <1>1, <1>5, <2>1, <2>2, <2>3, TypesStay, TypeParts
<1> QED
  BY <1>1, <1>2, <1>3, <1>4, <1>5, <1>6, <1>7, <1>8, <1>9

LEMMA RevokeTokensBecomes ==
    ASSUME TypeOK, Shape, NEW h \in Handlers, RevokeTokens(h)
    PROVE  /\ TypeOK' /\ Others(h) /\ Frees(h) /\ UNCHANGED <<accounts, session, factors>>
           /\ handler[h].op = "change" /\ handler[h].at = "tokens"
           /\ handler[h].user \in Users /\ handler'[h] = Idle
           /\ \A g \in Handlers \ {h} :
                  handler[g].op = "mint" /\ handler[g].user = handler[h].user =>
                      handler'[g].grant.overtaken
           /\ \A t \in Tokens :
                  /\ token'[t] \in {token[t], NoGrant}
                  /\ token[t].user = handler[h].user => token'[t] = NoGrant
           /\ \A v \in Users \ {handler[h].user} : unfinished'[v] = unfinished[v]
           /\ unfinished'[handler[h].user] = unfinished[handler[h].user] \ {"tokens"}
<1> DEFINE u == handler[h].user
<1>1. /\ handler[h].at = "tokens"
      /\ token' = [t \in Tokens |-> IF token[t].user = u THEN NoGrant ELSE token[t]]
      /\ Overtakes(h, "mint", u, Idle)
      /\ unfinished' = [unfinished EXCEPT ![u] = @ \ {"tokens"}]
      /\ UNCHANGED <<accounts, session, factors>>
  BY DEF RevokeTokens
<1>2. handler[h].op = "change"
  <2>1. handler[h].op \in Ops /\ handler[h].at \in PlacesOf(handler[h].op)
    BY DEF TypeOK, Request, Shape, ShapeOf
  <2> QED BY <1>1, <2>1 DEF Ops, PlacesOf
<1>3. u \in Users
  BY <1>2, HasUser
<1>4. /\ IsRequests(handler') /\ handler'[h] = Idle /\ Others(h) /\ Frees(h)
      /\ \A g \in Handlers \ {h} : handler[g].op = "mint" /\ handler[g].user = u =>
             handler'[g].grant.overtaken
  BY <1>1, IdleType, OvertakesTo
<1>5. /\ token' \in [Tokens -> Grant]
      /\ \A t \in Tokens :
             /\ token'[t] \in {token[t], NoGrant}
             /\ token[t].user = u => token'[t] = NoGrant
  BY <1>1, IdleType DEF TypeOK
<1>6. /\ unfinished' \in [Users -> SUBSET {"sessions", "tokens"}]
      /\ \A v \in Users \ {u} : unfinished'[v] = unfinished[v]
      /\ unfinished'[u] = unfinished[u] \ {"tokens"}
  <2> HIDE DEF u
  <2> QED BY <1>1, <1>3 DEF TypeOK
<1>7. TypeOK'
  <2>1. GrantsTyped'
    BY <1>1, <1>5, TypesStay DEF GrantsTyped
  <2>2. UnfinishedTyped'
    BY <1>6 DEF UnfinishedTyped
  <2>3. MutexTyped'
    BY <1>4, TypesStay
  <2> QED BY <1>1, <1>4, <2>1, <2>2, <2>3, TypesStay, TypeParts
<1> QED
  BY <1>1, <1>2, <1>3, <1>4, <1>5, <1>6, <1>7

LEMMA CreateUserBecomes ==
    ASSUME TypeOK, Shape, NEW h \in Handlers, CreateUser(h)
    PROVE  /\ TypeOK' /\ Others(h) /\ Frees(h) /\ UNCHANGED <<grants, factors, unfinished>>
           /\ handler[h].op = "create" /\ handler[h].at = "row" /\ handler'[h] = Idle
           /\ handler[h].user \in Users /\ access[handler[h].user] = 0
           /\ access'[handler[h].user] # 0
           /\ \A v \in Users \ {handler[h].user} : access'[v] = access[v]
<1> DEFINE u == handler[h].user
<1>1. /\ Ends(h) /\ handler[h].op = "create" /\ handler[h].at = "row"
      /\ access[u] = 0 /\ access' = [access EXCEPT ![u] = 1] /\ enabled' = enabled
      /\ UNCHANGED <<grants, factors, unfinished>>
  BY DEF CreateUser, At
<1>2. u \in Users
  BY <1>1, HasUser
<1>3. IsRequests(handler') /\ handler'[h] = Idle /\ Others(h) /\ Frees(h)
  BY <1>1, EndsTo
<1>4. /\ access' \in [Users -> Nat] /\ access'[u] # 0
      /\ \A v \in Users \ {u} : access'[v] = access[v]
  <2> HIDE DEF u
  <2> QED BY <1>1, <1>2 DEF TypeOK
<1>5. AccountsTyped'
  BY <1>1, <1>4 DEF TypeOK, AccountsTyped
<1>6. TypeOK'
  BY <1>1, <1>3, <1>5, TypesStay, TypeParts
<1> QED
  BY <1>1, <1>2, <1>3, <1>4, <1>6

LEMMA EnrollBecomes ==
    ASSUME TypeOK, Shape, NEW h \in Handlers, Enroll(h)
    PROVE  /\ TypeOK' /\ Others(h) /\ Frees(h)
           /\ UNCHANGED <<accounts, grants, mfa, recovery, accepted, unfinished>>
           /\ handler[h].op = "enroll" /\ handler[h].at = "pending" /\ handler'[h] = Idle
           /\ handler[h].user \in Users /\ drawn' = drawn + 1 /\ drawn \in Nat
           /\ pending'[handler[h].user] = drawn + 1
           /\ \A v \in Users \ {handler[h].user} : pending'[v] = pending[v]
<1> DEFINE u == handler[h].user
<1>1. /\ Ends(h) /\ handler[h].op = "enroll" /\ handler[h].at = "pending"
      /\ drawn < MaxSecrets /\ drawn' = drawn + 1 /\ pending' = [pending EXCEPT ![u] = drawn']
      /\ UNCHANGED <<accounts, grants, mfa, recovery, accepted, unfinished>>
  BY DEF Enroll, At
<1>2. u \in Users
  BY <1>1, HasUser
<1>3. IsRequests(handler') /\ handler'[h] = Idle /\ Others(h) /\ Frees(h)
  BY <1>1, EndsTo
<1>4. drawn \in 0 .. MaxSecrets /\ drawn' \in 0 .. MaxSecrets
  BY <1>1, AccountsAssumption DEF TypeOK
<1>5. /\ pending' \in [Users -> 0 .. MaxSecrets] /\ pending'[u] = drawn'
      /\ \A v \in Users \ {u} : pending'[v] = pending[v]
  <2> HIDE DEF u
  <2> QED BY <1>1, <1>2, <1>4 DEF TypeOK
<1>6. FactorsTyped'
  BY <1>1, <1>4, <1>5 DEF TypeOK, FactorsTyped, Codes
<1>7. TypeOK'
  BY <1>1, <1>3, <1>6, TypesStay, TypeParts
<1> QED
  BY <1>1, <1>2, <1>3, <1>4, <1>5, <1>7

\* What confirm does to the tables of the second factor.
LEMMA ConfirmTypes ==
    ASSUME TypeOK, NEW u \in Users, NEW k \in Periods, NEW h \in Handlers,
           mfa' = [mfa EXCEPT ![u] = [secret |-> pending[u], last |-> k]],
           recovery' = [recovery EXCEPT ![u] = RecoveryCodes],
           pending' = [pending EXCEPT ![u] = 0],
           Accept(<<pending[u], k>>), UNCHANGED <<accounts, token, drawn, unfinished>>,
           session' \in [Sessions -> Grant], IsRequests(handler'), Frees(h)
    PROVE  /\ TypeOK'
           /\ mfa'[u] = [secret |-> pending[u], last |-> k]
           /\ recovery'[u] = RecoveryCodes /\ pending'[u] = 0
           /\ \A v \in Users \ {u} :
                  mfa'[v] = mfa[v] /\ recovery'[v] = recovery[v] /\ pending'[v] = pending[v]
<1>1. pending[u] \in 0 .. MaxSecrets
  BY DEF TypeOK
<1>2. /\ mfa' \in [Users -> [secret : 0 .. MaxSecrets, last : Periods]]
      /\ mfa'[u] = [secret |-> pending[u], last |-> k]
      /\ \A v \in Users \ {u} : mfa'[v] = mfa[v]
  BY <1>1 DEF TypeOK
<1>3. /\ recovery' \in [Users -> SUBSET RecoveryCodes] /\ recovery'[u] = RecoveryCodes
      /\ \A v \in Users \ {u} : recovery'[v] = recovery[v]
  BY DEF TypeOK
<1>4. /\ pending' \in [Users -> 0 .. MaxSecrets] /\ pending'[u] = 0
      /\ \A v \in Users \ {u} : pending'[v] = pending[v]
  BY AccountsAssumption DEF TypeOK
<1>5. accepted' \in [Codes -> Nat]
  BY AcceptType
<1>6. FactorsTyped'
  BY <1>2, <1>3, <1>4, <1>5 DEF TypeOK, FactorsTyped
<1>7. GrantsTyped'
  BY TypesStay DEF GrantsTyped
<1>8. TypeOK'
  BY <1>6, <1>7, TypesStay, TypeParts
<1> QED
  BY <1>2, <1>3, <1>4, <1>8

LEMMA ConfirmBecomes ==
    ASSUME TypeOK, Shape, SameSession, NEW h \in Handlers, NEW k \in Periods, Confirm(h, k)
    PROVE  /\ TypeOK' /\ Others(h) /\ Frees(h) /\ UNCHANGED <<accounts, token, drawn, unfinished>>
           /\ handler[h].op = "confirm" /\ handler[h].at = "confirm" /\ handler'[h] = Idle
           /\ handler[h].user \in Users /\ pending[handler[h].user] # 0
           /\ mfa'[handler[h].user] = [secret |-> pending[handler[h].user], last |-> k]
           /\ \A v \in Users \ {handler[h].user} :
                  mfa'[v] = mfa[v] /\ recovery'[v] = recovery[v] /\ pending'[v] = pending[v]
           /\ recovery'[handler[h].user] = RecoveryCodes /\ pending'[handler[h].user] = 0
           /\ Accept(<<pending[handler[h].user], k>>)
           /\ \A g \in Handlers \ {h} :
                  handler[g].op = "login" /\ handler[g].user = handler[h].user =>
                      handler'[g].grant.overtaken
           /\ \A s \in Sessions :
                  \/ session'[s] = NoGrant
                  \/ session'[s] = session[s] /\ session[s].user # handler[h].user
                  \/ /\ session[s].user = handler[h].user
                     /\ session'[s] = [session[s] EXCEPT !.secret = pending[handler[h].user]]
<1> DEFINE u == handler[h].user
           own == handler[h].sess
           rows == SessionsBut(u, own)
<1>1. /\ handler[h].op = "confirm" /\ handler[h].at = "confirm"
      /\ pending[u] # 0
      /\ mfa' = [mfa EXCEPT ![u] = [secret |-> pending[u], last |-> k]]
      /\ recovery' = [recovery EXCEPT ![u] = RecoveryCodes]
      /\ pending' = [pending EXCEPT ![u] = 0]
      /\ Accept(<<pending[u], k>>)
      /\ session' = IF Live(own) THEN [rows EXCEPT ![own].secret = pending[u]] ELSE rows
      /\ Overtakes(h, "login", u, Idle)
      /\ UNCHANGED <<accounts, token, drawn, unfinished>>
  BY DEF Confirm, Confirms, At
<1>2. u \in Users
  BY <1>1, HasUser
<1>3. own \in Sessions /\ session[own].user \in {u, NoOne}
  BY <1>1 DEF TypeOK, Request, Shape, ShapeOf, SameSession
<1>4. /\ IsRequests(handler') /\ handler'[h] = Idle /\ Others(h) /\ Frees(h)
      /\ \A g \in Handlers \ {h} : handler[g].op = "login" /\ handler[g].user = u =>
             handler'[g].grant.overtaken
  BY <1>1, IdleType, OvertakesTo
<1>5. /\ rows \in [Sessions -> Grant] /\ rows[own] \in {session[own], NoGrant}
      /\ \A s \in Sessions :
             /\ rows[s] \in {session[s], NoGrant}
             /\ session[s].user = u /\ s # own => rows[s] = NoGrant
  BY <1>3, SessionsButBecomes
<1>6. rows[own] = session[own]
  BY <1>3 DEF SessionsBut
<1>7. pending[u] \in Nat /\ pending[u] \in 0 .. MaxSecrets
  BY <1>2 DEF TypeOK
<1>8. CASE Live(own)
  <2>1. session[own].user = u
    BY <1>3, <1>8 DEF Live
  <2>2. session' = [rows EXCEPT ![own].secret = pending[u]]
    BY <1>1, <1>8
  <2>3. session[own] \in Grant /\ [session[own] EXCEPT !.secret = pending[u]] \in Grant
    <3> HIDE DEF rows, u, own
    <3>1. session[own] \in Grant
      BY <1>3 DEF TypeOK
    <3> QED BY <3>1, <1>7 DEF Grant
  <2> HIDE DEF rows, u, own
  <2>4. /\ session'[own] = [session[own] EXCEPT !.secret = pending[u]]
        /\ \A s \in Sessions \ {own} : session'[s] = rows[s]
        /\ session' \in [Sessions -> Grant]
    BY <2>2, <2>3, <1>3, <1>5, <1>6
  <2>5. \A s \in Sessions :
           \/ session'[s] = NoGrant
           \/ session'[s] = session[s] /\ session[s].user # u
           \/ /\ session[s].user = u
              /\ session'[s] = [session[s] EXCEPT !.secret = pending[u]]
    BY <2>1, <2>4, <1>5
  <2>6. /\ TypeOK' /\ mfa'[u] = [secret |-> pending[u], last |-> k]
        /\ \A v \in Users \ {u} :
               mfa'[v] = mfa[v] /\ recovery'[v] = recovery[v] /\ pending'[v] = pending[v]
        /\ recovery'[u] = RecoveryCodes /\ pending'[u] = 0
    BY <1>1, <1>2, <1>4, <1>7, <2>4, ConfirmTypes
  <2> QED
    BY <1>1, <1>2, <1>4, <2>5, <2>6 DEF u
<1>9. CASE ~Live(own)
  <2>1. session' = rows
    BY <1>1, <1>9
  <2>2. session[own].user # u
    BY <1>2, <1>9, AccountsAssumption DEF Live
  <2> HIDE DEF rows, u, own
  <2>3. session' \in [Sessions -> Grant]
    BY <2>1, <1>5
  <2>4. \A s \in Sessions :
           \/ session'[s] = NoGrant
           \/ session'[s] = session[s] /\ session[s].user # u
    BY <2>1, <2>2, <1>5, <1>6
  <2>5. /\ TypeOK' /\ mfa'[u] = [secret |-> pending[u], last |-> k]
        /\ \A v \in Users \ {u} :
               mfa'[v] = mfa[v] /\ recovery'[v] = recovery[v] /\ pending'[v] = pending[v]
        /\ recovery'[u] = RecoveryCodes /\ pending'[u] = 0
    BY <1>1, <1>2, <1>4, <1>7, <2>3, ConfirmTypes
  <2> QED
    BY <1>1, <1>2, <1>4, <2>4, <2>5 DEF u
<1> QED
  BY <1>8, <1>9

LEMMA DisableBecomes ==
    ASSUME TypeOK, Shape, NEW h \in Handlers, Disable(h)
    PROVE  /\ TypeOK' /\ Others(h) /\ Frees(h)
           /\ UNCHANGED <<accounts, token, drawn, accepted, unfinished>>
           /\ handler[h].op = "disable" /\ handler[h].at = "clear" /\ handler'[h] = Idle
           /\ handler[h].user \in Users
           /\ mfa'[handler[h].user].secret = 0
           /\ recovery'[handler[h].user] = {} /\ pending'[handler[h].user] = 0
           /\ \A v \in Users \ {handler[h].user} :
                  mfa'[v] = mfa[v] /\ recovery'[v] = recovery[v] /\ pending'[v] = pending[v]
           /\ \A s \in Sessions : session'[s] \in {session[s], NoGrant}
<1> DEFINE u == handler[h].user
<1>1. /\ handler[h].op = "disable" /\ handler[h].at = "clear"
      /\ mfa' = [mfa EXCEPT ![u] = [secret |-> 0, last |-> 0]]
      /\ recovery' = [recovery EXCEPT ![u] = {}]
      /\ pending' = [pending EXCEPT ![u] = 0]
      /\ session' = SessionsBut(u, handler[h].sess)
      /\ Overtakes(h, "login", u, Idle)
      /\ UNCHANGED <<accounts, token, drawn, accepted, unfinished>>
  BY DEF Disable, At
<1>2. u \in Users
  BY <1>1, HasUser
<1>3. IsRequests(handler') /\ handler'[h] = Idle /\ Others(h) /\ Frees(h)
  BY <1>1, IdleType, OvertakesTo
<1>4. /\ session' \in [Sessions -> Grant]
      /\ \A s \in Sessions : session'[s] \in {session[s], NoGrant}
  BY <1>1, SessionsButBecomes
<1> HIDE DEF u
<1>5. /\ mfa' \in [Users -> [secret : 0 .. MaxSecrets, last : Periods]]
      /\ mfa'[u].secret = 0
      /\ \A v \in Users \ {u} : mfa'[v] = mfa[v]
  <2>1. [secret |-> 0, last |-> 0] \in [secret : 0 .. MaxSecrets, last : Periods]
    BY AccountsAssumption DEF Periods
  <2> QED BY <1>1, <1>2, <2>1 DEF TypeOK
<1>6. /\ recovery' \in [Users -> SUBSET RecoveryCodes] /\ recovery'[u] = {}
      /\ \A v \in Users \ {u} : recovery'[v] = recovery[v]
  BY <1>1, <1>2 DEF TypeOK
<1>7. /\ pending' \in [Users -> 0 .. MaxSecrets] /\ pending'[u] = 0
      /\ \A v \in Users \ {u} : pending'[v] = pending[v]
  BY <1>1, <1>2, AccountsAssumption DEF TypeOK
<1>8. TypeOK'
  <2>1. FactorsTyped'
    BY <1>1, <1>5, <1>6, <1>7 DEF TypeOK, FactorsTyped, Codes
  <2>2. GrantsTyped'
    BY <1>1, <1>4, TypesStay DEF GrantsTyped
  <2> QED BY <1>1, <1>3, <2>1, <2>2, TypesStay, TypeParts
<1> QED
  BY <1>1, <1>2, <1>3, <1>4, <1>5, <1>6, <1>7, <1>8 DEF u

LEMMA InsertTokenBecomes ==
    ASSUME TypeOK, NEW h \in Handlers, NEW t \in Tokens, InsertToken(h, t)
    PROVE  /\ TypeOK' /\ Others(h) /\ Frees(h)
           /\ UNCHANGED <<accounts, session, factors, unfinished>>
           /\ handler[h].op = "mint" /\ handler[h].at = "insert" /\ handler'[h] = Idle
           /\ token[t] = NoGrant /\ token'[t] = handler[h].grant
           /\ \A v \in Tokens \ {t} : token'[v] = token[v]
<1>1. /\ Ends(h) /\ UNCHANGED <<accounts, session, factors, unfinished>>
      /\ handler[h].op = "mint" /\ handler[h].at = "insert" /\ token[t] = NoGrant
      /\ token' = [token EXCEPT ![t] = handler[h].grant]
  BY DEF InsertToken, At
<1>2. IsRequests(handler') /\ handler'[h] = Idle /\ Others(h) /\ Frees(h)
  BY <1>1, EndsTo
<1>3. /\ token' \in [Tokens -> Grant] /\ token'[t] = handler[h].grant
      /\ \A v \in Tokens \ {t} : token'[v] = token[v]
  BY <1>1 DEF TypeOK, Request
<1>4. GrantsTyped'
  BY <1>1, <1>3, TypesStay DEF GrantsTyped
<1>5. TypeOK'
  BY <1>1, <1>2, <1>4, TypesStay, TypeParts
<1> QED
  BY <1>1, <1>2, <1>3, <1>5

LEMMA RevokeTokenBecomes ==
    ASSUME TypeOK, NEW h \in Handlers, NEW t \in Tokens, RevokeToken(h, t)
    PROVE  /\ TypeOK' /\ Others(h) /\ Frees(h)
           /\ UNCHANGED <<accounts, session, factors, unfinished>>
           /\ handler[h].op = "revoke" /\ handler[h].at = "end" /\ handler'[h] = Idle
           /\ \A v \in Tokens : token'[v] \in {token[v], NoGrant}
<1>1. /\ Ends(h) /\ UNCHANGED <<accounts, session, factors, unfinished>>
      /\ handler[h].op = "revoke" /\ handler[h].at = "end"
      /\ token' = [token EXCEPT ![t] = NoGrant]
  BY DEF RevokeToken, At
<1>2. IsRequests(handler') /\ handler'[h] = Idle /\ Others(h) /\ Frees(h)
  BY <1>1, EndsTo
<1>3. /\ token' \in [Tokens -> Grant]
      /\ \A v \in Tokens : token'[v] \in {token[v], NoGrant}
  BY <1>1, IdleType DEF TypeOK
<1>4. GrantsTyped'
  BY <1>1, <1>3, TypesStay DEF GrantsTyped
<1>5. TypeOK'
  BY <1>1, <1>2, <1>4, TypesStay, TypeParts
<1> QED
  BY <1>1, <1>2, <1>3, <1>5

LEMMA DropBecomes ==
    ASSUME TypeOK, NEW h \in Handlers, Drop(h)
    PROVE  /\ TypeOK' /\ Others(h) /\ Frees(h) /\ UNCHANGED <<accounts, grants, factors>>
           /\ handler'[h] = Idle
           /\ \A v \in Users : unfinished[v] \subseteq unfinished'[v]
           /\ \A v \in Users : handler[h].user = v => DueOf(handler[h]) \subseteq unfinished'[v]
<1> DEFINE u == handler[h].user
           due == DueOf(handler[h])
<1>1. /\ Ends(h) /\ UNCHANGED <<accounts, grants, factors>>
      /\ unfinished' = [v \in Users |-> IF v = u THEN unfinished[v] \cup due ELSE unfinished[v]]
  BY DEF Drop
<1>2. IsRequests(handler') /\ handler'[h] = Idle /\ Others(h) /\ Frees(h)
  BY <1>1, EndsTo
<1>3. due \subseteq {"sessions", "tokens"}
  BY DEF DueOf
<1> HIDE DEF u, due
<1>4. /\ unfinished' \in [Users -> SUBSET {"sessions", "tokens"}]
      /\ \A v \in Users : unfinished[v] \subseteq unfinished'[v]
      /\ \A v \in Users : u = v => due \subseteq unfinished'[v]
  BY <1>1, <1>3 DEF TypeOK
<1>5. TypeOK'
  <2>1. UnfinishedTyped'
    BY <1>4 DEF UnfinishedTyped
  <2> QED BY <1>1, <1>2, <2>1, TypesStay, TypeParts
<1> QED
  BY <1>1, <1>2, <1>4, <1>5 DEF u, due

\* Rows that expire.
LEMMA ExpireBecomes ==
    ASSUME TypeOK,
           \/ \E s \in Sessions : ExpireSession(s)
           \/ \E t \in Tokens : ExpireToken(t)
    PROVE  /\ TypeOK' /\ UNCHANGED <<accounts, factors, writes, handler, unfinished>>
           /\ \A s \in Sessions : session'[s] \in {session[s], NoGrant}
           /\ \A t \in Tokens : token'[t] \in {token[t], NoGrant}
<1>1. CASE \E s \in Sessions : ExpireSession(s)
  <2>1. PICK s \in Sessions : ExpireSession(s)
    BY <1>1
  <2>2. /\ session' = [session EXCEPT ![s] = NoGrant]
        /\ UNCHANGED <<accounts, token, factors, writes, handler, unfinished>>
    BY <2>1 DEF ExpireSession
  <2>3. GrantsTyped' /\ \A r \in Sessions : session'[r] \in {session[r], NoGrant}
    BY <2>2, IdleType DEF TypeOK, GrantsTyped
  <2>4. TypeOK'
    BY <2>2, <2>3, TypesStay, TypeParts DEF IsRequests
  <2> QED
    BY <2>2, <2>3, <2>4
<1>2. CASE \E t \in Tokens : ExpireToken(t)
  <2>1. PICK t \in Tokens : ExpireToken(t)
    BY <1>2
  <2>2. /\ token' = [token EXCEPT ![t] = NoGrant]
        /\ UNCHANGED <<accounts, session, factors, writes, handler, unfinished>>
    BY <2>1 DEF ExpireToken
  <2>3. GrantsTyped' /\ \A r \in Tokens : token'[r] \in {token[r], NoGrant}
    BY <2>2, IdleType DEF TypeOK, GrantsTyped
  <2>4. TypeOK'
    BY <2>2, <2>3, TypesStay, TypeParts DEF IsRequests
  <2> QED
    BY <2>2, <2>3, <2>4
<1> QED
  BY <1>1, <1>2

LEMMA ExpirePendingBecomes ==
    ASSUME TypeOK, NEW u \in Users, ExpirePending(u)
    PROVE  /\ TypeOK'
           /\ UNCHANGED <<accounts, grants, mfa, recovery, drawn, accepted, writes, handler,
                          unfinished>>
           /\ pending'[u] = 0 /\ \A v \in Users \ {u} : pending'[v] = pending[v]
<1>1. /\ pending' = [pending EXCEPT ![u] = 0]
      /\ UNCHANGED <<accounts, grants, mfa, recovery, drawn, accepted, writes, handler,
                     unfinished>>
  BY DEF ExpirePending
<1>2. /\ pending' \in [Users -> 0 .. MaxSecrets] /\ pending'[u] = 0
      /\ \A v \in Users \ {u} : pending'[v] = pending[v]
  BY <1>1, AccountsAssumption DEF TypeOK
<1>3. FactorsTyped'
  BY <1>1, <1>2 DEF TypeOK, FactorsTyped, Codes
<1>4. TypeOK'
  BY <1>1, <1>3, TypesStay, TypeParts DEF IsRequests
<1> QED
  BY <1>1, <1>2, <1>4

-----------------------------------------------------------------------------
(* The requests and the mutex. *)

LEMMA ShapeSame ==
    ASSUME NEW r, NEW q, Same(r, q)
    PROVE  /\ ShapeOf(r) => ShapeOf(q)
           /\ Locked(q) => Locked(r)
           /\ DueOf(q) = DueOf(r)
BY DEF Same, ShapeOf, Locked, DueOf

LEMMA ShapeStep ==
    ASSUME Shape, NEW h \in Handlers, Others(h), ShapeOf(handler'[h])
    PROVE  Shape'
BY ShapeSame DEF Shape, Others

LEMMA MutexStep ==
    ASSUME Mutex, NEW h \in Handlers, Others(h), writes' = writes \/ Frees(h) \/ writes = NoOne,
           Locked(handler'[h]) => writes' = h
    PROVE  Mutex'
BY ShapeSame, AccountsAssumption DEF Mutex, Others, Frees

LEMMA IdleShape == ShapeOf(Idle) /\ ~Locked(Idle) /\ DueOf(Idle) = {}
BY DEF ShapeOf, Locked, Idle, PlacesOf, DueOf

LEMMA MovesShape ==
    ASSUME Shape, NEW h \in Handlers, NEW at, MovesTo(h, at), at \in PlacesOf(handler[h].op)
    PROVE  ShapeOf(handler'[h])
BY DEF Shape, ShapeOf, MovesTo

\* Every step keeps the types, the shape of the requests and the mutex.
LEMMA RequestsStep ==
    ASSUME TypeOK, Shape, Mutex, SameSession, [Next]_vars
    PROVE  TypeOK' /\ Shape' /\ Mutex'
<1>1. ASSUME NEW h \in Handlers, NEW u \in Users, LoginRead(h, u)
      PROVE  TypeOK' /\ Shape' /\ Mutex'
  <2>1. /\ TypeOK' /\ Others(h) /\ writes' = writes
        /\ handler'[h].op = "login" /\ handler'[h].at = "secret"
        /\ handler'[h].user = u /\ handler'[h].grant.user = u
    BY <1>1, LoginReadBecomes
  <2>2. ShapeOf(handler'[h])
    BY <2>1, AccountsAssumption DEF ShapeOf, PlacesOf
  <2>3. ~Locked(handler'[h])
    BY <2>1 DEF Locked
  <2> QED BY <2>1, <2>2, <2>3, ShapeStep, MutexStep
<1>2. ASSUME NEW h \in Handlers, LoginSecret(h)
      PROVE  TypeOK' /\ Shape' /\ Mutex'
  <2>1. /\ TypeOK' /\ Others(h) /\ writes' = writes
        /\ handler[h].op = "login" /\ handler'[h].op = "login"
        /\ handler'[h].at \in {"code", "insert"} /\ handler'[h].user = handler[h].user
        /\ handler'[h].grant.user = handler[h].grant.user
    BY <1>2, LoginSecretBecomes
  <2>2. ShapeOf(handler'[h])
    BY <2>1 DEF Shape, ShapeOf, PlacesOf
  <2>3. ~Locked(handler'[h])
    BY <2>1 DEF Locked
  <2> QED BY <2>1, <2>2, <2>3, ShapeStep, MutexStep
<1>3. ASSUME NEW h \in Handlers, LoginCode(h)
      PROVE  TypeOK' /\ Shape' /\ Mutex'
  <2>1. /\ TypeOK' /\ Others(h) /\ writes' = writes /\ MovesTo(h, "insert")
        /\ handler[h].op = "login" /\ handler[h].at = "code"
    BY <1>3, LoginCodeBecomes
  <2>2. ShapeOf(handler'[h])
    BY <2>1, MovesShape DEF PlacesOf
  <2>3. Locked(handler'[h]) => writes' = h
    BY <2>1 DEF Locked, MovesTo, Mutex
  <2> QED BY <2>1, <2>2, <2>3, ShapeStep, MutexStep
<1>4. ASSUME NEW h \in Handlers, NEW s \in Sessions, LoginInsert(h, s)
      PROVE  TypeOK' /\ Shape' /\ Mutex'
  BY <1>4, LoginInsertBecomes, IdleShape, ShapeStep, MutexStep
<1>5. ASSUME NEW h \in Handlers, NEW s \in Sessions, NEW op \in Ops, NEW u \in Users,
             Authenticate(h, s, op, u)
      PROVE  TypeOK' /\ Shape' /\ Mutex'
  <2>1. /\ TypeOK' /\ Others(h) /\ writes' = writes
        /\ MayAsk(session[s], op, u)
        /\ handler'[h].op = op /\ handler'[h].at = FirstPlace(op) /\ handler'[h].user = u
        /\ handler'[h].sess = IF op \in {"logout", "confirm", "disable"} THEN s ELSE NoOne
        /\ op = "mint" => handler'[h].grant.user = session[s].user
    BY <1>5, AuthenticateBecomes
  <2>2. ShapeOf(handler'[h])
    BY <2>1, AccountsAssumption DEF ShapeOf, PlacesOf, MayAsk, FirstPlace
  <2>3. ~Locked(handler'[h])
    BY <2>1 DEF Locked, MayAsk, FirstPlace
  <2> QED BY <2>1, <2>2, <2>3, ShapeStep, MutexStep
<1>6. ASSUME NEW h \in Handlers, NEW t \in Tokens, NEW op \in Ops, NEW u \in Users,
             AuthenticateToken(h, t, op, u)
      PROVE  TypeOK' /\ Shape' /\ Mutex'
  <2>1. /\ TypeOK' /\ Others(h) /\ writes' = writes
        /\ MayAsk(token[t], op, u) /\ handler'[h].op = op /\ op \in {"update", "create"}
        /\ handler'[h].at = "lock" /\ handler'[h].user = u
    BY <1>6, AuthenticateTokenBecomes
  <2>2. ShapeOf(handler'[h])
    BY <2>1, AccountsAssumption DEF ShapeOf, PlacesOf, MayAsk
  <2>3. ~Locked(handler'[h])
    BY <2>1 DEF Locked
  <2> QED BY <2>1, <2>2, <2>3, ShapeStep, MutexStep
<1>7. ASSUME NEW h \in Handlers, Lock(h)
      PROVE  TypeOK' /\ Shape' /\ Mutex'
  <2>1. /\ TypeOK' /\ Others(h) /\ writes = NoOne /\ writes' = h
        /\ MovesTo(h, Within(handler[h].op))
        /\ handler[h].op \in {"update", "create", "enroll", "confirm", "disable", "mint"}
    BY <1>7, LockBecomes
  <2>2. ShapeOf(handler'[h])
    BY <2>1, MovesShape DEF PlacesOf, Within
  <2> QED BY <2>1, <2>2, ShapeStep, MutexStep
<1>8. ASSUME NEW h \in Handlers, Logout(h)
      PROVE  TypeOK' /\ Shape' /\ Mutex'
  BY <1>8, LogoutBecomes, IdleShape, ShapeStep, MutexStep
<1>9. ASSUME NEW h \in Handlers, WritePassword(h)
      PROVE  TypeOK' /\ Shape' /\ Mutex'
  <2>1. /\ TypeOK' /\ Others(h) /\ writes' = writes /\ MovesTo(h, "sessions")
        /\ handler[h].op \in {"change", "update"} /\ handler[h].at = "password"
    BY <1>9, WritePasswordBecomes
  <2>2. ShapeOf(handler'[h])
    BY <2>1, MovesShape DEF PlacesOf
  <2>3. Locked(handler'[h]) => writes' = h
    BY <2>1 DEF Locked, MovesTo, Mutex
  <2> QED BY <2>1, <2>2, <2>3, ShapeStep, MutexStep
<1>10. ASSUME NEW h \in Handlers, NEW on \in BOOLEAN, UpdateRow(h, on)
       PROVE  TypeOK' /\ Shape' /\ Mutex'
  <2>1. /\ TypeOK' /\ Others(h) /\ writes' = writes
        /\ MovesTo(h, "password") \/ MovesTo(h, "sessions")
        /\ handler[h].op = "update" /\ handler[h].at = "row"
    BY <1>10, UpdateRowBecomes
  <2>2. ShapeOf(handler'[h])
    BY <2>1, MovesShape DEF PlacesOf
  <2>3. Locked(handler'[h]) => writes' = h
    BY <2>1 DEF Locked, Mutex
  <2> QED BY <2>1, <2>2, <2>3, ShapeStep, MutexStep
<1>11. ASSUME NEW h \in Handlers, DeleteSessions(h)
       PROVE  TypeOK' /\ Shape' /\ Mutex'
  <2>1. CASE handler[h].op = "change"
    <3>1. TypeOK' /\ Others(h) /\ writes' = writes /\ MovesTo(h, "tokens")
      BY <2>1, <1>11, DeleteSessionsBecomes
    <3>2. ShapeOf(handler'[h])
      BY <2>1, <3>1, MovesShape DEF PlacesOf
    <3>3. ~Locked(handler'[h])
      BY <2>1, <3>1 DEF Locked, MovesTo
    <3> QED BY <3>1, <3>2, <3>3, ShapeStep, MutexStep
  <2>2. CASE handler[h].op = "update"
    BY <2>2, <1>11, DeleteSessionsBecomes, IdleShape, ShapeStep, MutexStep
  <2> QED BY <2>1, <2>2, <1>11, DeleteSessionsBecomes
<1>12. ASSUME NEW h \in Handlers, RevokeTokens(h)
       PROVE  TypeOK' /\ Shape' /\ Mutex'
  BY <1>12, RevokeTokensBecomes, IdleShape, ShapeStep, MutexStep
<1>13. ASSUME NEW h \in Handlers, CreateUser(h)
       PROVE  TypeOK' /\ Shape' /\ Mutex'
  BY <1>13, CreateUserBecomes, IdleShape, ShapeStep, MutexStep
<1>14. ASSUME NEW h \in Handlers, Enroll(h)
       PROVE  TypeOK' /\ Shape' /\ Mutex'
  BY <1>14, EnrollBecomes, IdleShape, ShapeStep, MutexStep
<1>15. ASSUME NEW h \in Handlers, NEW k \in Periods, Confirm(h, k)
       PROVE  TypeOK' /\ Shape' /\ Mutex'
  BY <1>15, ConfirmBecomes, IdleShape, ShapeStep, MutexStep
<1>16. ASSUME NEW h \in Handlers, DisableCode(h)
       PROVE  TypeOK' /\ Shape' /\ Mutex'
  <2>1. /\ TypeOK' /\ Others(h) /\ writes' = writes /\ MovesTo(h, "clear")
        /\ handler[h].op = "disable" /\ handler[h].at = "code"
    BY <1>16, DisableCodeBecomes
  <2>2. ShapeOf(handler'[h])
    BY <2>1, MovesShape DEF PlacesOf
  <2>3. Locked(handler'[h]) => writes' = h
    BY <2>1 DEF Locked, MovesTo, Mutex
  <2> QED BY <2>1, <2>2, <2>3, ShapeStep, MutexStep
<1>17. ASSUME NEW h \in Handlers, Disable(h)
       PROVE  TypeOK' /\ Shape' /\ Mutex'
  BY <1>17, DisableBecomes, IdleShape, ShapeStep, MutexStep
<1>18. ASSUME NEW h \in Handlers, CountTokens(h)
       PROVE  TypeOK' /\ Shape' /\ Mutex'
  <2>1. /\ TypeOK' /\ Others(h) /\ writes' = writes /\ MovesTo(h, "insert")
        /\ handler[h].op = "mint" /\ handler[h].at = "count"
    BY <1>18, CountTokensBecomes
  <2>2. ShapeOf(handler'[h])
    BY <2>1, MovesShape DEF PlacesOf
  <2>3. Locked(handler'[h]) => writes' = h
    BY <2>1 DEF Locked, MovesTo, Mutex
  <2> QED BY <2>1, <2>2, <2>3, ShapeStep, MutexStep
<1>19. ASSUME NEW h \in Handlers, NEW t \in Tokens, InsertToken(h, t)
       PROVE  TypeOK' /\ Shape' /\ Mutex'
  BY <1>19, InsertTokenBecomes, IdleShape, ShapeStep, MutexStep
<1>20. ASSUME NEW h \in Handlers, NEW t \in Tokens, RevokeToken(h, t)
       PROVE  TypeOK' /\ Shape' /\ Mutex'
  BY <1>20, RevokeTokenBecomes, IdleShape, ShapeStep, MutexStep
<1>21. ASSUME NEW h \in Handlers, Drop(h)
       PROVE  TypeOK' /\ Shape' /\ Mutex'
  BY <1>21, DropBecomes, IdleShape, ShapeStep, MutexStep
<1>22. CASE (\E s \in Sessions : ExpireSession(s)) \/ \E t \in Tokens : ExpireToken(t)
  BY <1>22, ExpireBecomes DEF Shape, Mutex
<1>23. CASE \E u \in Users : ExpirePending(u)
  BY <1>23, ExpirePendingBecomes DEF Shape, Mutex
<1>24. CASE UNCHANGED vars
  <2>1. UNCHANGED <<accounts, grants, factors, unfinished, writes, handler>>
    BY <1>24 DEF vars
  <2>2. TypeOK'
    BY <2>1, TypesStay, TypeParts DEF IsRequests
  <2> QED BY <2>1, <2>2 DEF Shape, Mutex
<1> QED
  BY <1>1, <1>2, <1>3, <1>4, <1>5, <1>6, <1>7, <1>8, <1>9, <1>10, <1>11, <1>12, <1>13, <1>14,
     <1>15, <1>16, <1>17, <1>18, <1>19, <1>20, <1>21, <1>22, <1>23, <1>24
     DEF Next, Login, Ask, ChangeAccess, ChangeFactor, ChangeTokens

-----------------------------------------------------------------------------
(* Who has a session or a token. *)

SessionsShrink == \A s \in Sessions : session'[s].user \in {session[s].user, NoOne}
TokensShrink == \A t \in Tokens : token'[t] \in {token[t], NoGrant}
AccessStays == \A v \in Users : access[v] # 0 => access'[v] # 0

LEMMA IdleFields == NoGrant.user = NoOne /\ Idle.sess = NoOne /\ Idle.op = "none"
BY DEF NoGrant, Idle

LEMMA Shrinks ==
    /\ session' = session => SessionsShrink
    /\ (\A s \in Sessions : session'[s] \in {session[s], NoGrant}) => SessionsShrink
    /\ token' = token => TokensShrink
    /\ UNCHANGED grants => SessionsShrink /\ TokensShrink
    /\ UNCHANGED accounts => AccessStays
BY IdleFields DEF SessionsShrink, TokensShrink, AccessStays, grants, accounts

LEMMA SameSessionStep ==
    ASSUME TypeOK, SameSession, NEW h \in Handlers, Others(h), SessionsShrink,
           handler'[h].sess # NoOne =>
               session'[handler'[h].sess].user \in {handler'[h].user, NoOne}
    PROVE  SameSession'
<1>1. ASSUME NEW g \in Handlers, g # h, handler'[g].sess # NoOne
      PROVE  session'[handler'[g].sess].user \in {handler'[g].user, NoOne}
  <2>1. handler'[g].sess = handler[g].sess /\ handler'[g].user = handler[g].user
    BY <1>1 DEF Others, Same
  <2>2. handler[g].sess \in Sessions
    BY <1>1, <2>1 DEF TypeOK, Request
  <2> QED BY <1>1, <2>1, <2>2 DEF SameSession, SessionsShrink
<1> QED
  BY <1>1 DEF SameSession

LEMMA HoldersStep ==
    ASSUME TypeOK, Shape, Holders, NEW h \in Handlers, Others(h), SessionsShrink, TokensShrink,
           AccessStays, handler'[h].op = "login" => access'[handler'[h].user] # 0
    PROVE  Holders'
<1>1. ASSUME NEW s \in Sessions, session'[s].user # NoOne
      PROVE  access'[session'[s].user] # 0
  <2>1. session'[s].user = session[s].user
    BY <1>1 DEF SessionsShrink
  <2>2. session[s].user \in Users
    BY <1>1, <2>1 DEF TypeOK, Grant
  <2> QED BY <1>1, <2>1, <2>2 DEF Holders, Live, AccessStays
<1>2. ASSUME NEW g \in Handlers, handler'[g].op = "login"
      PROVE  access'[handler'[g].user] # 0
  <2>1. CASE g # h
    <3>1. handler[g].op = "login" /\ handler'[g].user = handler[g].user
      BY <1>2, <2>1 DEF Others, Same
    <3>2. handler[g].user \in Users
      BY <3>1, HasUser
    <3> QED BY <3>1, <3>2 DEF Holders, AccessStays
  <2> QED BY <1>2, <2>1
<1>3. \A t \in Tokens : token'[t].user \in Admins \/ token'[t] = NoGrant
  BY DEF Holders, TokensShrink
<1> QED
  BY <1>1, <1>2, <1>3 DEF Holders, Live

\* The place of a request changes, or it ends.
LEMMA MovesHolders ==
    ASSUME TypeOK, Shape, SameSession, Holders, NEW h \in Handlers, NEW at, MovesTo(h, at),
           SessionsShrink, AccessStays
    PROVE  /\ handler'[h].sess # NoOne =>
                  session'[handler'[h].sess].user \in {handler'[h].user, NoOne}
           /\ handler'[h].op = "login" => access'[handler'[h].user] # 0
<1>1. handler'[h].sess = handler[h].sess /\ handler'[h].user = handler[h].user
      /\ handler'[h].op = handler[h].op
  BY DEF MovesTo
<1>2. handler[h].sess # NoOne => handler[h].sess \in Sessions
  BY DEF TypeOK, Request
<1>3. handler[h].op = "login" => handler[h].user \in Users
  BY HasUser
<1> QED
  BY <1>1, <1>2, <1>3 DEF SameSession, SessionsShrink, Holders, AccessStays


LEMMA HandlersStay ==
    ASSUME TypeOK, SameSession, Holders, UNCHANGED <<access, handler>>, SessionsShrink,
           TokensShrink
    PROVE  SameSession' /\ Holders'
<1>1. SameSession'
  BY DEF TypeOK, Request, SameSession, SessionsShrink
<1>2. Holders'
  BY DEF Holders, Live, SessionsShrink, TokensShrink
<1> QED
  BY <1>1, <1>2

\* Every step keeps what is known of those who have a session or a token.
LEMMA HoldersKept ==
    ASSUME TypeOK, Shape, SameSession, Holders, [Next]_vars
    PROVE  SameSession' /\ Holders'
<1>1. ASSUME NEW h \in Handlers, NEW u \in Users, LoginRead(h, u)
      PROVE  SameSession' /\ Holders'
  <2>1. /\ Others(h) /\ SessionsShrink /\ TokensShrink /\ AccessStays /\ access' = access
        /\ handler'[h].sess = NoOne /\ handler'[h].user = u /\ access[u] # 0
    BY <1>1, LoginReadBecomes, Shrinks DEF Quiet, accounts
  <2> QED BY <2>1, SameSessionStep, HoldersStep
<1>2. ASSUME NEW h \in Handlers, LoginSecret(h)
      PROVE  SameSession' /\ Holders'
  <2>1. /\ Others(h) /\ SessionsShrink /\ TokensShrink /\ AccessStays /\ UNCHANGED <<access, session>>
        /\ handler'[h].sess = handler[h].sess /\ handler'[h].user = handler[h].user
        /\ handler[h].op = "login"
    BY <1>2, LoginSecretBecomes, Shrinks DEF Quiet, accounts, grants
  <2>2. handler[h].sess # NoOne =>
            session[handler[h].sess].user \in {handler[h].user, NoOne}
    BY DEF SameSession
  <2>3. access[handler[h].user] # 0
    BY <2>1 DEF Holders
  <2> QED BY <2>1, <2>2, <2>3, SameSessionStep, HoldersStep
<1>3. ASSUME NEW h \in Handlers, LoginCode(h)
      PROVE  SameSession' /\ Holders'
  BY <1>3, LoginCodeBecomes, Shrinks, MovesHolders, SameSessionStep, HoldersStep
<1>4. ASSUME NEW h \in Handlers, NEW s \in Sessions, LoginInsert(h, s)
      PROVE  SameSession' /\ Holders'
  <2>1. /\ Others(h) /\ handler'[h] = Idle /\ UNCHANGED <<access, token>>
        /\ handler[h].op = "login" /\ session'[s] = handler[h].grant
        /\ \A g \in Handlers : handler[g].sess # s
        /\ \A r \in Sessions \ {s} : session'[r] = session[r]
    BY <1>4, LoginInsertBecomes DEF accounts
  <2>2. handler[h].user \in Users /\ handler[h].grant.user = handler[h].user
    BY <2>1, HasUser DEF Shape, ShapeOf
  <2>3. SameSession'
    <3>1. ASSUME NEW g \in Handlers, handler'[g].sess # NoOne
          PROVE  session'[handler'[g].sess].user \in {handler'[g].user, NoOne}
      <4>1. /\ handler'[g].sess = handler[g].sess /\ handler'[g].user = handler[g].user
        BY <2>1, <3>1, IdleFields DEF Others, Same
      <4>2. handler[g].sess \in Sessions \ {s}
        BY <2>1, <3>1, <4>1 DEF TypeOK, Request
      <4> QED BY <2>1, <3>1, <4>1, <4>2 DEF SameSession
    <3> QED BY <3>1 DEF SameSession
  <2>4. \A r \in Sessions : Live(r)' => access'[session'[r].user] # 0
    BY <2>1, <2>2 DEF Holders, Live
  <2>5. \A g \in Handlers : handler'[g].op = "login" => access'[handler'[g].user] # 0
    BY <2>1, IdleFields DEF Others, Same, Holders
  <2>6. \A t \in Tokens : token'[t].user \in Admins \/ token'[t] = NoGrant
    BY <2>1 DEF Holders
  <2> QED BY <2>3, <2>4, <2>5, <2>6 DEF Holders
<1>5. ASSUME NEW h \in Handlers, NEW s \in Sessions, NEW op \in Ops, NEW u \in Users,
             Authenticate(h, s, op, u)
      PROVE  SameSession' /\ Holders'
  <2>1. /\ Others(h) /\ SessionsShrink /\ TokensShrink /\ AccessStays /\ session' = session
        /\ handler'[h].sess = IF op \in {"logout", "confirm", "disable"} THEN s ELSE NoOne
        /\ handler'[h].user = u /\ handler'[h].op = op /\ MayAsk(session[s], op, u)
    BY <1>5, AuthenticateBecomes, Shrinks DEF Quiet, grants
  <2>2. op # "login" /\ (op \in {"logout", "confirm", "disable"} => u = session[s].user)
    BY <2>1 DEF MayAsk
  <2> QED BY <2>1, <2>2, SameSessionStep, HoldersStep
<1>6. ASSUME NEW h \in Handlers, NEW t \in Tokens, NEW op \in Ops, NEW u \in Users,
             AuthenticateToken(h, t, op, u)
      PROVE  SameSession' /\ Holders'
  <2>1. /\ Others(h) /\ SessionsShrink /\ TokensShrink /\ AccessStays
        /\ handler'[h].sess = NoOne /\ handler'[h].op = op /\ op \in {"update", "create"}
    BY <1>6, AuthenticateTokenBecomes, Shrinks DEF Quiet
  <2> QED BY <2>1, SameSessionStep, HoldersStep
<1>7. ASSUME NEW h \in Handlers, Lock(h)
      PROVE  SameSession' /\ Holders'
  BY <1>7, LockBecomes, Shrinks, MovesHolders, SameSessionStep, HoldersStep DEF Quiet
<1>8. ASSUME NEW h \in Handlers, Logout(h)
      PROVE  SameSession' /\ Holders'
  BY <1>8, LogoutBecomes, IdleFields, Shrinks, SameSessionStep, HoldersStep
<1>9. ASSUME NEW h \in Handlers, WritePassword(h)
      PROVE  SameSession' /\ Holders'
  <2>1. AccessStays /\ SessionsShrink /\ TokensShrink
    BY <1>9, WritePasswordBecomes, Shrinks DEF AccessStays
  <2> QED BY <1>9, <2>1, WritePasswordBecomes, MovesHolders, SameSessionStep, HoldersStep
<1>10. ASSUME NEW h \in Handlers, NEW on \in BOOLEAN, UpdateRow(h, on)
       PROVE  SameSession' /\ Holders'
  <2>1. AccessStays /\ SessionsShrink /\ TokensShrink
    BY <1>10, UpdateRowBecomes, Shrinks DEF AccessStays
  <2> QED BY <1>10, <2>1, UpdateRowBecomes, MovesHolders, SameSessionStep, HoldersStep
<1>11. ASSUME NEW h \in Handlers, DeleteSessions(h)
       PROVE  SameSession' /\ Holders'
  <2>1. AccessStays /\ SessionsShrink /\ TokensShrink
    BY <1>11, DeleteSessionsBecomes, Shrinks
  <2> QED BY <1>11, <2>1, DeleteSessionsBecomes, IdleFields, MovesHolders, SameSessionStep,
             HoldersStep
<1>12. ASSUME NEW h \in Handlers, RevokeTokens(h)
       PROVE  SameSession' /\ Holders'
  BY <1>12, RevokeTokensBecomes, IdleFields, Shrinks, SameSessionStep, HoldersStep
  DEF TokensShrink
<1>13. ASSUME NEW h \in Handlers, CreateUser(h)
       PROVE  SameSession' /\ Holders'
  BY <1>13, CreateUserBecomes, IdleFields, Shrinks, SameSessionStep, HoldersStep DEF AccessStays
<1>14. ASSUME NEW h \in Handlers, Enroll(h)
       PROVE  SameSession' /\ Holders'
  BY <1>14, EnrollBecomes, IdleFields, Shrinks, SameSessionStep, HoldersStep
<1>15. ASSUME NEW h \in Handlers, NEW k \in Periods, Confirm(h, k)
       PROVE  SameSession' /\ Holders'
  <2>1. /\ Others(h) /\ handler'[h] = Idle /\ UNCHANGED <<accounts, token>>
        /\ \A s \in Sessions :
               \/ session'[s] = NoGrant
               \/ session'[s] = session[s]
               \/ session'[s] = [session[s] EXCEPT !.secret = pending[handler[h].user]]
    BY <1>15, ConfirmBecomes
  <2>2. SessionsShrink
    <3>1. \A s \in Sessions : session[s] \in Grant
      BY DEF TypeOK
    <3> QED BY <2>1, <3>1, IdleFields DEF Grant, SessionsShrink
  <2> QED BY <2>1, <2>2, IdleFields, Shrinks, SameSessionStep, HoldersStep
<1>16. ASSUME NEW h \in Handlers, DisableCode(h)
       PROVE  SameSession' /\ Holders'
  BY <1>16, DisableCodeBecomes, Shrinks, MovesHolders, SameSessionStep, HoldersStep
<1>17. ASSUME NEW h \in Handlers, Disable(h)
       PROVE  SameSession' /\ Holders'
  BY <1>17, DisableBecomes, IdleFields, Shrinks, SameSessionStep, HoldersStep
<1>18. ASSUME NEW h \in Handlers, CountTokens(h)
       PROVE  SameSession' /\ Holders'
  BY <1>18, CountTokensBecomes, Shrinks, MovesHolders, SameSessionStep, HoldersStep DEF Quiet
<1>19. ASSUME NEW h \in Handlers, NEW t \in Tokens, InsertToken(h, t)
       PROVE  SameSession' /\ Holders'
  <2>1. /\ Others(h) /\ handler'[h] = Idle /\ UNCHANGED <<access, session>>
        /\ handler[h].op = "mint" /\ token'[t] = handler[h].grant
        /\ \A v \in Tokens \ {t} : token'[v] = token[v]
    BY <1>19, InsertTokenBecomes DEF accounts
  <2>2. handler[h].grant.user \in Admins
    BY <2>1 DEF Shape, ShapeOf
  <2>3. SessionsShrink
    BY <2>1, Shrinks
  <2>4. SameSession'
    BY <2>1, <2>3, IdleFields, SameSessionStep
  <2>5. \A r \in Sessions : Live(r)' => access'[session'[r].user] # 0
    BY <2>1 DEF Holders, Live
  <2>6. \A g \in Handlers : handler'[g].op = "login" => access'[handler'[g].user] # 0
    BY <2>1, IdleFields DEF Others, Same, Holders
  <2>7. \A v \in Tokens : token'[v].user \in Admins \/ token'[v] = NoGrant
    BY <2>1, <2>2 DEF Holders
  <2> QED BY <2>4, <2>5, <2>6, <2>7 DEF Holders
<1>20. ASSUME NEW h \in Handlers, NEW t \in Tokens, RevokeToken(h, t)
       PROVE  SameSession' /\ Holders'
  BY <1>20, RevokeTokenBecomes, IdleFields, Shrinks, SameSessionStep, HoldersStep DEF TokensShrink
<1>21. ASSUME NEW h \in Handlers, Drop(h)
       PROVE  SameSession' /\ Holders'
  BY <1>21, DropBecomes, IdleFields, Shrinks, SameSessionStep, HoldersStep
<1>22. CASE (\E s \in Sessions : ExpireSession(s)) \/ \E t \in Tokens : ExpireToken(t)
  <2>1. /\ UNCHANGED <<access, handler>> /\ SessionsShrink /\ TokensShrink
    BY <1>22, ExpireBecomes, Shrinks DEF accounts, TokensShrink
  <2> QED BY <2>1, HandlersStay
<1>23. CASE \E u \in Users : ExpirePending(u)
  <2>1. /\ UNCHANGED <<access, handler>> /\ SessionsShrink /\ TokensShrink
    BY <1>23, ExpirePendingBecomes, Shrinks DEF accounts
  <2> QED BY <2>1, HandlersStay
<1>24. CASE UNCHANGED vars
  BY <1>24, Shrinks, HandlersStay DEF vars, accounts, grants
<1> QED
  BY <1>1, <1>2, <1>3, <1>4, <1>5, <1>6, <1>7, <1>8, <1>9, <1>10, <1>11, <1>12, <1>13, <1>14,
     <1>15, <1>16, <1>17, <1>18, <1>19, <1>20, <1>21, <1>22, <1>23, <1>24
     DEF Next, Login, Ask, ChangeAccess, ChangeFactor, ChangeTokens

-----------------------------------------------------------------------------
(* Sessions and tokens are current. *)

\* Due and Current of the next state.
DueAfter(u, what) ==
    \/ what \in unfinished'[u]
    \/ \E h \in Handlers : handler'[h].user = u /\ what \in DueOf(handler'[h])
CurrentAfter(g) == g.access = access'[g.user] \/ g.overtaken \/ DueAfter(g.user, "sessions")
CurrentTokenAfter(g) == CurrentAfter(g) \/ DueAfter(g.user, "tokens")

KeepsDue(v) == \A what \in {"sessions", "tokens"} : Due(v, what) => DueAfter(v, what)

\* q is g, and at most overtaken.
Follows(g, q) ==
    /\ q.user = g.user /\ q.access = g.access
    /\ g.overtaken => q.overtaken

\* Deletions that are due stay due if they are still owed by the request or written down.
LEMMA DueStays ==
    ASSUME NEW h \in Handlers, Others(h), \A v \in Users : unfinished[v] \subseteq unfinished'[v],
           \A what \in DueOf(handler[h]) :
               \/ handler'[h].user = handler[h].user /\ what \in DueOf(handler'[h])
               \/ \A v \in Users : handler[h].user = v => what \in unfinished'[v]
    PROVE  \A v \in Users : KeepsDue(v)
<1> SUFFICES ASSUME NEW v \in Users, NEW what \in {"sessions", "tokens"}, Due(v, what)
             PROVE  DueAfter(v, what)
  BY DEF KeepsDue
<1>1. CASE what \in unfinished[v]
  BY <1>1 DEF DueAfter
<1>2. ASSUME NEW g \in Handlers, handler[g].user = v, what \in DueOf(handler[g])
      PROVE  DueAfter(v, what)
  <2>1. CASE g = h
    BY <1>2, <2>1 DEF DueAfter
  <2>2. CASE g # h
    <3>1. Same(handler[g], handler'[g])
      BY <2>2 DEF Others
    <3>2. handler'[g].user = v /\ what \in DueOf(handler'[g])
      BY <1>2, <3>1, ShapeSame DEF Same
    <3> QED BY <3>2 DEF DueAfter
  <2> QED BY <2>1, <2>2
<1> QED
  BY <1>1, <1>2 DEF Due

LEMMA CurrentFollows ==
    ASSUME NEW g, NEW q, Follows(g, q), access'[g.user] = access[g.user], KeepsDue(g.user)
    PROVE  /\ Current(g) => CurrentAfter(q)
           /\ CurrentToken(g) => CurrentTokenAfter(q)
BY DEF Follows, KeepsDue, Current, CurrentToken, CurrentAfter, CurrentTokenAfter

\* Likewise if the access changed and its deletions are due.
LEMMA DueFollows ==
    ASSUME NEW g, NEW q, Follows(g, q), DueAfter(g.user, "sessions")
    PROVE  CurrentAfter(q) /\ CurrentTokenAfter(q)
BY DEF Follows, CurrentAfter, CurrentTokenAfter

AllCurrent == GrantsAreCurrent /\ InFlightCurrent

LEMMA AllCurrentIs ==
    /\ AllCurrent =>
           /\ \A s \in Sessions : session[s].user # NoOne => Current(session[s])
           /\ \A t \in Tokens : token[t].user # NoOne => CurrentToken(token[t])
           /\ \A g \in Handlers : /\ handler[g].op = "login" => Current(handler[g].grant)
                                  /\ handler[g].op = "mint" => CurrentToken(handler[g].grant)
    /\ /\ \A s \in Sessions : session'[s].user # NoOne => CurrentAfter(session'[s])
       /\ \A t \in Tokens : token'[t].user # NoOne => CurrentTokenAfter(token'[t])
       /\ \A g \in Handlers : /\ handler'[g].op = "login" => CurrentAfter(handler'[g].grant)
                              /\ handler'[g].op = "mint" => CurrentTokenAfter(handler'[g].grant)
       => AllCurrent'
<1>1. /\ AllCurrent =>
           /\ \A s \in Sessions : session[s].user # NoOne => Current(session[s])
           /\ \A t \in Tokens : token[t].user # NoOne => CurrentToken(token[t])
           /\ \A g \in Handlers : /\ handler[g].op = "login" => Current(handler[g].grant)
                                  /\ handler[g].op = "mint" => CurrentToken(handler[g].grant)
  BY DEF AllCurrent, GrantsAreCurrent, InFlightCurrent, Live, Current, CurrentToken
<1>2. ASSUME \A s \in Sessions : session'[s].user # NoOne => CurrentAfter(session'[s])
      PROVE  \A s \in Sessions : Live(s)' =>
                 \/ session'[s].access = access'[session'[s].user] \/ session'[s].overtaken
                 \/ Due(session[s].user, "sessions")'
  BY <1>2 DEF Live, CurrentAfter, DueAfter, Due
<1>3. ASSUME \A t \in Tokens : token'[t].user # NoOne => CurrentTokenAfter(token'[t])
      PROVE  \A t \in Tokens : token'[t].user # NoOne =>
                 \/ token'[t].access = access'[token'[t].user] \/ token'[t].overtaken
                 \/ Due(token[t].user, "sessions")' \/ Due(token[t].user, "tokens")'
  BY <1>3 DEF CurrentTokenAfter, CurrentAfter, DueAfter, Due
<1>4. ASSUME NEW g \in Handlers
      PROVE  /\ CurrentAfter(handler'[g].grant) => Current(handler[g].grant)'
             /\ CurrentTokenAfter(handler'[g].grant) => CurrentToken(handler[g].grant)'
  BY DEF CurrentToken, Current, CurrentTokenAfter, CurrentAfter, DueAfter, Due
<1> QED
  BY <1>1, <1>2, <1>3, <1>4 DEF AllCurrent, GrantsAreCurrent, InFlightCurrent

AccessFollows ==
    \A v \in Users :
        \/ access'[v] = access[v] \/ DueAfter(v, "sessions")
        \/ access[v] = 0 /\ v \notin Admins
SessionsFollow ==
    \A s \in Sessions : session'[s].user # NoOne =>
        Follows(session[s], session'[s]) \/ CurrentAfter(session'[s])
TokensFollow ==
    \A t \in Tokens : token'[t].user # NoOne =>
        Follows(token[t], token'[t]) \/ CurrentTokenAfter(token'[t])
RequestFollows(h) ==
    handler'[h].op \in {"login", "mint"} =>
        \/ handler'[h].op = handler[h].op /\ Follows(handler[h].grant, handler'[h].grant)
        \/ CurrentAfter(handler'[h].grant)

\* A step that deletes nothing that is due.
LEMMA CurrentSteady ==
    ASSUME TypeOK, Shape, Holders, AllCurrent, NEW h \in Handlers, Others(h),
           \A v \in Users : KeepsDue(v), AccessFollows, SessionsFollow, TokensFollow,
           RequestFollows(h)
    PROVE  AllCurrent'
<1>1. ASSUME NEW g, NEW q, Follows(g, q), g.user \in Users,
             access[g.user] # 0 \/ g.user \in Admins
      PROVE  /\ Current(g) => CurrentAfter(q)
             /\ CurrentToken(g) => CurrentTokenAfter(q)
  <2>1. access'[g.user] = access[g.user] \/ DueAfter(g.user, "sessions")
    BY <1>1 DEF AccessFollows
  <2> QED BY <1>1, <2>1, CurrentFollows, DueFollows
<1>2. ASSUME NEW s \in Sessions, session'[s].user # NoOne
      PROVE  CurrentAfter(session'[s])
  <2>1. CASE Follows(session[s], session'[s])
    <3>1. session[s].user \in Users
      BY <1>2, <2>1 DEF TypeOK, Grant, Follows
    <3>2. access[session[s].user] # 0 /\ Current(session[s])
      BY <1>2, <2>1, AllCurrentIs DEF Holders, Live, Follows
    <3> QED BY <2>1, <3>1, <3>2, <1>1
  <2> QED BY <1>2, <2>1 DEF SessionsFollow
<1>3. ASSUME NEW t \in Tokens, token'[t].user # NoOne
      PROVE  CurrentTokenAfter(token'[t])
  <2>1. CASE Follows(token[t], token'[t])
    <3>1. token[t].user \in Admins /\ token[t].user \in Users
      BY <1>3, <2>1, IdleFields, AccountsAssumption DEF Holders, Follows
    <3>2. CurrentToken(token[t])
      BY <1>3, <2>1, AllCurrentIs DEF Follows
    <3> QED BY <2>1, <3>1, <3>2, <1>1
  <2> QED BY <1>3, <2>1 DEF TokensFollow, CurrentTokenAfter
<1>4. ASSUME NEW g \in Handlers, handler'[g].op = handler[g].op,
             Follows(handler[g].grant, handler'[g].grant)
      PROVE  /\ handler'[g].op = "login" => CurrentAfter(handler'[g].grant)
             /\ handler'[g].op = "mint" => CurrentTokenAfter(handler'[g].grant)
  <2>1. handler[g].op \in {"login", "mint"} =>
            handler[g].grant.user \in Users /\ handler[g].grant.user = handler[g].user
    BY HasUser DEF Shape, ShapeOf
  <2>2. /\ handler[g].op = "login" => access[handler[g].user] # 0
        /\ handler[g].op = "mint" => handler[g].user \in Admins
    BY DEF Shape, ShapeOf, Holders
  <2> QED BY <1>1, <1>4, <2>1, <2>2, AllCurrentIs
<1>5. ASSUME NEW g \in Handlers
      PROVE  /\ handler'[g].op = "login" => CurrentAfter(handler'[g].grant)
             /\ handler'[g].op = "mint" => CurrentTokenAfter(handler'[g].grant)
  <2>1. CASE g = h
    BY <2>1, <1>4 DEF RequestFollows, CurrentTokenAfter
  <2>2. CASE g # h
    <3>1. handler'[g].op = handler[g].op /\ Follows(handler[g].grant, handler'[g].grant)
      BY <2>2 DEF Others, Same, Follows
    <3> QED BY <3>1, <1>4
  <2> QED BY <2>1, <2>2
<1> QED
  BY <1>2, <1>3, <1>5, AllCurrentIs

\* Where access, sessions, tokens or what is due stay, or rows only go.
LEMMA Unmoved ==
    /\ UNCHANGED accounts => AccessFollows
    /\ (\A s \in Sessions : session'[s] \in {session[s], NoGrant}) => SessionsFollow
    /\ session' = session => SessionsFollow
    /\ (\A t \in Tokens : token'[t] \in {token[t], NoGrant}) => TokensFollow
    /\ token' = token => TokensFollow
    /\ UNCHANGED grants => SessionsFollow /\ TokensFollow
    /\ \A h \in Handlers : \A at : MovesTo(h, at) => RequestFollows(h)
    /\ \A h \in Handlers : handler'[h] = Idle => RequestFollows(h)
BY IdleFields DEF accounts, AccessFollows, SessionsFollow, TokensFollow, grants, RequestFollows,
   MovesTo, Follows

\* A request that owes nothing.
LEMMA OwesNothing ==
    ASSUME TypeOK, NEW h \in Handlers, Others(h), DueOf(handler[h]) = {},
           unfinished' = unfinished
    PROVE  \A v \in Users : KeepsDue(v)
BY DueStays


\* DELETE FROM sessions, after a change of access.
LEMMA DeleteSessionsCurrent ==
    ASSUME TypeOK, Shape, Holders, AllCurrent, NEW h \in Handlers, DeleteSessions(h)
    PROVE  AllCurrent'
<1> DEFINE u == handler[h].user
<1>1. /\ Others(h) /\ UNCHANGED <<accounts, token>>
      /\ handler[h].op \in {"change", "update"} /\ handler[h].at = "sessions" /\ u \in Users
      /\ handler[h].op = "change" => MovesTo(h, "tokens")
      /\ handler[h].op = "update" => handler'[h] = Idle
      /\ \A g \in Handlers \ {h} :
             handler[g].op = "login" /\ handler[g].user = u => handler'[g].grant.overtaken
      /\ \A s \in Sessions :
             /\ session'[s] \in {session[s], NoGrant}
             /\ session[s].user = u => session'[s] = NoGrant
      /\ \A v \in Users \ {u} : unfinished'[v] = unfinished[v]
  BY DeleteSessionsBecomes
<1>2. \A v \in Users : access'[v] = access[v]
  BY <1>1 DEF accounts
<1> HIDE DEF u
<1>3. ASSUME NEW v \in Users \ {u}
      PROVE  KeepsDue(v)
  <2> SUFFICES ASSUME NEW what \in {"sessions", "tokens"}, Due(v, what)
               PROVE  DueAfter(v, what)
    BY DEF KeepsDue
  <2>1. CASE what \in unfinished[v]
    BY <1>1, <2>1 DEF DueAfter
  <2>2. ASSUME NEW g \in Handlers, handler[g].user = v, what \in DueOf(handler[g])
        PROVE  DueAfter(v, what)
    <3>1. g # h
      BY <2>2 DEF u
    <3>2. Same(handler[g], handler'[g])
      BY <1>1, <3>1 DEF Others
    <3>3. handler'[g].user = v /\ what \in DueOf(handler'[g])
      BY <2>2, <3>2, ShapeSame DEF Same
    <3> QED BY <3>3 DEF DueAfter
  <2> QED BY <2>1, <2>2 DEF Due
<1>4. u \in Admins => DueAfter(u, "tokens")
  <2>1. u \in Admins => handler[h].op = "change"
    BY <1>1 DEF Shape, ShapeOf, u
  <2>2. handler[h].op = "change" => handler'[h].user = u /\ "tokens" \in DueOf(handler'[h])
    BY <1>1 DEF MovesTo, DueOf, u
  <2> QED BY <2>1, <2>2 DEF DueAfter
<1>5. ASSUME NEW s \in Sessions, session'[s].user # NoOne
      PROVE  CurrentAfter(session'[s])
  <2>1. session'[s] = session[s] /\ session[s].user # u
    BY <1>1, <1>5, IdleFields
  <2>2. session[s].user \in Users
    BY <1>5, <2>1 DEF TypeOK, Grant
  <2> QED BY <1>2, <1>3, <1>5, <2>1, <2>2, CurrentFollows, AllCurrentIs DEF Follows
<1>6. ASSUME NEW t \in Tokens, token'[t].user # NoOne
      PROVE  CurrentTokenAfter(token'[t])
  <2>1. token'[t] = token[t] /\ token[t].user \in Admins
    BY <1>1, <1>6, IdleFields DEF Holders
  <2>2. CASE token[t].user = u
    BY <1>4, <2>1, <2>2 DEF CurrentTokenAfter
  <2>3. CASE token[t].user # u
    <3>1. token[t].user \in Users
      BY <2>1, AccountsAssumption
    <3> QED
      BY <1>2, <1>3, <1>6, <2>1, <2>3, <3>1, CurrentFollows, AllCurrentIs DEF Follows
  <2> QED BY <2>2, <2>3
<1>7. ASSUME NEW g \in Handlers, handler'[g].op \in {"login", "mint"}
      PROVE  /\ handler'[g].op = "login" => CurrentAfter(handler'[g].grant)
             /\ handler'[g].op = "mint" => CurrentTokenAfter(handler'[g].grant)
  <2>1. g # h
    BY <1>1, <1>7, IdleFields DEF MovesTo
  <2>2. /\ handler'[g].op = handler[g].op /\ Follows(handler[g].grant, handler'[g].grant)
    BY <1>1, <2>1 DEF Others, Same, Follows
  <2>3. /\ handler[g].grant.user \in Users /\ handler[g].grant.user = handler[g].user
        /\ handler[g].op = "mint" => handler[g].user \in Admins
    BY <1>7, <2>2, HasUser DEF Shape, ShapeOf
  <2>4. CASE handler[g].user = u
    BY <1>1, <1>4, <2>1, <2>2, <2>3, <2>4 DEF CurrentAfter, CurrentTokenAfter, Follows
  <2>5. CASE handler[g].user # u
    BY <1>2, <1>3, <1>7, <2>2, <2>3, <2>5, CurrentFollows, AllCurrentIs
  <2> QED BY <2>4, <2>5
<1> QED
  BY <1>5, <1>6, <1>7, AllCurrentIs

\* UPDATE api_tokens, the end of change_password.
LEMMA RevokeTokensCurrent ==
    ASSUME TypeOK, Shape, Holders, AllCurrent, NEW h \in Handlers, RevokeTokens(h)
    PROVE  AllCurrent'
<1> DEFINE u == handler[h].user
<1>1. /\ Others(h) /\ UNCHANGED <<accounts, session>> /\ handler'[h] = Idle
      /\ handler[h].op = "change" /\ handler[h].at = "tokens" /\ u \in Users
      /\ \A g \in Handlers \ {h} :
             handler[g].op = "mint" /\ handler[g].user = u => handler'[g].grant.overtaken
      /\ \A t \in Tokens :
             /\ token'[t] \in {token[t], NoGrant}
             /\ token[t].user = u => token'[t] = NoGrant
      /\ \A v \in Users \ {u} : unfinished'[v] = unfinished[v]
      /\ unfinished'[u] = unfinished[u] \ {"tokens"}
  BY RevokeTokensBecomes
<1>2. \A v \in Users : access'[v] = access[v]
  BY <1>1 DEF accounts
<1>3. DueOf(handler[h]) = {"tokens"}
  BY <1>1 DEF DueOf
<1> HIDE DEF u
<1>4. ASSUME NEW v \in Users, NEW what \in {"sessions", "tokens"}, Due(v, what),
             v # u \/ what = "sessions"
      PROVE  DueAfter(v, what)
  <2>1. CASE what \in unfinished[v]
    BY <1>1, <1>4, <2>1 DEF DueAfter
  <2>2. ASSUME NEW g \in Handlers, handler[g].user = v, what \in DueOf(handler[g])
        PROVE  DueAfter(v, what)
    <3>1. g # h
      BY <1>3, <1>4, <2>2 DEF u
    <3>2. Same(handler[g], handler'[g])
      BY <1>1, <3>1 DEF Others
    <3>3. handler'[g].user = v /\ what \in DueOf(handler'[g])
      BY <2>2, <3>2, ShapeSame DEF Same
    <3> QED BY <3>3 DEF DueAfter
  <2> QED BY <1>4, <2>1, <2>2 DEF Due
<1>5. ASSUME NEW g, NEW q, Follows(g, q), g.user \in Users
      PROVE  /\ Current(g) => CurrentAfter(q)
             /\ g.user # u /\ CurrentToken(g) => CurrentTokenAfter(q)
  BY <1>2, <1>4, <1>5 DEF Follows, Current, CurrentToken, CurrentAfter, CurrentTokenAfter
<1>6. ASSUME NEW s \in Sessions, session'[s].user # NoOne
      PROVE  CurrentAfter(session'[s])
  <2>1. Follows(session[s], session'[s]) /\ session[s].user \in Users
    BY <1>1, <1>6 DEF Follows, TypeOK, Grant
  <2> QED BY <1>1, <1>5, <1>6, <2>1, AllCurrentIs
<1>7. ASSUME NEW t \in Tokens, token'[t].user # NoOne
      PROVE  CurrentTokenAfter(token'[t])
  <2>1. token'[t] = token[t] /\ token[t].user # u
    BY <1>1, <1>7, IdleFields
  <2>2. Follows(token[t], token'[t]) /\ token[t].user \in Users
    BY <1>7, <2>1 DEF Follows, TypeOK, Grant
  <2> QED BY <1>5, <1>7, <2>1, <2>2, AllCurrentIs
<1>8. ASSUME NEW g \in Handlers, handler'[g].op \in {"login", "mint"}
      PROVE  /\ handler'[g].op = "login" => CurrentAfter(handler'[g].grant)
             /\ handler'[g].op = "mint" => CurrentTokenAfter(handler'[g].grant)
  <2>1. g # h
    BY <1>1, <1>8, IdleFields
  <2>2. /\ handler'[g].op = handler[g].op /\ Follows(handler[g].grant, handler'[g].grant)
    BY <1>1, <2>1 DEF Others, Same, Follows
  <2>3. handler[g].grant.user \in Users /\ handler[g].grant.user = handler[g].user
    BY <1>8, <2>2, HasUser DEF Shape, ShapeOf
  <2>4. CASE handler[g].op = "login"
    BY <1>5, <2>2, <2>3, <2>4, AllCurrentIs
  <2>5. CASE handler[g].op = "mint" /\ handler[g].user = u
    BY <1>1, <2>1, <2>2, <2>5 DEF CurrentAfter, CurrentTokenAfter
  <2>6. CASE handler[g].op = "mint" /\ handler[g].user # u
    BY <1>5, <2>2, <2>3, <2>6, AllCurrentIs
  <2> QED BY <1>8, <2>2, <2>4, <2>5, <2>6
<1> QED
  BY <1>6, <1>7, <1>8, AllCurrentIs

\* A step of no request.
LEMMA CurrentStays ==
    ASSUME TypeOK, Shape, Holders, AllCurrent, UNCHANGED <<accounts, handler, unfinished>>,
           SessionsFollow, TokensFollow
    PROVE  AllCurrent'
<1>1. \A v \in Users : KeepsDue(v)
  BY DEF KeepsDue, Due, DueAfter
<1>2. \A v \in Users : access'[v] = access[v]
  BY DEF accounts
<1>3. ASSUME NEW s \in Sessions, session'[s].user # NoOne
      PROVE  CurrentAfter(session'[s])
  <2>1. CASE Follows(session[s], session'[s])
    <3>1. session[s].user \in Users
      BY <1>3, <2>1 DEF TypeOK, Grant, Follows
    <3> QED BY <1>1, <1>2, <1>3, <2>1, <3>1, CurrentFollows, AllCurrentIs DEF Follows
  <2> QED BY <1>3, <2>1 DEF SessionsFollow
<1>4. ASSUME NEW t \in Tokens, token'[t].user # NoOne
      PROVE  CurrentTokenAfter(token'[t])
  <2>1. CASE Follows(token[t], token'[t])
    <3>1. token[t].user \in Users
      BY <1>4, <2>1 DEF TypeOK, Grant, Follows
    <3> QED BY <1>1, <1>2, <1>4, <2>1, <3>1, CurrentFollows, AllCurrentIs DEF Follows
  <2> QED BY <1>4, <2>1 DEF TokensFollow, CurrentTokenAfter
<1>5. ASSUME NEW g \in Handlers, handler'[g].op \in {"login", "mint"}
      PROVE  /\ handler'[g].op = "login" => CurrentAfter(handler'[g].grant)
             /\ handler'[g].op = "mint" => CurrentTokenAfter(handler'[g].grant)
  <2>1. handler[g].grant.user \in Users /\ handler'[g] = handler[g]
    BY <1>5, HasUser DEF Shape, ShapeOf
  <2> QED BY <1>1, <1>2, <1>5, <2>1, CurrentFollows, AllCurrentIs DEF Follows
<1> QED
  BY <1>3, <1>4, <1>5, AllCurrentIs

\* Every step keeps grants current.
LEMMA CurrentKept ==
    ASSUME TypeOK, Shape, SameSession, Holders, AllCurrent, [Next]_vars
    PROVE  AllCurrent'
<1>1. ASSUME NEW h \in Handlers, NEW u \in Users, LoginRead(h, u)
      PROVE  AllCurrent'
  <2>1. /\ DueOf(handler[h]) = {} /\ Others(h) /\ UNCHANGED <<accounts, grants, unfinished>>
        /\ handler'[h].grant.user = u /\ handler'[h].grant.access = access[u]
    BY <1>1, LoginReadBecomes, IdleShape DEF Quiet, DueOf
  <2>2. RequestFollows(h)
    BY <2>1 DEF RequestFollows, CurrentAfter, accounts
  <2> QED BY <2>1, <2>2, OwesNothing, Unmoved, CurrentSteady
<1>2. ASSUME NEW h \in Handlers, LoginSecret(h)
      PROVE  AllCurrent'
  <2>1. /\ DueOf(handler[h]) = {} /\ Others(h) /\ UNCHANGED <<accounts, grants, unfinished>>
        /\ handler[h].op = "login" /\ handler'[h].op = "login"
        /\ handler'[h].grant.user = handler[h].grant.user
        /\ handler'[h].grant.access = handler[h].grant.access
        /\ handler'[h].grant.overtaken = handler[h].grant.overtaken
    BY <1>2, LoginSecretBecomes, IdleShape DEF Quiet, DueOf
  <2>2. RequestFollows(h)
    BY <2>1 DEF RequestFollows, Follows
  <2> QED BY <2>1, <2>2, OwesNothing, Unmoved, CurrentSteady
<1>3. ASSUME NEW h \in Handlers, LoginCode(h)
      PROVE  AllCurrent'
  <2>1. DueOf(handler[h]) = {}
    BY <1>3, LoginCodeBecomes DEF DueOf
  <2> QED BY <1>3, <2>1, LoginCodeBecomes, OwesNothing, Unmoved, CurrentSteady
<1>4. ASSUME NEW h \in Handlers, NEW s \in Sessions, LoginInsert(h, s)
      PROVE  AllCurrent'
  <2>1. /\ DueOf(handler[h]) = {} /\ Others(h) /\ handler'[h] = Idle
        /\ UNCHANGED <<accounts, token, unfinished>> /\ handler[h].op = "login"
        /\ session'[s] = handler[h].grant
        /\ \A r \in Sessions \ {s} : session'[r] = session[r]
    BY <1>4, LoginInsertBecomes DEF DueOf
  <2>2. \A v \in Users : KeepsDue(v)
    BY <2>1, OwesNothing
  <2>3. CurrentAfter(handler[h].grant)
    <3>1. handler[h].grant.user \in Users /\ Current(handler[h].grant)
      BY <2>1, HasUser, AllCurrentIs DEF Shape, ShapeOf
    <3>2. access'[handler[h].grant.user] = access[handler[h].grant.user]
      BY <2>1 DEF accounts
    <3> QED BY <2>2, <3>1, <3>2, CurrentFollows DEF Follows
  <2>4. SessionsFollow
    BY <2>1, <2>3 DEF SessionsFollow, Follows
  <2> QED BY <2>1, <2>2, <2>4, Unmoved, CurrentSteady
<1>5. ASSUME NEW h \in Handlers, NEW s \in Sessions, NEW op \in Ops, NEW u \in Users,
             Authenticate(h, s, op, u)
      PROVE  AllCurrent'
  <2>1. /\ DueOf(handler[h]) = {} /\ Others(h) /\ UNCHANGED <<accounts, grants, unfinished>>
        /\ session[s].user # NoOne /\ MayAsk(session[s], op, u) /\ handler'[h].op = op
        /\ op = "mint" => Follows(session[s], handler'[h].grant)
    BY <1>5, AuthenticateBecomes, IdleShape DEF Quiet, Live, Follows
  <2>2. \A v \in Users : KeepsDue(v)
    BY <2>1, OwesNothing
  <2>3. RequestFollows(h)
    <3>1. CASE op = "mint"
      <4>1. session[s].user \in Users /\ Current(session[s])
        BY <2>1, AllCurrentIs DEF TypeOK, Grant
      <4>2. access'[session[s].user] = access[session[s].user]
        BY <2>1 DEF accounts
      <4> QED BY <2>1, <2>2, <3>1, <4>1, <4>2, CurrentFollows DEF RequestFollows
    <3>2. CASE op # "mint"
      BY <2>1, <3>2 DEF MayAsk, RequestFollows
    <3> QED BY <3>1, <3>2
  <2> QED BY <2>1, <2>2, <2>3, Unmoved, CurrentSteady
<1>6. ASSUME NEW h \in Handlers, NEW t \in Tokens, NEW op \in Ops, NEW u \in Users,
             AuthenticateToken(h, t, op, u)
      PROVE  AllCurrent'
  <2>1. /\ DueOf(handler[h]) = {} /\ Others(h) /\ UNCHANGED <<accounts, grants, unfinished>>
        /\ handler'[h].op = op /\ op \in {"update", "create"}
    BY <1>6, AuthenticateTokenBecomes, IdleShape DEF Quiet, DueOf
  <2>2. RequestFollows(h)
    BY <2>1 DEF RequestFollows
  <2> QED BY <2>1, <2>2, OwesNothing, Unmoved, CurrentSteady
<1>7. ASSUME NEW h \in Handlers, Lock(h)
      PROVE  AllCurrent'
  <2>1. DueOf(handler[h]) = {}
    BY <1>7, LockBecomes DEF DueOf
  <2> QED BY <1>7, <2>1, LockBecomes, OwesNothing, Unmoved, CurrentSteady DEF Quiet
<1>8. ASSUME NEW h \in Handlers, Logout(h)
      PROVE  AllCurrent'
  <2>1. DueOf(handler[h]) = {}
    BY <1>8, LogoutBecomes DEF DueOf
  <2> QED BY <1>8, <2>1, LogoutBecomes, OwesNothing, Unmoved, CurrentSteady
<1>9. ASSUME NEW h \in Handlers, WritePassword(h)
      PROVE  AllCurrent'
  <2>1. /\ Others(h) /\ UNCHANGED <<grants, unfinished>> /\ MovesTo(h, "sessions")
        /\ handler[h].op \in {"change", "update"} /\ handler[h].at = "password"
        /\ \A v \in Users \ {handler[h].user} : access'[v] = access[v]
    BY <1>9, WritePasswordBecomes
  <2>2. /\ "sessions" \in DueOf(handler'[h]) /\ DueOf(handler[h]) \subseteq DueOf(handler'[h])
        /\ handler'[h].user = handler[h].user
    BY <2>1 DEF DueOf, MovesTo
  <2>3. \A v \in Users : KeepsDue(v)
    BY <2>1, <2>2, DueStays
  <2>4. AccessFollows
    BY <2>1, <2>2 DEF AccessFollows, DueAfter
  <2> QED BY <2>1, <2>3, <2>4, Unmoved, CurrentSteady
<1>10. ASSUME NEW h \in Handlers, NEW on \in BOOLEAN, UpdateRow(h, on)
       PROVE  AllCurrent'
  <2>1. /\ Others(h) /\ UNCHANGED <<grants, unfinished>>
        /\ MovesTo(h, "password") \/ MovesTo(h, "sessions")
        /\ handler[h].op = "update" /\ handler[h].at = "row"
        /\ \A v \in Users \ {handler[h].user} : access'[v] = access[v]
    BY <1>10, UpdateRowBecomes
  <2>2. /\ "sessions" \in DueOf(handler'[h]) /\ DueOf(handler[h]) = {}
        /\ handler'[h].user = handler[h].user
    BY <2>1 DEF DueOf, MovesTo
  <2>3. \A v \in Users : KeepsDue(v)
    BY <2>1, <2>2, OwesNothing
  <2>4. AccessFollows
    BY <2>1, <2>2 DEF AccessFollows, DueAfter
  <2> QED BY <2>1, <2>3, <2>4, Unmoved, CurrentSteady
<1>11. ASSUME NEW h \in Handlers, DeleteSessions(h)
       PROVE  AllCurrent'
  BY <1>11, DeleteSessionsCurrent
<1>12. ASSUME NEW h \in Handlers, RevokeTokens(h)
       PROVE  AllCurrent'
  BY <1>12, RevokeTokensCurrent
<1>13. ASSUME NEW h \in Handlers, CreateUser(h)
       PROVE  AllCurrent'
  <2>1. /\ Others(h) /\ UNCHANGED <<grants, unfinished>> /\ handler'[h] = Idle
        /\ handler[h].op = "create" /\ access[handler[h].user] = 0
        /\ \A v \in Users \ {handler[h].user} : access'[v] = access[v]
    BY <1>13, CreateUserBecomes
  <2>2. handler[h].user \notin Admins /\ DueOf(handler[h]) = {}
    BY <2>1 DEF Shape, ShapeOf, DueOf
  <2>3. AccessFollows
    BY <2>1, <2>2 DEF AccessFollows
  <2> QED BY <2>1, <2>2, <2>3, OwesNothing, Unmoved, CurrentSteady
<1>14. ASSUME NEW h \in Handlers, Enroll(h)
       PROVE  AllCurrent'
  <2>1. DueOf(handler[h]) = {}
    BY <1>14, EnrollBecomes DEF DueOf
  <2> QED BY <1>14, <2>1, EnrollBecomes, OwesNothing, Unmoved, CurrentSteady
<1>15. ASSUME NEW h \in Handlers, NEW k \in Periods, Confirm(h, k)
       PROVE  AllCurrent'
  <2>1. /\ Others(h) /\ handler'[h] = Idle /\ UNCHANGED <<accounts, token, unfinished>>
        /\ handler[h].op = "confirm"
        /\ \A s \in Sessions :
               \/ session'[s] = NoGrant
               \/ session'[s] = session[s]
               \/ session'[s] = [session[s] EXCEPT !.secret = pending[handler[h].user]]
    BY <1>15, ConfirmBecomes
  <2>2. DueOf(handler[h]) = {}
    BY <2>1 DEF DueOf
  <2>3. SessionsFollow
    <3>1. \A s \in Sessions : session[s] \in Grant
      BY DEF TypeOK
    <3> QED BY <2>1, <3>1, IdleFields DEF Grant, SessionsFollow, Follows
  <2> QED BY <2>1, <2>2, <2>3, OwesNothing, Unmoved, CurrentSteady
<1>16. ASSUME NEW h \in Handlers, DisableCode(h)
       PROVE  AllCurrent'
  <2>1. DueOf(handler[h]) = {}
    BY <1>16, DisableCodeBecomes DEF DueOf
  <2> QED BY <1>16, <2>1, DisableCodeBecomes, OwesNothing, Unmoved, CurrentSteady
<1>17. ASSUME NEW h \in Handlers, Disable(h)
       PROVE  AllCurrent'
  <2>1. DueOf(handler[h]) = {}
    BY <1>17, DisableBecomes DEF DueOf
  <2> QED BY <1>17, <2>1, DisableBecomes, OwesNothing, Unmoved, CurrentSteady
<1>18. ASSUME NEW h \in Handlers, CountTokens(h)
       PROVE  AllCurrent'
  <2>1. DueOf(handler[h]) = {}
    BY <1>18, CountTokensBecomes DEF DueOf
  <2> QED BY <1>18, <2>1, CountTokensBecomes, OwesNothing, Unmoved, CurrentSteady DEF Quiet
<1>19. ASSUME NEW h \in Handlers, NEW t \in Tokens, InsertToken(h, t)
       PROVE  AllCurrent'
  <2>1. /\ DueOf(handler[h]) = {} /\ Others(h) /\ handler'[h] = Idle
        /\ UNCHANGED <<accounts, session, unfinished>> /\ handler[h].op = "mint"
        /\ token'[t] = handler[h].grant
        /\ \A r \in Tokens \ {t} : token'[r] = token[r]
    BY <1>19, InsertTokenBecomes DEF DueOf
  <2>2. \A v \in Users : KeepsDue(v)
    BY <2>1, OwesNothing
  <2>3. CurrentTokenAfter(handler[h].grant)
    <3>1. handler[h].grant.user \in Users /\ CurrentToken(handler[h].grant)
      BY <2>1, HasUser, AllCurrentIs DEF Shape, ShapeOf
    <3>2. access'[handler[h].grant.user] = access[handler[h].grant.user]
      BY <2>1 DEF accounts
    <3> QED BY <2>2, <3>1, <3>2, CurrentFollows DEF Follows
  <2>4. TokensFollow
    BY <2>1, <2>3 DEF TokensFollow, Follows
  <2> QED BY <2>1, <2>2, <2>4, Unmoved, CurrentSteady
<1>20. ASSUME NEW h \in Handlers, NEW t \in Tokens, RevokeToken(h, t)
       PROVE  AllCurrent'
  <2>1. DueOf(handler[h]) = {}
    BY <1>20, RevokeTokenBecomes DEF DueOf
  <2> QED BY <1>20, <2>1, RevokeTokenBecomes, OwesNothing, Unmoved, CurrentSteady
<1>21. ASSUME NEW h \in Handlers, Drop(h)
       PROVE  AllCurrent'
  <2>1. \A v \in Users : KeepsDue(v)
    BY <1>21, DropBecomes, DueStays
  <2> QED BY <1>21, <2>1, DropBecomes, Unmoved, CurrentSteady
<1>22. CASE (\E s \in Sessions : ExpireSession(s)) \/ \E t \in Tokens : ExpireToken(t)
  <2>1. UNCHANGED <<accounts, handler, unfinished>> /\ SessionsFollow /\ TokensFollow
    BY <1>22, ExpireBecomes, Unmoved
  <2> QED BY <2>1, CurrentStays
<1>23. CASE \E u \in Users : ExpirePending(u)
  BY <1>23, ExpirePendingBecomes, Unmoved, CurrentStays
<1>24. CASE UNCHANGED vars
  BY <1>24, Unmoved, CurrentStays DEF vars
<1> QED
  BY <1>1, <1>2, <1>3, <1>4, <1>5, <1>6, <1>7, <1>8, <1>9, <1>10, <1>11, <1>12, <1>13, <1>14,
     <1>15, <1>16, <1>17, <1>18, <1>19, <1>20, <1>21, <1>22, <1>23, <1>24
     DEF Next, Login, Ask, ChangeAccess, ChangeFactor, ChangeTokens

-----------------------------------------------------------------------------
(* Sessions and the second factor. *)

Second(g) ==
    mfa[g.user].secret # 0 => g.secret = mfa[g.user].secret \/ g.overtaken
SecondAfter(g) ==
    mfa'[g.user].secret # 0 => g.secret = mfa'[g.user].secret \/ g.overtaken

AllSecond == SecondFactorHolds /\ InFlightSecond

\* A login whose code was checked, or that was asked for none.
Checked(r) == r.op = "login" /\ r.at \in {"code", "insert"}

LEMMA AllSecondIs ==
    ASSUME Shape
    PROVE  /\ AllSecond =>
                  /\ \A s \in Sessions : session[s].user # NoOne => Second(session[s])
                  /\ \A g \in Handlers : Checked(handler[g]) => Second(handler[g].grant)
           /\ /\ Shape'
              /\ \A s \in Sessions : session'[s].user # NoOne => SecondAfter(session'[s])
              /\ \A g \in Handlers : Checked(handler'[g]) => SecondAfter(handler'[g].grant)
              => AllSecond'
<1>1. \A g \in Handlers : Checked(handler[g]) => handler[g].grant.user = handler[g].user
  BY DEF Shape, ShapeOf, Checked
<1>2. Shape' => \A g \in Handlers :
                    Checked(handler'[g]) => handler'[g].grant.user = handler'[g].user
  BY DEF Shape, ShapeOf, Checked
<1>3. AllSecond =>
          /\ \A s \in Sessions : session[s].user # NoOne => Second(session[s])
          /\ \A g \in Handlers : Checked(handler[g]) => Second(handler[g].grant)
  BY <1>1 DEF AllSecond, SecondFactorHolds, InFlightSecond, Live, Checked, Second
<1>4. ASSUME \A s \in Sessions : session'[s].user # NoOne => SecondAfter(session'[s])
      PROVE  SecondFactorHolds'
  BY <1>4 DEF SecondFactorHolds, Live, SecondAfter
<1>5. ASSUME Shape', \A g \in Handlers : Checked(handler'[g]) => SecondAfter(handler'[g].grant)
      PROVE  InFlightSecond'
  BY <1>2, <1>5 DEF InFlightSecond, Checked, SecondAfter
<1> QED
  BY <1>3, <1>4, <1>5 DEF AllSecond

\* q is g, and at most overtaken.
Keeps(g, q) ==
    /\ q.user = g.user /\ q.secret = g.secret
    /\ g.overtaken => q.overtaken

SecretsStay == \A v \in Users : mfa'[v].secret = mfa[v].secret \/ mfa'[v].secret = 0
SessionsKeep ==
    \A s \in Sessions : session'[s].user # NoOne =>
        Keeps(session[s], session'[s]) \/ SecondAfter(session'[s])
RequestKeeps(h) ==
    Checked(handler'[h]) =>
        \/ Checked(handler[h]) /\ Keeps(handler[h].grant, handler'[h].grant)
        \/ SecondAfter(handler'[h].grant)

LEMMA SecondSteady ==
    ASSUME TypeOK, Shape, Shape', AllSecond, NEW h \in Handlers, Others(h),
           SecretsStay, SessionsKeep, RequestKeeps(h)
    PROVE  AllSecond'
<1>1. ASSUME NEW g, NEW q, Keeps(g, q), g.user \in Users, Second(g)
      PROVE  SecondAfter(q)
  BY <1>1 DEF Keeps, SecretsStay, Second, SecondAfter
<1>2. ASSUME NEW s \in Sessions, session'[s].user # NoOne
      PROVE  SecondAfter(session'[s])
  <2>1. CASE Keeps(session[s], session'[s])
    <3>1. session[s].user \in Users
      BY <1>2, <2>1 DEF TypeOK, Grant, Keeps
    <3> QED BY <1>1, <1>2, <2>1, <3>1, AllSecondIs DEF Keeps
  <2> QED BY <1>2, <2>1 DEF SessionsKeep
<1>3. ASSUME NEW g \in Handlers, Checked(handler[g]), Keeps(handler[g].grant, handler'[g].grant)
      PROVE  SecondAfter(handler'[g].grant)
  <2>1. handler[g].grant.user \in Users
    BY <1>3, HasUser DEF Shape, ShapeOf, Checked
  <2> QED BY <1>1, <1>3, <2>1, AllSecondIs
<1>4. ASSUME NEW g \in Handlers, Checked(handler'[g])
      PROVE  SecondAfter(handler'[g].grant)
  <2>1. CASE g = h
    BY <1>3, <1>4, <2>1 DEF RequestKeeps
  <2>2. CASE g # h
    <3>1. Checked(handler[g]) /\ Keeps(handler[g].grant, handler'[g].grant)
      BY <1>4, <2>2 DEF Others, Same, Checked, Keeps
    <3> QED BY <1>3, <3>1
  <2> QED BY <2>1, <2>2
<1> QED
  BY <1>2, <1>4, AllSecondIs

LEMMA SecondUnmoved ==
    /\ UNCHANGED factors => SecretsStay
    /\ UNCHANGED mfa => SecretsStay
    /\ (\A s \in Sessions : session'[s] \in {session[s], NoGrant}) => SessionsKeep
    /\ session' = session => SessionsKeep
    /\ UNCHANGED grants => SessionsKeep
    /\ \A h \in Handlers : handler'[h] = Idle => RequestKeeps(h)
    /\ \A h \in Handlers : handler'[h].op # "login" => RequestKeeps(h)
BY IdleFields DEF factors, SecretsStay, SessionsKeep, grants, RequestKeeps, Keeps, Checked

LEMMA SecondStays ==
    ASSUME TypeOK, Shape, AllSecond, UNCHANGED <<mfa, handler>>,
           \A s \in Sessions : session'[s] \in {session[s], NoGrant}
    PROVE  AllSecond'
BY IdleFields DEF AllSecond, SecondFactorHolds, InFlightSecond, Live

\* A session goes on under the secret its request confirmed, and all others end.
LEMMA ConfirmSecond ==
    ASSUME TypeOK, Shape, Shape', SameSession, AllSecond, NEW h \in Handlers, NEW k \in Periods,
           Confirm(h, k)
    PROVE  AllSecond'
<1> DEFINE u == handler[h].user
<1>1. /\ Others(h) /\ handler'[h] = Idle
      /\ mfa'[u] = [secret |-> pending[u], last |-> k]
      /\ \A v \in Users \ {u} : mfa'[v] = mfa[v]
      /\ \A g \in Handlers \ {h} :
             handler[g].op = "login" /\ handler[g].user = u => handler'[g].grant.overtaken
      /\ \A s \in Sessions :
             \/ session'[s] = NoGrant
             \/ session'[s] = session[s] /\ session[s].user # u
             \/ /\ session[s].user = u
                /\ session'[s] = [session[s] EXCEPT !.secret = pending[u]]
  BY ConfirmBecomes
<1> HIDE DEF u
<1>2. ASSUME NEW s \in Sessions, session'[s].user # NoOne
      PROVE  SecondAfter(session'[s])
  <2>1. session[s] \in Grant
    BY DEF TypeOK
  <2>2. CASE session'[s] = session[s] /\ session[s].user # u
    <3>1. session[s].user \in Users
      BY <1>2, <2>1, <2>2 DEF Grant
    <3> QED BY <1>1, <1>2, <2>2, <3>1, AllSecondIs DEF Second, SecondAfter
  <2>3. CASE session[s].user = u /\ session'[s] = [session[s] EXCEPT !.secret = pending[u]]
    BY <1>1, <2>1, <2>3 DEF Grant, SecondAfter
  <2> QED BY <1>1, <1>2, <2>2, <2>3, IdleFields
<1>3. ASSUME NEW g \in Handlers, Checked(handler'[g])
      PROVE  SecondAfter(handler'[g].grant)
  <2>1. g # h
    BY <1>1, <1>3, IdleFields DEF Checked
  <2>2. Checked(handler[g]) /\ Keeps(handler[g].grant, handler'[g].grant)
    BY <1>1, <1>3, <2>1 DEF Others, Same, Checked, Keeps
  <2>3. handler[g].grant.user \in Users /\ handler[g].grant.user = handler[g].user
    BY <2>2, HasUser DEF Shape, ShapeOf, Checked
  <2>4. CASE handler[g].user = u
    BY <1>1, <2>1, <2>2, <2>4 DEF Checked, SecondAfter
  <2>5. CASE handler[g].user # u
    <3>1. Second(handler[g].grant) /\ mfa'[handler[g].user] = mfa[handler[g].user]
      BY <1>1, <2>2, <2>3, <2>5, AllSecondIs
    <3> QED BY <2>2, <2>3, <3>1 DEF Keeps, Second, SecondAfter
  <2> QED BY <2>4, <2>5
<1> QED
  BY <1>2, <1>3, AllSecondIs

\* Every step keeps the second factor of sessions.
LEMMA SecondKept ==
    ASSUME TypeOK, Shape, Shape', SameSession, AllSecond, [Next]_vars
    PROVE  AllSecond'
<1>1. ASSUME NEW h \in Handlers, NEW u \in Users, LoginRead(h, u)
      PROVE  AllSecond'
  <2>1. RequestKeeps(h)
    BY <1>1, LoginReadBecomes DEF RequestKeeps, Checked
  <2> QED BY <1>1, <2>1, LoginReadBecomes, SecondUnmoved, SecondSteady DEF Quiet
<1>2. ASSUME NEW h \in Handlers, LoginSecret(h)
      PROVE  AllSecond'
  <2>1. /\ Others(h) /\ UNCHANGED <<grants, factors>> /\ handler[h].op = "login"
        /\ handler'[h].grant.user = handler[h].grant.user
        /\ handler'[h].grant.secret = mfa[handler[h].user].secret
    BY <1>2, LoginSecretBecomes DEF Quiet
  <2>2. SecondAfter(handler'[h].grant)
    BY <2>1 DEF Shape, ShapeOf, SecondAfter, factors
  <2> QED BY <2>1, <2>2, SecondUnmoved, SecondSteady DEF RequestKeeps
<1>3. ASSUME NEW h \in Handlers, LoginCode(h)
      PROVE  AllSecond'
  <2>1. /\ Others(h) /\ UNCHANGED grants /\ Verified(handler[h].user)
        /\ handler[h].op = "login" /\ handler[h].at = "code" /\ MovesTo(h, "insert")
    BY <1>3, LoginCodeBecomes
  <2>2. SecretsStay
    BY <2>1, HasUser, VerifiedTypes DEF SecretsStay
  <2>3. RequestKeeps(h)
    BY <2>1 DEF RequestKeeps, Checked, MovesTo, Keeps
  <2> QED BY <2>1, <2>2, <2>3, SecondUnmoved, SecondSteady
<1>4. ASSUME NEW h \in Handlers, NEW s \in Sessions, LoginInsert(h, s)
      PROVE  AllSecond'
  <2>1. /\ Others(h) /\ handler'[h] = Idle /\ UNCHANGED factors
        /\ Checked(handler[h]) /\ session'[s] = handler[h].grant
        /\ \A r \in Sessions \ {s} : session'[r] = session[r]
    BY <1>4, LoginInsertBecomes DEF Checked
  <2>2. SecondAfter(session'[s])
    BY <2>1, AllSecondIs DEF Second, SecondAfter, factors
  <2>3. SessionsKeep
    BY <2>1, <2>2 DEF SessionsKeep, Keeps
  <2> QED BY <2>1, <2>3, SecondUnmoved, SecondSteady
<1>5. ASSUME NEW h \in Handlers, NEW s \in Sessions, NEW op \in Ops, NEW u \in Users,
             Authenticate(h, s, op, u)
      PROVE  AllSecond'
  BY <1>5, AuthenticateBecomes, SecondUnmoved, SecondSteady DEF Quiet, MayAsk
<1>6. ASSUME NEW h \in Handlers, NEW t \in Tokens, NEW op \in Ops, NEW u \in Users,
             AuthenticateToken(h, t, op, u)
      PROVE  AllSecond'
  BY <1>6, AuthenticateTokenBecomes, SecondUnmoved, SecondSteady DEF Quiet
<1>7. ASSUME NEW h \in Handlers, Lock(h)
      PROVE  AllSecond'
  <2>1. Others(h) /\ UNCHANGED <<grants, factors>> /\ handler'[h].op # "login"
    BY <1>7, LockBecomes DEF MovesTo, Quiet
  <2> QED BY <2>1, SecondUnmoved, SecondSteady
<1>8. ASSUME NEW h \in Handlers, Logout(h)
      PROVE  AllSecond'
  BY <1>8, LogoutBecomes, SecondUnmoved, SecondSteady
<1>9. ASSUME NEW h \in Handlers, WritePassword(h)
      PROVE  AllSecond'
  <2>1. Others(h) /\ UNCHANGED <<grants, factors>> /\ handler'[h].op # "login"
    BY <1>9, WritePasswordBecomes DEF MovesTo
  <2> QED BY <2>1, SecondUnmoved, SecondSteady
<1>10. ASSUME NEW h \in Handlers, NEW on \in BOOLEAN, UpdateRow(h, on)
       PROVE  AllSecond'
  <2>1. Others(h) /\ UNCHANGED <<grants, factors>> /\ handler'[h].op # "login"
    BY <1>10, UpdateRowBecomes DEF MovesTo
  <2> QED BY <2>1, SecondUnmoved, SecondSteady
<1>11. ASSUME NEW h \in Handlers, DeleteSessions(h)
       PROVE  AllSecond'
  <2>1. Others(h) /\ UNCHANGED factors /\ handler'[h].op # "login"
    BY <1>11, DeleteSessionsBecomes, IdleFields DEF MovesTo
  <2> QED BY <1>11, <2>1, DeleteSessionsBecomes, SecondUnmoved, SecondSteady
<1>12. ASSUME NEW h \in Handlers, RevokeTokens(h)
       PROVE  AllSecond'
  BY <1>12, RevokeTokensBecomes, SecondUnmoved, SecondSteady
<1>13. ASSUME NEW h \in Handlers, CreateUser(h)
       PROVE  AllSecond'
  BY <1>13, CreateUserBecomes, SecondUnmoved, SecondSteady
<1>14. ASSUME NEW h \in Handlers, Enroll(h)
       PROVE  AllSecond'
  BY <1>14, EnrollBecomes, SecondUnmoved, SecondSteady
<1>15. ASSUME NEW h \in Handlers, NEW k \in Periods, Confirm(h, k)
       PROVE  AllSecond'
  BY <1>15, ConfirmSecond
<1>16. ASSUME NEW h \in Handlers, DisableCode(h)
       PROVE  AllSecond'
  <2>1. /\ Others(h) /\ UNCHANGED grants /\ handler[h].op = "disable"
        /\ Verified(handler[h].user) \/ UNCHANGED factors
        /\ handler'[h].op # "login"
    BY <1>16, DisableCodeBecomes DEF MovesTo
  <2>2. SecretsStay
    BY <2>1, HasUser, VerifiedTypes, SecondUnmoved DEF SecretsStay
  <2> QED BY <2>1, <2>2, SecondUnmoved, SecondSteady
<1>17. ASSUME NEW h \in Handlers, Disable(h)
       PROVE  AllSecond'
  <2>1. SecretsStay
    BY <1>17, DisableBecomes DEF SecretsStay
  <2> QED BY <1>17, <2>1, DisableBecomes, SecondUnmoved, SecondSteady
<1>18. ASSUME NEW h \in Handlers, CountTokens(h)
       PROVE  AllSecond'
  <2>1. Others(h) /\ UNCHANGED <<grants, factors>> /\ handler'[h].op # "login"
    BY <1>18, CountTokensBecomes DEF MovesTo, Quiet
  <2> QED BY <2>1, SecondUnmoved, SecondSteady
<1>19. ASSUME NEW h \in Handlers, NEW t \in Tokens, InsertToken(h, t)
       PROVE  AllSecond'
  BY <1>19, InsertTokenBecomes, SecondUnmoved, SecondSteady
<1>20. ASSUME NEW h \in Handlers, NEW t \in Tokens, RevokeToken(h, t)
       PROVE  AllSecond'
  BY <1>20, RevokeTokenBecomes, SecondUnmoved, SecondSteady
<1>21. ASSUME NEW h \in Handlers, Drop(h)
       PROVE  AllSecond'
  BY <1>21, DropBecomes, SecondUnmoved, SecondSteady
<1>22. CASE (\E s \in Sessions : ExpireSession(s)) \/ \E t \in Tokens : ExpireToken(t)
  BY <1>22, ExpireBecomes, SecondStays DEF factors
<1>23. CASE \E u \in Users : ExpirePending(u)
  BY <1>23, ExpirePendingBecomes, SecondStays DEF grants
<1>24. CASE UNCHANGED vars
  BY <1>24, SecondStays DEF vars, factors, grants
<1> QED
  BY <1>1, <1>2, <1>3, <1>4, <1>5, <1>6, <1>7, <1>8, <1>9, <1>10, <1>11, <1>12, <1>13, <1>14,
     <1>15, <1>16, <1>17, <1>18, <1>19, <1>20, <1>21, <1>22, <1>23, <1>24
     DEF Next, Login, Ask, ChangeAccess, ChangeFactor, ChangeTokens

-----------------------------------------------------------------------------
(* Codes count once. *)

AllCodes == OwnSecrets /\ UnusedCodes /\ CodesCountOnce

LEMMA CodeFields ==
    /\ \A c \in Codes : /\ c[1] \in Secrets /\ c[2] \in Periods \cup RecoveryCodes
                        /\ c = <<c[1], c[2]>> /\ c[1] # 0
    /\ \A k \in Periods, c \in RecoveryCodes : k # c
    /\ \A x \in 0 .. MaxSecrets, y \in Periods \cup RecoveryCodes :
           x # 0 => <<x, y>> \in Codes
BY AccountsAssumption DEF Codes, Secrets, Periods

LEMMA SecretTypes ==
    ASSUME TypeOK
    PROVE  /\ \A v \in Users : /\ mfa[v].secret \in 0 .. MaxSecrets /\ mfa[v].last \in Periods
                               /\ pending[v] \in 0 .. MaxSecrets
                               /\ recovery[v] \subseteq RecoveryCodes
           /\ \A c \in Codes : accepted[c] \in Nat
           /\ drawn \in Nat /\ Periods \subseteq Nat
BY AccountsAssumption DEF TypeOK, Periods

LEMMA CountStepCodes ==
    ASSUME TypeOK, AllCodes, NEW u \in Users, NEW k \in Periods, CountStep(u, k)
    PROVE  AllCodes'
<1> DEFINE new == <<mfa[u].secret, k>>
<1>1. /\ mfa[u].secret # 0 /\ mfa[u].last < k
      /\ mfa' = [mfa EXCEPT ![u].last = k] /\ Accept(new)
      /\ UNCHANGED <<pending, recovery, drawn>>
  BY DEF CountStep
<1>2. /\ \A v \in Users : mfa'[v].secret = mfa[v].secret
      /\ mfa'[u].last = k
      /\ \A v \in Users \ {u} : mfa'[v].last = mfa[v].last
  BY <1>1 DEF TypeOK
<1>3. new \in Codes /\ new[1] = mfa[u].secret /\ new[2] = k
  BY <1>1, SecretTypes, CodeFields
<1> HIDE DEF new
<1>4. accepted[new] = 0
  BY <1>1, <1>3 DEF AllCodes, UnusedCodes
<1>5. accepted'[new] = 1 /\ \A c \in Codes : c # new => accepted'[c] = accepted[c]
  BY <1>1, <1>3, <1>4, AcceptType
<1>6. OwnSecrets'
  BY <1>1, <1>2 DEF AllCodes, OwnSecrets
<1>7. CodesCountOnce'
  BY <1>5 DEF AllCodes, CodesCountOnce
<1>8. ASSUME NEW c \in Codes, c[1] > drawn
      PROVE  accepted'[c] = 0
  <2>1. c # new
    BY <1>3, <1>8, SecretTypes DEF AllCodes, OwnSecrets
  <2> QED BY <1>5, <1>8, <2>1 DEF AllCodes, UnusedCodes
<1>9. ASSUME NEW v \in Users, NEW c \in Codes, c[1] = pending[v]
      PROVE  accepted'[c] = 0
  <2>1. c # new
    BY <1>3, <1>9, CodeFields DEF AllCodes, OwnSecrets
  <2> QED BY <1>5, <1>9, <2>1 DEF AllCodes, UnusedCodes
<1>10. ASSUME NEW v \in Users, NEW c \in Codes, c[1] = mfa[v].secret, c[2] \in recovery[v]
       PROVE  accepted'[c] = 0
  <2>1. c # new
    BY <1>3, <1>10, CodeFields, SecretTypes
  <2> QED BY <1>5, <1>10, <2>1 DEF AllCodes, UnusedCodes
<1>11. ASSUME NEW v \in Users, NEW c \in Codes, c[1] = mfa[v].secret, c[2] \in Periods,
              c[2] > mfa'[v].last
       PROVE  accepted'[c] = 0
  <2>1. c # new /\ c[2] > mfa[v].last
    <3>1. CASE v = u
      BY <1>1, <1>2, <1>3, <1>11, <3>1, SecretTypes
    <3>2. CASE v # u
      BY <1>1, <1>2, <1>3, <1>11, <3>2 DEF AllCodes, OwnSecrets
    <3> QED BY <3>1, <3>2
  <2> QED BY <1>5, <1>11, <2>1 DEF AllCodes, UnusedCodes
<1>12. UnusedCodes'
  <2>1. \A v \in Users : mfa'[v].secret = 0 => recovery'[v] = {}
    BY <1>1, <1>2 DEF AllCodes, UnusedCodes
  <2> QED BY <1>1, <1>2, <1>8, <1>9, <1>10, <1>11, <2>1 DEF UnusedCodes
<1> QED
  BY <1>6, <1>7, <1>12 DEF AllCodes

LEMMA UseRecoveryCodes ==
    ASSUME TypeOK, AllCodes, NEW u \in Users, NEW d \in RecoveryCodes, UseRecovery(u, d)
    PROVE  AllCodes'
<1> DEFINE new == <<mfa[u].secret, d>>
<1>1. /\ d \in recovery[u] /\ recovery' = [recovery EXCEPT ![u] = @ \ {d}] /\ Accept(new)
      /\ UNCHANGED <<mfa, pending, drawn>>
  BY DEF UseRecovery
<1>2. /\ \A v \in Users : recovery'[v] \subseteq recovery[v]
      /\ d \notin recovery'[u]
  BY <1>1 DEF TypeOK
<1>3. mfa[u].secret # 0
  BY <1>1 DEF AllCodes, UnusedCodes
<1>4. new \in Codes /\ new[1] = mfa[u].secret /\ new[2] = d
  BY <1>3, SecretTypes, CodeFields
<1> HIDE DEF new
<1>5. accepted[new] = 0
  BY <1>1, <1>4 DEF AllCodes, UnusedCodes
<1>6. accepted'[new] = 1 /\ \A c \in Codes : c # new => accepted'[c] = accepted[c]
  BY <1>1, <1>4, <1>5, AcceptType
<1>7. OwnSecrets'
  BY <1>1 DEF AllCodes, OwnSecrets
<1>8. CodesCountOnce'
  BY <1>6 DEF AllCodes, CodesCountOnce
<1>9. ASSUME NEW c \in Codes, c[1] > drawn
      PROVE  accepted'[c] = 0
  <2>1. c # new
    BY <1>4, <1>9, SecretTypes DEF AllCodes, OwnSecrets
  <2> QED BY <1>6, <1>9, <2>1 DEF AllCodes, UnusedCodes
<1>10. ASSUME NEW v \in Users, NEW c \in Codes, c[1] = pending[v]
       PROVE  accepted'[c] = 0
  <2>1. c # new
    BY <1>4, <1>10, CodeFields DEF AllCodes, OwnSecrets
  <2> QED BY <1>6, <1>10, <2>1 DEF AllCodes, UnusedCodes
<1>11. ASSUME NEW v \in Users, NEW c \in Codes, c[1] = mfa[v].secret, c[2] \in recovery'[v]
       PROVE  accepted'[c] = 0
  <2>1. c # new
    BY <1>2, <1>3, <1>4, <1>11 DEF AllCodes, OwnSecrets
  <2> QED BY <1>2, <1>6, <1>11, <2>1 DEF AllCodes, UnusedCodes
<1>12. ASSUME NEW v \in Users, NEW c \in Codes, c[1] = mfa[v].secret, c[2] \in Periods,
              c[2] > mfa[v].last
       PROVE  accepted'[c] = 0
  <2>1. c # new
    BY <1>4, <1>12, CodeFields
  <2> QED BY <1>6, <1>12, <2>1 DEF AllCodes, UnusedCodes
<1>13. UnusedCodes'
  <2>1. \A v \in Users : mfa[v].secret = 0 => recovery'[v] = {}
    BY <1>2 DEF AllCodes, UnusedCodes
  <2> QED BY <1>1, <1>9, <1>10, <1>11, <1>12, <2>1 DEF UnusedCodes
<1> QED
  BY <1>7, <1>8, <1>13 DEF AllCodes

LEMMA VerifiedCodes ==
    ASSUME TypeOK, AllCodes, NEW u \in Users, Verified(u)
    PROVE  AllCodes'
BY CountStepCodes, UseRecoveryCodes DEF Verified

LEMMA EnrollCodes ==
    ASSUME TypeOK, Shape, AllCodes, NEW h \in Handlers, Enroll(h)
    PROVE  AllCodes'
<1> DEFINE u == handler[h].user
<1>1. /\ UNCHANGED <<mfa, recovery, accepted>> /\ u \in Users
      /\ drawn' = drawn + 1 /\ pending'[u] = drawn + 1
      /\ \A v \in Users \ {u} : pending'[v] = pending[v]
  BY EnrollBecomes
<1> HIDE DEF u
<1>2. OwnSecrets'
  BY <1>1, SecretTypes DEF AllCodes, OwnSecrets
<1>3. \A c \in Codes : c[1] > drawn' => accepted'[c] = 0
  BY <1>1, SecretTypes, CodeFields DEF AllCodes, UnusedCodes, Secrets
<1>4. ASSUME NEW v \in Users, NEW c \in Codes, c[1] = pending'[v]
      PROVE  accepted'[c] = 0
  <2>1. v = u => c[1] > drawn
    BY <1>1, <1>4, SecretTypes
  <2> QED BY <1>1, <1>4, <2>1 DEF AllCodes, UnusedCodes
<1>5. UnusedCodes'
  BY <1>1, <1>3, <1>4 DEF AllCodes, UnusedCodes
<1>6. CodesCountOnce'
  BY <1>1 DEF AllCodes, CodesCountOnce
<1> QED
  BY <1>2, <1>5, <1>6 DEF AllCodes

LEMMA ConfirmCodes ==
    ASSUME TypeOK, Shape, SameSession, AllCodes, NEW h \in Handlers, NEW k \in Periods,
           Confirm(h, k)
    PROVE  AllCodes'
<1> DEFINE u == handler[h].user
           new == <<pending[u], k>>
<1>1. /\ UNCHANGED drawn /\ u \in Users /\ pending[u] # 0
      /\ mfa'[u] = [secret |-> pending[u], last |-> k]
      /\ \A v \in Users \ {u} :
             mfa'[v] = mfa[v] /\ recovery'[v] = recovery[v] /\ pending'[v] = pending[v]
      /\ recovery'[u] = RecoveryCodes /\ pending'[u] = 0
      /\ Accept(new)
  BY ConfirmBecomes
<1> HIDE DEF u
<1>2. mfa'[u].secret = pending[u] /\ mfa'[u].last = k
  BY <1>1
<1>3. new \in Codes /\ new[1] = pending[u] /\ new[2] = k
  BY <1>1, SecretTypes, CodeFields
<1> HIDE DEF new
<1>4. accepted[new] = 0
  BY <1>1, <1>3 DEF AllCodes, UnusedCodes
<1>5. accepted'[new] = 1 /\ \A c \in Codes : c # new => accepted'[c] = accepted[c]
  BY <1>1, <1>3, <1>4, AcceptType
<1>6. OwnSecrets'
  <2>1. \A v \in Users : mfa'[v].secret <= drawn' /\ pending'[v] <= drawn'
    BY <1>1, <1>2, SecretTypes DEF AllCodes, OwnSecrets
  <2>2. \A v, w \in Users : v # w /\ mfa'[v].secret # 0 => mfa'[v].secret # mfa'[w].secret
    BY <1>1, <1>2 DEF AllCodes, OwnSecrets
  <2>3. \A v, w \in Users : v # w /\ pending'[v] # 0 => pending'[v] # pending'[w]
    BY <1>1 DEF AllCodes, OwnSecrets
  <2>4. \A v, w \in Users : pending'[v] # 0 => pending'[v] # mfa'[w].secret
    BY <1>1, <1>2 DEF AllCodes, OwnSecrets
  <2> QED BY <2>1, <2>2, <2>3, <2>4 DEF OwnSecrets
<1>7. CodesCountOnce'
  BY <1>5 DEF AllCodes, CodesCountOnce
<1>8. ASSUME NEW c \in Codes, c[1] > drawn
      PROVE  accepted'[c] = 0
  <2>1. c # new
    BY <1>1, <1>3, <1>8, SecretTypes DEF AllCodes, OwnSecrets
  <2> QED BY <1>5, <1>8, <2>1 DEF AllCodes, UnusedCodes
<1>9. ASSUME NEW v \in Users, NEW c \in Codes, c[1] = pending'[v]
      PROVE  accepted'[c] = 0
  <2>1. v # u /\ c[1] = pending[v] /\ pending[v] # 0
    BY <1>1, <1>9, CodeFields
  <2>2. c # new
    BY <1>1, <1>3, <2>1 DEF AllCodes, OwnSecrets
  <2> QED BY <1>5, <2>1, <2>2 DEF AllCodes, UnusedCodes
<1>10. ASSUME NEW v \in Users, NEW c \in Codes, c[1] = mfa'[v].secret,
              \/ c[2] \in recovery'[v]
              \/ c[2] \in Periods /\ c[2] > mfa'[v].last
       PROVE  accepted'[c] = 0
  <2>1. CASE v = u
    <3>1. c[1] = pending[u] /\ c # new
      BY <1>1, <1>2, <1>3, <1>10, <2>1, CodeFields, SecretTypes
    <3> QED BY <1>1, <1>5, <3>1 DEF AllCodes, UnusedCodes
  <2>2. CASE v # u
    <3>1. c # new
      BY <1>1, <1>3, <1>10, <2>2 DEF AllCodes, OwnSecrets
    <3> QED BY <1>1, <1>5, <1>10, <2>2, <3>1 DEF AllCodes, UnusedCodes
  <2> QED BY <2>1, <2>2
<1>11. UnusedCodes'
  <2>1. \A v \in Users : mfa'[v].secret = 0 => recovery'[v] = {}
    BY <1>1, <1>2 DEF AllCodes, UnusedCodes
  <2> QED BY <1>1, <1>8, <1>9, <1>10, <2>1 DEF UnusedCodes
<1> QED
  BY <1>6, <1>7, <1>11 DEF AllCodes

LEMMA DisableCodes ==
    ASSUME TypeOK, Shape, AllCodes, NEW h \in Handlers, Disable(h)
    PROVE  AllCodes'
<1> DEFINE u == handler[h].user
<1>1. /\ UNCHANGED <<drawn, accepted>> /\ u \in Users
      /\ mfa'[u].secret = 0 /\ recovery'[u] = {} /\ pending'[u] = 0
      /\ \A v \in Users \ {u} :
             mfa'[v] = mfa[v] /\ recovery'[v] = recovery[v] /\ pending'[v] = pending[v]
  BY DisableBecomes
<1> HIDE DEF u
<1>2. OwnSecrets'
  BY <1>1, SecretTypes DEF AllCodes, OwnSecrets
<1>3. UnusedCodes'
  BY <1>1, CodeFields DEF AllCodes, UnusedCodes
<1>4. CodesCountOnce'
  BY <1>1 DEF AllCodes, CodesCountOnce
<1> QED
  BY <1>2, <1>3, <1>4 DEF AllCodes

LEMMA ExpirePendingCodes ==
    ASSUME TypeOK, AllCodes, NEW u \in Users, ExpirePending(u)
    PROVE  AllCodes'
<1>1. /\ UNCHANGED <<mfa, recovery, drawn, accepted>>
      /\ pending'[u] = 0 /\ \A v \in Users \ {u} : pending'[v] = pending[v]
  BY ExpirePendingBecomes
<1>2. OwnSecrets'
  BY <1>1, SecretTypes DEF AllCodes, OwnSecrets
<1>3. UnusedCodes'
  BY <1>1, CodeFields DEF AllCodes, UnusedCodes
<1>4. CodesCountOnce'
  BY <1>1 DEF AllCodes, CodesCountOnce
<1> QED
  BY <1>2, <1>3, <1>4 DEF AllCodes

LEMMA CodesStay ==
    ASSUME AllCodes, UNCHANGED factors
    PROVE  AllCodes'
BY DEF factors, AllCodes, OwnSecrets, UnusedCodes, CodesCountOnce, Codes

\* Every step accepts a code that was not accepted before.
LEMMA CodesKept ==
    ASSUME TypeOK, Shape, SameSession, AllCodes, [Next]_vars
    PROVE  AllCodes'
<1>1. ASSUME NEW h \in Handlers, NEW u \in Users, LoginRead(h, u)
      PROVE  AllCodes'
  BY <1>1, LoginReadBecomes, CodesStay DEF Quiet
<1>2. ASSUME NEW h \in Handlers, LoginSecret(h)
      PROVE  AllCodes'
  BY <1>2, LoginSecretBecomes, CodesStay DEF Quiet
<1>3. ASSUME NEW h \in Handlers, LoginCode(h)
      PROVE  AllCodes'
  BY <1>3, LoginCodeBecomes, HasUser, VerifiedCodes
<1>4. ASSUME NEW h \in Handlers, NEW s \in Sessions, LoginInsert(h, s)
      PROVE  AllCodes'
  BY <1>4, LoginInsertBecomes, CodesStay
<1>5. ASSUME NEW h \in Handlers, NEW s \in Sessions, NEW op \in Ops, NEW u \in Users,
             Authenticate(h, s, op, u)
      PROVE  AllCodes'
  BY <1>5, AuthenticateBecomes, CodesStay DEF Quiet
<1>6. ASSUME NEW h \in Handlers, NEW t \in Tokens, NEW op \in Ops, NEW u \in Users,
             AuthenticateToken(h, t, op, u)
      PROVE  AllCodes'
  BY <1>6, AuthenticateTokenBecomes, CodesStay DEF Quiet
<1>7. ASSUME NEW h \in Handlers, Lock(h)
      PROVE  AllCodes'
  BY <1>7, LockBecomes, CodesStay DEF Quiet
<1>8. ASSUME NEW h \in Handlers, Logout(h)
      PROVE  AllCodes'
  BY <1>8, LogoutBecomes, CodesStay
<1>9. ASSUME NEW h \in Handlers, WritePassword(h)
      PROVE  AllCodes'
  BY <1>9, WritePasswordBecomes, CodesStay
<1>10. ASSUME NEW h \in Handlers, NEW on \in BOOLEAN, UpdateRow(h, on)
       PROVE  AllCodes'
  BY <1>10, UpdateRowBecomes, CodesStay
<1>11. ASSUME NEW h \in Handlers, DeleteSessions(h)
       PROVE  AllCodes'
  BY <1>11, DeleteSessionsBecomes, CodesStay
<1>12. ASSUME NEW h \in Handlers, RevokeTokens(h)
       PROVE  AllCodes'
  BY <1>12, RevokeTokensBecomes, CodesStay
<1>13. ASSUME NEW h \in Handlers, CreateUser(h)
       PROVE  AllCodes'
  BY <1>13, CreateUserBecomes, CodesStay
<1>14. ASSUME NEW h \in Handlers, Enroll(h)
       PROVE  AllCodes'
  BY <1>14, EnrollCodes
<1>15. ASSUME NEW h \in Handlers, NEW k \in Periods, Confirm(h, k)
       PROVE  AllCodes'
  BY <1>15, ConfirmCodes
<1>16. ASSUME NEW h \in Handlers, DisableCode(h)
       PROVE  AllCodes'
  BY <1>16, DisableCodeBecomes, HasUser, VerifiedCodes, CodesStay
<1>17. ASSUME NEW h \in Handlers, Disable(h)
       PROVE  AllCodes'
  BY <1>17, DisableCodes
<1>18. ASSUME NEW h \in Handlers, CountTokens(h)
       PROVE  AllCodes'
  BY <1>18, CountTokensBecomes, CodesStay DEF Quiet
<1>19. ASSUME NEW h \in Handlers, NEW t \in Tokens, InsertToken(h, t)
       PROVE  AllCodes'
  BY <1>19, InsertTokenBecomes, CodesStay
<1>20. ASSUME NEW h \in Handlers, NEW t \in Tokens, RevokeToken(h, t)
       PROVE  AllCodes'
  BY <1>20, RevokeTokenBecomes, CodesStay
<1>21. ASSUME NEW h \in Handlers, Drop(h)
       PROVE  AllCodes'
  BY <1>21, DropBecomes, CodesStay
<1>22. CASE (\E s \in Sessions : ExpireSession(s)) \/ \E t \in Tokens : ExpireToken(t)
  BY <1>22, ExpireBecomes, CodesStay
<1>23. CASE \E u \in Users : ExpirePending(u)
  BY <1>23, ExpirePendingCodes
<1>24. CASE UNCHANGED vars
  BY <1>24, CodesStay DEF vars
<1> QED
  BY <1>1, <1>2, <1>3, <1>4, <1>5, <1>6, <1>7, <1>8, <1>9, <1>10, <1>11, <1>12, <1>13, <1>14,
     <1>15, <1>16, <1>17, <1>18, <1>19, <1>20, <1>21, <1>22, <1>23, <1>24
     DEF Next, Login, Ask, ChangeAccess, ChangeFactor, ChangeTokens

-----------------------------------------------------------------------------
(* The limit of tokens. *)

AllTokens == TokenLimitHolds /\ CountedTokens

ActiveNext(u) == {t \in Tokens : token'[t].user = u}

LEMMA ActiveFinite ==
    /\ \A u : IsFiniteSet(Active(u)) /\ Cardinality(Active(u)) \in Nat
    /\ \A u : IsFiniteSet(ActiveNext(u)) /\ Cardinality(ActiveNext(u)) \in Nat
<1>1. ASSUME NEW u
      PROVE  /\ IsFiniteSet(Active(u)) /\ Cardinality(Active(u)) \in Nat
             /\ IsFiniteSet(ActiveNext(u)) /\ Cardinality(ActiveNext(u)) \in Nat
  <2>1. Active(u) \subseteq Tokens /\ ActiveNext(u) \subseteq Tokens /\ IsFiniteSet(Tokens)
    BY AccountsAssumption DEF Active, ActiveNext
  <2>2. IsFiniteSet(Active(u)) /\ IsFiniteSet(ActiveNext(u))
    BY <2>1, FS_Subset
  <2> QED BY <2>2, FS_CardinalityType
<1> QED BY <1>1

LEMMA FewerTokens ==
    ASSUME NEW u \in Users, TokensShrink
    PROVE  Cardinality(ActiveNext(u)) <= Cardinality(Active(u))
<1>1. u # NoOne
  BY AccountsAssumption
<1>2. ActiveNext(u) \subseteq Active(u)
  BY <1>1, IdleFields DEF ActiveNext, Active, TokensShrink
<1> QED BY <1>2, ActiveFinite, FS_Subset

\* The active tokens are fewer than the limit when h is about to insert, after a step.
BelowNext(h) ==
    handler'[h].op = "mint" /\ handler'[h].at = "insert" =>
        Cardinality(ActiveNext(handler'[h].user)) < TokenLimit

LEMMA AllTokensNext ==
    ASSUME \A u \in Users : Cardinality(ActiveNext(u)) <= TokenLimit,
           \A h \in Handlers : BelowNext(h)
    PROVE  AllTokens'
BY DEF AllTokens, TokenLimitHolds, CountedTokens, BelowNext, ActiveNext, Active

LEMMA LimitStays ==
    ASSUME AllTokens, TokensShrink
    PROVE  \A u \in Users : Cardinality(ActiveNext(u)) <= TokenLimit
<1> SUFFICES ASSUME NEW u \in Users
             PROVE  Cardinality(ActiveNext(u)) <= TokenLimit
  OBVIOUS
<1>1. Cardinality(Active(u)) <= TokenLimit /\ TokenLimit \in Nat
  BY AccountsAssumption DEF AllTokens, TokenLimitHolds
<1> QED BY <1>1, FewerTokens, ActiveFinite

LEMMA BelowStays ==
    ASSUME TypeOK, Shape, AllTokens, TokensShrink, NEW g \in Handlers,
           handler'[g].op = handler[g].op, handler'[g].at = handler[g].at,
           handler'[g].user = handler[g].user
    PROVE  BelowNext(g)
<1> SUFFICES ASSUME handler'[g].op = "mint", handler'[g].at = "insert"
             PROVE  Cardinality(ActiveNext(handler'[g].user)) < TokenLimit
  BY DEF BelowNext
<1> DEFINE u == handler[g].user
<1>1. handler'[g].user = u /\ u \in Users
  BY HasUser
<1>2. Cardinality(Active(u)) < TokenLimit /\ TokenLimit \in Nat
  BY AccountsAssumption DEF AllTokens, CountedTokens
<1> HIDE DEF u
<1> QED BY <1>1, <1>2, FewerTokens, ActiveFinite

\* A step that adds no token, and after which h is not about to insert one.
LEMMA TokensSteady ==
    ASSUME TypeOK, Shape, AllTokens, NEW h \in Handlers, Others(h), TokensShrink,
           handler'[h].op # "mint" \/ handler'[h].at # "insert"
    PROVE  AllTokens'
<1>1. \A g \in Handlers : BelowNext(g)
  <2>1. BelowNext(h)
    BY DEF BelowNext
  <2>2. \A g \in Handlers \ {h} : BelowNext(g)
    BY BelowStays DEF Others, Same
  <2> QED BY <2>1, <2>2
<1> QED BY <1>1, LimitStays, AllTokensNext

LEMMA TokensStay ==
    ASSUME TypeOK, Shape, AllTokens, UNCHANGED handler, TokensShrink
    PROVE  AllTokens'
BY BelowStays, LimitStays, AllTokensNext

\* What was counted under the mutex is still true: nobody else is about to insert.
LEMMA InsertTokenKeeps ==
    ASSUME TypeOK, Shape, Mutex, AllTokens, NEW h \in Handlers, NEW t \in Tokens,
           InsertToken(h, t)
    PROVE  AllTokens'
<1> DEFINE u == handler[h].user
<1>1. /\ Others(h) /\ token[t] = NoGrant /\ token'[t] = handler[h].grant
      /\ \A v \in Tokens \ {t} : token'[v] = token[v]
      /\ handler[h].op = "mint" /\ handler[h].at = "insert" /\ handler'[h] = Idle
  BY InsertTokenBecomes
<1>2. u \in Users /\ token'[t].user = u
  BY <1>1, HasUser DEF Shape, ShapeOf
<1>3. Cardinality(Active(u)) < TokenLimit /\ TokenLimit \in Nat
  BY <1>1, AccountsAssumption DEF AllTokens, CountedTokens
<1> HIDE DEF u
<1>4. \A v \in Users : v # NoOne
  BY AccountsAssumption
<1>5. ASSUME NEW v \in Users
      PROVE  Cardinality(ActiveNext(v)) <= TokenLimit
  <2>1. CASE v = u
    <3>1. ActiveNext(u) = Active(u) \cup {t}
      BY <1>1, <1>2 DEF ActiveNext, Active
    <3>2. t \notin Active(u)
      BY <1>1, <1>2, <1>4, IdleFields DEF Active
    <3>3. Cardinality(ActiveNext(u)) = Cardinality(Active(u)) + 1
      BY <3>1, <3>2, ActiveFinite, FS_AddElement
    <3> QED BY <1>3, <2>1, <3>3, ActiveFinite
  <2>2. CASE v # u
    <3>1. ActiveNext(v) = Active(v)
      BY <1>1, <1>2, <1>4, <2>2, IdleFields DEF ActiveNext, Active
    <3> QED BY <3>1 DEF AllTokens, TokenLimitHolds
  <2> QED BY <2>1, <2>2
<1>6. ASSUME NEW g \in Handlers
      PROVE  BelowNext(g)
  <2>1. CASE g = h
    BY <1>1, <2>1, IdleFields DEF BelowNext
  <2>2. CASE g # h
    <3>1. ~(handler[g].op = "mint" /\ handler[g].at = "insert")
      BY <1>1, <2>2 DEF Mutex, Locked
    <3> QED BY <1>1, <2>2, <3>1 DEF Others, Same, BelowNext
  <2> QED BY <2>1, <2>2
<1> QED BY <1>5, <1>6, AllTokensNext

LEMMA CountTokensKeeps ==
    ASSUME TypeOK, Shape, AllTokens, NEW h \in Handlers, CountTokens(h)
    PROVE  AllTokens'
<1> DEFINE u == handler[h].user
<1>1. /\ Others(h) /\ UNCHANGED token /\ handler[h].op = "mint"
      /\ handler'[h].user = u
      /\ Cardinality(Active(u)) < TokenLimit
  BY CountTokensBecomes DEF Quiet, grants, MovesTo
<1>2. TokensShrink
  BY <1>1 DEF TokensShrink
<1>3. u \in Users
  BY <1>1, HasUser
<1> HIDE DEF u
<1>4. TokenLimit \in Nat
  BY AccountsAssumption
<1>5. BelowNext(h)
  <2>1. Cardinality(ActiveNext(u)) < TokenLimit
    BY <1>1, <1>2, <1>3, <1>4, FewerTokens, ActiveFinite
  <2> QED BY <1>1, <2>1 DEF BelowNext
<1>6. \A g \in Handlers \ {h} : BelowNext(g)
  BY <1>1, <1>2, BelowStays DEF Others, Same
<1> QED BY <1>2, <1>5, <1>6, LimitStays, AllTokensNext

\* Every step leaves the tokens of an administrator within the limit.
LEMMA TokensKept ==
    ASSUME TypeOK, Shape, Mutex, SameSession, AllTokens, [Next]_vars
    PROVE  AllTokens'
<1>1. ASSUME NEW h \in Handlers, NEW u \in Users, LoginRead(h, u)
      PROVE  AllTokens'
  BY <1>1, LoginReadBecomes, Shrinks, TokensSteady DEF Quiet, grants
<1>2. ASSUME NEW h \in Handlers, LoginSecret(h)
      PROVE  AllTokens'
  BY <1>2, LoginSecretBecomes, Shrinks, TokensSteady DEF Quiet, grants
<1>3. ASSUME NEW h \in Handlers, LoginCode(h)
      PROVE  AllTokens'
  BY <1>3, LoginCodeBecomes, Shrinks, IdleFields, TokensSteady DEF MovesTo
<1>4. ASSUME NEW h \in Handlers, NEW s \in Sessions, LoginInsert(h, s)
      PROVE  AllTokens'
  BY <1>4, LoginInsertBecomes, Shrinks, IdleFields, TokensSteady
<1>5. ASSUME NEW h \in Handlers, NEW s \in Sessions, NEW op \in Ops, NEW u \in Users,
             Authenticate(h, s, op, u)
      PROVE  AllTokens'
  BY <1>5, AuthenticateBecomes, Shrinks, TokensSteady DEF Quiet, FirstPlace
<1>6. ASSUME NEW h \in Handlers, NEW t \in Tokens, NEW op \in Ops, NEW u \in Users,
             AuthenticateToken(h, t, op, u)
      PROVE  AllTokens'
  BY <1>6, AuthenticateTokenBecomes, Shrinks, TokensSteady DEF Quiet, grants
<1>7. ASSUME NEW h \in Handlers, Lock(h)
      PROVE  AllTokens'
  BY <1>7, LockBecomes, Shrinks, TokensSteady DEF Quiet, Within, MovesTo
<1>8. ASSUME NEW h \in Handlers, Logout(h)
      PROVE  AllTokens'
  BY <1>8, LogoutBecomes, Shrinks, IdleFields, TokensSteady
<1>9. ASSUME NEW h \in Handlers, WritePassword(h)
      PROVE  AllTokens'
  BY <1>9, WritePasswordBecomes, Shrinks, IdleFields, TokensSteady DEF MovesTo
<1>10. ASSUME NEW h \in Handlers, NEW on \in BOOLEAN, UpdateRow(h, on)
       PROVE  AllTokens'
  BY <1>10, UpdateRowBecomes, Shrinks, IdleFields, TokensSteady DEF MovesTo
<1>11. ASSUME NEW h \in Handlers, DeleteSessions(h)
       PROVE  AllTokens'
  BY <1>11, DeleteSessionsBecomes, Shrinks, IdleFields, TokensSteady DEF MovesTo
<1>12. ASSUME NEW h \in Handlers, RevokeTokens(h)
       PROVE  AllTokens'
  BY <1>12, RevokeTokensBecomes, IdleFields, TokensSteady DEF TokensShrink
<1>13. ASSUME NEW h \in Handlers, CreateUser(h)
       PROVE  AllTokens'
  BY <1>13, CreateUserBecomes, Shrinks, IdleFields, TokensSteady
<1>14. ASSUME NEW h \in Handlers, Enroll(h)
       PROVE  AllTokens'
  BY <1>14, EnrollBecomes, Shrinks, IdleFields, TokensSteady
<1>15. ASSUME NEW h \in Handlers, NEW k \in Periods, Confirm(h, k)
       PROVE  AllTokens'
  BY <1>15, ConfirmBecomes, Shrinks, IdleFields, TokensSteady
<1>16. ASSUME NEW h \in Handlers, DisableCode(h)
       PROVE  AllTokens'
  BY <1>16, DisableCodeBecomes, Shrinks, IdleFields, TokensSteady DEF MovesTo
<1>17. ASSUME NEW h \in Handlers, Disable(h)
       PROVE  AllTokens'
  BY <1>17, DisableBecomes, Shrinks, IdleFields, TokensSteady
<1>18. ASSUME NEW h \in Handlers, CountTokens(h)
       PROVE  AllTokens'
  BY <1>18, CountTokensKeeps
<1>19. ASSUME NEW h \in Handlers, NEW t \in Tokens, InsertToken(h, t)
       PROVE  AllTokens'
  BY <1>19, InsertTokenKeeps
<1>20. ASSUME NEW h \in Handlers, NEW t \in Tokens, RevokeToken(h, t)
       PROVE  AllTokens'
  BY <1>20, RevokeTokenBecomes, IdleFields, TokensSteady DEF TokensShrink
<1>21. ASSUME NEW h \in Handlers, Drop(h)
       PROVE  AllTokens'
  BY <1>21, DropBecomes, Shrinks, IdleFields, TokensSteady
<1>22. CASE (\E s \in Sessions : ExpireSession(s)) \/ \E t \in Tokens : ExpireToken(t)
  BY <1>22, ExpireBecomes, TokensStay DEF TokensShrink
<1>23. CASE \E u \in Users : ExpirePending(u)
  BY <1>23, ExpirePendingBecomes, Shrinks, TokensStay
<1>24. CASE UNCHANGED vars
  BY <1>24, Shrinks, TokensStay DEF vars
<1> QED
  BY <1>1, <1>2, <1>3, <1>4, <1>5, <1>6, <1>7, <1>8, <1>9, <1>10, <1>11, <1>12, <1>13, <1>14,
     <1>15, <1>16, <1>17, <1>18, <1>19, <1>20, <1>21, <1>22, <1>23, <1>24
     DEF Next, Login, Ask, ChangeAccess, ChangeFactor, ChangeTokens

-----------------------------------------------------------------------------
(* The theorems. *)

LEMMA InitType == Init => TypeOK /\ Shape /\ Mutex /\ SameSession /\ Holders
<1> SUFFICES ASSUME Init
             PROVE  TypeOK /\ Shape /\ Mutex /\ SameSession /\ Holders
  OBVIOUS
<1>1. TypeOK
  BY IdleType, AccountsAssumption DEF Init, TypeOK, Periods
<1>2. \A h \in Handlers : handler[h] = Idle
  BY DEF Init
<1>3. Shape /\ Mutex /\ SameSession
  BY <1>2, IdleShape, IdleFields DEF Shape, Mutex, SameSession
<1>4. Holders
  BY <1>2, IdleFields DEF Init, Holders, Live
<1> QED BY <1>1, <1>3, <1>4

LEMMA InitIInv == Init => IInv
<1> SUFFICES ASSUME Init
             PROVE  IInv
  OBVIOUS
<1>1. TypeOK /\ Shape /\ Mutex /\ SameSession /\ Holders
  BY InitType
<1>2. /\ \A h \in Handlers : handler[h].op = "none"
      /\ \A s \in Sessions : session[s].user = NoOne
      /\ \A t \in Tokens : token[t].user = NoOne
  BY IdleFields DEF Init
<1>3. GrantsAreCurrent /\ InFlightCurrent /\ SecondFactorHolds /\ InFlightSecond
  BY <1>2 DEF GrantsAreCurrent, InFlightCurrent, SecondFactorHolds, InFlightSecond, Live
<1>4. /\ \A c \in Codes : accepted[c] = 0
      /\ \A u \in Users : mfa[u].secret = 0 /\ pending[u] = 0 /\ recovery[u] = {}
      /\ drawn = 0
  BY DEF Init
<1>5. OwnSecrets /\ CodesCountOnce
  BY <1>4 DEF OwnSecrets, CodesCountOnce
<1>6. UnusedCodes
  BY <1>4 DEF UnusedCodes
<1>7. \A u \in Users : Cardinality(Active(u)) = 0
  <2>1. \A u \in Users : Active(u) = {}
    BY <1>2, AccountsAssumption DEF Active
  <2> QED BY <2>1, FS_EmptySet
<1>8. TokenLimitHolds /\ CountedTokens
  BY <1>2, <1>7, AccountsAssumption DEF TokenLimitHolds, CountedTokens
<1> QED BY <1>1, <1>3, <1>5, <1>6, <1>8 DEF IInv

LEMMA Inductive == IInv /\ [Next]_vars => IInv'
<1> SUFFICES ASSUME IInv, [Next]_vars
             PROVE  IInv'
  OBVIOUS
<1>1. /\ TypeOK /\ Shape /\ Mutex /\ SameSession /\ Holders
      /\ AllCurrent /\ AllSecond /\ AllCodes /\ AllTokens
  BY DEF IInv, AllCurrent, AllSecond, AllCodes, AllTokens
<1>2. TypeOK' /\ Shape' /\ Mutex'
  BY <1>1, RequestsStep
<1>3. SameSession' /\ Holders'
  BY <1>1, HoldersKept
<1>4. AllCurrent'
  BY <1>1, CurrentKept
<1>5. AllSecond'
  BY <1>1, <1>2, SecondKept
<1>6. AllCodes'
  BY <1>1, CodesKept
<1>7. AllTokens'
  BY <1>1, TokensKept
<1> QED
  BY <1>2, <1>3, <1>4, <1>5, <1>6, <1>7 DEF IInv, AllCurrent, AllSecond, AllCodes, AllTokens

\* The inductive invariant holds of the accounts.
THEOREM Always == Spec => []IInv
BY InitIInv, Inductive, PTL DEF Spec

\* Accounts, their rows and the requests about them have their types.
THEOREM AccountsTypeCorrect == Spec => []TypeOK
  <1>1. IInv => TypeOK
    BY DEF IInv
  <1> QED BY <1>1, Always, PTL

\* No session and no token outlives a change of its account's access, but for those whose own
\* request was in flight and those a dropped change left.
THEOREM GrantsStayCurrent == Spec => []GrantsAreCurrent
  <1>1. IInv => GrantsAreCurrent
    BY DEF IInv
  <1> QED BY <1>1, Always, PTL

\* Sessions of an account with a second factor were opened with it.
THEOREM SecondFactorStands == Spec => []SecondFactorHolds
  <1>1. IInv => SecondFactorHolds
    BY DEF IInv
  <1> QED BY <1>1, Always, PTL

\* No code of an authenticator and no recovery code is accepted twice.
THEOREM NoCodeTwice == Spec => []CodesCountOnce
  <1>1. IInv => CodesCountOnce
    BY DEF IInv
  <1> QED BY <1>1, Always, PTL

\* The limit of active tokens holds, though the rows are counted before they are inserted.
THEOREM TokensAreLimited == Spec => []TokenLimitHolds
  <1>1. IInv => TokenLimitHolds
    BY DEF IInv
  <1> QED BY <1>1, Always, PTL
=============================================================================
