------------------------- MODULE ProvisioningProofs -------------------------
(***************************************************************************)
(* Proofs about Provisioning, for every set of identifiers, owners, names, *)
(* handlers and kinds, every quota and every combination of faults.        *)
(***************************************************************************)
EXTENDS Provisioning, TLAPS

-----------------------------------------------------------------------------
(* The inductive invariant. *)

Busy(r) == panel[r].at # "idle"
Called(r) == call[r].at # "none"
Creates(r) == Called(r) /\ call[r].verb = "create"
Deletes(r) == Called(r) /\ call[r].verb = "delete"

\* The writes mutex belongs to the one handler that is busy; what that handler waits for is
\* the operation it sent; operations take turns in the agent, and none runs while it is down.
Held ==
    /\ \A r \in Requests : Busy(r) <=> writes = r
    /\ \A r \in Requests : Busy(r) =>
         panel[r].verb \in {"create", "delete"} /\ panel[r].id \in Ids
    /\ \A r \in Requests : Called(r) =>
         call[r].verb \in {"create", "delete"} /\ call[r].id \in Ids
    /\ \A r \in Requests : panel[r].at = "wait" =>
         Called(r) /\ call[r].verb = panel[r].verb /\ call[r].id = panel[r].id
    /\ \A r \in Requests : panel[r].at = "commit" => ~Called(r)
    /\ \A r, q \in Requests : call[r].at \in Inside /\ call[q].at \in Inside => r = q
    /\ \A r \in Requests : call[r].at \in {"sent", "work", "record"} => ~call[r].ok
    /\ ~up => \A r \in Requests : call[r].at \in {"none", "sent", "cut"}

\* Whatever is mentioned anywhere was drawn by a creation, and by one only.
Known ==
    /\ rows \cup retired \cup items \cup saved \subseteq {i \in Ids : what[i] # None}
    /\ \A r \in Requests : Busy(r) => what[panel[r].id] # None
    /\ \A r \in Requests : Called(r) => what[call[r].id] # None
    /\ \A r, q \in Requests : r # q /\ Creates(r) =>
         /\ Creates(q) => call[r].id # call[q].id
         /\ Busy(q) /\ panel[q].verb = "create" => call[r].id # panel[q].id

\* What the two registries can differ by.
Books ==
    /\ retired \cap (rows \cup items \cup saved) = {}
    /\ (items \ saved) \cap (rows \cup retired) = {}
    /\ saved \ items \subseteq rows
    /\ doomed \subseteq rows \cup retired

\* How far an operation and the handler that waits for it have come.
Progress ==
    /\ \A r \in Requests : Creates(r) =>
         /\ call[r].id \notin rows \cup retired
         /\ call[r].at \in {"sent", "work", "record"} => call[r].id \notin items \cup saved
         /\ call[r].at = "save" /\ call[r].ok => call[r].id \in items
         /\ call[r].at = "answer" /\ call[r].ok => call[r].id \in saved
    /\ \A r \in Requests : Deletes(r) =>
         /\ call[r].id \in doomed
         /\ call[r].at \in {"work", "record"} => call[r].id \in items
         /\ call[r].at = "save" /\ call[r].ok => call[r].id \notin items
         /\ call[r].at = "answer" /\ call[r].ok => call[r].id \notin items \cup saved
    /\ \A r \in Requests : Busy(r) /\ panel[r].verb = "create" =>
         /\ panel[r].id \notin rows \cup retired
         /\ panel[r].at = "commit" => panel[r].id \in saved
    /\ \A r \in Requests : Busy(r) /\ panel[r].verb = "delete" =>
         /\ panel[r].id \in rows
         /\ panel[r].at = "commit" => panel[r].id \notin items \cup saved

Inv == TypeOK /\ Held /\ Known /\ Books /\ Progress

\* What the panel checked when the handler took the lock still holds when it commits.
Links ==
    /\ LinksResolve
    /\ \A r \in Requests : Busy(r) =>
         /\ panel[r].verb = "create" /\ what[panel[r].id].link # None =>
              what[panel[r].id].link \in rows
         /\ panel[r].verb = "delete" =>
              \A j \in rows \ {panel[r].id} : what[j].link # panel[r].id

\* So does what the panel, and the agent, found out about the name of a new domain.
Naming ==
    /\ NameOnce
    /\ \A r \in Requests : Busy(r) /\ panel[r].verb = "create" =>
         NameFree(rows, what[panel[r].id])
    /\ \A r \in Requests : Creates(r) /\ call[r].at \in {"work", "record"} =>
         NameFree(items, what[call[r].id])

\* The registry describes only what was built, in memory as well.
Building ==
    /\ \A i \in (items \cup saved) \ doomed : what[i].kind \in Hosted => i \in built
    /\ \A r \in Requests : Creates(r) /\ call[r].at = "record" =>
         (what[call[r].id].kind \in Hosted => call[r].id \in built)

\* The registry once the operation of r is over.
After(r) ==
    IF panel[r].verb = "create" THEN rows \cup {panel[r].id} ELSE rows \ {panel[r].id}

\* Where the operation of r has brought the agent and its file.
Agrees(r) ==
    /\ Called(r) => panel[r].at = "wait" /\ call[r].at # "cut"
    /\ panel[r].at = "wait" =>
         /\ call[r].at \in {"sent", "work", "record"} => items = rows /\ saved = rows
         /\ call[r].at \in {"save", "answer"} /\ call[r].ok => items = After(r)
         /\ call[r].at \in {"save", "answer"} /\ ~call[r].ok => items = rows
         /\ call[r].at = "save" => saved = rows
         /\ call[r].at = "answer" => saved = items
    /\ panel[r].at = "commit" => items = After(r) /\ saved = After(r)

\* While nothing but host programs fails, only the operation under way sets the panel, the
\* agent and its file apart.
Agreement ==
    spared =>
      /\ up
      /\ (\A r \in Requests : ~Busy(r)) => items = rows /\ saved = rows
      /\ \A r \in Requests : Agrees(r)

-----------------------------------------------------------------------------
(* What the assignments to panel and call do, handler by handler. *)

LEMMA CallMoves ==
    ASSUME TypeOK, NEW r \in Requests, NEW c \in CallType, call' = [call EXCEPT ![r] = c]
    PROVE  /\ call' \in [Requests -> CallType]
           /\ call'[r] = c
           /\ \A q \in Requests \ {r} : call'[q] = call[q]
  BY DEF TypeOK

LEMMA PanelMoves ==
    ASSUME TypeOK, NEW r \in Requests, NEW p \in PanelType, panel' = [panel EXCEPT ![r] = p]
    PROVE  /\ panel' \in [Requests -> PanelType]
           /\ panel'[r] = p
           /\ \A q \in Requests \ {r} : panel'[q] = panel[q]
  BY DEF TypeOK

\* The call of r is at a, with outcome b; everything else of it is as it was.
Moved(r, a, b) ==
    /\ call' \in [Requests -> CallType]
    /\ call'[r].at = a /\ (call'[r].ok <=> b)
    /\ call'[r].verb = call[r].verb /\ call'[r].id = call[r].id
    /\ \A q \in Requests \ {r} : call'[q] = call[q]

LEMMA CallAt ==
    ASSUME TypeOK, NEW r \in Requests,
           NEW a \in {"none", "sent", "answer", "cut"} \cup Inside,
           call' = [call EXCEPT ![r].at = a]
    PROVE  Moved(r, a, call[r].ok)
  <1> DEFINE c == [call[r] EXCEPT !.at = a]
  <1>1. call[r] \in CallType
    BY DEF TypeOK
  <1>2. c \in CallType /\ c.at = a /\ c.ok = call[r].ok /\ c.verb = call[r].verb
        /\ c.id = call[r].id
    BY <1>1 DEF CallType
  <1>3. call' = [call EXCEPT ![r] = c]
    OBVIOUS
  <1> HIDE DEF c
  <1> QED BY <1>2, <1>3, CallMoves DEF Moved

LEMMA CallAtOk ==
    ASSUME TypeOK, NEW r \in Requests,
           NEW a \in {"none", "sent", "answer", "cut"} \cup Inside, NEW b \in BOOLEAN,
           call' = [call EXCEPT ![r].at = a, ![r].ok = b]
    PROVE  Moved(r, a, b)
  <1> DEFINE c == [call[r] EXCEPT !.at = a, !.ok = b]
  <1>1. call[r] \in CallType
    BY DEF TypeOK
  <1>2. c \in CallType /\ c.at = a /\ c.ok = b /\ c.verb = call[r].verb /\ c.id = call[r].id
    BY <1>1 DEF CallType
  <1>3. call' = [call EXCEPT ![r] = c]
    BY DEF TypeOK
  <1> HIDE DEF c
  <1> QED BY <1>2, <1>3, CallMoves DEF Moved

\* The operation of r is forgotten.
Ended(r) ==
    /\ call' \in [Requests -> CallType]
    /\ call'[r].at = "none"
    /\ \A q \in Requests \ {r} : call'[q] = call[q]

LEMMA CallEnds ==
    ASSUME TypeOK, NEW r \in Requests, call' = [call EXCEPT ![r] = IdleCall]
    PROVE  Ended(r)
  BY CallMoves DEF IdleCall, CallType, Ended

\* The handler r is done, and the lock is free.
Returned(r) ==
    /\ panel' \in [Requests -> PanelType]
    /\ panel'[r].at = "idle"
    /\ \A q \in Requests \ {r} : panel'[q] = panel[q]
    /\ writes' = None

LEMMA HandlerReturns == ASSUME TypeOK, NEW r \in Requests, Return(r) PROVE Returned(r)
  BY PanelMoves DEF Return, IdlePanel, PanelType, Returned

\* The handler r holds the lock, has sent an operation and waits for it.
Sent(r, verb, i) ==
    /\ panel' \in [Requests -> PanelType] /\ call' \in [Requests -> CallType]
    /\ panel'[r].at = "wait" /\ panel'[r].verb = verb /\ panel'[r].id = i
    /\ call'[r].at = "sent" /\ call'[r].verb = verb /\ call'[r].id = i /\ ~call'[r].ok
    /\ \A q \in Requests \ {r} : panel'[q] = panel[q] /\ call'[q] = call[q]
    /\ writes = None /\ writes' = r
    /\ panel[r].at = "idle" /\ call[r].at = "none"

LEMMA HandlerSends ==
    ASSUME TypeOK, NEW r \in Requests, NEW verb \in {"create", "delete"}, NEW i \in Ids,
           Send(r, verb, i)
    PROVE  Sent(r, verb, i)
  <1> DEFINE p == [at |-> "wait", verb |-> verb, id |-> i]
             c == [at |-> "sent", verb |-> verb, id |-> i, ok |-> FALSE]
  <1>1. p \in PanelType /\ c \in CallType
    BY DEF PanelType, CallType
  <1>2. panel' = [panel EXCEPT ![r] = p] /\ call' = [call EXCEPT ![r] = c]
    BY DEF Send
  <1>3. p.at = "wait" /\ p.verb = verb /\ p.id = i
        /\ c.at = "sent" /\ c.verb = verb /\ c.id = i /\ c.ok = FALSE
    OBVIOUS
  <1> HIDE DEF p, c
  <1>4. /\ panel' \in [Requests -> PanelType] /\ panel'[r] = p
        /\ \A q \in Requests \ {r} : panel'[q] = panel[q]
    BY <1>1, <1>2, PanelMoves
  <1>5. /\ call' \in [Requests -> CallType] /\ call'[r] = c
        /\ \A q \in Requests \ {r} : call'[q] = call[q]
    BY <1>1, <1>2, CallMoves
  <1> QED BY <1>3, <1>4, <1>5 DEF Send, Sent

\* The handler r has its answer and goes on to its statement.
Committing(r) ==
    /\ panel' \in [Requests -> PanelType]
    /\ panel'[r].at = "commit" /\ panel'[r].verb = panel[r].verb /\ panel'[r].id = panel[r].id
    /\ \A q \in Requests \ {r} : panel'[q] = panel[q]

LEMMA HandlerCommits ==
    ASSUME TypeOK, NEW r \in Requests, panel' = [panel EXCEPT ![r].at = "commit"]
    PROVE  Committing(r)
  <1> DEFINE p == [panel[r] EXCEPT !.at = "commit"]
  <1>1. panel[r] \in PanelType
    BY DEF TypeOK
  <1>2. p \in PanelType /\ p.at = "commit" /\ p.verb = panel[r].verb /\ p.id = panel[r].id
    BY <1>1 DEF PanelType
  <1>3. panel' = [panel EXCEPT ![r] = p]
    OBVIOUS
  <1> HIDE DEF p
  <1> QED BY <1>2, <1>3, PanelMoves DEF Committing

\* A crash cuts every operation there is.
LEMMA CrashCuts ==
    ASSUME TypeOK, Crash
    PROVE  /\ call' \in [Requests -> CallType]
           /\ \A q \in Requests :
                /\ call[q].at = "none" => call'[q] = call[q]
                /\ call[q].at # "none" => /\ call'[q].at = "cut"
                                          /\ call'[q].verb = call[q].verb
                                          /\ call'[q].id = call[q].id
  <1>1. ASSUME NEW q \in Requests
        PROVE  /\ call'[q] \in CallType
               /\ call[q].at = "none" => call'[q] = call[q]
               /\ call[q].at # "none" => /\ call'[q].at = "cut"
                                         /\ call'[q].verb = call[q].verb
                                         /\ call'[q].id = call[q].id
    <2>1. call[q] \in CallType
      BY DEF TypeOK
    <2>2. call'[q] = IF call[q].at = "none" THEN call[q] ELSE [call[q] EXCEPT !.at = "cut"]
      BY DEF Crash
    <2> QED BY <2>1, <2>2 DEF CallType
  <1>2. call' = [q \in Requests |-> call'[q]]
    BY DEF Crash
  <1> QED BY <1>1, <1>2

-----------------------------------------------------------------------------
(* What each action does, in those terms. *)

LEMMA CreateStep ==
    ASSUME TypeOK, NEW r \in Requests, NEW i \in Ids, NEW v \in Resource, Create(r, i, v)
    PROVE  /\ Sent(r, "create", i)
           /\ what[i] = None /\ what' \in [Ids -> Resource \cup {None}] /\ what'[i] = v
           /\ v # None /\ \A j \in Ids \ {i} : what'[j] = what[j]
           /\ LinkIn(rows, v) /\ NameFree(rows, v)
           /\ UNCHANGED <<rows, retired, doomed, up, items, saved, built, spared>>
  <1>1. Sent(r, "create", i)
    BY HandlerSends DEF Create
  <1> QED BY <1>1, NullAssumption DEF Create, TypeOK, agentVars

LEMMA DeleteStep ==
    ASSUME TypeOK, NEW r \in Requests, NEW i \in Ids, Delete(r, i)
    PROVE  /\ Sent(r, "delete", i)
           /\ i \in rows /\ \A j \in rows \ {i} : what[j].link # i
           /\ doomed' = doomed \cup {i}
           /\ UNCHANGED <<what, rows, retired, up, items, saved, built, spared>>
  <1>1. Sent(r, "delete", i)
    BY HandlerSends DEF Delete
  <1> QED BY <1>1 DEF Delete, agentVars

LEMMA ApprovedStep ==
    ASSUME TypeOK, NEW r \in Requests, Approved(r)
    PROVE  /\ Committing(r) /\ Ended(r)
           /\ panel[r].at = "wait" /\ call[r].at = "answer" /\ call[r].ok
           /\ UNCHANGED <<what, rows, retired, doomed, writes, up, items, saved, built, spared>>
  BY HandlerCommits, CallEnds DEF Approved, agentVars

LEMMA RefusedStep ==
    ASSUME TypeOK, NEW r \in Requests, Refused(r)
    PROVE  /\ Returned(r) /\ Ended(r)
           /\ panel[r].at = "wait"
           /\ call[r].at = "cut" \/ (call[r].at = "answer" /\ ~call[r].ok)
           /\ UNCHANGED <<what, rows, retired, doomed, up, items, saved, built, spared>>
  BY HandlerReturns, CallEnds DEF Refused, agentVars

LEMMA CommitStep ==
    ASSUME TypeOK, NEW r \in Requests, Commit(r)
    PROVE  /\ Returned(r)
           /\ panel[r].at = "commit"
           /\ panel[r].verb = "create" =>
                rows' = rows \cup {panel[r].id} /\ retired' = retired
           /\ panel[r].verb # "create" =>
                rows' = rows \ {panel[r].id} /\ retired' = retired \cup {panel[r].id}
           /\ UNCHANGED <<what, doomed, call, up, items, saved, built, spared>>
  BY HandlerReturns DEF Commit, agentVars

\* A statement that fails and a handler that is gone look the same.
LEMMA GivenUpStep ==
    ASSUME TypeOK, NEW r \in Requests, CommitFails(r) \/ Abandon(r)
    PROVE  /\ Returned(r)
           /\ panel[r].at \in {"wait", "commit"}
           /\ ~spared'
           /\ UNCHANGED <<what, rows, retired, doomed, call, up, items, saved, built>>
  BY HandlerReturns DEF CommitFails, Abandon, agentVars

LEMMA UnheardStep ==
    ASSUME TypeOK, NEW r \in Requests, Unheard(r)
    PROVE  /\ Ended(r)
           /\ panel[r].at = "idle" /\ call[r].at \in {"answer", "cut"}
           /\ UNCHANGED <<what, rows, retired, doomed, writes, panel, up, items, saved, built,
                          spared>>
  BY CallEnds DEF Unheard, agentVars, panelVars

LEMMA TakeStep ==
    ASSUME TypeOK, NEW r \in Requests, Take(r)
    PROVE  /\ \/ Moved(r, "work", call[r].ok) /\ Accepts(call[r].verb, call[r].id)
              \/ Moved(r, "save", call[r].ok)
           /\ call[r].at = "sent" /\ up
           /\ \A q \in Requests : call[q].at \notin Inside
           /\ UNCHANGED <<what, rows, retired, doomed, writes, panel, up, items, saved, built,
                          spared>>
  <1>1. CASE Accepts(call[r].verb, call[r].id)
    <2>1. Moved(r, "work", call[r].ok)
      BY <1>1, CallAt DEF Take, Inside
    <2> QED BY <1>1, <2>1 DEF Take, MutexFree, agentVars, panelVars
  <1>2. CASE ~Accepts(call[r].verb, call[r].id)
    <2>1. Moved(r, "save", call[r].ok)
      BY <1>2, CallAt DEF Take, Inside
    <2> QED BY <1>2, <2>1 DEF Take, MutexFree, agentVars, panelVars
  <1> QED BY <1>1, <1>2

LEMMA WorkStep ==
    ASSUME TypeOK, NEW r \in Requests, Work(r)
    PROVE  /\ Moved(r, "record", call[r].ok)
           /\ call[r].at = "work"
           /\ call[r].verb = "create" =>
                built' = IF what[call[r].id].kind \in Hosted THEN built \cup {call[r].id}
                                                             ELSE built
           /\ call[r].verb # "create" => built' = built \ {call[r].id}
           /\ UNCHANGED <<what, rows, retired, doomed, writes, panel, up, items, saved, spared>>
  <1>1. Moved(r, "record", call[r].ok)
    BY CallAt DEF Work, Inside
  <1> QED BY <1>1 DEF Work, panelVars

LEMMA WorkFailsStep ==
    ASSUME TypeOK, NEW r \in Requests, WorkFails(r)
    PROVE  /\ Moved(r, "save", call[r].ok)
           /\ call[r].at = "work"
           /\ call[r].verb = "create" => built' \in {built, built \cup {call[r].id}}
           /\ call[r].verb # "create" => built' \in {built, built \ {call[r].id}}
           /\ UNCHANGED <<what, rows, retired, doomed, writes, panel, up, items, saved, spared>>
  <1>1. Moved(r, "save", call[r].ok)
    BY CallAt DEF WorkFails, Inside
  <1> QED BY <1>1 DEF WorkFails, panelVars

LEMMA RecordStep ==
    ASSUME TypeOK, NEW r \in Requests, Record(r)
    PROVE  /\ Moved(r, "save", TRUE)
           /\ call[r].at = "record"
           /\ call[r].verb = "create" => items' = items \cup {call[r].id}
           /\ call[r].verb # "create" => items' = items \ {call[r].id}
           /\ UNCHANGED <<what, rows, retired, doomed, writes, panel, up, saved, built, spared>>
  <1>1. Moved(r, "save", TRUE)
    BY CallAtOk DEF Record, Inside
  <1> QED BY <1>1 DEF Record, panelVars

LEMMA RecordFailsStep ==
    ASSUME TypeOK, NEW r \in Requests, RecordFails(r)
    PROVE  /\ Moved(r, "save", call[r].ok)
           /\ call[r].at = "record"
           /\ \/ /\ call[r].verb = "create"
                 /\ built' = built \ {call[r].id} /\ items' = items
              \/ /\ call[r].verb = "create"
                 /\ built' = built /\ items' = items \cup {call[r].id}
              \/ /\ call[r].verb = "delete"
                 /\ built' = built /\ items' = items \ {call[r].id}
           /\ ~spared'
           /\ UNCHANGED <<what, rows, retired, doomed, writes, panel, up, saved>>
  <1>1. Moved(r, "save", call[r].ok)
    BY CallAt DEF RecordFails, Inside
  <1> QED BY <1>1 DEF RecordFails, panelVars

LEMMA SaveStep ==
    ASSUME TypeOK, NEW r \in Requests, Save(r)
    PROVE  /\ Moved(r, "answer", call[r].ok)
           /\ call[r].at = "save"
           /\ saved' = items
           /\ UNCHANGED <<what, rows, retired, doomed, writes, panel, up, items, built, spared>>
  <1>1. Moved(r, "answer", call[r].ok)
    BY CallAt DEF Save, Inside
  <1> QED BY <1>1 DEF Save, panelVars

LEMMA SaveFailsStep ==
    ASSUME TypeOK, NEW r \in Requests, SaveFails(r)
    PROVE  /\ Moved(r, "answer", FALSE)
           /\ call[r].at = "save" /\ ~spared'
           /\ UNCHANGED <<what, rows, retired, doomed, writes, panel, up, items, saved, built>>
  <1>1. Moved(r, "answer", FALSE)
    BY CallAtOk DEF SaveFails, Inside
  <1> QED BY <1>1 DEF SaveFails, panelVars, agentVars

LEMMA UnreachableStep ==
    ASSUME TypeOK, NEW r \in Requests, Unreachable(r)
    PROVE  /\ Moved(r, "cut", call[r].ok)
           /\ ~up /\ call[r].at = "sent"
           /\ UNCHANGED <<what, rows, retired, doomed, writes, panel, up, items, saved, built,
                          spared>>
  <1>1. Moved(r, "cut", call[r].ok)
    BY CallAt DEF Unreachable, Inside
  <1> QED BY <1>1 DEF Unreachable, panelVars, agentVars

-----------------------------------------------------------------------------
(* Types, and who holds what. *)

LEMMA InitTyped == Init => TypeOK /\ Held
  BY ConstantsAssumption DEF Init, TypeOK, Held, PanelType, CallType, IdlePanel, IdleCall,
     Busy, Called, Inside

LEMMA StepTypeOK == TypeOK /\ Held /\ [Next]_vars => TypeOK'
  <1> SUFFICES ASSUME TypeOK /\ Held, [Next]_vars PROVE TypeOK'
    OBVIOUS
  <1>1. ASSUME NEW r \in Requests, NEW i \in Ids, NEW v \in Resource, Create(r, i, v) PROVE TypeOK'
    BY <1>1, CreateStep DEF Sent, TypeOK
  <1>2. ASSUME NEW r \in Requests, NEW i \in Ids, Delete(r, i) PROVE TypeOK'
    BY <1>2, DeleteStep DEF Sent, TypeOK
  <1>3. ASSUME NEW r \in Requests, Approved(r) PROVE TypeOK'
    BY <1>3, ApprovedStep DEF Committing, Ended, TypeOK
  <1>4. ASSUME NEW r \in Requests, Refused(r) PROVE TypeOK'
    BY <1>4, RefusedStep DEF Returned, Ended, TypeOK
  <1>5. ASSUME NEW r \in Requests, Commit(r) PROVE TypeOK'
    <2>1. panel[r].id \in Ids /\ spared' \in BOOLEAN
      BY <1>5, CommitStep DEF Commit, Held, Busy, Called, TypeOK
    <2> QED BY <1>5, <2>1, CommitStep DEF Returned, TypeOK
  <1>6. ASSUME NEW r \in Requests, CommitFails(r) \/ Abandon(r) PROVE TypeOK'
    <2>1. panel[r].id \in Ids /\ spared' \in BOOLEAN
      BY <1>6, GivenUpStep DEF CommitFails, Abandon, Held, Busy, Called, TypeOK
    <2> QED BY <1>6, <2>1, GivenUpStep DEF Returned, TypeOK
  <1>7. ASSUME NEW r \in Requests, Unheard(r) PROVE TypeOK'
    BY <1>7, UnheardStep DEF Ended, TypeOK
  <1>8. ASSUME NEW r \in Requests, Take(r) PROVE TypeOK'
    BY <1>8, TakeStep DEF Moved, TypeOK
  <1>9. ASSUME NEW r \in Requests, Work(r) PROVE TypeOK'
    <2>1. call[r].id \in Ids /\ spared' \in BOOLEAN
      BY <1>9, WorkStep DEF Work, Held, Busy, Called, TypeOK
    <2> QED BY <1>9, <2>1, WorkStep DEF Moved, TypeOK
  <1>10. ASSUME NEW r \in Requests, WorkFails(r) PROVE TypeOK'
    <2>1. call[r].id \in Ids /\ spared' \in BOOLEAN
      BY <1>10, WorkFailsStep DEF WorkFails, Held, Busy, Called, TypeOK
    <2> QED BY <1>10, <2>1, WorkFailsStep DEF Moved, TypeOK
  <1>11. ASSUME NEW r \in Requests, Record(r) PROVE TypeOK'
    <2>1. call[r].id \in Ids /\ spared' \in BOOLEAN
      BY <1>11, RecordStep DEF Record, Held, Busy, Called, TypeOK
    <2> QED BY <1>11, <2>1, RecordStep DEF Moved, TypeOK
  <1>12. ASSUME NEW r \in Requests, RecordFails(r) PROVE TypeOK'
    <2>1. call[r].id \in Ids /\ spared' \in BOOLEAN
      BY <1>12, RecordFailsStep DEF RecordFails, Held, Busy, Called, TypeOK
    <2> QED BY <1>12, <2>1, RecordFailsStep DEF Moved, TypeOK
  <1>13. ASSUME NEW r \in Requests, Save(r) PROVE TypeOK'
    BY <1>13, SaveStep DEF Moved, TypeOK
  <1>14. ASSUME NEW r \in Requests, SaveFails(r) PROVE TypeOK'
    <2>1. call[r].id \in Ids /\ spared' \in BOOLEAN
      BY <1>14, SaveFailsStep DEF SaveFails, Held, Busy, Called, TypeOK
    <2> QED BY <1>14, <2>1, SaveFailsStep DEF Moved, TypeOK
  <1>15. ASSUME NEW r \in Requests, Unreachable(r) PROVE TypeOK'
    BY <1>15, UnreachableStep DEF Moved, TypeOK
  <1>16. CASE SaveOther
    BY <1>16 DEF SaveOther, MutexFree, panelVars, TypeOK
  <1>17. CASE Crash
    BY <1>17, CrashCuts DEF Crash, panelVars, TypeOK
  <1>18. CASE Restart
    BY <1>18 DEF Restart, CanStart, Domains, panelVars, TypeOK
  <1>19. CASE UNCHANGED vars
    BY <1>19 DEF vars, panelVars, agentVars, TypeOK
  <1> QED BY <1>1, <1>2, <1>3, <1>4, <1>5, <1>6, <1>7, <1>8, <1>9, <1>10, <1>11, <1>12, <1>13, <1>14, <1>15, <1>16, <1>17, <1>18, <1>19 DEF Next, Panel, Agent

LEMMA StepHeld == TypeOK /\ Held /\ [Next]_vars => Held'
  <1> SUFFICES ASSUME TypeOK /\ Held, [Next]_vars PROVE Held'
    OBVIOUS
  <1> USE ConstantsAssumption
  <1>1. ASSUME NEW r \in Requests, NEW i \in Ids, NEW v \in Resource, Create(r, i, v) PROVE Held'
    <2>1. Sent(r, "create", i) /\ UNCHANGED up
      BY <1>1, CreateStep
    <2> QED BY <2>1 DEF Sent, Held, Busy, Called, Inside
  <1>2. ASSUME NEW r \in Requests, NEW i \in Ids, Delete(r, i) PROVE Held'
    BY <1>2, DeleteStep DEF Sent, Held, Busy, Called, Inside
  <1>3. ASSUME NEW r \in Requests, Approved(r) PROVE Held'
    BY <1>3, ApprovedStep DEF Committing, Ended, Held, Busy, Called, Inside
  <1>4. ASSUME NEW r \in Requests, Refused(r) PROVE Held'
    BY <1>4, RefusedStep DEF Returned, Ended, Held, Busy, Called, Inside
  <1>5. ASSUME NEW r \in Requests, Commit(r) PROVE Held'
    BY <1>5, CommitStep DEF Returned, Held, Busy, Called, Inside
  <1>6. ASSUME NEW r \in Requests, CommitFails(r) \/ Abandon(r) PROVE Held'
    BY <1>6, GivenUpStep DEF Returned, Held, Busy, Called, Inside
  <1>7. ASSUME NEW r \in Requests, Unheard(r) PROVE Held'
    BY <1>7, UnheardStep DEF Ended, Held, Busy, Called, Inside
  <1>8. ASSUME NEW r \in Requests, Take(r) PROVE Held'
    BY <1>8, TakeStep DEF Moved, Held, Busy, Called, Inside
  <1>9. ASSUME NEW r \in Requests, Work(r) PROVE Held'
    BY <1>9, WorkStep DEF Moved, Held, Busy, Called, Inside
  <1>10. ASSUME NEW r \in Requests, WorkFails(r) PROVE Held'
    BY <1>10, WorkFailsStep DEF Moved, Held, Busy, Called, Inside
  <1>11. ASSUME NEW r \in Requests, Record(r) PROVE Held'
    BY <1>11, RecordStep DEF Moved, Held, Busy, Called, Inside
  <1>12. ASSUME NEW r \in Requests, RecordFails(r) PROVE Held'
    BY <1>12, RecordFailsStep DEF Moved, Held, Busy, Called, Inside
  <1>13. ASSUME NEW r \in Requests, Save(r) PROVE Held'
    BY <1>13, SaveStep DEF Moved, Held, Busy, Called, Inside
  <1>14. ASSUME NEW r \in Requests, SaveFails(r) PROVE Held'
    BY <1>14, SaveFailsStep DEF Moved, Held, Busy, Called, Inside
  <1>15. ASSUME NEW r \in Requests, Unreachable(r) PROVE Held'
    BY <1>15, UnreachableStep DEF Moved, Held, Busy, Called, Inside
  <1>16. CASE SaveOther
    BY <1>16 DEF SaveOther, MutexFree, panelVars, Held, Busy, Called, Inside
  <1>17. CASE Crash
    BY <1>17, CrashCuts DEF Crash, panelVars, Held, Busy, Called, Inside
  <1>18. CASE Restart
    BY <1>18 DEF Restart, CanStart, Domains, panelVars, Held, Busy, Called, Inside
  <1>19. CASE UNCHANGED vars
    BY <1>19 DEF vars, panelVars, agentVars, Held, Busy, Called, Inside
  <1> QED BY <1>1, <1>2, <1>3, <1>4, <1>5, <1>6, <1>7, <1>8, <1>9, <1>10, <1>11, <1>12, <1>13, <1>14, <1>15, <1>16, <1>17, <1>18, <1>19 DEF Next, Panel, Agent

-----------------------------------------------------------------------------
(* The inductive invariant. *)

LEMMA InitInv == Init => Inv
  <1> SUFFICES ASSUME Init PROVE Inv
    OBVIOUS
  <1>1. TypeOK /\ Held
    BY InitTyped
  <1>2. Known /\ Books /\ Progress
    BY DEF Init, Known, Books, Progress, IdlePanel, IdleCall, Busy, Called, Creates, Deletes
  <1> QED BY <1>1, <1>2 DEF Inv

LEMMA StepKnown == Inv /\ [Next]_vars => Known'
  <1> SUFFICES ASSUME Inv, [Next]_vars PROVE Known'
    OBVIOUS
  <1>1. ASSUME NEW r \in Requests, NEW i \in Ids, NEW v \in Resource, Create(r, i, v) PROVE Known'
    <2>1. /\ Sent(r, "create", i)
          /\ what[i] = None /\ what'[i] = v /\ v # None
          /\ \A j \in Ids \ {i} : what'[j] = what[j]
          /\ LinkIn(rows, v)
          /\ UNCHANGED <<rows, retired, doomed, up, items, saved>>
      BY <1>1, CreateStep DEF Inv
    <2> QED BY <2>1 DEF Sent, Inv, Held, Known, Progress, Busy, Called, Creates, Deletes
  <1>2. ASSUME NEW r \in Requests, NEW i \in Ids, Delete(r, i) PROVE Known'
    BY <1>2, DeleteStep DEF Sent, Inv, Held, Known, Progress, Busy, Called, Creates, Deletes
  <1>3. ASSUME NEW r \in Requests, Approved(r) PROVE Known'
    BY <1>3, ApprovedStep DEF Committing, Ended, Inv, Held, Known, Progress, Busy, Called, Creates, Deletes
  <1>4. ASSUME NEW r \in Requests, Refused(r) PROVE Known'
    BY <1>4, RefusedStep DEF Returned, Ended, Inv, Held, Known, Progress, Busy, Called, Creates, Deletes
  <1>5. ASSUME NEW r \in Requests, Commit(r) PROVE Known'
    BY <1>5, CommitStep DEF Returned, Inv, Held, Known, Progress, Busy, Called, Creates, Deletes
  <1>6. ASSUME NEW r \in Requests, CommitFails(r) \/ Abandon(r) PROVE Known'
    BY <1>6, GivenUpStep DEF Returned, Inv, Held, Known, Progress, Busy, Called, Creates, Deletes
  <1>7. ASSUME NEW r \in Requests, Unheard(r) PROVE Known'
    BY <1>7, UnheardStep DEF Ended, Inv, Held, Known, Progress, Busy, Called, Creates, Deletes
  <1>8. ASSUME NEW r \in Requests, Take(r) PROVE Known'
    BY <1>8, TakeStep DEF Moved, Inv, Held, Known, Progress, Busy, Called, Creates, Deletes
  <1>9. ASSUME NEW r \in Requests, Work(r) PROVE Known'
    BY <1>9, WorkStep DEF Moved, Inv, Held, Known, Progress, Busy, Called, Creates, Deletes
  <1>10. ASSUME NEW r \in Requests, WorkFails(r) PROVE Known'
    BY <1>10, WorkFailsStep DEF Moved, Inv, Held, Known, Progress, Busy, Called, Creates, Deletes
  <1>11. ASSUME NEW r \in Requests, Record(r) PROVE Known'
    BY <1>11, RecordStep DEF Moved, Inv, Held, Known, Progress, Busy, Called, Creates, Deletes
  <1>12. ASSUME NEW r \in Requests, RecordFails(r) PROVE Known'
    BY <1>12, RecordFailsStep DEF Moved, Inv, Held, Known, Progress, Busy, Called, Creates, Deletes
  <1>13. ASSUME NEW r \in Requests, Save(r) PROVE Known'
    BY <1>13, SaveStep DEF Moved, Inv, Held, Known, Progress, Busy, Called, Creates, Deletes
  <1>14. ASSUME NEW r \in Requests, SaveFails(r) PROVE Known'
    BY <1>14, SaveFailsStep DEF Moved, Inv, Held, Known, Progress, Busy, Called, Creates, Deletes
  <1>15. ASSUME NEW r \in Requests, Unreachable(r) PROVE Known'
    BY <1>15, UnreachableStep DEF Moved, Inv, Held, Known, Progress, Busy, Called, Creates, Deletes
  <1>16. CASE SaveOther
    BY <1>16 DEF SaveOther, MutexFree, panelVars, Inv, Held, Known, Progress, Busy, Called, Creates, Deletes
  <1>17. CASE Crash
    BY <1>17, CrashCuts DEF Crash, panelVars, Inv, Held, Known, Progress, Busy, Called, Creates, Deletes
  <1>18. CASE Restart
    BY <1>18 DEF Restart, CanStart, Domains, panelVars, Inv, Held, Known, Progress, Busy, Called, Creates, Deletes
  <1>19. CASE UNCHANGED vars
    BY <1>19 DEF vars, panelVars, agentVars, Inv, Held, Known, Progress, Busy, Called, Creates, Deletes
  <1> QED BY <1>1, <1>2, <1>3, <1>4, <1>5, <1>6, <1>7, <1>8, <1>9, <1>10, <1>11, <1>12, <1>13, <1>14, <1>15, <1>16, <1>17, <1>18, <1>19 DEF Next, Panel, Agent

LEMMA StepBooks == Inv /\ [Next]_vars => Books'
  <1> SUFFICES ASSUME Inv, [Next]_vars PROVE Books'
    OBVIOUS
  <1>1. ASSUME NEW r \in Requests, NEW i \in Ids, NEW v \in Resource, Create(r, i, v) PROVE Books'
    BY <1>1, CreateStep DEF Sent, Inv, Held, Books, Progress, Busy, Called, Creates, Deletes
  <1>2. ASSUME NEW r \in Requests, NEW i \in Ids, Delete(r, i) PROVE Books'
    BY <1>2, DeleteStep DEF Sent, Inv, Held, Books, Progress, Busy, Called, Creates, Deletes
  <1>3. ASSUME NEW r \in Requests, Approved(r) PROVE Books'
    BY <1>3, ApprovedStep DEF Committing, Ended, Inv, Held, Books, Progress, Busy, Called, Creates, Deletes
  <1>4. ASSUME NEW r \in Requests, Refused(r) PROVE Books'
    BY <1>4, RefusedStep DEF Returned, Ended, Inv, Held, Books, Progress, Busy, Called, Creates, Deletes
  <1>5. ASSUME NEW r \in Requests, Commit(r) PROVE Books'
    BY <1>5, CommitStep DEF Returned, Inv, Held, Books, Progress, Busy, Called, Creates, Deletes
  <1>6. ASSUME NEW r \in Requests, CommitFails(r) \/ Abandon(r) PROVE Books'
    BY <1>6, GivenUpStep DEF Returned, Inv, Held, Books, Progress, Busy, Called, Creates, Deletes
  <1>7. ASSUME NEW r \in Requests, Unheard(r) PROVE Books'
    BY <1>7, UnheardStep DEF Ended, Inv, Held, Books, Progress, Busy, Called, Creates, Deletes
  <1>8. ASSUME NEW r \in Requests, Take(r) PROVE Books'
    BY <1>8, TakeStep DEF Moved, Inv, Held, Books, Progress, Busy, Called, Creates, Deletes
  <1>9. ASSUME NEW r \in Requests, Work(r) PROVE Books'
    BY <1>9, WorkStep DEF Moved, Inv, Held, Books, Progress, Busy, Called, Creates, Deletes
  <1>10. ASSUME NEW r \in Requests, WorkFails(r) PROVE Books'
    BY <1>10, WorkFailsStep DEF Moved, Inv, Held, Books, Progress, Busy, Called, Creates, Deletes
  <1>11. ASSUME NEW r \in Requests, Record(r) PROVE Books'
    BY <1>11, RecordStep DEF Moved, Inv, Held, Books, Progress, Busy, Called, Creates, Deletes
  <1>12. ASSUME NEW r \in Requests, RecordFails(r) PROVE Books'
    BY <1>12, RecordFailsStep DEF Moved, Inv, Held, Books, Progress, Busy, Called, Creates, Deletes
  <1>13. ASSUME NEW r \in Requests, Save(r) PROVE Books'
    BY <1>13, SaveStep DEF Moved, Inv, Held, Books, Progress, Busy, Called, Creates, Deletes
  <1>14. ASSUME NEW r \in Requests, SaveFails(r) PROVE Books'
    BY <1>14, SaveFailsStep DEF Moved, Inv, Held, Books, Progress, Busy, Called, Creates, Deletes
  <1>15. ASSUME NEW r \in Requests, Unreachable(r) PROVE Books'
    BY <1>15, UnreachableStep DEF Moved, Inv, Held, Books, Progress, Busy, Called, Creates, Deletes
  <1>16. CASE SaveOther
    BY <1>16 DEF SaveOther, MutexFree, panelVars, Inv, Held, Books, Progress, Busy, Called, Creates, Deletes
  <1>17. CASE Crash
    BY <1>17, CrashCuts DEF Crash, panelVars, Inv, Held, Books, Progress, Busy, Called, Creates, Deletes
  <1>18. CASE Restart
    BY <1>18 DEF Restart, CanStart, Domains, panelVars, Inv, Held, Books, Progress, Busy, Called, Creates, Deletes
  <1>19. CASE UNCHANGED vars
    BY <1>19 DEF vars, panelVars, agentVars, Inv, Held, Books, Progress, Busy, Called, Creates, Deletes
  <1> QED BY <1>1, <1>2, <1>3, <1>4, <1>5, <1>6, <1>7, <1>8, <1>9, <1>10, <1>11, <1>12, <1>13, <1>14, <1>15, <1>16, <1>17, <1>18, <1>19 DEF Next, Panel, Agent

LEMMA StepProgress == Inv /\ [Next]_vars => Progress'
  <1> SUFFICES ASSUME Inv, [Next]_vars PROVE Progress'
    OBVIOUS
  <1>1. ASSUME NEW r \in Requests, NEW i \in Ids, NEW v \in Resource, Create(r, i, v) PROVE Progress'
    <2>1. /\ Sent(r, "create", i) /\ what[i] = None
          /\ UNCHANGED <<rows, retired, doomed, up, items, saved>>
      BY <1>1, CreateStep DEF Inv
    <2>2. i \notin rows \cup retired \cup items \cup saved
      BY <2>1 DEF Inv, Known
    <2> QED BY <2>1, <2>2 DEF Sent, Inv, Held, Progress, Inside, Busy, Called, Creates, Deletes
  <1>2. ASSUME NEW r \in Requests, NEW i \in Ids, Delete(r, i) PROVE Progress'
    BY <1>2, DeleteStep DEF Sent, Inv, Held, Known, Books, Progress, Inside, Busy, Called, Creates, Deletes
  <1>3. ASSUME NEW r \in Requests, Approved(r) PROVE Progress'
    BY <1>3, ApprovedStep DEF Committing, Ended, Inv, Held, Known, Books, Progress, Inside, Busy, Called, Creates, Deletes
  <1>4. ASSUME NEW r \in Requests, Refused(r) PROVE Progress'
    BY <1>4, RefusedStep DEF Returned, Ended, Inv, Held, Known, Books, Progress, Inside, Busy, Called, Creates, Deletes
  <1>5. ASSUME NEW r \in Requests, Commit(r) PROVE Progress'
    BY <1>5, CommitStep DEF Returned, Inv, Held, Known, Books, Progress, Inside, Busy, Called, Creates, Deletes
  <1>6. ASSUME NEW r \in Requests, CommitFails(r) \/ Abandon(r) PROVE Progress'
    BY <1>6, GivenUpStep DEF Returned, Inv, Held, Known, Books, Progress, Inside, Busy, Called, Creates, Deletes
  <1>7. ASSUME NEW r \in Requests, Unheard(r) PROVE Progress'
    BY <1>7, UnheardStep DEF Ended, Inv, Held, Known, Books, Progress, Inside, Busy, Called, Creates, Deletes
  <1>8. ASSUME NEW r \in Requests, Take(r) PROVE Progress'
    BY <1>8, TakeStep DEF Moved, Accepts, Inv, Held, Progress, Inside, Called, Creates, Deletes, Busy
  <1>9. ASSUME NEW r \in Requests, Work(r) PROVE Progress'
    BY <1>9, WorkStep DEF Moved, Inv, Held, Known, Books, Progress, Inside, Busy, Called, Creates, Deletes
  <1>10. ASSUME NEW r \in Requests, WorkFails(r) PROVE Progress'
    BY <1>10, WorkFailsStep DEF Moved, Inv, Held, Known, Books, Progress, Inside, Busy, Called, Creates, Deletes
  <1>11. ASSUME NEW r \in Requests, Record(r) PROVE Progress'
    BY <1>11, RecordStep DEF Moved, Inv, Held, Known, Books, Progress, Inside, Busy, Called, Creates, Deletes
  <1>12. ASSUME NEW r \in Requests, RecordFails(r) PROVE Progress'
    BY <1>12, RecordFailsStep DEF Moved, Inv, Held, Known, Books, Progress, Inside, Busy, Called, Creates, Deletes
  <1>13. ASSUME NEW r \in Requests, Save(r) PROVE Progress'
    BY <1>13, SaveStep DEF Moved, Inv, Held, Known, Books, Progress, Inside, Busy, Called, Creates, Deletes
  <1>14. ASSUME NEW r \in Requests, SaveFails(r) PROVE Progress'
    BY <1>14, SaveFailsStep DEF Moved, Inv, Held, Known, Books, Progress, Inside, Busy, Called, Creates, Deletes
  <1>15. ASSUME NEW r \in Requests, Unreachable(r) PROVE Progress'
    BY <1>15, UnreachableStep DEF Moved, Inv, Held, Known, Books, Progress, Inside, Busy, Called, Creates, Deletes
  <1>16. CASE SaveOther
    BY <1>16 DEF SaveOther, MutexFree, panelVars, Inv, Held, Known, Books, Progress, Inside, Busy, Called, Creates, Deletes
  <1>17. CASE Crash
    BY <1>17, CrashCuts DEF Crash, panelVars, Inv, Held, Known, Books, Progress, Inside, Busy, Called, Creates, Deletes
  <1>18. CASE Restart
    BY <1>18 DEF Restart, CanStart, Domains, panelVars, Inv, Held, Known, Books, Progress, Inside, Busy, Called, Creates, Deletes
  <1>19. CASE UNCHANGED vars
    BY <1>19 DEF vars, panelVars, agentVars, Inv, Held, Known, Books, Progress, Inside, Busy, Called, Creates, Deletes
  <1> QED BY <1>1, <1>2, <1>3, <1>4, <1>5, <1>6, <1>7, <1>8, <1>9, <1>10, <1>11, <1>12, <1>13, <1>14, <1>15, <1>16, <1>17, <1>18, <1>19 DEF Next, Panel, Agent

\* The invariant is inductive, so it holds throughout.
THEOREM Invariance == Spec => []Inv
  <1>1. Inv /\ [Next]_vars => Inv'
    BY StepTypeOK, StepHeld, StepKnown, StepBooks, StepProgress DEF Inv
  <1> QED BY InitInv, <1>1, PTL DEF Spec

\* Every value stays in its type: nothing but drawn identifiers gets into the panel's table,
\* the agent's registry, its file, or what exists on the host.
THEOREM TypeCorrect == Spec => []TypeOK
  <1>1. Inv => TypeOK
    BY DEF Inv
  <1> QED BY Invariance, <1>1, PTL

-----------------------------------------------------------------------------
(* The links between the rows of the panel. *)

LEMMA StepLinks == Inv /\ Links /\ [Next]_vars => Links'
  <1> SUFFICES ASSUME Inv /\ Links, [Next]_vars PROVE Links'
    OBVIOUS
  <1>1. ASSUME NEW r \in Requests, NEW i \in Ids, NEW v \in Resource, Create(r, i, v) PROVE Links'
    <2>1. /\ Sent(r, "create", i)
          /\ what[i] = None /\ what'[i] = v /\ v # None
          /\ \A j \in Ids \ {i} : what'[j] = what[j]
          /\ LinkIn(rows, v)
          /\ UNCHANGED <<rows, retired, doomed, up, items, saved>>
      BY <1>1, CreateStep DEF Inv
    <2> QED BY <2>1 DEF Sent, Inv, Held, Known, Progress, Books, Links, LinksResolve, LinkIn, Busy
  <1>2. ASSUME NEW r \in Requests, NEW i \in Ids, Delete(r, i) PROVE Links'
    BY <1>2, DeleteStep DEF Sent, Inv, Held, Known, Progress, Books, Links, LinksResolve, LinkIn, Busy
  <1>3. ASSUME NEW r \in Requests, Approved(r) PROVE Links'
    BY <1>3, ApprovedStep DEF Committing, Ended, Inv, Held, Known, Progress, Books, Links, LinksResolve, LinkIn, Busy
  <1>4. ASSUME NEW r \in Requests, Refused(r) PROVE Links'
    BY <1>4, RefusedStep DEF Returned, Ended, Inv, Held, Known, Progress, Books, Links, LinksResolve, LinkIn, Busy
  <1>5. ASSUME NEW r \in Requests, Commit(r) PROVE Links'
    BY <1>5, CommitStep DEF Returned, Inv, Held, Known, Progress, Books, Links, LinksResolve, LinkIn, Busy
  <1>6. ASSUME NEW r \in Requests, CommitFails(r) \/ Abandon(r) PROVE Links'
    BY <1>6, GivenUpStep DEF Returned, Inv, Held, Known, Progress, Books, Links, LinksResolve, LinkIn, Busy
  <1>7. ASSUME NEW r \in Requests, Unheard(r) PROVE Links'
    BY <1>7, UnheardStep DEF Ended, Inv, Held, Known, Progress, Books, Links, LinksResolve, LinkIn, Busy
  <1>8. ASSUME NEW r \in Requests, Take(r) PROVE Links'
    BY <1>8, TakeStep DEF Moved, Inv, Held, Known, Progress, Books, Links, LinksResolve, LinkIn, Busy
  <1>9. ASSUME NEW r \in Requests, Work(r) PROVE Links'
    BY <1>9, WorkStep DEF Moved, Inv, Held, Known, Progress, Books, Links, LinksResolve, LinkIn, Busy
  <1>10. ASSUME NEW r \in Requests, WorkFails(r) PROVE Links'
    BY <1>10, WorkFailsStep DEF Moved, Inv, Held, Known, Progress, Books, Links, LinksResolve, LinkIn, Busy
  <1>11. ASSUME NEW r \in Requests, Record(r) PROVE Links'
    BY <1>11, RecordStep DEF Moved, Inv, Held, Known, Progress, Books, Links, LinksResolve, LinkIn, Busy
  <1>12. ASSUME NEW r \in Requests, RecordFails(r) PROVE Links'
    BY <1>12, RecordFailsStep DEF Moved, Inv, Held, Known, Progress, Books, Links, LinksResolve, LinkIn, Busy
  <1>13. ASSUME NEW r \in Requests, Save(r) PROVE Links'
    BY <1>13, SaveStep DEF Moved, Inv, Held, Known, Progress, Books, Links, LinksResolve, LinkIn, Busy
  <1>14. ASSUME NEW r \in Requests, SaveFails(r) PROVE Links'
    BY <1>14, SaveFailsStep DEF Moved, Inv, Held, Known, Progress, Books, Links, LinksResolve, LinkIn, Busy
  <1>15. ASSUME NEW r \in Requests, Unreachable(r) PROVE Links'
    BY <1>15, UnreachableStep DEF Moved, Inv, Held, Known, Progress, Books, Links, LinksResolve, LinkIn, Busy
  <1>16. CASE SaveOther
    BY <1>16 DEF SaveOther, MutexFree, panelVars, Inv, Held, Known, Progress, Books, Links, LinksResolve, LinkIn, Busy
  <1>17. CASE Crash
    BY <1>17, CrashCuts DEF Crash, panelVars, Inv, Held, Known, Progress, Books, Links, LinksResolve, LinkIn, Busy
  <1>18. CASE Restart
    BY <1>18 DEF Restart, CanStart, Domains, panelVars, Inv, Held, Known, Progress, Books, Links, LinksResolve, LinkIn, Busy
  <1>19. CASE UNCHANGED vars
    BY <1>19 DEF vars, panelVars, agentVars, Inv, Held, Known, Progress, Books, Links, LinksResolve, LinkIn, Busy
  <1> QED BY <1>1, <1>2, <1>3, <1>4, <1>5, <1>6, <1>7, <1>8, <1>9, <1>10, <1>11, <1>12, <1>13, <1>14, <1>15, <1>16, <1>17, <1>18, <1>19 DEF Next, Panel, Agent

-----------------------------------------------------------------------------
(* Names of domains. *)

LEMMA StepNaming == Inv /\ Naming /\ [Next]_vars => Naming'
  <1> SUFFICES ASSUME Inv /\ Naming, [Next]_vars PROVE Naming'
    OBVIOUS
  <1>1. ASSUME NEW r \in Requests, NEW i \in Ids, NEW v \in Resource, Create(r, i, v) PROVE Naming'
    <2>1. /\ Sent(r, "create", i) /\ UNCHANGED <<rows, items, saved>>
          /\ what'[i] = v /\ NameFree(rows, v)
          /\ i \notin rows /\ \A j \in rows \cup items \cup saved : what'[j] = what[j]
      BY <1>1, CreateStep DEF Inv, Known
    <2>2. NameOnce'
      BY <2>1 DEF Naming, NameOnce, Domains
    <2>3. ASSUME NEW q \in Requests, Busy(q)', panel'[q].verb = "create"
          PROVE  NameFree(rows, what[panel[q].id])'
      <3>1. q = r
        BY <2>1, <2>3, ConstantsAssumption DEF Sent, Inv, Held, Busy
      <3> QED BY <2>1, <3>1 DEF Sent, NameFree, Domains
    <2>4. ASSUME NEW q \in Requests, Creates(q)', call'[q].at \in {"work", "record"}
          PROVE  NameFree(items, what[call[q].id])'
      <3>1. q # r /\ call'[q] = call[q]
        BY <2>1, <2>4 DEF Sent
      <3>2. NameFree(items, what[call[q].id]) /\ call[q].id \in Ids /\ what[call[q].id] # None
        BY <2>4, <3>1 DEF Naming, Creates, Called, Inv, Held, Known
      <3>3. what'[call[q].id] = what[call[q].id]
        BY <1>1, <3>2, CreateStep DEF Inv
      <3> QED BY <2>1, <3>1, <3>2, <3>3 DEF NameFree, Domains
    <2> QED BY <2>2, <2>3, <2>4 DEF Naming
  <1>2. ASSUME NEW r \in Requests, NEW i \in Ids, Delete(r, i) PROVE Naming'
    BY <1>2, DeleteStep DEF Sent, Inv, Held, Known, Progress, Naming, NameOnce, NameFree, Domains, Busy, Called, Creates, Accepts
  <1>3. ASSUME NEW r \in Requests, Approved(r) PROVE Naming'
    BY <1>3, ApprovedStep DEF Committing, Ended, Inv, Held, Known, Progress, Naming, NameOnce, NameFree, Domains, Busy, Called, Creates, Accepts
  <1>4. ASSUME NEW r \in Requests, Refused(r) PROVE Naming'
    BY <1>4, RefusedStep DEF Returned, Ended, Inv, Held, Known, Progress, Naming, NameOnce, NameFree, Domains, Busy, Called, Creates, Accepts
  <1>5. ASSUME NEW r \in Requests, Commit(r) PROVE Naming'
    BY <1>5, CommitStep DEF Returned, Inv, Held, Known, Progress, Naming, NameOnce, NameFree, Domains, Busy, Called, Creates, Accepts
  <1>6. ASSUME NEW r \in Requests, CommitFails(r) \/ Abandon(r) PROVE Naming'
    BY <1>6, GivenUpStep DEF Returned, Inv, Held, Known, Progress, Naming, NameOnce, NameFree, Domains, Busy, Called, Creates, Accepts
  <1>7. ASSUME NEW r \in Requests, Unheard(r) PROVE Naming'
    BY <1>7, UnheardStep DEF Ended, Inv, Held, Known, Progress, Naming, NameOnce, NameFree, Domains, Busy, Called, Creates, Accepts
  <1>8. ASSUME NEW r \in Requests, Take(r) PROVE Naming'
    BY <1>8, TakeStep DEF Moved, Inv, Held, Known, Progress, Naming, NameOnce, NameFree, Domains, Busy, Called, Creates, Accepts
  <1>9. ASSUME NEW r \in Requests, Work(r) PROVE Naming'
    BY <1>9, WorkStep DEF Moved, Inv, Held, Known, Progress, Naming, NameOnce, NameFree, Domains, Busy, Called, Creates, Accepts
  <1>10. ASSUME NEW r \in Requests, WorkFails(r) PROVE Naming'
    BY <1>10, WorkFailsStep DEF Moved, Inv, Held, Known, Progress, Naming, NameOnce, NameFree, Domains, Busy, Called, Creates, Accepts
  <1>11. ASSUME NEW r \in Requests, Record(r) PROVE Naming'
    <2> DEFINE i == call[r].id
    <2>1. /\ items' \subseteq items \cup {i} /\ UNCHANGED <<what, rows, saved, panel>>
          /\ items' \subseteq items \/ call[r].verb = "create"
          /\ \A q \in Requests : call'[q].at \notin {"work", "record"}
      BY <1>11, RecordStep DEF Moved, Inv, Held, Inside, Called
    <2>2. ASSUME call[r].verb = "create" PROVE NameFree(items, what[i])
      <3>1. call[r].at = "record"
        BY <1>11, RecordStep DEF Inv
      <3> QED BY <2>2, <3>1 DEF Naming, Creates, Called
    <2>3. \A j, k \in Domains(items') : what[j].name = what[k].name => j = k
      BY <2>1, <2>2 DEF Naming, NameOnce, NameFree, Domains
    <2>4. NameOnce'
      BY <2>1, <2>3 DEF Naming, NameOnce, Domains
    <2> QED BY <2>1, <2>4 DEF Naming, NameFree, Domains, Busy, Creates
  <1>12. ASSUME NEW r \in Requests, RecordFails(r) PROVE Naming'
    <2> DEFINE i == call[r].id
    <2>1. /\ items' \subseteq items \cup {i} /\ UNCHANGED <<what, rows, saved, panel>>
          /\ items' \subseteq items \/ call[r].verb = "create"
          /\ \A q \in Requests : call'[q].at \notin {"work", "record"}
      BY <1>12, RecordFailsStep DEF Moved, Inv, Held, Inside, Called
    <2>2. ASSUME call[r].verb = "create" PROVE NameFree(items, what[i])
      <3>1. call[r].at = "record"
        BY <1>12, RecordFailsStep DEF Inv
      <3> QED BY <2>2, <3>1 DEF Naming, Creates, Called
    <2>3. \A j, k \in Domains(items') : what[j].name = what[k].name => j = k
      BY <2>1, <2>2 DEF Naming, NameOnce, NameFree, Domains
    <2>4. NameOnce'
      BY <2>1, <2>3 DEF Naming, NameOnce, Domains
    <2> QED BY <2>1, <2>4 DEF Naming, NameFree, Domains, Busy, Creates
  <1>13. ASSUME NEW r \in Requests, Save(r) PROVE Naming'
    BY <1>13, SaveStep DEF Moved, Inv, Held, Known, Progress, Naming, NameOnce, NameFree, Domains, Busy, Called, Creates, Accepts
  <1>14. ASSUME NEW r \in Requests, SaveFails(r) PROVE Naming'
    BY <1>14, SaveFailsStep DEF Moved, Inv, Held, Known, Progress, Naming, NameOnce, NameFree, Domains, Busy, Called, Creates, Accepts
  <1>15. ASSUME NEW r \in Requests, Unreachable(r) PROVE Naming'
    BY <1>15, UnreachableStep DEF Moved, Inv, Held, Known, Progress, Naming, NameOnce, NameFree, Domains, Busy, Called, Creates, Accepts
  <1>16. CASE SaveOther
    BY <1>16 DEF SaveOther, MutexFree, panelVars, Inv, Held, Known, Progress, Naming, NameOnce, NameFree, Domains, Busy, Called, Creates, Accepts
  <1>17. CASE Crash
    BY <1>17, CrashCuts DEF Crash, panelVars, Inv, Held, Known, Progress, Naming, NameOnce, NameFree, Domains, Busy, Called, Creates, Accepts
  <1>18. CASE Restart
    BY <1>18 DEF Restart, CanStart, Domains, panelVars, Inv, Held, Known, Progress, Naming, NameOnce, NameFree, Domains, Busy, Called, Creates, Accepts
  <1>19. CASE UNCHANGED vars
    BY <1>19 DEF vars, panelVars, agentVars, Inv, Held, Known, Progress, Naming, NameOnce, NameFree, Domains, Busy, Called, Creates, Accepts
  <1> QED BY <1>1, <1>2, <1>3, <1>4, <1>5, <1>6, <1>7, <1>8, <1>9, <1>10, <1>11, <1>12, <1>13, <1>14, <1>15, <1>16, <1>17, <1>18, <1>19 DEF Next, Panel, Agent

-----------------------------------------------------------------------------
(* What the registry describes exists. *)

LEMMA StepBuilding == Inv /\ Building /\ [Next]_vars => Building'
  <1> SUFFICES ASSUME Inv /\ Building, [Next]_vars PROVE Building'
    OBVIOUS
  <1>1. ASSUME NEW r \in Requests, NEW i \in Ids, NEW v \in Resource, Create(r, i, v) PROVE Building'
    BY <1>1, CreateStep DEF Sent, Inv, Held, Known, Progress, Books, Building, Busy, Called, Creates, Deletes
  <1>2. ASSUME NEW r \in Requests, NEW i \in Ids, Delete(r, i) PROVE Building'
    BY <1>2, DeleteStep DEF Sent, Inv, Held, Known, Progress, Books, Building, Busy, Called, Creates, Deletes
  <1>3. ASSUME NEW r \in Requests, Approved(r) PROVE Building'
    BY <1>3, ApprovedStep DEF Committing, Ended, Inv, Held, Known, Progress, Books, Building, Busy, Called, Creates, Deletes
  <1>4. ASSUME NEW r \in Requests, Refused(r) PROVE Building'
    BY <1>4, RefusedStep DEF Returned, Ended, Inv, Held, Known, Progress, Books, Building, Busy, Called, Creates, Deletes
  <1>5. ASSUME NEW r \in Requests, Commit(r) PROVE Building'
    BY <1>5, CommitStep DEF Returned, Inv, Held, Known, Progress, Books, Building, Busy, Called, Creates, Deletes
  <1>6. ASSUME NEW r \in Requests, CommitFails(r) \/ Abandon(r) PROVE Building'
    BY <1>6, GivenUpStep DEF Returned, Inv, Held, Known, Progress, Books, Building, Busy, Called, Creates, Deletes
  <1>7. ASSUME NEW r \in Requests, Unheard(r) PROVE Building'
    BY <1>7, UnheardStep DEF Ended, Inv, Held, Known, Progress, Books, Building, Busy, Called, Creates, Deletes
  <1>8. ASSUME NEW r \in Requests, Take(r) PROVE Building'
    BY <1>8, TakeStep DEF Moved, Inv, Held, Known, Progress, Books, Building, Busy, Called, Creates, Deletes
  <1>9. ASSUME NEW r \in Requests, Work(r) PROVE Building'
    BY <1>9, WorkStep DEF Moved, Inv, Held, Known, Progress, Books, Building, Busy, Called, Creates, Deletes
  <1>10. ASSUME NEW r \in Requests, WorkFails(r) PROVE Building'
    BY <1>10, WorkFailsStep DEF Moved, Inv, Held, Known, Progress, Books, Building, Busy, Called, Creates, Deletes
  <1>11. ASSUME NEW r \in Requests, Record(r) PROVE Building'
    BY <1>11, RecordStep DEF Moved, Inv, Held, Known, Progress, Books, Building, Busy, Called, Creates, Deletes
  <1>12. ASSUME NEW r \in Requests, RecordFails(r) PROVE Building'
    BY <1>12, RecordFailsStep DEF Moved, Inv, Held, Known, Progress, Books, Building, Busy, Called, Creates, Deletes
  <1>13. ASSUME NEW r \in Requests, Save(r) PROVE Building'
    BY <1>13, SaveStep DEF Moved, Inv, Held, Known, Progress, Books, Building, Busy, Called, Creates, Deletes
  <1>14. ASSUME NEW r \in Requests, SaveFails(r) PROVE Building'
    BY <1>14, SaveFailsStep DEF Moved, Inv, Held, Known, Progress, Books, Building, Busy, Called, Creates, Deletes
  <1>15. ASSUME NEW r \in Requests, Unreachable(r) PROVE Building'
    BY <1>15, UnreachableStep DEF Moved, Inv, Held, Known, Progress, Books, Building, Busy, Called, Creates, Deletes
  <1>16. CASE SaveOther
    BY <1>16 DEF SaveOther, MutexFree, panelVars, Inv, Held, Known, Progress, Books, Building, Busy, Called, Creates, Deletes
  <1>17. CASE Crash
    BY <1>17, CrashCuts DEF Crash, panelVars, Inv, Held, Known, Progress, Books, Building, Busy, Called, Creates, Deletes
  <1>18. CASE Restart
    BY <1>18 DEF Restart, CanStart, Domains, panelVars, Inv, Held, Known, Progress, Books, Building, Busy, Called, Creates, Deletes
  <1>19. CASE UNCHANGED vars
    BY <1>19 DEF vars, panelVars, agentVars, Inv, Held, Known, Progress, Books, Building, Busy, Called, Creates, Deletes
  <1> QED BY <1>1, <1>2, <1>3, <1>4, <1>5, <1>6, <1>7, <1>8, <1>9, <1>10, <1>11, <1>12, <1>13, <1>14, <1>15, <1>16, <1>17, <1>18, <1>19 DEF Next, Panel, Agent

-----------------------------------------------------------------------------
(* While only host programs fail. *)

\* Nobody but the handler r, when it has the lock or takes it, has anything under way.
Alone(r) == \A q \in Requests \ {r} : ~Busy(q) /\ ~Called(q)

LEMMA OnlyOne ==
    ASSUME Inv, Agreement, spared, NEW r \in Requests, writes = None \/ Busy(r) \/ Called(r)
    PROVE  Alone(r)
  <1>1. \A q \in Requests : Called(q) => Busy(q)
    BY DEF Agreement, Agrees, Busy
  <1> QED BY <1>1, ConstantsAssumption DEF Inv, Held, Alone

LEMMA StepAgreement == Inv /\ Agreement /\ [Next]_vars => Agreement'
  <1> SUFFICES ASSUME Inv /\ Agreement, [Next]_vars PROVE Agreement'
    OBVIOUS
  <1>1. ASSUME NEW r \in Requests, NEW i \in Ids, NEW v \in Resource, Create(r, i, v) PROVE Agreement'
    <2> SUFFICES ASSUME spared PROVE Agreement'
      BY <1>1, CreateStep DEF Inv, Agreement
    <2>1. Alone(r)
      BY <1>1, OnlyOne, CreateStep DEF Sent, Inv, Busy, Called
    <2>2. Sent(r, "create", i) /\ UNCHANGED <<rows, items, saved, up>>
      BY <1>1, CreateStep DEF Inv
    <2>3. Alone(r)'
      BY <2>1, <2>2 DEF Sent, Alone, Busy, Called
    <2>4. up /\ items = rows /\ saved = rows
      BY <2>1, <2>2 DEF Sent, Alone, Agreement, Busy
    <2>5. Agrees(r)'
      BY <2>2, <2>4 DEF Sent, Agrees, Called
    <2> QED BY <2>2, <2>3, <2>4, <2>5 DEF Sent, Alone, Agreement, Agrees, Busy
  <1>2. ASSUME NEW r \in Requests, NEW i \in Ids, Delete(r, i) PROVE Agreement'
    <2> SUFFICES ASSUME spared PROVE Agreement'
      BY <1>2, DeleteStep DEF Inv, Agreement
    <2>1. Alone(r)
      BY <1>2, OnlyOne, DeleteStep DEF Sent, Inv, Busy, Called
    <2>2. Sent(r, "delete", i) /\ UNCHANGED <<rows, items, saved, up>>
      BY <1>2, DeleteStep DEF Inv
    <2>3. Alone(r)'
      BY <2>1, <2>2 DEF Sent, Alone, Busy, Called
    <2>4. up /\ items = rows /\ saved = rows
      BY <2>1, <2>2 DEF Sent, Alone, Agreement, Busy
    <2>5. Agrees(r)'
      BY <2>2, <2>4 DEF Sent, Agrees, Called
    <2> QED BY <2>2, <2>3, <2>4, <2>5 DEF Sent, Alone, Agreement, Agrees, Busy
  <1>3. ASSUME NEW r \in Requests, Approved(r) PROVE Agreement'
    <2> SUFFICES ASSUME spared PROVE Agreement'
      BY <1>3, ApprovedStep DEF Inv, Agreement
    <2>1. Alone(r)
      BY <1>3, OnlyOne, ApprovedStep DEF Committing, Ended, Inv, Busy, Called
    <2>2. Alone(r)'
      <3>1. \A q \in Requests \ {r} : panel'[q] = panel[q] /\ call'[q] = call[q]
        BY <1>3, ApprovedStep DEF Committing, Ended, Inv
      <3> QED BY <2>1, <3>1 DEF Alone, Busy, Called
    <2>3. Agrees(r) /\ up
      BY DEF Agreement
    <2>4. Agrees(r)'
      <3>1. items = After(r) /\ saved = After(r)
        BY <1>3, <2>3, ApprovedStep DEF Inv, Agrees
      <3>2. After(r)' = After(r)
        BY <1>3, ApprovedStep DEF Committing, Inv, After
      <3>3. panel'[r].at = "commit" /\ ~Called(r)'
        BY <1>3, ApprovedStep DEF Committing, Ended, Inv, Called
      <3> QED BY <1>3, <3>1, <3>2, <3>3, ApprovedStep DEF Inv, Agrees
    <2>5. ~Busy(r)' => items' = rows' /\ saved' = rows'
      BY <1>3, <2>3, ApprovedStep DEF Committing, Ended, Inv, Held, Agrees, After, Called, Busy
    <2> QED BY <1>3, <2>2, <2>3, <2>4, <2>5, ApprovedStep DEF Alone, Agreement, Agrees, Busy, Inv
  <1>4. ASSUME NEW r \in Requests, Refused(r) PROVE Agreement'
    <2> SUFFICES ASSUME spared PROVE Agreement'
      BY <1>4, RefusedStep DEF Inv, Agreement
    <2>1. Alone(r)
      BY <1>4, OnlyOne, RefusedStep DEF Returned, Ended, Inv, Busy, Called
    <2>2. Alone(r)'
      <3>1. \A q \in Requests \ {r} : panel'[q] = panel[q] /\ call'[q] = call[q]
        BY <1>4, RefusedStep DEF Returned, Ended, Inv
      <3> QED BY <2>1, <3>1 DEF Alone, Busy, Called
    <2>3. Agrees(r) /\ up
      BY DEF Agreement
    <2>4. Agrees(r)'
      BY <1>4, <2>3, RefusedStep DEF Returned, Ended, Inv, Held, Agrees, After, Called
    <2>5. ~Busy(r)' => items' = rows' /\ saved' = rows'
      <3>1. call[r].at = "answer" /\ ~call[r].ok /\ panel[r].at = "wait"
        BY <1>4, <2>3, RefusedStep DEF Inv, Agrees, Called
      <3> QED BY <1>4, <2>3, <3>1, RefusedStep DEF Inv, Agrees
    <2> QED BY <1>4, <2>2, <2>3, <2>4, <2>5, RefusedStep DEF Alone, Agreement, Agrees, Busy, Inv
  <1>5. ASSUME NEW r \in Requests, Commit(r) PROVE Agreement'
    <2> SUFFICES ASSUME spared PROVE Agreement'
      BY <1>5, CommitStep DEF Inv, Agreement
    <2>1. Alone(r)
      BY <1>5, OnlyOne, CommitStep DEF Returned, Inv, Busy, Called
    <2>2. Alone(r)'
      <3>1. \A q \in Requests \ {r} : panel'[q] = panel[q] /\ call'[q] = call[q]
        BY <1>5, CommitStep DEF Returned, Inv
      <3> QED BY <2>1, <3>1 DEF Alone, Busy, Called
    <2>3. Agrees(r) /\ up
      BY DEF Agreement
    <2>4. Agrees(r)'
      BY <1>5, <2>3, CommitStep DEF Returned, Inv, Held, Agrees, After, Called
    <2>5. ~Busy(r)' => items' = rows' /\ saved' = rows'
      <3>1. rows' = After(r)
        BY <1>5, CommitStep DEF Inv, After
      <3> QED BY <1>5, <2>3, <3>1, CommitStep DEF Inv, Agrees
    <2> QED BY <1>5, <2>2, <2>3, <2>4, <2>5, CommitStep DEF Alone, Agreement, Agrees, Busy, Inv
  <1>6. ASSUME NEW r \in Requests, CommitFails(r) \/ Abandon(r) PROVE Agreement'
    BY <1>6, GivenUpStep DEF Returned, Inv, Held, Known, Progress, Books, Agreement, Agrees, After, Inside, Busy, Called, Creates, Deletes
  <1>7. ASSUME NEW r \in Requests, Unheard(r) PROVE Agreement'
    BY <1>7, UnheardStep DEF Ended, Inv, Held, Known, Progress, Books, Agreement, Agrees, After, Inside, Busy, Called, Creates, Deletes
  <1>8. ASSUME NEW r \in Requests, Take(r) PROVE Agreement'
    <2> SUFFICES ASSUME spared PROVE Agreement'
      BY <1>8, TakeStep DEF Inv, Agreement
    <2>1. Alone(r)
      BY <1>8, OnlyOne, TakeStep DEF Moved, Inv, Busy, Called
    <2>2. Alone(r)'
      <3>1. UNCHANGED panel /\ \A q \in Requests \ {r} : call'[q] = call[q]
        BY <1>8, TakeStep DEF Moved, Inv
      <3> QED BY <2>1, <3>1 DEF Alone, Busy, Called
    <2>3. Agrees(r) /\ panel[r].at = "wait" /\ up
      BY <1>8, TakeStep DEF Inv, Agreement, Agrees, Called
    <2>4. call[r].verb = panel[r].verb /\ call[r].id = panel[r].id
      BY <2>3 DEF Inv, Held
    <2>5. Agrees(r)'
      <3>1. items = rows /\ saved = rows /\ ~call[r].ok
        BY <1>8, <2>3, TakeStep DEF Inv, Held, Agrees
      <3>2. /\ call'[r].at \in {"work", "record", "save"} /\ ~call'[r].ok
            /\ UNCHANGED <<rows, items, saved, panel>>
        BY <1>8, <3>1, TakeStep DEF Moved, Inv
      <3> QED BY <2>3, <3>1, <3>2 DEF Agrees, Called
    <2> QED BY <1>8, <2>2, <2>3, <2>5, TakeStep DEF Alone, Agreement, Agrees, Busy, Inv
  <1>9. ASSUME NEW r \in Requests, Work(r) PROVE Agreement'
    <2> SUFFICES ASSUME spared PROVE Agreement'
      BY <1>9, WorkStep DEF Inv, Agreement
    <2>1. Alone(r)
      BY <1>9, OnlyOne, WorkStep DEF Moved, Inv, Busy, Called
    <2>2. Alone(r)'
      <3>1. UNCHANGED panel /\ \A q \in Requests \ {r} : call'[q] = call[q]
        BY <1>9, WorkStep DEF Moved, Inv
      <3> QED BY <2>1, <3>1 DEF Alone, Busy, Called
    <2>3. Agrees(r) /\ panel[r].at = "wait" /\ up
      BY <1>9, WorkStep DEF Inv, Agreement, Agrees, Called
    <2>4. call[r].verb = panel[r].verb /\ call[r].id = panel[r].id
      BY <2>3 DEF Inv, Held
    <2>5. Agrees(r)'
      <3>1. items = rows /\ saved = rows /\ ~call[r].ok
        BY <1>9, <2>3, WorkStep DEF Inv, Held, Agrees
      <3>2. /\ call'[r].at \in {"work", "record", "save"} /\ ~call'[r].ok
            /\ UNCHANGED <<rows, items, saved, panel>>
        BY <1>9, <3>1, WorkStep DEF Moved, Inv
      <3> QED BY <2>3, <3>1, <3>2 DEF Agrees, Called
    <2> QED BY <1>9, <2>2, <2>3, <2>5, WorkStep DEF Alone, Agreement, Agrees, Busy, Inv
  <1>10. ASSUME NEW r \in Requests, WorkFails(r) PROVE Agreement'
    <2> SUFFICES ASSUME spared PROVE Agreement'
      BY <1>10, WorkFailsStep DEF Inv, Agreement
    <2>1. Alone(r)
      BY <1>10, OnlyOne, WorkFailsStep DEF Moved, Inv, Busy, Called
    <2>2. Alone(r)'
      <3>1. UNCHANGED panel /\ \A q \in Requests \ {r} : call'[q] = call[q]
        BY <1>10, WorkFailsStep DEF Moved, Inv
      <3> QED BY <2>1, <3>1 DEF Alone, Busy, Called
    <2>3. Agrees(r) /\ panel[r].at = "wait" /\ up
      BY <1>10, WorkFailsStep DEF Inv, Agreement, Agrees, Called
    <2>4. call[r].verb = panel[r].verb /\ call[r].id = panel[r].id
      BY <2>3 DEF Inv, Held
    <2>5. Agrees(r)'
      <3>1. items = rows /\ saved = rows /\ ~call[r].ok
        BY <1>10, <2>3, WorkFailsStep DEF Inv, Held, Agrees
      <3>2. /\ call'[r].at \in {"work", "record", "save"} /\ ~call'[r].ok
            /\ UNCHANGED <<rows, items, saved, panel>>
        BY <1>10, <3>1, WorkFailsStep DEF Moved, Inv
      <3> QED BY <2>3, <3>1, <3>2 DEF Agrees, Called
    <2> QED BY <1>10, <2>2, <2>3, <2>5, WorkFailsStep DEF Alone, Agreement, Agrees, Busy, Inv
  <1>11. ASSUME NEW r \in Requests, Record(r) PROVE Agreement'
    <2> SUFFICES ASSUME spared PROVE Agreement'
      BY <1>11, RecordStep DEF Inv, Agreement
    <2>1. Alone(r)
      BY <1>11, OnlyOne, RecordStep DEF Moved, Inv, Busy, Called
    <2>2. Alone(r)'
      <3>1. UNCHANGED panel /\ \A q \in Requests \ {r} : call'[q] = call[q]
        BY <1>11, RecordStep DEF Moved, Inv
      <3> QED BY <2>1, <3>1 DEF Alone, Busy, Called
    <2>3. Agrees(r) /\ panel[r].at = "wait" /\ up
      BY <1>11, RecordStep DEF Inv, Agreement, Agrees, Called
    <2>4. call[r].verb = panel[r].verb /\ call[r].id = panel[r].id
      BY <2>3 DEF Inv, Held
    <2>5. Agrees(r)'
      <3>1. After(r)' = After(r) /\ rows' = rows
        BY <1>11, RecordStep DEF Inv, After
      <3>2. items' = After(r) /\ saved = rows
        BY <1>11, <2>3, <2>4, RecordStep DEF Inv, Agrees, After
      <3>3. /\ panel'[r].at = "wait" /\ Called(r)'
            /\ call'[r].at = "save" /\ (call'[r].ok <=> TRUE)
        BY <1>11, <2>3, RecordStep DEF Moved, Inv, Called
      <3> QED BY <1>11, <2>3, <3>1, <3>2, <3>3, RecordStep DEF Agrees, Inv
    <2> QED BY <1>11, <2>2, <2>3, <2>5, RecordStep DEF Alone, Agreement, Agrees, Busy, Inv
  <1>12. ASSUME NEW r \in Requests, RecordFails(r) PROVE Agreement'
    BY <1>12, RecordFailsStep DEF Moved, Inv, Held, Known, Progress, Books, Agreement, Agrees, After, Inside, Busy, Called, Creates, Deletes
  <1>13. ASSUME NEW r \in Requests, Save(r) PROVE Agreement'
    <2> SUFFICES ASSUME spared PROVE Agreement'
      BY <1>13, SaveStep DEF Inv, Agreement
    <2>1. Alone(r)
      BY <1>13, OnlyOne, SaveStep DEF Moved, Inv, Busy, Called
    <2>2. Alone(r)'
      <3>1. UNCHANGED panel /\ \A q \in Requests \ {r} : call'[q] = call[q]
        BY <1>13, SaveStep DEF Moved, Inv
      <3> QED BY <2>1, <3>1 DEF Alone, Busy, Called
    <2>3. Agrees(r) /\ panel[r].at = "wait" /\ up
      BY <1>13, SaveStep DEF Inv, Agreement, Agrees, Called
    <2>4. call[r].verb = panel[r].verb /\ call[r].id = panel[r].id
      BY <2>3 DEF Inv, Held
    <2>5. Agrees(r)'
      <3>1. After(r)' = After(r) /\ rows' = rows
        BY <1>13, SaveStep DEF Inv, After
      <3>2. saved' = items /\ items' = items
        BY <1>13, <2>3, <2>4, SaveStep DEF Inv, Agrees, After
      <3>3. /\ panel'[r].at = "wait" /\ Called(r)'
            /\ call'[r].at = "answer" /\ (call'[r].ok <=> call[r].ok)
        BY <1>13, <2>3, SaveStep DEF Moved, Inv, Called
      <3> QED BY <1>13, <2>3, <3>1, <3>2, <3>3, SaveStep DEF Agrees, Inv
    <2> QED BY <1>13, <2>2, <2>3, <2>5, SaveStep DEF Alone, Agreement, Agrees, Busy, Inv
  <1>14. ASSUME NEW r \in Requests, SaveFails(r) PROVE Agreement'
    BY <1>14, SaveFailsStep DEF Moved, Inv, Held, Known, Progress, Books, Agreement, Agrees, After, Inside, Busy, Called, Creates, Deletes
  <1>15. ASSUME NEW r \in Requests, Unreachable(r) PROVE Agreement'
    BY <1>15, UnreachableStep DEF Moved, Inv, Held, Known, Progress, Books, Agreement, Agrees, After, Inside, Busy, Called, Creates, Deletes
  <1>16. CASE SaveOther
    BY <1>16 DEF SaveOther, MutexFree, panelVars, Inv, Held, Known, Progress, Books, Agreement, Agrees, After, Inside, Busy, Called, Creates, Deletes
  <1>17. CASE Crash
    BY <1>17, CrashCuts DEF Crash, panelVars, Inv, Held, Known, Progress, Books, Agreement, Agrees, After, Inside, Busy, Called, Creates, Deletes
  <1>18. CASE Restart
    BY <1>18 DEF Restart, CanStart, Domains, panelVars, Inv, Held, Known, Progress, Books, Agreement, Agrees, After, Inside, Busy, Called, Creates, Deletes
  <1>19. CASE UNCHANGED vars
    BY <1>19 DEF vars, panelVars, agentVars, Inv, Held, Known, Progress, Books, Agreement, Agrees, After, Inside, Busy, Called, Creates, Deletes
  <1> QED BY <1>1, <1>2, <1>3, <1>4, <1>5, <1>6, <1>7, <1>8, <1>9, <1>10, <1>11, <1>12, <1>13, <1>14, <1>15, <1>16, <1>17, <1>18, <1>19 DEF Next, Panel, Agent

-----------------------------------------------------------------------------
(* The properties of the runs. *)

LEMMA InitParts == Init => Links /\ Naming /\ Building /\ Agreement
  BY DEF Init, Links, LinksResolve, Naming, NameOnce, Domains, Building, Agreement, Agrees, IdlePanel,
         IdleCall, Busy, Called, Creates

\* No row of the panel is left with a link to a row that is gone: what a handler found out
\* about links under the lock holds until it commits.
THEOREM LinksAlwaysResolve == Spec => []LinksResolve
  <1>1. Links => LinksResolve
    BY DEF Links
  <1> QED BY Invariance, InitParts, StepLinks, <1>1, PTL DEF Spec

\* Two domains never share a name in the panel, in the agent or in its file, whatever one of
\* them knows that the others do not.
THEOREM NamesAreUnique == Spec => []NameOnce
  <1>1. Naming => NameOnce
    BY DEF Naming
  <1> QED BY Invariance, InitParts, StepNaming, <1>1, PTL DEF Spec

\* What the registry file describes was built, and stays built until somebody has asked for
\* its deletion, through every failure and restart.
THEOREM StoredWasBuilt == Spec => []StoredIsBuilt
  <1>1. Building => StoredIsBuilt
    BY DEF Building, StoredIsBuilt
  <1> QED BY Invariance, InitParts, StepBuilding, <1>1, PTL DEF Spec

\* Failures of host programs alone never set the panel and the agent apart for longer than a
\* request lasts.
THEOREM RegistriesAgree == Spec => []AgreeAtRest
  <1>1. Agreement => AgreeAtRest
    BY DEF Agreement, AgreeAtRest, AtRest, Busy
  <1> QED BY Invariance, InitParts, StepAgreement, <1>1, PTL DEF Spec

-----------------------------------------------------------------------------
(* The refinement of Catalogue. *)

\* Writing the registry file puts down what was made and leaves out what was taken down.
LEMMA SavePersists ==
    ASSUME Inv, saved' = items, UNCHANGED <<rows, retired>>
    PROVE  [C!CNext]_C!cvars
  <1> DEFINE made == items \ saved
             gone == saved \ items
  <1>1. made \in SUBSET (Ids \ (saved \cup rows \cup retired)) /\ gone \in SUBSET rows
    BY DEF Inv, TypeOK, Books
  <1>2. saved' = (saved \cup made) \ gone
    OBVIOUS
  <1> HIDE DEF made, gone
  <1> QED BY <1>1, <1>2 DEF C!Persist, C!CNext

LEMMA StepCatalogue == Inv /\ [Next]_vars => [C!CNext]_C!cvars
  <1> SUFFICES ASSUME Inv, [Next]_vars PROVE [C!CNext]_C!cvars
    OBVIOUS
  <1>1. ASSUME NEW r \in Requests, NEW i \in Ids, NEW v \in Resource, Create(r, i, v) PROVE [C!CNext]_C!cvars
    BY <1>1, CreateStep DEF Sent, Inv, C!cvars
  <1>2. ASSUME NEW r \in Requests, NEW i \in Ids, Delete(r, i) PROVE [C!CNext]_C!cvars
    BY <1>2, DeleteStep DEF Sent, Inv, C!cvars
  <1>3. ASSUME NEW r \in Requests, Approved(r) PROVE [C!CNext]_C!cvars
    BY <1>3, ApprovedStep DEF Committing, Ended, Inv, C!cvars
  <1>4. ASSUME NEW r \in Requests, Refused(r) PROVE [C!CNext]_C!cvars
    BY <1>4, RefusedStep DEF Returned, Ended, Inv, C!cvars
  <1>5. ASSUME NEW r \in Requests, Commit(r) PROVE [C!CNext]_C!cvars
    <2> DEFINE i == panel[r].id
    <2>1. CASE panel[r].verb = "create"
      <3>1. /\ i \in saved \ (rows \cup retired)
            /\ rows' = rows \cup {i} /\ UNCHANGED <<saved, retired>>
        BY <1>5, <2>1, CommitStep DEF Inv, Progress, Busy
      <3> QED BY <3>1 DEF C!CNext, C!List
    <2>2. CASE panel[r].verb = "delete"
      <3>1. /\ i \in rows \ saved
            /\ rows' = rows \ {i} /\ retired' = retired \cup {i} /\ UNCHANGED saved
        BY <1>5, <2>2, CommitStep DEF Inv, Progress, Busy
      <3> QED BY <3>1 DEF C!CNext, C!Retire
    <2> QED BY <1>5, <2>1, <2>2, CommitStep DEF Inv, Held, Busy
  <1>6. ASSUME NEW r \in Requests, CommitFails(r) \/ Abandon(r) PROVE [C!CNext]_C!cvars
    BY <1>6, GivenUpStep DEF Returned, Inv, C!cvars
  <1>7. ASSUME NEW r \in Requests, Unheard(r) PROVE [C!CNext]_C!cvars
    BY <1>7, UnheardStep DEF Ended, Inv, C!cvars
  <1>8. ASSUME NEW r \in Requests, Take(r) PROVE [C!CNext]_C!cvars
    BY <1>8, TakeStep DEF Moved, Inv, C!cvars
  <1>9. ASSUME NEW r \in Requests, Work(r) PROVE [C!CNext]_C!cvars
    BY <1>9, WorkStep DEF Moved, Inv, C!cvars
  <1>10. ASSUME NEW r \in Requests, WorkFails(r) PROVE [C!CNext]_C!cvars
    BY <1>10, WorkFailsStep DEF Moved, Inv, C!cvars
  <1>11. ASSUME NEW r \in Requests, Record(r) PROVE [C!CNext]_C!cvars
    BY <1>11, RecordStep DEF Moved, Inv, C!cvars
  <1>12. ASSUME NEW r \in Requests, RecordFails(r) PROVE [C!CNext]_C!cvars
    BY <1>12, RecordFailsStep DEF Moved, Inv, C!cvars
  <1>13. ASSUME NEW r \in Requests, Save(r) PROVE [C!CNext]_C!cvars
    BY <1>13, SaveStep, SavePersists DEF Inv
  <1>14. ASSUME NEW r \in Requests, SaveFails(r) PROVE [C!CNext]_C!cvars
    BY <1>14, SaveFailsStep DEF Moved, Inv, C!cvars
  <1>15. ASSUME NEW r \in Requests, Unreachable(r) PROVE [C!CNext]_C!cvars
    BY <1>15, UnreachableStep DEF Moved, Inv, C!cvars
  <1>16. CASE SaveOther
    BY <1>16, SavePersists DEF SaveOther, panelVars
  <1>17. CASE Crash
    BY <1>17, CrashCuts DEF Crash, panelVars, Inv, C!cvars
  <1>18. CASE Restart
    BY <1>18 DEF Restart, CanStart, Domains, panelVars, Inv, C!cvars
  <1>19. CASE UNCHANGED vars
    BY <1>19 DEF vars, panelVars, agentVars, Inv, C!cvars
  <1> QED BY <1>1, <1>2, <1>3, <1>4, <1>5, <1>6, <1>7, <1>8, <1>9, <1>10, <1>11, <1>12, <1>13, <1>14, <1>15, <1>16, <1>17, <1>18, <1>19 DEF Next, Panel, Agent

\* The panel's table and the agent's file go through the life of a resource as Catalogue
\* describes it, whatever fails.
THEOREM ImplementsCatalogue == Spec => CatalogueKept
  <1>1. Init => C!CInit
    BY DEF Init, C!CInit
  <1> QED BY Invariance, <1>1, StepCatalogue, PTL DEF Spec, CatalogueKept, C!CSpec
=============================================================================
