----------------------------- MODULE Protection -----------------------------
(***************************************************************************)
(* The check that visitors of a website must pass (src/src/protection.rs,  *)
(* protection_agent.rs). The settings are a row of the panel and part of   *)
(* the vhost that the agent renders; who solves a challenge gets a pass    *)
(* for an hour, and a change of the settings deletes all passes. Handlers  *)
(* are dropped when their client leaves, calls to the agent are given up   *)
(* and carried out later, and visitors are checked in the middle of that.  *)
(***************************************************************************)
EXTENDS Naturals, Sequences, SequencesExt

CONSTANTS
    Sites,       \* domains
    Visits,      \* challenges, each with a random nonce that is never used twice
    Guards,      \* requests that are handled at the same time
    MaxRules,    \* bound: how many settings are tried
    Nowhere      \* no site, no handler

ASSUME ProtectionAssumption == MaxRules \in Nat /\ Nowhere \notin Sites \cup Guards

VARIABLES
    rule,       \* table website_protection: the settings of a site, numbered as they were tried
    gate,       \* those the agent has registered, in memory
    keptGate,   \* and in registry.json
    vhost,      \* those in the vhost file, which nginx serves from its next reload at the latest
    up,         \* the agent takes calls
    rules,      \* how many were tried
    asks,       \* settings that ask visitors for a challenge
    nonces,     \* table website_challenges, and the site each is for
    drawnVisits,
    passes,     \* table website_passes: the challenge, its site, the settings it was solved
                \* under, and whether passes were deleted after they were read
    saving,     \* the handler that holds the mutex "writes"
    guard,      \* the handlers
    orders,     \* calls at the registry mutex of the agent, which is fair, with the handler that
                \* waits for the answer
    completed,  \* the settings of the last change that came to its end, for the properties
    loose       \* what a change that did not may have left behind, for the properties

protectionVars == <<rule, gate, keptGate, vhost, up, rules, asks, nonces, drawnVisits, passes,
                    saving, guard, orders, completed, loose>>

served == <<gate, keptGate, vhost, up>>
rendered == <<served, orders>>
visits == <<nonces, drawnVisits, passes>>

\* A handler works on the settings number new of site, which replace those number before; one
\* that solves a challenge has read the number new.
NoGuard == [op |-> "none", at |-> "idle", site |-> Nowhere, new |-> 0, before |-> 0,
            visit |-> Nowhere, overtaken |-> FALSE]

\* 0 stands for no row and no protection in the vhost.
ProtectionInit ==
    /\ rule = [s \in Sites |-> 0]
    /\ gate = rule /\ keptGate = rule /\ vhost = rule /\ up = TRUE
    /\ rules = 0 /\ asks = {}
    /\ nonces = {} /\ drawnVisits = {} /\ passes = {}
    /\ saving = Nowhere
    /\ guard = [h \in Guards |-> NoGuard]
    /\ orders = <<>>
    /\ completed = rule /\ loose = [s \in Sites |-> {}]

-----------------------------------------------------------------------------
Guarding(h, op, at) == guard[h].op = op /\ guard[h].at = at
GuardGoes(h, at) == guard' = [guard EXCEPT ![h].at = at] /\ UNCHANGED saving
GuardEnds(h) ==
    /\ guard' = [guard EXCEPT ![h] = NoGuard]
    /\ saving' = IF saving = h THEN Nowhere ELSE saving

\* A change of the settings is past its first statement and not at its end; its handler waits for
\* the agent, the answer being on its way once the agent is done with the call or failed it.
AtAgent == {"call", "done", "failed"}
Midway == {"call", "done", "failed", "delete", "restore"}
Changing(s) == \E h \in Guards : guard[h].site = s /\ guard[h].at \in Midway

-----------------------------------------------------------------------------
(* configure. *)

ConfigureLock(h, s) ==
    /\ guard[h] = NoGuard /\ saving = Nowhere
    /\ saving' = h
    /\ guard' = [guard EXCEPT ![h] = [NoGuard EXCEPT !.op = "configure", !.at = "row", !.site = s]]
    /\ UNCHANGED <<rule, rules, asks, visits, rendered, completed, loose>>

\* The old row is read, and the new one written before the agent is called, if it takes calls.
ConfigureRow(h, captcha) ==
    LET s == guard[h].site
    IN  /\ Guarding(h, "configure", "row") /\ rules < MaxRules
        /\ rules' = rules + 1
        /\ asks' = IF captcha THEN asks \cup {rules'} ELSE asks
        /\ guard' = [guard EXCEPT ![h].at = IF up THEN "call" ELSE "restore",
                                  ![h].new = rules', ![h].before = rule[s]]
        /\ rule' = [rule EXCEPT ![s] = rules']
        /\ orders' = IF up THEN Append(orders, [from |-> h, site |-> s, new |-> rules'])
                     ELSE orders
        /\ UNCHANGED <<served, visits, saving, completed, loose>>

\* The agent ends the first of its calls, holding its mutex from here until the registry is saved;
\* then it answers.
Answers(at) ==
    /\ orders # <<>> /\ orders' = Tail(orders)
    /\ guard' = [h \in Guards |-> IF h = Head(orders).from THEN [guard[h] EXCEPT !.at = at]
                                  ELSE guard[h]]

Ordered(f) == [f EXCEPT ![Head(orders).site] = Head(orders).new]
Loosened(site) == [loose EXCEPT ![site] = @ \cup {"gate"}]

\* The vhost is rendered with the settings, nginx reloaded, and the registry changed and saved;
AgentConfigure ==
    /\ Answers("done")
    /\ gate' = Ordered(gate) /\ keptGate' = gate' /\ vhost' = Ordered(vhost)
    /\ UNCHANGED <<rule, up, rules, asks, visits, saving, completed, loose>>

\* or the save fails, which is an error and takes nothing back;
AgentUnsaved ==
    /\ Answers("failed")
    /\ gate' = Ordered(gate) /\ vhost' = Ordered(vhost)
    /\ loose' = Loosened(Head(orders).site)
    /\ UNCHANGED <<rule, keptGate, up, rules, asks, visits, saving, completed>>

\* or the vhost stays although nginx cannot be reloaded, or the vhost of the IDE cannot be rendered
\* next, and the settings are not registered;
AgentHalf ==
    /\ Answers("failed")
    /\ vhost' = Ordered(vhost)
    /\ keptGate' \in {keptGate, gate}
    /\ loose' = Loosened(Head(orders).site)
    /\ UNCHANGED <<rule, gate, up, rules, asks, visits, saving, completed>>

\* or the settings are refused, or nginx -t refuses the vhost and the old one is put back. The
\* registry is saved after an error too.
AgentRefuse ==
    /\ Answers("failed")
    /\ keptGate' \in {keptGate, gate}
    /\ UNCHANGED <<rule, gate, vhost, up, rules, asks, visits, saving, completed, loose>>

\* Another operation of the agent saves the registry, and may render a domain from it (tls_issue,
\* cdn_configure).
AgentElse(s) ==
    /\ up /\ keptGate' \in {keptGate, gate}
    /\ vhost' \in {vhost, [vhost EXCEPT ![s] = gate[s]]}
    /\ UNCHANGED <<rule, gate, up, rules, asks, visits, saving, guard, orders, completed, loose>>

\* The agent is killed: maybe in the middle of a call, when the vhost is written and the registry
\* is not, or when the registry is saved and the answer is not sent. Who waits gets an error.
AgentDies ==
    /\ up /\ up' = FALSE
    /\ orders' = <<>> /\ gate' = keptGate
    /\ vhost' \in {vhost} \cup (IF orders = <<>> THEN {} ELSE {Ordered(vhost)})
    /\ guard' = [h \in Guards |-> IF guard[h].at \in AtAgent THEN [guard[h] EXCEPT !.at = "restore"]
                                  ELSE guard[h]]
    /\ loose' = [s \in Sites |-> IF \E h \in Guards : guard[h].site = s /\ guard[h].at = "done"
                                 THEN loose[s] \cup {"gate"} ELSE loose[s]]
    /\ UNCHANGED <<rule, keptGate, rules, asks, visits, saving, completed>>

\* Its start renders one domain after the other from registry.json; systemd repeats a start that
\* fails on the way.
AgentRenders(s) ==
    /\ ~up /\ vhost' = [vhost EXCEPT ![s] = keptGate[s]]
    /\ UNCHANGED <<rule, gate, keptGate, up, rules, asks, visits, saving, guard, orders, completed,
                   loose>>

AgentStarts ==
    /\ ~up /\ vhost = keptGate /\ up' = TRUE
    /\ UNCHANGED <<rule, gate, keptGate, vhost, rules, asks, visits, saving, guard, orders,
                   completed, loose>>

\* The handler reads the answer.
AnswerArrives(h) ==
    /\ \/ Guarding(h, "configure", "done") /\ GuardGoes(h, "delete")
       \/ Guarding(h, "configure", "failed") /\ GuardGoes(h, "restore")
    /\ UNCHANGED <<rule, rules, asks, visits, rendered, completed, loose>>

\* The agent goes on with calls nobody waits for.
Abandoned(h) ==
    [i \in DOMAIN orders |-> [orders[i] EXCEPT !.from = IF @ = h THEN Nowhere ELSE @]]

\* The call is given up after 360 seconds.
CallGivenUp(h) ==
    /\ guard[h].at \in AtAgent
    /\ orders' = Abandoned(h)
    /\ GuardGoes(h, "restore")
    /\ loose' = Loosened(guard[h].site)
    /\ UNCHANGED <<rule, served, rules, asks, visits, completed>>

\* After an error the old row is put back. Passes that were earned meanwhile stay.
ConfigureRestore(h) ==
    LET s == guard[h].site
    IN  /\ Guarding(h, "configure", "restore")
        /\ rule' = [rule EXCEPT ![s] = guard[h].before]
        /\ loose' = [loose EXCEPT ![s] = @ \cup {"passes"}]
        /\ GuardEnds(h)
        /\ UNCHANGED <<rules, asks, visits, rendered, completed>>

\* Mutant: nothing is deleted.
ConfigureKeep(h) ==
    /\ Guarding(h, "configure", "delete")
    /\ completed' = [completed EXCEPT ![guard[h].site] = rule[guard[h].site]]
    /\ loose' = [loose EXCEPT ![guard[h].site] = {}]
    /\ GuardEnds(h)
    /\ UNCHANGED <<rule, rules, asks, visits, rendered>>

\* All passes of the site are deleted at the end.
ConfigureDelete(h) ==
    LET s == guard[h].site
    IN  /\ Guarding(h, "configure", "delete")
        /\ passes' = {p \in passes : p.site # s}
        /\ completed' = [completed EXCEPT ![s] = rule[s]]
        /\ loose' = [loose EXCEPT ![s] = {}]
        /\ saving' = Nowhere
        /\ guard' = [g \in Guards |->
                        IF g = h THEN NoGuard
                        ELSE IF Guarding(g, "solve", "insert") /\ guard[g].site = s
                        THEN [guard[g] EXCEPT !.overtaken = TRUE] ELSE guard[g]]
        /\ UNCHANGED <<rule, rules, asks, nonces, drawnVisits, rendered>>

-----------------------------------------------------------------------------
(* Visitors. *)

\* challenge, where the settings ask for one.
Challenge(v, s) ==
    /\ rule[s] \in asks
    /\ v \notin drawnVisits /\ drawnVisits' = drawnVisits \cup {v}
    /\ nonces' = nonces \cup {<<v, s>>}
    /\ UNCHANGED <<rule, rules, asks, passes, saving, guard, rendered, completed, loose>>

\* solve: the nonce is deleted by the request it is good for,
SolveNonce(h, v, s) ==
    /\ guard[h] = NoGuard
    /\ <<v, s>> \in nonces /\ nonces' = nonces \ {<<v, s>>}
    /\ guard' = [guard EXCEPT ![h] = [NoGuard EXCEPT !.op = "solve", !.at = "settings", !.site = s,
                                                    !.visit = v]]
    /\ UNCHANGED <<rule, rules, asks, drawnVisits, passes, saving, rendered, completed, loose>>

\* the settings are read, and the answer is checked here or by a provider, which takes its time,
SolveRead(h) ==
    /\ Guarding(h, "solve", "settings") /\ rule[guard[h].site] \in asks
    /\ guard' = [guard EXCEPT ![h].at = "insert", ![h].new = rule[guard[h].site]]
    /\ UNCHANGED <<rule, rules, asks, visits, saving, rendered, completed, loose>>

\* and a pass is inserted.
SolveInsert(h) ==
    /\ Guarding(h, "solve", "insert")
    /\ passes' = passes \cup {[visit |-> guard[h].visit, site |-> guard[h].site,
                               rule |-> guard[h].new, overtaken |-> guard[h].overtaken]}
    /\ GuardEnds(h)
    /\ UNCHANGED <<rule, rules, asks, nonces, drawnVisits, rendered, completed, loose>>

ExpirePass(p) ==
    /\ p \in passes /\ passes' = passes \ {p}
    /\ UNCHANGED <<rule, rules, asks, nonces, drawnVisits, saving, guard, rendered, completed,
                   loose>>

\* The client leaves, an answer is wrong, or a statement fails.
DropGuard(h) ==
    LET s == guard[h].site
    IN  /\ guard[h] # NoGuard
        /\ GuardEnds(h)
        /\ orders' = Abandoned(h)
        /\ loose' = IF guard[h].at \in Midway
                    THEN [loose EXCEPT ![s] = @ \cup {"gate", "passes"}] ELSE loose
        /\ UNCHANGED <<rule, served, rules, asks, visits, completed>>

ProtectionNext ==
    \/ \E h \in Guards :
           \/ \E s \in Sites : ConfigureLock(h, s)
           \/ \E captcha \in BOOLEAN : ConfigureRow(h, captcha)
           \/ AnswerArrives(h) \/ ConfigureRestore(h) \/ ConfigureDelete(h)
           \/ \E v \in Visits, s \in Sites : SolveNonce(h, v, s)
           \/ SolveRead(h) \/ SolveInsert(h) \/ DropGuard(h) \/ CallGivenUp(h)
    \/ AgentConfigure \/ AgentUnsaved \/ AgentHalf \/ AgentRefuse \/ AgentDies \/ AgentStarts
    \/ \E s \in Sites : AgentElse(s) \/ AgentRenders(s)
    \/ \E v \in Visits, s \in Sites : Challenge(v, s)
    \/ \E p \in passes : ExpirePass(p)

ProtectionSpec == ProtectionInit /\ [][ProtectionNext]_protectionVars

-----------------------------------------------------------------------------
\* Whoever has a pass earned it under the settings in force, or solved the challenge while the
\* passes were deleted.
PassesFollowRule ==
    \A p \in passes :
        p.rule = rule[p.site] \/ p.overtaken \/ Changing(p.site) \/ "passes" \in loose[p.site]

\* No settings come back that a later change, one the panel said was made, has replaced: not in
\* the panel, in the agent's registry or its file, nor in the vhost.
NothingOlder ==
    \A s \in Sites :
        /\ completed[s] <= rule[s] /\ completed[s] <= gate[s]
        /\ completed[s] <= keptGate[s] /\ completed[s] <= vhost[s]

\* The settings n are registered, saved and rendered, or will be at the next start.
AgentHas(s, n) == gate[s] = n /\ keptGate[s] = n /\ (vhost[s] = n \/ ~up)

\* The agent has the settings the panel has.
GateFollowsRule ==
    \A s \in Sites : AgentHas(s, rule[s]) \/ Changing(s) \/ "gate" \in loose[s]

\* Panel, agent, web server and passes agree about every site whose settings are not being
\* changed, however changes, refusals, challenges and answers interleave. Left out are passes that
\* were in flight when the others were deleted, and, until the next change that comes to its end:
\* passes earned before an error, and what the agent has after a client left, a call was given up,
\* or an error or a kill came after the vhost was rendered or the registry saved, for the panel puts
\* its row back then and the agent nothing. Even so nothing is older than the last change that came
\* to its end, and the next that does makes all of them agree.
ProtectionAgrees == PassesFollowRule /\ NothingOlder /\ GateFollowsRule
=============================================================================
