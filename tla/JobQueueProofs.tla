--------------------------- MODULE JobQueueProofs ---------------------------
(***************************************************************************)
(* Proofs about JobQueue, for every pool of jobs, set of accounts, plans   *)
(* and handlers, and all values of the limits and bounds.                  *)
(***************************************************************************)
EXTENDS JobQueue, FiniteSetTheorems, TLAPS

-----------------------------------------------------------------------------
(* The table of jobs. *)

\* What setting the status of one row does to the table.
LEMMA StatusUpdate ==
    ASSUME TypeOK, NEW j \in Jobs, NEW s \in Statuses \ {"free"}, InUse(j),
           row' = [row EXCEPT ![j].status = s]
    PROVE  /\ row' \in [Jobs -> RowType]
           /\ \A i \in Jobs :
                 /\ row'[i].kind = row[i].kind
                 /\ row'[i].app = row[i].app
                 /\ row'[i].created = row[i].created
                 /\ row'[i].status = IF i = j THEN s ELSE row[i].status
                 /\ i # j => row'[i] = row[i]
                 /\ (InUse(i)' <=> InUse(i))
  <1>1. row \in [Jobs -> RowType]
    BY DEF TypeOK
  <1>2. row[j] \in RowType
    BY <1>1
  <1>3. [row[j] EXCEPT !.status = s] \in RowType
    BY <1>2 DEF RowType
  <1>4. row' = [row EXCEPT ![j] = [row[j] EXCEPT !.status = s]]
    OBVIOUS
  <1>5. row' \in [Jobs -> RowType]
    BY <1>1, <1>3, <1>4
  <1>6. ASSUME NEW i \in Jobs, i # j PROVE row'[i] = row[i]
    BY <1>1, <1>4, <1>6
  <1>7. row'[j] = [row[j] EXCEPT !.status = s]
    BY <1>1, <1>4
  <1>8. /\ row'[j].kind = row[j].kind /\ row'[j].app = row[j].app
        /\ row'[j].created = row[j].created /\ row'[j].status = s
    BY <1>2, <1>7 DEF RowType
  <1> QED BY <1>5, <1>6, <1>8 DEF InUse, Statuses

\* What an INSERT does to the table.
LEMMA InsertUpdate ==
    ASSUME TypeOK, NEW j \in Jobs, NEW k \in Kinds, NEW a \in Apps, NEW t \in Nat,
           ~InUse(j), row' = [row EXCEPT ![j] = NewRow(k, a, t)]
    PROVE  /\ row' \in [Jobs -> RowType]
           /\ \A i \in Jobs : (InUse(i)' <=> InUse(i) \/ i = j)
           /\ \A i \in Jobs : InUse(i)' => row'[i].kind \in Kinds /\ row'[i].app \in Apps
           /\ \A i \in Jobs : InUse(i) => InUse(i)'
           /\ row'[j] = NewRow(k, a, t)
           /\ row'[j].status = "queued" /\ row'[j].kind = k /\ row'[j].created = t
           /\ \A i \in Jobs : i # j => row'[i] = row[i]
  <1> DEFINE new == NewRow(k, a, t)
  <1>1. row' = [row EXCEPT ![j] = new]
    OBVIOUS
  <1>2. new \in RowType
    BY DEF RowType, Statuses, NewRow
  <1>3. row \in [Jobs -> RowType]
    BY DEF TypeOK
  <1>4. new.status = "queued" /\ new.kind = k /\ new.app = a /\ new.created = t
    BY DEF NewRow
  <1> HIDE DEF new
  <1>5. row' \in [Jobs -> RowType] /\ row'[j] = new /\ \A i \in Jobs : i # j => row'[i] = row[i]
    BY <1>1, <1>2, <1>3
  <1>6. \A i \in Jobs : InUse(i)' <=> InUse(i) \/ i = j
    BY <1>4, <1>5 DEF InUse
  <1>7. ASSUME NEW i \in Jobs, InUse(i)' PROVE row'[i].kind \in Kinds /\ row'[i].app \in Apps
    BY <1>4, <1>5, <1>6, <1>7 DEF TypeOK
  <1> QED BY <1>4, <1>5, <1>6, <1>7 DEF new

\* What the UPDATE of start() does to the table.
LEMMA InterruptUpdate ==
    ASSUME NEW table, table \in [Jobs -> RowType], Interrupt(table)
    PROVE  /\ row' \in [Jobs -> RowType]
           /\ \A i \in Jobs :
                 /\ row'[i].kind = table[i].kind
                 /\ row'[i].app = table[i].app
                 /\ row'[i].created = table[i].created
                 /\ row'[i].status = IF table[i].status = "running" THEN "interrupted"
                                     ELSE table[i].status
                 /\ (InUse(i)' <=> table[i].status # "free")
                 /\ table[i].status # "running" => row'[i] = table[i]
  <1>2. ASSUME NEW i \in Jobs
        PROVE  /\ row'[i] \in RowType
               /\ row'[i].kind = table[i].kind
               /\ row'[i].app = table[i].app
               /\ row'[i].created = table[i].created
               /\ row'[i].status = IF table[i].status = "running" THEN "interrupted"
                                   ELSE table[i].status
               /\ table[i].status # "running" => row'[i] = table[i]
    <2>1. table[i] \in RowType
      OBVIOUS
    <2>2. row'[i] = IF table[i].status = "running"
                    THEN [table[i] EXCEPT !.status = "interrupted"] ELSE table[i]
      BY DEF Interrupt
    <2>3. CASE table[i].status = "running"
      <3>1. row'[i] = [table[i] EXCEPT !.status = "interrupted"]
        BY <2>2, <2>3
      <3> QED BY <2>1, <2>3, <3>1 DEF RowType, Statuses
    <2>4. CASE table[i].status # "running"
      BY <2>1, <2>2, <2>4
    <2> QED BY <2>3, <2>4
  <1>3. row' = [i \in Jobs |-> row'[i]]
    BY DEF Interrupt
  <1> QED BY <1>2, <1>3 DEF InUse, Statuses

\* The fields of TypeOK that restarts reset.
LEMMA RestTypes ==
    ASSUME NEW f, NEW g,
           f = [h \in Requests |-> IdleRequest], g = [w \in Workers |-> IdleWorker]
    PROVE  /\ f \in [Requests -> [pc : {"idle", "insert"}, kind : Kinds \cup {NoOne},
                                  app : Apps \cup {NoOne}, created : Nat]]
           /\ \A h \in Requests : f[h].pc = "idle"
           /\ g \in [Workers -> [pc : {"idle", "selected", "marked", "calling"},
                                 job : Jobs \cup {NoOne}]]
           /\ \A w \in Workers : g[w].pc = "idle"
           /\ IdleTicker \in [pc : {"idle", "next", "count", "insert", "advance"},
                              batch : SUBSET Plans, at : Plans \cup {NoOne}, created : Nat]
           /\ IdleTicker.pc = "idle"
           /\ IdleMonitor \in [now : Nat, accounts : SUBSET Owners]
  BY DEF IdleRequest, IdleWorker, IdleTicker, IdleMonitor

-----------------------------------------------------------------------------
(* Type correctness. *)

\* What TypeOK says of the rows, after a step.
RowsTyped ==
    /\ row' \in [Jobs -> RowType]
    /\ \A i \in Jobs : InUse(i)' => row'[i].kind \in Kinds /\ row'[i].app \in Apps
    /\ \A i \in Jobs : InUse(i) => InUse(i)'

LEMMA InitTypeOK == Init => TypeOK
  <1> SUFFICES ASSUME Init PROVE TypeOK
    OBVIOUS
  <1> DEFINE free == [j \in Jobs |-> FreeRow]
  <1>1. free \in [Jobs -> RowType] /\ \A j \in Jobs : free[j].status = "free"
    BY DEF RowType, FreeRow, Statuses
  <1>2. /\ NoSnapshot \in [row : [Jobs -> RowType], enabled : [Owners -> BOOLEAN],
                           plan : [Plans -> PlanStates]]
        /\ \A j \in Jobs : NoSnapshot.row[j].status = "free"
    <2>1. [o \in Owners |-> TRUE] \in [Owners -> BOOLEAN]
      OBVIOUS
    <2>2. [p \in Plans |-> "absent"] \in [Plans -> PlanStates]
      BY DEF PlanStates
    <2> QED BY <1>1, <2>1, <2>2 DEF NoSnapshot
  <1>3. /\ row = free /\ saved = NoSnapshot /\ op \in [Jobs -> OpStates]
        /\ dispatches \in [Jobs -> Nat] /\ overtaken \in [Jobs -> Nat]
    BY DEF Init, OpStates
  <1>4. enabled \in [Owners -> BOOLEAN] /\ plan \in [Plans -> PlanStates]
    BY DEF Init, PlanStates
  <1>5. dbLocked \in BOOLEAN /\ trial \in BOOLEAN
    BY Zenon DEF Init
  <1>6. /\ clock \in Nat
        /\ rollbacks \in Nat /\ restarts \in Nat /\ updates \in Nat /\ lostWrites \in Nat
        /\ writes = NoOne /\ holder = NoOne
    BY DEF Init
  <1>7. /\ request = [h \in Requests |-> IdleRequest]
        /\ worker = [w \in Workers |-> IdleWorker]
        /\ monitor = IdleMonitor /\ ticker = IdleTicker
    BY DEF Init
  <1> HIDE DEF free
  <1> QED BY <1>1, <1>2, <1>3, <1>4, <1>5, <1>6, <1>7, RestTypes DEF TypeOK, InUse

LEMMA RequestTypeOK == TypeOK /\ RequestStep => TypeOK'
  <1> SUFFICES ASSUME TypeOK, NEW h \in Requests,
                      \/ \E k \in Kinds, a \in Apps : Queue(h, k, a)
                      \/ \E j \in Jobs : Retry(h, j) \/ InsertJob(h, j)
                      \/ Drop(h)
               PROVE  TypeOK'
    BY DEF RequestStep
  <1> USE ConstantsAssumption DEF TypeOK, RowType, IdleRequest, InUse, agentVars,
          boundVars, updaterVars
  <1>1. ASSUME NEW k \in Kinds, NEW a \in Apps, Queue(h, k, a) PROVE TypeOK'
    <2>1. clock' \in Nat /\ Counted(k, a) = [pc |-> "insert", kind |-> k, app |-> a,
                                            created |-> clock']
      BY <1>1 DEF Queue, Now, Counted
    <2> QED BY <1>1, <2>1 DEF Queue
  <1>2. ASSUME NEW j \in Jobs, Retry(h, j) PROVE TypeOK'
    <2>1. /\ clock' \in Nat /\ row[j].kind \in Kinds /\ row[j].app \in Apps
          /\ Counted(row[j].kind, row[j].app)
                = [pc |-> "insert", kind |-> row[j].kind, app |-> row[j].app,
                   created |-> clock']
      BY <1>2 DEF Retry, Now, Counted
    <2> QED BY <1>2, <2>1 DEF Retry
  <1>3. ASSUME NEW j \in Jobs, InsertJob(h, j) PROVE TypeOK'
    <2>1. /\ request[h].kind \in Kinds /\ request[h].app \in Apps
          /\ request[h].created \in Nat /\ row[j].status = "free"
          /\ row' = [row EXCEPT ![j] = NewRow(request[h].kind, request[h].app,
                                             request[h].created)]
      BY <1>3 DEF InsertJob, Insert
    <2>2. RowsTyped
      <3> HIDE DEF TypeOK, RowType
      <3> QED BY <2>1, InsertUpdate DEF RowsTyped
    <2> QED BY <1>3, <2>1, <2>2 DEF InsertJob, RowsTyped
  <1>4. CASE Drop(h)
    BY <1>4 DEF Drop
  <1> QED BY <1>1, <1>2, <1>3, <1>4

LEMMA BackgroundTypeOK ==
    TypeOK /\ (AccountStep \/ PlanStep \/ MonitorStep \/ TickStep) => TypeOK'
  <1> SUFFICES ASSUME TypeOK, AccountStep \/ PlanStep \/ MonitorStep \/ TickStep
               PROVE  TypeOK'
    OBVIOUS
  <1> USE ConstantsAssumption DEF TypeOK, RowType, InUse, IdleTicker, IdleMonitor,
          PlanStates, agentVars, boundVars, updaterVars
  <1>1. CASE AccountStep
    BY <1>1 DEF AccountStep, SetEnabled
  <1>2. CASE PlanStep
    <2>1. PICK p \in Plans, to \in PlanStates : plan' = [plan EXCEPT ![p] = to]
      BY <1>2 DEF PlanStep, SavePlan, DeletePlan, PlanFallsDue
    <2>2. plan' \in [Plans -> PlanStates]
      BY <2>1
    <2>3. UNCHANGED <<row, clock, enabled, request, monitor, writes, ticker, worker,
                      agentVars, boundVars>>
      BY <1>2 DEF PlanStep, SavePlan, DeletePlan, PlanFallsDue
    <2> QED BY <2>2, <2>3
  <1>3. CASE MonitorReads
    BY <1>3 DEF MonitorReads, Now
  <1>4. CASE MonitorEnds
    BY <1>4 DEF MonitorEnds
  <1>5. ASSUME NEW j \in Jobs, NEW a \in Apps, MonitorAlert(j, a) PROVE TypeOK'
    <2>1. /\ "monitor_alert" \in Kinds
          /\ monitor.now \in Nat /\ row[j].status = "free"
          /\ row' = [row EXCEPT ![j] = NewRow("monitor_alert", a, monitor.now)]
      BY <1>5 DEF MonitorAlert
    <2>2. RowsTyped
      <3> HIDE DEF TypeOK, RowType
      <3> QED BY <2>1, InsertUpdate DEF RowsTyped
    <2> QED BY <1>5, <2>2 DEF MonitorAlert, RowsTyped
  <1>6. CASE TickRead
    <2>1. PICK batch \in SUBSET Plans :
            ticker' = [pc |-> "next", batch |-> batch, at |-> NoOne, created |-> 0]
      <3>1. PICK b \in SUBSET DuePlans : ticker' = [IdleTicker EXCEPT !.pc = "next", !.batch = b]
        BY <1>6 DEF TickRead
      <3>2. ticker' = [pc |-> "next", batch |-> b, at |-> NoOne, created |-> 0]
        BY <3>1
      <3>3. b \in SUBSET Plans
        BY DEF DuePlans
      <3> QED BY <3>2, <3>3
    <2>2. UNCHANGED <<row, clock, enabled, plan, request, monitor, writes, worker,
                      agentVars, boundVars>>
      BY <1>6 DEF TickRead
    <2> QED BY <2>1, <2>2
  <1>7. ASSUME NEW p \in Plans, TickPending(p) PROVE TypeOK'
    <2>1. PICK next \in {"advance", "count"} :
            ticker' = [ticker EXCEPT !.pc = next, !.at = p]
      BY <1>7 DEF TickPending
    <2>2. ticker' \in [pc : {"idle", "next", "count", "insert", "advance"},
                       batch : SUBSET Plans, at : Plans \cup {NoOne}, created : Nat]
          /\ ticker'.at = p
      BY <2>1
    <2> QED BY <1>7, <2>2 DEF TickPending
  <1>8. CASE TickCount \/ TickGivesUp \/ TickFails
    <2>1. /\ clock' \in Nat
          /\ \/ ticker' = IdleTicker
             \/ /\ ticker.pc = "count"
                /\ ticker' = [ticker EXCEPT !.pc = "insert", !.created = clock']
      BY <1>8 DEF TickCount, TickGivesUp, TickFails, Now
    <2>2. /\ ticker' \in [pc : {"idle", "next", "count", "insert", "advance"},
                          batch : SUBSET Plans, at : Plans \cup {NoOne}, created : Nat]
          /\ ticker'.pc \in {"count", "insert", "advance"} => ticker'.at \in Plans
      <3>1. CASE ticker' = IdleTicker
        BY <3>1
      <3>2. CASE /\ ticker.pc = "count"
                 /\ ticker' = [ticker EXCEPT !.pc = "insert", !.created = clock']
        BY <2>1, <3>2
      <3> QED BY <2>1, <3>1, <3>2
    <2>3. UNCHANGED <<row, enabled, plan, request, monitor, writes, worker,
                      agentVars, boundVars>>
      BY <1>8 DEF TickCount, TickGivesUp, TickFails
    <2> QED BY <2>1, <2>2, <2>3
  <1>9. CASE TickAdvance
    BY <1>9 DEF TickAdvance
  <1>10. ASSUME NEW j \in Jobs, TickInsert(j) PROVE TypeOK'
    <2>1. /\ "full_backup" \in Kinds /\ AppOf[ticker.at] \in Apps
          /\ ticker.created \in Nat /\ row[j].status = "free"
          /\ row' = [row EXCEPT ![j] = NewRow("full_backup", AppOf[ticker.at], ticker.created)]
      BY <1>10 DEF TickInsert, Insert
    <2>2. RowsTyped
      <3> HIDE DEF TypeOK, RowType
      <3> QED BY <2>1, InsertUpdate DEF RowsTyped
    <2>3. /\ ticker' = [ticker EXCEPT !.pc = "advance", !.created = 0] /\ ticker.at \in Plans
          /\ UNCHANGED <<clock, enabled, plan, request, monitor, writes, worker, agentVars, boundVars>>
      BY <1>10 DEF TickInsert
    <2> QED BY <2>1, <2>2, <2>3 DEF RowsTyped
  <1> QED BY <1>1, <1>2, <1>3, <1>4, <1>5, <1>6, <1>7, <1>8, <1>9, <1>10 DEF MonitorStep, TickStep

\* The history of a start stays a count for every job.
LEMMA OvertakenTyped ==
    ASSUME NEW w \in Workers, TypeOK, MarkRunning(w)
    PROVE  overtaken' \in [Jobs -> Nat]
  <1> DEFINE more(i) == IF i \in Passed(w) THEN 1 ELSE 0
  <1>1. overtaken' = [i \in Jobs |-> overtaken[i] + more(i)]
    BY DEF MarkRunning
  <1>2. ASSUME NEW i \in Jobs PROVE overtaken[i] + more(i) \in Nat
    <2>1. overtaken[i] \in Nat
      BY DEF TypeOK
    <2>2. more(i) \in Nat
      OBVIOUS
    <2> HIDE DEF more
    <2> QED BY <2>1, <2>2
  <1> HIDE DEF more
  <1> QED BY <1>1, <1>2

LEMMA WorkerTypeOK == ASSUME NEW w \in Workers PROVE TypeOK /\ WorkerStep(w) => TypeOK'
  <1> SUFFICES ASSUME TypeOK, WorkerStep(w) PROVE TypeOK'
    OBVIOUS
  <1> USE ConstantsAssumption
      DEF TypeOK, RowType, InUse, IdleWorker, agentVars,
          boundVars, updaterVars, Statuses, OpStates
  <1>1. CASE Select(w)
    BY <1>1 DEF Select, Runnable
  <1>2. CASE MarkRunning(w)
    <2>1. /\ worker[w].job \in Jobs /\ InUse(worker[w].job)
          /\ row' = [row EXCEPT ![worker[w].job].status = "running"]
          /\ worker' = [worker EXCEPT ![w].pc = "marked"]
      BY <1>2 DEF MarkRunning
    <2>2. row' \in [Jobs -> RowType] /\ \A i \in Jobs :
            (InUse(i)' <=> InUse(i)) /\ row'[i].kind = row[i].kind /\ row'[i].app = row[i].app
      <3>1. "running" \in Statuses \ {"free"}
        OBVIOUS
      <3> HIDE DEF TypeOK, InUse, RowType, Statuses
      <3> QED BY <2>1, <3>1, StatusUpdate
    <2>3. overtaken' \in [Jobs -> Nat]
      <3> HIDE DEF TypeOK
      <3> QED BY <1>2, OvertakenTyped
    <2>4. /\ worker' \in [Workers -> [pc : {"idle", "selected", "marked", "calling"},
                                      job : Jobs \cup {NoOne}]]
          /\ \A v \in Workers : worker'[v].job = worker[v].job
                               /\ (worker'[v].pc # "idle" => worker[v].pc # "idle")
      <3>1. worker[w].pc = "selected" /\ worker' = [worker EXCEPT ![w].pc = "marked"]
        BY <1>2 DEF MarkRunning
      <3>2. worker' = [worker EXCEPT ![w] = [worker[w] EXCEPT !.pc = "marked"]]
        BY <3>1
      <3>3. worker[w] \in [pc : {"idle", "selected", "marked", "calling"}, job : Jobs \cup {NoOne}]
        OBVIOUS
      <3>4. worker'[w].pc = "marked" /\ worker'[w].job = worker[w].job
        BY <3>2, <3>3
      <3>5. \A v \in Workers : v # w => worker'[v] = worker[v]
        BY <3>2
      <3>6. worker' \in [Workers -> [pc : {"idle", "selected", "marked", "calling"},
                                    job : Jobs \cup {NoOne}]]
        BY <3>2, <3>3
      <3> QED BY <3>1, <3>4, <3>5, <3>6
    <2>5. UNCHANGED <<clock, enabled, plan, request, monitor, writes, ticker, op, dispatches,
                      holder, boundVars>>
      BY <1>2 DEF MarkRunning
    <2> QED BY <2>2, <2>3, <2>4, <2>5
  <1>3. CASE MarkFails(w)
    BY <1>3 DEF MarkFails
  <1>4. CASE Dispatch(w)
    <2> DEFINE j == worker[w].job
    <2>1. worker[w].pc = "marked" /\ j \in Jobs
      BY <1>4 DEF Dispatch
    <2>2. /\ op' = [op EXCEPT ![j] = IF row[j].kind \in Locked THEN "waiting" ELSE "executing"]
          /\ dispatches' = [dispatches EXCEPT ![j] = @ + 1]
          /\ worker' = [worker EXCEPT ![w].pc = "calling"]
          /\ UNCHANGED <<row, clock, enabled, plan, request, monitor, writes, ticker, overtaken,
                         holder, boundVars>>
      BY <1>4 DEF Dispatch
    <2>3. op' \in [Jobs -> OpStates] /\ dispatches' \in [Jobs -> Nat]
      BY <2>1, <2>2
    <2>4. /\ worker' \in [Workers -> [pc : {"idle", "selected", "marked", "calling"},
                                      job : Jobs \cup {NoOne}]]
          /\ \A v \in Workers : worker'[v].job = worker[v].job
                               /\ (worker'[v].pc = "idle" <=> worker[v].pc = "idle")
      <3>1. worker[w] \in [pc : {"idle", "selected", "marked", "calling"}, job : Jobs \cup {NoOne}]
        OBVIOUS
      <3>2. worker' = [worker EXCEPT ![w] = [worker[w] EXCEPT !.pc = "calling"]]
        BY <2>2
      <3>3. worker'[w].pc = "calling" /\ worker'[w].job = worker[w].job
        BY <3>1, <3>2
      <3>4. \A v \in Workers : v # w => worker'[v] = worker[v]
        BY <3>2
      <3>5. worker' \in [Workers -> [pc : {"idle", "selected", "marked", "calling"},
                                    job : Jobs \cup {NoOne}]]
        BY <3>1, <3>2
      <3> QED BY <2>1, <3>3, <3>4, <3>5
    <2> QED BY <2>2, <2>3, <2>4
  <1>5. CASE Reply(w) \/ Timeout(w)
    <2>1. PICK t \in {"succeeded", "failed"} :
            row' = [row EXCEPT ![worker[w].job].status = t]
      BY <1>5 DEF Reply, Timeout
    <2>2. /\ worker[w].job \in Jobs /\ InUse(worker[w].job)
          /\ worker' = [worker EXCEPT ![w] = IdleWorker]
      BY <1>5 DEF Reply, Timeout
    <2>3. row' \in [Jobs -> RowType] /\ \A i \in Jobs :
            (InUse(i)' <=> InUse(i)) /\ row'[i].kind = row[i].kind /\ row'[i].app = row[i].app
      <3> HIDE DEF TypeOK, InUse, RowType
      <3> QED BY <2>1, <2>2, StatusUpdate
    <2> QED BY <1>5, <2>2, <2>3 DEF Reply, Timeout
  <1>7. CASE ResultLost(w)
    BY <1>7 DEF ResultLost
  <1> QED BY <1>1, <1>2, <1>3, <1>4, <1>5, <1>7 DEF WorkerStep

\* What starting the panel on a table does to the types of its tables and tasks.
LEMMA PanelStartsTyped ==
    ASSUME NEW table, table \in [Jobs -> RowType],
           \A i \in Jobs : table[i].status # "free" => table[i].kind \in Kinds /\ table[i].app \in Apps,
           PanelStarts(table)
    PROVE  /\ row' \in [Jobs -> RowType]
           /\ \A i \in Jobs : InUse(i)' => row'[i].kind \in Kinds /\ row'[i].app \in Apps
           /\ request' \in [Requests -> [pc : {"idle", "insert"}, kind : Kinds \cup {NoOne},
                                         app : Apps \cup {NoOne}, created : Nat]]
           /\ \A h \in Requests : request'[h].pc = "idle"
           /\ worker' \in [Workers -> [pc : {"idle", "selected", "marked", "calling"},
                                       job : Jobs \cup {NoOne}]]
           /\ \A w \in Workers : worker'[w].pc = "idle"
           /\ ticker' \in [pc : {"idle", "next", "count", "insert", "advance"},
                           batch : SUBSET Plans, at : Plans \cup {NoOne}, created : Nat]
           /\ ticker'.pc = "idle"
           /\ monitor' \in [now : Nat, accounts : SUBSET Owners]
           /\ writes' = NoOne /\ clock' = clock
  <1>1. /\ Interrupt(table)
        /\ request' = [h \in Requests |-> IdleRequest]
        /\ worker' = [w \in Workers |-> IdleWorker]
        /\ ticker' = IdleTicker /\ monitor' = IdleMonitor /\ writes' = NoOne /\ clock' = clock
    BY DEF PanelStarts
  <1> QED BY <1>1, InterruptUpdate, RestTypes

LEMMA AgentTypeOK == TypeOK /\ (AgentStep \/ FaultStep) => TypeOK'
  <1> SUFFICES ASSUME TypeOK, AgentStep \/ FaultStep PROVE TypeOK'
    OBVIOUS
  <1>1. ASSUME NEW j \in Jobs, AgentLock(j) \/ AgentFinish(j) PROVE TypeOK'
    <2>1. op' \in [Jobs -> OpStates] /\ holder' \in Jobs \cup {NoOne}
      BY <1>1 DEF AgentLock, AgentFinish, TypeOK, OpStates
    <2>2. UNCHANGED <<panelVars, dispatches, overtaken, boundVars>>
      BY <1>1 DEF AgentLock, AgentFinish
    <2> QED BY <2>1, <2>2 DEF TypeOK, InUse, panelVars, boundVars, updaterVars
  <1>2. CASE AgentRestart
    <2>1. op' \in [Jobs -> OpStates] /\ holder' \in Jobs \cup {NoOne}
      BY <1>2 DEF AgentRestart, CutOperations, TypeOK, OpStates
    <2> QED BY <1>2, <2>1 DEF AgentRestart, TypeOK, InUse, panelVars, updaterVars
  <1>3. CASE PanelRestart
    <2>1. PanelStarts(row)
      BY <1>3 DEF PanelRestart
    <2>2. /\ row \in [Jobs -> RowType]
          /\ \A i \in Jobs : row[i].status # "free" => row[i].kind \in Kinds /\ row[i].app \in Apps
      BY DEF TypeOK, InUse
    <2> QED BY <1>3, <2>1, <2>2, PanelStartsTyped
            DEF PanelRestart, TypeOK, agentVars, updaterVars
  <1> QED BY <1>1, <1>2, <1>3 DEF AgentStep, FaultStep

LEMMA UpdaterTypeOK == TypeOK /\ UpdaterStep => TypeOK'
  <1> SUFFICES ASSUME TypeOK, UpdaterStep PROVE TypeOK'
    OBVIOUS
  <1>1. CASE UpdateBegins
    <2>1. dbLocked' \in BOOLEAN
      BY <1>1, Zenon DEF UpdateBegins
    <2> QED BY <1>1, <2>1 DEF UpdateBegins, TypeOK, InUse, panelVars, agentVars
  <1>2. CASE UpdateStops
    <2>1. PanelStarts(row) /\ CutOperations
      BY <1>2 DEF UpdateStops
    <2>2. /\ row \in [Jobs -> RowType]
          /\ \A i \in Jobs : row[i].status # "free" => row[i].kind \in Kinds /\ row[i].app \in Apps
      BY DEF TypeOK, InUse
    <2>3. op' \in [Jobs -> OpStates] /\ holder' \in Jobs \cup {NoOne}
      BY <2>1 DEF CutOperations, TypeOK, OpStates
    <2>4. dbLocked' \in BOOLEAN /\ trial' \in BOOLEAN
      BY <1>2, Zenon DEF UpdateStops
    <2>5. updates' \in Nat
      BY <1>2 DEF UpdateStops, TypeOK
    <2>6. saved' = [row |-> row, enabled |-> enabled, plan |-> plan]
          /\ UNCHANGED <<enabled, plan, dispatches, overtaken, rollbacks, restarts, lostWrites>>
      BY <1>2 DEF UpdateStops
    <2>7. /\ saved' \in [row : [Jobs -> RowType], enabled : [Owners -> BOOLEAN],
                         plan : [Plans -> PlanStates]]
          /\ saved'.row = row
      BY <2>6 DEF TypeOK
    <2> QED BY <2>1, <2>2, <2>3, <2>4, <2>5, <2>6, <2>7, PanelStartsTyped DEF TypeOK
  <1>3. ASSUME saved' = NoSnapshot
        PROVE  /\ saved' \in [row : [Jobs -> RowType], enabled : [Owners -> BOOLEAN],
                              plan : [Plans -> PlanStates]]
               /\ \A j \in Jobs : saved'.row[j].status = "free"
    <2>1. /\ [j \in Jobs |-> FreeRow] \in [Jobs -> RowType]
          /\ [o \in Owners |-> TRUE] \in [Owners -> BOOLEAN]
          /\ [p \in Plans |-> "absent"] \in [Plans -> PlanStates]
          /\ FreeRow.status = "free"
      BY DEF RowType, FreeRow, Statuses, PlanStates
    <2> QED BY <1>3, <2>1 DEF NoSnapshot
  <1>4. CASE UpdateCommits
    <2>1. trial' \in BOOLEAN
      BY <1>4, Zenon DEF UpdateCommits
    <2> QED BY <1>3, <1>4, <2>1 DEF UpdateCommits, TypeOK, InUse, panelVars, agentVars
  <1>5. CASE UpdateRollsBack
    <2>1. PanelStarts(saved.row)
      BY <1>5 DEF UpdateRollsBack
    <2>2. /\ saved.row \in [Jobs -> RowType]
          /\ \A i \in Jobs : saved.row[i].status # "free"
                => saved.row[i].kind \in Kinds /\ saved.row[i].app \in Apps
      BY DEF TypeOK
    <2>3. trial' \in BOOLEAN
      BY <1>5, Zenon DEF UpdateRollsBack
    <2>4. /\ enabled' \in [Owners -> BOOLEAN] /\ plan' \in [Plans -> PlanStates]
          /\ holder' \in Jobs \cup {NoOne} /\ rollbacks' \in Nat
      BY <1>5 DEF UpdateRollsBack, TypeOK
    <2>5. op' \in [Jobs -> OpStates]
      BY <1>5 DEF UpdateRollsBack, TypeOK, OpStates
    <2>6. dispatches' \in [Jobs -> Nat] /\ overtaken' \in [Jobs -> Nat]
      BY <1>5 DEF UpdateRollsBack, TypeOK
    <2>7. saved' = NoSnapshot /\ UNCHANGED <<dbLocked, updates, restarts, lostWrites>>
      BY <1>5 DEF UpdateRollsBack
    <2>8. dbLocked' \in BOOLEAN
      BY <2>7 DEF TypeOK
    <2> QED BY <1>3, <2>1, <2>2, <2>3, <2>4, <2>5, <2>6, <2>7, <2>8, PanelStartsTyped DEF TypeOK
  <1> QED BY <1>1, <1>2, <1>4, <1>5 DEF UpdaterStep

LEMMA StepTypeOK == TypeOK /\ [Next]_vars => TypeOK'
  <1>1. ASSUME TypeOK, UNCHANGED vars PROVE TypeOK'
    BY <1>1 DEF TypeOK, RowType, InUse, vars, panelVars, agentVars, boundVars, updaterVars
  <1> QED BY <1>1, RequestTypeOK, BackgroundTypeOK, WorkerTypeOK, AgentTypeOK, UpdaterTypeOK
          DEF Next

\* Every state that the job pipeline reaches is well typed.
THEOREM TypeCorrect == Spec => []TypeOK
  BY InitTypeOK, StepTypeOK, PTL DEF Spec

-----------------------------------------------------------------------------
(* The inductive invariant. *)

\* What a row's status says of its operation. A row that can still be chosen has been
\* sent no more often than the database was put back.
RowOK(j) ==
    /\ row[j].status \in {"free", "queued"} =>
          dispatches[j] <= rollbacks /\ (op[j] = "none" \/ rollbacks > 0)
    /\ row[j].status = "succeeded" => op[j] = "ok"
    /\ dispatches[j] <= 1 + rollbacks

\* What a worker's place in run_one says of its job: the two workers never share one,
\* because each serves its own class.
CallOK(w) ==
    LET j == worker[w].job IN
    /\ worker[w].pc = "selected" => row[j].status = "queued"
    /\ worker[w].pc = "marked" => row[j].status = "running" /\ dispatches[j] <= rollbacks
    /\ worker[w].pc = "calling" => row[j].status = "running"
    /\ worker[w].pc # "idle" => ClassOf(row[j].kind) = w

\* An older job that was left behind once is seen by the next choice of its worker, so
\* that a selection never threatens a job that was already overtaken.
OvertakenOK(i) ==
    /\ row[i].status = "free" => overtaken[i] = 0
    /\ overtaken[i] <= 1
    /\ overtaken[i] = 1 =>
          \A w \in Workers : worker[w].pc = "selected" => i \notin Passed(w)

\* Nothing runs while the updater holds the database.
QuietOK == dbLocked => \A j \in Jobs : row[j].status # "running"

\* The snapshot was taken with nothing running, and what it says is finished is still so.
SavedOK(j) ==
    trial =>
        /\ saved.row[j].status # "running"
        /\ saved.row[j].status = "succeeded" => op[j] = "ok"
        /\ saved.row[j].status \in Finished => row[j] = saved.row[j]

Inv ==
    /\ TypeOK
    /\ \A j \in Jobs : RowOK(j) /\ SavedOK(j) /\ OvertakenOK(j)
    /\ \A w \in Workers : CallOK(w)
    /\ QuietOK

LEMMA InitInv == Init => Inv
  <1> SUFFICES ASSUME Init PROVE Inv
    OBVIOUS
  <1>1. TypeOK
    BY InitTypeOK
  <1>2. ASSUME NEW j \in Jobs PROVE RowOK(j) /\ SavedOK(j) /\ OvertakenOK(j)
    BY DEF Init, RowOK, SavedOK, OvertakenOK, FreeRow
  <1>3. ASSUME NEW w \in Workers PROVE CallOK(w)
    BY DEF Init, CallOK, IdleWorker
  <1>4. QuietOK
    BY DEF Init, QuietOK
  <1> QED BY <1>1, <1>2, <1>3, <1>4 DEF Inv

\* Steps that leave the rows, the workers and the operations alone.
LEMMA FrameInv ==
    ASSUME Inv, TypeOK',
           UNCHANGED <<row, worker, op, dispatches, overtaken, dbLocked, trial, saved, rollbacks>>
    PROVE  Inv'
  <1>1. ASSUME NEW j \in Jobs PROVE RowOK(j)' /\ SavedOK(j)' /\ OvertakenOK(j)'
    BY DEF Inv, RowOK, SavedOK, OvertakenOK, Passed, Owner
  <1>2. ASSUME NEW w \in Workers PROVE CallOK(w)'
    BY DEF Inv, CallOK
  <1>3. QuietOK'
    BY DEF Inv, QuietOK
  <1> QED BY <1>1, <1>2, <1>3 DEF Inv

LEMMA InsertInv ==
    ASSUME Inv, TypeOK', NEW j \in Jobs, NEW k \in Kinds, NEW a \in Apps, NEW t \in Nat,
           ~InUse(j), ~dbLocked, row' = [row EXCEPT ![j] = NewRow(k, a, t)],
           UNCHANGED <<worker, op, dispatches, overtaken, dbLocked, trial, saved, rollbacks>>
    PROVE  Inv'
  <1>1. /\ row'[j].status = "queued"
        /\ \A i \in Jobs : i # j => row'[i] = row[i]
    BY InsertUpdate DEF Inv
  <1>2. row[j].status = "free"
    BY DEF InUse
  <1>3. ASSUME NEW i \in Jobs PROVE RowOK(i)'
    BY <1>1, <1>2 DEF Inv, RowOK
  <1>4. ASSUME NEW i \in Jobs PROVE SavedOK(i)'
    BY <1>1, <1>2 DEF Inv, SavedOK, Finished
  <1>5. ASSUME NEW w \in Workers, worker[w].pc # "idle"
        PROVE  worker[w].job \in Jobs /\ worker[w].job # j
    BY <1>2, <1>5 DEF Inv, TypeOK, InUse
  <1>6. ASSUME NEW i \in Jobs PROVE OvertakenOK(i)'
    <2>1. OvertakenOK(i) /\ overtaken \in [Jobs -> Nat]
      BY DEF Inv, TypeOK
    <2>2. CASE i = j
      BY <1>1, <1>2, <2>1, <2>2 DEF OvertakenOK
    <2>3. CASE i # j
      BY <1>1, <1>5, <2>1, <2>3 DEF OvertakenOK, Passed, Owner
    <2> QED BY <2>2, <2>3
  <1>7. ASSUME NEW w \in Workers PROVE CallOK(w)'
    BY <1>1, <1>5 DEF Inv, CallOK
  <1>8. QuietOK'
    BY DEF QuietOK
  <1> QED BY <1>3, <1>4, <1>6, <1>7, <1>8 DEF Inv

\* The two workers work on different rows.
LEMMA WorkersApart ==
    ASSUME Inv, NEW v \in Workers, NEW w \in Workers, v # w,
           worker[v].pc # "idle", worker[w].pc # "idle"
    PROVE  worker[v].job # worker[w].job
  BY DEF Inv, CallOK

\* A step of worker w that sets the status of its row to "running", or to its outcome.
LEMMA StatusInv ==
    ASSUME Inv, TypeOK', NEW w \in Workers, worker[w].pc # "idle", ~dbLocked,
           NEW s \in {"running", "succeeded", "failed"},
           s = "succeeded" => op[worker[w].job] = "ok",
           row' = [row EXCEPT ![worker[w].job].status = s],
           \A v \in Workers : v # w => worker'[v] = worker[v],
           CallOK(w)', worker'[w].pc # "selected",
           \/ overtaken' = overtaken
           \/ /\ worker[w].pc = "selected"
              /\ overtaken' = [i \in Jobs |-> overtaken[i] + IF i \in Passed(w) THEN 1 ELSE 0],
           UNCHANGED <<op, dispatches, dbLocked, trial, saved, rollbacks>>
    PROVE  Inv'
  <1> DEFINE j == worker[w].job
  <1>1. TypeOK /\ j \in Jobs /\ InUse(j) /\ s \in Statuses \ {"free"}
    BY DEF Inv, TypeOK, Statuses
  <1>2. \A i \in Jobs :
           /\ row'[i].kind = row[i].kind /\ row'[i].app = row[i].app
           /\ row'[i].created = row[i].created
           /\ row'[i].status = IF i = j THEN s ELSE row[i].status
           /\ i # j => row'[i] = row[i]
    BY <1>1, StatusUpdate, ZenonT(40)
  <1>3. row[j].status \in {"queued", "running"}
    BY <1>1 DEF Inv, CallOK, TypeOK
  <1>4. ASSUME NEW i \in Jobs PROVE RowOK(i)'
    BY <1>2 DEF Inv, RowOK
  <1>5. ASSUME NEW i \in Jobs PROVE SavedOK(i)'
    BY <1>2, <1>3 DEF Inv, SavedOK, Finished
  <1>6. ASSUME NEW v \in Workers, v # w PROVE CallOK(v)'
    <2>1. CASE worker[v].pc = "idle"
      BY <1>6, <2>1 DEF CallOK
    <2>2. CASE worker[v].pc # "idle"
      <3>1. worker[v].job \in Jobs /\ worker[v].job # j /\ worker'[v] = worker[v]
        BY <1>6, <2>2, WorkersApart DEF Inv, TypeOK
      <3> QED BY <1>2, <3>1 DEF Inv, CallOK
    <2> QED BY <2>1, <2>2
  <1>7. ASSUME NEW i \in Jobs PROVE OvertakenOK(i)'
    <2>1. OvertakenOK(i) /\ overtaken \in [Jobs -> Nat]
      BY <1>1 DEF Inv, TypeOK
    <2>2. row'[i].status = "free" => row[i].status = "free" /\ i \notin Passed(w)
      BY <1>1, <1>2 DEF Passed, InUse
    <2>3. ASSUME NEW v \in Workers, worker'[v].pc = "selected", i \notin Passed(v)
          PROVE  i \notin Passed(v)'
      <3>1. v # w /\ worker'[v] = worker[v] /\ worker[v].job \in Jobs
        BY <1>1, <2>3 DEF TypeOK
      <3>2. /\ row'[i].status = "queued" => row[i].status = "queued"
            /\ row'[i].kind = row[i].kind /\ row'[i].app = row[i].app
            /\ row'[i].created = row[i].created
        BY <1>2, <1>3
      <3>3. Owner(worker[v].job)' = Owner(worker[v].job) /\ Owner(i)' = Owner(i)
        BY <1>2, <3>1 DEF Owner
      <3>4. row'[worker[v].job].created = row[worker[v].job].created
        BY <1>2, <3>1
      <3>5. SUFFICES ASSUME i \in Passed(v)' PROVE i \in Passed(v)
        BY <2>3
      <3>6. /\ row'[i].status = "queued" /\ ClassOf(row'[i].kind) = v
            /\ Owner(i)' = Owner(worker[v].job)' /\ row'[i].created < row'[worker[v].job].created
        BY <3>1, <3>5 DEF Passed
      <3> QED BY <3>2, <3>3, <3>4, <3>6 DEF Passed
    <2>4. CASE overtaken'[i] = overtaken[i]
      <3>1. ASSUME overtaken[i] = 1, NEW v \in Workers, worker'[v].pc = "selected"
            PROVE  i \notin Passed(v)'
        <4>1. worker[v].pc = "selected"
          BY <3>1
        <4> QED BY <2>1, <2>3, <3>1, <4>1 DEF OvertakenOK
      <3> QED BY <2>1, <2>2, <2>4, <3>1 DEF OvertakenOK
    <2>5. CASE overtaken'[i] # overtaken[i]
      <3>1. i \in Passed(w) /\ worker[w].pc = "selected" /\ overtaken'[i] = overtaken[i] + 1
        BY <2>1, <2>5
      <3>2. overtaken'[i] = 1
        BY <2>1, <3>1 DEF OvertakenOK
      <3>3. ASSUME NEW v \in Workers, worker'[v].pc = "selected" PROVE i \notin Passed(v)'
        <4>1. v # w
          BY <3>3
        <4>2. i \notin Passed(v)
          BY <3>1, <4>1 DEF Passed
        <4> QED BY <2>3, <3>3, <4>2
      <3>4. row'[i].status # "free"
        BY <2>2, <3>1
      <3> QED BY <3>2, <3>3, <3>4 DEF OvertakenOK
    <2> QED BY <2>4, <2>5
  <1>8. QuietOK'
    BY DEF QuietOK
  <1> QED BY <1>4, <1>5, <1>6, <1>7, <1>8 DEF Inv

\* A step of worker w that only moves the worker.
LEMMA MoveInv ==
    ASSUME Inv, TypeOK', NEW w \in Workers,
           \A v \in Workers : v # w => worker'[v] = worker[v],
           CallOK(w)', worker'[w].pc = "selected" => Passed(w)' = {},
           UNCHANGED <<row, op, dispatches, overtaken, dbLocked, trial, saved, rollbacks>>
    PROVE  Inv'
  <1>1. ASSUME NEW i \in Jobs PROVE RowOK(i)' /\ SavedOK(i)'
    BY DEF Inv, RowOK, SavedOK
  <1>2. ASSUME NEW v \in Workers, v # w PROVE CallOK(v)'
    BY <1>2 DEF Inv, CallOK
  <1>3. ASSUME NEW i \in Jobs PROVE OvertakenOK(i)'
    <2>1. OvertakenOK(i)
      BY DEF Inv
    <2>2. ASSUME NEW v \in Workers, v # w, worker'[v].pc = "selected", i \notin Passed(v)
          PROVE  i \notin Passed(v)'
      BY <2>2 DEF Passed, Owner
    <2> QED BY <2>1, <2>2 DEF OvertakenOK
  <1>4. QuietOK'
    BY DEF Inv, QuietOK
  <1> QED BY <1>1, <1>2, <1>3, <1>4 DEF Inv

LEMMA WorkerInv == ASSUME NEW w \in Workers PROVE Inv /\ TypeOK' /\ WorkerStep(w) => Inv'
  <1> SUFFICES ASSUME Inv, TypeOK', WorkerStep(w) PROVE Inv'
    OBVIOUS
  <1> DEFINE j == worker[w].job
  <1>1. /\ worker \in [Workers -> [pc : {"idle", "selected", "marked", "calling"},
                                   job : Jobs \cup {NoOne}]]
        /\ worker[w].pc # "idle" => j \in Jobs
        /\ TypeOK
    BY DEF Inv, TypeOK
  <1>2. ASSUME worker' = [worker EXCEPT ![w] = IdleWorker]
        PROVE  /\ worker'[w].pc = "idle" /\ CallOK(w)'
               /\ \A v \in Workers : v # w => worker'[v] = worker[v]
    BY <1>1, <1>2 DEF CallOK, IdleWorker
  <1>3. CASE Select(w)
    <2>1. PICK i \in Runnable(w) :
            /\ \A n \in Runnable(w) : row[i].created <= row[n].created
            /\ worker' = [worker EXCEPT ![w] = [pc |-> "selected", job |-> i]]
      BY <1>3 DEF Select
    <2>2. worker'[w] = [pc |-> "selected", job |-> i]
          /\ \A v \in Workers : v # w => worker'[v] = worker[v]
      BY <1>1, <2>1
    <2>3. UNCHANGED <<row, op, dispatches, overtaken, dbLocked, trial, saved, rollbacks>>
      BY <1>3 DEF Select, agentVars, boundVars, updaterVars
    <2>4. CallOK(w)'
      BY <2>1, <2>2, <2>3 DEF CallOK, Runnable
    <2>5. Passed(w)' = {}
      <3>1. ASSUME NEW n \in Jobs, n \in Passed(w)' PROVE FALSE
        <4>1. /\ row[n].status = "queued" /\ ClassOf(row[n].kind) = w
              /\ Owner(n) = Owner(i) /\ row[n].created < row[i].created
          BY <2>2, <2>3, <3>1 DEF Passed, Owner
        <4>2. n \in Runnable(w) /\ row[n].created \in Nat /\ row[i].created \in Nat
          BY <1>1, <4>1 DEF Runnable, TypeOK, RowType
        <4> QED BY <2>1, <4>1, <4>2
      <3> QED BY <3>1 DEF Passed
    <2> QED BY <2>2, <2>3, <2>4, <2>5, MoveInv
  <1>4. CASE MarkRunning(w)
    <2>1. /\ worker[w].pc = "selected" /\ ~dbLocked
          /\ row' = [row EXCEPT ![j].status = "running"]
          /\ worker' = [worker EXCEPT ![w].pc = "marked"]
          /\ overtaken' = [i \in Jobs |-> overtaken[i] + IF i \in Passed(w) THEN 1 ELSE 0]
          /\ UNCHANGED <<op, dispatches, dbLocked, trial, saved, rollbacks>>
      BY <1>4 DEF MarkRunning, agentVars, boundVars, updaterVars
    <2>2. worker'[w].pc = "marked" /\ worker'[w].job = j
          /\ \A v \in Workers : v # w => worker'[v] = worker[v]
      BY <1>1, <2>1
    <2>3. row'[j].status = "running" /\ row'[j].kind = row[j].kind
      <3>1. j \in Jobs /\ InUse(j) /\ "running" \in Statuses \ {"free"}
        BY <2>1 DEF Inv, TypeOK, Statuses
      <3>2. TypeOK /\ row' = [row EXCEPT ![j].status = "running"]
        BY <1>1, <2>1
      <3> HIDE DEF j
      <3>3. \A i \in Jobs : /\ row'[i].kind = row[i].kind
                            /\ row'[i].status = IF i = j THEN "running" ELSE row[i].status
        BY <3>1, <3>2, StatusUpdate
      <3> QED BY <3>1, <3>3
    <2>4. CallOK(w)'
      BY <1>1, <2>1, <2>2, <2>3 DEF Inv, CallOK, RowOK
    <2> QED BY <2>1, <2>2, <2>4, StatusInv
  <1>5. CASE MarkFails(w)
    <2>1. worker' = [worker EXCEPT ![w] = IdleWorker]
          /\ UNCHANGED <<row, op, dispatches, overtaken, dbLocked, trial, saved, rollbacks>>
      BY <1>5 DEF MarkFails, agentVars, boundVars, updaterVars
    <2> QED BY <1>2, <2>1, MoveInv
  <1>6. CASE Dispatch(w)
    <2>1. /\ worker[w].pc = "marked" /\ j \in Jobs
          /\ worker' = [worker EXCEPT ![w].pc = "calling"]
          /\ UNCHANGED <<row, overtaken, dbLocked, trial, saved, rollbacks>>
      BY <1>1, <1>6 DEF Dispatch, boundVars, updaterVars
    <2>2. /\ op' = [op EXCEPT ![j] = IF row[j].kind \in Locked THEN "waiting" ELSE "executing"]
          /\ dispatches' = [dispatches EXCEPT ![j] = @ + 1]
      BY <1>6 DEF Dispatch
    <2>3. /\ dispatches'[j] = dispatches[j] + 1
          /\ \A i \in Jobs : i # j => op'[i] = op[i] /\ dispatches'[i] = dispatches[i]
      BY <1>1, <2>1, <2>2 DEF TypeOK
    <2>4. worker'[w].pc = "calling" /\ worker'[w].job = j
          /\ \A v \in Workers : v # w => worker'[v] = worker[v]
      BY <1>1, <2>1
    <2>5. /\ row[j].status = "running" /\ dispatches[j] <= rollbacks
          /\ ClassOf(row[j].kind) = w /\ dispatches[j] \in Nat /\ rollbacks \in Nat
      BY <2>1 DEF Inv, CallOK, TypeOK
    <2>6. ASSUME NEW i \in Jobs PROVE RowOK(i)' /\ SavedOK(i)'
      <3>1. CASE i = j
        <4>1. RowOK(i)'
          BY <2>1, <2>3, <2>5, <3>1 DEF Inv, RowOK
        <4>2. SavedOK(i)'
          BY <2>1, <2>5, <3>1 DEF Inv, SavedOK, Finished
        <4> QED BY <4>1, <4>2
      <3>2. CASE i # j
        BY <2>1, <2>3, <3>2 DEF Inv, RowOK, SavedOK
      <3> QED BY <3>1, <3>2
    <2>7. ASSUME NEW v \in Workers PROVE CallOK(v)'
      <3>1. CASE v = w
        BY <2>1, <2>4, <2>5, <3>1 DEF CallOK
      <3>2. CASE v # w
        <4>1. worker[v].pc # "idle" => worker[v].job \in Jobs /\ worker[v].job # j
          BY <2>1, <3>2, WorkersApart DEF Inv, TypeOK
        <4> QED BY <2>1, <2>3, <2>4, <3>2, <4>1 DEF Inv, CallOK
      <3> QED BY <3>1, <3>2
    <2>8. QuietOK'
      BY <2>1 DEF Inv, QuietOK
    <2>9. ASSUME NEW i \in Jobs PROVE OvertakenOK(i)'
      <3>1. OvertakenOK(i)
        BY DEF Inv
      <3>2. ASSUME NEW v \in Workers, worker'[v].pc = "selected", i \notin Passed(v)
            PROVE  worker[v].pc = "selected" /\ i \notin Passed(v)'
        BY <2>1, <2>4, <3>2 DEF Passed, Owner
      <3>3. ASSUME NEW v \in Workers, worker'[v].pc = "selected"
            PROVE  worker[v].pc = "selected"
        BY <2>4, <3>3
      <3> QED BY <2>1, <3>1, <3>2, <3>3 DEF OvertakenOK
    <2> QED BY <2>1, <2>6, <2>7, <2>8, <2>9 DEF Inv
  <1>7. CASE Reply(w) \/ Timeout(w)
    <2>1. PICK t \in {"succeeded", "failed"} :
            /\ t = "succeeded" => op[j] = "ok"
            /\ row' = [row EXCEPT ![j].status = t]
      BY <1>7 DEF Reply, Timeout
    <2>2. /\ worker[w].pc # "idle" /\ ~dbLocked
          /\ worker' = [worker EXCEPT ![w] = IdleWorker]
          /\ UNCHANGED <<op, dispatches, overtaken, dbLocked, trial, saved, rollbacks>>
      BY <1>7 DEF Reply, Timeout, agentVars, boundVars, updaterVars
    <2>3. t \in {"running", "succeeded", "failed"}
      OBVIOUS
    <2> QED BY <1>2, <2>1, <2>2, <2>3, StatusInv
  <1>8. CASE ResultLost(w)
    <2>1. worker' = [worker EXCEPT ![w] = IdleWorker]
          /\ UNCHANGED <<row, op, dispatches, overtaken, dbLocked, trial, saved, rollbacks>>
      BY <1>8 DEF ResultLost, agentVars, updaterVars
    <2> QED BY <1>2, <2>1, MoveInv
  <1> QED BY <1>3, <1>4, <1>5, <1>6, <1>7, <1>8 DEF WorkerStep

\* Steps of the agent that neither send nor undo an operation.
LEMMA OperationsInv ==
    ASSUME Inv, TypeOK', \A i \in Jobs : (op[i] = "ok" => op'[i] = "ok")
                                         /\ (op[i] = "none" => op'[i] = "none"),
           UNCHANGED <<row, worker, dispatches, overtaken, dbLocked, trial, saved, rollbacks>>
    PROVE  Inv'
  <1>1. ASSUME NEW i \in Jobs PROVE RowOK(i)' /\ SavedOK(i)'
    <2>1. RowOK(i) /\ SavedOK(i)
      BY DEF Inv
    <2>2. RowOK(i)'
      BY <2>1 DEF RowOK
    <2>3. SavedOK(i)'
      BY <2>1 DEF SavedOK
    <2> QED BY <2>2, <2>3
  <1>2. ASSUME NEW w \in Workers PROVE CallOK(w)'
    BY DEF Inv, CallOK
  <1>3. ASSUME NEW i \in Jobs PROVE OvertakenOK(i)'
    BY DEF Inv, OvertakenOK, Passed, Owner
  <1>4. QuietOK'
    BY DEF Inv, QuietOK
  <1> QED BY <1>1, <1>2, <1>3, <1>4 DEF Inv

LEMMA AgentInv == Inv /\ TypeOK' /\ AgentStep => Inv'
  <1> SUFFICES ASSUME Inv, TypeOK', NEW j \in Jobs, AgentLock(j) \/ AgentFinish(j)
               PROVE  Inv'
    BY DEF AgentStep
  <1>1. PICK s \in OpStates : op' = [op EXCEPT ![j] = s]
    BY DEF AgentLock, AgentFinish, OpStates
  <1>2. /\ op[j] \in {"waiting", "executing"}
        /\ UNCHANGED <<row, worker, dispatches, overtaken, dbLocked, trial, saved, rollbacks>>
    BY DEF AgentLock, AgentFinish, panelVars, boundVars, updaterVars
  <1>3. \A i \in Jobs : (op[i] = "ok" => op'[i] = "ok") /\ (op[i] = "none" => op'[i] = "none")
    BY <1>1, <1>2 DEF Inv, TypeOK
  <1> QED BY <1>2, <1>3, OperationsInv

\* The start of the panel on a table in which nothing is queued that was sent too often,
\* and what is said to have succeeded did.
LEMMA PanelStartsInv ==
    ASSUME Inv, TypeOK', NEW table, table \in [Jobs -> RowType], PanelStarts(table),
           \A i \in Jobs :
               /\ table[i].status \in {"free", "queued"} =>
                      dispatches'[i] <= rollbacks' /\ (op'[i] = "none" \/ rollbacks' > 0)
               /\ table[i].status = "succeeded" => op'[i] = "ok"
               /\ dispatches'[i] <= 1 + rollbacks'
               /\ overtaken'[i] <= 1
               /\ table[i].status = "free" => overtaken'[i] = 0
               /\ SavedOK(i)'
    PROVE  Inv'
  <1>1. \A i \in Jobs :
           row'[i].status = IF table[i].status = "running" THEN "interrupted"
                            ELSE table[i].status
    BY InterruptUpdate DEF PanelStarts
  <1>2. \A w \in Workers : worker'[w].pc = "idle"
    BY DEF PanelStarts, IdleWorker
  <1>3. ASSUME NEW i \in Jobs PROVE RowOK(i)' /\ OvertakenOK(i)'
    BY <1>1, <1>2 DEF RowOK, OvertakenOK
  <1>4. ASSUME NEW w \in Workers PROVE CallOK(w)'
    BY <1>2 DEF CallOK
  <1>5. QuietOK'
    BY <1>1 DEF QuietOK
  <1> QED BY <1>3, <1>4, <1>5 DEF Inv

LEMMA FaultInv == Inv /\ TypeOK' /\ FaultStep => Inv'
  <1> SUFFICES ASSUME Inv, TypeOK', FaultStep PROVE Inv'
    OBVIOUS
  <1>1. CASE AgentRestart
    <2>1. CutOperations
          /\ UNCHANGED <<row, worker, dispatches, overtaken, dbLocked, trial, saved, rollbacks>>
      BY <1>1 DEF AgentRestart, panelVars, updaterVars
    <2>2. \A i \in Jobs : (op[i] = "ok" => op'[i] = "ok") /\ (op[i] = "none" => op'[i] = "none")
      BY <2>1 DEF CutOperations
    <2> QED BY <2>1, <2>2, OperationsInv
  <1>2. CASE PanelRestart
    <2>1. /\ PanelStarts(row) /\ row \in [Jobs -> RowType]
          /\ UNCHANGED <<dispatches, overtaken, op, trial, saved, rollbacks>>
      BY <1>2 DEF PanelRestart, PanelStarts, agentVars, updaterVars, Inv, TypeOK
    <2>2. ASSUME NEW i \in Jobs PROVE RowOK(i) /\ OvertakenOK(i) /\ SavedOK(i)'
      <3>1. RowOK(i) /\ OvertakenOK(i) /\ SavedOK(i)
        BY DEF Inv
      <3>2. row[i].status # "running" => row'[i] = row[i]
        BY <2>1, InterruptUpdate DEF PanelStarts
      <3> QED BY <2>1, <3>1, <3>2 DEF SavedOK, Finished
    <2> QED BY <2>1, <2>2, PanelStartsInv DEF RowOK, OvertakenOK
  <1> QED BY <1>1, <1>2 DEF FaultStep

LEMMA UpdaterInv == Inv /\ TypeOK' /\ UpdaterStep => Inv'
  <1> SUFFICES ASSUME Inv, TypeOK', UpdaterStep PROVE Inv'
    OBVIOUS
  <1>1. CASE UpdateBegins \/ UpdateCommits
    <2>1. UNCHANGED <<row, worker, op, dispatches, overtaken, rollbacks>>
      BY <1>1 DEF UpdateBegins, UpdateCommits, panelVars, agentVars
    <2>2. /\ trial' => (trial /\ saved' = saved)
          /\ dbLocked' => dbLocked \/ \A i \in Jobs : row[i].status # "running"
      BY <1>1 DEF UpdateBegins, UpdateCommits, Running
    <2>3. ASSUME NEW i \in Jobs PROVE RowOK(i)' /\ SavedOK(i)'
      BY <2>1, <2>2 DEF Inv, RowOK, SavedOK
    <2>4. ASSUME NEW w \in Workers PROVE CallOK(w)'
      BY <2>1 DEF Inv, CallOK
    <2>5. ASSUME NEW i \in Jobs PROVE OvertakenOK(i)'
      BY <2>1 DEF Inv, OvertakenOK, Passed, Owner
    <2>6. QuietOK'
      BY <2>1, <2>2 DEF Inv, QuietOK
    <2> QED BY <2>1, <2>3, <2>4, <2>5, <2>6 DEF Inv
  <1>2. CASE UpdateStops
    <2>1. /\ dbLocked /\ PanelStarts(row) /\ CutOperations
          /\ saved' = [row |-> row, enabled |-> enabled, plan |-> plan]
          /\ UNCHANGED <<dispatches, overtaken, rollbacks>>
      BY <1>2 DEF UpdateStops
    <2>2. row \in [Jobs -> RowType] /\ saved'.row = row
      BY <2>1 DEF Inv, TypeOK
    <2>3. ASSUME NEW i \in Jobs
          PROVE  /\ RowOK(i) /\ OvertakenOK(i) /\ row[i].status # "running" /\ row'[i] = row[i]
                 /\ (op[i] = "ok" => op'[i] = "ok") /\ (op[i] = "none" => op'[i] = "none")
      <3>1. RowOK(i) /\ OvertakenOK(i) /\ row[i].status # "running"
        BY <2>1 DEF Inv, QuietOK
      <3>2. row'[i] = row[i]
        BY <2>1, <2>2, <3>1, InterruptUpdate DEF PanelStarts
      <3> QED BY <2>1, <3>1, <3>2 DEF CutOperations
    <2>4. ASSUME NEW i \in Jobs PROVE SavedOK(i)'
      BY <2>2, <2>3 DEF SavedOK, RowOK
    <2> QED BY <2>1, <2>2, <2>3, <2>4, PanelStartsInv DEF RowOK, OvertakenOK
  <1>3. CASE UpdateRollsBack
    <2>1. /\ trial /\ PanelStarts(saved.row) /\ saved.row \in [Jobs -> RowType]
          /\ rollbacks' = rollbacks + 1 /\ rollbacks \in Nat
          /\ dispatches \in [Jobs -> Nat]
      BY <1>3 DEF UpdateRollsBack, Inv, TypeOK
    <2>2. ASSUME NEW i \in Jobs
          PROVE  /\ op'[i] = IF saved.row[i].status = "free" THEN "none"
                             ELSE IF op[i] \in {"waiting", "executing"} THEN "cut" ELSE op[i]
                 /\ dispatches'[i] = IF saved.row[i].status = "free" THEN 0 ELSE dispatches[i]
                 /\ overtaken'[i] = IF saved.row[i].status = "free" THEN 0 ELSE overtaken[i]
      BY <1>3 DEF UpdateRollsBack
    <2>3. ASSUME NEW i \in Jobs
          PROVE  /\ dispatches'[i] <= rollbacks' /\ rollbacks' > 0
                 /\ dispatches'[i] <= 1 + rollbacks'
                 /\ saved.row[i].status = "succeeded" => op'[i] = "ok"
                 /\ overtaken'[i] <= 1
                 /\ saved.row[i].status = "free" => overtaken'[i] = 0
      <3>1. RowOK(i) /\ SavedOK(i) /\ OvertakenOK(i) /\ dispatches[i] \in Nat
        BY <2>1 DEF Inv
      <3>2. dispatches'[i] <= rollbacks' /\ rollbacks' > 0 /\ dispatches'[i] <= 1 + rollbacks'
        BY <2>1, <2>2, <3>1 DEF RowOK
      <3> QED BY <2>1, <2>2, <3>1, <3>2 DEF SavedOK, OvertakenOK
    <2>4. ASSUME NEW i \in Jobs PROVE SavedOK(i)'
      BY <1>3 DEF UpdateRollsBack, SavedOK
    <2> QED BY <2>1, <2>3, <2>4, PanelStartsInv
  <1> QED BY <1>1, <1>2, <1>3 DEF UpdaterStep

LEMMA RequestInv == Inv /\ TypeOK' /\ RequestStep => Inv'
  <1> SUFFICES ASSUME Inv, TypeOK', NEW h \in Requests,
                      \/ \E k \in Kinds, a \in Apps : Queue(h, k, a)
                      \/ \E j \in Jobs : Retry(h, j) \/ InsertJob(h, j)
                      \/ Drop(h)
               PROVE  Inv'
    BY DEF RequestStep
  <1>2. ASSUME NEW j \in Jobs, InsertJob(h, j) PROVE Inv'
    <2>1. /\ Insert(j, request[h].kind, request[h].app, request[h].created)
          /\ request[h].pc = "insert"
          /\ UNCHANGED <<worker, op, dispatches, overtaken, dbLocked, trial, saved, rollbacks>>
      BY <1>2 DEF InsertJob, agentVars, boundVars, updaterVars
    <2>2. request[h].kind \in Kinds /\ request[h].app \in Apps /\ request[h].created \in Nat
      BY <2>1 DEF Inv, TypeOK
    <2>3. /\ ~InUse(j) /\ ~dbLocked
          /\ row' = [row EXCEPT ![j] = NewRow(request[h].kind, request[h].app,
                                             request[h].created)]
      BY <2>1 DEF Insert
    <2> QED BY <2>1, <2>2, <2>3, InsertInv
  <1>3. ASSUME \/ \E k \in Kinds, a \in Apps : Queue(h, k, a)
               \/ \E j \in Jobs : Retry(h, j)
               \/ Drop(h)
        PROVE  Inv'
    <2>1. UNCHANGED <<row, worker, op, dispatches, overtaken, dbLocked, trial, saved, rollbacks>>
      BY <1>3 DEF Queue, Retry, Drop, agentVars, boundVars, updaterVars
    <2> QED BY <2>1, FrameInv
  <1> QED BY <1>2, <1>3

LEMMA BackgroundInv ==
    Inv /\ TypeOK' /\ (AccountStep \/ PlanStep \/ MonitorStep \/ TickStep) => Inv'
  <1> SUFFICES ASSUME Inv, TypeOK', AccountStep \/ PlanStep \/ MonitorStep \/ TickStep
               PROVE  Inv'
    OBVIOUS
  <1>2. CASE MonitorReads \/ MonitorEnds
    <2>1. UNCHANGED <<row, worker, op, dispatches, overtaken, dbLocked, trial, saved, rollbacks>>
      BY <1>2 DEF MonitorReads, MonitorEnds, agentVars, boundVars, updaterVars
    <2> QED BY <2>1, FrameInv
  <1>3. ASSUME NEW j \in Jobs, NEW a \in Apps, MonitorAlert(j, a) PROVE Inv'
    <2>1. /\ "monitor_alert" \in Kinds /\ ~InUse(j) /\ ~dbLocked
          /\ row' = [row EXCEPT ![j] = NewRow("monitor_alert", a, monitor.now)]
          /\ UNCHANGED <<worker, op, dispatches, overtaken, dbLocked, trial, saved, rollbacks>>
      BY <1>3 DEF MonitorAlert, agentVars, boundVars, updaterVars
    <2>2. monitor.now \in Nat
      BY DEF Inv, TypeOK
    <2> QED BY <2>1, <2>2, InsertInv
  <1>4. ASSUME NEW j \in Jobs, TickInsert(j) PROVE Inv'
    <2>1. /\ "full_backup" \in Kinds
          /\ Insert(j, "full_backup", AppOf[ticker.at], ticker.created)
          /\ ticker.pc = "insert"
          /\ UNCHANGED <<worker, op, dispatches, overtaken, dbLocked, trial, saved, rollbacks>>
      BY <1>4 DEF TickInsert, agentVars, boundVars, updaterVars
    <2>2. AppOf[ticker.at] \in Apps /\ ticker.created \in Nat
      BY <2>1, ConstantsAssumption DEF Inv, TypeOK
    <2>3. /\ ~InUse(j) /\ ~dbLocked
          /\ row' = [row EXCEPT ![j] = NewRow("full_backup", AppOf[ticker.at], ticker.created)]
      BY <2>1 DEF Insert
    <2> QED BY <2>1, <2>2, <2>3, InsertInv
  <1>5. ASSUME \/ AccountStep \/ PlanStep \/ TickRead \/ TickCount \/ TickGivesUp
               \/ TickAdvance \/ TickFails
               \/ \E p \in Plans : TickPending(p)
        PROVE  Inv'
    <2>1. UNCHANGED <<row, worker, op, dispatches, overtaken, dbLocked, trial, saved, rollbacks>>
      BY <1>5 DEF AccountStep, SetEnabled, PlanStep, SavePlan, DeletePlan, PlanFallsDue,
                  TickRead, TickCount, TickGivesUp, TickAdvance, TickFails, TickPending,
                  agentVars, boundVars, updaterVars
    <2> QED BY <2>1, FrameInv
  <1> QED BY <1>2, <1>3, <1>4, <1>5 DEF MonitorStep, TickStep

LEMMA StepInv == Inv /\ [Next]_vars => Inv'
  <1> SUFFICES ASSUME Inv, [Next]_vars PROVE Inv'
    OBVIOUS
  <1>1. TypeOK'
    BY StepTypeOK DEF Inv
  <1>2. CASE UNCHANGED vars
    <2>2. UNCHANGED <<row, worker, op, dispatches, overtaken, dbLocked, trial, saved, rollbacks>>
      BY <1>2 DEF vars, panelVars, agentVars, boundVars, updaterVars
    <2> QED BY <1>1, <2>2, FrameInv
  <1>3. CASE Next
    BY <1>1, <1>3, RequestInv, BackgroundInv, WorkerInv, AgentInv, FaultInv, UpdaterInv DEF Next
  <1> QED BY <1>2, <1>3

\* The inductive invariant holds in every reachable state.
THEOREM Invariance == Spec => []Inv
  BY InitInv, StepInv, PTL DEF Spec

-----------------------------------------------------------------------------
(* The properties. *)

\* No job is sent to the agent a second time, whatever restarts, is lost or times out,
\* but for once more per rollback of the database.
THEOREM AtMostOneDispatch == Spec => []DispatchedAtMostOnce
  <1>1. Inv => DispatchedAtMostOnce
    BY DEF Inv, RowOK, DispatchedAtMostOnce
  <1> QED BY <1>1, Invariance, PTL

\* A job listed as succeeded was completed by the agent, and one listed as queued has
\* not touched the host unless a rollback put it back.
THEOREM TruthfulStatus == Spec => []StatusTellsTruth
  <1>1. Inv => StatusTellsTruth
    BY DEF Inv, RowOK, StatusTellsTruth
  <1> QED BY <1>1, Invariance, PTL

\* Applying a release interrupts no job and cuts no call of a worker.
THEOREM UpdatesAreQuiet == Spec => UpdateCutsNoJob
  <1>1. Inv /\ [Next]_vars =>
            [updates' # updates => /\ Running = {}
                                   /\ \A w \in Workers : worker[w].pc # "calling"]_vars
    <2> SUFFICES ASSUME Inv, Next, updates' # updates
                 PROVE  Running = {} /\ \A w \in Workers : worker[w].pc # "calling"
      OBVIOUS
    <2>1. CASE dbLocked
      BY <2>1 DEF Inv, QuietOK, CallOK, Running, TypeOK
    <2>2. CASE ~dbLocked
      <3>1. updates' = updates
        BY <2>2 DEF Next, RequestStep, Queue, Retry, InsertJob, Drop, AccountStep,
              SetEnabled, PlanStep, SavePlan, DeletePlan, PlanFallsDue, MonitorStep,
              MonitorReads, MonitorAlert, MonitorEnds, TickStep, TickRead, TickPending,
              TickCount, TickGivesUp, TickInsert, TickAdvance, TickFails, WorkerStep,
              Select, MarkRunning, MarkFails, Dispatch, Reply, Timeout, ResultLost,
              AgentStep, AgentLock, AgentFinish, FaultStep, AgentRestart, PanelRestart,
              UpdaterStep, UpdateBegins, UpdateStops, UpdateCommits, UpdateRollsBack,
              boundVars, updaterVars
      <3> QED BY <3>1
    <2> QED BY <2>1, <2>2
  <1> QED BY <1>1, Invariance, PTL DEF Spec, UpdateCutsNoJob

\* The ways in which the table of jobs changes.
LEMMA RowSteps ==
    ASSUME Inv, Next
    PROVE  \/ row' = row
           \/ \E j \in Jobs : ~InUse(j) /\ \E k \in Kinds, a \in Apps, t \in Nat :
                row' = [row EXCEPT ![j] = NewRow(k, a, t)]
           \/ \E w \in Workers : MarkRunning(w)
           \/ \E w \in Workers : Reply(w) \/ Timeout(w)
           \/ Interrupt(row)
           \/ trial /\ rollbacks' # rollbacks /\ Interrupt(saved.row)
  <1>1. CASE RequestStep
    <2>1. PICK h \in Requests : \/ \E k \in Kinds, a \in Apps : Queue(h, k, a)
                                \/ \E j \in Jobs : Retry(h, j) \/ InsertJob(h, j)
                                \/ Drop(h)
      BY <1>1 DEF RequestStep
    <2>2. ASSUME NEW j \in Jobs, InsertJob(h, j)
          PROVE  /\ ~InUse(j) /\ request[h].kind \in Kinds /\ request[h].app \in Apps
                 /\ request[h].created \in Nat
                 /\ row' = [row EXCEPT ![j] = NewRow(request[h].kind, request[h].app,
                                                    request[h].created)]
      BY <2>2 DEF InsertJob, Insert, Inv, TypeOK
    <2> QED BY <2>1, <2>2 DEF Queue, Retry, Drop
  <1>2. CASE MonitorStep
    <2>1. ASSUME NEW j \in Jobs, NEW a \in Apps, MonitorAlert(j, a)
          PROVE  /\ ~InUse(j) /\ "monitor_alert" \in Kinds /\ monitor.now \in Nat
                 /\ row' = [row EXCEPT ![j] = NewRow("monitor_alert", a, monitor.now)]
      BY <2>1 DEF MonitorAlert, Inv, TypeOK
    <2> QED BY <1>2, <2>1 DEF MonitorStep, MonitorReads, MonitorEnds
  <1>3. CASE TickStep
    <2>1. ASSUME NEW j \in Jobs, TickInsert(j)
          PROVE  /\ ~InUse(j) /\ "full_backup" \in Kinds /\ AppOf[ticker.at] \in Apps
                 /\ ticker.created \in Nat
                 /\ row' = [row EXCEPT ![j] = NewRow("full_backup", AppOf[ticker.at],
                                                    ticker.created)]
      BY <2>1, ConstantsAssumption DEF TickInsert, Insert, Inv, TypeOK
    <2> QED BY <1>3, <2>1 DEF TickStep, TickRead, TickPending, TickCount, TickGivesUp,
                              TickAdvance, TickFails
  <1>4. ASSUME NEW w \in Workers, WorkerStep(w)
        PROVE  row' = row \/ MarkRunning(w) \/ Reply(w) \/ Timeout(w)
    BY <1>4 DEF WorkerStep, Select, MarkFails, Dispatch, ResultLost
  <1>5. CASE AccountStep \/ PlanStep \/ AgentStep
    BY <1>5 DEF AccountStep, SetEnabled, PlanStep, SavePlan, DeletePlan, PlanFallsDue,
                AgentStep, AgentLock, AgentFinish, panelVars
  <1>6. CASE FaultStep
    BY <1>6 DEF FaultStep, AgentRestart, PanelRestart, PanelStarts, panelVars
  <1>7. CASE UpdaterStep
    <2>1. rollbacks \in Nat
      BY DEF Inv, TypeOK
    <2> QED BY <1>7, <2>1 DEF UpdaterStep, UpdateBegins, UpdateStops, UpdateCommits,
                              UpdateRollsBack, PanelStarts, panelVars
  <1> QED BY <1>1, <1>2, <1>3, <1>4, <1>5, <1>6, <1>7 DEF Next

\* A worker that sets a status sets that of its own row, which was queued before it
\* was marked and running before it ended.
LEMMA MarkedRow ==
    ASSUME Inv, NEW w \in Workers, MarkRunning(w)
    PROVE  /\ worker[w].job \in Jobs /\ row[worker[w].job].status = "queued"
           /\ \A i \in Jobs : i # worker[w].job => row'[i] = row[i]
  BY DEF MarkRunning, Inv, TypeOK, CallOK

LEMMA EndedRow ==
    ASSUME Inv, NEW w \in Workers, Reply(w) \/ Timeout(w)
    PROVE  /\ worker[w].job \in Jobs /\ row[worker[w].job].status = "running"
           /\ row'[worker[w].job].status # "running"
           /\ \A i \in Jobs : i # worker[w].job => row'[i] = row[i]
  <1>1. PICK t \in {"succeeded", "failed"} :
          row' = [row EXCEPT ![worker[w].job].status = t]
    BY DEF Reply, Timeout
  <1>2. /\ row \in [Jobs -> RowType] /\ worker[w].job \in Jobs
        /\ row[worker[w].job].status = "running"
    BY DEF Reply, Timeout, Inv, TypeOK, CallOK
  <1> QED BY <1>1, <1>2 DEF RowType

\* A finished job keeps its row for ever, and through a rollback if it was finished
\* before the release.
THEOREM FinalIsFinal == Spec => FinishedIsFinal
  <1>1. Inv /\ [Next]_vars =>
            [\A j \in Jobs :
                /\ row[j].status \in Finished
                /\ rollbacks' # rollbacks => saved.row[j].status \in Finished
                => row'[j] = row[j]]_vars
    <2> SUFFICES ASSUME Inv, Next, NEW j \in Jobs, row[j].status \in Finished,
                        rollbacks' # rollbacks => saved.row[j].status \in Finished
                 PROVE  row'[j] = row[j]
      OBVIOUS
    <2>1. row[j].status \notin {"free", "queued", "running"}
      BY DEF Finished
    <2>2. ASSUME NEW i \in Jobs, NEW k \in Kinds, NEW a \in Apps, NEW t \in Nat,
                 ~InUse(i), row' = [row EXCEPT ![i] = NewRow(k, a, t)]
          PROVE  row'[j] = row[j]
      BY <2>1, <2>2, InsertUpdate DEF Inv, InUse
    <2>3. ASSUME NEW w \in Workers, MarkRunning(w) PROVE row'[j] = row[j]
      BY <2>1, <2>3, MarkedRow
    <2>4. ASSUME NEW w \in Workers, Reply(w) \/ Timeout(w) PROVE row'[j] = row[j]
      BY <2>1, <2>4, EndedRow
    <2>5. ASSUME Interrupt(row) PROVE row'[j] = row[j]
      BY <2>1, <2>5 DEF Interrupt
    <2>6. ASSUME trial, rollbacks' # rollbacks, Interrupt(saved.row) PROVE row'[j] = row[j]
      <3>1. saved.row[j] = row[j]
        BY <2>6 DEF Inv, SavedOK
      <3> QED BY <2>1, <2>6, <3>1 DEF Interrupt
    <2> QED BY <2>2, <2>3, <2>4, <2>5, <2>6, RowSteps
  <1> QED BY <1>1, Invariance, PTL DEF Spec, FinishedIsFinal

\* A queued job is left behind by at most one younger job of its account and class.
THEOREM OvertakenOnce == Spec => []OvertakenAtMostOnce
  <1>1. Inv => OvertakenAtMostOnce
    BY DEF Inv, OvertakenOK, OvertakenAtMostOnce
  <1> QED BY <1>1, Invariance, PTL

-----------------------------------------------------------------------------
(* The pending limit. *)

\* The ordinary jobs of the account that a table has pending.
OrdinaryIn(table, o) ==
    {j \in Jobs : /\ table[j].status \in {"queued", "running"}
                  /\ table[j].kind # "monitor_alert" /\ OwnerOf[table[j].app] = o}

\* What counts against the limit: what is pending, and what was counted and not yet inserted.
Load(o) ==
    Cardinality(OrdinaryPending(o)) + Cardinality(AboutToInsert(o)) + TickAboutToInsert(o)

Most == PendingLimit + Cardinality(Requests)

\* A rollback finds no more in the snapshot than the limit allowed when it was taken.
SavedBounded == \A o \in Owners : Cardinality(OrdinaryIn(saved.row, o)) <= Most

\* The three summands are numbers, the second at most the number of handlers.
LEMMA Summands ==
    ASSUME NEW o
    PROVE  /\ OrdinaryPending(o) = OrdinaryIn(row, o)
           /\ IsFiniteSet(OrdinaryPending(o)) /\ Cardinality(OrdinaryPending(o)) \in Nat
           /\ Cardinality(OrdinaryPending(o)) <= Cardinality(Pending(o))
           /\ Cardinality(Pending(o)) \in Nat
           /\ IsFiniteSet(AboutToInsert(o)) /\ Cardinality(AboutToInsert(o)) \in Nat
           /\ Cardinality(AboutToInsert(o)) <= Cardinality(Requests)
           /\ Cardinality(Requests) \in Nat /\ PendingLimit \in Nat
           /\ TickAboutToInsert(o) \in {0, 1}
  <1>1. IsFiniteSet(Jobs) /\ IsFiniteSet(Requests) /\ PendingLimit \in Nat
    BY ConstantsAssumption
  <1>2. /\ Pending(o) \subseteq Jobs /\ OrdinaryPending(o) \subseteq Pending(o)
        /\ AboutToInsert(o) \subseteq Requests
    BY DEF Pending, OrdinaryPending, AboutToInsert
  <1>3. IsFiniteSet(Pending(o)) /\ Cardinality(Pending(o)) \in Nat
    BY <1>1, <1>2, FS_Subset, FS_CardinalityType
  <1>4. /\ IsFiniteSet(OrdinaryPending(o)) /\ Cardinality(OrdinaryPending(o)) \in Nat
        /\ Cardinality(OrdinaryPending(o)) <= Cardinality(Pending(o))
    BY <1>2, <1>3, FS_Subset, FS_CardinalityType
  <1>5. /\ IsFiniteSet(AboutToInsert(o)) /\ Cardinality(AboutToInsert(o)) \in Nat
        /\ Cardinality(AboutToInsert(o)) <= Cardinality(Requests)
        /\ Cardinality(Requests) \in Nat
    BY <1>1, <1>2, FS_Subset, FS_CardinalityType
  <1>6. OrdinaryPending(o) = OrdinaryIn(row, o)
    BY DEF OrdinaryPending, Pending, OrdinaryIn, Owner
  <1>7. TickAboutToInsert(o) \in {0, 1}
    BY DEF TickAboutToInsert
  <1> QED BY <1>1, <1>3, <1>4, <1>5, <1>6, <1>7

\* Nothing is added.
LEMMA LoadFalls ==
    ASSUME NEW o \in Owners, Load(o) <= Most,
           OrdinaryPending(o)' \subseteq OrdinaryPending(o),
           AboutToInsert(o)' \subseteq AboutToInsert(o),
           TickAboutToInsert(o)' <= TickAboutToInsert(o)
    PROVE  Load(o)' <= Most
  <1> DEFINE a == Cardinality(OrdinaryPending(o))
             b == Cardinality(AboutToInsert(o))
             c == TickAboutToInsert(o)
             d == Cardinality(OrdinaryPending(o)')
             e == Cardinality(AboutToInsert(o)')
             f == TickAboutToInsert(o)'
  <1>1. /\ a \in Nat /\ b \in Nat /\ c \in {0, 1}
        /\ IsFiniteSet(OrdinaryPending(o)) /\ IsFiniteSet(AboutToInsert(o))
        /\ PendingLimit \in Nat /\ Cardinality(Requests) \in Nat
    BY Summands
  <1>2. d <= a /\ d \in Nat /\ e <= b /\ e \in Nat
    BY <1>1, FS_Subset, FS_CardinalityType
  <1>3. f \in {0, 1}
    BY DEF TickAboutToInsert
  <1>4. f <= c /\ a + b + c <= Most /\ Most \in Nat /\ Load(o)' = d + e + f
    BY <1>1 DEF Load, Most
  <1> HIDE DEF a, b, c, d, e, f
  <1> QED BY <1>1, <1>2, <1>3, <1>4

\* Whoever counted and found room may be about to insert.
LEMMA LoadCounted ==
    ASSUME NEW o \in Owners, Cardinality(Pending(o)) < PendingLimit, UNCHANGED row
    PROVE  Load(o)' <= Most
  <1> DEFINE a == Cardinality(OrdinaryPending(o))
             e == Cardinality(AboutToInsert(o)')
             f == TickAboutToInsert(o)'
             n == Cardinality(Requests)
  <1>1. a \in Nat /\ n \in Nat /\ PendingLimit \in Nat /\ a < PendingLimit
    BY Summands
  <1>2. OrdinaryPending(o)' = OrdinaryPending(o)
    BY DEF OrdinaryPending, Pending, Owner
  <1>3. e \in Nat /\ e <= n
    <2>1. IsFiniteSet(Requests) /\ AboutToInsert(o)' \subseteq Requests
      BY ConstantsAssumption DEF AboutToInsert
    <2> QED BY <2>1, FS_Subset, FS_CardinalityType
  <1>4. f \in {0, 1}
    BY DEF TickAboutToInsert
  <1>5. Load(o)' = a + e + f /\ Most = PendingLimit + n
    BY <1>2 DEF Load, Most
  <1> HIDE DEF a, e, f, n
  <1> QED BY <1>1, <1>3, <1>4, <1>5

\* One that was counted is inserted.
LEMMA LoadMoves ==
    ASSUME NEW o \in Owners, Load(o) <= Most, NEW j,
           OrdinaryPending(o)' = OrdinaryPending(o) \cup {j},
           \/ /\ \E h \in AboutToInsert(o) : AboutToInsert(o)' = AboutToInsert(o) \ {h}
              /\ TickAboutToInsert(o)' = TickAboutToInsert(o)
           \/ /\ AboutToInsert(o)' = AboutToInsert(o)
              /\ TickAboutToInsert(o) = 1 /\ TickAboutToInsert(o)' = 0
    PROVE  Load(o)' <= Most
  <1> DEFINE a == Cardinality(OrdinaryPending(o))
             b == Cardinality(AboutToInsert(o))
             c == TickAboutToInsert(o)
             d == Cardinality(OrdinaryPending(o)')
             e == Cardinality(AboutToInsert(o)')
             f == TickAboutToInsert(o)'
  <1>1. /\ a \in Nat /\ b \in Nat /\ c \in {0, 1}
        /\ IsFiniteSet(OrdinaryPending(o)) /\ IsFiniteSet(AboutToInsert(o))
        /\ PendingLimit \in Nat /\ Cardinality(Requests) \in Nat
    BY Summands
  <1>2. d \in {a, a + 1}
    BY <1>1, FS_AddElement
  <1>3. e + f = b + c - 1 /\ e \in Int /\ f \in Int
    <2>1. CASE \E h \in AboutToInsert(o) : AboutToInsert(o)' = AboutToInsert(o) \ {h}
      <3>1. PICK h \in AboutToInsert(o) : AboutToInsert(o)' = AboutToInsert(o) \ {h}
        BY <2>1
      <3>2. e = b - 1
        BY <1>1, <3>1, FS_RemoveElement
      <3>3. AboutToInsert(o)' # AboutToInsert(o)
        BY <3>1
      <3>4. f = c
        BY <3>3
      <3> HIDE DEF b, c, e, f
      <3> QED BY <1>1, <3>2, <3>4
    <2>2. CASE AboutToInsert(o)' = AboutToInsert(o) /\ c = 1 /\ f = 0
      <3>1. e = b
        BY <2>2
      <3> HIDE DEF b, c, e, f
      <3> QED BY <1>1, <2>2, <3>1
    <2> QED BY <2>1, <2>2
  <1>4. a + b + c <= Most /\ Most \in Nat /\ Load(o)' = d + e + f
    BY <1>1 DEF Load, Most
  <1> HIDE DEF a, b, c, d, e, f
  <1> QED BY <1>1, <1>2, <1>3, <1>4

\* An insertion adds an ordinary job to what its own account has pending.
LEMMA InsertedLoad ==
    ASSUME TypeOK, NEW j \in Jobs, NEW k \in Kinds, NEW a \in Apps, NEW t \in Nat, NEW o,
           ~InUse(j), row' = [row EXCEPT ![j] = NewRow(k, a, t)]
    PROVE  OrdinaryPending(o)' =
               IF k # "monitor_alert" /\ OwnerOf[a] = o THEN OrdinaryPending(o) \cup {j}
               ELSE OrdinaryPending(o)
  <1>1. /\ \A i \in Jobs : i # j => row'[i] = row[i]
        /\ row'[j] = NewRow(k, a, t) /\ row[j].status = "free"
    BY InsertUpdate DEF InUse
  <1>2. row'[j].status = "queued" /\ row'[j].kind = k /\ row'[j].app = a
    BY <1>1 DEF NewRow
  <1>3. ASSUME NEW i \in Jobs, i # j PROVE i \in OrdinaryPending(o)' <=> i \in OrdinaryPending(o)
    BY <1>1, <1>3 DEF OrdinaryPending, Pending, Owner
  <1>4. j \notin OrdinaryPending(o)
    BY <1>1 DEF OrdinaryPending, Pending
  <1>5. j \in OrdinaryPending(o)' <=> k # "monitor_alert" /\ OwnerOf[a] = o
    BY <1>2 DEF OrdinaryPending, Pending, Owner
  <1>6. OrdinaryPending(o) \subseteq Jobs /\ OrdinaryPending(o)' \subseteq Jobs
    BY DEF OrdinaryPending, Pending
  <1> QED BY <1>3, <1>4, <1>5, <1>6

\* Handlers: they count, insert what they counted, or give it up.
LEMMA RequestLoad == ASSUME Inv, OverrunIsBounded, RequestStep PROVE OverrunIsBounded'
  <1> SUFFICES ASSUME NEW o \in Owners PROVE Load(o)' <= Most
    BY DEF OverrunIsBounded, Load, Most
  <1>1. TypeOK /\ Load(o) <= Most
    BY DEF Inv, OverrunIsBounded, Load, Most
  <1>2. PICK h \in Requests : \/ \E k \in Kinds, a \in Apps : Queue(h, k, a)
                              \/ \E j \in Jobs : Retry(h, j) \/ InsertJob(h, j)
                              \/ Drop(h)
    BY DEF RequestStep
  <1>3. request \in [Requests -> [pc : {"idle", "insert"}, kind : Kinds \cup {NoOne},
                                  app : Apps \cup {NoOne}, created : Nat]]
    BY <1>1 DEF TypeOK
  <1>4. ASSUME NEW k, NEW a, k # "monitor_alert" => HasRoom(OwnerOf[a], k),
               request' = [request EXCEPT ![h] = Counted(k, a)], UNCHANGED <<row, ticker>>
        PROVE  Load(o)' <= Most
    <2>1. CASE k # "monitor_alert" /\ OwnerOf[a] = o
      <3>1. Cardinality(Pending(o)) < PendingLimit
        BY <1>4, <2>1 DEF HasRoom
      <3> QED BY <1>4, <3>1, LoadCounted
    <2>2. CASE ~(k # "monitor_alert" /\ OwnerOf[a] = o)
      <3>1. request'[h].kind = k /\ request'[h].app = a
        BY <1>3, <1>4 DEF Counted
      <3>2. \A g \in Requests : g # h => request'[g] = request[g]
        BY <1>3, <1>4
      <3>3. AboutToInsert(o)' \subseteq AboutToInsert(o)
        BY <2>2, <3>1, <3>2 DEF AboutToInsert
      <3>4. OrdinaryPending(o)' = OrdinaryPending(o)
        BY <1>4 DEF OrdinaryPending, Pending, Owner
      <3>5. TickAboutToInsert(o)' = TickAboutToInsert(o) /\ TickAboutToInsert(o) \in {0, 1}
        BY <1>4 DEF TickAboutToInsert
      <3> QED BY <1>1, <3>3, <3>4, <3>5, LoadFalls
    <2> QED BY <2>1, <2>2
  <1>5. ASSUME NEW k \in Kinds, NEW a \in Apps, Queue(h, k, a) PROVE Load(o)' <= Most
    BY <1>4, <1>5 DEF Queue
  <1>6. ASSUME NEW j \in Jobs, Retry(h, j) PROVE Load(o)' <= Most
    BY <1>4, <1>6 DEF Retry, Owner
  <1>7. ASSUME request' = [request EXCEPT ![h] = IdleRequest]
        PROVE  AboutToInsert(o)' = AboutToInsert(o) \ {h}
    <2>1. request'[h].pc = "idle" /\ \A g \in Requests : g # h => request'[g] = request[g]
      BY <1>3, <1>7 DEF IdleRequest
    <2> QED BY <2>1 DEF AboutToInsert
  <1>8. ASSUME UNCHANGED ticker
        PROVE  TickAboutToInsert(o)' = TickAboutToInsert(o) /\ TickAboutToInsert(o) \in {0, 1}
    BY <1>8 DEF TickAboutToInsert
  <1>9. ASSUME NEW j \in Jobs, InsertJob(h, j) PROVE Load(o)' <= Most
    <2> DEFINE k == request[h].kind
               a == request[h].app
               t == request[h].created
    <2>1. /\ request[h].pc = "insert" /\ k \in Kinds /\ a \in Apps /\ t \in Nat /\ ~InUse(j)
          /\ row' = [row EXCEPT ![j] = NewRow(k, a, t)]
          /\ request' = [request EXCEPT ![h] = IdleRequest] /\ UNCHANGED ticker
      BY <1>1, <1>9 DEF InsertJob, Insert, TypeOK
    <2>2. h \in AboutToInsert(o) <=> k # "monitor_alert" /\ OwnerOf[a] = o
      BY <2>1 DEF AboutToInsert
    <2> HIDE DEF k, a, t
    <2>3. OrdinaryPending(o)' =
               IF k # "monitor_alert" /\ OwnerOf[a] = o THEN OrdinaryPending(o) \cup {j}
               ELSE OrdinaryPending(o)
      BY <1>1, <2>1, InsertedLoad
    <2>4. /\ AboutToInsert(o)' = AboutToInsert(o) \ {h}
          /\ TickAboutToInsert(o)' = TickAboutToInsert(o) /\ TickAboutToInsert(o) \in {0, 1}
      BY <1>7, <1>8, <2>1
    <2>5. CASE h \in AboutToInsert(o)
      BY <1>1, <2>2, <2>3, <2>4, <2>5, LoadMoves
    <2>6. CASE h \notin AboutToInsert(o)
      BY <1>1, <2>2, <2>3, <2>4, <2>6, LoadFalls
    <2> QED BY <2>5, <2>6
  <1>10. ASSUME Drop(h) PROVE Load(o)' <= Most
    <2>1. OrdinaryPending(o)' = OrdinaryPending(o)
      BY <1>10 DEF Drop, OrdinaryPending, Pending, Owner
    <2>2. /\ AboutToInsert(o)' = AboutToInsert(o) \ {h}
          /\ TickAboutToInsert(o)' = TickAboutToInsert(o) /\ TickAboutToInsert(o) \in {0, 1}
      BY <1>7, <1>8, <1>10 DEF Drop
    <2> QED BY <1>1, <2>1, <2>2, LoadFalls
  <1> QED BY <1>2, <1>5, <1>6, <1>9, <1>10

\* Steps after which no job is pending that was not so before, and no handler or tick inserts.
LEMMA QuietLoad ==
    ASSUME OverrunIsBounded,
           \A o \in Owners : OrdinaryPending(o)' \subseteq OrdinaryPending(o),
           request' = request \/ \A h \in Requests : request'[h].pc # "insert",
           ticker' = ticker \/ ticker'.pc # "insert"
    PROVE  OverrunIsBounded'
  <1> SUFFICES ASSUME NEW o \in Owners PROVE Load(o)' <= Most
    BY DEF OverrunIsBounded, Load, Most
  <1>1. Load(o) <= Most
    BY DEF OverrunIsBounded, Load, Most
  <1>2. AboutToInsert(o)' \subseteq AboutToInsert(o)
    BY DEF AboutToInsert
  <1>3. TickAboutToInsert(o)' <= TickAboutToInsert(o)
    BY DEF TickAboutToInsert
  <1> QED BY <1>1, <1>2, <1>3, LoadFalls

\* The panel's own tasks.
LEMMA BackgroundLoad ==
    ASSUME Inv, OverrunIsBounded, AccountStep \/ PlanStep \/ MonitorStep \/ TickStep
    PROVE  OverrunIsBounded'
  <1>1. TypeOK
    BY DEF Inv
  <1>2. ASSUME UNCHANGED row PROVE \A o \in Owners : OrdinaryPending(o)' = OrdinaryPending(o)
    BY <1>2 DEF OrdinaryPending, Pending, Owner
  <1>3. CASE AccountStep \/ PlanStep \/ MonitorReads \/ MonitorEnds
    <2>1. UNCHANGED <<row, request, ticker>>
      BY <1>3 DEF AccountStep, SetEnabled, PlanStep, SavePlan, DeletePlan, PlanFallsDue,
                  MonitorReads, MonitorEnds
    <2> QED BY <1>2, <2>1, QuietLoad
  <1>4. ASSUME NEW j \in Jobs, NEW a \in Apps, MonitorAlert(j, a) PROVE OverrunIsBounded'
    <2>1. /\ "monitor_alert" \in Kinds /\ monitor.now \in Nat /\ ~InUse(j)
          /\ row' = [row EXCEPT ![j] = NewRow("monitor_alert", a, monitor.now)]
          /\ UNCHANGED <<request, ticker>>
      BY <1>1, <1>4 DEF MonitorAlert, TypeOK
    <2>2. \A o \in Owners : OrdinaryPending(o)' = OrdinaryPending(o)
      BY <1>1, <2>1, InsertedLoad
    <2> QED BY <2>1, <2>2, QuietLoad
  <1>5. CASE TickRead \/ TickGivesUp \/ TickAdvance \/ TickFails \/ \E p \in Plans : TickPending(p)
    <2>1. UNCHANGED <<row, request>>
      BY <1>5 DEF TickRead, TickGivesUp, TickAdvance, TickFails, TickPending
    <2>2. ticker'.pc # "insert"
      <3>1. ASSUME NEW p \in Plans, TickPending(p) PROVE ticker'.pc \in {"advance", "count"}
        BY <1>1, <3>1 DEF TickPending, TypeOK
      <3>2. CASE TickRead
        BY <3>2 DEF TickRead, IdleTicker
      <3>3. CASE TickAdvance
        BY <3>3 DEF TickAdvance, IdleTicker
      <3>4. CASE TickGivesUp \/ TickFails
        BY <3>4 DEF TickGivesUp, TickFails, IdleTicker
      <3> QED BY <1>5, <3>1, <3>2, <3>3, <3>4
    <2> QED BY <1>2, <2>1, <2>2, QuietLoad
  <1>6. CASE TickCount
    <2> SUFFICES ASSUME NEW o \in Owners PROVE Load(o)' <= Most
      BY DEF OverrunIsBounded, Load, Most
    <2>1. Load(o) <= Most
      BY DEF OverrunIsBounded, Load, Most
    <2>2. /\ Cardinality(Pending(OwnerOf[AppOf[ticker.at]])) < PendingLimit
          /\ UNCHANGED <<row, request>>
          /\ ticker' = [ticker EXCEPT !.pc = "insert", !.created = clock']
      BY <1>6 DEF TickCount, HasRoom
    <2>3. ticker'.at = ticker.at
      BY <1>1, <2>2 DEF TypeOK
    <2>4. CASE OwnerOf[AppOf[ticker.at]] = o
      BY <2>2, <2>4, LoadCounted
    <2>5. CASE OwnerOf[AppOf[ticker.at]] # o
      <3>1. TickAboutToInsert(o)' = 0 /\ TickAboutToInsert(o) = 0
        BY <2>3, <2>5 DEF TickAboutToInsert
      <3>2. AboutToInsert(o)' = AboutToInsert(o)
        BY <2>2 DEF AboutToInsert
      <3>3. OrdinaryPending(o)' = OrdinaryPending(o)
        BY <1>2, <2>2
      <3> QED BY <2>1, <3>1, <3>2, <3>3, LoadFalls
    <2> QED BY <2>4, <2>5
  <1>7. ASSUME NEW j \in Jobs, TickInsert(j) PROVE OverrunIsBounded'
    <2> SUFFICES ASSUME NEW o \in Owners PROVE Load(o)' <= Most
      BY DEF OverrunIsBounded, Load, Most
    <2> DEFINE a == AppOf[ticker.at]
               t == ticker.created
    <2>1. Load(o) <= Most
      BY DEF OverrunIsBounded, Load, Most
    <2>2. /\ ticker.pc = "insert" /\ "full_backup" \in Kinds /\ a \in Apps /\ t \in Nat
          /\ ~InUse(j) /\ row' = [row EXCEPT ![j] = NewRow("full_backup", a, t)]
          /\ ticker' = [ticker EXCEPT !.pc = "advance", !.created = 0] /\ UNCHANGED request
      BY <1>1, <1>7, ConstantsAssumption DEF TickInsert, Insert, TypeOK
    <2>3. ticker'.pc = "advance"
      BY <1>1, <2>2 DEF TypeOK
    <2>4. /\ TickAboutToInsert(o)' = 0
          /\ TickAboutToInsert(o) = IF OwnerOf[a] = o THEN 1 ELSE 0
      BY <2>2, <2>3 DEF TickAboutToInsert
    <2>5. AboutToInsert(o)' = AboutToInsert(o)
      BY <2>2 DEF AboutToInsert
    <2> HIDE DEF a, t
    <2>6. OrdinaryPending(o)' = IF OwnerOf[a] = o THEN OrdinaryPending(o) \cup {j}
                                ELSE OrdinaryPending(o)
      <3>1. PICK k \in Kinds : k = "full_backup"
        BY <2>2
      <3>2. k # "monitor_alert" /\ row' = [row EXCEPT ![j] = NewRow(k, a, t)]
        BY <2>2, <3>1
      <3>3. OrdinaryPending(o)' = IF k # "monitor_alert" /\ OwnerOf[a] = o
                                  THEN OrdinaryPending(o) \cup {j} ELSE OrdinaryPending(o)
        <4>1. a \in Apps /\ t \in Nat /\ ~InUse(j)
          BY <2>2
        <4> QED BY <1>1, <3>2, <4>1, InsertedLoad
      <3> QED BY <3>2, <3>3
    <2>7. CASE OwnerOf[a] = o
      BY <2>1, <2>4, <2>5, <2>6, <2>7, LoadMoves
    <2>8. CASE OwnerOf[a] # o
      BY <2>1, <2>4, <2>5, <2>6, <2>8, LoadFalls
    <2> QED BY <2>7, <2>8
  <1> QED BY <1>3, <1>4, <1>5, <1>6, <1>7 DEF MonitorStep, TickStep

\* A worker takes a job that was pending already, and ends one.
LEMMA WorkerLoad ==
    ASSUME Inv, OverrunIsBounded, NEW w \in Workers, WorkerStep(w)
    PROVE  OverrunIsBounded'
  <1>1. UNCHANGED <<request, ticker>>
    BY DEF WorkerStep, Select, MarkRunning, MarkFails, Dispatch, Reply, Timeout, ResultLost
  <1>2. CASE UNCHANGED row
    <2>1. \A o \in Owners : OrdinaryPending(o)' = OrdinaryPending(o)
      BY <1>2 DEF OrdinaryPending, Pending, Owner
    <2> QED BY <1>1, <2>1, QuietLoad
  <1>3. ASSUME NEW j \in Jobs, row[j].status \in {"queued", "running"},
               NEW s \in Statuses \ {"free"}, row' = [row EXCEPT ![j].status = s]
        PROVE  OverrunIsBounded'
    <2>1. \A i \in Jobs :
             /\ row'[i].kind = row[i].kind /\ row'[i].app = row[i].app
             /\ row'[i].status = IF i = j THEN s ELSE row[i].status
      BY <1>3, StatusUpdate DEF Inv, InUse
    <2>2. \A o \in Owners : OrdinaryPending(o)' \subseteq OrdinaryPending(o)
      BY <1>3, <2>1 DEF OrdinaryPending, Pending, Owner
    <2> QED BY <1>1, <2>2, QuietLoad
  <1>4. CASE MarkRunning(w)
    <2>1. /\ worker[w].job \in Jobs /\ row[worker[w].job].status = "queued"
          /\ row' = [row EXCEPT ![worker[w].job].status = "running"]
      BY <1>4, MarkedRow DEF MarkRunning
    <2>2. "running" \in Statuses \ {"free"}
      BY DEF Statuses
    <2> QED BY <1>3, <2>1, <2>2
  <1>5. CASE Reply(w) \/ Timeout(w)
    <2>1. worker[w].job \in Jobs /\ row[worker[w].job].status = "running"
      BY <1>5, EndedRow
    <2>2. PICK s \in {"succeeded", "failed"} : row' = [row EXCEPT ![worker[w].job].status = s]
      BY <1>5 DEF Reply, Timeout
    <2>3. s \in Statuses \ {"free"}
      BY DEF Statuses
    <2> QED BY <1>3, <2>1, <2>2, <2>3
  <1> QED BY <1>2, <1>4, <1>5 DEF WorkerStep, Select, MarkFails, Dispatch, ResultLost

\* A panel that starts finds in its table at most what was pending in it.
LEMMA StartLoad ==
    ASSUME NEW table, table \in [Jobs -> RowType], PanelStarts(table), NEW o \in Owners
    PROVE  /\ OrdinaryPending(o)' \subseteq OrdinaryIn(table, o)
           /\ AboutToInsert(o)' = {} /\ TickAboutToInsert(o)' = 0
  <1>1. \A i \in Jobs :
           /\ row'[i].kind = table[i].kind /\ row'[i].app = table[i].app
           /\ row'[i].status = IF table[i].status = "running" THEN "interrupted"
                               ELSE table[i].status
    BY InterruptUpdate DEF PanelStarts
  <1>2. OrdinaryPending(o)' \subseteq OrdinaryIn(table, o)
    BY <1>1 DEF OrdinaryPending, Pending, Owner, OrdinaryIn
  <1>3. ticker'.pc = "idle" /\ \A h \in Requests : request'[h].pc = "idle"
    BY DEF PanelStarts, IdleTicker, IdleRequest
  <1> QED BY <1>2, <1>3 DEF AboutToInsert, TickAboutToInsert

LEMMA StartBounded ==
    ASSUME NEW table, table \in [Jobs -> RowType], PanelStarts(table),
           \A o \in Owners : Cardinality(OrdinaryIn(table, o)) <= Most
    PROVE  OverrunIsBounded'
  <1> SUFFICES ASSUME NEW o \in Owners PROVE Load(o)' <= Most
    BY DEF OverrunIsBounded, Load, Most
  <1> DEFINE d == Cardinality(OrdinaryPending(o)')
             m == Cardinality(OrdinaryIn(table, o))
  <1>1. /\ OrdinaryPending(o)' \subseteq OrdinaryIn(table, o)
        /\ AboutToInsert(o)' = {} /\ TickAboutToInsert(o)' = 0
    BY StartLoad
  <1>2. IsFiniteSet(OrdinaryIn(table, o))
    BY ConstantsAssumption, FS_Subset DEF OrdinaryIn
  <1>3. d <= m /\ d \in Nat /\ m \in Nat /\ m <= Most
    BY <1>1, <1>2, FS_Subset, FS_CardinalityType
  <1>4. Load(o)' = d + 0 + 0
    BY <1>1, FS_EmptySet DEF Load
  <1>5. Most \in Nat
    BY Summands DEF Most
  <1> HIDE DEF d, m
  <1> QED BY <1>3, <1>4, <1>5

\* What is pending now is within the limit.
LEMMA PendingBounded ==
    ASSUME OverrunIsBounded, NEW o \in Owners
    PROVE  Cardinality(OrdinaryIn(row, o)) <= Most
  <1> DEFINE a == Cardinality(OrdinaryPending(o))
             b == Cardinality(AboutToInsert(o))
             c == TickAboutToInsert(o)
  <1>1. /\ a \in Nat /\ b \in Nat /\ c \in {0, 1} /\ OrdinaryPending(o) = OrdinaryIn(row, o)
        /\ Most \in Nat
    BY Summands DEF Most
  <1>2. a + b + c <= Most
    BY DEF OverrunIsBounded, Most
  <1>3. a <= Most
    <2> HIDE DEF a, b, c
    <2> QED BY <1>1, <1>2
  <1> QED BY <1>1, <1>3

\* Agent, restarts and releases.
LEMMA OtherLoad ==
    ASSUME Inv, OverrunIsBounded, SavedBounded, AgentStep \/ FaultStep \/ UpdaterStep
    PROVE  OverrunIsBounded'
  <1>1. row \in [Jobs -> RowType] /\ saved.row \in [Jobs -> RowType]
    BY DEF Inv, TypeOK
  <1>2. CASE AgentStep \/ AgentRestart \/ UpdateBegins \/ UpdateCommits
    <2>1. UNCHANGED <<row, request, ticker>>
      BY <1>2 DEF AgentStep, AgentLock, AgentFinish, AgentRestart, UpdateBegins, UpdateCommits,
                  panelVars
    <2>2. \A o \in Owners : OrdinaryPending(o)' = OrdinaryPending(o)
      BY <2>1 DEF OrdinaryPending, Pending, Owner
    <2> QED BY <2>1, <2>2, QuietLoad
  <1>3. CASE PanelRestart \/ UpdateStops
    <2>1. PanelStarts(row)
      BY <1>3 DEF PanelRestart, UpdateStops
    <2> QED BY <1>1, <2>1, PendingBounded, StartBounded
  <1>4. CASE UpdateRollsBack
    <2>1. PanelStarts(saved.row)
      BY <1>4 DEF UpdateRollsBack
    <2> QED BY <1>1, <2>1, StartBounded DEF SavedBounded
  <1> QED BY <1>2, <1>3, <1>4 DEF FaultStep, UpdaterStep

\* The snapshot.
LEMMA EmptySnapshot ==
    ASSUME NEW o PROVE Cardinality(OrdinaryIn(NoSnapshot.row, o)) <= Most
  <1>1. OrdinaryIn(NoSnapshot.row, o) = {}
    BY DEF OrdinaryIn, NoSnapshot, FreeRow
  <1>2. Most \in Nat
    BY Summands DEF Most
  <1> QED BY <1>1, <1>2, FS_EmptySet

LEMMA SnapshotLoad ==
    ASSUME Inv, OverrunIsBounded, SavedBounded, Next PROVE SavedBounded'
  <1>1. CASE UNCHANGED saved
    BY <1>1 DEF SavedBounded, OrdinaryIn, Most
  <1>2. CASE UpdateStops
    <2>1. saved'.row = row
      BY <1>2 DEF UpdateStops
    <2> QED BY <2>1, PendingBounded DEF SavedBounded, OrdinaryIn, Most
  <1>3. CASE UpdateCommits \/ UpdateRollsBack
    <2>1. saved' = NoSnapshot
      BY <1>3 DEF UpdateCommits, UpdateRollsBack
    <2> QED BY <2>1, EmptySnapshot DEF SavedBounded, OrdinaryIn, Most, NoSnapshot
  <1>4. UNCHANGED saved \/ UpdateStops \/ UpdateCommits \/ UpdateRollsBack
    BY DEF Next, RequestStep, Queue, Retry, InsertJob, Drop, AccountStep,
           SetEnabled, PlanStep, SavePlan, DeletePlan, PlanFallsDue, MonitorStep,
           MonitorReads, MonitorAlert, MonitorEnds, TickStep, TickRead, TickPending,
           TickCount, TickGivesUp, TickInsert, TickAdvance, TickFails, WorkerStep,
           Select, MarkRunning, MarkFails, Dispatch, Reply, Timeout, ResultLost,
           AgentStep, AgentLock, AgentFinish, FaultStep, AgentRestart, PanelRestart,
           UpdaterStep, UpdateBegins, boundVars, updaterVars
  <1> QED BY <1>1, <1>2, <1>3, <1>4

LEMMA InitLoad == Init => OverrunIsBounded /\ SavedBounded
  <1> SUFFICES ASSUME Init, NEW o \in Owners
               PROVE  Load(o) <= Most /\ Cardinality(OrdinaryIn(saved.row, o)) <= Most
    BY DEF OverrunIsBounded, SavedBounded, Load, Most
  <1>1. OrdinaryPending(o) = {} /\ AboutToInsert(o) = {} /\ TickAboutToInsert(o) = 0
    BY DEF Init, OrdinaryPending, Pending, AboutToInsert, TickAboutToInsert, FreeRow,
           IdleRequest, IdleTicker
  <1>2. Load(o) = 0 /\ Most \in Nat
    BY <1>1, FS_EmptySet, Summands DEF Load, Most
  <1>3. Cardinality(OrdinaryIn(saved.row, o)) <= Most
    BY EmptySnapshot DEF Init
  <1> QED BY <1>2, <1>3

LEMMA StepLoad ==
    Inv /\ OverrunIsBounded /\ SavedBounded /\ [Next]_vars => (OverrunIsBounded /\ SavedBounded)'
  <1>1. CASE UNCHANGED vars
    BY <1>1 DEF vars, panelVars, boundVars, updaterVars, OverrunIsBounded, SavedBounded,
                OrdinaryIn, OrdinaryPending, Pending, Owner, AboutToInsert, TickAboutToInsert, Most
  <1>2. CASE Next
    BY <1>2, RequestLoad, BackgroundLoad, WorkerLoad, OtherLoad, SnapshotLoad DEF Next
  <1> QED BY <1>1, <1>2

\* Handlers and the ticker that count before others insert can overrun the pending limit of an
\* account, by no more than the number of handlers.
THEOREM OverrunStaysBounded == Spec => []OverrunIsBounded
  <1> QED BY InitLoad, StepLoad, Invariance, PTL DEF Spec
=============================================================================
