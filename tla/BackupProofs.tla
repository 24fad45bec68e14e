---------------------------- MODULE BackupProofs ----------------------------
(***************************************************************************)
(* Proofs about Backup, for every set of archives, of writes and of        *)
(* writers, every retention and every combination of faults.               *)
(***************************************************************************)
EXTENDS Backup, FiniteSetTheorems, TLAPS

-----------------------------------------------------------------------------
(* The inductive invariant. *)

\* Between the end of create and the answer of a restore.
Swapping == {"inspect", "disable", "stop", "clear", "extract", "load", "resume"}
Settling == {"record", "send", "settle"}

\* An operation under way has drawn its identifier; only a restore swaps data, and its
\* recovery archive belongs to no plan.
Course ==
    /\ op.at \notin {"idle", "answer"} => op.id \in drawn /\ op.verb \in {"create", "restore"}
    /\ op.at \in Swapping => op.verb = "restore"
    /\ op.verb = "restore" => ~op.plan
    /\ op.at \notin {"start", "resume", "answer"} => op.result = "ok"

\* While an archive is read with quiesce, the application stands still.
Quiet ==
    /\ SameMoment
    /\ ~op.copy.torn
    /\ op.at \in {"tar", "dump"} /\ op.quiesce => "app" \notin running
    /\ op.at = "dump" /\ op.quiesce => op.rows = data.tables

\* An entry whose deletion has not begun has its archive.
InPlace ==
    /\ AnsweredIsKept
    /\ acked \cap doomed = {}
    /\ \A b \in Ids \ doomed :
         reg.list[b] # None \/ saved.list[b] # None => disk[b] # None
    /\ op.at \in Settling \cup Swapping => reg.list[op.id] # None /\ disk[op.id] # None
    /\ op.at = "answer" /\ op.verb \in {"create", "restore"} /\ op.result = "ok" =>
         /\ op.id \in Ids
         /\ op.id \notin doomed => reg.list[op.id] # None /\ disk[op.id] # None

\* What the archive being made, and then the recovery archive, holds of the data.
Covered ==
    /\ op.at \in {"send", "settle"} \cup Swapping => saved.list[op.id] # None
    /\ op.at \in {"dump", "start", "move"} /\ op.result = "ok" =>
         data.files \subseteq op.copy.files \cup since
    /\ op.at \in {"start", "move"} /\ op.result = "ok" =>
         data.tables \subseteq op.copy.tables \cup since
    /\ op.at \in Settling \cup {"inspect", "disable", "stop", "clear"} =>
         data.files \subseteq disk[op.id].files \cup since
    /\ op.at \in Settling \cup {"inspect", "disable", "stop", "clear", "extract", "load"} =>
         data.tables \subseteq disk[op.id].tables \cup since

\* Which writers are stopped, and what is remembered of them.
Remembered ==
    /\ op.at \in {"pause", "move", "inspect", "disable"} \cup Settling =>
         op.before \subseteq running
    /\ op.at \in {"tar", "dump", "start"} =>
         op.before \ (IF op.stopped THEN {"app"} ELSE {}) \subseteq running
    /\ op.at \in {"pause", "tar", "dump", "start", "move", "inspect", "disable"} \cup Settling =>
         ("sftp" \in op.before => reg.access)
    /\ op.at \in Swapping \ {"inspect"} =>
         /\ op.before \cap Containers \subseteq op.was
         /\ "sftp" \in op.before => op.access
    /\ WritersResume

\* How far the data are those of the archive.
Swapped ==
    /\ op.at \in {"disable", "stop"} => running \cap Containers \subseteq op.was
    /\ op.at \in {"clear", "extract", "load"} => "app" \notin running
    /\ op.at = "load" => op.staged.files \subseteq data.files
    /\ op.at = "resume" /\ op.result = "ok" =>
         /\ "app" \notin running
         /\ op.staged.files \subseteq data.files
         /\ op.staged.tables = data.tables
    /\ RestoreIsWhole

\* The archive made last is the newest.
Dated ==
    /\ \A b \in Ids : /\ reg.list[b] # None => reg.list[b].created <= Cardinality(drawn)
                      /\ saved.list[b] # None => saved.list[b].created <= Cardinality(drawn)
    /\ op.at \in Settling => /\ reg.list[op.id].created = Cardinality(drawn)
                             /\ reg.list[op.id].plan = op.plan

Inv == TypeOK /\ Course /\ Quiet /\ InPlace /\ Covered /\ Remembered /\ Swapped /\ Dated

-----------------------------------------------------------------------------
(* Types. *)

LEMMA Bounded ==
    ASSUME NEW S, S \subseteq Ids
    PROVE  /\ IsFiniteSet(S) /\ Cardinality(S) \in 0 .. Cardinality(Ids)
           /\ \A b \in Ids \ S : Cardinality(S \cup {b}) = Cardinality(S) + 1
  <1>1. IsFiniteSet(S) /\ Cardinality(S) <= Cardinality(Ids)
    BY ConstantsAssumption, FS_Subset
  <1>2. Cardinality(S) \in Nat /\ Cardinality(Ids) \in Nat
    BY <1>1, ConstantsAssumption, FS_CardinalityType
  <1> QED BY <1>1, <1>2, FS_AddElement

LEMMA IdleType == Idle \in Operation
  BY DEF Idle, Blank, Operation, Archive, Steps, Results, Access

LEMMA AdmittedType == TypeOK => Admitted \subseteq Writers /\ Admitted \subseteq running
  BY DEF TypeOK, Admitted

LEMMA AnsweredAtOnce ==
    ASSUME TypeOK, NEW v \in {"create", "restore", "other"}, NEW i \in Ids \cup {None},
           NEW x \in Results, AtOnce(v, i, x)
    PROVE  /\ op' \in Operation
           /\ op'.at = "answer" /\ op'.verb = v /\ op'.id = i /\ op'.before = Admitted
           /\ op'.result = x /\ op'.plan = FALSE /\ op'.copy = Blank /\ op'.broke = {}
  <1>1. Admitted \subseteq Writers
    BY AdmittedType
  <1>2. op' = [Idle EXCEPT !.at = "answer", !.verb = v, !.id = i, !.result = x,
                           !.before = Admitted]
    BY DEF AtOnce
  <1> HIDE DEF Admitted
  <1>3. op' \in Operation
    BY <1>1, <1>2, IdleType DEF Operation, Steps
  <1>4. Idle.plan = FALSE /\ Idle.copy = Blank /\ Idle.broke = {}
    BY DEF Idle
  <1> QED BY <1>2, <1>3, <1>4, IdleType DEF Operation

\* An operation begins.
LEMMA Begun ==
    ASSUME TypeOK, NEW b \in Ids,
           \/ \E plan, quiesce, remote \in BOOLEAN : CreateBegin(b, plan, quiesce, remote)
           \/ \E t \in Ids : RestoreBegin(t, b)
    PROVE  /\ op' \in Operation
           /\ op'.at = "pause" /\ op'.verb \in {"create", "restore"} /\ op'.id = b
           /\ op'.verb = "restore" => op'.plan = FALSE
           /\ op'.copy = Blank /\ op'.result = "ok" /\ op'.before = Admitted
           /\ b \notin drawn /\ drawn' = drawn \cup {b}
           /\ UNCHANGED <<running, data, disk, reg, saved, since, doomed, acked>>
  <1>1. Admitted \subseteq Writers
    BY AdmittedType
  <1>2. Idle.plan = FALSE /\ Idle.copy = Blank /\ Idle.result = "ok"
    BY DEF Idle
  <1>3. CASE \E plan, quiesce, remote \in BOOLEAN : CreateBegin(b, plan, quiesce, remote)
    <2>1. PICK plan, quiesce, remote \in BOOLEAN : CreateBegin(b, plan, quiesce, remote)
      BY <1>3
    <2>2. op' = [Idle EXCEPT !.at = "pause", !.verb = "create", !.id = b, !.plan = plan,
                             !.quiesce = quiesce, !.remote = remote, !.before = Admitted]
      BY <2>1 DEF CreateBegin
    <2>3. op' \in Operation
      BY <1>1, <2>2, IdleType DEF Operation, Steps
    <2>4. /\ op'.at = "pause" /\ op'.verb = "create" /\ op'.id = b
          /\ op'.copy = Blank /\ op'.result = "ok" /\ op'.before = Admitted
      BY <1>2, <2>2, IdleType DEF Operation
    <2> QED BY <2>1, <2>3, <2>4 DEF CreateBegin, history
  <1>4. CASE \E t \in Ids : RestoreBegin(t, b)
    <2>1. PICK t \in Ids : RestoreBegin(t, b)
      BY <1>4
    <2>2. op' = [Idle EXCEPT !.at = "pause", !.verb = "restore", !.id = b, !.quiesce = TRUE,
                             !.staged = disk[t], !.before = Admitted]
      BY <2>1 DEF RestoreBegin
    <2>3. disk[t] \in Archive
      BY <2>1 DEF RestoreBegin, TypeOK
    <2>4. op' \in Operation
      BY <1>1, <2>2, <2>3, IdleType DEF Operation, Steps
    <2>5. /\ op'.at = "pause" /\ op'.verb = "restore" /\ op'.id = b /\ op'.plan = FALSE
          /\ op'.copy = Blank /\ op'.result = "ok" /\ op'.before = Admitted
      BY <1>2, <2>2, IdleType DEF Operation
    <2> QED BY <2>1, <2>4, <2>5 DEF RestoreBegin, history
  <1> QED BY <1>3, <1>4

\* The three ways in which the registry is changed.
LEMMA RegistryType ==
    ASSUME reg \in Registry
    PROVE  /\ \A a \in Access : [reg EXCEPT !.access = a] \in Registry
           /\ \A b \in Ids, e \in Entry \cup {None} : [reg EXCEPT !.list[b] = e] \in Registry
           /\ \A gone \in SUBSET Ids :
                [reg EXCEPT !.list = [b \in Ids |-> IF b \in gone THEN None ELSE @[b]]] \in Registry
  <1>1. reg.list \in [Ids -> Entry \cup {None}] /\ reg.access \in Access
    BY DEF Registry
  <1>2. ASSUME NEW a \in Access PROVE [reg EXCEPT !.access = a] \in Registry
    BY DEF Registry
  <1>3. ASSUME NEW b \in Ids, NEW e \in Entry \cup {None}
        PROVE  [reg EXCEPT !.list[b] = e] \in Registry
    BY <1>1 DEF Registry
  <1>4. ASSUME NEW gone \in SUBSET Ids
        PROVE  [reg EXCEPT !.list = [b \in Ids |-> IF b \in gone THEN None ELSE @[b]]] \in Registry
    <2> DEFINE l == [b \in Ids |-> IF b \in gone THEN None ELSE reg.list[b]]
    <2>1. l \in [Ids -> Entry \cup {None}]
      BY <1>1
    <2> HIDE DEF l
    <2>2. [reg EXCEPT !.list = l] \in Registry
      BY <2>1 DEF Registry
    <2> QED BY <2>2 DEF l
  <1> QED BY <1>2, <1>3, <1>4

LEMMA EntryType ==
    ASSUME TypeOK, NEW b \in Ids, reg.list[b] # None, NEW good \in BOOLEAN
    PROVE  [reg EXCEPT !.list[b].sent = good] \in Registry
  <1>1. reg \in Registry /\ reg.list[b] \in Entry
    BY DEF TypeOK, Registry
  <1>2. [reg.list[b] EXCEPT !.sent = good] \in Entry
    BY <1>1 DEF Entry
  <1>3. [reg EXCEPT !.list[b].sent = good] =
          [reg EXCEPT !.list[b] = [reg.list[b] EXCEPT !.sent = good]]
    OBVIOUS
  <1> QED BY <1>1, <1>2, <1>3, RegistryType

LEMMA AccessType ==
    ASSUME NEW S, S \subseteq Writers PROVE ("sftp" \in S) \in Access
  <1> DEFINE on == "sftp" \in S
  <1>1. on \in BOOLEAN /\ (on => "sftp" \in Writers)
    OBVIOUS
  <1> HIDE DEF on
  <1>2. on \in Access
    BY <1>1 DEF Access
  <1> QED BY <1>2 DEF on

LEMMA InitType == Init => TypeOK
  <1> SUFFICES ASSUME Init PROVE TypeOK
    OBVIOUS
  <1>1. running \subseteq Writers /\ reg = [list |-> [b \in Ids |-> None],
                                          access |-> "sftp" \in running]
    BY DEF Init
  <1>2. ("sftp" \in running) \in Access
    BY <1>1, AccessType
  <1> DEFINE on == "sftp" \in running
  <1> HIDE DEF on
  <1>3. [list |-> [b \in Ids |-> None], access |-> on] \in Registry
    BY <1>2 DEF Registry, on
  <1>4. reg \in Registry
    BY <1>1, <1>3 DEF on
  <1> QED BY <1>4, IdleType DEF Init, TypeOK, Data

\* What retention does, when it removes gone.
Retained(gone) ==
    /\ reg' = [reg EXCEPT !.list = [b \in Ids |-> IF b \in gone THEN None ELSE @[b]]]
    /\ disk' = [b \in Ids |-> IF b \in gone THEN None ELSE disk[b]]
    /\ doomed' = doomed \cup gone /\ acked' = acked \ gone
    /\ Goto(IF op.verb = "restore" THEN "inspect" ELSE "answer")

LEMMA StepType == TypeOK /\ Course /\ InPlace /\ [Next]_vars => TypeOK'
  <1> SUFFICES ASSUME TypeOK /\ Course /\ InPlace, [Next]_vars PROVE TypeOK'
    OBVIOUS
  <1>1. ASSUME NEW w \in Writes, AppWrite(w)
        PROVE  TypeOK'
    BY <1>1 DEF AppWrite, Goto, Fail, history, TypeOK, Operation, Data, Steps, Results,
       Registry, Archive
  <1>2. ASSUME NEW w \in Writes, FileWrite(w)
        PROVE  TypeOK'
    BY <1>2 DEF FileWrite, Goto, Fail, history, TypeOK, Operation, Data, Steps, Results,
       Registry, Archive
  <1>3. ASSUME NEW w \in Writers, Switch(w)
        PROVE  TypeOK'
    <2>1. running' \subseteq Writers
      BY <1>3 DEF Switch, TypeOK
    <2>2. ("sftp" \in running') \in Access
      BY <2>1, AccessType
    <2> DEFINE on == "sftp" \in running'
    <2> HIDE DEF on
    <2>4. reg' \in {reg, [reg EXCEPT !.access = on]}
      BY <1>3 DEF Switch, on
    <2>3. reg' \in Registry
      BY <2>2, <2>4, RegistryType DEF TypeOK, on
    <2> QED BY <1>3, <2>1, <2>3 DEF Switch, TypeOK, history
  <1>4. ASSUME NEW b \in Ids, NEW plan \in BOOLEAN, NEW quiesce \in BOOLEAN,
              NEW remote \in BOOLEAN, CreateBegin(b, plan, quiesce, remote)
        PROVE  TypeOK'
    BY <1>4, Begun DEF TypeOK
  <1>5. ASSUME NEW b \in Ids, CreateAgain(b)
        PROVE  TypeOK'
    BY <1>5, AnsweredAtOnce DEF CreateAgain, Results, TypeOK, history
  <1>6. ASSUME NEW b \in Ids, Delete(b)
        PROVE  TypeOK'
    <2>1. op' \in Operation
      BY <1>6, AnsweredAtOnce DEF Delete, Results
    <2>2. reg' \in Registry
      BY <1>6, RegistryType DEF Delete, TypeOK
    <2>3. disk' \in [Ids -> Archive \cup {None}]
      BY <1>6 DEF Delete, TypeOK
    <2> QED BY <1>6, <2>1, <2>2, <2>3 DEF Delete, TypeOK
  <1>7. ASSUME NEW b \in Ids, Deliver(b)
        PROVE  TypeOK'
    <2>1. op' \in Operation
      BY <1>7, AnsweredAtOnce DEF Deliver, Results
    <2>2. reg' \in Registry
      BY <1>7, EntryType DEF Deliver, Listed
    <2> QED BY <1>7, <2>1, <2>2 DEF Deliver, TypeOK, history
  <1>8. ASSUME NEW b \in Ids, RestoreRefused(b)
        PROVE  TypeOK'
    BY <1>8, AnsweredAtOnce DEF RestoreRefused, Results, TypeOK, history
  <1>9. ASSUME NEW b \in Ids, NEW r \in Ids, RestoreBegin(b, r)
        PROVE  TypeOK'
    BY <1>9, Begun DEF TypeOK
  <1>10. CASE Pause
    <2>1. PICK stop \in BOOLEAN : /\ stop <=> op.quiesce /\ "app" \in running
                                  /\ op' = [op EXCEPT !.at = "tar", !.stopped = stop]
      BY <1>10 DEF Pause
    <2>2. op' \in Operation
      BY <2>1 DEF TypeOK, Operation, Steps
    <2> QED BY <1>10, <2>2 DEF Pause, TypeOK, history
  <1>11. CASE PauseFails
    <2>1. PICK down \in SUBSET {"app"} :
            /\ down \subseteq running /\ running' = running \ down
            /\ op' = [op EXCEPT !.at = "answer", !.result = "error", !.broke = down]
      BY <1>11 DEF PauseFails
    <2>2. op' \in Operation
      BY <2>1 DEF TypeOK, Operation, Steps, Results
    <2> QED BY <1>11, <2>1, <2>2 DEF PauseFails, TypeOK, history
  <1>12. CASE Tar
    BY <1>12 DEF Tar, Goto, Fail, history, TypeOK, Operation, Data, Steps, Results,
       Registry, Archive
  <1>13. CASE Dump
    BY <1>13 DEF Dump, Goto, Fail, history, TypeOK, Operation, Data, Steps, Results,
       Registry, Archive
  <1>14. CASE BuildFails
    BY <1>14 DEF BuildFails, Goto, Fail, history, TypeOK, Operation, Data, Steps, Results,
       Registry, Archive
  <1>15. CASE Start
    <2>1. op' \in Operation
      BY <1>15 DEF Start, Goto, TypeOK, Operation, Steps
    <2> QED BY <1>15, <2>1, ConstantsAssumption DEF Start, TypeOK, history
  <1>16. CASE StartFails
    <2>1. op' \in Operation
      BY <1>16, ConstantsAssumption DEF StartFails, TypeOK, Operation, Steps, Results
    <2> QED BY <1>16, <2>1 DEF StartFails, TypeOK, history
  <1>17. CASE Move
    <2>1. op.id \in Ids /\ op.copy \in Archive /\ op.plan \in BOOLEAN
      BY <1>17 DEF Move, Course, TypeOK, Operation
    <2>2. [plan |-> op.plan, created |-> Cardinality(drawn), sent |-> FALSE] \in Entry
      BY <2>1, Bounded DEF TypeOK, Entry
    <2>3. reg' \in Registry
      BY <1>17, <2>1, <2>2, RegistryType DEF Move, TypeOK
    <2>4. op' \in Operation
      BY <1>17 DEF Move, Blank, TypeOK, Operation, Archive, Steps
    <2> QED BY <1>17, <2>1, <2>3, <2>4 DEF Move, TypeOK, history
  <1>18. CASE MoveFails
    BY <1>18 DEF MoveFails, Goto, Fail, history, TypeOK, Operation, Data, Steps, Results,
       Registry, Archive
  <1>19. CASE Record
    BY <1>19 DEF Record, Goto, Fail, history, TypeOK, Operation, Data, Steps, Results,
       Registry, Archive
  <1>20. CASE Send
    <2>1. op.id \in Ids /\ reg.list[op.id] # None
      BY <1>20 DEF Send, Course, InPlace, Settling, TypeOK
    <2>2. reg' \in Registry
      BY <1>20, <2>1, EntryType DEF Send
    <2>3. op' \in Operation
      BY <1>20 DEF Send, Goto, TypeOK, Operation, Steps
    <2> QED BY <1>20, <2>2, <2>3 DEF Send, TypeOK, history
  <1>21. CASE Settle
    <2>1. CASE ~reg.list[op.id].sent
      <3>0. op' = [op EXCEPT !.at = "answer", !.result = "error"]
        BY <1>21, <2>1 DEF Settle, Fail
      <3>1. op' \in Operation
        BY <3>0 DEF TypeOK, Operation, Steps, Results
      <3> QED BY <1>21, <2>1, <3>1 DEF Settle, TypeOK
    <2>2. CASE reg.list[op.id].sent
      <3>1. PICK gone \in SUBSET (IF op.plan THEN Old ELSE {}) : Retained(gone)
        BY <1>21, <2>2 DEF Settle, Retained
      <3>2. gone \subseteq Ids
        BY DEF Old, Planned, Listed
      <3>3. reg' \in Registry
        BY <3>1, <3>2, RegistryType DEF TypeOK, Retained
      <3>4. op' \in Operation
        BY <3>1 DEF Retained, Goto, TypeOK, Operation, Steps
      <3> QED BY <1>21, <3>1, <3>2, <3>3, <3>4 DEF Settle, TypeOK, Retained
    <2> QED BY <2>1, <2>2
  <1>22. CASE RecordFails
    BY <1>22 DEF RecordFails, Goto, Fail, history, TypeOK, Operation, Data, Steps, Results,
       Registry, Archive
  <1>23. CASE Inspect
    BY <1>23 DEF Inspect, Goto, Fail, history, TypeOK, Operation, Data, Steps, Results,
       Registry, Archive
  <1>24. CASE InspectFails
    BY <1>24 DEF InspectFails, Goto, Fail, history, TypeOK, Operation, Data, Steps, Results,
       Registry, Archive
  <1>25. CASE Disable
    <2>1. FALSE \in Access
      BY DEF Access
    <2>2. reg' \in Registry
      BY <1>25, <2>1, RegistryType DEF Disable, TypeOK
    <2> QED BY <1>25, <2>2 DEF Disable, Goto, TypeOK, Operation, Steps, history
  <1>26. CASE DisableFails
    <2>1. FALSE \in Access
      BY DEF Access
    <2>2. reg' \in Registry
      BY <1>26, <2>1, RegistryType DEF DisableFails, TypeOK
    <2> QED BY <1>26, <2>2 DEF DisableFails, TypeOK, Operation, Steps, Results, history
  <1>27. CASE Stop
    BY <1>27 DEF Stop, Goto, Fail, history, TypeOK, Operation, Data, Steps, Results,
       Registry, Archive
  <1>28. CASE StopFails
    BY <1>28 DEF StopFails, Goto, Fail, history, TypeOK, Operation, Data, Steps, Results,
       Registry, Archive
  <1>29. CASE Clear
    BY <1>29 DEF Clear, Goto, Fail, history, TypeOK, Operation, Data, Steps, Results,
       Registry, Archive
  <1>30. CASE Extract
    BY <1>30 DEF Extract, Goto, Fail, history, TypeOK, Operation, Data, Steps, Results,
       Registry, Archive
  <1>31. CASE Load
    BY <1>31 DEF Load, Goto, Fail, history, TypeOK, Operation, Data, Steps, Results,
       Registry, Archive
  <1>32. CASE SwapFails
    <2>1. op' \in Operation
      BY <1>32 DEF SwapFails, TypeOK, Operation, Steps, Results
    <2>2. op.staged.files \subseteq Writes /\ op.staged.tables \subseteq Writes
      BY DEF TypeOK, Operation, Archive
    <2>3. data' \in Data
      BY <1>32, <2>2 DEF SwapFails, TypeOK, Data
    <2> QED BY <1>32, <2>1, <2>3 DEF SwapFails, TypeOK, history
  <1>33. CASE Resume
    <2>1. op' \in Operation
      BY <1>33 DEF Resume, Goto, TypeOK, Operation, Steps
    <2>2. op.access \in Access /\ op.was \subseteq Writers
      BY DEF TypeOK, Operation, Containers
    <2>3. reg' \in Registry
      BY <1>33, <2>2, RegistryType DEF Resume, TypeOK
    <2>4. running' \subseteq Writers
      BY <1>33, <2>2 DEF Resume, TypeOK, Access
    <2> QED BY <1>33, <2>1, <2>3, <2>4 DEF Resume, TypeOK
  <1>34. CASE ResumeFails
    <2>1. op.access \in Access /\ op.was \subseteq Writers
      BY DEF TypeOK, Operation, Containers
    <2>2. PICK down \in SUBSET Writers :
            /\ op' = [op EXCEPT !.at = "answer", !.result = "error", !.broke = down]
            /\ reg' \in {reg, [reg EXCEPT !.access = op.access]}
            /\ \/ running' = running \cup (op.was \ down)
               \/ running' = (running \ {"sftp"}) \cup (op.was \ down)
                               \cup (IF op.access THEN {"sftp"} ELSE {})
      BY <1>34, <2>1 DEF ResumeFails
    <2>3. op' \in Operation
      BY <2>2 DEF TypeOK, Operation, Steps, Results
    <2>4. reg' \in Registry
      BY <2>1, <2>2, RegistryType DEF TypeOK
    <2>5. running' \subseteq Writers
      BY <2>1, <2>2 DEF TypeOK, Access
    <2> QED BY <1>34, <2>3, <2>4, <2>5 DEF ResumeFails, TypeOK
  <1>35. CASE Answer
    <2>1. acked' \subseteq Ids
      BY <1>35 DEF Answer, InPlace, TypeOK, Operation
    <2> QED BY <1>35, <2>1, IdleType DEF Answer, TypeOK
  <1>36. CASE AnswerFails
    BY <1>36, IdleType DEF AnswerFails, TypeOK, history
  <1>37. CASE Crash
    BY <1>37, IdleType DEF Crash, TypeOK, history
  <1>38. CASE UNCHANGED vars
    BY <1>38 DEF vars, Goto, Fail, history, TypeOK, Operation, Data, Steps, Results,
       Registry, Archive
  <1> QED BY <1>1, <1>2, <1>3, <1>4, <1>5, <1>6, <1>7, <1>8, <1>9, <1>10, <1>11, <1>12,
     <1>13, <1>14, <1>15, <1>16, <1>17, <1>18, <1>19, <1>20, <1>21, <1>22, <1>23, <1>24,
     <1>25, <1>26, <1>27, <1>28, <1>29, <1>30, <1>31, <1>32, <1>33, <1>34, <1>35, <1>36,
     <1>37, <1>38 DEF Next

LEMMA StepCourse == TypeOK /\ Course /\ [Next]_vars => Course'
  <1> SUFFICES ASSUME TypeOK /\ Course, [Next]_vars PROVE Course'
    OBVIOUS
  <1>1. ASSUME NEW w \in Writes, AppWrite(w)
        PROVE  Course'
    BY <1>1 DEF AppWrite, Course, Swapping, TypeOK, Operation, Goto, Fail
  <1>2. ASSUME NEW w \in Writes, FileWrite(w)
        PROVE  Course'
    BY <1>2 DEF FileWrite, Course, Swapping, TypeOK, Operation, Goto, Fail
  <1>3. ASSUME NEW w \in Writers, Switch(w)
        PROVE  Course'
    BY <1>3 DEF Switch, Course, Swapping, TypeOK, Operation, Goto, Fail
  <1>4. ASSUME NEW b \in Ids, NEW plan \in BOOLEAN, NEW quiesce \in BOOLEAN,
              NEW remote \in BOOLEAN, CreateBegin(b, plan, quiesce, remote)
        PROVE  Course'
    BY <1>4, Begun DEF Course, Swapping
  <1>5. ASSUME NEW b \in Ids, CreateAgain(b)
        PROVE  Course'
    BY <1>5, AnsweredAtOnce DEF CreateAgain, Course, Results, Swapping
  <1>6. ASSUME NEW b \in Ids, Delete(b)
        PROVE  Course'
    BY <1>6, AnsweredAtOnce DEF Delete, Course, Results, Swapping
  <1>7. ASSUME NEW b \in Ids, Deliver(b)
        PROVE  Course'
    BY <1>7, AnsweredAtOnce DEF Deliver, Course, Results, Swapping
  <1>8. ASSUME NEW b \in Ids, RestoreRefused(b)
        PROVE  Course'
    BY <1>8, AnsweredAtOnce DEF RestoreRefused, Course, Results, Swapping
  <1>9. ASSUME NEW b \in Ids, NEW r \in Ids, RestoreBegin(b, r)
        PROVE  Course'
    BY <1>9, Begun DEF Course, Swapping
  <1>10. CASE Pause
    BY <1>10 DEF Pause, Course, Swapping, TypeOK, Operation, Goto, Fail
  <1>11. CASE PauseFails
    BY <1>11 DEF PauseFails, Course, Swapping, TypeOK, Operation, Goto, Fail
  <1>12. CASE Tar
    BY <1>12 DEF Tar, Course, Swapping, TypeOK, Operation, Goto, Fail
  <1>13. CASE Dump
    BY <1>13 DEF Dump, Course, Swapping, TypeOK, Operation, Goto, Fail
  <1>14. CASE BuildFails
    BY <1>14 DEF BuildFails, Course, Swapping, TypeOK, Operation, Goto, Fail
  <1>15. CASE Start
    BY <1>15 DEF Start, Course, Swapping, TypeOK, Operation, Goto, Fail
  <1>16. CASE StartFails
    BY <1>16 DEF StartFails, Course, Swapping, TypeOK, Operation, Goto, Fail
  <1>17. CASE Move
    BY <1>17 DEF Move, Course, Swapping, TypeOK, Operation, Goto, Fail
  <1>18. CASE MoveFails
    BY <1>18 DEF MoveFails, Course, Swapping, TypeOK, Operation, Goto, Fail
  <1>19. CASE Record
    BY <1>19 DEF Record, Course, Swapping, TypeOK, Operation, Goto, Fail
  <1>20. CASE Send
    BY <1>20 DEF Send, Course, Swapping, TypeOK, Operation, Goto, Fail
  <1>21. CASE Settle
    <2>1. op'.at \in {"inspect", "answer"} /\ op'.verb = op.verb /\ op'.id = op.id
          /\ op'.plan = op.plan /\ (op'.at = "inspect" => op.verb = "restore")
          /\ (op'.at = "inspect" => op'.result = op.result)
      BY <1>21 DEF Settle, Goto, Fail, TypeOK, Operation
    <2> QED BY <1>21, <2>1 DEF Settle, Course, Swapping
  <1>22. CASE RecordFails
    BY <1>22 DEF RecordFails, Course, Swapping, TypeOK, Operation, Goto, Fail
  <1>23. CASE Inspect
    BY <1>23 DEF Inspect, Course, Swapping, TypeOK, Operation, Goto, Fail
  <1>24. CASE InspectFails
    BY <1>24 DEF InspectFails, Course, Swapping, TypeOK, Operation, Goto, Fail
  <1>25. CASE Disable
    BY <1>25 DEF Disable, Course, Swapping, TypeOK, Operation, Goto, Fail
  <1>26. CASE DisableFails
    BY <1>26 DEF DisableFails, Course, Swapping, TypeOK, Operation, Goto, Fail
  <1>27. CASE Stop
    BY <1>27 DEF Stop, Course, Swapping, TypeOK, Operation, Goto, Fail
  <1>28. CASE StopFails
    BY <1>28 DEF StopFails, Course, Swapping, TypeOK, Operation, Goto, Fail
  <1>29. CASE Clear
    BY <1>29 DEF Clear, Course, Swapping, TypeOK, Operation, Goto, Fail
  <1>30. CASE Extract
    BY <1>30 DEF Extract, Course, Swapping, TypeOK, Operation, Goto, Fail
  <1>31. CASE Load
    BY <1>31 DEF Load, Course, Swapping, TypeOK, Operation, Goto, Fail
  <1>32. CASE SwapFails
    BY <1>32 DEF SwapFails, Course, Swapping, TypeOK, Operation, Goto, Fail
  <1>33. CASE Resume
    BY <1>33 DEF Resume, Course, Swapping, TypeOK, Operation, Goto, Fail
  <1>34. CASE ResumeFails
    BY <1>34 DEF ResumeFails, Course, Swapping, TypeOK, Operation, Goto, Fail
  <1>35. CASE Answer
    BY <1>35 DEF Answer, Idle, Course, Swapping
  <1>36. CASE AnswerFails
    BY <1>36 DEF AnswerFails, Idle, Course, Swapping
  <1>37. CASE Crash
    BY <1>37 DEF Crash, Idle, Course, Swapping
  <1>38. CASE UNCHANGED vars
    BY <1>38 DEF vars, Course, Swapping, TypeOK, Operation, Goto, Fail
  <1> QED BY <1>1, <1>2, <1>3, <1>4, <1>5, <1>6, <1>7, <1>8, <1>9, <1>10, <1>11, <1>12,
     <1>13, <1>14, <1>15, <1>16, <1>17, <1>18, <1>19, <1>20, <1>21, <1>22, <1>23, <1>24,
     <1>25, <1>26, <1>27, <1>28, <1>29, <1>30, <1>31, <1>32, <1>33, <1>34, <1>35, <1>36,
     <1>37, <1>38 DEF Next

\* A delivery changes an entry only in one field.
LEMMA SentOnly ==
    ASSUME TypeOK, NEW b \in Ids, reg.list[b] # None, NEW good \in BOOLEAN,
           reg' = [reg EXCEPT !.list[b].sent = good]
    PROVE  /\ reg'.access = reg.access
           /\ \A c \in Ids : /\ reg'.list[c] # None <=> reg.list[c] # None
                             /\ reg'.list[c].created = reg.list[c].created
                             /\ reg'.list[c].plan = reg.list[c].plan
  <1>1. reg.list[b] \in Entry
    BY DEF TypeOK, Registry
  <1>2. /\ reg'.access = reg.access
        /\ reg'.list[b] = [reg.list[b] EXCEPT !.sent = good]
        /\ \A c \in Ids \ {b} : reg'.list[c] = reg.list[c]
    BY DEF TypeOK, Registry
  <1>3. [reg.list[b] EXCEPT !.sent = good] \in Entry
    BY <1>1 DEF Entry
  <1> QED BY <1>1, <1>2, <1>3, NullAssumption DEF Entry

\* The operations that are done at once.
LEMMA Immediate ==
    ASSUME TypeOK, NEW b \in Ids,
           CreateAgain(b) \/ Delete(b) \/ Deliver(b) \/ RestoreRefused(b)
    PROVE  /\ op.at = "idle" /\ op'.at = "answer" /\ ~op'.copy.torn /\ op'.plan = FALSE
           /\ op'.before = Admitted /\ op'.broke = {}
           /\ op'.verb = "restore" => op'.result = "error"
           /\ op'.verb = "create" => op'.id = b /\ reg.list[b] # None /\ reg' = reg
           /\ reg'.access = reg.access
           /\ \A c \in Ids : disk'[c] # None => disk'[c] = disk[c]
           /\ \A c \in Ids : reg'.list[c] # None =>
                 reg.list[c] # None /\ reg'.list[c].created = reg.list[c].created
           /\ UNCHANGED <<running, data, saved, drawn, since>>
  <1>0. ~Blank.torn
    BY DEF Blank
  <1>1. CASE CreateAgain(b)
    BY <1>0, <1>1, AnsweredAtOnce DEF CreateAgain, Results, Listed, history
  <1>2. CASE Delete(b)
    <2>1. PICK x \in {"ok", "error"} : AtOnce("other", b, x)
      BY <1>2 DEF Delete
    <2>2. /\ op'.at = "answer" /\ op'.copy = Blank /\ op'.plan = FALSE /\ op'.verb = "other"
          /\ op'.before = Admitted /\ op'.broke = {}
      BY <2>1, AnsweredAtOnce DEF Results
    <2>3. /\ disk' \in {disk, [disk EXCEPT ![b] = None]}
          /\ reg' \in {reg, [reg EXCEPT !.list[b] = None]}
          /\ op.at = "idle"
          /\ UNCHANGED <<running, data, saved, drawn, since>>
      BY <1>2 DEF Delete
    <2>4. /\ \A c \in Ids : disk'[c] # None => disk'[c] = disk[c]
          /\ reg'.access = reg.access
          /\ \A c \in Ids : reg'.list[c] # None => reg'.list[c] = reg.list[c]
      BY <2>3 DEF TypeOK, Registry
    <2> QED BY <1>0, <2>2, <2>3, <2>4
  <1>3. CASE Deliver(b)
    <2>1. PICK x \in {"ok", "error"}, good \in BOOLEAN :
             AtOnce("other", b, x) /\ reg' = [reg EXCEPT !.list[b].sent = good]
      BY <1>3 DEF Deliver
    <2>2. /\ op'.at = "answer" /\ op'.copy = Blank /\ op'.plan = FALSE /\ op'.verb = "other"
          /\ op'.before = Admitted /\ op'.broke = {}
      BY <2>1, AnsweredAtOnce DEF Results
    <2>3. /\ op.at = "idle" /\ reg.list[b] \in Entry
          /\ UNCHANGED <<running, data, disk, saved, drawn, since>>
      BY <1>3 DEF Deliver, history, Listed, TypeOK, Registry
    <2>4. /\ reg'.access = reg.access
          /\ \A c \in Ids : reg'.list[c] # None =>
                reg.list[c] # None /\ reg'.list[c].created = reg.list[c].created
      BY <2>1, <2>3, NullAssumption DEF TypeOK, Registry, Entry
    <2> QED BY <1>0, <2>2, <2>3, <2>4
  <1>4. CASE RestoreRefused(b)
    BY <1>0, <1>4, AnsweredAtOnce DEF RestoreRefused, Results, history
  <1> QED BY <1>1, <1>2, <1>3, <1>4

LEMMA StepQuiet == TypeOK /\ Course /\ Quiet /\ [Next]_vars => Quiet'
  <1> SUFFICES ASSUME TypeOK /\ Course /\ Quiet, [Next]_vars PROVE Quiet'
    OBVIOUS
  <1>1. ASSUME NEW w \in Writes, AppWrite(w)
        PROVE  Quiet'
    BY <1>1 DEF AppWrite, Quiet, SameMoment, TypeOK, Operation, Data, Goto, Fail, history
  <1>2. ASSUME NEW w \in Writes, FileWrite(w)
        PROVE  Quiet'
    BY <1>2 DEF FileWrite, Quiet, SameMoment, TypeOK, Operation, Data, Goto, Fail, history
  <1>3. ASSUME NEW w \in Writers, Switch(w)
        PROVE  Quiet'
    BY <1>3 DEF Switch, Quiet, SameMoment, TypeOK, Operation, Data, Goto, Fail, history
  <1>4. ASSUME NEW b \in Ids, NEW plan \in BOOLEAN, NEW quiesce \in BOOLEAN,
              NEW remote \in BOOLEAN, CreateBegin(b, plan, quiesce, remote)
        PROVE  Quiet'
    <2>1. op'.at = "pause" /\ op'.copy = Blank /\ UNCHANGED disk
      BY <1>4, Begun
    <2> QED BY <2>1 DEF Quiet, SameMoment, Blank
  <1>5. ASSUME NEW b \in Ids, CreateAgain(b)
        PROVE  Quiet'
    <2>1. op'.at = "answer" /\ ~op'.copy.torn
          /\ \A c \in Ids : disk'[c] # None => disk'[c] = disk[c]
      BY <1>5, Immediate
    <2> QED BY <2>1 DEF Quiet, SameMoment
  <1>6. ASSUME NEW b \in Ids, Delete(b)
        PROVE  Quiet'
    <2>1. op'.at = "answer" /\ ~op'.copy.torn
          /\ \A c \in Ids : disk'[c] # None => disk'[c] = disk[c]
      BY <1>6, Immediate
    <2> QED BY <2>1 DEF Quiet, SameMoment
  <1>7. ASSUME NEW b \in Ids, Deliver(b)
        PROVE  Quiet'
    <2>1. op'.at = "answer" /\ ~op'.copy.torn
          /\ \A c \in Ids : disk'[c] # None => disk'[c] = disk[c]
      BY <1>7, Immediate
    <2> QED BY <2>1 DEF Quiet, SameMoment
  <1>8. ASSUME NEW b \in Ids, RestoreRefused(b)
        PROVE  Quiet'
    <2>1. op'.at = "answer" /\ ~op'.copy.torn
          /\ \A c \in Ids : disk'[c] # None => disk'[c] = disk[c]
      BY <1>8, Immediate
    <2> QED BY <2>1 DEF Quiet, SameMoment
  <1>9. ASSUME NEW b \in Ids, NEW r \in Ids, RestoreBegin(b, r)
        PROVE  Quiet'
    <2>1. op'.at = "pause" /\ op'.copy = Blank /\ UNCHANGED disk
      BY <1>9, Begun
    <2> QED BY <2>1 DEF Quiet, SameMoment, Blank
  <1>10. CASE Pause
    BY <1>10 DEF Pause, Quiet, SameMoment, TypeOK, Operation, Data, Goto, Fail, history
  <1>11. CASE PauseFails
    BY <1>11 DEF PauseFails, Quiet, SameMoment, TypeOK, Operation, Data, Goto, Fail, history
  <1>12. CASE Tar
    <2>1. op'.at = "dump" /\ op'.copy.torn = op.copy.torn /\ op'.quiesce = op.quiesce
          /\ op'.rows = data.tables /\ UNCHANGED <<running, data, disk>>
      BY <1>12 DEF Tar, TypeOK, Operation, Archive
    <2> QED BY <1>12, <2>1 DEF Tar, Quiet, SameMoment
  <1>13. CASE Dump
    <2>1. op'.at = "start" /\ op'.copy.torn = (op.quiesce /\ data.tables # op.rows)
          /\ UNCHANGED disk
      BY <1>13 DEF Dump, TypeOK, Operation, Archive
    <2>2. ~(op.quiesce /\ data.tables # op.rows)
      BY <1>13 DEF Dump, Quiet
    <2> QED BY <2>1, <2>2 DEF Quiet, SameMoment
  <1>14. CASE BuildFails
    BY <1>14 DEF BuildFails, Quiet, SameMoment, TypeOK, Operation, Data, Goto, Fail, history
  <1>15. CASE Start
    BY <1>15 DEF Start, Quiet, SameMoment, TypeOK, Operation, Data, Goto, Fail, history
  <1>16. CASE StartFails
    BY <1>16 DEF StartFails, Quiet, SameMoment, TypeOK, Operation, Data, Goto, Fail, history
  <1>17. CASE Move
    BY <1>17 DEF Move, Blank, Quiet, SameMoment, TypeOK, Operation, Data, Goto, Fail,
       history
  <1>18. CASE MoveFails
    BY <1>18 DEF MoveFails, Quiet, SameMoment, TypeOK, Operation, Data, Goto, Fail, history
  <1>19. CASE Record
    BY <1>19 DEF Record, Quiet, SameMoment, TypeOK, Operation, Data, Goto, Fail, history
  <1>20. CASE Send
    BY <1>20 DEF Send, Quiet, SameMoment, TypeOK, Operation, Data, Goto, Fail, history
  <1>21. CASE Settle
    <2>1. op'.at \in {"inspect", "answer"} /\ op'.copy = op.copy
      BY <1>21 DEF Settle, Goto, Fail, TypeOK, Operation
    <2>2. \A b \in Ids : disk'[b] # None => disk'[b] = disk[b]
      BY <1>21 DEF Settle, TypeOK
    <2> QED BY <2>1, <2>2 DEF Quiet, SameMoment
  <1>22. CASE RecordFails
    BY <1>22 DEF RecordFails, Quiet, SameMoment, TypeOK, Operation, Data, Goto, Fail,
       history
  <1>23. CASE Inspect
    BY <1>23 DEF Inspect, Quiet, SameMoment, TypeOK, Operation, Data, Goto, Fail, history
  <1>24. CASE InspectFails
    BY <1>24 DEF InspectFails, Quiet, SameMoment, TypeOK, Operation, Data, Goto, Fail,
       history
  <1>25. CASE Disable
    BY <1>25 DEF Disable, Quiet, SameMoment, TypeOK, Operation, Data, Goto, Fail, history
  <1>26. CASE DisableFails
    BY <1>26 DEF DisableFails, Quiet, SameMoment, TypeOK, Operation, Data, Goto, Fail,
       history
  <1>27. CASE Stop
    BY <1>27 DEF Stop, Quiet, SameMoment, TypeOK, Operation, Data, Goto, Fail, history
  <1>28. CASE StopFails
    BY <1>28 DEF StopFails, Quiet, SameMoment, TypeOK, Operation, Data, Goto, Fail, history
  <1>29. CASE Clear
    BY <1>29 DEF Clear, Quiet, SameMoment, TypeOK, Operation, Data, Goto, Fail, history
  <1>30. CASE Extract
    BY <1>30 DEF Extract, Quiet, SameMoment, TypeOK, Operation, Data, Goto, Fail, history
  <1>31. CASE Load
    BY <1>31 DEF Load, Quiet, SameMoment, TypeOK, Operation, Data, Goto, Fail, history
  <1>32. CASE SwapFails
    BY <1>32 DEF SwapFails, Quiet, SameMoment, TypeOK, Operation, Data, Goto, Fail, history
  <1>33. CASE Resume
    BY <1>33 DEF Resume, Quiet, SameMoment, TypeOK, Operation, Data, Goto, Fail, history
  <1>34. CASE ResumeFails
    BY <1>34 DEF ResumeFails, Quiet, SameMoment, TypeOK, Operation, Data, Goto, Fail,
       history
  <1>35. CASE Answer
    BY <1>35 DEF Answer, Idle, Blank, Quiet, SameMoment, TypeOK, Operation, Data, Goto,
       Fail, history
  <1>36. CASE AnswerFails
    BY <1>36 DEF AnswerFails, Idle, Blank, Quiet, SameMoment, TypeOK, Operation, Data, Goto,
       Fail, history
  <1>37. CASE Crash
    BY <1>37 DEF Crash, Idle, Blank, Quiet, SameMoment, TypeOK, Operation, Data, Goto, Fail,
       history
  <1>38. CASE UNCHANGED vars
    BY <1>38 DEF vars, Quiet, SameMoment, TypeOK, Operation, Data, Goto, Fail, history
  <1> QED BY <1>1, <1>2, <1>3, <1>4, <1>5, <1>6, <1>7, <1>8, <1>9, <1>10, <1>11, <1>12,
     <1>13, <1>14, <1>15, <1>16, <1>17, <1>18, <1>19, <1>20, <1>21, <1>22, <1>23, <1>24,
     <1>25, <1>26, <1>27, <1>28, <1>29, <1>30, <1>31, <1>32, <1>33, <1>34, <1>35, <1>36,
     <1>37, <1>38 DEF Next

LEMMA StepInPlace == TypeOK /\ Course /\ InPlace /\ [Next]_vars => InPlace'
  <1> SUFFICES ASSUME TypeOK /\ Course /\ InPlace, [Next]_vars PROVE InPlace'
    OBVIOUS
  <1>1. ASSUME NEW w \in Writes, AppWrite(w)
        PROVE  InPlace'
    BY <1>1 DEF AppWrite, InPlace, AnsweredIsKept, Settling, Swapping, TypeOK, Operation,
       Goto, Fail, history
  <1>2. ASSUME NEW w \in Writes, FileWrite(w)
        PROVE  InPlace'
    BY <1>2 DEF FileWrite, InPlace, AnsweredIsKept, Settling, Swapping, TypeOK, Operation,
       Goto, Fail, history
  <1>3. ASSUME NEW w \in Writers, Switch(w)
        PROVE  InPlace'
    <2>1. /\ reg'.list = reg.list /\ saved' = reg'
          /\ UNCHANGED <<disk, op, doomed, acked>> /\ op.at = "idle"
      BY <1>3 DEF Switch, history, TypeOK, Registry
    <2> QED BY <2>1 DEF InPlace, AnsweredIsKept, Settling, Swapping, TypeOK
  <1>4. ASSUME NEW b \in Ids, NEW plan \in BOOLEAN, NEW quiesce \in BOOLEAN,
              NEW remote \in BOOLEAN, CreateBegin(b, plan, quiesce, remote)
        PROVE  InPlace'
    <2>1. op'.at = "pause" /\ UNCHANGED <<disk, reg, saved, doomed, acked>>
      BY <1>4, Begun
    <2> QED BY <2>1 DEF InPlace, AnsweredIsKept, Settling, Swapping
  <1>5. ASSUME NEW b \in Ids, CreateAgain(b)
        PROVE  InPlace'
    <2>1. op'.at = "answer" /\ UNCHANGED <<disk, reg, saved, doomed, acked>>
          /\ (op'.verb \in {"create", "restore"} /\ op'.result = "ok" =>
                op'.id = b /\ reg.list[b] # None)
      BY <1>5, Immediate DEF CreateAgain, history
    <2> QED BY <2>1 DEF InPlace, AnsweredIsKept, Settling, Swapping
  <1>6. ASSUME NEW b \in Ids, Delete(b)
        PROVE  InPlace'
    <2>1. op'.at = "answer" /\ op'.verb = "other"
      BY <1>6, AnsweredAtOnce DEF Delete, Results
    <2>2. /\ disk' \in {disk, [disk EXCEPT ![b] = None]}
          /\ reg' \in {reg, [reg EXCEPT !.list[b] = None]}
          /\ doomed' = doomed \cup {b} /\ acked' = acked \ {b} /\ saved' = saved
      BY <1>6 DEF Delete
    <2>3. \A c \in Ids \ {b} : disk'[c] = disk[c] /\ reg'.list[c] = reg.list[c]
      BY <2>2 DEF TypeOK, Registry
    <2> QED BY <2>1, <2>2, <2>3 DEF InPlace, AnsweredIsKept, Settling, Swapping, TypeOK
  <1>7. ASSUME NEW b \in Ids, Deliver(b)
        PROVE  InPlace'
    <2>1. op'.at = "answer" /\ op'.verb = "other"
      BY <1>7, AnsweredAtOnce DEF Deliver, Results
    <2>2. \A c \in Ids : reg'.list[c] # None <=> reg.list[c] # None
      BY <1>7, SentOnly DEF Deliver, Listed
    <2>3. UNCHANGED <<disk, saved, doomed, acked>>
      BY <1>7 DEF Deliver, history
    <2> QED BY <2>1, <2>2, <2>3 DEF InPlace, AnsweredIsKept, Settling, Swapping, TypeOK
  <1>8. ASSUME NEW b \in Ids, RestoreRefused(b)
        PROVE  InPlace'
    <2>1. op'.at = "answer" /\ op'.result = "error"
          /\ UNCHANGED <<disk, reg, saved, doomed, acked>>
      BY <1>8, AnsweredAtOnce DEF RestoreRefused, Results, history
    <2> QED BY <2>1 DEF InPlace, AnsweredIsKept, Settling, Swapping
  <1>9. ASSUME NEW b \in Ids, NEW r \in Ids, RestoreBegin(b, r)
        PROVE  InPlace'
    <2>1. op'.at = "pause" /\ UNCHANGED <<disk, reg, saved, doomed, acked>>
      BY <1>9, Begun
    <2> QED BY <2>1 DEF InPlace, AnsweredIsKept, Settling, Swapping
  <1>10. CASE Pause
    BY <1>10 DEF Pause, InPlace, AnsweredIsKept, Settling, Swapping, TypeOK, Operation,
       Goto, Fail, history
  <1>11. CASE PauseFails
    BY <1>11 DEF PauseFails, InPlace, AnsweredIsKept, Settling, Swapping, TypeOK, Operation,
       Goto, Fail, history
  <1>12. CASE Tar
    BY <1>12 DEF Tar, InPlace, AnsweredIsKept, Settling, Swapping, TypeOK, Operation, Goto,
       Fail, history
  <1>13. CASE Dump
    BY <1>13 DEF Dump, InPlace, AnsweredIsKept, Settling, Swapping, TypeOK, Operation, Goto,
       Fail, history
  <1>14. CASE BuildFails
    BY <1>14 DEF BuildFails, InPlace, AnsweredIsKept, Settling, Swapping, TypeOK, Operation,
       Goto, Fail, history
  <1>15. CASE Start
    BY <1>15 DEF Start, InPlace, AnsweredIsKept, Settling, Swapping, TypeOK, Operation,
       Goto, Fail, history
  <1>16. CASE StartFails
    BY <1>16 DEF StartFails, InPlace, AnsweredIsKept, Settling, Swapping, TypeOK, Operation,
       Goto, Fail, history
  <1>17. CASE Move
    <2>1. op.id \in Ids /\ op.copy \in Archive /\ op.plan \in BOOLEAN
      BY <1>17 DEF Move, Course, TypeOK, Operation
    <2> DEFINE e == [plan |-> op.plan, created |-> Cardinality(drawn), sent |-> FALSE]
    <2>2. e \in Entry
      BY <2>1, Bounded DEF TypeOK, Entry
    <2> HIDE DEF e
    <2>3. /\ reg' = [reg EXCEPT !.list[op.id] = e] /\ disk' = [disk EXCEPT ![op.id] = op.copy]
          /\ op'.at = "record" /\ op'.id = op.id /\ UNCHANGED <<saved, doomed, acked>>
      BY <1>17 DEF Move, history, TypeOK, Operation, e
    <2>4. /\ reg'.list[op.id] # None /\ disk'[op.id] # None
          /\ \A c \in Ids \ {op.id} : disk'[c] = disk[c] /\ reg'.list[c] = reg.list[c]
      BY <2>1, <2>2, <2>3, NullAssumption DEF TypeOK, Registry
    <2> QED BY <2>1, <2>3, <2>4 DEF InPlace, AnsweredIsKept, Settling, Swapping, TypeOK
  <1>18. CASE MoveFails
    BY <1>18 DEF MoveFails, InPlace, AnsweredIsKept, Settling, Swapping, TypeOK, Operation,
       Goto, Fail, history
  <1>19. CASE Record
    BY <1>19 DEF Record, InPlace, AnsweredIsKept, Settling, Swapping, TypeOK, Operation,
       Goto, Fail, history
  <1>20. CASE Send
    <2>1. op.id \in Ids /\ reg.list[op.id] # None /\ disk[op.id] # None
      BY <1>20 DEF Send, Course, InPlace, Settling, TypeOK
    <2>2. \A c \in Ids : reg'.list[c] # None <=> reg.list[c] # None
      BY <1>20, <2>1, SentOnly DEF Send
    <2>3. op'.at = "settle" /\ op'.id = op.id /\ UNCHANGED <<disk, saved, doomed, acked>>
      BY <1>20 DEF Send, Goto, history, TypeOK, Operation
    <2> QED BY <2>1, <2>2, <2>3 DEF InPlace, AnsweredIsKept, Settling, Swapping, TypeOK
  <1>21. CASE Settle
    <2>1. op.id \in Ids /\ reg.list[op.id] # None /\ disk[op.id] # None
      BY <1>21 DEF Settle, Course, InPlace, Settling, TypeOK
    <2>2. CASE ~reg.list[op.id].sent
      <3>1. op'.at = "answer" /\ op'.result = "error" /\ UNCHANGED <<reg, disk, doomed, acked>>
        BY <1>21, <2>2 DEF Settle, Fail, TypeOK, Operation
      <3> QED BY <1>21, <3>1 DEF Settle, InPlace, AnsweredIsKept, Settling, Swapping, TypeOK
    <2>3. CASE reg.list[op.id].sent
      <3>1. PICK gone \in SUBSET (IF op.plan THEN Old ELSE {}) : Retained(gone)
        BY <1>21, <2>3 DEF Settle, Retained
      <3>2. /\ op'.at = (IF op.verb = "restore" THEN "inspect" ELSE "answer")
            /\ op'.id = op.id /\ (op.verb = "restore" => gone = {})
        BY <3>1 DEF Retained, Goto, TypeOK, Operation, Course
      <3>3. /\ \A c \in Ids \ gone : reg'.list[c] = reg.list[c] /\ disk'[c] = disk[c]
            /\ doomed' = doomed \cup gone /\ acked' = acked \ gone /\ saved' = reg
        BY <1>21, <3>1 DEF Retained, Settle, TypeOK, Registry
      <3> QED BY <2>1, <3>2, <3>3 DEF InPlace, AnsweredIsKept, Settling, Swapping, TypeOK
    <2> QED BY <2>2, <2>3
  <1>22. CASE RecordFails
    BY <1>22 DEF RecordFails, InPlace, AnsweredIsKept, Settling, Swapping, TypeOK,
       Operation, Goto, Fail, history
  <1>23. CASE Inspect
    BY <1>23 DEF Inspect, InPlace, AnsweredIsKept, Settling, Swapping, TypeOK, Operation,
       Goto, Fail, history
  <1>24. CASE InspectFails
    BY <1>24 DEF InspectFails, InPlace, AnsweredIsKept, Settling, Swapping, TypeOK,
       Operation, Goto, Fail, history
  <1>25. CASE Disable
    <2>1. /\ reg'.list = reg.list /\ op'.id = op.id /\ op'.verb = op.verb
          /\ op'.at \in {"stop", "resume", "answer"} /\ op.at \in Swapping
          /\ UNCHANGED <<disk, saved, doomed, acked>>
      BY <1>25 DEF Disable, Goto, history, Swapping, TypeOK, Registry, Operation
    <2>2. op.id \in Ids /\ reg.list[op.id] # None /\ disk[op.id] # None
      BY <2>1 DEF Course, InPlace, Swapping, TypeOK
    <2> QED BY <2>1, <2>2 DEF InPlace, AnsweredIsKept, Settling, Swapping, TypeOK
  <1>26. CASE DisableFails
    <2>1. /\ reg'.list = reg.list /\ op'.id = op.id /\ op'.verb = op.verb
          /\ op'.at \in {"stop", "resume", "answer"} /\ op.at \in Swapping
          /\ UNCHANGED <<disk, saved, doomed, acked>>
      BY <1>26 DEF DisableFails, Goto, history, Swapping, TypeOK, Registry, Operation
    <2>2. op.id \in Ids /\ reg.list[op.id] # None /\ disk[op.id] # None
      BY <2>1 DEF Course, InPlace, Swapping, TypeOK
    <2> QED BY <2>1, <2>2 DEF InPlace, AnsweredIsKept, Settling, Swapping, TypeOK
  <1>27. CASE Stop
    BY <1>27 DEF Stop, InPlace, AnsweredIsKept, Settling, Swapping, TypeOK, Operation, Goto,
       Fail, history
  <1>28. CASE StopFails
    BY <1>28 DEF StopFails, InPlace, AnsweredIsKept, Settling, Swapping, TypeOK, Operation,
       Goto, Fail, history
  <1>29. CASE Clear
    BY <1>29 DEF Clear, InPlace, AnsweredIsKept, Settling, Swapping, TypeOK, Operation,
       Goto, Fail, history
  <1>30. CASE Extract
    BY <1>30 DEF Extract, InPlace, AnsweredIsKept, Settling, Swapping, TypeOK, Operation,
       Goto, Fail, history
  <1>31. CASE Load
    BY <1>31 DEF Load, InPlace, AnsweredIsKept, Settling, Swapping, TypeOK, Operation, Goto,
       Fail, history
  <1>32. CASE SwapFails
    BY <1>32 DEF SwapFails, InPlace, AnsweredIsKept, Settling, Swapping, TypeOK, Operation,
       Goto, Fail, history
  <1>33. CASE Resume
    <2>1. /\ reg'.list = reg.list /\ op'.id = op.id /\ op'.verb = op.verb
          /\ op'.at \in {"stop", "resume", "answer"} /\ op.at \in Swapping
          /\ UNCHANGED <<disk, saved, doomed, acked>>
      BY <1>33 DEF Resume, Goto, history, Swapping, TypeOK, Registry, Operation
    <2>2. op.id \in Ids /\ reg.list[op.id] # None /\ disk[op.id] # None
      BY <2>1 DEF Course, InPlace, Swapping, TypeOK
    <2> QED BY <2>1, <2>2 DEF InPlace, AnsweredIsKept, Settling, Swapping, TypeOK
  <1>34. CASE ResumeFails
    <2>1. /\ reg'.list = reg.list /\ op'.id = op.id /\ op'.verb = op.verb
          /\ op'.at \in {"stop", "resume", "answer"} /\ op.at \in Swapping
          /\ UNCHANGED <<disk, saved, doomed, acked>>
      BY <1>34 DEF ResumeFails, Goto, history, Swapping, TypeOK, Registry, Operation
    <2>2. op.id \in Ids /\ reg.list[op.id] # None /\ disk[op.id] # None
      BY <2>1 DEF Course, InPlace, Swapping, TypeOK
    <2> QED BY <2>1, <2>2 DEF InPlace, AnsweredIsKept, Settling, Swapping, TypeOK
  <1>35. CASE Answer
    BY <1>35 DEF Answer, Idle, InPlace, AnsweredIsKept, Settling, Swapping, TypeOK, history
  <1>36. CASE AnswerFails
    BY <1>36 DEF AnswerFails, Idle, InPlace, AnsweredIsKept, Settling, Swapping, TypeOK,
       history
  <1>37. CASE Crash
    BY <1>37 DEF Crash, Idle, InPlace, AnsweredIsKept, Settling, Swapping, TypeOK, history
  <1>38. CASE UNCHANGED vars
    BY <1>38 DEF vars, InPlace, AnsweredIsKept, Settling, Swapping, TypeOK, Operation, Goto,
       Fail, history
  <1> QED BY <1>1, <1>2, <1>3, <1>4, <1>5, <1>6, <1>7, <1>8, <1>9, <1>10, <1>11, <1>12,
     <1>13, <1>14, <1>15, <1>16, <1>17, <1>18, <1>19, <1>20, <1>21, <1>22, <1>23, <1>24,
     <1>25, <1>26, <1>27, <1>28, <1>29, <1>30, <1>31, <1>32, <1>33, <1>34, <1>35, <1>36,
     <1>37, <1>38 DEF Next

LEMMA StepCovered == TypeOK /\ Course /\ InPlace /\ Covered /\ [Next]_vars => Covered'
  <1> SUFFICES ASSUME TypeOK /\ Course /\ InPlace /\ Covered, [Next]_vars PROVE Covered'
    OBVIOUS
  <1>1. ASSUME NEW w \in Writes, AppWrite(w)
        PROVE  Covered'
    <2>1. /\ data'.files \subseteq data.files \cup {w}
          /\ data'.tables \subseteq data.tables \cup {w}
          /\ since' = since \cup {w} /\ UNCHANGED <<disk, saved, op>>
      BY <1>1 DEF AppWrite, TypeOK, Data
    <2> QED BY <2>1 DEF Covered, Settling, Swapping
  <1>2. ASSUME NEW w \in Writes, FileWrite(w)
        PROVE  Covered'
    <2>1. /\ data'.files \subseteq data.files \cup {w}
          /\ data'.tables \subseteq data.tables \cup {w}
          /\ since' = since \cup {w} /\ UNCHANGED <<disk, saved, op>>
      BY <1>2 DEF FileWrite, TypeOK, Data
    <2> QED BY <2>1 DEF Covered, Settling, Swapping
  <1>3. ASSUME NEW w \in Writers, Switch(w)
        PROVE  Covered'
    <2>1. op'.at = "idle"
      BY <1>3 DEF Switch
    <2> QED BY <2>1 DEF Covered, Settling, Swapping
  <1>4. ASSUME NEW b \in Ids, NEW plan \in BOOLEAN, NEW quiesce \in BOOLEAN,
              NEW remote \in BOOLEAN, CreateBegin(b, plan, quiesce, remote)
        PROVE  Covered'
    <2>1. op'.at = "pause"
      BY <1>4, Begun
    <2> QED BY <2>1 DEF Covered, Settling, Swapping
  <1>5. ASSUME NEW b \in Ids, CreateAgain(b)
        PROVE  Covered'
    <2>1. op'.at = "answer"
      BY <1>5, Immediate
    <2> QED BY <2>1 DEF Covered, Settling, Swapping
  <1>6. ASSUME NEW b \in Ids, Delete(b)
        PROVE  Covered'
    <2>1. op'.at = "answer"
      BY <1>6, Immediate
    <2> QED BY <2>1 DEF Covered, Settling, Swapping
  <1>7. ASSUME NEW b \in Ids, Deliver(b)
        PROVE  Covered'
    <2>1. op'.at = "answer"
      BY <1>7, Immediate
    <2> QED BY <2>1 DEF Covered, Settling, Swapping
  <1>8. ASSUME NEW b \in Ids, RestoreRefused(b)
        PROVE  Covered'
    <2>1. op'.at = "answer"
      BY <1>8, Immediate
    <2> QED BY <2>1 DEF Covered, Settling, Swapping
  <1>9. ASSUME NEW b \in Ids, NEW r \in Ids, RestoreBegin(b, r)
        PROVE  Covered'
    <2>1. op'.at = "pause"
      BY <1>9, Begun
    <2> QED BY <2>1 DEF Covered, Settling, Swapping
  <1>10. CASE Pause
    BY <1>10 DEF Pause, Covered, Settling, Swapping, TypeOK, Operation, Data, Goto, Fail,
       history
  <1>11. CASE PauseFails
    BY <1>11 DEF PauseFails, Covered, Settling, Swapping, TypeOK, Operation, Data, Goto,
       Fail, history
  <1>12. CASE Tar
    <2>1. op'.at = "dump" /\ op'.copy.files = data.files /\ UNCHANGED data
      BY <1>12 DEF Tar, TypeOK, Operation, Archive
    <2> QED BY <2>1 DEF Covered, Settling, Swapping
  <1>13. CASE Dump
    <2>1. /\ op'.at = "start" /\ op'.copy.files = op.copy.files
          /\ op'.copy.tables = data.tables /\ op'.result = op.result /\ UNCHANGED <<data, since>>
      BY <1>13 DEF Dump, TypeOK, Operation, Archive, history
    <2> QED BY <1>13, <2>1 DEF Dump, Covered, Settling, Swapping
  <1>14. CASE BuildFails
    BY <1>14 DEF BuildFails, Covered, Settling, Swapping, TypeOK, Operation, Data, Goto,
       Fail, history
  <1>15. CASE Start
    BY <1>15 DEF Start, Covered, Settling, Swapping, TypeOK, Operation, Data, Goto, Fail,
       history
  <1>16. CASE StartFails
    BY <1>16 DEF StartFails, Covered, Settling, Swapping, TypeOK, Operation, Data, Goto,
       Fail, history
  <1>17. CASE Move
    <2>1. /\ op.id \in Ids /\ op.result = "ok"
          /\ op'.at = "record" /\ op'.id = op.id
          /\ disk' = [disk EXCEPT ![op.id] = op.copy] /\ UNCHANGED <<data, since>>
      BY <1>17 DEF Move, Course, TypeOK, Operation, history
    <2>2. disk'[op.id] = op.copy
      BY <2>1 DEF TypeOK
    <2> QED BY <1>17, <2>1, <2>2 DEF Move, Covered, Settling, Swapping
  <1>18. CASE MoveFails
    BY <1>18 DEF MoveFails, Covered, Settling, Swapping, TypeOK, Operation, Data, Goto,
       Fail, history
  <1>19. CASE Record
    <2>1. /\ reg.list[op.id] # None /\ saved' = reg
          /\ op'.at = "send" /\ op'.id = op.id /\ UNCHANGED <<disk, data, since>>
      BY <1>19 DEF Record, InPlace, Settling, Goto, TypeOK, Operation, history
    <2> QED BY <1>19, <2>1 DEF Record, Covered, Settling, Swapping
  <1>20. CASE Send
    BY <1>20 DEF Send, Covered, Settling, Swapping, TypeOK, Operation, Data, Goto, Fail,
       history
  <1>21. CASE Settle
    <2>1. CASE ~reg.list[op.id].sent
      <3>1. op'.at = "answer"
        BY <1>21, <2>1 DEF Settle, Fail, TypeOK, Operation
      <3> QED BY <3>1 DEF Covered, Settling, Swapping
    <2>2. CASE reg.list[op.id].sent
      <3>1. PICK gone \in SUBSET (IF op.plan THEN Old ELSE {}) : Retained(gone)
        BY <1>21, <2>2 DEF Settle, Retained
      <3>2. CASE op.verb # "restore"
        <4>1. op'.at = "answer"
          BY <3>1, <3>2 DEF Retained, Goto, TypeOK, Operation
        <4> QED BY <4>1 DEF Covered, Settling, Swapping
      <3>3. CASE op.verb = "restore"
        <4>1. gone = {} /\ op.id \in Ids /\ reg.list[op.id] # None
          BY <1>21, <3>1, <3>3 DEF Settle, Course, InPlace, Settling, TypeOK
        <4>2. /\ op'.at = "inspect" /\ op'.id = op.id /\ saved' = reg
              /\ disk' = disk /\ UNCHANGED <<data, since>>
          BY <1>21, <3>1, <3>3, <4>1 DEF Settle, Retained, Goto, TypeOK, Operation
        <4> QED BY <1>21, <4>1, <4>2 DEF Settle, Covered, Settling, Swapping
      <3> QED BY <3>2, <3>3
    <2> QED BY <2>1, <2>2
  <1>22. CASE RecordFails
    BY <1>22 DEF RecordFails, Covered, Settling, Swapping, TypeOK, Operation, Data, Goto,
       Fail, history
  <1>23. CASE Inspect
    BY <1>23 DEF Inspect, Covered, Settling, Swapping, TypeOK, Operation, Data, Goto, Fail,
       history
  <1>24. CASE InspectFails
    BY <1>24 DEF InspectFails, Covered, Settling, Swapping, TypeOK, Operation, Data, Goto,
       Fail, history
  <1>25. CASE Disable
    BY <1>25 DEF Disable, Covered, Settling, Swapping, TypeOK, Operation, Data, Goto, Fail,
       history
  <1>26. CASE DisableFails
    BY <1>26 DEF DisableFails, Covered, Settling, Swapping, TypeOK, Operation, Data, Goto,
       Fail, history
  <1>27. CASE Stop
    BY <1>27 DEF Stop, Covered, Settling, Swapping, TypeOK, Operation, Data, Goto, Fail,
       history
  <1>28. CASE StopFails
    BY <1>28 DEF StopFails, Covered, Settling, Swapping, TypeOK, Operation, Data, Goto,
       Fail, history
  <1>29. CASE Clear
    BY <1>29 DEF Clear, Covered, Settling, Swapping, TypeOK, Operation, Data, Goto, Fail,
       history
  <1>30. CASE Extract
    BY <1>30 DEF Extract, Covered, Settling, Swapping, TypeOK, Operation, Data, Goto, Fail,
       history
  <1>31. CASE Load
    BY <1>31 DEF Load, Covered, Settling, Swapping, TypeOK, Operation, Data, Goto, Fail,
       history
  <1>32. CASE SwapFails
    <2>1. op'.at = "resume" /\ op'.id = op.id /\ UNCHANGED saved
      BY <1>32 DEF SwapFails, TypeOK, Operation
    <2>2. op.at \in {"clear", "extract", "load"}
      BY <1>32 DEF SwapFails
    <2> QED BY <2>1, <2>2 DEF Covered, Settling, Swapping
  <1>33. CASE Resume
    <2>1. op'.at = "answer"
      BY <1>33 DEF Resume, Goto, TypeOK, Operation
    <2> QED BY <2>1 DEF Covered, Settling, Swapping
  <1>34. CASE ResumeFails
    <2>1. op'.at = "answer"
      BY <1>34 DEF ResumeFails, Goto, TypeOK, Operation
    <2> QED BY <2>1 DEF Covered, Settling, Swapping
  <1>35. CASE Answer
    BY <1>35 DEF Answer, Idle, Covered, Settling, Swapping
  <1>36. CASE AnswerFails
    BY <1>36 DEF AnswerFails, Idle, Covered, Settling, Swapping
  <1>37. CASE Crash
    BY <1>37 DEF Crash, Idle, Covered, Settling, Swapping
  <1>38. CASE UNCHANGED vars
    BY <1>38 DEF vars, Covered, Settling, Swapping, TypeOK, Operation, Data, Goto, Fail,
       history
  <1> QED BY <1>1, <1>2, <1>3, <1>4, <1>5, <1>6, <1>7, <1>8, <1>9, <1>10, <1>11, <1>12,
     <1>13, <1>14, <1>15, <1>16, <1>17, <1>18, <1>19, <1>20, <1>21, <1>22, <1>23, <1>24,
     <1>25, <1>26, <1>27, <1>28, <1>29, <1>30, <1>31, <1>32, <1>33, <1>34, <1>35, <1>36,
     <1>37, <1>38 DEF Next

LEMMA StepRemembered == TypeOK /\ Course /\ Remembered /\ [Next]_vars => Remembered'
  <1> SUFFICES ASSUME TypeOK /\ Course /\ Remembered, [Next]_vars PROVE Remembered'
    OBVIOUS
  <1>1. ASSUME NEW w \in Writes, AppWrite(w)
        PROVE  Remembered'
    BY <1>1 DEF AppWrite, Remembered, WritersResume, Settling, Swapping, TypeOK, Operation,
       Goto, Fail, history
  <1>2. ASSUME NEW w \in Writes, FileWrite(w)
        PROVE  Remembered'
    BY <1>2 DEF FileWrite, Remembered, WritersResume, Settling, Swapping, TypeOK, Operation,
       Goto, Fail, history
  <1>3. ASSUME NEW w \in Writers, Switch(w)
        PROVE  Remembered'
    <2>1. op'.at = "idle"
      BY <1>3 DEF Switch
    <2> QED BY <2>1 DEF Remembered, WritersResume, Settling, Swapping
  <1>4. ASSUME NEW b \in Ids, NEW plan \in BOOLEAN, NEW quiesce \in BOOLEAN,
              NEW remote \in BOOLEAN, CreateBegin(b, plan, quiesce, remote)
        PROVE  Remembered'
    <2>1. op'.at = "pause" /\ op'.before = Admitted /\ UNCHANGED <<running, reg>>
      BY <1>4, Begun
    <2>2. Admitted \subseteq running /\ ("sftp" \in Admitted => reg.access)
      BY DEF Admitted
    <2> QED BY <2>1, <2>2 DEF Remembered, WritersResume, Settling, Swapping
  <1>5. ASSUME NEW b \in Ids, CreateAgain(b)
        PROVE  Remembered'
    <2>1. op'.at = "answer" /\ op'.before = Admitted /\ UNCHANGED running
      BY <1>5, Immediate
    <2>2. Admitted \subseteq running
      BY DEF Admitted
    <2> QED BY <2>1, <2>2 DEF Remembered, WritersResume, Settling, Swapping
  <1>6. ASSUME NEW b \in Ids, Delete(b)
        PROVE  Remembered'
    <2>1. op'.at = "answer" /\ op'.before = Admitted /\ UNCHANGED running
      BY <1>6, Immediate
    <2>2. Admitted \subseteq running
      BY DEF Admitted
    <2> QED BY <2>1, <2>2 DEF Remembered, WritersResume, Settling, Swapping
  <1>7. ASSUME NEW b \in Ids, Deliver(b)
        PROVE  Remembered'
    <2>1. op'.at = "answer" /\ op'.before = Admitted /\ UNCHANGED running
      BY <1>7, Immediate
    <2>2. Admitted \subseteq running
      BY DEF Admitted
    <2> QED BY <2>1, <2>2 DEF Remembered, WritersResume, Settling, Swapping
  <1>8. ASSUME NEW b \in Ids, RestoreRefused(b)
        PROVE  Remembered'
    <2>1. op'.at = "answer" /\ op'.before = Admitted /\ UNCHANGED running
      BY <1>8, Immediate
    <2>2. Admitted \subseteq running
      BY DEF Admitted
    <2> QED BY <2>1, <2>2 DEF Remembered, WritersResume, Settling, Swapping
  <1>9. ASSUME NEW b \in Ids, NEW r \in Ids, RestoreBegin(b, r)
        PROVE  Remembered'
    <2>1. op'.at = "pause" /\ op'.before = Admitted /\ UNCHANGED <<running, reg>>
      BY <1>9, Begun
    <2>2. Admitted \subseteq running /\ ("sftp" \in Admitted => reg.access)
      BY DEF Admitted
    <2> QED BY <2>1, <2>2 DEF Remembered, WritersResume, Settling, Swapping
  <1>10. CASE Pause
    BY <1>10 DEF Pause, Remembered, WritersResume, Settling, Swapping, TypeOK, Operation,
       Goto, Fail, history
  <1>11. CASE PauseFails
    BY <1>11 DEF PauseFails, Remembered, WritersResume, Settling, Swapping, TypeOK,
       Operation, Goto, Fail, history
  <1>12. CASE Tar
    BY <1>12 DEF Tar, Remembered, WritersResume, Settling, Swapping, TypeOK, Operation,
       Goto, Fail, history
  <1>13. CASE Dump
    BY <1>13 DEF Dump, Remembered, WritersResume, Settling, Swapping, TypeOK, Operation,
       Goto, Fail, history
  <1>14. CASE BuildFails
    BY <1>14 DEF BuildFails, Remembered, WritersResume, Settling, Swapping, TypeOK,
       Operation, Goto, Fail, history
  <1>15. CASE Start
    BY <1>15 DEF Start, Remembered, WritersResume, Settling, Swapping, TypeOK, Operation,
       Goto, Fail, history
  <1>16. CASE StartFails
    BY <1>16 DEF StartFails, Remembered, WritersResume, Settling, Swapping, TypeOK,
       Operation, Goto, Fail, history
  <1>17. CASE Move
    <2>1. reg'.access = reg.access
      BY <1>17 DEF Move, TypeOK, Registry
    <2> QED BY <1>17, <2>1 DEF Move, Remembered, WritersResume, Settling, Swapping, TypeOK, Operation, Goto, Fail, history
  <1>18. CASE MoveFails
    BY <1>18 DEF MoveFails, Remembered, WritersResume, Settling, Swapping, TypeOK,
       Operation, Goto, Fail, history
  <1>19. CASE Record
    BY <1>19 DEF Record, Remembered, WritersResume, Settling, Swapping, TypeOK, Operation,
       Goto, Fail, history
  <1>20. CASE Send
    <2>1. reg'.access = reg.access
      BY <1>20 DEF Send, TypeOK, Registry
    <2> QED BY <1>20, <2>1 DEF Send, Remembered, WritersResume, Settling, Swapping, TypeOK, Operation, Goto, Fail, history
  <1>21. CASE Settle
    <2>1. /\ reg'.access = reg.access /\ op'.before = op.before /\ op'.at \in {"inspect", "answer"}
          /\ UNCHANGED running
      BY <1>21 DEF Settle, Goto, Fail, TypeOK, Registry, Operation
    <2> QED BY <1>21, <2>1 DEF Settle, Remembered, WritersResume, Settling, Swapping
  <1>22. CASE RecordFails
    BY <1>22 DEF RecordFails, Remembered, WritersResume, Settling, Swapping, TypeOK,
       Operation, Goto, Fail, history
  <1>23. CASE Inspect
    BY <1>23 DEF Inspect, Remembered, WritersResume, Settling, Swapping, TypeOK, Operation,
       Goto, Fail, history
  <1>24. CASE InspectFails
    BY <1>24 DEF InspectFails, Remembered, WritersResume, Settling, Swapping, TypeOK,
       Operation, Goto, Fail, history
  <1>25. CASE Disable
    BY <1>25 DEF Disable, Remembered, WritersResume, Settling, Swapping, TypeOK, Operation,
       Goto, Fail, history
  <1>26. CASE DisableFails
    <2>1. /\ op'.at = "resume" /\ op'.before = op.before /\ op'.was = op.was
          /\ op'.access = op.access
      BY <1>26 DEF DisableFails, TypeOK, Operation
    <2> QED BY <1>26, <2>1 DEF DisableFails, Remembered, WritersResume, Settling, Swapping
  <1>27. CASE Stop
    BY <1>27 DEF Stop, Remembered, WritersResume, Settling, Swapping, TypeOK, Operation,
       Goto, Fail, history
  <1>28. CASE StopFails
    <2>1. /\ op'.at = "resume" /\ op'.before = op.before /\ op'.was = op.was
          /\ op'.access = op.access
      BY <1>28 DEF StopFails, TypeOK, Operation
    <2> QED BY <1>28, <2>1 DEF StopFails, Remembered, WritersResume, Settling, Swapping
  <1>29. CASE Clear
    BY <1>29 DEF Clear, Remembered, WritersResume, Settling, Swapping, TypeOK, Operation,
       Goto, Fail, history
  <1>30. CASE Extract
    BY <1>30 DEF Extract, Remembered, WritersResume, Settling, Swapping, TypeOK, Operation,
       Goto, Fail, history
  <1>31. CASE Load
    BY <1>31 DEF Load, Remembered, WritersResume, Settling, Swapping, TypeOK, Operation,
       Goto, Fail, history
  <1>32. CASE SwapFails
    <2>1. /\ op'.at = "resume" /\ op'.before = op.before /\ op'.was = op.was
          /\ op'.access = op.access
      BY <1>32 DEF SwapFails, TypeOK, Operation
    <2>2. op.at \in {"clear", "extract", "load"}
      BY <1>32 DEF SwapFails
    <2> QED BY <2>1, <2>2 DEF Remembered, WritersResume, Settling, Swapping
  <1>33. CASE Resume
    <2>1. /\ op'.at = "answer" /\ op'.before = op.before
          /\ running' = (running \ {"sftp"}) \cup op.was \cup (IF op.access THEN {"sftp"} ELSE {})
      BY <1>33 DEF Resume, Goto, TypeOK, Operation
    <2>2. /\ op.before \subseteq Containers \cup {"sftp"}
          /\ op.before \cap Containers \subseteq op.was
          /\ "sftp" \in op.before => op.access
      BY <1>33 DEF Resume, Remembered, Swapping, Containers, TypeOK, Operation
    <2> QED BY <2>1, <2>2 DEF Remembered, WritersResume, Settling, Swapping
  <1>34. CASE ResumeFails
    <2>1. /\ op.before \subseteq Containers \cup {"sftp"}
          /\ op.before \cap Containers \subseteq op.was
          /\ "sftp" \in op.before => op.access
      BY <1>34 DEF ResumeFails, Remembered, Swapping, Containers, TypeOK, Operation
    <2>2. PICK down \in SUBSET (op.was \cup (Writers \cap {"sftp"})) :
            /\ op' = [op EXCEPT !.at = "answer", !.result = "error", !.broke = down]
            /\ IF "sftp" \in down
                THEN running' = running \cup (op.was \ down)
                ELSE running' = (running \ {"sftp"}) \cup (op.was \ down)
                                  \cup (IF op.access THEN {"sftp"} ELSE {})
      BY <1>34 DEF ResumeFails
    <2>3. op'.at = "answer" /\ op'.result = "error" /\ op'.broke = down /\ op'.before = op.before
      BY <2>2 DEF TypeOK, Operation
    <2> QED BY <2>1, <2>2, <2>3 DEF Remembered, WritersResume, Settling, Swapping
  <1>35. CASE Answer
    BY <1>35 DEF Answer, Idle, Remembered, WritersResume, Settling, Swapping
  <1>36. CASE AnswerFails
    BY <1>36 DEF AnswerFails, Idle, Remembered, WritersResume, Settling, Swapping
  <1>37. CASE Crash
    BY <1>37 DEF Crash, Idle, Remembered, WritersResume, Settling, Swapping
  <1>38. CASE UNCHANGED vars
    BY <1>38 DEF vars, Remembered, WritersResume, Settling, Swapping, TypeOK, Operation,
       Goto, Fail, history
  <1> QED BY <1>1, <1>2, <1>3, <1>4, <1>5, <1>6, <1>7, <1>8, <1>9, <1>10, <1>11, <1>12,
     <1>13, <1>14, <1>15, <1>16, <1>17, <1>18, <1>19, <1>20, <1>21, <1>22, <1>23, <1>24,
     <1>25, <1>26, <1>27, <1>28, <1>29, <1>30, <1>31, <1>32, <1>33, <1>34, <1>35, <1>36,
     <1>37, <1>38 DEF Next

LEMMA StepSwapped == TypeOK /\ Course /\ Swapped /\ [Next]_vars => Swapped'
  <1> SUFFICES ASSUME TypeOK /\ Course /\ Swapped, [Next]_vars PROVE Swapped'
    OBVIOUS
  <1>1. ASSUME NEW w \in Writes, AppWrite(w)
        PROVE  Swapped'
    <2>1. /\ data.files \subseteq data'.files /\ data.tables \subseteq data'.tables
          /\ data'.tables \subseteq data.tables \cup {w}
          /\ data'.tables = data.tables \/ "app" \in running
          /\ since' = since \cup {w} /\ UNCHANGED <<running, op>>
      BY <1>1 DEF AppWrite, TypeOK, Data
    <2> QED BY <2>1 DEF Swapped, RestoreIsWhole
  <1>2. ASSUME NEW w \in Writes, FileWrite(w)
        PROVE  Swapped'
    <2>1. /\ data.files \subseteq data'.files /\ data.tables \subseteq data'.tables
          /\ data'.tables \subseteq data.tables \cup {w}
          /\ data'.tables = data.tables \/ "app" \in running
          /\ since' = since \cup {w} /\ UNCHANGED <<running, op>>
      BY <1>2 DEF FileWrite, TypeOK, Data
    <2> QED BY <2>1 DEF Swapped, RestoreIsWhole
  <1>3. ASSUME NEW w \in Writers, Switch(w)
        PROVE  Swapped'
    <2>1. op'.at = "idle"
      BY <1>3 DEF Switch
    <2> QED BY <2>1 DEF Swapped, RestoreIsWhole
  <1>4. ASSUME NEW b \in Ids, NEW plan \in BOOLEAN, NEW quiesce \in BOOLEAN,
              NEW remote \in BOOLEAN, CreateBegin(b, plan, quiesce, remote)
        PROVE  Swapped'
    <2>1. op'.at = "pause"
      BY <1>4, Begun
    <2> QED BY <2>1 DEF Swapped, RestoreIsWhole
  <1>5. ASSUME NEW b \in Ids, CreateAgain(b)
        PROVE  Swapped'
    <2>1. op'.at = "answer" /\ (op'.verb = "restore" => op'.result = "error")
      BY <1>5, Immediate
    <2> QED BY <2>1 DEF Swapped, RestoreIsWhole
  <1>6. ASSUME NEW b \in Ids, Delete(b)
        PROVE  Swapped'
    <2>1. op'.at = "answer" /\ (op'.verb = "restore" => op'.result = "error")
      BY <1>6, Immediate
    <2> QED BY <2>1 DEF Swapped, RestoreIsWhole
  <1>7. ASSUME NEW b \in Ids, Deliver(b)
        PROVE  Swapped'
    <2>1. op'.at = "answer" /\ (op'.verb = "restore" => op'.result = "error")
      BY <1>7, Immediate
    <2> QED BY <2>1 DEF Swapped, RestoreIsWhole
  <1>8. ASSUME NEW b \in Ids, RestoreRefused(b)
        PROVE  Swapped'
    <2>1. op'.at = "answer" /\ (op'.verb = "restore" => op'.result = "error")
      BY <1>8, Immediate
    <2> QED BY <2>1 DEF Swapped, RestoreIsWhole
  <1>9. ASSUME NEW b \in Ids, NEW r \in Ids, RestoreBegin(b, r)
        PROVE  Swapped'
    <2>1. op'.at = "pause"
      BY <1>9, Begun
    <2> QED BY <2>1 DEF Swapped, RestoreIsWhole
  <1>10. CASE Pause
    BY <1>10 DEF Pause, Swapped, RestoreIsWhole, TypeOK, Operation, Data, Goto, Fail,
       history
  <1>11. CASE PauseFails
    BY <1>11 DEF PauseFails, Swapped, RestoreIsWhole, TypeOK, Operation, Data, Goto, Fail,
       history
  <1>12. CASE Tar
    BY <1>12 DEF Tar, Swapped, RestoreIsWhole, TypeOK, Operation, Data, Goto, Fail, history
  <1>13. CASE Dump
    BY <1>13 DEF Dump, Swapped, RestoreIsWhole, TypeOK, Operation, Data, Goto, Fail, history
  <1>14. CASE BuildFails
    BY <1>14 DEF BuildFails, Swapped, RestoreIsWhole, TypeOK, Operation, Data, Goto, Fail,
       history
  <1>15. CASE Start
    <2>1. op' = [op EXCEPT !.at = IF op.result = "ok" THEN "move" ELSE "answer"]
      BY <1>15 DEF Start, Goto
    <2>2. op'.at \in {"move", "answer"} /\ (op'.at = "answer" => op'.result # "ok")
      BY <2>1 DEF TypeOK, Operation
    <2> QED BY <2>2 DEF Swapped, RestoreIsWhole
  <1>16. CASE StartFails
    BY <1>16 DEF StartFails, Swapped, RestoreIsWhole, TypeOK, Operation, Data, Goto, Fail,
       history
  <1>17. CASE Move
    BY <1>17 DEF Move, Swapped, RestoreIsWhole, TypeOK, Operation, Data, Goto, Fail, history
  <1>18. CASE MoveFails
    BY <1>18 DEF MoveFails, Swapped, RestoreIsWhole, TypeOK, Operation, Data, Goto, Fail,
       history
  <1>19. CASE Record
    BY <1>19 DEF Record, Swapped, RestoreIsWhole, TypeOK, Operation, Data, Goto, Fail,
       history
  <1>20. CASE Send
    BY <1>20 DEF Send, Swapped, RestoreIsWhole, TypeOK, Operation, Data, Goto, Fail, history
  <1>21. CASE Settle
    <2>1. \/ op'.at = "inspect"
          \/ op'.at = "answer" /\ (op'.verb # "restore" \/ op'.result = "error")
      BY <1>21 DEF Settle, Goto, Fail, TypeOK, Operation
    <2> QED BY <2>1 DEF Swapped, RestoreIsWhole
  <1>22. CASE RecordFails
    BY <1>22 DEF RecordFails, Swapped, RestoreIsWhole, TypeOK, Operation, Data, Goto, Fail,
       history
  <1>23. CASE Inspect
    BY <1>23 DEF Inspect, Swapped, RestoreIsWhole, TypeOK, Operation, Data, Goto, Fail,
       history
  <1>24. CASE InspectFails
    BY <1>24 DEF InspectFails, Swapped, RestoreIsWhole, TypeOK, Operation, Data, Goto, Fail,
       history
  <1>25. CASE Disable
    BY <1>25 DEF Disable, Swapped, RestoreIsWhole, TypeOK, Operation, Data, Goto, Fail,
       history
  <1>26. CASE DisableFails
    <2>1. op'.at = "resume" /\ op'.result = "error"
      BY <1>26 DEF DisableFails, TypeOK, Operation
    <2> QED BY <2>1 DEF Swapped, RestoreIsWhole
  <1>27. CASE Stop
    <2>1. op'.at = "clear" /\ "app" \notin running'
      BY <1>27, ConstantsAssumption DEF Stop, Goto, Swapped, Containers, TypeOK, Operation
    <2> QED BY <2>1 DEF Swapped, RestoreIsWhole
  <1>28. CASE StopFails
    <2>1. op'.at = "resume" /\ op'.result = "error"
      BY <1>28 DEF StopFails, TypeOK, Operation
    <2> QED BY <2>1 DEF Swapped, RestoreIsWhole
  <1>29. CASE Clear
    BY <1>29 DEF Clear, Swapped, RestoreIsWhole, TypeOK, Operation, Data, Goto, Fail,
       history
  <1>30. CASE Extract
    <2>1. /\ op'.at = "load" /\ op'.staged = op.staged /\ op.staged.files \subseteq data'.files
          /\ UNCHANGED running
      BY <1>30 DEF Extract, Goto, TypeOK, Operation, Data
    <2> QED BY <1>30, <2>1 DEF Extract, Swapped, RestoreIsWhole
  <1>31. CASE Load
    <2>1. /\ op'.at = "resume" /\ op'.staged = op.staged /\ data'.files = data.files
          /\ data'.tables = op.staged.tables /\ UNCHANGED running
      BY <1>31 DEF Load, Goto, TypeOK, Operation, Data
    <2> QED BY <1>31, <2>1 DEF Load, Swapped, RestoreIsWhole
  <1>32. CASE SwapFails
    <2>1. op'.at = "resume" /\ op'.result = "error"
      BY <1>32 DEF SwapFails, TypeOK, Operation
    <2> QED BY <2>1 DEF Swapped, RestoreIsWhole
  <1>33. CASE Resume
    <2>1. /\ op'.at = "answer" /\ op'.staged = op.staged /\ op'.result = op.result
          /\ UNCHANGED data
      BY <1>33 DEF Resume, Goto, TypeOK, Operation
    <2> QED BY <1>33, <2>1 DEF Resume, Swapped, RestoreIsWhole
  <1>34. CASE ResumeFails
    <2>1. op'.at = "answer" /\ op'.result = "error"
      BY <1>34 DEF ResumeFails, TypeOK, Operation
    <2> QED BY <2>1 DEF Swapped, RestoreIsWhole
  <1>35. CASE Answer
    BY <1>35 DEF Answer, Idle, Swapped, RestoreIsWhole
  <1>36. CASE AnswerFails
    BY <1>36 DEF AnswerFails, Idle, Swapped, RestoreIsWhole
  <1>37. CASE Crash
    BY <1>37 DEF Crash, Idle, Swapped, RestoreIsWhole
  <1>38. CASE UNCHANGED vars
    BY <1>38 DEF vars, Swapped, RestoreIsWhole, TypeOK, Operation, Data, Goto, Fail, history
  <1> QED BY <1>1, <1>2, <1>3, <1>4, <1>5, <1>6, <1>7, <1>8, <1>9, <1>10, <1>11, <1>12,
     <1>13, <1>14, <1>15, <1>16, <1>17, <1>18, <1>19, <1>20, <1>21, <1>22, <1>23, <1>24,
     <1>25, <1>26, <1>27, <1>28, <1>29, <1>30, <1>31, <1>32, <1>33, <1>34, <1>35, <1>36,
     <1>37, <1>38 DEF Next

LEMMA StepDated == TypeOK /\ Course /\ InPlace /\ Dated /\ [Next]_vars => Dated'
  <1> SUFFICES ASSUME TypeOK /\ Course /\ InPlace /\ Dated, [Next]_vars PROVE Dated'
    OBVIOUS
  <1>1. ASSUME NEW w \in Writes, AppWrite(w)
        PROVE  Dated'
    BY <1>1 DEF AppWrite, Dated, Settling, TypeOK, Operation, Registry, Goto, Fail, history
  <1>2. ASSUME NEW w \in Writes, FileWrite(w)
        PROVE  Dated'
    BY <1>2 DEF FileWrite, Dated, Settling, TypeOK, Operation, Registry, Goto, Fail, history
  <1>3. ASSUME NEW w \in Writers, Switch(w)
        PROVE  Dated'
    <2>1. op'.at = "idle" /\ reg'.list = reg.list /\ saved' = reg' /\ UNCHANGED drawn
      BY <1>3 DEF Switch, TypeOK, Registry
    <2> QED BY <2>1 DEF Dated, Settling
  <1>4. ASSUME NEW b \in Ids, NEW plan \in BOOLEAN, NEW quiesce \in BOOLEAN,
              NEW remote \in BOOLEAN, CreateBegin(b, plan, quiesce, remote)
        PROVE  Dated'
    <2> DEFINE n == b
    <2>1. op'.at = "pause" /\ n \notin drawn /\ drawn' = drawn \cup {n} /\ UNCHANGED <<reg, saved>>
      BY <1>4, Begun
    <2>2. Cardinality(drawn') = Cardinality(drawn) + 1 /\ Cardinality(drawn) \in Nat
      BY <2>1, Bounded DEF TypeOK
    <2>3. \A c \in Ids : /\ reg.list[c] # None => reg.list[c].created \in Nat
                         /\ saved.list[c] # None => saved.list[c].created \in Nat
      BY DEF TypeOK, Registry, Entry
    <2> HIDE DEF n
    <2>4. \A c \in Ids : /\ reg.list[c] # None => reg.list[c].created <= Cardinality(drawn) + 1
                         /\ saved.list[c] # None => saved.list[c].created <= Cardinality(drawn) + 1
      BY <2>2, <2>3 DEF Dated
    <2> QED BY <2>1, <2>2, <2>4 DEF Dated, Settling
  <1>5. ASSUME NEW b \in Ids, CreateAgain(b)
        PROVE  Dated'
    <2>1. /\ op'.at = "answer" /\ UNCHANGED <<saved, drawn>>
          /\ \A c \in Ids : reg'.list[c] # None =>
                reg.list[c] # None /\ reg'.list[c].created = reg.list[c].created
      BY <1>5, Immediate
    <2> QED BY <2>1 DEF Dated, Settling
  <1>6. ASSUME NEW b \in Ids, Delete(b)
        PROVE  Dated'
    <2>1. /\ op'.at = "answer" /\ UNCHANGED <<saved, drawn>>
          /\ \A c \in Ids : reg'.list[c] # None =>
                reg.list[c] # None /\ reg'.list[c].created = reg.list[c].created
      BY <1>6, Immediate
    <2> QED BY <2>1 DEF Dated, Settling
  <1>7. ASSUME NEW b \in Ids, Deliver(b)
        PROVE  Dated'
    <2>1. /\ op'.at = "answer" /\ UNCHANGED <<saved, drawn>>
          /\ \A c \in Ids : reg'.list[c] # None =>
                reg.list[c] # None /\ reg'.list[c].created = reg.list[c].created
      BY <1>7, Immediate
    <2> QED BY <2>1 DEF Dated, Settling
  <1>8. ASSUME NEW b \in Ids, RestoreRefused(b)
        PROVE  Dated'
    <2>1. /\ op'.at = "answer" /\ UNCHANGED <<saved, drawn>>
          /\ \A c \in Ids : reg'.list[c] # None =>
                reg.list[c] # None /\ reg'.list[c].created = reg.list[c].created
      BY <1>8, Immediate
    <2> QED BY <2>1 DEF Dated, Settling
  <1>9. ASSUME NEW b \in Ids, NEW r \in Ids, RestoreBegin(b, r)
        PROVE  Dated'
    <2> DEFINE n == r
    <2>1. op'.at = "pause" /\ n \notin drawn /\ drawn' = drawn \cup {n} /\ UNCHANGED <<reg, saved>>
      BY <1>9, Begun
    <2>2. Cardinality(drawn') = Cardinality(drawn) + 1 /\ Cardinality(drawn) \in Nat
      BY <2>1, Bounded DEF TypeOK
    <2>3. \A c \in Ids : /\ reg.list[c] # None => reg.list[c].created \in Nat
                         /\ saved.list[c] # None => saved.list[c].created \in Nat
      BY DEF TypeOK, Registry, Entry
    <2> HIDE DEF n
    <2>4. \A c \in Ids : /\ reg.list[c] # None => reg.list[c].created <= Cardinality(drawn) + 1
                         /\ saved.list[c] # None => saved.list[c].created <= Cardinality(drawn) + 1
      BY <2>2, <2>3 DEF Dated
    <2> QED BY <2>1, <2>2, <2>4 DEF Dated, Settling
  <1>10. CASE Pause
    BY <1>10 DEF Pause, Dated, Settling, TypeOK, Operation, Registry, Goto, Fail, history
  <1>11. CASE PauseFails
    BY <1>11 DEF PauseFails, Dated, Settling, TypeOK, Operation, Registry, Goto, Fail,
       history
  <1>12. CASE Tar
    BY <1>12 DEF Tar, Dated, Settling, TypeOK, Operation, Registry, Goto, Fail, history
  <1>13. CASE Dump
    BY <1>13 DEF Dump, Dated, Settling, TypeOK, Operation, Registry, Goto, Fail, history
  <1>14. CASE BuildFails
    BY <1>14 DEF BuildFails, Dated, Settling, TypeOK, Operation, Registry, Goto, Fail,
       history
  <1>15. CASE Start
    BY <1>15 DEF Start, Dated, Settling, TypeOK, Operation, Registry, Goto, Fail, history
  <1>16. CASE StartFails
    BY <1>16 DEF StartFails, Dated, Settling, TypeOK, Operation, Registry, Goto, Fail,
       history
  <1>17. CASE Move
    <2>1. op.id \in Ids /\ op.plan \in BOOLEAN
      BY <1>17 DEF Move, Course, TypeOK, Operation
    <2> DEFINE e == [plan |-> op.plan, created |-> Cardinality(drawn), sent |-> FALSE]
    <2>2. e.created = Cardinality(drawn) /\ e.plan = op.plan
      OBVIOUS
    <2> HIDE DEF e
    <2>3. /\ reg' = [reg EXCEPT !.list[op.id] = e]
          /\ op'.at = "record" /\ op'.id = op.id /\ op'.plan = op.plan
          /\ UNCHANGED <<saved, drawn>>
      BY <1>17 DEF Move, TypeOK, Operation, e
    <2>4. /\ reg'.list[op.id] = e
          /\ \A c \in Ids \ {op.id} : reg'.list[c] = reg.list[c]
      BY <2>1, <2>3 DEF TypeOK, Registry
    <2>5. Cardinality(drawn) \in Nat
      BY Bounded DEF TypeOK
    <2> QED BY <2>1, <2>2, <2>3, <2>4, <2>5 DEF Dated, Settling
  <1>18. CASE MoveFails
    BY <1>18 DEF MoveFails, Dated, Settling, TypeOK, Operation, Registry, Goto, Fail,
       history
  <1>19. CASE Record
    BY <1>19 DEF Record, Dated, Settling, TypeOK, Operation, Registry, Goto, Fail, history
  <1>20. CASE Send
    <2>1. op.id \in Ids /\ reg.list[op.id] # None
      BY <1>20 DEF Send, Course, InPlace, Settling, TypeOK
    <2>2. \A c \in Ids : /\ reg'.list[c] # None <=> reg.list[c] # None
                         /\ reg'.list[c].created = reg.list[c].created
                         /\ reg'.list[c].plan = reg.list[c].plan
      BY <1>20, <2>1, SentOnly DEF Send
    <2>3. /\ op'.at = "settle" /\ op'.id = op.id /\ op'.plan = op.plan
          /\ UNCHANGED <<saved, drawn>>
      BY <1>20 DEF Send, Goto, TypeOK, Operation
    <2> QED BY <1>20, <2>1, <2>2, <2>3 DEF Send, Dated, Settling
  <1>21. CASE Settle
    <2>1. op'.at \in {"inspect", "answer"} /\ saved' = reg /\ UNCHANGED drawn
      BY <1>21 DEF Settle, Goto, Fail, TypeOK, Operation
    <2>2. \A c \in Ids : reg'.list[c] # None => reg'.list[c] = reg.list[c]
      <3>1. CASE reg.list[op.id].sent
        BY <1>21, <3>1 DEF Settle, TypeOK, Registry
      <3>2. CASE ~reg.list[op.id].sent
        BY <1>21, <3>2 DEF Settle
      <3> QED BY <3>1, <3>2
    <2> QED BY <2>1, <2>2 DEF Dated, Settling
  <1>22. CASE RecordFails
    BY <1>22 DEF RecordFails, Dated, Settling, TypeOK, Operation, Registry, Goto, Fail,
       history
  <1>23. CASE Inspect
    BY <1>23 DEF Inspect, Dated, Settling, TypeOK, Operation, Registry, Goto, Fail, history
  <1>24. CASE InspectFails
    BY <1>24 DEF InspectFails, Dated, Settling, TypeOK, Operation, Registry, Goto, Fail,
       history
  <1>25. CASE Disable
    <2>1. /\ reg'.list = reg.list /\ op'.at \in {"stop", "resume", "answer"}
          /\ UNCHANGED <<saved, drawn>>
      BY <1>25 DEF Disable, Goto, TypeOK, Registry, Operation
    <2> QED BY <2>1 DEF Dated, Settling
  <1>26. CASE DisableFails
    <2>1. /\ reg'.list = reg.list /\ op'.at \in {"stop", "resume", "answer"}
          /\ UNCHANGED <<saved, drawn>>
      BY <1>26 DEF DisableFails, Goto, TypeOK, Registry, Operation
    <2> QED BY <2>1 DEF Dated, Settling
  <1>27. CASE Stop
    BY <1>27 DEF Stop, Dated, Settling, TypeOK, Operation, Registry, Goto, Fail, history
  <1>28. CASE StopFails
    BY <1>28 DEF StopFails, Dated, Settling, TypeOK, Operation, Registry, Goto, Fail,
       history
  <1>29. CASE Clear
    BY <1>29 DEF Clear, Dated, Settling, TypeOK, Operation, Registry, Goto, Fail, history
  <1>30. CASE Extract
    BY <1>30 DEF Extract, Dated, Settling, TypeOK, Operation, Registry, Goto, Fail, history
  <1>31. CASE Load
    BY <1>31 DEF Load, Dated, Settling, TypeOK, Operation, Registry, Goto, Fail, history
  <1>32. CASE SwapFails
    BY <1>32 DEF SwapFails, Dated, Settling, TypeOK, Operation, Registry, Goto, Fail,
       history
  <1>33. CASE Resume
    <2>1. /\ reg'.list = reg.list /\ op'.at \in {"stop", "resume", "answer"}
          /\ UNCHANGED <<saved, drawn>>
      BY <1>33 DEF Resume, Goto, TypeOK, Registry, Operation
    <2> QED BY <2>1 DEF Dated, Settling
  <1>34. CASE ResumeFails
    <2>1. /\ reg'.list = reg.list /\ op'.at \in {"stop", "resume", "answer"}
          /\ UNCHANGED <<saved, drawn>>
      BY <1>34 DEF ResumeFails, Goto, TypeOK, Registry, Operation
    <2> QED BY <2>1 DEF Dated, Settling
  <1>35. CASE Answer
    BY <1>35 DEF Answer, Idle, Dated, Settling, history
  <1>36. CASE AnswerFails
    BY <1>36 DEF AnswerFails, Idle, Dated, Settling, history
  <1>37. CASE Crash
    BY <1>37 DEF Crash, Idle, Dated, Settling, history
  <1>38. CASE UNCHANGED vars
    BY <1>38 DEF vars, Dated, Settling, TypeOK, Operation, Registry, Goto, Fail, history
  <1> QED BY <1>1, <1>2, <1>3, <1>4, <1>5, <1>6, <1>7, <1>8, <1>9, <1>10, <1>11, <1>12,
     <1>13, <1>14, <1>15, <1>16, <1>17, <1>18, <1>19, <1>20, <1>21, <1>22, <1>23, <1>24,
     <1>25, <1>26, <1>27, <1>28, <1>29, <1>30, <1>31, <1>32, <1>33, <1>34, <1>35, <1>36,
     <1>37, <1>38 DEF Next

-----------------------------------------------------------------------------
(* The invariant, and what follows from it. *)

LEMMA InitInv == Init => Inv
  <1> SUFFICES ASSUME Init PROVE Inv
    OBVIOUS
  <1>1. TypeOK
    BY InitType
  <1>2. op.at = "idle" /\ op.plan = FALSE /\ op.copy = Blank /\ op.result = "ok"
    BY DEF Init, Idle
  <1>3. \A b \in Ids : disk[b] = None /\ reg.list[b] = None /\ saved.list[b] = None
    BY DEF Init
  <1>4. Course /\ Quiet
    BY <1>2, <1>3 DEF Course, Quiet, SameMoment, Swapping, Blank
  <1>5. InPlace
    BY <1>2, <1>3 DEF Init, InPlace, AnsweredIsKept, Settling, Swapping
  <1>6. Covered /\ Remembered /\ Swapped /\ Dated
    BY <1>2, <1>3 DEF Covered, Remembered, WritersResume, Swapped, RestoreIsWhole, Dated,
       Settling, Swapping
  <1> QED BY <1>1, <1>4, <1>5, <1>6 DEF Inv

LEMMA StepInv == Inv /\ [Next]_vars => Inv'
  BY StepType, StepCourse, StepQuiet, StepInPlace, StepCovered, StepRemembered, StepSwapped,
     StepDated DEF Inv

\* The inductive invariant holds of every reachable state of backups and restores.
THEOREM Invariance == Spec => []Inv
  BY InitInv, StepInv, PTL DEF Spec

\* Every variable stays in its range.
THEOREM TypeCorrect == Spec => []TypeOK
  <1>1. Inv => TypeOK
    BY DEF Inv
  <1> QED BY Invariance, <1>1, PTL

\* The files and the SQL dumps of an archive made with quiesce are of one moment
\* (full_backup_create stops the application around build).
THEOREM ArchivesAreOfOneMoment == Spec => []SameMoment
  <1>1. Inv => SameMoment
    BY DEF Inv, Quiet
  <1> QED BY Invariance, <1>1, PTL

\* An operation that answers has started again what it stopped, except what could not be
\* started, and has then not answered with success (full_backup_create, full_backup_restore).
THEOREM WritersAreResumed == Spec => []WritersResume
  <1>1. Inv => WritersResume
    BY DEF Inv, Remembered
  <1> QED BY Invariance, <1>1, PTL

\* A restore that succeeded brought back all of its archive.
THEOREM RestoresAreWhole == Spec => []RestoreIsWhole
  <1>1. Inv => RestoreIsWhole
    BY DEF Inv, Swapped
  <1> QED BY Invariance, <1>1, PTL

\* An archive whose creation was answered with success stays, through failures and crashes,
\* until its deletion begins.
THEOREM AnsweredArchivesAreKept == Spec => []AnsweredIsKept
  <1>1. Inv => AnsweredIsKept
    BY DEF Inv, InPlace
  <1> QED BY Invariance, <1>1, PTL

\* What a step destroys, and is not in the recovery archive.
Lost ==
    {w \in (data.files \ data'.files) \cup (data.tables \ data'.tables) :
       ~ \/ w \in since
         \/ /\ op.id # None
            /\ saved.list[op.id] # None /\ disk[op.id] # None
            /\ w \in data.files \ data'.files => w \in disk[op.id].files
            /\ w \in data.tables \ data'.tables => w \in disk[op.id].tables}

LEMMA NothingLost == TypeOK /\ Course /\ InPlace /\ Covered /\ [Next]_vars => Lost = {}
  <1> SUFFICES ASSUME TypeOK /\ Course /\ InPlace /\ Covered, [Next]_vars PROVE Lost = {}
    OBVIOUS
  <1>1. ASSUME NEW w \in Writes, AppWrite(w)
        PROVE  Lost = {}
    BY <1>1 DEF AppWrite, Lost, history, TypeOK, Data
  <1>2. ASSUME NEW w \in Writes, FileWrite(w)
        PROVE  Lost = {}
    BY <1>2 DEF FileWrite, Lost, history, TypeOK, Data
  <1>3. ASSUME NEW w \in Writers, Switch(w)
        PROVE  Lost = {}
    BY <1>3 DEF Switch, Lost, history, TypeOK, Data
  <1>4. ASSUME NEW b \in Ids, NEW plan \in BOOLEAN, NEW quiesce \in BOOLEAN,
              NEW remote \in BOOLEAN, CreateBegin(b, plan, quiesce, remote)
        PROVE  Lost = {}
    BY <1>4, Begun DEF Lost
  <1>5. ASSUME NEW b \in Ids, CreateAgain(b)
        PROVE  Lost = {}
    BY <1>5, Immediate DEF Lost
  <1>6. ASSUME NEW b \in Ids, Delete(b)
        PROVE  Lost = {}
    BY <1>6, Immediate DEF Lost
  <1>7. ASSUME NEW b \in Ids, Deliver(b)
        PROVE  Lost = {}
    BY <1>7, Immediate DEF Lost
  <1>8. ASSUME NEW b \in Ids, RestoreRefused(b)
        PROVE  Lost = {}
    BY <1>8, Immediate DEF Lost
  <1>9. ASSUME NEW b \in Ids, NEW r \in Ids, RestoreBegin(b, r)
        PROVE  Lost = {}
    BY <1>9, Begun DEF Lost
  <1>10. CASE Pause
    BY <1>10 DEF Pause, Lost, history, TypeOK, Data
  <1>11. CASE PauseFails
    BY <1>11 DEF PauseFails, Lost, history, TypeOK, Data
  <1>12. CASE Tar
    BY <1>12 DEF Tar, Lost, history, TypeOK, Data
  <1>13. CASE Dump
    BY <1>13 DEF Dump, Lost, history, TypeOK, Data
  <1>14. CASE BuildFails
    BY <1>14 DEF BuildFails, Lost, history, TypeOK, Data
  <1>15. CASE Start
    BY <1>15 DEF Start, Lost, history, TypeOK, Data
  <1>16. CASE StartFails
    BY <1>16 DEF StartFails, Lost, history, TypeOK, Data
  <1>17. CASE Move
    BY <1>17 DEF Move, Lost, history, TypeOK, Data
  <1>18. CASE MoveFails
    BY <1>18 DEF MoveFails, Lost, history, TypeOK, Data
  <1>19. CASE Record
    BY <1>19 DEF Record, Lost, history, TypeOK, Data
  <1>20. CASE Send
    BY <1>20 DEF Send, Lost, history, TypeOK, Data
  <1>21. CASE Settle
    BY <1>21 DEF Settle, Lost, history, TypeOK, Data
  <1>22. CASE RecordFails
    BY <1>22 DEF RecordFails, Lost, history, TypeOK, Data
  <1>23. CASE Inspect
    BY <1>23 DEF Inspect, Lost, history, TypeOK, Data
  <1>24. CASE InspectFails
    BY <1>24 DEF InspectFails, Lost, history, TypeOK, Data
  <1>25. CASE Disable
    BY <1>25 DEF Disable, Lost, history, TypeOK, Data
  <1>26. CASE DisableFails
    BY <1>26 DEF DisableFails, Lost, history, TypeOK, Data
  <1>27. CASE Stop
    BY <1>27 DEF Stop, Lost, history, TypeOK, Data
  <1>28. CASE StopFails
    BY <1>28 DEF StopFails, Lost, history, TypeOK, Data
  <1>29. CASE Clear
    <2>1. /\ op.id \in Ids /\ disk[op.id] \in Archive /\ data.files \subseteq disk[op.id].files \cup since
          /\ saved.list[op.id] # None
      BY <1>29 DEF Clear, Course, InPlace, Covered, Settling, Swapping, TypeOK
    <2>2. data'.tables = data.tables
      BY <1>29 DEF Clear, TypeOK, Data
    <2> QED BY <2>1, <2>2, ConstantsAssumption, NullAssumption DEF Lost
  <1>30. CASE Extract
    BY <1>30 DEF Extract, Lost, history, TypeOK, Data
  <1>31. CASE Load
    <2>1. /\ op.id \in Ids /\ disk[op.id] \in Archive /\ data.tables \subseteq disk[op.id].tables \cup since
          /\ saved.list[op.id] # None
      BY <1>31 DEF Load, Course, InPlace, Covered, Settling, Swapping, TypeOK
    <2>2. data'.files = data.files
      BY <1>31 DEF Load, TypeOK, Data
    <2> QED BY <2>1, <2>2, ConstantsAssumption, NullAssumption DEF Lost
  <1>32. CASE SwapFails
    <2>1. CASE op.at = "clear"
      <3>1. /\ op.id \in Ids /\ disk[op.id] \in Archive /\ data.files \subseteq disk[op.id].files \cup since
            /\ saved.list[op.id] # None
        BY <1>32, <2>1 DEF SwapFails, Course, InPlace, Covered, Settling, Swapping, TypeOK
      <3>2. data'.tables = data.tables
        BY <1>32, <2>1 DEF SwapFails, TypeOK, Data
      <3> QED BY <3>1, <3>2, ConstantsAssumption, NullAssumption DEF Lost
    <2>2. CASE op.at = "extract"
      BY <1>32, <2>2 DEF SwapFails, Lost, TypeOK, Data
    <2>3. CASE op.at = "load"
      <3>1. /\ op.id \in Ids /\ disk[op.id] \in Archive /\ data.tables \subseteq disk[op.id].tables \cup since
            /\ saved.list[op.id] # None
        BY <1>32, <2>3 DEF SwapFails, Course, InPlace, Covered, Settling, Swapping, TypeOK
      <3>2. data'.files = data.files
        BY <1>32, <2>3 DEF SwapFails, TypeOK, Data
      <3> QED BY <3>1, <3>2, ConstantsAssumption, NullAssumption DEF Lost
    <2> QED BY <1>32, <2>1, <2>2, <2>3 DEF SwapFails
  <1>33. CASE Resume
    BY <1>33 DEF Resume, Lost, history, TypeOK, Data
  <1>34. CASE ResumeFails
    BY <1>34 DEF ResumeFails, Lost, history, TypeOK, Data
  <1>35. CASE Answer
    BY <1>35 DEF Answer, Lost, history, TypeOK, Data
  <1>36. CASE AnswerFails
    BY <1>36 DEF AnswerFails, Lost, history, TypeOK, Data
  <1>37. CASE Crash
    BY <1>37 DEF Crash, Lost, history, TypeOK, Data
  <1>38. CASE UNCHANGED vars
    BY <1>38 DEF vars, Lost
  <1> QED BY <1>1, <1>2, <1>3, <1>4, <1>5, <1>6, <1>7, <1>8, <1>9, <1>10, <1>11, <1>12,
     <1>13, <1>14, <1>15, <1>16, <1>17, <1>18, <1>19, <1>20, <1>21, <1>22, <1>23, <1>24,
     <1>25, <1>26, <1>27, <1>28, <1>29, <1>30, <1>31, <1>32, <1>33, <1>34, <1>35, <1>36,
     <1>37, <1>38 DEF Next

\* A restore destroys only what its recovery archive holds or what was written after it.
THEOREM RecoveryComesFirst == Spec => RecoveryFirst
  <1>1. Inv /\ [Next]_vars =>
          [\A w \in (data.files \ data'.files) \cup (data.tables \ data'.tables) :
             \/ w \in since
             \/ /\ op.id # None
                /\ saved.list[op.id] # None /\ disk[op.id] # None
                /\ w \in data.files \ data'.files => w \in disk[op.id].files
                /\ w \in data.tables \ data'.tables => w \in disk[op.id].tables]_vars
    BY NothingLost DEF Inv, Lost
  <1> QED BY Invariance, <1>1, PTL DEF Spec, RecoveryFirst

\* A newer archive of the plan, delivered, is kept.
Newer(b) ==
    \E n \in Planned : /\ reg.list[n].created > reg.list[b].created
                       /\ reg.list[n].sent
                       /\ disk'[n] # None

LEMMA OldOnesGo ==
    TypeOK /\ Course /\ InPlace /\ Dated /\ [Next]_vars =>
      \A b \in Ids : disk[b] # None /\ disk'[b] = None /\ op.at = "settle" => Newer(b)
  <1> SUFFICES ASSUME TypeOK /\ Course /\ InPlace /\ Dated, [Next]_vars, NEW b \in Ids
               PROVE  disk[b] # None /\ disk'[b] = None /\ op.at = "settle" => Newer(b)
    OBVIOUS
  <1>1. ASSUME NEW w \in Writes, AppWrite(w)
        PROVE  disk[b] # None /\ disk'[b] = None /\ op.at = "settle" => Newer(b)
    BY <1>1 DEF AppWrite, history
  <1>2. ASSUME NEW w \in Writes, FileWrite(w)
        PROVE  disk[b] # None /\ disk'[b] = None /\ op.at = "settle" => Newer(b)
    BY <1>2 DEF FileWrite, history
  <1>3. ASSUME NEW w \in Writers, Switch(w)
        PROVE  disk[b] # None /\ disk'[b] = None /\ op.at = "settle" => Newer(b)
    BY <1>3 DEF Switch, history
  <1>4. ASSUME NEW a \in Ids, NEW plan \in BOOLEAN, NEW quiesce \in BOOLEAN,
              NEW remote \in BOOLEAN, CreateBegin(a, plan, quiesce, remote)
        PROVE  disk[b] # None /\ disk'[b] = None /\ op.at = "settle" => Newer(b)
    BY <1>4, Begun
  <1>5. ASSUME NEW a \in Ids, CreateAgain(a)
        PROVE  disk[b] # None /\ disk'[b] = None /\ op.at = "settle" => Newer(b)
    BY <1>5, Immediate
  <1>6. ASSUME NEW a \in Ids, Delete(a)
        PROVE  disk[b] # None /\ disk'[b] = None /\ op.at = "settle" => Newer(b)
    BY <1>6, Immediate
  <1>7. ASSUME NEW a \in Ids, Deliver(a)
        PROVE  disk[b] # None /\ disk'[b] = None /\ op.at = "settle" => Newer(b)
    BY <1>7, Immediate
  <1>8. ASSUME NEW a \in Ids, RestoreRefused(a)
        PROVE  disk[b] # None /\ disk'[b] = None /\ op.at = "settle" => Newer(b)
    BY <1>8, Immediate
  <1>9. ASSUME NEW a \in Ids, NEW r \in Ids, RestoreBegin(a, r)
        PROVE  disk[b] # None /\ disk'[b] = None /\ op.at = "settle" => Newer(b)
    BY <1>9, Begun
  <1>10. CASE Pause
    BY <1>10 DEF Pause, history
  <1>11. CASE PauseFails
    BY <1>11 DEF PauseFails, history
  <1>12. CASE Tar
    BY <1>12 DEF Tar, history
  <1>13. CASE Dump
    BY <1>13 DEF Dump, history
  <1>14. CASE BuildFails
    BY <1>14 DEF BuildFails, history
  <1>15. CASE Start
    BY <1>15 DEF Start, history
  <1>16. CASE StartFails
    BY <1>16 DEF StartFails, history
  <1>17. CASE Move
    BY <1>17 DEF Move, history
  <1>18. CASE MoveFails
    BY <1>18 DEF MoveFails, history
  <1>19. CASE Record
    BY <1>19 DEF Record, history
  <1>20. CASE Send
    BY <1>20 DEF Send, history
  <1>21. CASE Settle
    <2>1. op.id \in Ids /\ reg.list[op.id] \in Entry /\ disk[op.id] # None
          /\ reg.list[op.id].created = Cardinality(drawn) /\ reg.list[op.id].plan = op.plan
      BY <1>21 DEF Settle, Course, InPlace, Dated, Settling, TypeOK, Registry
    <2> SUFFICES ASSUME disk[b] # None, disk'[b] = None PROVE Newer(b)
      OBVIOUS
    <2>2. reg.list[op.id].sent
      BY <1>21 DEF Settle
    <2>3. PICK gone \in SUBSET (IF op.plan THEN Old ELSE {}) : Retained(gone)
      BY <1>21, <2>2 DEF Settle, Retained
    <2>4. b \in gone
      BY <2>3 DEF Retained
    <2>5. op.plan /\ b \in Old
      BY <2>3, <2>4
    <2>6. op.id \in Planned
      BY <2>1, <2>5, NullAssumption DEF Planned, Listed
    <2>7. \A c \in Planned : /\ c \in Ids /\ reg.list[c].created \in Nat
                             /\ reg.list[c].created <= reg.list[op.id].created
      BY <2>1 DEF Planned, Listed, Dated, TypeOK, Registry, Entry
    <2>8. {c \in Planned : reg.list[c].created > reg.list[op.id].created} = {}
      BY <2>1, <2>6, <2>7
    <2>9. op.id \notin Old
      <3> DEFINE newer == {c \in Planned : reg.list[c].created > reg.list[op.id].created}
      <3>1. op.id \in Old => Cardinality(newer) >= Keep
        BY DEF Old
      <3>2. Cardinality(newer) = 0
        BY <2>8, FS_EmptySet
      <3> HIDE DEF newer
      <3> QED BY <3>1, <3>2, ConstantsAssumption
    <2>10. disk'[op.id] # None
      BY <2>1, <2>3, <2>5, <2>9 DEF Retained
    <2>11. {c \in Planned : reg.list[c].created > reg.list[b].created} # {}
      BY <2>5, FS_EmptySet, ConstantsAssumption DEF Old
    <2>12. PICK c \in Planned : reg.list[c].created > reg.list[b].created
      BY <2>11
    <2>13. b \in Planned
      BY <2>5 DEF Old
    <2>14. reg.list[op.id].created > reg.list[b].created
      BY <2>6, <2>7, <2>12, <2>13
    <2> QED BY <2>2, <2>6, <2>10, <2>14 DEF Newer
  <1>22. CASE RecordFails
    BY <1>22 DEF RecordFails, history
  <1>23. CASE Inspect
    BY <1>23 DEF Inspect, history
  <1>24. CASE InspectFails
    BY <1>24 DEF InspectFails, history
  <1>25. CASE Disable
    BY <1>25 DEF Disable, history
  <1>26. CASE DisableFails
    BY <1>26 DEF DisableFails, history
  <1>27. CASE Stop
    BY <1>27 DEF Stop, history
  <1>28. CASE StopFails
    BY <1>28 DEF StopFails, history
  <1>29. CASE Clear
    BY <1>29 DEF Clear, history
  <1>30. CASE Extract
    BY <1>30 DEF Extract, history
  <1>31. CASE Load
    BY <1>31 DEF Load, history
  <1>32. CASE SwapFails
    BY <1>32 DEF SwapFails, history
  <1>33. CASE Resume
    BY <1>33 DEF Resume, history
  <1>34. CASE ResumeFails
    BY <1>34 DEF ResumeFails, history
  <1>35. CASE Answer
    BY <1>35 DEF Answer, history
  <1>36. CASE AnswerFails
    BY <1>36 DEF AnswerFails, history
  <1>37. CASE Crash
    BY <1>37 DEF Crash, history
  <1>38. CASE UNCHANGED vars
    BY <1>38 DEF vars
  <1> QED BY <1>1, <1>2, <1>3, <1>4, <1>5, <1>6, <1>7, <1>8, <1>9, <1>10, <1>11, <1>12,
     <1>13, <1>14, <1>15, <1>16, <1>17, <1>18, <1>19, <1>20, <1>21, <1>22, <1>23, <1>24,
     <1>25, <1>26, <1>27, <1>28, <1>29, <1>30, <1>31, <1>32, <1>33, <1>34, <1>35, <1>36,
     <1>37, <1>38 DEF Next

\* Retention removes an archive only while a newer one of the plan, delivered, is kept.
THEOREM LastCopyIsKept == Spec => LastCopyStays
  <1>1. Inv /\ [Next]_vars =>
          [\A b \in Ids : disk[b] # None /\ disk'[b] = None /\ op.at = "settle" =>
             \E n \in Planned : /\ reg.list[n].created > reg.list[b].created
                                /\ reg.list[n].sent
                                /\ disk'[n] # None]_vars
    BY OldOnesGo DEF Inv, Newer
  <1> QED BY Invariance, <1>1, PTL DEF Spec, LastCopyStays
=============================================================================
