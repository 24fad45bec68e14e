----------------------------- MODULE Schedules -----------------------------
(***************************************************************************)
(* Scheduled commands (src/src/cron_agent.rs and the schedule operations   *)
(* of agent.rs). Every ten seconds a loop collects the schedules that are  *)
(* due under the registry mutex, saves the registry, and then runs the     *)
(* commands one after the other without the mutex, while schedules are     *)
(* created and deleted, saves fail and the agent is killed.                *)
(***************************************************************************)
EXTENDS Integers, Sequences, FiniteSetsExt, SequencesExt

CONSTANTS
    Tasks,         \* identifiers of schedules, random and never used twice
    LastMinute,    \* bound: how many minutes pass
    MaxCronFaults  \* bound: how many saves fail and how often the agent is killed

ASSUME SchedulesAssumption == LastMinute \in Nat /\ MaxCronFaults \in Nat

VARIABLES
    minute,      \* the clock
    tasks,       \* the schedules of the registry in memory, each with its next occurrence
    savedTasks,  \* and those of registry.json
    drawnTasks,  \* the identifiers that were drawn
    batch,       \* what the loop collected and did not run yet, with the occurrence it is due to
    running,     \* whether the first of them runs
    cronFaults,
    started,     \* how often an occurrence was started, for the properties
    ranAt,       \* the minute in which a task was started last, for the properties
    unsaved,     \* occurrences whose collection was not saved, for the properties
    cut          \* collected occurrences that a killed agent did not start, for the properties

cronVars == <<minute, tasks, savedTasks, drawnTasks, batch, running, cronFaults, started,
              ranAt, unsaved, cut>>

Minutes == 1 .. LastMinute + 1

\* What a task was collected for.
Occurrences == Tasks \X Minutes

CronInit ==
    /\ minute = 0
    /\ tasks = [t \in {} |-> 0] /\ savedTasks = tasks
    /\ drawnTasks = {}
    /\ batch = <<>> /\ running = FALSE
    /\ cronFaults = 0
    /\ started = [o \in Occurrences |-> 0]
    /\ ranAt = [t \in Tasks |-> 0]
    /\ unsaved = {} /\ cut = {}

-----------------------------------------------------------------------------
Fault == cronFaults < MaxCronFaults /\ cronFaults' = cronFaults + 1

\* save, of the registry with the schedules r; it fails and the registry stays in memory.
SaveAs(r, collected) ==
    /\ tasks' = r
    /\ \/ savedTasks' = r /\ unsaved' = {} /\ UNCHANGED cronFaults
       \/ Fault /\ unsaved' = unsaved \cup collected /\ UNCHANGED savedTasks

\* create_schedule and delete_schedule, which the dispatcher saves; a failed save is answered
\* as an error. schedule::next is the next full minute of an expression that matches them all,
\* the one with most occurrences.
CreateSchedule(t) ==
    /\ t \notin drawnTasks /\ drawnTasks' = drawnTasks \cup {t}
    /\ SaveAs([u \in DOMAIN tasks \cup {t} |-> IF u = t THEN minute + 1 ELSE tasks[u]], {})
    /\ UNCHANGED <<minute, batch, running, started, ranAt, cut>>

DeleteSchedule(t) ==
    /\ t \in DOMAIN tasks
    /\ SaveAs([u \in DOMAIN tasks \ {t} |-> tasks[u]], {})
    /\ UNCHANGED <<minute, drawnTasks, batch, running, started, ranAt, cut>>

-----------------------------------------------------------------------------
(* The loop. *)

DueTasks == {t \in DOMAIN tasks : tasks[t] <= minute}

\* Mutant: the registry is saved when the command has ended.
CollectUnsaved ==
    LET collected == {<<t, tasks[t]>> : t \in DueTasks}
    IN  /\ batch = <<>> /\ DueTasks # {}
        /\ batch' = SetToSeq(collected)
        /\ tasks' = [t \in DOMAIN tasks |-> IF t \in DueTasks THEN minute + 1 ELSE tasks[t]]
        /\ unsaved' = unsaved \cup collected
        /\ UNCHANGED <<minute, savedTasks, drawnTasks, running, cronFaults, started, ranAt, cut>>

\* All that is due is taken at once, gets its next occurrence after now, and the registry is
\* saved; whether that succeeded is ignored.
Collect ==
    LET collected == {<<t, tasks[t]>> : t \in DueTasks}
    IN  /\ batch = <<>> /\ DueTasks # {}
        /\ batch' = SetToSeq(collected)
        /\ SaveAs([t \in DOMAIN tasks |-> IF t \in DueTasks THEN minute + 1 ELSE tasks[t]],
                  collected)
        /\ UNCHANGED <<minute, drawnTasks, running, started, ranAt, cut>>

\* The command of the first is started in its container, whatever became of the schedule.
Start ==
    /\ batch # <<>> /\ ~running
    /\ running' = TRUE
    /\ started' = [started EXCEPT ![Head(batch)] = @ + 1]
    /\ ranAt' = [ranAt EXCEPT ![Head(batch)[1]] = minute]
    /\ UNCHANGED <<minute, tasks, savedTasks, drawnTasks, batch, cronFaults, unsaved, cut>>

\* Mutant: a failed command ends the round.
RecordOrGiveUp ==
    /\ running /\ running' = FALSE
    /\ batch' \in {Tail(batch), <<>>}
    /\ IF Head(batch)[1] \in DOMAIN tasks THEN SaveAs(tasks, {})
       ELSE UNCHANGED <<tasks, savedTasks, cronFaults, unsaved>>
    /\ UNCHANGED <<minute, drawnTasks, started, ranAt, cut>>

\* It ends, or is killed after 35 seconds, and the result goes to the history of a schedule that
\* is still there.
Record ==
    /\ running /\ running' = FALSE
    /\ batch' = Tail(batch)
    /\ IF Head(batch)[1] \in DOMAIN tasks THEN SaveAs(tasks, {})
       ELSE UNCHANGED <<tasks, savedTasks, cronFaults, unsaved>>
    /\ UNCHANGED <<minute, drawnTasks, started, ranAt, cut>>

-----------------------------------------------------------------------------
\* The agent is killed and starts with the registry it saved last.
Kill ==
    /\ Fault
    /\ cut' = cut \cup {o \in ToSet(batch) : started[o] = 0 /\ o \notin unsaved}
    /\ tasks' = savedTasks /\ unsaved' = {}
    /\ batch' = <<>> /\ running' = FALSE
    /\ UNCHANGED <<minute, savedTasks, drawnTasks, started, ranAt>>

Pass == minute < LastMinute /\ minute' = minute + 1
        /\ UNCHANGED <<tasks, savedTasks, drawnTasks, batch, running, cronFaults, started, ranAt,
                       unsaved, cut>>

CronNext ==
    \/ \E t \in Tasks : CreateSchedule(t) \/ DeleteSchedule(t)
    \/ Collect \/ Start \/ Record \/ Kill \/ Pass

\* The loop goes on, and a command ends in time.
CronFairness == WF_cronVars(Collect) /\ WF_cronVars(Start) /\ WF_cronVars(Record)

CronSpec == CronInit /\ [][CronNext]_cronVars /\ CronFairness

-----------------------------------------------------------------------------
\* An occurrence is started once. To start it again takes two faults, a save that fails when it
\* is collected and a kill of the agent before a later save: neither a kill alone nor a deletion
\* or a failed save alone repeats a command.
StartedOnce == \A o \in Occurrences : started[o] > 1 => 2 * (started[o] - 1) <= cronFaults

\* When an occurrence has come its command is started in that minute or later, however long the
\* commands before it take and however many minutes were missed, unless the schedule is deleted
\* or the agent is killed after it saved that the occurrence is being taken care of.
DueIsStarted ==
    \A t \in Tasks, m \in 1 .. LastMinute :
        (t \in DOMAIN tasks /\ tasks[t] = m /\ m <= minute) ~>
            (ranAt[t] >= m \/ t \notin DOMAIN tasks \/ <<t, m>> \in cut)
=============================================================================
