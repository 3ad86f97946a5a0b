--------------------------- MODULE BeatScheduler ----------------------------
(***************************************************************************)
(* The beat scheduler: the table of schedules, whose changes are announced *)
(* by a timestamp in a row of its own (models/schedule.py), and the        *)
(* process that holds the enabled ones in memory, counts their runs and    *)
(* saves the counts later (scheduler/__init__.py).  What a schedule says   *)
(* (cron, arguments, owner) is a version number.                           *)
(***************************************************************************)
EXTENDS Naturals, Sequences, SequencesExt

CONSTANTS
    Names,
    First,          \* the schedules that are there at the start
    MaxTime,        \* bound, in the resolution of the timestamp
    MaxChanges,     \* bound: changes of the table
    MaxFires,       \* bound, for each schedule
    None

VARIABLES
    rows, lastUpdate, clock, changes,
    mode,           \* of the process: down, starting, idle, sync
    entries, lastTimestamp, dirty,
    reloads,        \* sync was called for a reload
    nested,         \* the names whose save met another change, innermost first
    reserving,      \* the entry that is stored once a reload is over, or None
    fired,          \* runs sent, of each schedule
    unseen,         \* changed since the last reload in a way that is not announced,
                    \* or read in it and overwritten
    lost            \* whose count was in the memory of a process that died, in
                    \* an entry that was replaced, or met a run by hand

bvars == <<rows, lastUpdate, clock, changes, mode, entries, lastTimestamp, dirty,
           reloads, nested, reserving, fired, unseen, lost>>

beatVars == <<mode, entries, lastTimestamp, dirty, reloads, nested, reserving>>

Row(version) == [version |-> version, enabled |-> TRUE, noChanges |-> FALSE, count |-> 0]

Init ==
    /\ rows = [n \in Names |-> IF n \in First THEN Row(0) ELSE None]
    /\ lastUpdate = 0
    /\ clock = 0
    /\ changes = 0
    /\ mode = "down"
    /\ entries = << >>
    /\ lastTimestamp = None
    /\ dirty = {}
    /\ reloads = FALSE
    /\ nested = <<>>
    /\ reserving = None
    /\ fired = [n \in Names |-> 0]
    /\ unseen = {}
    /\ lost = {}

-----------------------------------------------------------------------------
(* The table.  A change is announced by the clock when it is made, and a    *)
(* process that read the same timestamp does not see it.                    *)

Rows == {n \in Names : rows[n] # None}

Changes == changes < MaxChanges /\ changes' = changes + 1 /\ UNCHANGED <<clock, beatVars>>

TooEarly == mode # "down" /\ (lastTimestamp = None \/ clock = lastTimestamp)

\* task_schedules_updated
Announced(n) ==
    /\ lastUpdate' = clock
    /\ unseen' = unseen \cup {k \in {n} : TooEarly}

Quiet(n) == UNCHANGED lastUpdate /\ unseen' = unseen \cup {n}

Create(n) ==
    /\ n \notin Rows
    /\ fired[n] = 0
    /\ rows' = [rows EXCEPT ![n] = Row(changes + 1)]
    /\ Announced(n)
    /\ Changes
    /\ UNCHANGED <<fired, lost>>

\* Broken variant: no_changes is left as the scheduler wrote it.
UpdateQuietly(n, on) ==
    /\ n \in Rows
    /\ rows' = [rows EXCEPT ![n].version = changes + 1, ![n].enabled = on]
    /\ IF rows[n].noChanges THEN UNCHANGED <<lastUpdate, unseen>> ELSE Announced(n)
    /\ Changes
    /\ UNCHANGED <<fired, lost>>

\* update_task_schedule
Update(n, on) ==
    /\ n \in Rows
    /\ rows' = [rows EXCEPT ![n].version = changes + 1, ![n].enabled = on,
                            ![n].noChanges = FALSE]
    /\ Announced(n)
    /\ Changes
    /\ UNCHANGED <<fired, lost>>

\* update_datadoc_schedule_owner leaves no_changes as it is.
UpdateOwner(n) ==
    /\ n \in Rows
    /\ rows' = [rows EXCEPT ![n].version = changes + 1]
    /\ IF rows[n].noChanges THEN Quiet(n) ELSE Announced(n)
    /\ Changes
    /\ UNCHANGED <<fired, lost>>

\* A name is not used again.
Delete(n) ==
    /\ n \in Rows
    /\ rows' = [rows EXCEPT ![n] = None]
    /\ fired' = [fired EXCEPT ![n] = MaxFires]
    /\ IF rows[n].noChanges THEN Quiet(n) ELSE Announced(n)
    /\ Changes
    /\ UNCHANGED lost

\* run_and_log_scheduled_task
RunByHand(n) ==
    /\ n \in Rows
    /\ fired[n] < MaxFires
    /\ fired' = [fired EXCEPT ![n] = @ + 1]
    /\ rows' = [rows EXCEPT ![n].count = @ + 1, ![n].noChanges = FALSE]
    /\ Announced(n)
    /\ Changes
    /\ lost' = lost \cup {n}

Tick ==
    /\ clock < MaxTime
    /\ clock' = clock + 1
    /\ UNCHANGED <<rows, lastUpdate, changes, beatVars, fired, unseen, lost>>

-----------------------------------------------------------------------------
(* The process *)

\* all_as_schedule
AllAsSchedule ==
    [n \in {k \in Rows : rows[k].enabled} |->
        [version |-> rows[n].version, count |-> rows[n].count]]

\* the initial read, which takes no timestamp
Start ==
    /\ mode = "down"
    /\ mode' = "starting"
    /\ entries' = AllAsSchedule
    /\ lastTimestamp' = None
    /\ dirty' = {}
    /\ unseen' = {}
    /\ UNCHANGED <<rows, lastUpdate, clock, changes, reloads, nested, reserving, fired,
                   lost>>

ScheduleChanged == lastTimestamp # None /\ lastUpdate > lastTimestamp

\* The property `schedule` is read at every turn of the loop.
ReadSchedule ==
    /\ mode \in {"starting", "idle"}
    /\ lastTimestamp' = lastUpdate
    /\ mode' = IF ScheduleChanged THEN "sync" ELSE "idle"
    /\ reloads' = ScheduleChanged
    /\ UNCHANGED <<rows, lastUpdate, clock, changes, entries, dirty, nested, reserving,
                   fired, unseen, lost>>

\* reserve: next(entry) counts the run in the model that the entry shares with
\* the one before it, and only then the property `schedule` is read to store
\* it.  A schedule that was deleted unseen goes on.
Reserve(n) ==
    /\ mode = "idle"
    /\ n \in DOMAIN entries
    /\ entries[n].count < MaxFires
    /\ n \in Rows => fired[n] < MaxFires
    /\ entries' = [entries EXCEPT ![n].count = @ + 1]
    /\ lastTimestamp' = lastUpdate
    /\ IF ScheduleChanged
       THEN /\ reserving' = [name |-> n, entry |-> entries'[n]]
            /\ mode' = "sync"
            /\ reloads' = TRUE
            /\ UNCHANGED <<fired, dirty>>
       ELSE /\ fired' = [fired EXCEPT ![n] = IF n \in Rows THEN @ + 1 ELSE @]
            /\ dirty' = dirty \cup {n}
            /\ UNCHANGED <<reserving, mode, reloads>>
    /\ UNCHANGED <<rows, lastUpdate, clock, changes, nested, unseen, lost>>

\* The reload that reserve began is over, and the entry that it had made is
\* stored over the one that was just read.
EndReserve ==
    /\ mode = "sync"
    /\ dirty = {}
    /\ nested = <<>>
    /\ reserving # None
    /\ LET n == reserving.name
           read == AllAsSchedule
       IN  /\ entries' = [k \in DOMAIN read \cup {n} |->
                             IF k = n THEN reserving.entry ELSE read[k]]
           /\ unseen' = {k \in {n} : k \in DOMAIN read =>
                                        read[k].version # reserving.entry.version}
           /\ fired' = [fired EXCEPT ![n] = IF n \in Rows THEN @ + 1 ELSE @]
           /\ dirty' = {n}
    /\ reserving' = None
    /\ mode' = "idle"
    /\ UNCHANGED <<rows, lastUpdate, clock, changes, lastTimestamp, reloads, nested,
                   lost>>

\* every sync_every seconds, and when the process is told to stop
Sync ==
    /\ mode = "idle"
    /\ mode' = "sync"
    /\ reloads' = FALSE
    /\ UNCHANGED <<rows, lastUpdate, clock, changes, entries, lastTimestamp, dirty,
                   nested, reserving, fired, unseen, lost>>

\* One turn of sync: the name is popped and looked up in the property
\* `schedule`, which may begin another sync before the entry is saved.
Pop(n) ==
    /\ mode = "sync"
    /\ n \in dirty
    /\ dirty' = dirty \ {n}
    /\ lastTimestamp' = lastUpdate
    /\ ScheduleChanged \/ n \in Rows
    /\ IF ScheduleChanged
       THEN /\ nested' = <<n>> \o nested
            /\ UNCHANGED rows
       ELSE /\ rows' = [rows EXCEPT ![n].count = entries[n].count,
                                    ![n].noChanges = TRUE]
            /\ UNCHANGED nested
    /\ UNCHANGED <<lastUpdate, clock, changes, mode, entries, reloads, reserving,
                   fired, unseen, lost>>

\* The end of a sync inside another: the entry that is saved then was just
\* read, so that the save changes nothing and the count is gone.
EndNested ==
    /\ mode = "sync"
    /\ dirty = {}
    /\ nested # <<>>
    /\ entries' = AllAsSchedule
    /\ unseen' = {}
    /\ lost' = lost \cup {Head(nested)}
    /\ nested' = Tail(nested)
    /\ UNCHANGED <<rows, lastUpdate, clock, changes, mode, lastTimestamp, dirty,
                   reloads, reserving, fired>>

EndSync ==
    /\ mode = "sync"
    /\ dirty = {}
    /\ nested = <<>>
    /\ reserving = None
    /\ mode' = "idle"
    /\ IF reloads THEN entries' = AllAsSchedule /\ unseen' = {}
       ELSE UNCHANGED <<entries, unseen>>
    /\ UNCHANGED <<rows, lastUpdate, clock, changes, lastTimestamp, dirty, reloads,
                   nested, reserving, fired, lost>>

\* It is killed, or a save raises: always for a row that is gone.
Dies ==
    /\ mode # "down"
    /\ mode' = "down"
    /\ lost' = lost \cup dirty \cup ToSet(nested)
                    \cup {n \in Names : reserving # None /\ reserving.name = n}
    /\ dirty' = {}
    /\ nested' = <<>>
    /\ reserving' = None
    /\ UNCHANGED <<rows, lastUpdate, clock, changes, entries, lastTimestamp, reloads,
                   fired, unseen>>

Next ==
    \/ \E n \in Names : \/ Create(n) \/ UpdateOwner(n) \/ Delete(n) \/ RunByHand(n)
                        \/ \E on \in BOOLEAN : Update(n, on)
                        \/ Reserve(n) \/ Pop(n)
    \/ Tick
    \/ Start \/ ReadSchedule \/ EndReserve \/ Sync \/ EndNested \/ EndSync \/ Dies

Spec == Init /\ [][Next]_bvars

-----------------------------------------------------------------------------

\* A process that has seen the last timestamp runs the enabled schedules, each
\* as it is in the table, and when everything is saved the table has the
\* number of runs.  The exceptions: a change within the resolution of the
\* timestamp or before the first one is read, a deletion or a new owner of a
\* schedule whose count was saved since its last update, none of which is
\* announced; a change that comes between the run of its schedule and the
\* moment the entry is stored, which is read and overwritten; and the counts
\* that were in memory when the process died, a change came during a save, or
\* the schedule was run by hand.
BeatFollowsTheTable ==
    mode = "idle" =>
        /\ lastTimestamp = lastUpdate =>
              \A n \in Names \ unseen :
                  /\ n \in DOMAIN entries <=> n \in Rows /\ rows[n].enabled
                  /\ n \in DOMAIN entries => entries[n].version = rows[n].version
        /\ \A n \in Rows \ (dirty \cup lost) : rows[n].count = fired[n]

=============================================================================
