-------------------------------- MODULE Parts -------------------------------
(***************************************************************************)
(* The parts of the page and of the server's tasks that keep their state   *)
(* to themselves, checked one beside the other: a behaviour is one of a    *)
(* single part, the others stay as they start.                             *)
(***************************************************************************)
EXTENDS Integers, Sequences

CONSTANTS
    None,
    Docs, MaxInjections, MaxRuns,                               \* PythonKernel
    Limits, MaxFetches,                                         \* StatementResults
    Searches, Unsent, Pages, MaxSearches,                       \* SearchPage
    TableSearches, InitialSearch, Orders, DefaultOrder, Batches,
        MaxTableRequests,                                       \* TableNavigator
    Things, Listed, MaxBoardCalls,                              \* BoardItems
    MaxVersion,                                                 \* QueryCell
    Values,                                                     \* DebounceState
    MaxLength,                                                  \* SqlStatements
    Times, Days,                                                \* Recurrence
    Names, First, MaxTime, MaxChanges, MaxFires,                \* BeatScheduler
    MaxCalls,                                                   \* DebouncedTasks
    MaxCells                                                    \* ScheduledRun

VARIABLES
    part,
    status, kernel, tasks, waiting, pending, flushing, wire, queue, namespaces,
        latest, reads, runs, lost, overtaken,                   \* PythonKernel
    result, loading, fetches, requests, strayed,                \* StatementResults
    search, currentPage, resultByPage, searchRequest, searches, sent, failed,
                                                                \* SearchPage
    tableSearch, tables, count, tableRequest, order, schemas, tableRequests,
        tablesSent, stray,                                      \* TableNavigator
    rows, items, itemById, calls, made, astray,                 \* BoardItems
    shown, stored, timer, saver, saving, server, inbox, version, dropped,
        crossed,                                                \* QueryCell
    value, cached, last, debounced, apart,                      \* DebounceState
    query,                                                      \* SqlStatements
    cron, form, touched,                                        \* Recurrence
    schedules, lastUpdate, clock, changes, mode, entries, lastTimestamp, dirty,
        reloads, nested, reserving, fired, unseen, uncounted,   \* BeatScheduler
    counter, calling, queued, ending, called, ran, leaked, torn, early,
                                                                \* DebouncedTasks
    cells, removed, chain, handed, statuses, phase, record, excuses
                                                                \* ScheduledRun

Kernel == INSTANCE PythonKernel
Results == INSTANCE StatementResults WITH MaxRequests <- MaxFetches, out <- fetches
Search == INSTANCE SearchPage WITH MaxSent <- MaxSearches, out <- searches
Navigator == INSTANCE TableNavigator
               WITH Searches <- TableSearches, MaxSent <- MaxTableRequests,
                    search <- tableSearch, searchRequest <- tableRequest,
                    out <- tableRequests, sent <- tablesSent
Board == INSTANCE BoardItems WITH MaxCalls <- MaxBoardCalls
Cell == INSTANCE QueryCell
Debounce == INSTANCE DebounceState WITH timer <- debounced
Sql == INSTANCE SqlStatements
Editor == INSTANCE Recurrence
Beat == INSTANCE BeatScheduler WITH rows <- schedules, lost <- uncounted
Tasks == INSTANCE DebouncedTasks
DocRun == INSTANCE ScheduledRun WITH result <- handed

kernelVars == <<status, kernel, tasks, waiting, pending, flushing, wire, queue,
                namespaces, latest, reads, runs, lost, overtaken>>
resultVars == <<result, loading, fetches, requests, strayed>>
searchVars == <<search, currentPage, resultByPage, searchRequest, searches, sent,
                failed>>
tableVars == <<tableSearch, tables, count, tableRequest, order, schemas,
               tableRequests, tablesSent, stray>>
boardVars == <<rows, items, itemById, calls, made, astray>>
cellVars == <<shown, stored, timer, saver, saving, server, inbox, version, dropped,
              crossed>>
debounceVars == <<value, cached, last, debounced, apart>>
editorVars == <<cron, form, touched>>
beatVars == <<schedules, lastUpdate, clock, changes, mode, entries, lastTimestamp,
              dirty, reloads, nested, reserving, fired, unseen, uncounted>>
taskVars == <<counter, calling, queued, ending, called, ran, leaked, torn, early>>
runVars == <<cells, removed, chain, handed, statuses, phase, record, excuses>>

pageVars == <<kernelVars, resultVars, searchVars, tableVars, boardVars, cellVars,
              debounceVars, query, editorVars>>
serverVars == <<beatVars, taskVars, runVars>>

Init ==
    /\ part \in {"kernel", "results", "search", "navigator", "board", "cell",
                 "debounce", "sql", "recurrence", "beat", "tasks", "run"}
    /\ Kernel!Init /\ Results!Init /\ Search!Init /\ Navigator!Init
    /\ Board!Init /\ Cell!Init /\ Sql!Init
    /\ Debounce!Init /\ (part = "debounce" \/ value = CHOOSE v \in Values : TRUE)
    /\ Editor!Init /\ (part = "recurrence" \/ cron = Editor!NoCron)
    /\ Beat!Init /\ Tasks!Init
    /\ DocRun!Init /\ (part = "run" \/ cells = <<>>)

KernelNext == part = "kernel" /\ Kernel!Next
    /\ UNCHANGED <<part, resultVars, searchVars, tableVars, boardVars,
                   cellVars, debounceVars, query, editorVars, serverVars>>

ResultsNext == part = "results" /\ Results!Next
    /\ UNCHANGED <<part, kernelVars, searchVars, tableVars, boardVars,
                   cellVars, debounceVars, query, editorVars, serverVars>>

SearchNext == part = "search" /\ Search!Next
    /\ UNCHANGED <<part, kernelVars, resultVars, tableVars, boardVars,
                   cellVars, debounceVars, query, editorVars, serverVars>>

NavigatorNext == part = "navigator" /\ Navigator!Next
    /\ UNCHANGED <<part, kernelVars, resultVars, searchVars, boardVars,
                   cellVars, debounceVars, query, editorVars, serverVars>>

BoardNext == part = "board" /\ Board!Next
    /\ UNCHANGED <<part, kernelVars, resultVars, searchVars, tableVars,
                   cellVars, debounceVars, query, editorVars, serverVars>>

CellNext == part = "cell" /\ Cell!Next
    /\ UNCHANGED <<part, kernelVars, resultVars, searchVars, tableVars,
                   boardVars, debounceVars, query, editorVars, serverVars>>

DebounceNext == part = "debounce" /\ Debounce!Next
    /\ UNCHANGED <<part, kernelVars, resultVars, searchVars, tableVars,
                   boardVars, cellVars, query, editorVars, serverVars>>

SqlNext == part = "sql" /\ Sql!Next
    /\ UNCHANGED <<part, kernelVars, resultVars, searchVars, tableVars,
                   boardVars, cellVars, debounceVars, editorVars, serverVars>>

EditorNext == part = "recurrence" /\ Editor!Next
    /\ UNCHANGED <<part, kernelVars, resultVars, searchVars, tableVars,
                   boardVars, cellVars, debounceVars, query, serverVars>>

BeatNext == part = "beat" /\ Beat!Next
    /\ UNCHANGED <<part, pageVars, taskVars, runVars>>

TasksNext == part = "tasks" /\ Tasks!Next
    /\ UNCHANGED <<part, pageVars, beatVars, runVars>>

DocRunNext == part = "run" /\ DocRun!Next
    /\ UNCHANGED <<part, pageVars, beatVars, taskVars>>

Next ==
    \/ KernelNext \/ ResultsNext \/ SearchNext \/ NavigatorNext \/ BoardNext
    \/ CellNext \/ DebounceNext \/ SqlNext \/ EditorNext
    \/ BeatNext \/ TasksNext \/ DocRunNext

vars == <<part, pageVars, serverVars>>

Spec == Init /\ [][Next]_vars

-----------------------------------------------------------------------------
(* Each property is stated and explained in the module of its part. *)

\* PythonKernel: a run reads the variables that its document had when it began,
\* and the status is idle when, and only when, there is nothing to do.
KernelServesItsRuns == Kernel!KernelServesItsRuns

\* StatementResults: rows that fetchResult loaded are not replaced by fewer.
NeverShrinks == Results!NeverShrinks

\* SearchPage: each page of results is of the search shown.
ResultsBelongToTheSearch == Search!ResultsBelongToTheSearch

\* TableNavigator: tables and schemas are listed once each and in order.
ListsArePrefixes == Navigator!ListsArePrefixes

\* BoardItems: the page lists what the server lists.
PageListsTheBoard == Board!PageListsTheBoard

\* QueryCell: the page, the store and the server agree on the cell.
PageShowsTheCell == Cell!PageShowsTheCell

\* DebounceState: what is shown is set in the owner once the typing pauses.
OwnerHasWhatIsShown == Debounce!OwnerHasWhatIsShown

\* SqlStatements: a query is split at its separators and nothing is left out.
SplitsTheQuery == Sql!SplitsTheQuery

\* Recurrence: a schedule is what the form showed when it was submitted.
EditorKeepsTheSchedule == Editor!EditorKeepsTheSchedule

\* BeatScheduler: what runs is what the table says, and is counted there.
BeatFollowsTheTable == Beat!BeatFollowsTheTable

\* DebouncedTasks: the function runs after the last call, and not before.
EveryCallIsServed == Tasks!EveryCallIsServed

\* ScheduledRun: queries run in order and the record tells how the run went.
RecordTellsTheOutcome == DocRun!RecordTellsTheOutcome

=============================================================================
