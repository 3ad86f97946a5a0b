# Verification of Querybook

TLA+ models of the parts of Querybook in which several actors change shared
state, TLC runs that check them on small instances, and TLAPS proofs of what
matters most. Paths below are relative to the repository; `server/` stands for
`src/querybook/server/` and `webapp/` for `src/querybook/webapp/`.

    tlc -workers 2 -config QESafety.cfg MCQueryExecution.tla
    tlapm QueryExecution_proofs.tla          (likewise the other *_proofs modules)

## 1. The system and its parts

Querybook is a Flask application with socket.io, MySQL (SQLAlchemy), Redis and
Celery workers, and a React client. The parts that keep state and share it:

| part | state | operations | interacts with |
|---|---|---|---|
| query execution worker (`tasks/run_query.py`, `lib/query_executor/base_executor.py`, `executor_factory.py`) | rows `query_execution`, `statement_execution`, `query_execution_error`; Celery message, result, progress; the executor object | take a message, double check the status, claim, start, run, poll and upload each statement, complete, fail, cancel, report | MySQL, Celery, the engine |
| execution requests (`datasources/query_execution.py`) | none of their own between requests | create and enqueue, cancel (in place or through the task) | the row, the Celery result |
| peer review (`lib/query_review/base_query_review_handler.py`) | row `query_review`, the status `PENDING_REVIEW` | initiate, approve, reject | the row, the task queue |
| clean up (`logic/query_execution.py`, `tasks/all_tasks.py`) | none | at worker start, fail the active rows no worker holds | the row, Celery's inspection |
| execution socket and client (`datasources_socketio/query_execution.py`, `webapp/redux/queryExecutions`) | rooms; what the client knows of an execution | subscribe, events of the worker, unsubscribe | the worker's emits |
| cell order (`logic/datadoc.py`) | `data_doc_data_cell.cell_order` | insert, delete, move, cut and paste | other authors' transactions |
| collaboration (`logic/datadoc_collab.py`, `webapp/lib/data-doc/datadoc-socketio.ts`) | each client's copy of a document | commit, then emit; apply the event | cell order, all open clients |
| save batching (`webapp/lib/batch`, `redux/dataDoc`) | the stack of edits, the request in flight, the saving keys | edit, timer, forced save, answers | the server's update of a row |
| scheduled runs (`tasks/run_datadoc.py`) | the Celery chain, `task_run_record` | create and run each cell's query, close the record | the execution worker, beat |
| beat scheduler (`scheduler/__init__.py`) | entries, dirty names, last change | tick, reserve, sync, reload | `task_schedule` rows |
| debounced tasks (`lib/celery/task_decorator.py`) | Redis counters with expiry | call, countdown, run | Celery |
| boards (`logic/board.py`, `webapp/redux/board`) | `board_item` rows; the page's list | add, move, delete, fetch | requests that overlap |
| pages' own state (`webapp/redux/search`, `dataTableSearch`, `queryExecutions`; `lib/python`, `DataDocQueryCell`, `useDebounceState`) | results by page, batches of a list, rows of a result, the Python kernel and its queue, a cell's edits | request, cancel, answer, failure, timer | slow and failed requests, a worker, collaborators |
| pure algorithms (`webapp/lib/sql-helper/sql-lexer.ts`, `lib/utils/cron.ts`) | none | split a query into statements; cron to form and back | editors and forms |
| presence (`datasources_socketio/datadoc.py`) | a Redis hash per document | join, leave, move the cursor | sockets, expiry |

What would make each of them correct:

* worker, requests, reviews, clean up: a query is started at most once, only
  after its approval; its row ends, ends right, and explains an `ERROR`; a
  cancel and a rejection take effect; no message is delivered for ever;
* execution socket: a client that subscribed comes to know every status, and
  stays subscribed until the last one;
* cell order: positions are 0, 1, 2, ..., and a request is the list operation
  its author asked for;
* collaboration: when all events were applied, every copy is the table;
* save batching: no edit is lost or undone by an older one, the saving icon
  goes off, and only when nothing is left to save;
* scheduled runs: no cell runs after a failed one, and every record is closed;
* beat: no change of a schedule and no run count is lost;
* debounced tasks: after the last call the task runs once, and it does run;
* boards: the page lists what the server lists;
* pages: what is shown is of the current search, is a prefix of the server's
  list, never shrinks, and is what will be saved; a Python run sees the
  variables of its document;
* algorithms: the text of each statement, and nothing else, is in one range; a
  schedule that is opened and submitted stays as it was;
* presence: whoever left a document is not shown in it for ever.

What makes them hard: nothing is locked. Almost every write is a blind
`UPDATE` from a value read in an earlier transaction; the row of an execution
has five kinds of writers; messages are acknowledged late and so delivered
again; a Celery state may be overwritten by any store; events follow commits
without their order; promises in the client may fail or never settle.
`PROJECT.json` lists each such place as a hazard, and each component,
modelled or not.

## 2. Modules

| module | what it is |
|---|---|
| `QueryExecution` | one execution with all its actors: create request, reviews, cancels, worker, clean ups, faults |
| `QueryLifecycle` | what a user is promised of an execution that nobody cancels: the abstract specification |
| `QueryExecution_proofs`, `QueryLifecycle_proofs` | the theorems about both |
| `MCQueryExecution` | the module TLC runs |
| `BatchManager` | `BatchManager` of the web application, several instances over one row |
| `DataDocSaving` | save managers, saving keys and forced saves on top of `BatchManager` |
| `MCDataDocSaving` | the module TLC runs, with a constraint (below) |
| `DataDocList` | documents as lists of cells: the abstract specification |
| `DataDocCells` | the same as positions in a table, with a read step and a write step of each request |
| `MCDataDocCells` | the module TLC runs, with symmetry and a constraint (below) |
| `DataDocSocket` | the one socket of a tab, its room and handlers, as pages change and connections are lost |
| `DataDocCollab`, `MCDataDocCollab` | requests on cells, the events that follow, the copies in the tabs, promises of calls |
| `QueryClient` | tabs that follow an execution: GET, subscribe, room, events, reducers |
| `StatementResults` | the rows of a statement's result in the store |
| `SearchPage`, `TableNavigator` | the search page; the lists of tables and schemas |
| `BoardItems` | a board at the server and on one page |
| `PythonKernel` | the kernel of Python cells, its worker and the variables it is sent |
| `QueryCell` | what is typed into a query cell, on its way to the server and back |
| `DebounceState` | `useDebounceState` |
| `SqlStatements`, `Recurrence` | splitting a query; cron to form and back |
| `BeatScheduler` | the beat process and the table of schedules |
| `DebouncedTasks` | a debounced task and its counter |
| `ScheduledRun` | one run of a scheduled document |
| `Parts`, `MCParts` | the twelve parts from `StatementResults` on, which share no state; the module TLC runs, with their constants |
| `DataDocSaving_proofs`, `DataDocCells_proofs`, `DataDocSocket_proofs`, `DataDocCollab_proofs`, `QueryClient_proofs`, `Parts_proofs` | the theorems about these |

Each module has at most one type invariant. `BatchManager`, `DataDocCells`,
`DataDocSocket`, `DataDocCollab` and `QueryClient` state theirs where it
documents the state.

### QueryExecution

The variables are MySQL's row (`status`, `taskId`, `statements`, `hasError`,
`reviewRow`), Celery's view of each task (`queue`, `result`, `revoked`), the
worker that holds a task (`wpc`, `executor`, `index`, `current`) and the place
each request has reached with what it read before (`submit`, `review`,
`cancel` and `seenTask`, `seenStatement`, `cleanup` and `cleanTask`,
`cleanStatements`). A task is named by the request that queues it, because
`apply_async` is called once by the create request and once by an approval.

A step is the code between two accesses of shared state. So `ValidateReview`
reads the status and `CommitApproval` writes it; `ReadForCancel`, `AskCelery`,
`AbortTask`, `CancelStatementInPlace` and `CancelRowInPlace` are one cancel;
`Start`, `ReportStart`, `RunNextStatement`, `Poll`, `Upload` and `CompleteQuery`
are one `poll()` of the executor after the other. `wpc` names the next access.

Abstracted: what an engine answers (`Poll` chooses); the text of queries, logs,
errors; the events emitted by the worker and the ids of rows. An engine
error, a failed log upload, an unreachable Redis, metadata of a new execution
that cannot be stored (`AssociateFails`, which leaves the committed row as it
is), a failed notification, the death of a child process or of a host, an expired result and an unanswered
inspection are the members of `Faults`; a configuration allows some of them.
The age threshold of the clean up is taken to have passed. A revocation reaches a
worker at any time or never. A soft time limit may interrupt a poll or
a sleep. The visibility timeout of the broker is longer than the time limits
of a task, so a message comes back only after a lost host.

`launches` counts how often the worker told the engine to begin and exists for
the properties only.

### BatchManager and DataDocSaving

A change is a number, its value, and the field it sets; `stack`, `version`,
`timer`, `processRequest` and `waiting` are the private fields of each
instance and the suspended calls of `processBatch`; `waiting` is the set of the
requests that the suspended calls of a manager wait for. JavaScript runs one task
at a time, so `SucceedAndSend` is the whole chain of continuations of a settled
request: `onSuccess`, the `finally` block, and the first call that awaited it.
The server applies requests in any order. `DataDocSaving` adds
`itemToSave[key]` of one key (`saving`), the registered manager (`saver`) and
the two ways in which a forced save removes it.

`completeAt` is in whole seconds; only the order of its values matters, so it
is kept as a rank that grows by one, or stays, when the next edit falls in the
same second. A timer that fires proves that at least a second has gone by.

Left out: the merges of the list loaders and of analytics (`mergeSetFunction`,
`mergeListFunction`); an edit sets one field; a synchronous exception of
`processFunction`; that several promises share a slot of `promiseMap` in
`DataDocSocket` (it shows up here as an answer that never comes).

### DataDocCells

`doc` and `order` are the table. A request reads its transaction's snapshot and
asserts its indices (`ReadInsert`, `ReadDelete`, `ReadMove`, `ReadPasteWithin`,
`ReadPaste`); its `UPDATE`s are one step (`Commit...`), because the first one
locks the rows of the document until the commit, and they see the rows as they
are then, not as they were read. This is InnoDB with REPEATABLE READ, the
isolation `app/db.py` leaves in place. An `UPDATE` by the ORM of a row that
is gone raises and rolls back (`RollBackPaste`), a `DELETE` of it only warns. A
deadlock, which rolls back, is a request that never commits.

### DataDocSocket and DataDocCollab

`DataDocSocket` is the tab's side: a page that is opened, its fetch, the
promise of a socket, `activeDataDoc`, the handlers (`eventMap`), and the rooms
that the server's handlers put a socket in. A message sent while a socket
connects waits in its buffer. `events` are those on their way to a socket: one
that was sent before the handlers were replaced is `old`, and meets those of
the next document (`addDataDoc` replaces `eventMap` in the turn in which it
sends `unsubscribe`). `mishaps` records three things that break what the
properties promise: a fetch that answered after its page was left
(`overtaken`), one that failed, and a page left after its connection was lost
(`leaked`: `removeSocket` finds no socket to disconnect).

`DataDocCollab` is the other side: a request commits the list of a document and
then, later and in any order, its events go to the tabs in the room (`To`,
`Received`), to which each tab applies its reducer (`Applied`). A fetch, the join
of the room and a refetch after a restore are steps of their own; the answers of
several refetches (`answers`) come in any order. `promiseMap` keeps one promise
per kind of call, and an event is a tab's own only if it was asked for over the
socket that the tab has now (`SameOrigin`), which changes with each connection.
A lost connection and a closed page empty what was on its way. Opening another
document does not: the socket is the same, `inRoom` follows when the server gets
to the messages, and what is still on its way is applied to the new copy.
`newest`, `missed` and `mixed`, the bookkeeping of the property, say which commits
a tab's copy is up to, which of them it was never told of, and whether it took
one out of order or of another document. `newest` never goes down: an
older answer that follows a newer one leaves the copy behind, and the property is
given up. (An earlier bookkeeping let it go down; the proof of
`CopiesAreTheList` failed there, and TLC found the counterexample with one tab and
three requests.)
The two modules meet in what the first proves of rooms and the second assumes:
a tab is in the room of its own document.

### QueryClient

The worker, modelled in full in `QueryExecution`, is reduced to the rows it
commits and the event after each; a subscribe reads the row, joins the room and
emits what it read to everybody in it. `late` marks the tabs that an old row
reached after the event of a later commit.

### The parts

`Parts` instantiates twelve modules over disjoint variables; an initial state
chooses one and only that one steps, so the run is the sum of twelve small
ones. Each of them keeps one or two variables of bookkeeping that say when its
property is given up, and no more:

| module | its property | given up when |
|---|---|---|
| `PythonKernel` | a run reads its document's variables as they were when it was called, or newer; the status tells whether the kernel works | the kernel failed in between; a run or a change overtook the loop that sends the waiting variables; the run that started the kernel is alone |
| `StatementResults` | loaded rows are never replaced by fewer or by a failure | a cancelled request removed the entry of the one after it |
| `SearchPage` | results are those of the search; the page waits for an answer only if one is to come | a query search without text or filter, which is not sent and cancels nothing; a failure, which nothing clears |
| `TableNavigator` | the tables are a prefix of the server's list; the schemas are of their order, none ahead of its place, and a prefix | the list was reset under a request that nobody cancels; (a prefix, for schemas) they were asked for while others were on their way, which lists a batch twice and skips the next |
| `BoardItems` | with no call under way, page and server list the same | calls overlapped, an answer was lost, orders are equal, a query was removed (the page looks for it among the boards), until a board is fetched with nothing else under way |
| `QueryCell` | when nothing waits, page, store and server agree | an edit of the other field took the timer; a collaborator's change crossed one of the page |
| `DebounceState` | when nothing waits, the owner has what is shown | what was typed was typed away, or the owner set a value meanwhile |
| `SqlStatements` | statements begin with text, do not overlap, hold no separator and, together, all text up to a string that is not closed; characters that no token is are not text | (the last part only) a statement ends in a string of several lines; an escaped quote has no quote after it on its line |
| `Recurrence` | opening and submitting changes nothing; an edited form opens again as it was | a cron with months and no day of the month |
| `BeatScheduler` | beat runs the enabled rows as they are, and every run is counted | changes within a second or before the first timestamp, deletions and new owners of rows with `no_changes`, the entry that `reserve` stores over the one that its own reload read, counts in memory at a death, a reload during a save or a run by hand |
| `DebouncedTasks` | the last call is served, and nothing runs while a call waits | a task that could not be queued; a counter torn or expired |
| `ScheduledRun` | no query before those above it are done; the record tells the outcome | no query or a blank first one, a chain that was not queued, a cancelled or removed last query, a record that could not be written, an archived document (the record stays open); a query's task, an export or a notification that raised after its query was done, a second delivery (a failure is recorded); a second delivery beside the first (nothing is said) |

In `ScheduledRun` the chain is the set of the tasks still to go, the least of which
is next. In `BoardItems` the list of a page is ordered by rank, and a move is the
reducer's `arrayMove`; the proof of `PageIsTheBoard` failed while a fetch that
overlapped a call still ended the exception, and with five calls TLC showed why.

`SqlStatements` types every query of up to five symbols and compares the
lexer's line and column arithmetic with a reference reading, symbol by
symbol. A symbol `unknown` is a character that no pattern matches (a backtick,
`@`, `$`, a letter beyond ASCII): `tokenizeBase` makes nothing of it, so a
statement is cut before those that it ends in, and the property does not count
them as text. Templates and dotted names in backticks (`sql-lexer.ts:162`), which
have patterns of their own, are left out. `Recurrence` opens the crons of
`SomeCrons` (numbers, lists, steps and stars over two times and two days, in the
combinations that the form supports and some that it does not) and makes every
edit of the form; a form whose days are missing becomes a malformed cron, which
cannot be submitted.

`BeatScheduler!Reserve` is Celery's `reserve` and the override around it: the
entry is made first, and the property `schedule` is read again to store it, which
may reload the table (`reserving`, `EndReserve`). In `ScheduledRun` a query's task
ends in `RunQuery`, which hands on the status, or nothing if it made no executor,
or in `RunQueryRaises`, when its last block raises after the row has its status;
`RunBeside` is a second delivery. In `DebouncedTasks` a task that was lost with
its worker, or whose Redis commands failed, is one that waits for ever: the
property speaks when none waits.

## 3. Runs

| run | instance | checks |
|---|---|---|
| `qe_safety` | 1 review, 1 cancel, 1 clean up, 2 statements, all 9 faults, 1 crash | `TypeOK`; at most one start; no start before the approval; every `ERROR` has an error row |
| `qe_liveness` | the same actors; engine errors, host deaths, failed notifications | an active row always has an actor that will end it; `DONE` means all statements done; executions settle; messages are acknowledged |
| `qe_lifecycle` | 1 review, 3 statements, 7 faults, 2 crashes | the row implements `QueryLifecycle`; statements run one after the other |
| `qe_abort` | 1 cancel | *violated*: an abort is honoured before the next poll |
| `qe_rejected` | 2 reviews | *violated*: a rejected query never starts |
| `save_pass` | 4 edits (the fourth without forced saves), 2 fields, 2 managers, requests fail or are never answered | see below |
| `save_stranded` | 2 edits, requests fail | *violated*: a batch is dropped only when another save covers it |
| `cells` | 2 documents, 4 cells, 2 authors | positions are 0, 1, 2, ...; each request is the list operation it names |
| `socket` | 2 documents, 2 sockets, 4 pages opened | one socket; the room and the handlers are those of the page; what is sent since a switch meets the handlers of its document; a page that stays is followed |
| `collab` | 2 tabs, 2 documents, 3 cells, 2 requests, 1 page closed or changed or connection lost | copies are the server's list; no cell twice; a call is settled by its own event |
| `query_client` | 2 tabs, one of which follows another query too, 2 statements, 1 loss | statements are listed once and in order; a page with a query under way listens; the end is seen |
| `parts` | the instances in `Parts` | the table above |

**Bounds.** Two statements are a first and a last one; a third shows an
earlier one that stays `DONE`. One crash gives a second delivery, two a third.
One cancel meets every step of the worker; two reviews are the least that can
disagree. Three edits put one in flight, one in a waiting batch and one on the
stack, over the same or another field; the fourth, where nothing was forced,
follows a batch that itself followed another. (Its safety was also checked once
with one manager and one field at four edits without the constraint, and at five
with failing requests only.) Two tabs and two requests are an author and a
reader whose roles change; a third was checked with one
tab, and `CopiesAreTheList` is for any number. Four
opened pages let a tab go away from a document and come back while the first
fetch is still out. Four requests of a page are one that is cancelled, its
successor, one of an older search and one more. In `BeatScheduler` two names,
two changes and two runs; three of each (alone) gave nothing new. Four cells in two documents give a move
that skips a cell while the other author shifts them.

**Constraints.** `MCDataDocSaving!Bounded` keeps one of two behaviours that differ
only by swapping the fields (`FirstField`) and makes a fourth edit only where
no save was forced; behaviours that stop short of it are complete, so liveness
is checked on them and on those with four edits and no force. `MCDataDocCells!NotTorn` stops where a
request committed on a stale position: the model then makes no claim, and
positions drift without bound. Symmetry is used only in `cells` and `collab`, where no
liveness is checked.

**What the passing runs show.** `qe_safety`: with one decision request, no
interleaving of crashes, second deliveries, cancels and clean ups starts a
query twice. (Two decisions can: see `qe_rejected`.) `qe_liveness`: none of the
worker's exits leaves a row behind, provided tasks are not lost by Redis,
revoked or killed. `qe_lifecycle` is the strongest statement: nothing but
cancels, clean ups and double decisions can make a status change that the
user was not promised.

In `save_pass`, `OneAtATime`, `ResolvedIsSaved`, `WarnsBeforeLoss` and
`EventuallySaved` say what holds until a forced save: requests are not in flight
together, an acknowledged edit is not undone by an older one, the page is not
left unasked. A forced save does not wait for the request before it, and clears
the saving keys at once, which gives up all of them. `WarnsBeforeLoss` has one
more exception, found by the fourth edit: `completeAt` is in seconds, so the end
of a batch removes the key of an edit made within the second of its last one.
`OnlyFailuresStrand` holds with forced saves and lost answers too: the failure that
`save_stranded` shows is the only step that leaves stacked edits to nobody.
`SavingEnds` holds with forced saves.

In `cells`, `Contiguous` and `RequestsAreListOperations` are about histories
without a stale position: inserts and moves may overlap as they like, and a
delete or a paste is safe if its cell kept its place between its read and its
write. One that is not tears the order for good, as nothing ever renumbers a
document.

In `socket` and `query_client` the exceptions are what is worth reading: each
is a way in which a tab ends up in the wrong room, or never learns of the end
of a query, that the code does not exclude. In `collab` there are three ways to
a copy that is not the list, and no other: an event was missed between a fetch and
a join or in a lost connection, events of two commits came in the other order, or
an event of the document shown before came over the same socket after the switch;
the paths that cut, paste, restore and refetch add none. (That a paste reads
its position before it moves is one step here: a stale position tears the
server's rows too, which is `DataDocCells`.)

**What the exceptions mean.** A property that names an exception is checked up
to it: it shows that nothing else goes wrong, and does not catch the exception,
which the code has. Where a hazard in `PROJECT.json` is such an exception, its
note says so; where it is nothing else, no property is listed for it.

**Deadlock** is not checked: requests, reviews and edits come to an end
because their number is bounded.

**Fairness.** `QueryExecution!Fairness`: a process goes on with the task or the
request it holds, a free worker takes a queued message, and a query whose
engine never answers is ended by `task_soft_time_limit` (`app/flask_app.py`),
which needs strong fairness since polls and sleeps alternate. Nobody has to
send a request: the guards exclude the first step of every request.
`DataDocSaving!SFairness`: a timer that was set fires, and a request that was
sent is applied and answered. Edits and forced saves have no fairness.
`DataDocSocket!FairSpec` and `QueryClient!FairSpec`: a socket that connects gets
its connection or its error and retries (socket.io's reconnection), a fetch is
answered, the server handles what it received, the worker and its message queue
go on. Nobody has to open or leave a page, and no connection has to be lost.

## 4. What is proved

`QueryExecution_proofs`, for every number of reviews, cancels, clean ups,
statements and crashes, and every set of faults:

| theorem | says | argument |
|---|---|---|
| `TypeCorrect` | `TypeOK` | with `AskedTask`: a cancel asks Celery only about a task the row named |
| `ReviewGuardsStart` | `StartedOnlyApproved` | from `Queueing`: which tasks exist, by how far their request has come |
| `StartedOnce` | `AtMostOnce` | `Queueing` gives a single task (`OneTask`), so nobody starts the query between its double check and its start (`LaunchOnce`) |
| `ErrorsAreExplained` | `ErrorExplained` | inductive as it stands |
| `RejectionHolds` | `RejectedNeverStarts`, which `qe_rejected` violates, where at most one decision is made | from `Queueing`: the only task would be the approval's, and its request is the one that rejected |
| `EndsForGood` | `EndedForGood`: where at most one decision is made, a row that has ended after the query was started stays ended | from `LaunchOnce`: `Start`, which sets `RUNNING` whatever the row holds, is not reached again; `OnlyStartRuns`: nobody else does |
| `NobodyOrphaned` | `NoOrphan` | under `NothingLost` (no child dies, no request fails between its commit and its task, Redis takes the tasks of approvals and, where something may cancel, logs upload and results do not expire), from `Unrevoked`: without cancels nothing is revoked or aborted, and with them Celery knows every task a cancel can name (`KnownTasks`), so it revokes none |

`QueryLifecycle_proofs`, for every number of statements and crashes and all other
faults, under `Undisturbed` (no cancel and no clean up, at most one decision, Redis
takes tasks, at least one statement) or, `AllStatementsDone`, the weaker `Orderly`
(at most one decision and one cancel, any clean ups; results do not expire where
something may cancel, and inspections are answered where something cleans up):

| theorem | says | argument |
|---|---|---|
| `RefinesLifecycle` | `ImplementsLifecycle`: the row implements `QueryLifecycle` | from `Alone`: whoever is about to overwrite the status still knows it, because a queued task is the only one and its requests are done with the row (`OnlyTask`) |
| `AllStatementsDone` | `DoneComplete` | `Sequential`: the statement rows, by where the worker is; `Spared`: a cancel that does not leave it to the worker saw no statement; `Named`: a clean up that saw a statement knows its task, so what it fails no worker holds |
| `OneStatementAfterTheOther` | `StatementsInOrder` | from `Alone` and `Sequential` |

The premises are needed. For `EndedForGood`: two approvals bring a query back that
has ended, and before the start a cancel in place is overwritten by a worker that
has made its check (TLC finds both). For `Undisturbed`: a cancel, a clean up or a second decision
may write over a status it has not read lately, and an execution without a statement
becomes `ERROR` after `DONE` (the poll that completed it goes on). For `Orderly`, in
TLC's counterexamples: the second of two cancels finds the task `ABORTED` and marks
the statement that the worker goes on with, as the worker's `PROGRESS` overwrote the
abort; so does one cancel if the result expired; and a clean up that a worker does not
answer fails a statement of a query that ends `DONE`.

`DataDocSaving_proofs`, for any number of managers, fields and edits and every set
of faults:

| theorem | says | argument |
|---|---|---|
| `OneInFlight` | `OneAtATime` | from `Slot`: without a forced save `processRequest` is the manager's only open request, and whoever waits, waits for it |
| `AskedBeforeLeaving` | `WarnsBeforeLoss` | with `Used`, `Stacked` and `Clock`: whatever is unsaved was made at or before the last edit, and the saving key is that of the last edit, or of one made in its second |
| `OnlyFailuresAbandon` | `OnlyFailuresStrand`, an action property, forced saves and lost answers included | with `Follows`: an armed timer has its manager's version, `processRequest` is a request in flight of its manager, and the calls that wait do so for requests of theirs |
| `CoveredUntilFailure` | what `SkipsOnlyWhenCovered` says, which `save_stranded` violates, of each manager none of whose requests failed | from the same steps, as a failed request stays failed |
| `ToldTheTruth` | `ResolvedIsSaved` | with `RInv`: an open request is its manager's last (`LastOpen`), it notifies the latest edit of its field that it carries and none from before an earlier request's (`Carried`), what is resolved was answered `ok` (`Told`), which only an applied request is (`Answers`), and the row holds what was applied or later (`Written`) |

`DataDocCells_proofs`, for any number of documents, cells and authors:

| theorem | says | argument |
|---|---|---|
| `PositionsAreContiguous` | `Contiguous` | `Ordered`: the positions of a document are one to one with 0 to its length less one, unless a stale request committed; the arithmetic of each shift is a lemma; `NewCells`: an insert's cell is in no document before it commits |
| `CommitsAreListOperations` | `RequestsAreListOperations`, an action property: each commit is the step of `DataDocList` its author asked for | the list of a document is the inverse of its positions, so a shift of positions is an insertion, a removal or a move of the list |

`DataDocSocket_proofs`, for any number of documents, sockets and pages:

| theorem | says | argument |
|---|---|---|
| `OneSocketAtATime` | `OneSocket` | `Promised`, `OnlyThePromised`: the only open socket is the one of `socketPromise`, unless a page leaked one |
| `PageIsFollowed` | `FollowsThePage` | `InItsRoom`: the active document's room is the only one of a connected socket, and the only one that the buffered messages of another will leave it in; `PageKnown`: the page's document is being fetched, awaits the socket, or is active |
| `EventsAreHandedRight` | `EventsFindTheirDocument` | `HandlersFollow`: the handlers are those of the active document, or of the one that awaits the connection; an event that is not old was sent since they are there |

`QueryClient_proofs`, for any number of tabs and statements:

| theorem | says | argument |
|---|---|---|
| `NothingListedTwice` | `StatementsListedOnce` | tab by tab, `ListedAt` and `StreamAt`: what the page lists is in order and no later than what is on its way; `NoGapAt`: a tab that no old row reached lists all up to there, each event is of the same statement or the next, and the last leaves at most the one that is not emitted (`Unsent`) |
| `ShownIsFollowed` | `ListensWhileRunning` | `LinkedAt`: a tab that shows a query under way listens, and one that listens over a connection has joined, or its subscribe is sent or being handled; `StartedAt`: nobody listens to a query that waits for its review |

`DataDocCollab_proofs`, for any number of tabs, documents, cells, requests and
losses:

| theorem | says | argument |
|---|---|---|
| `NothingShownTwice` | `NoCellTwice` | `Lists`: no cell is in two documents, or twice in one; `Copies`: every reducer leaves a copy without repetitions |
| `EachCallItsEvent` | `CallsSettledByTheirEvents`, an action property | `Tagged`: the events of a request carry its number and are nowhere else, with the socket they were asked for over; `Waited`: while no calls of a tab overlapped, each event on its way to it that settles a promise is of the call that is open, and the last one of that call |
| `CopiesAreTheList` | `CopiesConverge` | below |

`CopiesAreTheList` needs the past: there is a history `h`, the lists of the documents after
each commit, such that every event on its way turns the list before its commit
into the one after it, and every answer of a refetch is the list of its commit
(`Recorded`). Each commit after `newest[t]` that changed the document of a tab is
on its way to it, will be fetched, or is in `missed[t]` (`ToCome`), and the copy is
the list at `newest[t]` unless a commit before that is still to come
(`UpToDate`). When nothing is on its way both together are the property. `ConvInv`
quantifies the history, and each commit extends it; lemmas say what an
insertion, a removal and `arrayMove` do to a list, and that a copy which skipped
no position event gets the same from the reducer as the server.

`Parts_proofs`, one section per part. The assumptions on constants are
stated with each section:

| theorem | says | argument |
|---|---|---|
| `ResultsOnlyGrow` | `NeverShrinks` | the entry under way is for more rows than are loaded, unless it strayed |
| `NoForeignResults` | `ResultsBelongToTheSearch` | at most one request is under way, and it is for the search shown unless that one is not sent |
| `OwnerCatchesUp` | `OwnerHasWhatIsShown` | a timer waits with what is shown, unless they are apart |
| `LastCallIsServed` | `EveryCallIsServed` | the counter is at most the number of calls that wait, unless a task was not queued, so the last of them finds it at one or below and runs; and at least that number, unless it was torn (expired or deleted under a call), so that no other runs |
| `ListsAreInOrder` | `ListsArePrefixes` | `OneForTables`, `OneForSchemas`: a list that did not stray is a prefix, and what is under way for it is one request, for the batch that comes next; `SchemasNotAhead`: asked for twice or not, no schemas are under way or listed ahead of their place |
| `PageIsTheBoard` | `PageListsTheBoard` | `AloneAndFetched`, `PageFollows`: while nothing strayed, the page lists the rows as they are but for the one call under way, which knows what it will do to the page; `move_item_order` at the server is `arrayMove` on the page (`ShiftedOrders`, `MoveIsArrayMove`), and a deletion is a filter (`FilterOrder`) |
| `PageAgreesOnTheCell` | `PageShowsTheCell` | until changes crossed: `StoredToBe`, the store's cell is what the row will be with the edits on their way; `LastEventIsTheRow`; `ShownAsStored`, a field without a timer is shown as it is stored |
| `ScheduleIsKept` | `EditorKeepsTheSchedule` | `EditorInv`: a form has days only for the kinds of its policy, and an untouched one is what the cron was read as; then a case for each policy, there and back, for any times and days |
| `BeatRunsTheTable` | `BeatFollowsTheTable` | entry by entry, `SeenAt` (beat has the enabled row, or the timestamps say that it changed, or beat is about to reload, or what is stored then is `unseen`) and `CountedAt` (the row has all its runs unless its name is dirty, and the entry in memory does) |
| `QueriesAreSplitAtTheirSeparators` | `SplitsTheQuery` | `SqlLexed`: once i symbols are read, the lexer is where the reference reading is, and its tokens are in order, each where text begins or ends, and cover what was read; `SqlSemisBetween`: of two tokens with a separator between them the later one has more before it |
| `RecordIsRight` | `RecordTellsTheOutcome` | `ChainIsToGo`: the tasks left are those of the queries not started or not ended; `InOrder`: what has started follows queries that are done |
| `RunsAreServedRight` | `KernelServesItsRuns` | `NotYet`: nothing is posted before the kernel is there, and what waits for it is the latest; `Served`: the messages keep their order, so the values a run wants are in its namespace or before it on the wire; `Counted`, `StaleFirst`: tasks are counted, and the run that started the kernel, which leaves the status as it is, goes first |

The assumptions are those of the modules on their constants, which TLC evaluates
in every run that extends them, and in some theorems that `None` is not among the
numbers, values, schedules or requests, as `null` is not.

`SplitsTheQuery` is about recursive functions, the lexer and the reference reading.
That they satisfy their equations, and what they return for every query, takes an
induction over its length. The library's induction theorem has an operator as
parameter; `NatInduct` states the principle for a set of numbers instead, from
the well-foundedness of the naturals. (Its property used to leave aside queries with
an open string; the proof showed that only the text within the string is lost.)

Only model-checked: liveness, which is out of TLAPS's reach, as ENABLED is. Every
safety invariant and action property of the passing runs has a theorem.

## 5. Where the code departs from its documentation

Three runs show one each; `PROJECT.json` has the details under "findings".

* A cancel may be lost: the worker's `PROGRESS` overwrites `ABORTED`.
* A rejected query may run, when another reviewer approved it at the same time.
* A batch that waits for a request is abandoned when that request fails.

Others are excluded, by name, from the properties that they would break:

* A cancel whose log upload fails leaves the row `RUNNING` for ever (`NoOrphan`
  holds where uploads succeed or nobody cancels).
* A query that was cancelled in place, as its row named no task yet
  (`datasources/query_execution.py:262`), runs all the same: the start
  (`on_query_start`, `lib/query_executor/base_executor.py:75`) sets `RUNNING`
  whatever the row holds, which is why `EndedForGood` begins with the start.
* A forced save removes the saving keys before it has saved.
* Removing a query from a board removes nothing on the page: its number is
  looked for among the boards (`webapp/redux/board/reducer.ts:74`).
* The chain of a scheduled document whose first query cell is blank lacks an
  argument (`tasks/run_datadoc.py:111`), so Celery refuses to queue it; its
  record stays `RUNNING`, as does that of one whose last query was cancelled, or
  whose cell was deleted (`:173`, `:162`).
* A scheduled document all of whose queries are done is recorded as failed when
  the last block of a query's task raises (`tasks/run_query.py:74`), or when its
  message was delivered again and the second delivery returns `None` (`:85`).
* Metadata that cannot be stored leaves the new execution `INITIALIZED` with no
  task, outside the `try` of its handler (`datasources/query_execution.py:157`).
* An event of the document shown before, on its way at the switch, is applied to
  the next one (`webapp/lib/data-doc/datadoc-socketio.ts:119`).
* Schemas asked for twice are listed twice, and the next batch is skipped
  (`webapp/redux/dataTableSearch/action.ts:142`).
* A schedule that changes while its run is being reserved is overwritten in
  memory by what it was (`scheduler/__init__.py:198`).
* A statement that ends in a string of several lines is cut short
  (`webapp/lib/sql-helper/sql-lexer.ts:572`), as is one that ends in a character
  that no token is (`:427`).
* A cron with months but no day of the month opens, and is saved, as daily
  (`webapp/lib/utils/cron.ts:46`).
* The deletion of a schedule, or its new owner, is not announced to beat when
  the row's `no_changes` is set (`models/schedule.py:91`).
* A page that showed an execution while it waited for a review does not follow
  it once it is approved (`webapp/components/QueryExecution/QueryExecution.tsx:141`).
* A socket whose connection was lost stays when its page is left
  (`webapp/lib/socketio-manager.ts:92`).

## 6. Plan

Done, in this order: the execution worker, saving, cell
order, the collaboration, the socket, the client, the scheduled run, beat,
debounced tasks and the parts of the page. What is left, most valuable first:

1. Proofs: the row's statements with two cancels; what `qe_abort` leaves true of
   its property.
2. `DataDocCollab` over `DataDocCells` instead of over lists, so that a torn
   order, and a paste's stale position, reach the copies.
3. `ScheduledRun` over `QueryExecution`, whose results it chooses from.
4. The fields of a document and its editors; logs and progress of a statement;
   tables listed under one schema; presence.

## 7. What is not modelled

Engine clients, metastore loaders, result stores, exporters, notifiers,
uploaders, AI assistants and vector stores are wrappers of external services:
`QueryExecution` chooses what an engine answers and whether a log or a
notification fails. Query analysis and templating are functions from text to
text, but for the splitting in `SqlStatements`. Users, permissions, comments and
the administration pages read and write single rows in one transaction. The
search index is a projection without feedback. Presence is a hash that nothing
else reads. The throttled task runs twice when two calls meet between its two
commands, which its users bear. The automatic disabling of schedules counts run
records, those left `RUNNING` among the failures. Most files of the web
application render the state: they are the bulk of its lines and hold none of
the behaviour above, which is why the map covers a small share of them.
