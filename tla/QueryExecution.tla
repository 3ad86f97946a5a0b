--------------------------- MODULE QueryExecution ---------------------------
(***************************************************************************)
(* The life of one query execution in Querybook: the HTTP request that     *)
(* creates it, the peer review that may hold it back, the Celery task that *)
(* runs its statements, the requests that cancel it and the clean up a     *)
(* starting worker performs.                                               *)
(*                                                                         *)
(* These actors share a MySQL row (its status, task id, statement rows and *)
(* error row) and the Celery result of a task, and they coordinate by      *)
(* nothing else.  Every write is a blind UPDATE; a step here is the code   *)
(* between two accesses of that shared state, so a value an actor read     *)
(* earlier is remembered in a variable of the actor.                       *)
(***************************************************************************)
EXTENDS Naturals, Sequences

CONSTANTS
    Reviews,        \* approve/reject requests, one decision each
    Cancels,        \* cancel requests
    Cleanups,       \* production worker starts, one clean up each
    Submit,         \* the request that creates the execution
    NoTask,         \* task_id is NULL
    NumStatements,  \* len(statement_ranges)
    Faults,         \* what may go wrong in the environment
    MaxCrashes      \* bound: worker deaths the environment may cause

\* What the code guards against or is exposed to: the engine (or the checks
\* before it) raises, the log upload raises, Redis (or whatever else a request
\* calls after its commit) raises, storing the metadata of a new execution or
\* adding it to its cell raises, notifying raises, a worker child dies, a
\* worker host dies, a Celery result expires, a worker misses the inspect
\* broadcast.
AllFaults == {"engine", "log", "redis", "metadata", "notify", "process",
              "host", "expiry", "inspect"}

ASSUME ActorsAssumption ==
    /\ Submit \notin Reviews
    /\ NoTask \notin Reviews \cup {Submit}
ASSUME BoundsAssumption ==
    /\ NumStatements \in Nat
    /\ MaxCrashes \in Nat
    /\ Faults \subseteq AllFaults

\* apply_async is called once by the create request and once by each
\* approval, so a task is named by the request that queued it.
Tasks == Reviews \cup {Submit}

VARIABLES
    \* MySQL: the query_execution row and the rows that hang off it
    status, taskId, statements, hasError, reviewRow,
    \* Celery: broker message, stored result and revocation of each task
    queue, result, revoked,
    \* the worker process that holds a task: where it is, executor.status,
    \* _current_query_index, and its last statement row (0 when none)
    wpc, executor, index, current,
    \* the requests and what each of them read
    submit, review, cancel, seenTask, seenStatement,
    cleanup, cleanTask, cleanStatements,
    \* bookkeeping: worker deaths so far; how often the query was started
    crashes, launches

rowVars     == <<status, taskId, statements, hasError, reviewRow>>
celeryVars  == <<queue, result, revoked>>
workerVars  == <<wpc, executor, index, current>>
cancelVars  == <<cancel, seenTask, seenStatement>>
cleanVars   == <<cleanup, cleanTask, cleanStatements>>
requestVars == <<submit, review, cancelVars, cleanVars>>
vars == <<rowVars, celeryVars, workerVars, requestVars, crashes, launches>>

-----------------------------------------------------------------------------
(* Statuses *)

Active   == {"INITIALIZED", "DELIVERED", "RUNNING"}
Terminal == {"DONE", "ERROR", "CANCEL", "REJECTED"}
QueryExecutionStatus == Active \cup Terminal \cup {"PENDING_REVIEW"}

Unfinished == {"INITIALIZED", "RUNNING", "UPLOADING"}
StatementExecutionStatus == Unfinished \cup {"DONE", "ERROR", "CANCEL"}

\* Celery states; only SUCCESS is protected against being overwritten.
CeleryState == {"PENDING", "STARTED", "PROGRESS", "ABORTED", "SUCCESS",
                "FAILURE", "REVOKED"}

WorkerStep == {"info", "claim", "check", "start", "progress", "next", "poll",
               "upload", "exception", "exceptionRow", "cancelStatement",
               "cancelRow", "finalRead", "finalError", "report"}

Working(t) == wpc[t] \in WorkerStep

TypeOK ==
    /\ status \in QueryExecutionStatus \cup {"NONE"}
    /\ taskId \in Tasks \cup {NoTask}
    /\ statements \in Seq(StatementExecutionStatus)
    /\ hasError \in BOOLEAN
    /\ reviewRow \in BOOLEAN
    /\ queue \in [Tasks -> {"none", "queued", "unacked", "acked"}]
    /\ result \in [Tasks -> CeleryState]
    /\ revoked \in SUBSET Tasks
    /\ wpc \in [Tasks -> WorkerStep \cup {"idle", "done", "dead"}]
    /\ executor \in [Tasks -> QueryExecutionStatus \cup {"NONE"}]
    /\ index \in [Tasks -> 0 .. NumStatements]
    /\ current \in [Tasks -> Nat]
    /\ submit \in {"create", "review", "enqueue", "respond", "done", "failed"}
    /\ review \in [Reviews -> {"idle", "approve", "reject", "enqueue",
                               "approved", "rejected", "refused", "failed"}]
    /\ cancel \in [Cancels -> {"idle", "ask", "abort", "aborted", "statement",
                               "row", "done", "refused"}]
    /\ seenTask \in [Cancels -> Tasks \cup {NoTask}]
    /\ seenStatement \in [Cancels -> Nat]
    /\ cleanup \in [Cleanups -> {"idle", "inspect", "done"}]
    /\ cleanTask \in [Cleanups -> Tasks \cup {NoTask}]
    /\ cleanStatements \in [Cleanups -> SUBSET Nat]
    /\ crashes \in Nat
    /\ launches \in Nat

Init ==
    /\ status = "NONE"
    /\ taskId = NoTask
    /\ statements = << >>
    /\ hasError = FALSE
    /\ reviewRow = FALSE
    /\ queue = [t \in Tasks |-> "none"]
    /\ result = [t \in Tasks |-> "PENDING"]
    /\ revoked = {}
    /\ wpc = [t \in Tasks |-> "idle"]
    /\ executor = [t \in Tasks |-> "NONE"]
    /\ index = [t \in Tasks |-> 0]
    /\ current = [t \in Tasks |-> 0]
    /\ submit = "create"
    /\ review = [r \in Reviews |-> "idle"]
    /\ cancel = [c \in Cancels |-> "idle"]
    /\ seenTask = [c \in Cancels |-> NoTask]
    /\ seenStatement = [c \in Cancels |-> 0]
    /\ cleanup = [k \in Cleanups |-> "idle"]
    /\ cleanTask = [k \in Cleanups |-> NoTask]
    /\ cleanStatements = [k \in Cleanups |-> {}]
    /\ crashes = 0
    /\ launches = 0

-----------------------------------------------------------------------------
(* Celery's result store *)

Store(t, state) ==
    IF result[t] = "SUCCESS" THEN result ELSE [result EXCEPT ![t] = state]

\* update_progress is a store with state PROGRESS.
UpdateProgress(t) == Store(t, "PROGRESS")

\* update_statement_execution of the statement row i, if there is one.
MarkStatement(i, s) ==
    IF i = 0 THEN statements ELSE [statements EXCEPT ![i] = s]

Goto(t, step) == wpc' = [wpc EXCEPT ![t] = step]

-----------------------------------------------------------------------------
(* POST /query_execution/ *)

\* The row is committed, and visible to every actor, before anything that
\* will run or review it exists.
CreateQueryExecution ==
    /\ submit = "create"
    /\ \/ status' = "PENDING_REVIEW" /\ submit' = "review"
       \/ status' = "INITIALIZED" /\ submit' = "enqueue"
    /\ UNCHANGED <<taskId, statements, hasError, reviewRow, celeryVars,
                   workerVars, review, cancelVars, cleanVars, crashes,
                   launches>>

\* process_query_execution_metadata raised, outside the try of the handler:
\* the committed row stays as it is, with nobody to run or to review it.
AssociateFails ==
    /\ "metadata" \in Faults
    /\ submit \in {"review", "enqueue"}
    /\ submit' = "failed"
    /\ UNCHANGED <<rowVars, celeryVars, workerVars, review, cancelVars,
                   cleanVars, crashes, launches>>

\* Broken variant: the else of initiate_query_execution is missing.
InitiatePeerReviewFallsThrough ==
    /\ submit = "review"
    /\ reviewRow' = TRUE
    /\ queue' = [queue EXCEPT ![Submit] = "queued"]
    /\ status' = "INITIALIZED"
    /\ submit' = "respond"
    /\ UNCHANGED <<taskId, statements, hasError, result, revoked, workerVars,
                   review, cancelVars, cleanVars, crashes, launches>>

InitiatePeerReview ==
    /\ submit = "review"
    /\ reviewRow' = TRUE
    /\ submit' = "respond"
    /\ UNCHANGED <<status, taskId, statements, hasError, celeryVars,
                   workerVars, review, cancelVars, cleanVars, crashes,
                   launches>>

EnqueueTask ==
    /\ submit = "enqueue"
    /\ queue' = [queue EXCEPT ![Submit] = "queued"]
    /\ submit' = "respond"
    /\ UNCHANGED <<rowVars, result, revoked, workerVars, review, cancelVars,
                   cleanVars, crashes, launches>>

RespondToSubmit ==
    /\ submit = "respond"
    /\ submit' = "done"
    /\ UNCHANGED <<rowVars, celeryVars, workerVars, review, cancelVars,
                   cleanVars, crashes, launches>>

\* The except clause: the error row and the status in one commit, whatever
\* the row holds by then.
SubmitFails ==
    /\ "redis" \in Faults
    /\ submit \in {"review", "enqueue", "respond"}
    /\ submit' = "failed"
    /\ hasError' = TRUE
    /\ status' = "ERROR"
    /\ UNCHANGED <<taskId, statements, reviewRow, celeryVars, workerVars,
                   review, cancelVars, cleanVars, crashes, launches>>

SubmitNext ==
    \/ CreateQueryExecution
    \/ AssociateFails
    \/ InitiatePeerReview
    \/ EnqueueTask
    \/ RespondToSubmit
    \/ SubmitFails

-----------------------------------------------------------------------------
(* PUT .../approve_review/ and .../reject_review/ *)

\* _validate_review passes: the decision still has to be committed.
ValidateReview(r) ==
    /\ review[r] = "idle"
    /\ reviewRow
    /\ status = "PENDING_REVIEW"
    /\ \E decision \in {"approve", "reject"} :
          review' = [review EXCEPT ![r] = decision]
    /\ UNCHANGED <<rowVars, celeryVars, workerVars, submit, cancelVars,
                   cleanVars, crashes, launches>>

\* "This review has already been processed.", or there is none.
RefuseReview(r) ==
    /\ review[r] = "idle"
    /\ status # "NONE"
    /\ status = "PENDING_REVIEW" => ~reviewRow
    /\ review' = [review EXCEPT ![r] = "refused"]
    /\ UNCHANGED <<rowVars, celeryVars, workerVars, submit, cancelVars,
                   cleanVars, crashes, launches>>

CommitApproval(r) ==
    /\ review[r] = "approve"
    /\ status' = "INITIALIZED"
    /\ review' = [review EXCEPT ![r] = "enqueue"]
    /\ UNCHANGED <<taskId, statements, hasError, reviewRow, celeryVars,
                   workerVars, submit, cancelVars, cleanVars, crashes,
                   launches>>

\* _additional_approval_actions raised before the commit: rolled back.
RollBackApproval(r) ==
    /\ review[r] = "approve"
    /\ review' = [review EXCEPT ![r] = "failed"]
    /\ UNCHANGED <<rowVars, celeryVars, workerVars, submit, cancelVars,
                   cleanVars, crashes, launches>>

EnqueueApproved(r) ==
    /\ review[r] = "enqueue"
    /\ queue' = [queue EXCEPT ![r] = "queued"]
    /\ review' = [review EXCEPT ![r] = "approved"]
    /\ UNCHANGED <<rowVars, result, revoked, workerVars, submit, cancelVars,
                   cleanVars, crashes, launches>>

\* apply_async raised: the rollback finds nothing left to undo.
EnqueueApprovedFails(r) ==
    /\ "redis" \in Faults
    /\ review[r] = "enqueue"
    /\ review' = [review EXCEPT ![r] = "failed"]
    /\ UNCHANGED <<rowVars, celeryVars, workerVars, submit, cancelVars,
                   cleanVars, crashes, launches>>

CommitRejection(r) ==
    /\ review[r] = "reject"
    /\ status' = "REJECTED"
    /\ review' = [review EXCEPT ![r] = "rejected"]
    /\ UNCHANGED <<taskId, statements, hasError, reviewRow, celeryVars,
                   workerVars, submit, cancelVars, cleanVars, crashes,
                   launches>>

ReviewNext(r) ==
    \/ ValidateReview(r)
    \/ RefuseReview(r)
    \/ CommitApproval(r)
    \/ RollBackApproval(r)
    \/ EnqueueApproved(r)
    \/ EnqueueApprovedFails(r)
    \/ CommitRejection(r)

-----------------------------------------------------------------------------
(* DELETE /query_execution/<id>/ *)

ReadForCancel(c) ==
    /\ cancel[c] = "idle"
    /\ status \in Active
    /\ seenTask' = [seenTask EXCEPT ![c] = taskId]
    /\ seenStatement' = [seenStatement EXCEPT ![c] = Len(statements)]
    /\ cancel' = [cancel EXCEPT ![c] =
                    IF taskId = NoTask THEN "statement" ELSE "ask"]
    /\ UNCHANGED <<rowVars, celeryVars, workerVars, submit, review,
                   cleanVars, crashes, launches>>

\* "Execution is already completed" (a pending review counts as that too).
RefuseCancel(c) ==
    /\ cancel[c] = "idle"
    /\ status \notin Active \cup {"NONE"}
    /\ cancel' = [cancel EXCEPT ![c] = "refused"]
    /\ UNCHANGED <<rowVars, celeryVars, workerVars, submit, review, seenTask,
                   seenStatement, cleanVars, crashes, launches>>

\* task.state decides: a task nobody knows is revoked, one that was aborted
\* before is cancelled over the worker's head, any other is left to its worker.
AskCelery(c) ==
    /\ cancel[c] = "ask"
    /\ \/ /\ result[seenTask[c]] = "PENDING"
          /\ revoked' = revoked \cup {seenTask[c]}
          /\ cancel' = [cancel EXCEPT ![c] = "statement"]
       \/ /\ result[seenTask[c]] = "ABORTED"
          /\ cancel' = [cancel EXCEPT ![c] = "statement"]
          /\ UNCHANGED revoked
       \/ /\ result[seenTask[c]] \notin {"PENDING", "ABORTED"}
          /\ cancel' = [cancel EXCEPT ![c] = "abort"]
          /\ UNCHANGED revoked
    /\ UNCHANGED <<rowVars, queue, result, workerVars, submit, review,
                   seenTask, seenStatement, cleanVars, crashes, launches>>

AbortTask(c) ==
    /\ cancel[c] = "abort"
    /\ result' = Store(seenTask[c], "ABORTED")
    /\ cancel' = [cancel EXCEPT ![c] = "aborted"]
    /\ UNCHANGED <<rowVars, queue, revoked, workerVars, submit, review,
                   seenTask, seenStatement, cleanVars, crashes, launches>>

\* cancel_query_and_notify: the last statement the request saw, then the row.
CancelStatementInPlace(c) ==
    /\ cancel[c] = "statement"
    /\ statements' = MarkStatement(seenStatement[c], "CANCEL")
    /\ cancel' = [cancel EXCEPT ![c] = "row"]
    /\ UNCHANGED <<status, taskId, hasError, reviewRow, celeryVars,
                   workerVars, submit, review, seenTask, seenStatement,
                   cleanVars, crashes, launches>>

CancelRowInPlace(c) ==
    /\ cancel[c] = "row"
    /\ status' = "CANCEL"
    /\ cancel' = [cancel EXCEPT ![c] = "done"]
    /\ UNCHANGED <<taskId, statements, hasError, reviewRow, celeryVars,
                   workerVars, submit, review, seenTask, seenStatement,
                   cleanVars, crashes, launches>>

CancelNext(c) ==
    \/ ReadForCancel(c)
    \/ RefuseCancel(c)
    \/ AskCelery(c)
    \/ AbortTask(c)
    \/ CancelStatementInPlace(c)
    \/ CancelRowInPlace(c)

-----------------------------------------------------------------------------
(* clean_up_query_execution, at the start of a production worker *)

\* The active rows older than the threshold, read in one snapshot.
ReadForCleanUp(k) ==
    /\ cleanup[k] = "idle"
    /\ status \in Active
    /\ cleanTask' = [cleanTask EXCEPT ![k] = taskId]
    /\ cleanStatements' = [cleanStatements EXCEPT ![k] =
            {i \in DOMAIN statements : statements[i] \in Unfinished}]
    /\ cleanup' = [cleanup EXCEPT ![k] = "inspect"]
    /\ UNCHANGED <<rowVars, celeryVars, workerVars, submit, review,
                   cancelVars, crashes, launches>>

\* is_task_active, by what the workers that answered the inspect hold.
HeldByWorker(t) == t # NoTask /\ queue[t] = "unacked"

LeaveActive(k) ==
    /\ cleanup[k] = "inspect"
    /\ HeldByWorker(cleanTask[k])
    /\ cleanup' = [cleanup EXCEPT ![k] = "done"]
    /\ UNCHANGED <<rowVars, celeryVars, workerVars, submit, review,
                   cancelVars, cleanTask, cleanStatements, crashes,
                   launches>>

\* Broken variant: no error row for the cleaned up execution.
CleanUpRowSilently(k) ==
    /\ cleanup[k] = "inspect"
    /\ HeldByWorker(cleanTask[k]) => "inspect" \in Faults
    /\ status' = "ERROR"
    /\ statements' = [i \in DOMAIN statements |->
            IF i \in cleanStatements[k] THEN "ERROR" ELSE statements[i]]
    /\ cleanup' = [cleanup EXCEPT ![k] = "done"]
    /\ UNCHANGED <<taskId, hasError, reviewRow, celeryVars, workerVars, submit,
                   review, cancelVars, cleanTask, cleanStatements, crashes,
                   launches>>

CleanUpRow(k) ==
    /\ cleanup[k] = "inspect"
    /\ HeldByWorker(cleanTask[k]) => "inspect" \in Faults
    /\ status' = "ERROR"
    /\ hasError' = TRUE
    /\ statements' = [i \in DOMAIN statements |->
            IF i \in cleanStatements[k] THEN "ERROR" ELSE statements[i]]
    /\ cleanup' = [cleanup EXCEPT ![k] = "done"]
    /\ UNCHANGED <<taskId, reviewRow, celeryVars, workerVars, submit, review,
                   cancelVars, cleanTask, cleanStatements, crashes,
                   launches>>

CleanUpNext(k) == ReadForCleanUp(k) \/ LeaveActive(k) \/ CleanUpRow(k)

-----------------------------------------------------------------------------
(* run_query_task: the message, and create_executor_from_execution *)

\* track_started stores STARTED before the task's first line.
Deliver(t) ==
    /\ queue[t] = "queued"
    /\ queue' = [queue EXCEPT ![t] = "unacked"]
    /\ result' = Store(t, "STARTED")
    /\ Goto(t, "info")
    /\ executor' = [executor EXCEPT ![t] = "NONE"]
    /\ index' = [index EXCEPT ![t] = 0]
    /\ current' = [current EXCEPT ![t] = 0]
    /\ UNCHANGED <<rowVars, revoked, requestVars, crashes, launches>>

\* A worker that heard of the revocation drops the message.
DiscardRevoked(t) ==
    /\ queue[t] = "queued"
    /\ t \in revoked
    /\ queue' = [queue EXCEPT ![t] = "acked"]
    /\ result' = Store(t, "REVOKED")
    /\ Goto(t, "dead")
    /\ UNCHANGED <<rowVars, revoked, executor, index, current, requestVars,
                   crashes, launches>>

\* Broken variant: no double check of the status.
ReadInfoUnchecked(t) ==
    /\ wpc[t] = "info"
    /\ Goto(t, "claim")
    /\ UNCHANGED <<rowVars, celeryVars, executor, index, current, requestVars,
                   crashes, launches>>

\* _get_query_execution_info: the double check against a second delivery.
\* An unsafe query or an archived engine raises as well.
ReadInfo(t) ==
    /\ wpc[t] = "info"
    /\ \/ status = "INITIALIZED" /\ Goto(t, "claim")
       \/ status # "INITIALIZED" /\ Goto(t, "finalRead")
       \/ "engine" \in Faults /\ Goto(t, "finalRead")
    /\ UNCHANGED <<rowVars, celeryVars, executor, index, current,
                   requestVars, crashes, launches>>

\* QueryExecutorLogger.__init__ stores the task id; the executor exists.
Claim(t) ==
    /\ wpc[t] = "claim"
    /\ taskId' = t
    /\ executor' = [executor EXCEPT ![t] = "DELIVERED"]
    /\ Goto(t, "check")
    /\ UNCHANGED <<status, statements, hasError, reviewRow, celeryVars,
                   index, current, requestVars, crashes, launches>>

-----------------------------------------------------------------------------
(* run_executor_until_finish *)

\* is_aborted, before every poll.  A poll starts a DELIVERED executor.
CheckAborted(t) ==
    /\ wpc[t] = "check"
    /\ \/ /\ result[t] = "ABORTED"
          /\ executor' = [executor EXCEPT ![t] = "CANCEL"]
          /\ Goto(t, "cancelStatement")
       \/ /\ result[t] # "ABORTED"
          /\ Goto(t, IF executor[t] = "DELIVERED" THEN "start" ELSE "poll")
          /\ UNCHANGED executor
    /\ UNCHANGED <<rowVars, celeryVars, index, current, requestVars, crashes,
                   launches>>

\* on_query_start: the row is set RUNNING, whatever it holds.
Start(t) ==
    /\ wpc[t] = "start"
    /\ status' = "RUNNING"
    /\ launches' = launches + 1
    /\ Goto(t, "progress")
    /\ UNCHANGED <<taskId, statements, hasError, reviewRow, celeryVars,
                   executor, index, current, requestVars, crashes>>

\* Its update_progress, and the connection to the engine.
ReportStart(t) ==
    /\ wpc[t] = "progress"
    /\ result' = UpdateProgress(t)
    /\ executor' = [executor EXCEPT ![t] = "RUNNING"]
    /\ \/ Goto(t, "next")
       \/ "engine" \in Faults /\ Goto(t, "exception")
    /\ UNCHANGED <<rowVars, queue, revoked, index, current, requestVars,
                   crashes, launches>>

\* Broken variant: <= instead of < in _run_next_statement.
RunOneMoreStatement(t) ==
    /\ wpc[t] = "next"
    /\ index[t] <= NumStatements
    /\ statements' = Append(statements, "RUNNING")
    /\ current' = [current EXCEPT ![t] = Len(statements) + 1]
    /\ index' = [index EXCEPT ![t] = index[t] + 1]
    /\ Goto(t, IF index[t] = 0 THEN "poll" ELSE "check")
    /\ UNCHANGED <<status, taskId, hasError, reviewRow, celeryVars, executor,
                   requestVars, crashes, launches>>

\* _run_next_statement with a statement left: the row, then the engine.  The
\* poll that started the executor goes on to poll its first statement.
RunNextStatement(t) ==
    /\ wpc[t] = "next"
    /\ index[t] < NumStatements
    /\ statements' = Append(statements, "RUNNING")
    /\ current' = [current EXCEPT ![t] = Len(statements) + 1]
    /\ \/ /\ index' = [index EXCEPT ![t] = index[t] + 1]
          /\ Goto(t, IF index[t] = 0 THEN "poll" ELSE "check")
       \/ /\ "engine" \in Faults
          /\ Goto(t, "exception")
          /\ UNCHANGED index
    /\ UNCHANGED <<status, taskId, hasError, reviewRow, celeryVars, executor,
                   requestVars, crashes, launches>>

\* Broken variant: the last statement is taken for a completed query.
CompleteQueryEarly(t) ==
    /\ wpc[t] = "next"
    /\ index[t] + 1 >= NumStatements
    /\ status' = "DONE"
    /\ executor' = [executor EXCEPT ![t] = "DONE"]
    /\ Goto(t, "report")
    /\ UNCHANGED <<taskId, statements, hasError, reviewRow, celeryVars, index,
                   current, requestVars, crashes, launches>>

\* _run_next_statement with none left.  An execution without a statement
\* completes inside start(), and the poll that follows raises on it.
CompleteQuery(t) ==
    /\ wpc[t] = "next"
    /\ index[t] >= NumStatements
    /\ status' = "DONE"
    /\ executor' = [executor EXCEPT ![t] = "DONE"]
    /\ Goto(t, IF NumStatements = 0 THEN "exception" ELSE "report")
    /\ UNCHANGED <<taskId, statements, hasError, reviewRow, celeryVars,
                   index, current, requestVars, crashes, launches>>

\* _is_statement_completed: a change of percent_complete is reported, and a
\* completed statement goes on to UPLOADING.
Poll(t) ==
    /\ wpc[t] = "poll"
    /\ result' \in {result, UpdateProgress(t)}
    /\ \/ Goto(t, "check") /\ UNCHANGED statements
       \/ /\ Goto(t, "upload")
          /\ statements' = MarkStatement(current[t], "UPLOADING")
       \/ /\ "engine" \in Faults
          /\ Goto(t, "exception")
          /\ UNCHANGED statements
    /\ UNCHANGED <<status, taskId, hasError, reviewRow, queue, revoked,
                   executor, index, current, requestVars, crashes, launches>>

\* Broken variant: the statement stays UPLOADING.
UploadUnrecorded(t) ==
    /\ wpc[t] = "upload"
    /\ result' = UpdateProgress(t)
    /\ Goto(t, "next")
    /\ UNCHANGED <<rowVars, queue, revoked, executor, index, current,
                   requestVars, crashes, launches>>

\* The rest of on_statement_end; both uploads may raise.
Upload(t) ==
    /\ wpc[t] = "upload"
    /\ \/ /\ statements' = MarkStatement(current[t], "DONE")
          /\ result' = UpdateProgress(t)
          /\ Goto(t, "next")
       \/ /\ Faults \cap {"engine", "log"} # {}
          /\ Goto(t, "exception")
          /\ UNCHANGED <<statements, result>>
    /\ UNCHANGED <<status, taskId, hasError, reviewRow, queue, revoked,
                   executor, index, current, requestVars, crashes, launches>>

\* SoftTimeLimitExceeded: poll() handles it like any exception, and in
\* sleep() it reaches run_query_task, which finds the executor RUNNING.
SoftTimeLimit(t) ==
    /\ \/ wpc[t] = "poll" /\ Goto(t, "exception")
       \/ /\ wpc[t] = "check"
          /\ executor[t] = "RUNNING"
          /\ Goto(t, "finalError")
    /\ UNCHANGED <<rowVars, celeryVars, executor, index, current,
                   requestVars, crashes, launches>>

-----------------------------------------------------------------------------
(* on_exception and on_cancel, and the finally block of run_query_task *)

\* A failed log upload returns None, so unpacking its result raises: the
\* exception leaves poll() before executor.status is set.
ExceptionStatement(t) ==
    /\ wpc[t] = "exception"
    /\ \/ /\ statements' = MarkStatement(current[t], "ERROR")
          /\ Goto(t, "exceptionRow")
       \/ /\ "log" \in Faults
          /\ current[t] # 0
          /\ Goto(t, "finalError")
          /\ UNCHANGED statements
    /\ UNCHANGED <<status, taskId, hasError, reviewRow, celeryVars, executor,
                   index, current, requestVars, crashes, launches>>

ExceptionRow(t) ==
    /\ wpc[t] = "exceptionRow"
    /\ hasError' = TRUE
    /\ status' = "ERROR"
    /\ executor' = [executor EXCEPT ![t] = "ERROR"]
    /\ Goto(t, "report")
    /\ UNCHANGED <<taskId, statements, reviewRow, celeryVars, index, current,
                   requestVars, crashes, launches>>

\* cancel() set executor.status first: when the log upload fails here, the
\* finally block believes the row says CANCEL.
CancelStatement(t) ==
    /\ wpc[t] = "cancelStatement"
    /\ \/ /\ statements' = MarkStatement(current[t], "CANCEL")
          /\ Goto(t, "cancelRow")
       \/ /\ "log" \in Faults
          /\ current[t] # 0
          /\ Goto(t, "report")
          /\ UNCHANGED statements
    /\ UNCHANGED <<status, taskId, hasError, reviewRow, celeryVars, executor,
                   index, current, requestVars, crashes, launches>>

CancelRow(t) ==
    /\ wpc[t] = "cancelRow"
    /\ status' = "CANCEL"
    /\ Goto(t, "report")
    /\ UNCHANGED <<taskId, statements, hasError, reviewRow, celeryVars,
                   executor, index, current, requestVars, crashes, launches>>

\* Broken variants of the finally block: it forgets INITIALIZED, or it takes
\* every task without an executor for a failed execution.
FinalReadRunningOnly(t) ==
    /\ wpc[t] = "finalRead"
    /\ Goto(t, IF status = "RUNNING" THEN "finalError" ELSE "report")
    /\ UNCHANGED <<rowVars, celeryVars, executor, index, current, requestVars,
                   crashes, launches>>

FinalReadAlwaysFails(t) ==
    /\ wpc[t] = "finalRead"
    /\ Goto(t, "finalError")
    /\ UNCHANGED <<rowVars, celeryVars, executor, index, current, requestVars,
                   crashes, launches>>

\* get_query_execution_final_status without an executor reads the row.
FinalRead(t) ==
    /\ wpc[t] = "finalRead"
    /\ Goto(t, IF status \in Active THEN "finalError" ELSE "report")
    /\ UNCHANGED <<rowVars, celeryVars, executor, index, current,
                   requestVars, crashes, launches>>

\* log_if_incomplete_query_status
FinalError(t) ==
    /\ wpc[t] = "finalError"
    /\ hasError' = TRUE
    /\ status' = "ERROR"
    /\ Goto(t, "report")
    /\ UNCHANGED <<taskId, statements, reviewRow, celeryVars, executor,
                   index, current, requestVars, crashes, launches>>

\* Broken variant: the message is not acknowledged.
ReportUnacknowledged(t) ==
    /\ wpc[t] = "report"
    /\ result' = Store(t, "SUCCESS")
    /\ Goto(t, "done")
    /\ UNCHANGED <<rowVars, queue, revoked, executor, index, current,
                   requestVars, crashes, launches>>

\* The notifications, the return value and the acknowledgement.
Report(t) ==
    /\ wpc[t] = "report"
    /\ \/ result' = Store(t, "SUCCESS")
       \/ "notify" \in Faults /\ result' = Store(t, "FAILURE")
    /\ queue' = [queue EXCEPT ![t] = "acked"]
    /\ Goto(t, "done")
    /\ UNCHANGED <<rowVars, revoked, executor, index, current, requestVars,
                   crashes, launches>>

-----------------------------------------------------------------------------
(* Deaths: acks_late returns the message of a lost host to the queue, while *)
(* a lost child process is reported and acknowledged by its parent.         *)

\* Broken variant: acks_late is left out.
HostDiesAcknowledged(t) ==
    /\ "host" \in Faults
    /\ crashes < MaxCrashes
    /\ Working(t)
    /\ crashes' = crashes + 1
    /\ queue' = [queue EXCEPT ![t] = "acked"]
    /\ Goto(t, "idle")
    /\ UNCHANGED <<rowVars, result, revoked, executor, index, current,
                   requestVars, launches>>

HostDies(t) ==
    /\ "host" \in Faults
    /\ crashes < MaxCrashes
    /\ Working(t)
    /\ crashes' = crashes + 1
    /\ queue' = [queue EXCEPT ![t] = "queued"]
    /\ Goto(t, "idle")
    /\ UNCHANGED <<rowVars, result, revoked, executor, index, current,
                   requestVars, launches>>

ProcessDies(t) ==
    /\ "process" \in Faults
    /\ crashes < MaxCrashes
    /\ Working(t)
    /\ crashes' = crashes + 1
    /\ queue' = [queue EXCEPT ![t] = "acked"]
    /\ result' = Store(t, "FAILURE")
    /\ Goto(t, "dead")
    /\ UNCHANGED <<rowVars, revoked, executor, index, current, requestVars,
                   launches>>

\* revoke(terminate=True) reaches the worker that runs the task.
ApplyRevoke(t) ==
    /\ t \in revoked
    /\ Working(t)
    /\ queue' = [queue EXCEPT ![t] = "acked"]
    /\ result' = Store(t, "REVOKED")
    /\ Goto(t, "dead")
    /\ UNCHANGED <<rowVars, revoked, executor, index, current, requestVars,
                   crashes, launches>>

\* A result not stored to for result_expires is forgotten.
ResultExpires(t) ==
    /\ "expiry" \in Faults
    /\ Working(t)
    /\ result' = [result EXCEPT ![t] = "PENDING"]
    /\ UNCHANGED <<rowVars, queue, revoked, workerVars, requestVars, crashes,
                   launches>>

WorkerNext(t) ==
    \/ Deliver(t)
    \/ ReadInfo(t)
    \/ Claim(t)
    \/ CheckAborted(t)
    \/ Start(t)
    \/ ReportStart(t)
    \/ RunNextStatement(t)
    \/ CompleteQuery(t)
    \/ Poll(t)
    \/ Upload(t)
    \/ SoftTimeLimit(t)
    \/ ExceptionStatement(t)
    \/ ExceptionRow(t)
    \/ CancelStatement(t)
    \/ CancelRow(t)
    \/ FinalRead(t)
    \/ FinalError(t)
    \/ Report(t)

EnvironmentNext(t) ==
    \/ HostDies(t)
    \/ ProcessDies(t)
    \/ DiscardRevoked(t)
    \/ ApplyRevoke(t)
    \/ ResultExpires(t)

Next ==
    \/ SubmitNext
    \/ \E r \in Reviews : ReviewNext(r)
    \/ \E c \in Cancels : CancelNext(c)
    \/ \E k \in Cleanups : CleanUpNext(k)
    \/ \E t \in Tasks : WorkerNext(t) \/ EnvironmentNext(t)

Spec == Init /\ [][Next]_vars

\* What keeps running: a process goes on with the task or the request it
\* holds, a free worker takes a queued message, and task_soft_time_limit
\* ends a query its engine never answers.  Nobody has to send a request.
Fairness ==
    /\ WF_vars(SubmitNext /\ submit # "create")
    /\ \A r \in Reviews : WF_vars(ReviewNext(r) /\ review[r] # "idle")
    /\ \A c \in Cancels : WF_vars(CancelNext(c) /\ cancel[c] # "idle")
    /\ \A k \in Cleanups : WF_vars(CleanUpNext(k) /\ cleanup[k] # "idle")
    /\ \A t \in Tasks : WF_vars(WorkerNext(t))
    /\ \A t \in Tasks : SF_vars(SoftTimeLimit(t))

FairSpec == Spec /\ Fairness

-----------------------------------------------------------------------------
(* What the parts promise together *)

\* At most one decision request is ever sent: the only way a second task can
\* exist is a second approval.
SingleDecision == \A r, s \in Reviews : r = s

\* A query is started on the engine at most once, through crashes and second
\* deliveries of its message (AlreadyExecutedException in executor_factory).
AtMostOnce == SingleDecision => launches <= 1

\* A query put up for review is started only after an approval of it was
\* committed and queued.
StartedOnlyApproved ==
    reviewRow /\ launches > 0 => \E r \in Reviews : review[r] = "approved"

\* An approval that still has to reach the queue, the create request before
\* it queued the task, a message, or a worker that will write an end state.
Responsible(t) ==
    \/ queue[t] = "queued"
    \/ wpc[t] \in WorkerStep \ {"report"}

Attended ==
    \/ submit = "enqueue"
    \/ \E r \in Reviews : review[r] = "enqueue"
    \/ \E t \in Tasks : Responsible(t)

\* A row that the user sees as queued or running is always somebody's to
\* finish: no path of the worker (exceptions, cancels, second deliveries,
\* host deaths) leaves it behind.
NoOrphan == status \in Active => Attended

\* An execution in ERROR has an error row to show, whoever of the create
\* request, the worker, its finally block or a clean up wrote the status.
ErrorExplained == status = "ERROR" => hasError

\* Statements run one after the other: a statement is started on the engine
\* only for a RUNNING row whose earlier statements are all DONE.
StatementsInOrder ==
    [][Len(statements') > Len(statements) =>
          /\ status = "RUNNING"
          /\ \A i \in DOMAIN statements : statements[i] = "DONE"]_vars

\* DONE means that every statement of the query ran and is DONE.
DoneComplete ==
    status = "DONE" => statements = [i \in 1 .. NumStatements |-> "DONE"]

\* A created execution comes to rest: in an end state, or with its reviewers.
EventuallySettled == <>[](status \notin Active)

\* No message is delivered for ever: a queued task is finally acknowledged,
\* whatever its deliveries found in the row.
TasksAcknowledged ==
    \A t \in Tasks : queue[t] = "queued" ~> queue[t] = "acked"

\* "Do not update status and let the worker handle it": once an abort was
\* stored, a worker about to ask is_aborted does not go on to poll.
AbortHonoured ==
    [][\A c \in Cancels, t \in Tasks :
          cancel[c] = "aborted" /\ seenTask[c] = t /\ wpc[t] = "check"
             => wpc'[t] \notin {"start", "poll"}]_vars

\* "If rejected, execution remains blocked": no query runs once a reviewer's
\* rejection was committed, however many reviewers answered.
RejectedNeverStarts ==
    (\E r \in Reviews : review[r] = "rejected") => launches = 0

-----------------------------------------------------------------------------
(* What a user is promised when nobody cancels and no clean up intervenes *)

Undisturbed ==
    /\ SingleDecision
    /\ Cancels = {} /\ Cleanups = {}
    /\ "redis" \notin Faults
    /\ NumStatements > 0

Lifecycle == INSTANCE QueryLifecycle

\* Every behaviour of the row, through exceptions, lost workers and second
\* deliveries, is one of QueryLifecycle.
ImplementsLifecycle == Lifecycle!LSpec

=============================================================================
