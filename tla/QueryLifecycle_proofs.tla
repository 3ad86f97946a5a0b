----------------------- MODULE QueryLifecycle_proofs -----------------------
(***************************************************************************)
(* QueryExecution implements QueryLifecycle when nobody cancels and no     *)
(* clean up intervenes, and its statements run in order, whatever the      *)
(* number of statements and crashes and whatever else goes wrong.  A DONE  *)
(* query is done in all its statements with one cancel and any number of   *)
(* clean ups, too.                                                         *)
(***************************************************************************)
EXTENDS QueryExecution_proofs

USE DEF Active, Terminal, QueryExecutionStatus, Unfinished,
        StatementExecutionStatus, CeleryState

(* The executor of t was started, and its query was not ended yet. *)
Started(t) ==
    \/ wpc[t] \in {"progress", "next", "poll", "upload", "exception",
                   "exceptionRow"}
    \/ wpc[t] = "check" /\ executor[t] = "RUNNING"

(* Every write of the status is blind, so what makes it right is that      *)
(* nobody else wrote since its writer last knew the status.                *)
Alone ==
    /\ submit = "create" => status = "NONE"
    /\ submit = "enqueue" => status = "INITIALIZED"
    /\ \A r \in Reviews :
          /\ review[r] \in {"approve", "reject"} => status = "PENDING_REVIEW"
          /\ review[r] = "enqueue" => status = "INITIALIZED"
    /\ status \notin {"DELIVERED", "CANCEL"}
    /\ \A t \in Tasks :
          /\ result[t] # "ABORTED"
          /\ queue[t] # "none" => status \notin {"NONE", "PENDING_REVIEW"}
          /\ BeforeStart(t) => status = "INITIALIZED"
          /\ Started(t) => status = "RUNNING"
          /\ wpc[t] = "finalError" => status \in {"INITIALIZED", "RUNNING"}
          /\ wpc[t] \notin {"cancelStatement", "cancelRow"}

(* Once a task was queued it is the only one, and its requests are through *)
(* with the row.                                                           *)
LEMMA OnlyTask ==
    ASSUME SingleDecision, TypeOK, Queueing, NEW t \in Tasks,
           queue[t] # "none"
    PROVE  /\ submit \notin {"create", "enqueue"}
           /\ \A r \in Reviews : review[r] \notin {"approve", "reject", "enqueue"}
           /\ \A u \in Tasks \ {t} : queue[u] = "none" /\ wpc[u] = "idle"
<1> USE DEF TypeOK, Queueing, Tasks, SingleDecision
<1>1. CASE t = Submit
  <2>1. ~reviewRow
    BY <1>1
  <2> QED
    BY <1>1, <2>1, QueueingOneTask DEF OneTask
<1>2. CASE t \in Reviews
  <2>1. review[t] = "approved" /\ reviewRow
    BY <1>2
  <2> QED
    BY <1>2, <2>1, QueueingOneTask DEF OneTask
<1> QED
  BY <1>1, <1>2

(* The create request and the reviews know the status they overwrite.      *)
LEMMA SubmitAlone ==
    ASSUME Undisturbed, TypeOK, Queueing, LaunchOnce, Alone, SubmitNext
    PROVE  Alone'
<1> USE DEF TypeOK, Queueing, Tasks, Alone, BeforeStart, Started, Working, WorkerStep,
            rowVars, celeryVars, workerVars, requestVars, cancelVars, cleanVars,
            Undisturbed
<1>1. CASE CreateQueryExecution
  BY <1>1 DEF CreateQueryExecution
<1>2. CASE InitiatePeerReview
  BY <1>2 DEF InitiatePeerReview
<1>3. CASE EnqueueTask
  BY <1>3 DEF EnqueueTask
<1>4. CASE RespondToSubmit
  BY <1>4 DEF RespondToSubmit
<1>5. CASE SubmitFails
  BY <1>5 DEF SubmitFails
<1>6. CASE AssociateFails
  BY <1>6 DEF AssociateFails
<1> QED
  BY <1>1, <1>2, <1>3, <1>4, <1>5, <1>6
  DEF SubmitNext

LEMMA ReviewAlone ==
    ASSUME NEW r \in Reviews, Undisturbed, TypeOK, Queueing, LaunchOnce, Alone,
           ReviewNext(r)
    PROVE  Alone'
<1> USE DEF TypeOK, Queueing, Tasks, Alone, BeforeStart, Started, Working, WorkerStep,
            rowVars, celeryVars, workerVars, requestVars, cancelVars, cleanVars,
            Undisturbed, SingleDecision
<1>1. CASE ValidateReview(r)
  BY <1>1 DEF ValidateReview
<1>2. CASE RefuseReview(r)
  BY <1>2 DEF RefuseReview
<1>3. CASE CommitApproval(r)
  BY <1>3 DEF CommitApproval
<1>4. CASE RollBackApproval(r)
  BY <1>4 DEF RollBackApproval
<1>5. CASE EnqueueApproved(r)
  BY <1>5 DEF EnqueueApproved
<1>6. CASE EnqueueApprovedFails(r)
  BY <1>6 DEF EnqueueApprovedFails
<1>7. CASE CommitRejection(r)
  BY <1>7 DEF CommitRejection
<1> QED
  BY <1>1, <1>2, <1>3, <1>4, <1>5, <1>6, <1>7
  DEF ReviewNext

(* Whatever a worker or its environment does, it does to a queued task. *)
LEMMA UsesQueue ==
    ASSUME TypeOK, Queueing, NEW t \in Tasks,
           WorkerNext(t) \/ EnvironmentNext(t)
    PROVE  queue[t] # "none"
<1>1. Working(t) => queue[t] # "none"
  BY DEF Queueing
<1>2. Working(t) \/ queue[t] = "queued"
  BY DEF WorkerNext, EnvironmentNext, Working, WorkerStep, Deliver, ReadInfo,
         Claim, CheckAborted, Start, ReportStart, RunNextStatement,
         CompleteQuery, Poll, Upload, SoftTimeLimit, ExceptionStatement,
         ExceptionRow, CancelStatement, CancelRow, FinalRead, FinalError,
         Report, HostDies, ProcessDies, DiscardRevoked, ApplyRevoke,
         ResultExpires
<1> QED
  BY <1>1, <1>2

(* So do the worker and what can happen to it, as all others are done.    *)
LEMMA WorkerAlone ==
    ASSUME NEW t \in Tasks, Undisturbed, TypeOK, Queueing, LaunchOnce, Alone,
           WorkerNext(t)
    PROVE  Alone'
<1>0. /\ submit \notin {"create", "enqueue"}
      /\ \A r \in Reviews : review[r] \notin {"approve", "reject", "enqueue"}
      /\ \A u \in Tasks \ {t} : queue[u] = "none" /\ wpc[u] = "idle"
  BY OnlyTask, UsesQueue DEF Undisturbed
<1> USE DEF TypeOK, Queueing, Tasks, Alone, BeforeStart, Started, Working, WorkerStep,
            rowVars, celeryVars, workerVars, requestVars, cancelVars, cleanVars,
            LaunchOnce, Goto, Store, UpdateProgress, Undisturbed
<1>1. CASE Deliver(t)
  BY <1>1, <1>0 DEF Deliver
<1>2. CASE ReadInfo(t)
  BY <1>2, <1>0 DEF ReadInfo
<1>3. CASE Claim(t)
  BY <1>3, <1>0 DEF Claim
<1>4. CASE CheckAborted(t)
  BY <1>4, <1>0 DEF CheckAborted
<1>5. CASE Start(t)
  BY <1>5, <1>0 DEF Start
<1>6. CASE ReportStart(t)
  BY <1>6, <1>0 DEF ReportStart
<1>7. CASE RunNextStatement(t)
  BY <1>7, <1>0 DEF RunNextStatement
<1>8. CASE CompleteQuery(t)
  BY <1>8, <1>0 DEF CompleteQuery
<1>9. CASE Poll(t)
  BY <1>9, <1>0 DEF Poll
<1>10. CASE Upload(t)
  BY <1>10, <1>0 DEF Upload
<1>11. CASE SoftTimeLimit(t)
  BY <1>11, <1>0 DEF SoftTimeLimit
<1>12. CASE ExceptionStatement(t)
  BY <1>12, <1>0 DEF ExceptionStatement
<1>13. CASE ExceptionRow(t)
  BY <1>13, <1>0 DEF ExceptionRow
<1>14. CASE CancelStatement(t)
  BY <1>14, <1>0 DEF CancelStatement
<1>15. CASE CancelRow(t)
  BY <1>15, <1>0 DEF CancelRow
<1>16. CASE FinalRead(t)
  BY <1>16, <1>0 DEF FinalRead
<1>17. CASE FinalError(t)
  BY <1>17, <1>0 DEF FinalError
<1>18. CASE Report(t)
  BY <1>18, <1>0 DEF Report
<1> QED
  BY <1>1, <1>2, <1>3, <1>4, <1>5, <1>6, <1>7, <1>8, <1>9,
     <1>10, <1>11, <1>12, <1>13, <1>14, <1>15, <1>16, <1>17, <1>18
  DEF WorkerNext

LEMMA EnvironmentAlone ==
    ASSUME NEW t \in Tasks, Undisturbed, TypeOK, Queueing, LaunchOnce, Alone,
           EnvironmentNext(t)
    PROVE  Alone'
<1>0. /\ submit \notin {"create", "enqueue"}
      /\ \A r \in Reviews : review[r] \notin {"approve", "reject", "enqueue"}
      /\ \A u \in Tasks \ {t} : queue[u] = "none" /\ wpc[u] = "idle"
  BY OnlyTask, UsesQueue DEF Undisturbed
<1> USE DEF TypeOK, Queueing, Tasks, Alone, BeforeStart, Started, Working, WorkerStep,
            rowVars, celeryVars, workerVars, requestVars, cancelVars, cleanVars,
            Goto, Store
<1>1. CASE HostDies(t)
  BY <1>1, <1>0 DEF HostDies
<1>2. CASE ProcessDies(t)
  BY <1>2, <1>0 DEF ProcessDies
<1>3. CASE DiscardRevoked(t)
  BY <1>3, <1>0 DEF DiscardRevoked
<1>4. CASE ApplyRevoke(t)
  BY <1>4, <1>0 DEF ApplyRevoke
<1>5. CASE ResultExpires(t)
  BY <1>5, <1>0 DEF ResultExpires
<1> QED
  BY <1>1, <1>2, <1>3, <1>4, <1>5
  DEF EnvironmentNext

LEMMA InitAlone == Init => Alone
BY DEF Init, Alone, BeforeStart, Started

LEMMA NextAlone ==
    ASSUME Undisturbed, TypeOK, Queueing, LaunchOnce, Alone, [Next]_vars
    PROVE  Alone'
<1>1. CASE UNCHANGED vars
  BY <1>1 DEF Alone, BeforeStart, Started, vars, rowVars, celeryVars,
              workerVars, requestVars
<1>2. CASE Next
  BY <1>2, SubmitAlone, ReviewAlone, WorkerAlone, EnvironmentAlone
  DEF Next, Undisturbed
<1> QED
  BY <1>1, <1>2

LEMMA AloneInvariant == ASSUME Undisturbed PROVE Spec => [](LaunchOnce /\ Alone)
<1>1. SingleDecision
  BY DEF Undisturbed
<1>2. Spec => []LaunchOnce
  BY <1>1, LaunchOnceInvariant
<1>3. Init => Alone
  BY InitAlone
<1>4. TypeOK /\ Queueing /\ LaunchOnce /\ Alone /\ [Next]_vars => Alone'
  BY NextAlone
<1> QED
  BY <1>2, <1>3, <1>4, TypeCorrect, QueueingInvariant, PTL DEF Spec

-----------------------------------------------------------------------------
(* Every step is a step of the lifecycle, or leaves it alone.              *)

(* The steps of the requests, of the worker and of its environment, each   *)
(* against the lifecycle.                                                  *)
LEMMA SubmitRefines ==
    ASSUME Undisturbed, TypeOK, Alone, SubmitNext
    PROVE  [Lifecycle!LNext]_(Lifecycle!lvars)
<1> USE DEF TypeOK, Alone, BeforeStart, Started, Lifecycle!LNext, Lifecycle!lvars,
            Lifecycle!Receive, Lifecycle!Decide, Lifecycle!Begin,
            Lifecycle!Complete, Lifecycle!Fail, rowVars, Undisturbed
<1>1. CASE CreateQueryExecution
  BY <1>1 DEF CreateQueryExecution
<1>2. CASE InitiatePeerReview
  BY <1>2 DEF InitiatePeerReview
<1>3. CASE EnqueueTask
  BY <1>3 DEF EnqueueTask
<1>4. CASE RespondToSubmit
  BY <1>4 DEF RespondToSubmit
<1>5. CASE SubmitFails
  BY <1>5 DEF SubmitFails
<1>6. CASE AssociateFails
  BY <1>6 DEF AssociateFails
<1> QED
  BY <1>1, <1>2, <1>3, <1>4, <1>5, <1>6
  DEF SubmitNext

LEMMA ReviewRefines ==
    ASSUME NEW r \in Reviews, TypeOK, Alone, ReviewNext(r)
    PROVE  [Lifecycle!LNext]_(Lifecycle!lvars)
<1> USE DEF TypeOK, Alone, BeforeStart, Started, Lifecycle!LNext, Lifecycle!lvars,
            Lifecycle!Receive, Lifecycle!Decide, Lifecycle!Begin,
            Lifecycle!Complete, Lifecycle!Fail, rowVars
<1>1. CASE ValidateReview(r)
  BY <1>1 DEF ValidateReview
<1>2. CASE RefuseReview(r)
  BY <1>2 DEF RefuseReview
<1>3. CASE CommitApproval(r)
  BY <1>3 DEF CommitApproval
<1>4. CASE RollBackApproval(r)
  BY <1>4 DEF RollBackApproval
<1>5. CASE EnqueueApproved(r)
  BY <1>5 DEF EnqueueApproved
<1>6. CASE EnqueueApprovedFails(r)
  BY <1>6 DEF EnqueueApprovedFails
<1>7. CASE CommitRejection(r)
  BY <1>7 DEF CommitRejection
<1> QED
  BY <1>1, <1>2, <1>3, <1>4, <1>5, <1>6, <1>7
  DEF ReviewNext

LEMMA WorkerRefines ==
    ASSUME NEW t \in Tasks, Undisturbed, TypeOK, LaunchOnce, Alone,
           WorkerNext(t)
    PROVE  [Lifecycle!LNext]_(Lifecycle!lvars)
<1> USE DEF TypeOK, Alone, BeforeStart, Started, Lifecycle!LNext, Lifecycle!lvars,
            Lifecycle!Receive, Lifecycle!Decide, Lifecycle!Begin,
            Lifecycle!Complete, Lifecycle!Fail, rowVars, LaunchOnce, Undisturbed
<1>1. CASE Deliver(t)
  BY <1>1 DEF Deliver
<1>2. CASE ReadInfo(t)
  BY <1>2 DEF ReadInfo
<1>3. CASE Claim(t)
  BY <1>3 DEF Claim
<1>4. CASE CheckAborted(t)
  BY <1>4 DEF CheckAborted
<1>5. CASE Start(t)
  BY <1>5 DEF Start
<1>6. CASE ReportStart(t)
  BY <1>6 DEF ReportStart
<1>7. CASE RunNextStatement(t)
  BY <1>7 DEF RunNextStatement
<1>8. CASE CompleteQuery(t)
  BY <1>8 DEF CompleteQuery
<1>9. CASE Poll(t)
  BY <1>9 DEF Poll
<1>10. CASE Upload(t)
  BY <1>10 DEF Upload
<1>11. CASE SoftTimeLimit(t)
  BY <1>11 DEF SoftTimeLimit
<1>12. CASE ExceptionStatement(t)
  BY <1>12 DEF ExceptionStatement
<1>13. CASE ExceptionRow(t)
  BY <1>13 DEF ExceptionRow
<1>14. CASE CancelStatement(t)
  BY <1>14 DEF CancelStatement
<1>15. CASE CancelRow(t)
  BY <1>15 DEF CancelRow
<1>16. CASE FinalRead(t)
  BY <1>16 DEF FinalRead
<1>17. CASE FinalError(t)
  BY <1>17 DEF FinalError
<1>18. CASE Report(t)
  BY <1>18 DEF Report
<1> QED
  BY <1>1, <1>2, <1>3, <1>4, <1>5, <1>6, <1>7, <1>8, <1>9,
     <1>10, <1>11, <1>12, <1>13, <1>14, <1>15, <1>16, <1>17, <1>18
  DEF WorkerNext

LEMMA EnvironmentRefines ==
    ASSUME NEW t \in Tasks, EnvironmentNext(t)
    PROVE  [Lifecycle!LNext]_(Lifecycle!lvars)
<1> USE DEF Lifecycle!lvars, rowVars
<1>1. CASE HostDies(t)
  BY <1>1 DEF HostDies
<1>2. CASE ProcessDies(t)
  BY <1>2 DEF ProcessDies
<1>3. CASE DiscardRevoked(t)
  BY <1>3 DEF DiscardRevoked
<1>4. CASE ApplyRevoke(t)
  BY <1>4 DEF ApplyRevoke
<1>5. CASE ResultExpires(t)
  BY <1>5 DEF ResultExpires
<1> QED
  BY <1>1, <1>2, <1>3, <1>4, <1>5
  DEF EnvironmentNext

(* Nothing but cancels, clean ups and a second decision can change a       *)
(* status in a way the user was not promised: every behaviour of the row   *)
(* is one of QueryLifecycle, for any number of statements and crashes.     *)
THEOREM RefinesLifecycle == ASSUME Undisturbed PROVE Spec => ImplementsLifecycle
<1>1. Init => Lifecycle!LInit
  BY DEF Init, Lifecycle!LInit
<1>2. TypeOK /\ LaunchOnce /\ Alone /\ [Next]_vars
        => [Lifecycle!LNext]_(Lifecycle!lvars)
  <2> SUFFICES ASSUME TypeOK, LaunchOnce, Alone, [Next]_vars
               PROVE  [Lifecycle!LNext]_(Lifecycle!lvars)
    OBVIOUS
  <2>1. CASE UNCHANGED vars
    BY <2>1 DEF vars, rowVars, Lifecycle!lvars
  <2>2. CASE Next
    BY <2>2, SubmitRefines, ReviewRefines, WorkerRefines, EnvironmentRefines
    DEF Next, Undisturbed
  <2> QED
    BY <2>1, <2>2
<1> QED
  BY <1>1, <1>2, TypeCorrect, AloneInvariant, PTL
  DEF Spec, ImplementsLifecycle, Lifecycle!LSpec

-----------------------------------------------------------------------------
(* What DoneComplete needs of the requests: one decision, one cancel at    *)
(* most, and a Celery that knows and answers.  The second of two cancels   *)
(* finds the task aborted and marks a statement that the worker goes on    *)
(* with, and so does one that finds an expired result; a clean up whose    *)
(* inspection is not answered fails one that is DONE in the end.           *)
Orderly ==
    /\ SingleDecision
    /\ \A c, d \in Cancels : c = d
    /\ Cancels # {} => "expiry" \notin Faults
    /\ Cleanups # {} => "inspect" \notin Faults

-----------------------------------------------------------------------------
(* The tasks that the row and the clean ups name.  A row that names none   *)
(* is of a query that was never started.                                   *)

Named ==
    /\ taskId # NoTask => queue[taskId] # "none"
    /\ taskId = NoTask =>
          /\ launches = 0
          /\ \A t \in Tasks : wpc[t] \notin {"check", "start", "progress",
                                            "next", "poll", "upload"}
    /\ \A k \in Cleanups :
          /\ cleanTask[k] # NoTask => queue[cleanTask[k]] # "none"
          /\ cleanTask[k] = NoTask => cleanStatements[k] = {}

(* A task that was queued once stays known, and the row keeps its name.    *)
LEMMA SubmitNamed ==
    ASSUME TypeOK, Queueing, Named, SubmitNext
    PROVE  Named'
<1> USE DEF TypeOK, Named, Tasks, rowVars, celeryVars, workerVars,
            requestVars, cancelVars, cleanVars
<1>1. CASE CreateQueryExecution
  BY <1>1 DEF CreateQueryExecution
<1>2. CASE InitiatePeerReview
  BY <1>2 DEF InitiatePeerReview
<1>3. CASE EnqueueTask
  BY <1>3 DEF EnqueueTask
<1>4. CASE RespondToSubmit
  BY <1>4 DEF RespondToSubmit
<1>5. CASE SubmitFails
  BY <1>5 DEF SubmitFails
<1>6. CASE AssociateFails
  BY <1>6 DEF AssociateFails
<1> QED
  BY <1>1, <1>2, <1>3, <1>4, <1>5, <1>6
  DEF SubmitNext

LEMMA ReviewNamed ==
    ASSUME NEW r \in Reviews, TypeOK, Queueing, Named, ReviewNext(r)
    PROVE  Named'
<1> USE DEF TypeOK, Named, Tasks, rowVars, celeryVars, workerVars,
            requestVars, cancelVars, cleanVars
<1>1. CASE ValidateReview(r)
  BY <1>1 DEF ValidateReview
<1>2. CASE RefuseReview(r)
  BY <1>2 DEF RefuseReview
<1>3. CASE CommitApproval(r)
  BY <1>3 DEF CommitApproval
<1>4. CASE RollBackApproval(r)
  BY <1>4 DEF RollBackApproval
<1>5. CASE EnqueueApproved(r)
  BY <1>5 DEF EnqueueApproved
<1>6. CASE EnqueueApprovedFails(r)
  BY <1>6 DEF EnqueueApprovedFails
<1>7. CASE CommitRejection(r)
  BY <1>7 DEF CommitRejection
<1> QED
  BY <1>1, <1>2, <1>3, <1>4, <1>5, <1>6, <1>7
  DEF ReviewNext

LEMMA CancelNamed ==
    ASSUME NEW c \in Cancels, TypeOK, Queueing, Named, CancelNext(c)
    PROVE  Named'
<1> USE DEF TypeOK, Named, Tasks, rowVars, celeryVars, workerVars,
            requestVars, cancelVars, cleanVars
<1>1. CASE ReadForCancel(c)
  BY <1>1 DEF ReadForCancel
<1>2. CASE RefuseCancel(c)
  BY <1>2 DEF RefuseCancel
<1>3. CASE AskCelery(c)
  BY <1>3 DEF AskCelery
<1>4. CASE AbortTask(c)
  BY <1>4 DEF AbortTask
<1>5. CASE CancelStatementInPlace(c)
  BY <1>5 DEF CancelStatementInPlace
<1>6. CASE CancelRowInPlace(c)
  BY <1>6 DEF CancelRowInPlace
<1> QED
  BY <1>1, <1>2, <1>3, <1>4, <1>5, <1>6
  DEF CancelNext

LEMMA CleanUpNamed ==
    ASSUME NEW k \in Cleanups, TypeOK, Queueing, Named,
           launches = 0 => statements = << >>, CleanUpNext(k)
    PROVE  Named'
<1> USE DEF TypeOK, Named, Tasks, rowVars, celeryVars, workerVars,
            requestVars, cancelVars, cleanVars
<1>1. CASE ReadForCleanUp(k)
  BY <1>1 DEF ReadForCleanUp
<1>2. CASE LeaveActive(k)
  BY <1>2 DEF LeaveActive
<1>3. CASE CleanUpRow(k)
  BY <1>3 DEF CleanUpRow
<1> QED
  BY <1>1, <1>2, <1>3
  DEF CleanUpNext

LEMMA WorkerNamed ==
    ASSUME NEW t \in Tasks, TypeOK, Queueing, Named, WorkerNext(t)
    PROVE  Named'
<1> USE DEF TypeOK, Named, Tasks, rowVars, celeryVars, workerVars,
            requestVars, cancelVars, cleanVars, Goto, Working,
            WorkerStep, Queueing
<1>1. CASE Deliver(t)
  BY <1>1, ActorsAssumption DEF Deliver
<1>2. CASE ReadInfo(t)
  BY <1>2, ActorsAssumption DEF ReadInfo
<1>3. CASE Claim(t)
  BY <1>3, ActorsAssumption DEF Claim
<1>4. CASE CheckAborted(t)
  BY <1>4, ActorsAssumption DEF CheckAborted
<1>5. CASE Start(t)
  BY <1>5, ActorsAssumption DEF Start
<1>6. CASE ReportStart(t)
  BY <1>6, ActorsAssumption DEF ReportStart
<1>7. CASE RunNextStatement(t)
  BY <1>7, ActorsAssumption DEF RunNextStatement
<1>8. CASE CompleteQuery(t)
  BY <1>8, ActorsAssumption DEF CompleteQuery
<1>9. CASE Poll(t)
  BY <1>9, ActorsAssumption DEF Poll
<1>10. CASE Upload(t)
  BY <1>10, ActorsAssumption DEF Upload
<1>11. CASE SoftTimeLimit(t)
  BY <1>11, ActorsAssumption DEF SoftTimeLimit
<1>12. CASE ExceptionStatement(t)
  BY <1>12, ActorsAssumption DEF ExceptionStatement
<1>13. CASE ExceptionRow(t)
  BY <1>13, ActorsAssumption DEF ExceptionRow
<1>14. CASE CancelStatement(t)
  BY <1>14, ActorsAssumption DEF CancelStatement
<1>15. CASE CancelRow(t)
  BY <1>15, ActorsAssumption DEF CancelRow
<1>16. CASE FinalRead(t)
  BY <1>16, ActorsAssumption DEF FinalRead
<1>17. CASE FinalError(t)
  BY <1>17, ActorsAssumption DEF FinalError
<1>18. CASE Report(t)
  BY <1>18, ActorsAssumption DEF Report
<1> QED
  BY <1>1, <1>2, <1>3, <1>4, <1>5, <1>6, <1>7, <1>8, <1>9, <1>10, <1>11,
     <1>12, <1>13, <1>14, <1>15, <1>16, <1>17, <1>18
  DEF WorkerNext

LEMMA EnvironmentNamed ==
    ASSUME NEW t \in Tasks, TypeOK, Queueing, Named, EnvironmentNext(t)
    PROVE  Named'
<1> USE DEF TypeOK, Named, Tasks, rowVars, celeryVars, workerVars,
            requestVars, cancelVars, cleanVars, Goto
<1>1. CASE HostDies(t)
  BY <1>1 DEF HostDies
<1>2. CASE ProcessDies(t)
  BY <1>2 DEF ProcessDies
<1>3. CASE DiscardRevoked(t)
  BY <1>3 DEF DiscardRevoked
<1>4. CASE ApplyRevoke(t)
  BY <1>4 DEF ApplyRevoke
<1>5. CASE ResultExpires(t)
  BY <1>5 DEF ResultExpires
<1> QED
  BY <1>1, <1>2, <1>3, <1>4, <1>5
  DEF EnvironmentNext

-----------------------------------------------------------------------------
(* What a cancel leaves alone.  One that cancels in place, without leaving  *)
(* it to the worker, was told so before the first statement: only an        *)
(* earlier cancel can have aborted the task.                                *)

Spared ==
    /\ \A t \in Tasks :
          result[t] = "ABORTED" => \E c \in Cancels : cancel[c] = "aborted"
    /\ \A c \in Cancels : cancel[c] = "statement" => seenStatement[c] = 0

LEMMA CancelSpared ==
    ASSUME NEW c \in Cancels, Orderly, TypeOK, AskedTask, KnownTasks, Named,
           launches = 0 => statements = << >>, Spared, CancelNext(c)
    PROVE  Spared'
<1> USE DEF TypeOK, Spared, rowVars, celeryVars, workerVars, requestVars,
            cancelVars, cleanVars
<1>1. CASE ReadForCancel(c)
  <2>1. taskId = NoTask => Len(statements) = 0
    BY DEF Named
  <2> QED
    BY <1>1, <2>1 DEF ReadForCancel
<1>2. CASE RefuseCancel(c)
  BY <1>2 DEF RefuseCancel
<1>3. CASE AskCelery(c)
  <2>1. seenTask[c] \in Tasks /\ result[seenTask[c]] # "PENDING"
    BY <1>3, ActorsAssumption DEF AskCelery, AskedTask, KnownTasks, Tasks
  <2>2. result[seenTask[c]] # "ABORTED"
    BY <1>3, <2>1 DEF AskCelery, Orderly
  <2>3. cancel' = [cancel EXCEPT ![c] = "abort"]
    BY <1>3, <2>1, <2>2 DEF AskCelery
  <2>4. UNCHANGED <<result, seenStatement>>
    BY <1>3 DEF AskCelery
  <2>5. cancel[c] = "ask"
    BY <1>3 DEF AskCelery
  <2> QED
    BY <2>3, <2>4, <2>5
<1>4. CASE AbortTask(c)
  BY <1>4 DEF AbortTask
<1>5. CASE CancelStatementInPlace(c)
  BY <1>5 DEF CancelStatementInPlace
<1>6. CASE CancelRowInPlace(c)
  BY <1>6 DEF CancelRowInPlace
<1> QED
  BY <1>1, <1>2, <1>3, <1>4, <1>5, <1>6
  DEF CancelNext

-----------------------------------------------------------------------------
(* The statements of a query, by where its worker is.                      *)

(* The worker of t is at its last statement.                               *)
AtStatement(t) ==
    \/ wpc[t] \in {"poll", "upload"}
    \/ wpc[t] = "check" /\ executor[t] = "RUNNING"

(* It will go on with the statements, or end one as cancelled or failed.   *)
AtWork(t) ==
    \/ AtStatement(t)
    \/ wpc[t] \in {"progress", "next", "cancelStatement"}
    \/ wpc[t] = "exception" /\ current[t] # 0

Sequential ==
    /\ launches = 0 => statements = << >>
    /\ status = "DONE" =>
          /\ launches > 0
          /\ \A t \in Tasks : ~AtWork(t)
          /\ Len(statements) = NumStatements
          /\ \A i \in 1 .. Len(statements) : statements[i] = "DONE"
    /\ \A t \in Tasks :
          /\ wpc[t] = "info" \/ BeforeStart(t) =>
                index[t] = 0 /\ current[t] = 0
          /\ wpc[t] = "progress" =>
                /\ index[t] = 0 /\ current[t] = 0
                /\ launches > 0 /\ statements = << >>
          /\ wpc[t] = "next" =>
                /\ launches > 0
                /\ Len(statements) = index[t]
                /\ current[t] = index[t]
                /\ \A i \in 1 .. Len(statements) : statements[i] = "DONE"
          /\ AtStatement(t) =>
                /\ launches > 0
                /\ Len(statements) = index[t]
                /\ current[t] = index[t]
                /\ index[t] > 0
                /\ \A i \in 1 .. Len(statements) :
                      i < Len(statements) => statements[i] = "DONE"

(* Marking a statement keeps the number of statements, and all others.     *)
LEMMA MarkKeeps ==
    ASSUME TypeOK, NEW i \in Nat, NEW s
    PROVE  /\ Len(MarkStatement(i, s)) = Len(statements)
           /\ \A j \in 1 .. Len(statements) :
                 MarkStatement(i, s)[j] = IF j = i THEN s ELSE statements[j]
<1>1. Len(statements) \in Nat /\ DOMAIN statements = 1 .. Len(statements)
  BY DEF TypeOK
<1>2. CASE i = 0
  BY <1>1, <1>2 DEF MarkStatement
<1>3. CASE i # 0
  BY <1>1, <1>3 DEF MarkStatement, TypeOK
<1> QED
  BY <1>2, <1>3

(* Neither the create request nor a review touches the statements.         *)
LEMMA SubmitSequential ==
    ASSUME TypeOK, Sequential, SubmitNext
    PROVE  Sequential'
<1> USE DEF TypeOK, Sequential, AtStatement, AtWork, BeforeStart, rowVars,
            celeryVars, workerVars, requestVars, cancelVars,
            cleanVars
<1>1. CASE CreateQueryExecution
  BY <1>1 DEF CreateQueryExecution
<1>2. CASE InitiatePeerReview
  BY <1>2 DEF InitiatePeerReview
<1>3. CASE EnqueueTask
  BY <1>3 DEF EnqueueTask
<1>4. CASE RespondToSubmit
  BY <1>4 DEF RespondToSubmit
<1>5. CASE SubmitFails
  BY <1>5 DEF SubmitFails
<1>6. CASE AssociateFails
  BY <1>6 DEF AssociateFails
<1> QED
  BY <1>1, <1>2, <1>3, <1>4, <1>5, <1>6
  DEF SubmitNext

LEMMA ReviewSequential ==
    ASSUME NEW r \in Reviews, TypeOK, Sequential, ReviewNext(r)
    PROVE  Sequential'
<1> USE DEF TypeOK, Sequential, AtStatement, AtWork, BeforeStart, rowVars,
            celeryVars, workerVars, requestVars, cancelVars,
            cleanVars
<1>1. CASE ValidateReview(r)
  BY <1>1 DEF ValidateReview
<1>2. CASE RefuseReview(r)
  BY <1>2 DEF RefuseReview
<1>3. CASE CommitApproval(r)
  BY <1>3 DEF CommitApproval
<1>4. CASE RollBackApproval(r)
  BY <1>4 DEF RollBackApproval
<1>5. CASE EnqueueApproved(r)
  BY <1>5 DEF EnqueueApproved
<1>6. CASE EnqueueApprovedFails(r)
  BY <1>6 DEF EnqueueApprovedFails
<1>7. CASE CommitRejection(r)
  BY <1>7 DEF CommitRejection
<1> QED
  BY <1>1, <1>2, <1>3, <1>4, <1>5, <1>6, <1>7
  DEF ReviewNext

(* A cancel in place finds no statement of its own.                        *)
LEMMA CancelSequential ==
    ASSUME NEW c \in Cancels, TypeOK, Spared, Sequential, CancelNext(c)
    PROVE  Sequential'
<1> USE DEF TypeOK, Sequential, AtStatement, AtWork, BeforeStart, rowVars,
            celeryVars, workerVars, requestVars, cancelVars,
            cleanVars, Spared
<1>1. CASE ReadForCancel(c)
  BY <1>1 DEF ReadForCancel
<1>2. CASE RefuseCancel(c)
  BY <1>2 DEF RefuseCancel
<1>3. CASE AskCelery(c)
  BY <1>3 DEF AskCelery
<1>4. CASE AbortTask(c)
  BY <1>4 DEF AbortTask
<1>5. CASE CancelStatementInPlace(c)
  <2>1. seenStatement[c] = 0
    BY <1>5 DEF CancelStatementInPlace
  <2>2. UNCHANGED statements
    BY <1>5, <2>1 DEF CancelStatementInPlace, MarkStatement
  <2> QED
    BY <1>5, <2>2 DEF CancelStatementInPlace
<1>6. CASE CancelRowInPlace(c)
  BY <1>6 DEF CancelRowInPlace
<1> QED
  BY <1>1, <1>2, <1>3, <1>4, <1>5, <1>6
  DEF CancelNext

(* A clean up fails the statements of a task that no worker holds.         *)
LEMMA CleanUpSequential ==
    ASSUME NEW k \in Cleanups, Orderly, TypeOK, Queueing, Named, Sequential,
           CleanUpNext(k)
    PROVE  Sequential'
<1> USE DEF TypeOK, Sequential, AtStatement, AtWork, BeforeStart, rowVars,
            celeryVars, workerVars, requestVars, cancelVars, cleanVars
<1>1. CASE ReadForCleanUp(k)
  BY <1>1 DEF ReadForCleanUp
<1>2. CASE LeaveActive(k)
  BY <1>2 DEF LeaveActive
<1>3. CASE CleanUpRow(k)
  <2>1. /\ DOMAIN statements = 1 .. Len(statements) /\ Len(statements) \in Nat
        /\ status' = "ERROR"
        /\ UNCHANGED <<workerVars, launches>>
        /\ statements' = [i \in DOMAIN statements |->
               IF i \in cleanStatements[k] THEN "ERROR" ELSE statements[i]]
    BY <1>3 DEF CleanUpRow
  <2>2. CASE cleanStatements[k] = {}
    <3>1. statements' = [i \in DOMAIN statements |-> statements[i]]
      BY <2>1, <2>2
    <3>2. UNCHANGED statements
      BY <3>1
    <3> QED
      BY <2>1, <3>2
  <2>3. CASE cleanStatements[k] # {}
    <3>1. PICK t \in Tasks : t = cleanTask[k] /\ queue[t] # "none"
      BY <2>3 DEF Named
    <3>2. queue[t] # "unacked"
      BY <1>3, <3>1, ActorsAssumption
      DEF CleanUpRow, HeldByWorker, Orderly, Tasks
    <3>3. ~Working(t)
      BY <3>2 DEF Queueing
    <3>4. \A u \in Tasks : ~Working(u)
      <4>1. \A u \in Tasks \ {t} : wpc[u] = "idle"
        BY <3>1, OnlyTask DEF Orderly
      <4> QED
        BY <3>3, <4>1 DEF Working, WorkerStep
    <3>5. launches = 0 => statements' = << >>
      BY <2>1
    <3> QED
      BY <2>1, <3>4, <3>5 DEF Working, WorkerStep
  <2> QED
    BY <2>2, <2>3
<1> QED
  BY <1>1, <1>2, <1>3
  DEF CleanUpNext

(* A new statement row follows rows that are all DONE.                     *)
LEMMA RunNextSequential ==
    ASSUME NEW t \in Tasks, TypeOK, LaunchOnce, Sequential,
           RunNextStatement(t), \A u \in Tasks \ {t} : wpc[u] = "idle"
    PROVE  Sequential'
<1>1. /\ statements \in Seq(StatementExecutionStatus)
      /\ Len(statements) \in Nat
      /\ index[t] \in Nat
      /\ wpc \in [Tasks -> WorkerStep \cup {"idle", "done", "dead"}]
      /\ index \in [Tasks -> 0 .. NumStatements]
      /\ current \in [Tasks -> Nat]
  BY DEF TypeOK
<1>2. /\ wpc[t] = "next" /\ executor[t] = "RUNNING"
      /\ status # "DONE"
  BY DEF RunNextStatement, LaunchOnce, Sequential, AtWork
<1>3. /\ Len(statements) = index[t]
      /\ \A i \in 1 .. Len(statements) : statements[i] = "DONE"
      /\ launches > 0
  BY <1>2 DEF Sequential
<1>4. /\ statements' = Append(statements, "RUNNING")
      /\ current' = [current EXCEPT ![t] = Len(statements) + 1]
      /\ UNCHANGED <<status, executor, launches>>
  BY DEF RunNextStatement
<1>5. /\ Len(statements') = Len(statements) + 1
      /\ \A i \in 1 .. Len(statements) : statements'[i] = statements[i]
  BY <1>1, <1>4
<1>6. current'[t] = index[t] + 1
  BY <1>1, <1>3, <1>4
<1>7. \/ /\ index'[t] = index[t] + 1
         /\ wpc'[t] \in {"poll", "check"}
      \/ wpc'[t] = "exception"
  BY <1>1 DEF RunNextStatement, Goto
<1>8. \A u \in Tasks \ {t} : wpc'[u] = "idle"
  BY <1>1 DEF RunNextStatement, Goto
<1>9. \A i \in 1 .. Len(statements') :
          i < Len(statements') => statements'[i] = "DONE"
  <2> SUFFICES ASSUME NEW i \in 1 .. Len(statements'), i < Len(statements')
               PROVE  statements'[i] = "DONE"
    OBVIOUS
  <2>1. i \in 1 .. Len(statements)
    BY <1>1, <1>5
  <2> QED
    BY <1>3, <1>5, <2>1
<1>10. AtStatement(t)' =>
          /\ Len(statements') = index'[t]
          /\ current'[t] = index'[t]
          /\ index'[t] > 0
  BY <1>1, <1>3, <1>5, <1>6, <1>7 DEF AtStatement
<1>11. wpc'[t] \in {"poll", "check", "exception"} /\ executor'[t] = "RUNNING"
  BY <1>2, <1>4, <1>7
<1>12. status' # "DONE" /\ launches' > 0
  BY <1>2, <1>3, <1>4
<1>13. \A u \in Tasks \ {t} : ~AtStatement(u)' /\ ~BeforeStart(u)'
  BY <1>8 DEF AtStatement, BeforeStart
<1>14. ~BeforeStart(t)'
  BY <1>11 DEF BeforeStart
<1> QED
  BY <1>8, <1>9, <1>10, <1>11, <1>12, <1>13, <1>14 DEF Sequential

(* The worker takes one statement after the other.                         *)
LEMMA WorkerSequential ==
    ASSUME NEW t \in Tasks, Orderly, TypeOK, Queueing, LaunchOnce, Sequential,
           WorkerNext(t)
    PROVE  Sequential'
<1>0. \A u \in Tasks \ {t} : queue[u] = "none" /\ wpc[u] = "idle"
  BY OnlyTask, UsesQueue DEF Orderly
<1>19. RunNextStatement(t) => Sequential'
  BY <1>0, RunNextSequential
<1> USE DEF TypeOK, Sequential, AtStatement, AtWork, BeforeStart, rowVars,
            celeryVars, workerVars, requestVars, cancelVars,
            cleanVars, LaunchOnce, Goto, Tasks
<1>1. CASE Deliver(t)
  BY <1>1, <1>0 DEF Deliver
<1>2. CASE ReadInfo(t)
  BY <1>2, <1>0 DEF ReadInfo
<1>3. CASE Claim(t)
  BY <1>3, <1>0 DEF Claim
<1>4. CASE CheckAborted(t)
  BY <1>4, <1>0 DEF CheckAborted
<1>5. CASE Start(t)
  BY <1>5, <1>0 DEF Start
<1>6. CASE ReportStart(t)
  BY <1>6, <1>0 DEF ReportStart
<1>7. CASE RunNextStatement(t)
  BY <1>7, <1>19
<1>8. CASE CompleteQuery(t)
  BY <1>8, <1>0, BoundsAssumption DEF CompleteQuery
<1>9. CASE Poll(t)
  BY <1>9, <1>0, MarkKeeps DEF Poll
<1>10. CASE Upload(t)
  BY <1>10, <1>0, MarkKeeps DEF Upload
<1>11. CASE SoftTimeLimit(t)
  BY <1>11, <1>0 DEF SoftTimeLimit
<1>12. CASE ExceptionStatement(t)
  BY <1>12, <1>0, MarkKeeps DEF ExceptionStatement
<1>13. CASE ExceptionRow(t)
  BY <1>13, <1>0 DEF ExceptionRow
<1>14. CASE CancelStatement(t)
  BY <1>14, <1>0, MarkKeeps DEF CancelStatement
<1>15. CASE CancelRow(t)
  BY <1>15, <1>0 DEF CancelRow
<1>16. CASE FinalRead(t)
  BY <1>16, <1>0 DEF FinalRead
<1>17. CASE FinalError(t)
  BY <1>17, <1>0 DEF FinalError
<1>18. CASE Report(t)
  BY <1>18, <1>0 DEF Report
<1> QED
  BY <1>1, <1>2, <1>3, <1>4, <1>5, <1>6, <1>7, <1>8, <1>9, <1>10, <1>11,
     <1>12, <1>13, <1>14, <1>15, <1>16, <1>17, <1>18
  DEF WorkerNext

LEMMA EnvironmentSequential ==
    ASSUME NEW t \in Tasks, Orderly, TypeOK, Queueing, Sequential,
           EnvironmentNext(t)
    PROVE  Sequential'
<1>0. \A u \in Tasks \ {t} : queue[u] = "none" /\ wpc[u] = "idle"
  BY OnlyTask, UsesQueue DEF Orderly
<1> USE DEF TypeOK, Sequential, AtStatement, AtWork, BeforeStart, rowVars,
            celeryVars, workerVars, requestVars, cancelVars,
            cleanVars, Goto
<1>1. CASE HostDies(t)
  BY <1>1, <1>0 DEF HostDies
<1>2. CASE ProcessDies(t)
  BY <1>2, <1>0 DEF ProcessDies
<1>3. CASE DiscardRevoked(t)
  BY <1>3, <1>0 DEF DiscardRevoked
<1>4. CASE ApplyRevoke(t)
  BY <1>4, <1>0 DEF ApplyRevoke
<1>5. CASE ResultExpires(t)
  BY <1>5, <1>0 DEF ResultExpires
<1> QED
  BY <1>1, <1>2, <1>3, <1>4, <1>5
  DEF EnvironmentNext

-----------------------------------------------------------------------------
(* The three together                                                      *)

InTurn == Named /\ Spared /\ Sequential

LEMMA NextInTurn ==
    ASSUME Orderly, TypeOK, AskedTask, Queueing, LaunchOnce, InTurn,
           Cancels # {} => KnownTasks, [Next]_vars
    PROVE  InTurn'
<1>0. launches = 0 => statements = << >>
  BY DEF InTurn, Sequential
<1>1. CASE UNCHANGED vars
  <2>1. UNCHANGED <<rowVars, celeryVars, workerVars, cancelVars, cleanVars, launches>>
    BY <1>1 DEF vars, requestVars
  <2> QED
    BY <2>1 DEF InTurn, Named, Spared, Sequential, AtStatement, AtWork,
       BeforeStart, rowVars, celeryVars, workerVars, cancelVars, cleanVars
<1>2. CASE Next
  <2>1. Named'
    BY <1>0, <1>2, SubmitNamed, ReviewNamed, CancelNamed, CleanUpNamed,
       WorkerNamed, EnvironmentNamed DEF Next, InTurn
  <2>2. Spared'
    <3>1. CASE \E c \in Cancels : CancelNext(c)
      BY <1>0, <3>1, CancelSpared DEF InTurn
    <3>2. CASE ~\E c \in Cancels : CancelNext(c)
      <4>1. \A u \in Tasks : result'[u] = "ABORTED" => result[u] = "ABORTED"
        BY <1>2, <3>2, OthersAbortNothing DEF Next
      <4>2. UNCHANGED cancelVars
        BY <1>2, <3>2, OthersKeepCancels DEF Next
      <4> QED
        BY <4>1, <4>2 DEF InTurn, Spared, cancelVars
    <3> QED
      BY <3>1, <3>2
  <2>3. Sequential'
    BY <1>2, SubmitSequential, ReviewSequential, CancelSequential,
       CleanUpSequential, WorkerSequential, EnvironmentSequential
    DEF Next, InTurn
  <2> QED
    BY <2>1, <2>2, <2>3 DEF InTurn
<1> QED
  BY <1>1, <1>2

LEMMA InTurnInvariant == ASSUME Orderly PROVE Spec => []InTurn
<1>1. Init => InTurn
  BY DEF Init, InTurn, Named, Spared, Sequential, AtStatement, AtWork, BeforeStart
<1>2. Spec => [](Cancels # {} => KnownTasks)
  <2>1. CASE Cancels = {}
    <3>1. Cancels # {} => KnownTasks
      BY <2>1
    <3> QED
      BY <3>1, PTL
  <2>2. CASE Cancels # {}
    <3>1. Spec => []KnownTasks
      BY <2>2, KnownInvariant DEF Orderly
    <3> QED
      BY <3>1, PTL
  <2> QED
    BY <2>1, <2>2
<1>3. Spec => []LaunchOnce
  BY LaunchOnceInvariant DEF Orderly
<1>4. TypeOK /\ AskedTask /\ Queueing /\ LaunchOnce /\ InTurn
        /\ (Cancels # {} => KnownTasks) /\ [Next]_vars => InTurn'
  BY NextInTurn
<1> QED
  BY <1>1, <1>2, <1>3, <1>4, TypeCorrect, QueueingInvariant, PTL DEF Spec

(* DONE means that every statement of the query ran and is DONE, also when *)
(* it took several deliveries of the task to get there, when a cancel came *)
(* too late and when clean ups looked at it on the way.                    *)
THEOREM AllStatementsDone == ASSUME Orderly PROVE Spec => []DoneComplete
<1>1. TypeOK /\ InTurn => DoneComplete
  <2> SUFFICES ASSUME TypeOK, Sequential, status = "DONE"
               PROVE  statements = [i \in 1 .. NumStatements |-> "DONE"]
    BY DEF DoneComplete, InTurn
  <2>1. Len(statements) = NumStatements
    BY DEF Sequential
  <2>2. \A i \in 1 .. NumStatements : statements[i] = "DONE"
    BY <2>1 DEF Sequential
  <2>3. statements = [i \in 1 .. NumStatements |-> statements[i]]
    BY <2>1 DEF TypeOK
  <2> QED
    BY <2>2, <2>3
<1> QED
  BY <1>1, TypeCorrect, InTurnInvariant, PTL

(* Only _run_next_statement adds a statement row.                          *)
LEMMA WorkerKeepsLength ==
    ASSUME NEW t \in Tasks, TypeOK, WorkerNext(t), ~RunNextStatement(t)
    PROVE  Len(statements') = Len(statements)
<1> USE DEF TypeOK, rowVars, celeryVars, workerVars, requestVars
<1>1. CASE Deliver(t)
  BY <1>1 DEF Deliver
<1>2. CASE ReadInfo(t)
  BY <1>2 DEF ReadInfo
<1>3. CASE Claim(t)
  BY <1>3 DEF Claim
<1>4. CASE CheckAborted(t)
  BY <1>4 DEF CheckAborted
<1>5. CASE Start(t)
  BY <1>5 DEF Start
<1>6. CASE ReportStart(t)
  BY <1>6 DEF ReportStart
<1>7. CASE CompleteQuery(t)
  BY <1>7 DEF CompleteQuery
<1>8. CASE Poll(t)
  BY <1>8, MarkKeeps DEF Poll
<1>9. CASE Upload(t)
  BY <1>9, MarkKeeps DEF Upload
<1>10. CASE SoftTimeLimit(t)
  BY <1>10 DEF SoftTimeLimit
<1>11. CASE ExceptionStatement(t)
  BY <1>11, MarkKeeps DEF ExceptionStatement
<1>12. CASE ExceptionRow(t)
  BY <1>12 DEF ExceptionRow
<1>13. CASE CancelStatement(t)
  BY <1>13, MarkKeeps DEF CancelStatement
<1>14. CASE CancelRow(t)
  BY <1>14 DEF CancelRow
<1>15. CASE FinalRead(t)
  BY <1>15 DEF FinalRead
<1>16. CASE FinalError(t)
  BY <1>16 DEF FinalError
<1>17. CASE Report(t)
  BY <1>17 DEF Report
<1> QED
  BY <1>1, <1>2, <1>3, <1>4, <1>5, <1>6, <1>7, <1>8, <1>9,
     <1>10, <1>11, <1>12, <1>13, <1>14, <1>15, <1>16, <1>17
  DEF WorkerNext

(* A statement is started only on a RUNNING row whose earlier statements   *)
(* are DONE: no crash or second delivery starts one too early or again.    *)
THEOREM OneStatementAfterTheOther ==
    ASSUME Undisturbed PROVE Spec => StatementsInOrder
<1> DEFINE InOrder ==
      Len(statements') > Len(statements) =>
          /\ status = "RUNNING"
          /\ \A i \in DOMAIN statements : statements[i] = "DONE"
<1>1. TypeOK /\ Alone /\ Sequential /\ [Next]_vars => [InOrder]_vars
  <2> SUFFICES ASSUME TypeOK, Alone, Sequential, [Next]_vars
               PROVE  [InOrder]_vars
    OBVIOUS
  <2>0. Len(statements) \in Nat /\ DOMAIN statements = 1 .. Len(statements)
    BY DEF TypeOK
  <2>1. CASE UNCHANGED vars
    BY <2>1
  <2>2. CASE SubmitNext
    BY <2>0, <2>2 DEF SubmitNext, CreateQueryExecution, InitiatePeerReview,
       EnqueueTask, RespondToSubmit, SubmitFails, AssociateFails,
       rowVars
  <2>3. ASSUME NEW r \in Reviews, ReviewNext(r) PROVE InOrder
    BY <2>0, <2>3 DEF ReviewNext, ValidateReview, RefuseReview, CommitApproval,
       RollBackApproval, EnqueueApproved, EnqueueApprovedFails,
       CommitRejection, rowVars
  <2>4. ASSUME NEW t \in Tasks, RunNextStatement(t) PROVE InOrder
    BY <2>0, <2>4 DEF RunNextStatement, Alone, Started, Sequential
  <2>5. ASSUME NEW t \in Tasks, WorkerNext(t), ~RunNextStatement(t)
        PROVE  InOrder
    BY <2>0, <2>5, WorkerKeepsLength
  <2>6. ASSUME NEW t \in Tasks, EnvironmentNext(t) PROVE InOrder
    BY <2>0, <2>6 DEF EnvironmentNext, HostDies, ProcessDies, DiscardRevoked,
       ApplyRevoke, ResultExpires, rowVars
  <2> QED
    BY <2>1, <2>2, <2>3, <2>4, <2>5, <2>6 DEF Next, Undisturbed
<1>2. Spec => []InTurn
  BY InTurnInvariant DEF Undisturbed, Orderly
<1>3. InTurn => Sequential
  BY DEF InTurn
<1> QED
  BY <1>1, <1>2, <1>3, TypeCorrect, AloneInvariant, PTL
  DEF Spec, StatementsInOrder

=============================================================================
