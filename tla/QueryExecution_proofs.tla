----------------------- MODULE QueryExecution_proofs -----------------------
(***************************************************************************)
(* Theorems about QueryExecution for every set of requests, every number   *)
(* of statements, every set of faults and every number of crashes.         *)
(***************************************************************************)
EXTENDS QueryExecution, SequenceTheorems, TLAPS

USE DEF Active, Terminal, QueryExecutionStatus, Unfinished,
        StatementExecutionStatus, CeleryState

(* Celery's store keeps the result function well typed. *)
LEMMA StoreType ==
    ASSUME TypeOK, NEW t, NEW s \in CeleryState
    PROVE  Store(t, s) \in [Tasks -> CeleryState]
BY DEF TypeOK, Store

(* An update of one statement row, or of none, keeps the rows well typed. *)
LEMMA MarkType ==
    ASSUME TypeOK, NEW i \in Nat, NEW s \in StatementExecutionStatus
    PROVE  MarkStatement(i, s) \in Seq(StatementExecutionStatus)
<1>1. CASE i \in 1 .. Len(statements)
  BY <1>1, ExceptSeq DEF TypeOK, MarkStatement
<1>2. CASE i \notin 1 .. Len(statements)
  <2>1. [statements EXCEPT ![i] = s] = statements
    BY <1>2, LenProperties, SMTT(60) DEF TypeOK
  <2> QED BY <2>1 DEF TypeOK, MarkStatement
<1> QED BY <1>1, <1>2

(* The rows a clean up writes, and the rows it read, are well typed. *)
LEMMA CleanUpType ==
    ASSUME TypeOK, NEW S
    PROVE  /\ [i \in DOMAIN statements |->
                  IF i \in S THEN "ERROR" ELSE statements[i]]
                \in Seq(StatementExecutionStatus)
           /\ {i \in DOMAIN statements : statements[i] \in Unfinished}
                \in SUBSET Nat
<1>1. DOMAIN statements = 1 .. Len(statements) /\ Len(statements) \in Nat
  BY LenProperties DEF TypeOK
<1>2. \A i \in 1 .. Len(statements) :
          statements[i] \in StatementExecutionStatus
  BY <1>1, ElementOfSeq DEF TypeOK
<1>3. [i \in 1 .. Len(statements) |->
          IF i \in S THEN "ERROR" ELSE statements[i]]
        \in [1 .. Len(statements) -> StatementExecutionStatus]
  BY <1>2
<1>4. \A f : f \in [1 .. Len(statements) -> StatementExecutionStatus]
               => f \in Seq(StatementExecutionStatus)
  BY <1>1, SeqDef
<1> QED BY <1>1, <1>3, <1>4

(* Moving a worker to a step keeps the workers well typed. *)
LEMMA GotoType ==
    ASSUME TypeOK, NEW t, NEW s \in WorkerStep \cup {"idle", "done", "dead"},
           Goto(t, s)
    PROVE  wpc' \in [Tasks -> WorkerStep \cup {"idle", "done", "dead"}]
BY DEF TypeOK, Goto

(* A cancel request talks to Celery only about a task it read in the row:  *)
(* TypeOK alone does not rule out that it revokes NULL.                    *)
AskedTask ==
    \A c \in Cancels : cancel[c] \in {"ask", "abort"} => seenTask[c] \in Tasks

-----------------------------------------------------------------------------
(* Type correctness, one group of actions at a time *)

LEMMA SubmitType == TypeOK /\ SubmitNext => TypeOK'
<1> SUFFICES ASSUME TypeOK, SubmitNext PROVE TypeOK'
  OBVIOUS
<1> USE DEF TypeOK, rowVars, celeryVars, workerVars, cancelVars, cleanVars,
            requestVars, Tasks
<1>1. CASE CreateQueryExecution BY <1>1 DEF CreateQueryExecution
<1>2. CASE InitiatePeerReview BY <1>2 DEF InitiatePeerReview
<1>3. CASE EnqueueTask BY <1>3 DEF EnqueueTask
<1>4. CASE RespondToSubmit BY <1>4 DEF RespondToSubmit
<1>5. CASE SubmitFails BY <1>5 DEF SubmitFails
<1>6. CASE AssociateFails BY <1>6 DEF AssociateFails
<1> QED BY <1>1, <1>2, <1>3, <1>4, <1>5, <1>6 DEF SubmitNext

LEMMA ReviewType == ASSUME NEW r \in Reviews PROVE TypeOK /\ ReviewNext(r) => TypeOK'
<1> SUFFICES ASSUME TypeOK, ReviewNext(r) PROVE TypeOK'
  OBVIOUS
<1> USE DEF TypeOK, rowVars, celeryVars, workerVars, cancelVars, cleanVars,
            requestVars, Tasks
<1>1. CASE ValidateReview(r) BY <1>1 DEF ValidateReview
<1>2. CASE RefuseReview(r) BY <1>2 DEF RefuseReview
<1>3. CASE CommitApproval(r) BY <1>3 DEF CommitApproval
<1>4. CASE RollBackApproval(r) BY <1>4 DEF RollBackApproval
<1>5. CASE EnqueueApproved(r) BY <1>5 DEF EnqueueApproved
<1>6. CASE EnqueueApprovedFails(r) BY <1>6 DEF EnqueueApprovedFails
<1>7. CASE CommitRejection(r) BY <1>7 DEF CommitRejection
<1> QED BY <1>1, <1>2, <1>3, <1>4, <1>5, <1>6, <1>7 DEF ReviewNext

LEMMA CancelType ==
    ASSUME NEW c \in Cancels
    PROVE  TypeOK /\ AskedTask /\ CancelNext(c) => TypeOK'
<1> SUFFICES ASSUME TypeOK, AskedTask, CancelNext(c) PROVE TypeOK'
  OBVIOUS
<1> USE DEF TypeOK, rowVars, celeryVars, workerVars, cancelVars, cleanVars,
            requestVars, Tasks
<1>1. CASE ReadForCancel(c)
  <2>1. Len(statements) \in Nat
    BY LenProperties
  <2>2. /\ seenTask' \in [Cancels -> Tasks \cup {NoTask}]
        /\ seenStatement' \in [Cancels -> Nat]
    BY <1>1, <2>1 DEF ReadForCancel
  <2>3. cancel' \in [Cancels -> {"idle", "ask", "abort", "aborted",
                                "statement", "row", "done", "refused"}]
    BY <1>1 DEF ReadForCancel
  <2> QED
    BY <1>1, <2>2, <2>3 DEF ReadForCancel
<1>2. CASE RefuseCancel(c)
  BY <1>2 DEF RefuseCancel
<1>3. CASE AskCelery(c)
  <2>1. cancel' \in [Cancels -> {"idle", "ask", "abort", "aborted",
                                "statement", "row", "done", "refused"}]
    BY <1>3, ZenonT(60) DEF AskCelery
  <2> QED
    BY <1>3, <2>1 DEF AskCelery, AskedTask
<1>4. CASE AbortTask(c)
  BY <1>4, StoreType DEF AbortTask
<1>5. CASE CancelStatementInPlace(c)
  BY <1>5, MarkType, ZenonT(60) DEF CancelStatementInPlace
<1>6. CASE CancelRowInPlace(c)
  BY <1>6 DEF CancelRowInPlace
<1> QED
  BY <1>1, <1>2, <1>3, <1>4, <1>5, <1>6 DEF CancelNext

LEMMA CleanUpStepType ==
    ASSUME NEW k \in Cleanups PROVE TypeOK /\ CleanUpNext(k) => TypeOK'
<1> SUFFICES ASSUME TypeOK, CleanUpNext(k) PROVE TypeOK'
  OBVIOUS
<1> USE DEF TypeOK, rowVars, celeryVars, workerVars, cancelVars, cleanVars,
            requestVars, Tasks
<1>1. CASE ReadForCleanUp(k)
  BY <1>1, CleanUpType DEF ReadForCleanUp
<1>2. CASE LeaveActive(k)
  BY <1>2 DEF LeaveActive
<1>3. CASE CleanUpRow(k)
  BY <1>3, CleanUpType DEF CleanUpRow
<1> QED
  BY <1>1, <1>2, <1>3 DEF CleanUpNext

LEMMA WorkerType ==
    ASSUME NEW t \in Tasks PROVE TypeOK /\ WorkerNext(t) => TypeOK'
<1> SUFFICES ASSUME TypeOK, WorkerNext(t) PROVE TypeOK'
  OBVIOUS
<1> USE DEF rowVars, celeryVars, workerVars, requestVars, cancelVars, cleanVars
<1>1. CASE Deliver(t)
  <2>1. wpc' \in [Tasks -> WorkerStep \cup {"idle", "done", "dead"}]
    BY <1>1, GotoType DEF Deliver, WorkerStep
  <2>2. result' \in [Tasks -> CeleryState]
    BY <1>1, StoreType DEF Deliver, TypeOK
  <2>3. /\ queue' \in [Tasks -> {"none", "queued", "unacked", "acked"}]
        /\ executor' \in [Tasks -> QueryExecutionStatus \cup {"NONE"}]
    BY <1>1 DEF Deliver, TypeOK
  <2>4. /\ index' \in [Tasks -> 0 .. NumStatements]
        /\ current' \in [Tasks -> Nat]
    BY <1>1, BoundsAssumption DEF Deliver, TypeOK
  <2> QED
    BY <1>1, <2>1, <2>2, <2>3, <2>4 DEF Deliver, TypeOK
<1>2. CASE ReadInfo(t)
  <2>1. wpc' \in [Tasks -> WorkerStep \cup {"idle", "done", "dead"}]
    BY <1>2, GotoType DEF ReadInfo, WorkerStep
  <2> QED
    BY <1>2, <2>1 DEF ReadInfo, TypeOK
<1>3. CASE Claim(t)
  <2>1. wpc' \in [Tasks -> WorkerStep \cup {"idle", "done", "dead"}]
    BY <1>3, GotoType DEF Claim, WorkerStep
  <2> QED
    BY <1>3, <2>1 DEF Claim, TypeOK
<1>4. CASE CheckAborted(t)
  <2>1. wpc' \in [Tasks -> WorkerStep \cup {"idle", "done", "dead"}]
    BY <1>4, GotoType DEF CheckAborted, WorkerStep
  <2> QED
    BY <1>4, <2>1, ZenonT(60) DEF CheckAborted, TypeOK
<1>5. CASE Start(t)
  <2>1. wpc' \in [Tasks -> WorkerStep \cup {"idle", "done", "dead"}]
    BY <1>5, GotoType DEF Start, WorkerStep
  <2> QED
    BY <1>5, <2>1 DEF Start, TypeOK
<1>6. CASE ReportStart(t)
  <2>1. wpc' \in [Tasks -> WorkerStep \cup {"idle", "done", "dead"}]
    BY <1>6, GotoType DEF ReportStart, WorkerStep
  <2>2. result' \in [Tasks -> CeleryState]
    BY <1>6, StoreType DEF ReportStart, UpdateProgress, TypeOK
  <2> QED
    BY <1>6, <2>1, <2>2, ZenonT(60) DEF ReportStart, TypeOK
<1>7. CASE RunNextStatement(t)
  <2>1. wpc' \in [Tasks -> WorkerStep \cup {"idle", "done", "dead"}]
    BY <1>7, GotoType DEF RunNextStatement, WorkerStep
  <2>2. statements' \in Seq(StatementExecutionStatus)
    BY <1>7, AppendProperties DEF RunNextStatement, TypeOK
  <2>3. /\ index' \in [Tasks -> 0 .. NumStatements]
        /\ current' \in [Tasks -> Nat]
    BY <1>7, LenProperties, BoundsAssumption DEF RunNextStatement, TypeOK
  <2> QED
    BY <1>7, <2>1, <2>2, <2>3 DEF RunNextStatement, TypeOK
<1>8. CASE CompleteQuery(t)
  <2>1. wpc' \in [Tasks -> WorkerStep \cup {"idle", "done", "dead"}]
    BY <1>8, GotoType DEF CompleteQuery, WorkerStep
  <2> QED
    BY <1>8, <2>1 DEF CompleteQuery, TypeOK
<1>9. CASE Poll(t)
  <2>1. wpc' \in [Tasks -> WorkerStep \cup {"idle", "done", "dead"}]
    BY <1>9, GotoType DEF Poll, WorkerStep
  <2>2. result' \in [Tasks -> CeleryState]
    BY <1>9, StoreType DEF Poll, UpdateProgress, TypeOK
  <2>3. statements' \in Seq(StatementExecutionStatus)
    BY <1>9, MarkType DEF Poll, TypeOK
  <2> QED
    BY <1>9, <2>1, <2>2, <2>3 DEF Poll, TypeOK
<1>10. CASE Upload(t)
  <2>1. wpc' \in [Tasks -> WorkerStep \cup {"idle", "done", "dead"}]
    BY <1>10, GotoType DEF Upload, WorkerStep
  <2>2. result' \in [Tasks -> CeleryState]
    BY <1>10, StoreType DEF Upload, UpdateProgress, TypeOK
  <2>3. statements' \in Seq(StatementExecutionStatus)
    BY <1>10, MarkType DEF Upload, TypeOK
  <2> QED
    BY <1>10, <2>1, <2>2, <2>3 DEF Upload, TypeOK
<1>11. CASE SoftTimeLimit(t)
  <2>1. wpc' \in [Tasks -> WorkerStep \cup {"idle", "done", "dead"}]
    BY <1>11, GotoType DEF SoftTimeLimit, WorkerStep
  <2> QED
    BY <1>11, <2>1 DEF SoftTimeLimit, TypeOK
<1>12. CASE ExceptionStatement(t)
  <2>1. wpc' \in [Tasks -> WorkerStep \cup {"idle", "done", "dead"}]
    BY <1>12, GotoType DEF ExceptionStatement, WorkerStep
  <2>2. statements' \in Seq(StatementExecutionStatus)
    BY <1>12, MarkType DEF ExceptionStatement, TypeOK
  <2> QED
    BY <1>12, <2>1, <2>2 DEF ExceptionStatement, TypeOK
<1>13. CASE ExceptionRow(t)
  <2>1. wpc' \in [Tasks -> WorkerStep \cup {"idle", "done", "dead"}]
    BY <1>13, GotoType DEF ExceptionRow, WorkerStep
  <2> QED
    BY <1>13, <2>1 DEF ExceptionRow, TypeOK
<1>14. CASE CancelStatement(t)
  <2>1. wpc' \in [Tasks -> WorkerStep \cup {"idle", "done", "dead"}]
    BY <1>14, GotoType DEF CancelStatement, WorkerStep
  <2>2. statements' \in Seq(StatementExecutionStatus)
    BY <1>14, MarkType DEF CancelStatement, TypeOK
  <2> QED
    BY <1>14, <2>1, <2>2 DEF CancelStatement, TypeOK
<1>15. CASE CancelRow(t)
  <2>1. wpc' \in [Tasks -> WorkerStep \cup {"idle", "done", "dead"}]
    BY <1>15, GotoType DEF CancelRow, WorkerStep
  <2> QED
    BY <1>15, <2>1 DEF CancelRow, TypeOK
<1>16. CASE FinalRead(t)
  <2>1. wpc' \in [Tasks -> WorkerStep \cup {"idle", "done", "dead"}]
    BY <1>16, GotoType DEF FinalRead, WorkerStep
  <2> QED
    BY <1>16, <2>1 DEF FinalRead, TypeOK
<1>17. CASE FinalError(t)
  <2>1. wpc' \in [Tasks -> WorkerStep \cup {"idle", "done", "dead"}]
    BY <1>17, GotoType DEF FinalError, WorkerStep
  <2> QED
    BY <1>17, <2>1 DEF FinalError, TypeOK
<1>18. CASE Report(t)
  <2>1. wpc' \in [Tasks -> WorkerStep \cup {"idle", "done", "dead"}]
    BY <1>18, GotoType DEF Report, WorkerStep
  <2>2. result' \in [Tasks -> CeleryState]
    BY <1>18, StoreType DEF Report, TypeOK
  <2> QED
    BY <1>18, <2>1, <2>2, ZenonT(60) DEF Report, TypeOK
<1> QED
  BY <1>1, <1>2, <1>3, <1>4, <1>5, <1>6, <1>7, <1>8, <1>9,
     <1>10, <1>11, <1>12, <1>13, <1>14, <1>15, <1>16, <1>17, <1>18
  DEF WorkerNext

LEMMA EnvironmentType ==
    ASSUME NEW t \in Tasks PROVE TypeOK /\ EnvironmentNext(t) => TypeOK'
<1> SUFFICES ASSUME TypeOK, EnvironmentNext(t) PROVE TypeOK'
  OBVIOUS
<1> USE DEF rowVars, celeryVars, workerVars, requestVars, cancelVars, cleanVars
<1>1. CASE HostDies(t)
  <2>1. wpc' \in [Tasks -> WorkerStep \cup {"idle", "done", "dead"}]
    BY <1>1, GotoType DEF HostDies, WorkerStep
  <2>2. /\ queue' \in [Tasks -> {"none", "queued", "unacked", "acked"}]
        /\ crashes' \in Nat
    BY <1>1 DEF HostDies, TypeOK
  <2> QED
    BY <1>1, <2>1, <2>2 DEF HostDies, TypeOK
<1>2. CASE ProcessDies(t)
  <2>1. wpc' \in [Tasks -> WorkerStep \cup {"idle", "done", "dead"}]
    BY <1>2, GotoType DEF ProcessDies, WorkerStep
  <2>2. result' \in [Tasks -> CeleryState]
    BY <1>2, StoreType DEF ProcessDies, TypeOK
  <2>3. /\ queue' \in [Tasks -> {"none", "queued", "unacked", "acked"}]
        /\ crashes' \in Nat
    BY <1>2 DEF ProcessDies, TypeOK
  <2> QED
    BY <1>2, <2>1, <2>2, <2>3 DEF ProcessDies, TypeOK
<1>3. CASE DiscardRevoked(t)
  <2>1. wpc' \in [Tasks -> WorkerStep \cup {"idle", "done", "dead"}]
    BY <1>3, GotoType DEF DiscardRevoked, WorkerStep
  <2>2. result' \in [Tasks -> CeleryState]
    BY <1>3, StoreType DEF DiscardRevoked, TypeOK
  <2> QED
    BY <1>3, <2>1, <2>2, ZenonT(60) DEF DiscardRevoked, TypeOK
<1>4. CASE ApplyRevoke(t)
  <2>1. wpc' \in [Tasks -> WorkerStep \cup {"idle", "done", "dead"}]
    BY <1>4, GotoType DEF ApplyRevoke, WorkerStep
  <2>2. result' \in [Tasks -> CeleryState]
    BY <1>4, StoreType DEF ApplyRevoke, TypeOK
  <2> QED
    BY <1>4, <2>1, <2>2, ZenonT(60) DEF ApplyRevoke, TypeOK
<1>5. CASE ResultExpires(t)
  BY <1>5 DEF ResultExpires, TypeOK
<1> QED
  BY <1>1, <1>2, <1>3, <1>4, <1>5
  DEF EnvironmentNext

LEMMA NextType == TypeOK /\ AskedTask /\ [Next]_vars => TypeOK'
<1> SUFFICES ASSUME TypeOK, AskedTask, [Next]_vars PROVE TypeOK'
  OBVIOUS
<1>1. CASE UNCHANGED vars
  BY <1>1 DEF TypeOK, vars, rowVars, celeryVars, workerVars, requestVars,
              cancelVars, cleanVars
<1>2. CASE Next
  BY <1>2, SubmitType, ReviewType, CancelType, CleanUpStepType, WorkerType,
     EnvironmentType DEF Next
<1> QED
  BY <1>1, <1>2

(* Only a cancel request writes what it saw. *)
LEMMA OthersKeepCancels ==
    ASSUME \/ SubmitNext
           \/ \E r \in Reviews : ReviewNext(r)
           \/ \E k \in Cleanups : CleanUpNext(k)
           \/ \E t \in Tasks : WorkerNext(t) \/ EnvironmentNext(t)
    PROVE  UNCHANGED cancelVars
<1> USE DEF requestVars, cancelVars
<1>1. CASE SubmitNext
  BY <1>1 DEF SubmitNext, CreateQueryExecution, InitiatePeerReview, EnqueueTask,
     RespondToSubmit, SubmitFails, AssociateFails
<1>2. ASSUME NEW r \in Reviews, ReviewNext(r) PROVE UNCHANGED cancelVars
  BY <1>2 DEF ReviewNext, ValidateReview, RefuseReview, CommitApproval,
     RollBackApproval, EnqueueApproved, EnqueueApprovedFails, CommitRejection
<1>3. ASSUME NEW k \in Cleanups, CleanUpNext(k) PROVE UNCHANGED cancelVars
  BY <1>3 DEF CleanUpNext, ReadForCleanUp, LeaveActive, CleanUpRow
<1>4. ASSUME NEW t \in Tasks, WorkerNext(t) \/ EnvironmentNext(t)
      PROVE  UNCHANGED cancelVars
  BY <1>4 DEF WorkerNext, Deliver, ReadInfo, Claim, CheckAborted, Start,
     ReportStart, RunNextStatement, CompleteQuery, Poll, Upload, SoftTimeLimit,
     ExceptionStatement, ExceptionRow, CancelStatement, CancelRow, FinalRead,
     FinalError, Report, EnvironmentNext, HostDies, ProcessDies, DiscardRevoked,
     ApplyRevoke, ResultExpires
<1> QED
  BY <1>1, <1>2, <1>3, <1>4

LEMMA NextAskedTask == TypeOK /\ AskedTask /\ [Next]_vars => AskedTask'
<1> SUFFICES ASSUME TypeOK, AskedTask, [Next]_vars PROVE AskedTask'
  OBVIOUS
<1>1. CASE UNCHANGED cancelVars
  BY <1>1 DEF AskedTask, cancelVars
<1>2. ASSUME NEW c \in Cancels, CancelNext(c) PROVE AskedTask'
  BY <1>2 DEF AskedTask, CancelNext, TypeOK, ReadForCancel, RefuseCancel,
     AskCelery, AbortTask, CancelStatementInPlace, CancelRowInPlace
<1> QED
  BY <1>1, <1>2, OthersKeepCancels DEF Next, vars, requestVars

LEMMA InitType == Init => TypeOK /\ AskedTask
<1> SUFFICES ASSUME Init PROVE TypeOK /\ AskedTask
  OBVIOUS
<1>1. statements \in Seq(StatementExecutionStatus)
  BY EmptySeq DEF Init
<1>2. index \in [Tasks -> 0 .. NumStatements]
  BY BoundsAssumption DEF Init
<1>3. AskedTask
  BY DEF Init, AskedTask
<1> QED
  BY <1>1, <1>2, <1>3 DEF Init, TypeOK

(* Every state is well typed, and no cancel request ever revokes or aborts *)
(* a task that the row did not name when it read it.                       *)
THEOREM TypeCorrect == Spec => [](TypeOK /\ AskedTask)
<1>1. Init => TypeOK /\ AskedTask
  BY InitType
<1>2. TypeOK /\ AskedTask /\ [Next]_vars => (TypeOK /\ AskedTask)'
  BY NextType, NextAskedTask
<1> QED
  BY <1>1, <1>2, PTL DEF Spec

-----------------------------------------------------------------------------
(* Which tasks exist.  A task is named by the request that queues it, so   *)
(* it is new when it is queued; a task at work is the one its message      *)
(* names; a query under review has no task of the create request, and      *)
(* every request past its validation found the review row.                 *)

Queueing ==
    /\ submit \in {"create", "review", "enqueue"} => queue[Submit] = "none"
    /\ \A r \in Reviews : review[r] # "approved" => queue[r] = "none"
    /\ \A t \in Tasks : queue[t] = "none" => wpc[t] = "idle"
    /\ \A t \in Tasks : Working(t) => queue[t] = "unacked"
    /\ reviewRow => /\ submit \in {"respond", "done", "failed"}
                    /\ queue[Submit] = "none"
    /\ \A r \in Reviews :
          review[r] \notin {"idle", "refused", "failed"} => reviewRow
    /\ launches > 0 => \E t \in Tasks : queue[t] # "none"

LEMMA SubmitQueueing == TypeOK /\ Queueing /\ SubmitNext => Queueing'
<1> SUFFICES ASSUME TypeOK, Queueing, SubmitNext PROVE Queueing'
  OBVIOUS
<1> USE DEF TypeOK, Queueing, Working, WorkerStep, rowVars, celeryVars, workerVars,
            requestVars, cancelVars, cleanVars, Tasks
<1>1. CASE CreateQueryExecution
  BY <1>1, ActorsAssumption DEF CreateQueryExecution
<1>2. CASE InitiatePeerReview
  BY <1>2, ActorsAssumption DEF InitiatePeerReview
<1>3. CASE EnqueueTask
  BY <1>3, ActorsAssumption DEF EnqueueTask
<1>4. CASE RespondToSubmit
  BY <1>4, ActorsAssumption DEF RespondToSubmit
<1>5. CASE SubmitFails
  BY <1>5, ActorsAssumption DEF SubmitFails
<1>6. CASE AssociateFails
  BY <1>6, ActorsAssumption DEF AssociateFails
<1> QED
  BY <1>1, <1>2, <1>3, <1>4, <1>5, <1>6
  DEF SubmitNext

LEMMA ReviewQueueing ==
    ASSUME NEW r \in Reviews
    PROVE  TypeOK /\ Queueing /\ ReviewNext(r) => Queueing'
<1> SUFFICES ASSUME TypeOK, Queueing, ReviewNext(r) PROVE Queueing'
  OBVIOUS
<1> USE DEF TypeOK, Queueing, Working, WorkerStep, rowVars, celeryVars, workerVars,
            requestVars, cancelVars, cleanVars, Tasks
<1>1. CASE ValidateReview(r)
  BY <1>1, ActorsAssumption DEF ValidateReview
<1>2. CASE RefuseReview(r)
  BY <1>2, ActorsAssumption DEF RefuseReview
<1>3. CASE CommitApproval(r)
  BY <1>3, ActorsAssumption DEF CommitApproval
<1>4. CASE RollBackApproval(r)
  BY <1>4, ActorsAssumption DEF RollBackApproval
<1>5. CASE EnqueueApproved(r)
  <2>1. /\ queue' = [queue EXCEPT ![r] = "queued"]
        /\ review' = [review EXCEPT ![r] = "approved"]
        /\ UNCHANGED <<submit, reviewRow, wpc, launches>>
    BY <1>5 DEF EnqueueApproved
  <2>2. /\ r # Submit
        /\ review[r] = "enqueue"
        /\ queue[r] = "none"
    BY <1>5, ActorsAssumption DEF EnqueueApproved
  <2>3. ~Working(r) /\ wpc[r] = "idle"
    BY <2>2
  <2>4. \A t \in Tasks \ {r} : queue'[t] = queue[t]
    BY <2>1
  <2>5. \A q \in Reviews \ {r} : review'[q] = review[q]
    BY <2>1
  <2>6. queue'[r] = "queued" /\ review'[r] = "approved"
    BY <2>1
  <2> QED
    BY <2>1, <2>2, <2>3, <2>4, <2>5, <2>6
<1>6. CASE EnqueueApprovedFails(r)
  BY <1>6, ActorsAssumption DEF EnqueueApprovedFails
<1>7. CASE CommitRejection(r)
  BY <1>7, ActorsAssumption DEF CommitRejection
<1> QED
  BY <1>1, <1>2, <1>3, <1>4, <1>5, <1>6, <1>7
  DEF ReviewNext

LEMMA CancelQueueing ==
    ASSUME NEW c \in Cancels
    PROVE  TypeOK /\ Queueing /\ CancelNext(c) => Queueing'
<1> SUFFICES ASSUME TypeOK, Queueing, CancelNext(c) PROVE Queueing'
  OBVIOUS
<1> USE DEF TypeOK, Queueing, Working, WorkerStep, rowVars, celeryVars, workerVars,
            requestVars, cancelVars, cleanVars, Tasks
<1>1. CASE ReadForCancel(c)
  BY <1>1 DEF ReadForCancel
<1>2. CASE RefuseCancel(c)
  BY <1>2 DEF RefuseCancel
<1>3. CASE AskCelery(c)
  BY <1>3 DEF AskCelery
<1>4. CASE AbortTask(c)
  BY <1>4 DEF AbortTask
<1>5. CASE CancelStatementInPlace(c)
  BY <1>5 DEF CancelStatementInPlace
<1>6. CASE CancelRowInPlace(c)
  BY <1>6 DEF CancelRowInPlace
<1> QED
  BY <1>1, <1>2, <1>3, <1>4, <1>5, <1>6
  DEF CancelNext

LEMMA CleanUpQueueing ==
    ASSUME NEW k \in Cleanups
    PROVE  TypeOK /\ Queueing /\ CleanUpNext(k) => Queueing'
<1> SUFFICES ASSUME TypeOK, Queueing, CleanUpNext(k) PROVE Queueing'
  OBVIOUS
<1> USE DEF TypeOK, Queueing, Working, WorkerStep, rowVars, celeryVars, workerVars,
            requestVars, cancelVars, cleanVars, Tasks
<1>1. CASE ReadForCleanUp(k)
  BY <1>1 DEF ReadForCleanUp
<1>2. CASE LeaveActive(k)
  BY <1>2 DEF LeaveActive
<1>3. CASE CleanUpRow(k)
  BY <1>3 DEF CleanUpRow
<1> QED
  BY <1>1, <1>2, <1>3
  DEF CleanUpNext

LEMMA WorkerQueueing ==
    ASSUME NEW t \in Tasks
    PROVE  TypeOK /\ Queueing /\ WorkerNext(t) => Queueing'
<1> SUFFICES ASSUME TypeOK, Queueing, WorkerNext(t) PROVE Queueing'
  OBVIOUS
<1> USE DEF TypeOK, Queueing, Working, WorkerStep, rowVars, celeryVars, workerVars,
            requestVars, cancelVars, cleanVars, Tasks, Goto
<1>1. CASE Deliver(t)
  BY <1>1 DEF Deliver
<1>2. CASE ReadInfo(t)
  BY <1>2 DEF ReadInfo
<1>3. CASE Claim(t)
  BY <1>3 DEF Claim
<1>4. CASE CheckAborted(t)
  BY <1>4 DEF CheckAborted
<1>5. CASE Start(t)
  BY <1>5 DEF Start
<1>6. CASE ReportStart(t)
  BY <1>6 DEF ReportStart
<1>7. CASE RunNextStatement(t)
  BY <1>7 DEF RunNextStatement
<1>8. CASE CompleteQuery(t)
  BY <1>8 DEF CompleteQuery
<1>9. CASE Poll(t)
  BY <1>9 DEF Poll
<1>10. CASE Upload(t)
  BY <1>10 DEF Upload
<1>11. CASE SoftTimeLimit(t)
  BY <1>11 DEF SoftTimeLimit
<1>12. CASE ExceptionStatement(t)
  BY <1>12 DEF ExceptionStatement
<1>13. CASE ExceptionRow(t)
  BY <1>13 DEF ExceptionRow
<1>14. CASE CancelStatement(t)
  BY <1>14 DEF CancelStatement
<1>15. CASE CancelRow(t)
  BY <1>15 DEF CancelRow
<1>16. CASE FinalRead(t)
  BY <1>16 DEF FinalRead
<1>17. CASE FinalError(t)
  BY <1>17 DEF FinalError
<1>18. CASE Report(t)
  BY <1>18 DEF Report
<1> QED
  BY <1>1, <1>2, <1>3, <1>4, <1>5, <1>6, <1>7, <1>8, <1>9,
     <1>10, <1>11, <1>12, <1>13, <1>14, <1>15, <1>16, <1>17, <1>18
  DEF WorkerNext

LEMMA EnvironmentQueueing ==
    ASSUME NEW t \in Tasks
    PROVE  TypeOK /\ Queueing /\ EnvironmentNext(t) => Queueing'
<1> SUFFICES ASSUME TypeOK, Queueing, EnvironmentNext(t) PROVE Queueing'
  OBVIOUS
<1> USE DEF TypeOK, Queueing, Working, WorkerStep, rowVars, celeryVars, workerVars,
            requestVars, cancelVars, cleanVars, Tasks, Goto
<1>1. CASE HostDies(t)
  BY <1>1 DEF HostDies
<1>2. CASE ProcessDies(t)
  BY <1>2 DEF ProcessDies
<1>3. CASE DiscardRevoked(t)
  BY <1>3 DEF DiscardRevoked
<1>4. CASE ApplyRevoke(t)
  BY <1>4 DEF ApplyRevoke
<1>5. CASE ResultExpires(t)
  BY <1>5 DEF ResultExpires
<1> QED
  BY <1>1, <1>2, <1>3, <1>4, <1>5
  DEF EnvironmentNext

LEMMA InitQueueing == Init => Queueing
BY DEF Init, Queueing, Working, WorkerStep, Tasks

LEMMA NextQueueing == TypeOK /\ Queueing /\ [Next]_vars => Queueing'
<1> SUFFICES ASSUME TypeOK, Queueing, [Next]_vars PROVE Queueing'
  OBVIOUS
<1>1. CASE UNCHANGED vars
  BY <1>1 DEF Queueing, Working, vars, rowVars, celeryVars, workerVars,
              requestVars
<1>2. CASE Next
  BY <1>2, SubmitQueueing, ReviewQueueing, CancelQueueing, CleanUpQueueing,
     WorkerQueueing, EnvironmentQueueing DEF Next
<1> QED
  BY <1>1, <1>2

LEMMA QueueingInvariant == Spec => []Queueing
<1>1. Init => Queueing
  BY InitQueueing
<1>2. TypeOK /\ TypeOK' /\ Queueing /\ [Next]_vars => Queueing'
  BY NextQueueing
<1> QED
  BY <1>1, <1>2, TypeCorrect, PTL DEF Spec

(* No query that was put up for review reaches the engine without an       *)
(* approval that was committed and queued, whatever fails on the way.      *)
THEOREM ReviewGuardsStart == Spec => []StartedOnlyApproved
<1>1. TypeOK /\ Queueing => StartedOnlyApproved
  <2> SUFFICES ASSUME TypeOK, Queueing, reviewRow, launches > 0
               PROVE  \E r \in Reviews : review[r] = "approved"
    BY DEF StartedOnlyApproved
  <2>1. PICK t \in Tasks : queue[t] # "none"
    BY DEF Queueing
  <2>2. t \in Reviews
    BY <2>1 DEF Queueing, Tasks
  <2> QED
    BY <2>1, <2>2 DEF Queueing
<1> QED
  BY <1>1, TypeCorrect, QueueingInvariant, PTL

(* With one reviewer a rejected query never reaches the engine: it takes a *)
(* second one, who answered meanwhile, to start it.                        *)
THEOREM RejectionHolds == ASSUME SingleDecision PROVE Spec => []RejectedNeverStarts
<1>1. TypeOK /\ Queueing => RejectedNeverStarts
  <2> SUFFICES ASSUME TypeOK, Queueing, NEW r \in Reviews, review[r] = "rejected"
               PROVE  launches = 0
    BY DEF RejectedNeverStarts
  <2>1. reviewRow
    BY DEF Queueing
  <2>2. SUFFICES ASSUME launches > 0
                 PROVE  FALSE
    BY DEF TypeOK
  <2>3. PICK t \in Tasks : queue[t] # "none"
    BY <2>2 DEF Queueing
  <2>4. t \in Reviews
    BY <2>1, <2>3 DEF Queueing, Tasks
  <2>5. t = r
    BY <2>4 DEF SingleDecision
  <2> QED
    BY <2>3, <2>4, <2>5 DEF Queueing
<1> QED
  BY <1>1, TypeCorrect, QueueingInvariant, PTL

-----------------------------------------------------------------------------
(* At most one launch.  With one decision request only one task is ever    *)
(* queued, so the worker between its double check of the status and the    *)
(* start is alone, and once it started the row never is INITIALIZED again. *)

OneTask ==
    \A t, u \in Tasks : queue[t] # "none" /\ queue[u] # "none" => t = u

BeforeStart(t) ==
    \/ wpc[t] \in {"claim", "start"}
    \/ wpc[t] = "check" /\ executor[t] = "DELIVERED"

LaunchOnce ==
    /\ launches <= 1
    /\ launches > 0 => status \notin {"NONE", "PENDING_REVIEW", "INITIALIZED"}
    /\ \A r \in Reviews : review[r] \in {"approve", "enqueue"} => launches = 0
    /\ \A t \in Tasks : BeforeStart(t) => launches = 0
    /\ \A t \in Tasks :
          wpc[t] \in {"next", "poll", "upload"} => executor[t] = "RUNNING"
    /\ \A t \in Tasks :
          wpc[t] = "check" => executor[t] \in {"DELIVERED", "RUNNING"}

(* Reviewing needs a review row, and a query with one has no task of the   *)
(* create request.                                                         *)
LEMMA QueueingOneTask == SingleDecision /\ Queueing => OneTask
BY DEF SingleDecision, Queueing, OneTask, Tasks

LEMMA SubmitLaunchOnce == TypeOK /\ Queueing /\ OneTask /\ LaunchOnce /\ SubmitNext => LaunchOnce'
<1> SUFFICES ASSUME TypeOK, Queueing, OneTask, LaunchOnce, SubmitNext PROVE LaunchOnce'
  OBVIOUS
<1> USE DEF TypeOK, Queueing, OneTask, LaunchOnce, BeforeStart, Working, WorkerStep,
            Tasks, rowVars, celeryVars, workerVars,
            requestVars, cancelVars, cleanVars
<1>1. CASE CreateQueryExecution
  BY <1>1 DEF CreateQueryExecution
<1>2. CASE InitiatePeerReview
  BY <1>2 DEF InitiatePeerReview
<1>3. CASE EnqueueTask
  BY <1>3 DEF EnqueueTask
<1>4. CASE RespondToSubmit
  BY <1>4 DEF RespondToSubmit
<1>5. CASE SubmitFails
  BY <1>5 DEF SubmitFails
<1>6. CASE AssociateFails
  BY <1>6 DEF AssociateFails
<1> QED
  BY <1>1, <1>2, <1>3, <1>4, <1>5, <1>6
  DEF SubmitNext

LEMMA ReviewLaunchOnce ==
    ASSUME NEW r \in Reviews, SingleDecision
    PROVE  TypeOK /\ Queueing /\ OneTask /\ LaunchOnce /\ ReviewNext(r) => LaunchOnce'
<1> SUFFICES ASSUME TypeOK, Queueing, OneTask, LaunchOnce, ReviewNext(r) PROVE LaunchOnce'
  OBVIOUS
<1> USE DEF TypeOK, Queueing, OneTask, LaunchOnce, BeforeStart, Working, WorkerStep,
            Tasks, rowVars, celeryVars, workerVars,
            requestVars, cancelVars, cleanVars, SingleDecision
<1>1. CASE ValidateReview(r)
  BY <1>1 DEF ValidateReview
<1>2. CASE RefuseReview(r)
  BY <1>2 DEF RefuseReview
<1>3. CASE CommitApproval(r)
  BY <1>3 DEF CommitApproval
<1>4. CASE RollBackApproval(r)
  BY <1>4 DEF RollBackApproval
<1>5. CASE EnqueueApproved(r)
  BY <1>5 DEF EnqueueApproved
<1>6. CASE EnqueueApprovedFails(r)
  BY <1>6 DEF EnqueueApprovedFails
<1>7. CASE CommitRejection(r)
  BY <1>7 DEF CommitRejection
<1> QED
  BY <1>1, <1>2, <1>3, <1>4, <1>5, <1>6, <1>7
  DEF ReviewNext

LEMMA CancelLaunchOnce ==
    ASSUME NEW c \in Cancels
    PROVE  TypeOK /\ Queueing /\ OneTask /\ LaunchOnce /\ CancelNext(c) => LaunchOnce'
<1> SUFFICES ASSUME TypeOK, Queueing, OneTask, LaunchOnce, CancelNext(c) PROVE LaunchOnce'
  OBVIOUS
<1> USE DEF TypeOK, Queueing, OneTask, LaunchOnce, BeforeStart, Working, WorkerStep,
            Tasks, rowVars, celeryVars, workerVars,
            requestVars, cancelVars, cleanVars
<1>1. CASE ReadForCancel(c)
  BY <1>1 DEF ReadForCancel
<1>2. CASE RefuseCancel(c)
  BY <1>2 DEF RefuseCancel
<1>3. CASE AskCelery(c)
  BY <1>3 DEF AskCelery
<1>4. CASE AbortTask(c)
  BY <1>4 DEF AbortTask
<1>5. CASE CancelStatementInPlace(c)
  BY <1>5 DEF CancelStatementInPlace
<1>6. CASE CancelRowInPlace(c)
  BY <1>6 DEF CancelRowInPlace
<1> QED
  BY <1>1, <1>2, <1>3, <1>4, <1>5, <1>6
  DEF CancelNext

LEMMA CleanUpLaunchOnce ==
    ASSUME NEW k \in Cleanups
    PROVE  TypeOK /\ Queueing /\ OneTask /\ LaunchOnce /\ CleanUpNext(k) => LaunchOnce'
<1> SUFFICES ASSUME TypeOK, Queueing, OneTask, LaunchOnce, CleanUpNext(k) PROVE LaunchOnce'
  OBVIOUS
<1> USE DEF TypeOK, Queueing, OneTask, LaunchOnce, BeforeStart, Working, WorkerStep,
            Tasks, rowVars, celeryVars, workerVars,
            requestVars, cancelVars, cleanVars
<1>1. CASE ReadForCleanUp(k)
  BY <1>1 DEF ReadForCleanUp
<1>2. CASE LeaveActive(k)
  BY <1>2 DEF LeaveActive
<1>3. CASE CleanUpRow(k)
  BY <1>3 DEF CleanUpRow
<1> QED
  BY <1>1, <1>2, <1>3
  DEF CleanUpNext

LEMMA WorkerLaunchOnce ==
    ASSUME NEW t \in Tasks, SingleDecision
    PROVE  TypeOK /\ Queueing /\ OneTask /\ LaunchOnce /\ WorkerNext(t) => LaunchOnce'
<1> SUFFICES ASSUME TypeOK, Queueing, OneTask, LaunchOnce, WorkerNext(t)
             PROVE  LaunchOnce'
  OBVIOUS
<1> USE DEF TypeOK, Queueing, OneTask, LaunchOnce, BeforeStart, Working, WorkerStep,
            Tasks, rowVars, celeryVars, workerVars,
            requestVars, cancelVars, cleanVars, Goto
<1>1. CASE Deliver(t)
  BY <1>1 DEF Deliver
<1>2. CASE ReadInfo(t)
  BY <1>2 DEF ReadInfo
<1>3. CASE Claim(t)
  BY <1>3 DEF Claim
<1>4. CASE CheckAborted(t)
  <2>1. CASE result[t] = "ABORTED"
    <3>1. /\ wpc' = [wpc EXCEPT ![t] = "cancelStatement"]
          /\ executor' = [executor EXCEPT ![t] = "CANCEL"]
      BY <1>4, <2>1 DEF CheckAborted
    <3> QED
      BY <1>4, <3>1 DEF CheckAborted
  <2>2. CASE result[t] # "ABORTED" /\ executor[t] = "DELIVERED"
    BY <1>4, <2>2 DEF CheckAborted
  <2>3. CASE result[t] # "ABORTED" /\ executor[t] # "DELIVERED"
    BY <1>4, <2>3 DEF CheckAborted
  <2> QED
    BY <2>1, <2>2, <2>3
<1>5. CASE Start(t)
  <2>1. launches = 0 /\ launches' = 1
    BY <1>5 DEF Start
  <2>2. \A u \in Tasks : u # t => ~Working(u)
    BY <1>5 DEF Start
  <2>3. wpc' = [wpc EXCEPT ![t] = "progress"]
    BY <1>5 DEF Start
  <2>4. \A u \in Tasks : ~BeforeStart(u)'
    BY <1>5, <2>2, <2>3 DEF Start
  <2>5. \A r \in Reviews : review[r] \notin {"approve", "enqueue"}
    <3> SUFFICES ASSUME NEW r \in Reviews,
                        review[r] \in {"approve", "enqueue"}
                 PROVE  FALSE
      OBVIOUS
    <3>1. queue[t] # "none"
      BY <1>5 DEF Start
    <3>2. queue[Submit] = "none" /\ queue[r] = "none"
      BY DEF Queueing
    <3> QED
      BY <3>1, <3>2 DEF SingleDecision, Tasks
  <2>6. \A u \in Tasks : wpc'[u] \in {"next", "poll", "upload", "check"}
                            => wpc[u] = wpc'[u]
    BY <1>5, <2>3
  <2> QED
    BY <1>5, <2>1, <2>4, <2>5, <2>6 DEF Start
<1>6. CASE ReportStart(t)
  BY <1>6 DEF ReportStart
<1>7. CASE RunNextStatement(t)
  BY <1>7 DEF RunNextStatement
<1>8. CASE CompleteQuery(t)
  BY <1>8 DEF CompleteQuery
<1>9. CASE Poll(t)
  BY <1>9 DEF Poll
<1>10. CASE Upload(t)
  BY <1>10 DEF Upload
<1>11. CASE SoftTimeLimit(t)
  BY <1>11 DEF SoftTimeLimit
<1>12. CASE ExceptionStatement(t)
  BY <1>12 DEF ExceptionStatement
<1>13. CASE ExceptionRow(t)
  BY <1>13 DEF ExceptionRow
<1>14. CASE CancelStatement(t)
  BY <1>14 DEF CancelStatement
<1>15. CASE CancelRow(t)
  BY <1>15 DEF CancelRow
<1>16. CASE FinalRead(t)
  BY <1>16 DEF FinalRead
<1>17. CASE FinalError(t)
  BY <1>17 DEF FinalError
<1>18. CASE Report(t)
  BY <1>18 DEF Report
<1> QED
  BY <1>1, <1>2, <1>3, <1>4, <1>5, <1>6, <1>7, <1>8, <1>9,
     <1>10, <1>11, <1>12, <1>13, <1>14, <1>15, <1>16, <1>17, <1>18
  DEF WorkerNext

LEMMA EnvironmentLaunchOnce ==
    ASSUME NEW t \in Tasks
    PROVE  TypeOK /\ Queueing /\ OneTask /\ LaunchOnce /\ EnvironmentNext(t) => LaunchOnce'
<1> SUFFICES ASSUME TypeOK, Queueing, OneTask, LaunchOnce, EnvironmentNext(t) PROVE LaunchOnce'
  OBVIOUS
<1> USE DEF TypeOK, Queueing, OneTask, LaunchOnce, BeforeStart, Working, WorkerStep,
            Tasks, rowVars, celeryVars, workerVars,
            requestVars, cancelVars, cleanVars, Goto
<1>1. CASE HostDies(t)
  BY <1>1 DEF HostDies
<1>2. CASE ProcessDies(t)
  BY <1>2 DEF ProcessDies
<1>3. CASE DiscardRevoked(t)
  BY <1>3 DEF DiscardRevoked
<1>4. CASE ApplyRevoke(t)
  BY <1>4 DEF ApplyRevoke
<1>5. CASE ResultExpires(t)
  BY <1>5 DEF ResultExpires
<1> QED
  BY <1>1, <1>2, <1>3, <1>4, <1>5
  DEF EnvironmentNext

LEMMA InitLaunchOnce == Init => LaunchOnce
BY DEF Init, LaunchOnce, BeforeStart

LEMMA NextLaunchOnce ==
    ASSUME SingleDecision, TypeOK, Queueing, LaunchOnce, [Next]_vars
    PROVE  LaunchOnce'
<1>1. CASE UNCHANGED vars
  BY <1>1 DEF LaunchOnce, BeforeStart, vars, rowVars, workerVars, requestVars
<1>2. CASE Next
  BY <1>2, QueueingOneTask, SubmitLaunchOnce, ReviewLaunchOnce,
     CancelLaunchOnce, CleanUpLaunchOnce, WorkerLaunchOnce,
     EnvironmentLaunchOnce DEF Next
<1> QED
  BY <1>1, <1>2

LEMMA LaunchOnceInvariant == ASSUME SingleDecision PROVE Spec => []LaunchOnce
<1>1. Init => LaunchOnce
  BY InitLaunchOnce
<1>2. TypeOK /\ Queueing /\ LaunchOnce /\ [Next]_vars => LaunchOnce'
  BY NextLaunchOnce
<1> QED
  BY <1>1, <1>2, TypeCorrect, QueueingInvariant, PTL DEF Spec

(* A query is started on its engine at most once, through any number of    *)
(* crashes, second deliveries, cancels and clean ups of its execution, as  *)
(* long as at most one reviewer answers (the premise of AtMostOnce).       *)
THEOREM StartedOnce == Spec => []AtMostOnce
<1>1. CASE SingleDecision
  <2>1. LaunchOnce => AtMostOnce
    BY DEF LaunchOnce, AtMostOnce
  <2> QED
    BY <1>1, <2>1, LaunchOnceInvariant, PTL
<1>2. CASE ~SingleDecision
  <2>1. AtMostOnce
    BY <1>2 DEF AtMostOnce
  <2> QED
    BY <2>1, PTL
<1> QED
  BY <1>1, <1>2

(* Only the start of the query sets the row RUNNING, or counts as a launch. *)
LEMMA OnlyStartRuns ==
    ASSUME [Next]_vars
    PROVE  \/ \E t \in Tasks : Start(t)
           \/ launches' = launches /\ status' \in {status, "INITIALIZED"}
           \/ launches' = launches /\ status' \in Terminal \cup {"PENDING_REVIEW"}
<1> USE DEF rowVars
<1>1. CASE UNCHANGED vars
  BY <1>1 DEF vars
<1>2. CASE SubmitNext
  BY <1>2 DEF SubmitNext, CreateQueryExecution, InitiatePeerReview,
     EnqueueTask, RespondToSubmit, SubmitFails, AssociateFails
<1>3. ASSUME NEW r \in Reviews, ReviewNext(r)
      PROVE  /\ launches' = launches
             /\ status' \in {status, "INITIALIZED", "REJECTED"}
  BY <1>3 DEF ReviewNext, ValidateReview, RefuseReview, CommitApproval,
     RollBackApproval, EnqueueApproved, EnqueueApprovedFails, CommitRejection
<1>4. ASSUME NEW c \in Cancels, CancelNext(c)
      PROVE  launches' = launches /\ status' \in {status, "CANCEL"}
  BY <1>4 DEF CancelNext, ReadForCancel, RefuseCancel, AskCelery, AbortTask,
     CancelStatementInPlace, CancelRowInPlace
<1>5. ASSUME NEW k \in Cleanups, CleanUpNext(k)
      PROVE  launches' = launches /\ status' \in {status, "ERROR"}
  BY <1>5 DEF CleanUpNext, ReadForCleanUp, LeaveActive, CleanUpRow
<1>6. ASSUME NEW t \in Tasks, WorkerNext(t), ~Start(t)
      PROVE  launches' = launches /\ status' \in {status} \cup Terminal
  BY <1>6 DEF WorkerNext, Deliver, ReadInfo, Claim, CheckAborted,
     ReportStart, RunNextStatement, CompleteQuery, Poll, Upload,
     SoftTimeLimit, ExceptionStatement, ExceptionRow, CancelStatement,
     CancelRow, FinalRead, FinalError, Report
<1>7. ASSUME NEW t \in Tasks, EnvironmentNext(t)
      PROVE  launches' = launches /\ status' = status
  BY <1>7 DEF EnvironmentNext, HostDies, ProcessDies, DiscardRevoked,
     ApplyRevoke, ResultExpires
<1> QED
  BY <1>1, <1>2, <1>3, <1>4, <1>5, <1>6, <1>7 DEF Next

(* Once the query was started on its engine, a row that has ended stays    *)
(* ended, although Start sets RUNNING and the other writers their states   *)
(* whatever the row holds: no late worker, second delivery or decision     *)
(* brings it back.  (A cancel in place of a query that starts meanwhile is *)
(* overwritten, and so is an end before a second approval.)                *)
EndedForGood ==
    [][launches > 0 /\ (status \in Terminal) => (status' \in Terminal)]_vars

THEOREM EndsForGood == ASSUME SingleDecision PROVE Spec => EndedForGood
<1> DEFINE Ends == launches > 0 /\ (status \in Terminal) => (status' \in Terminal)
<1>1. TypeOK /\ LaunchOnce /\ LaunchOnce' /\ [Next]_vars => [Ends]_vars
  <2> SUFFICES ASSUME TypeOK, LaunchOnce, LaunchOnce', [Next]_vars,
                      launches > 0, status \in Terminal
               PROVE  status' \in Terminal
    OBVIOUS
  <2>1. ASSUME NEW t \in Tasks
        PROVE  ~Start(t)
    BY DEF LaunchOnce, BeforeStart, Start
  <2>2. launches' = launches
    BY <2>1, OnlyStartRuns
  <2>3. status' \in {status} \cup Terminal \cup {"INITIALIZED", "PENDING_REVIEW"}
    BY <2>1, OnlyStartRuns
  <2>4. status' \notin {"INITIALIZED", "PENDING_REVIEW"}
    BY <2>2 DEF LaunchOnce
  <2> QED
    BY <2>3, <2>4
<1> QED
  BY <1>1, LaunchOnceInvariant, TypeCorrect, PTL DEF Spec, EndedForGood

-----------------------------------------------------------------------------
(* Nobody writes ERROR without an error row, and error rows stay. *)

(* A step leaves ERROR to the error row: it writes both, or neither.       *)
LEMMA NextErrorExplained == ErrorExplained /\ [Next]_vars => ErrorExplained'
<1> SUFFICES ASSUME ErrorExplained, [Next]_vars PROVE ErrorExplained'
  OBVIOUS
<1> USE DEF ErrorExplained, rowVars
<1>1. CASE SubmitNext
  BY <1>1 DEF SubmitNext, CreateQueryExecution, InitiatePeerReview, EnqueueTask,
     RespondToSubmit, SubmitFails, AssociateFails
<1>2. ASSUME NEW r \in Reviews, ReviewNext(r) PROVE ErrorExplained'
  BY <1>2 DEF ReviewNext, ValidateReview, RefuseReview, CommitApproval,
     RollBackApproval, EnqueueApproved, EnqueueApprovedFails,
     CommitRejection
<1>3. ASSUME NEW c \in Cancels, CancelNext(c) PROVE ErrorExplained'
  BY <1>3 DEF CancelNext, ReadForCancel, RefuseCancel, AskCelery, AbortTask,
     CancelStatementInPlace, CancelRowInPlace
<1>4. ASSUME NEW k \in Cleanups, CleanUpNext(k) PROVE ErrorExplained'
  BY <1>4 DEF CleanUpNext, ReadForCleanUp, LeaveActive, CleanUpRow
<1>5. ASSUME NEW t \in Tasks, WorkerNext(t) PROVE ErrorExplained'
  BY <1>5 DEF WorkerNext, Deliver, ReadInfo, Claim, CheckAborted, Start,
     ReportStart, RunNextStatement, CompleteQuery, Poll, Upload,
     SoftTimeLimit, ExceptionStatement, ExceptionRow, CancelStatement,
     CancelRow, FinalRead, FinalError, Report
<1>6. ASSUME NEW t \in Tasks, EnvironmentNext(t) PROVE ErrorExplained'
  BY <1>6 DEF EnvironmentNext, HostDies, ProcessDies, DiscardRevoked, ApplyRevoke,
     ResultExpires
<1>7. CASE UNCHANGED vars
  BY <1>7 DEF vars
<1> QED
  BY <1>1, <1>2, <1>3, <1>4, <1>5, <1>6, <1>7 DEF Next

(* Whoever ends an execution in ERROR, there is an error row to show for   *)
(* it, whatever else is written in between.                                *)
THEOREM ErrorsAreExplained == Spec => []ErrorExplained
<1>1. Init => ErrorExplained
  BY DEF Init, ErrorExplained
<1> QED
  BY <1>1, NextErrorExplained, PTL DEF Spec

-----------------------------------------------------------------------------
(* No execution is left behind while the environment loses no task: no     *)
(* child process dies, no request fails between the commit of its row and  *)
(* the queueing of its task, Redis takes the task of an approval, and,     *)
(* where somebody cancels, logs upload and results do not expire.  Hosts   *)
(* may die, engines may fail, notifying may raise, requests and clean ups  *)
(* may come at any time.                                                   *)

NothingLost ==
    /\ Faults \cap {"process", "metadata"} = {}
    /\ Reviews # {} => "redis" \notin Faults
    /\ Cancels # {} => Faults \cap {"log", "expiry"} = {}

(* Celery knows every task that a row or a request can name, so no cancel  *)
(* takes a task for one that nobody started, and revokes it.               *)
KnownTasks ==
    /\ revoked = {}
    /\ \A t \in Tasks : wpc[t] # "idle" => result[t] # "PENDING"
    /\ taskId # NoTask => result[taskId] # "PENDING"
    /\ \A c \in Cancels : seenTask[c] # NoTask => result[seenTask[c]] # "PENDING"

(* Storing a state keeps a known task known.                               *)
LEMMA StoreKnown ==
    ASSUME TypeOK, NEW t, NEW s \in CeleryState \ {"PENDING"}
    PROVE  \A u \in Tasks :
              /\ result[u] # "PENDING" => Store(t, s)[u] # "PENDING"
              /\ u = t => Store(t, s)[u] # "PENDING"
BY DEF TypeOK, Store

LEMMA SubmitKnown == TypeOK /\ AskedTask /\ KnownTasks /\ SubmitNext => KnownTasks'
<1> SUFFICES ASSUME TypeOK, AskedTask, KnownTasks, SubmitNext PROVE KnownTasks'
  OBVIOUS
<1> USE DEF TypeOK, AskedTask, KnownTasks, Working, WorkerStep, Tasks,
            rowVars, celeryVars, workerVars,
            requestVars, cancelVars, cleanVars
<1>1. CASE CreateQueryExecution
  BY <1>1 DEF CreateQueryExecution
<1>2. CASE InitiatePeerReview
  BY <1>2 DEF InitiatePeerReview
<1>3. CASE EnqueueTask
  BY <1>3 DEF EnqueueTask
<1>4. CASE RespondToSubmit
  BY <1>4 DEF RespondToSubmit
<1>5. CASE SubmitFails
  BY <1>5 DEF SubmitFails
<1>6. CASE AssociateFails
  BY <1>6 DEF AssociateFails
<1> QED
  BY <1>1, <1>2, <1>3, <1>4, <1>5, <1>6
  DEF SubmitNext

LEMMA ReviewKnown ==
    ASSUME NEW r \in Reviews
    PROVE  TypeOK /\ AskedTask /\ KnownTasks /\ ReviewNext(r) => KnownTasks'
<1> SUFFICES ASSUME TypeOK, AskedTask, KnownTasks, ReviewNext(r) PROVE KnownTasks'
  OBVIOUS
<1> USE DEF TypeOK, AskedTask, KnownTasks, Working, WorkerStep, Tasks,
            rowVars, celeryVars, workerVars,
            requestVars, cancelVars, cleanVars
<1>1. CASE ValidateReview(r)
  BY <1>1 DEF ValidateReview
<1>2. CASE RefuseReview(r)
  BY <1>2 DEF RefuseReview
<1>3. CASE CommitApproval(r)
  BY <1>3 DEF CommitApproval
<1>4. CASE RollBackApproval(r)
  BY <1>4 DEF RollBackApproval
<1>5. CASE EnqueueApproved(r)
  BY <1>5 DEF EnqueueApproved
<1>6. CASE EnqueueApprovedFails(r)
  BY <1>6 DEF EnqueueApprovedFails
<1>7. CASE CommitRejection(r)
  BY <1>7 DEF CommitRejection
<1> QED
  BY <1>1, <1>2, <1>3, <1>4, <1>5, <1>6, <1>7
  DEF ReviewNext

LEMMA CancelKnown ==
    ASSUME NEW c \in Cancels
    PROVE  TypeOK /\ AskedTask /\ KnownTasks /\ CancelNext(c) => KnownTasks'
<1> SUFFICES ASSUME TypeOK, AskedTask, KnownTasks, CancelNext(c) PROVE KnownTasks'
  OBVIOUS
<1> USE DEF TypeOK, AskedTask, KnownTasks, Working, WorkerStep, Tasks,
            rowVars, celeryVars, workerVars,
            requestVars, cancelVars, cleanVars
<1>1. CASE ReadForCancel(c)
  BY <1>1 DEF ReadForCancel
<1>2. CASE RefuseCancel(c)
  BY <1>2 DEF RefuseCancel
<1>3. CASE AskCelery(c)
  BY <1>3, ActorsAssumption DEF AskCelery
<1>4. CASE AbortTask(c)
  <2>1. \A u \in Tasks : result[u] # "PENDING" => result'[u] # "PENDING"
    BY <1>4 DEF AbortTask, Store
  <2> QED
    BY <1>4, <2>1, ActorsAssumption DEF AbortTask
<1>5. CASE CancelStatementInPlace(c)
  BY <1>5 DEF CancelStatementInPlace
<1>6. CASE CancelRowInPlace(c)
  BY <1>6 DEF CancelRowInPlace
<1> QED
  BY <1>1, <1>2, <1>3, <1>4, <1>5, <1>6
  DEF CancelNext

LEMMA CleanUpKnown ==
    ASSUME NEW k \in Cleanups
    PROVE  TypeOK /\ AskedTask /\ KnownTasks /\ CleanUpNext(k) => KnownTasks'
<1> SUFFICES ASSUME TypeOK, AskedTask, KnownTasks, CleanUpNext(k) PROVE KnownTasks'
  OBVIOUS
<1> USE DEF TypeOK, AskedTask, KnownTasks, Working, WorkerStep, Tasks,
            rowVars, celeryVars, workerVars,
            requestVars, cancelVars, cleanVars
<1>1. CASE ReadForCleanUp(k)
  BY <1>1 DEF ReadForCleanUp
<1>2. CASE LeaveActive(k)
  BY <1>2 DEF LeaveActive
<1>3. CASE CleanUpRow(k)
  BY <1>3 DEF CleanUpRow
<1> QED
  BY <1>1, <1>2, <1>3
  DEF CleanUpNext

LEMMA WorkerKnown ==
    ASSUME NEW t \in Tasks
    PROVE  TypeOK /\ AskedTask /\ KnownTasks /\ WorkerNext(t) => KnownTasks'
<1> SUFFICES ASSUME TypeOK, AskedTask, KnownTasks, WorkerNext(t) PROVE KnownTasks'
  OBVIOUS
<1> USE DEF TypeOK, AskedTask, KnownTasks, Working, WorkerStep, Tasks,
            rowVars, celeryVars, workerVars,
            requestVars, cancelVars, cleanVars, Goto, UpdateProgress
<1>1. CASE Deliver(t)
  <2>1. \A u \in Tasks : result[u] # "PENDING" => result'[u] # "PENDING"
    BY <1>1 DEF Deliver, Store
  <2>2. result'[t] # "PENDING"
    BY <1>1 DEF Deliver, Store
  <2> QED
    BY <1>1, <2>1, <2>2, ActorsAssumption DEF Deliver
<1>2. CASE ReadInfo(t)
  BY <1>2 DEF ReadInfo
<1>3. CASE Claim(t)
  BY <1>3 DEF Claim
<1>4. CASE CheckAborted(t)
  BY <1>4 DEF CheckAborted
<1>5. CASE Start(t)
  BY <1>5 DEF Start
<1>6. CASE ReportStart(t)
  <2>1. \A u \in Tasks : result[u] # "PENDING" => result'[u] # "PENDING"
    BY <1>6 DEF ReportStart, Store
  <2> QED
    BY <1>6, <2>1, ActorsAssumption DEF ReportStart
<1>7. CASE RunNextStatement(t)
  BY <1>7 DEF RunNextStatement
<1>8. CASE CompleteQuery(t)
  BY <1>8 DEF CompleteQuery
<1>9. CASE Poll(t)
  <2>1. \A u \in Tasks : result[u] # "PENDING" => result'[u] # "PENDING"
    BY <1>9 DEF Poll, Store
  <2> QED
    BY <1>9, <2>1, ActorsAssumption DEF Poll
<1>10. CASE Upload(t)
  <2>1. \A u \in Tasks : result[u] # "PENDING" => result'[u] # "PENDING"
    BY <1>10 DEF Upload, Store
  <2> QED
    BY <1>10, <2>1, ActorsAssumption DEF Upload
<1>11. CASE SoftTimeLimit(t)
  BY <1>11 DEF SoftTimeLimit
<1>12. CASE ExceptionStatement(t)
  BY <1>12 DEF ExceptionStatement
<1>13. CASE ExceptionRow(t)
  BY <1>13 DEF ExceptionRow
<1>14. CASE CancelStatement(t)
  BY <1>14 DEF CancelStatement
<1>15. CASE CancelRow(t)
  BY <1>15 DEF CancelRow
<1>16. CASE FinalRead(t)
  BY <1>16 DEF FinalRead
<1>17. CASE FinalError(t)
  BY <1>17 DEF FinalError
<1>18. CASE Report(t)
  <2>1. \A u \in Tasks : result[u] # "PENDING" => result'[u] # "PENDING"
    BY <1>18 DEF Report, Store
  <2> QED
    BY <1>18, <2>1, ActorsAssumption DEF Report
<1> QED
  BY <1>1, <1>2, <1>3, <1>4, <1>5, <1>6, <1>7, <1>8, <1>9,
     <1>10, <1>11, <1>12, <1>13, <1>14, <1>15, <1>16, <1>17, <1>18
  DEF WorkerNext

LEMMA EnvironmentKnown ==
    ASSUME NEW t \in Tasks, "expiry" \notin Faults
    PROVE  TypeOK /\ AskedTask /\ KnownTasks /\ EnvironmentNext(t) => KnownTasks'
<1> SUFFICES ASSUME TypeOK, AskedTask, KnownTasks, EnvironmentNext(t) PROVE KnownTasks'
  OBVIOUS
<1> USE DEF TypeOK, AskedTask, KnownTasks, Working, WorkerStep, Tasks,
            rowVars, celeryVars, workerVars,
            requestVars, cancelVars, cleanVars, Goto
<1>1. CASE HostDies(t)
  BY <1>1 DEF HostDies
<1>2. CASE ProcessDies(t)
  <2>1. \A u \in Tasks : result[u] # "PENDING" => result'[u] # "PENDING"
    BY <1>2 DEF ProcessDies, Store
  <2>2. result'[t] # "PENDING"
    BY <1>2 DEF ProcessDies, Store
  <2> QED
    BY <1>2, <2>1, <2>2, ActorsAssumption DEF ProcessDies
<1>3. CASE DiscardRevoked(t)
  BY <1>3, StoreKnown DEF DiscardRevoked
<1>4. CASE ApplyRevoke(t)
  BY <1>4, StoreKnown DEF ApplyRevoke
<1>5. CASE ResultExpires(t)
  BY <1>5 DEF ResultExpires
<1> QED
  BY <1>1, <1>2, <1>3, <1>4, <1>5
  DEF EnvironmentNext

(* While results do not expire, Celery knows those tasks.                  *)
LEMMA NextKnown ==
    ASSUME "expiry" \notin Faults, TypeOK, AskedTask, KnownTasks, [Next]_vars
    PROVE  KnownTasks'
<1>1. CASE UNCHANGED vars
  BY <1>1 DEF KnownTasks, vars, rowVars, celeryVars, workerVars, requestVars,
              cancelVars
<1>2. CASE Next
  BY <1>2, SubmitKnown, ReviewKnown, CancelKnown, CleanUpKnown, WorkerKnown,
     EnvironmentKnown DEF Next
<1> QED
  BY <1>1, <1>2

LEMMA KnownInvariant ==
    ASSUME "expiry" \notin Faults
    PROVE  Spec => []KnownTasks
<1>1. Init => KnownTasks
  BY DEF Init, KnownTasks
<1>2. TypeOK /\ AskedTask /\ KnownTasks /\ [Next]_vars => KnownTasks'
  BY NextKnown
<1> QED
  BY <1>1, <1>2, TypeCorrect, PTL DEF Spec

(* Nobody but a cancel aborts a task.                                      *)
LEMMA OthersAbortNothing ==
    ASSUME TypeOK,
           \/ SubmitNext
           \/ \E r \in Reviews : ReviewNext(r)
           \/ \E k \in Cleanups : CleanUpNext(k)
           \/ \E t \in Tasks : WorkerNext(t) \/ EnvironmentNext(t)
    PROVE  \A u \in Tasks : result'[u] = "ABORTED" => result[u] = "ABORTED"
<1> USE DEF TypeOK, Store, UpdateProgress, celeryVars
<1>1. CASE SubmitNext
  BY <1>1 DEF SubmitNext, CreateQueryExecution, InitiatePeerReview,
     EnqueueTask, RespondToSubmit, SubmitFails, AssociateFails
<1>2. ASSUME NEW r \in Reviews, ReviewNext(r)
      PROVE  UNCHANGED result
  BY <1>2 DEF ReviewNext, ValidateReview, RefuseReview, CommitApproval,
     RollBackApproval, EnqueueApproved, EnqueueApprovedFails, CommitRejection
<1>3. ASSUME NEW k \in Cleanups, CleanUpNext(k)
      PROVE  UNCHANGED result
  BY <1>3 DEF CleanUpNext, ReadForCleanUp, LeaveActive, CleanUpRow
<1>4. ASSUME NEW t \in Tasks, WorkerNext(t)
      PROVE  \A u \in Tasks : result'[u] = "ABORTED" => result[u] = "ABORTED"
  BY <1>4 DEF WorkerNext, Deliver, ReadInfo, Claim, CheckAborted, Start,
     ReportStart, RunNextStatement, CompleteQuery, Poll, Upload,
     SoftTimeLimit, ExceptionStatement, ExceptionRow, CancelStatement,
     CancelRow, FinalRead, FinalError, Report
<1>5. ASSUME NEW t \in Tasks, EnvironmentNext(t)
      PROVE  \A u \in Tasks : result'[u] = "ABORTED" => result[u] = "ABORTED"
  BY <1>5 DEF EnvironmentNext, HostDies, ProcessDies, DiscardRevoked,
     ApplyRevoke, ResultExpires
<1> QED
  BY <1>1, <1>2, <1>3, <1>4, <1>5

(* Where nobody cancels, no task is revoked and no worker finds it aborted. *)
Uncancelled ==
    /\ revoked = {}
    /\ \A t \in Tasks : result[t] # "ABORTED" /\ wpc[t] # "cancelStatement"

LEMMA NextUncancelled ==
    ASSUME Cancels = {}, TypeOK, Uncancelled, [Next]_vars
    PROVE  Uncancelled'
<1>1. CASE UNCHANGED vars
  BY <1>1 DEF Uncancelled, vars, celeryVars, workerVars
<1>2. CASE Next
  <2>1. \A u \in Tasks : result'[u] = "ABORTED" => result[u] = "ABORTED"
    BY <1>2, OthersAbortNothing DEF Next
  <2> USE DEF TypeOK, Uncancelled, rowVars, celeryVars, workerVars, requestVars, Goto
  <2>2. ASSUME SubmitNext
        PROVE  UNCHANGED <<revoked, wpc>>
    BY <2>2 DEF SubmitNext, CreateQueryExecution, InitiatePeerReview,
       EnqueueTask, RespondToSubmit, SubmitFails, AssociateFails
  <2>3. ASSUME NEW r \in Reviews, ReviewNext(r)
        PROVE  UNCHANGED <<revoked, wpc>>
    BY <2>3 DEF ReviewNext, ValidateReview, RefuseReview, CommitApproval,
       RollBackApproval, EnqueueApproved, EnqueueApprovedFails, CommitRejection
  <2>4. ASSUME NEW k \in Cleanups, CleanUpNext(k)
        PROVE  UNCHANGED <<revoked, wpc>>
    BY <2>4 DEF CleanUpNext, ReadForCleanUp, LeaveActive, CleanUpRow
  <2>5. ASSUME NEW t \in Tasks, WorkerNext(t)
        PROVE  /\ UNCHANGED revoked
               /\ \A u \in Tasks : wpc'[u] # "cancelStatement"
    BY <2>5 DEF WorkerNext, Deliver, ReadInfo, Claim, CheckAborted, Start,
       ReportStart, RunNextStatement, CompleteQuery, Poll, Upload,
       SoftTimeLimit, ExceptionStatement, ExceptionRow, CancelStatement,
       CancelRow, FinalRead, FinalError, Report
  <2>6. ASSUME NEW t \in Tasks, EnvironmentNext(t)
        PROVE  /\ UNCHANGED revoked
               /\ \A u \in Tasks : wpc'[u] # "cancelStatement"
    BY <2>6 DEF EnvironmentNext, HostDies, ProcessDies, DiscardRevoked,
       ApplyRevoke, ResultExpires
  <2> QED
    BY <1>2, <2>1, <2>2, <2>3, <2>4, <2>5, <2>6 DEF Next
<1> QED
  BY <1>1, <1>2

(* No task is taken from its worker, and none is left by a worker whose    *)
(* cancel cannot upload its logs.                                          *)
Unrevoked ==
    /\ revoked = {}
    /\ Cancels = {} => \A t \in Tasks : wpc[t] # "cancelStatement"

LEMMA UnrevokedInvariant ==
    ASSUME Cancels # {} => "expiry" \notin Faults
    PROVE  Spec => []Unrevoked
<1>1. CASE Cancels = {}
  <2>1. Init => Uncancelled
    BY DEF Init, Uncancelled
  <2>2. TypeOK /\ Uncancelled /\ [Next]_vars => Uncancelled'
    BY <1>1, NextUncancelled
  <2>3. Uncancelled => Unrevoked
    BY DEF Uncancelled, Unrevoked
  <2> QED
    BY <2>1, <2>2, <2>3, TypeCorrect, PTL DEF Spec
<1>2. CASE Cancels # {}
  <2>1. KnownTasks => Unrevoked
    BY <1>2 DEF KnownTasks, Unrevoked
  <2>2. Spec => []KnownTasks
    BY <1>2, KnownInvariant
  <2> QED
    BY <2>1, <2>2, PTL
<1> QED
  BY <1>1, <1>2

LEMMA SubmitNoOrphan ==
    ASSUME NothingLost, TypeOK, Queueing, Unrevoked, NoOrphan, SubmitNext
    PROVE  NoOrphan'
<1> USE DEF TypeOK, Queueing, Unrevoked, NoOrphan, Attended, Responsible, Working,
            WorkerStep, Tasks, rowVars, celeryVars, workerVars,
            requestVars, cancelVars, cleanVars
<1>1. CASE CreateQueryExecution
  BY <1>1 DEF CreateQueryExecution
<1>2. CASE InitiatePeerReview
  BY <1>2 DEF InitiatePeerReview
<1>3. CASE EnqueueTask
  BY <1>3 DEF EnqueueTask
<1>4. CASE RespondToSubmit
  BY <1>4 DEF RespondToSubmit
<1>5. CASE SubmitFails
  BY <1>5 DEF SubmitFails
<1>6. CASE AssociateFails
  BY <1>6 DEF AssociateFails, NothingLost
<1> QED
  BY <1>1, <1>2, <1>3, <1>4, <1>5, <1>6
  DEF SubmitNext

LEMMA ReviewNoOrphan ==
    ASSUME NEW r \in Reviews, NothingLost
    PROVE  TypeOK /\ Queueing /\ Unrevoked /\ NoOrphan /\ ReviewNext(r) => NoOrphan'
<1> SUFFICES ASSUME TypeOK, Queueing, Unrevoked, NoOrphan, ReviewNext(r) PROVE NoOrphan'
  OBVIOUS
<1> USE DEF TypeOK, Queueing, Unrevoked, NoOrphan, Attended, Responsible, Working,
            WorkerStep, Tasks, rowVars, celeryVars, workerVars,
            requestVars, cancelVars, cleanVars, NothingLost
<1>1. CASE ValidateReview(r)
  BY <1>1 DEF ValidateReview
<1>2. CASE RefuseReview(r)
  BY <1>2 DEF RefuseReview
<1>3. CASE CommitApproval(r)
  BY <1>3 DEF CommitApproval
<1>4. CASE RollBackApproval(r)
  BY <1>4 DEF RollBackApproval
<1>5. CASE EnqueueApproved(r)
  BY <1>5 DEF EnqueueApproved
<1>6. CASE EnqueueApprovedFails(r)
  BY <1>6 DEF EnqueueApprovedFails
<1>7. CASE CommitRejection(r)
  BY <1>7 DEF CommitRejection
<1> QED
  BY <1>1, <1>2, <1>3, <1>4, <1>5, <1>6, <1>7
  DEF ReviewNext

LEMMA CancelNoOrphan ==
    ASSUME NEW c \in Cancels
    PROVE  TypeOK /\ Queueing /\ Unrevoked /\ NoOrphan /\ CancelNext(c) => NoOrphan'
<1> SUFFICES ASSUME TypeOK, Queueing, Unrevoked, NoOrphan, CancelNext(c) PROVE NoOrphan'
  OBVIOUS
<1> USE DEF TypeOK, Queueing, Unrevoked, NoOrphan, Attended, Responsible, Working,
            WorkerStep, Tasks, rowVars, celeryVars, workerVars,
            requestVars, cancelVars, cleanVars
<1>1. CASE ReadForCancel(c)
  BY <1>1 DEF ReadForCancel
<1>2. CASE RefuseCancel(c)
  BY <1>2 DEF RefuseCancel
<1>3. CASE AskCelery(c)
  BY <1>3 DEF AskCelery
<1>4. CASE AbortTask(c)
  BY <1>4 DEF AbortTask
<1>5. CASE CancelStatementInPlace(c)
  BY <1>5 DEF CancelStatementInPlace
<1>6. CASE CancelRowInPlace(c)
  BY <1>6 DEF CancelRowInPlace
<1> QED
  BY <1>1, <1>2, <1>3, <1>4, <1>5, <1>6
  DEF CancelNext

LEMMA CleanUpNoOrphan ==
    ASSUME NEW k \in Cleanups
    PROVE  TypeOK /\ Queueing /\ Unrevoked /\ NoOrphan /\ CleanUpNext(k) => NoOrphan'
<1> SUFFICES ASSUME TypeOK, Queueing, Unrevoked, NoOrphan, CleanUpNext(k) PROVE NoOrphan'
  OBVIOUS
<1> USE DEF TypeOK, Queueing, Unrevoked, NoOrphan, Attended, Responsible, Working,
            WorkerStep, Tasks, rowVars, celeryVars, workerVars,
            requestVars, cancelVars, cleanVars
<1>1. CASE ReadForCleanUp(k)
  BY <1>1 DEF ReadForCleanUp
<1>2. CASE LeaveActive(k)
  BY <1>2 DEF LeaveActive
<1>3. CASE CleanUpRow(k)
  BY <1>3 DEF CleanUpRow
<1> QED
  BY <1>1, <1>2, <1>3
  DEF CleanUpNext

LEMMA WorkerNoOrphan ==
    ASSUME NEW t \in Tasks, NothingLost
    PROVE  TypeOK /\ Queueing /\ Unrevoked /\ NoOrphan /\ WorkerNext(t) => NoOrphan'
<1> SUFFICES ASSUME TypeOK, Queueing, Unrevoked, NoOrphan, WorkerNext(t) PROVE NoOrphan'
  OBVIOUS
<1> USE DEF TypeOK, Queueing, Unrevoked, NoOrphan, Attended, Responsible, Working,
            WorkerStep, Tasks, rowVars, celeryVars, workerVars,
            requestVars, cancelVars, cleanVars, Goto, NothingLost
<1>1. CASE Deliver(t)
  BY <1>1 DEF Deliver
<1>2. CASE ReadInfo(t)
  BY <1>2 DEF ReadInfo
<1>3. CASE Claim(t)
  BY <1>3 DEF Claim
<1>4. CASE CheckAborted(t)
  BY <1>4 DEF CheckAborted
<1>5. CASE Start(t)
  BY <1>5 DEF Start
<1>6. CASE ReportStart(t)
  BY <1>6 DEF ReportStart
<1>7. CASE RunNextStatement(t)
  BY <1>7 DEF RunNextStatement
<1>8. CASE CompleteQuery(t)
  BY <1>8 DEF CompleteQuery
<1>9. CASE Poll(t)
  BY <1>9 DEF Poll
<1>10. CASE Upload(t)
  BY <1>10 DEF Upload
<1>11. CASE SoftTimeLimit(t)
  BY <1>11 DEF SoftTimeLimit
<1>12. CASE ExceptionStatement(t)
  BY <1>12 DEF ExceptionStatement
<1>13. CASE ExceptionRow(t)
  BY <1>13 DEF ExceptionRow
<1>14. CASE CancelStatement(t)
  BY <1>14 DEF CancelStatement
<1>15. CASE CancelRow(t)
  BY <1>15 DEF CancelRow
<1>16. CASE FinalRead(t)
  BY <1>16 DEF FinalRead
<1>17. CASE FinalError(t)
  BY <1>17 DEF FinalError
<1>18. CASE Report(t)
  BY <1>18 DEF Report
<1> QED
  BY <1>1, <1>2, <1>3, <1>4, <1>5, <1>6, <1>7, <1>8, <1>9,
     <1>10, <1>11, <1>12, <1>13, <1>14, <1>15, <1>16, <1>17, <1>18
  DEF WorkerNext

LEMMA EnvironmentNoOrphan ==
    ASSUME NEW t \in Tasks, NothingLost
    PROVE  TypeOK /\ Queueing /\ Unrevoked /\ NoOrphan /\ EnvironmentNext(t) => NoOrphan'
<1> SUFFICES ASSUME TypeOK, Queueing, Unrevoked, NoOrphan, EnvironmentNext(t) PROVE NoOrphan'
  OBVIOUS
<1> USE DEF TypeOK, Queueing, Unrevoked, NoOrphan, Attended, Responsible, Working,
            WorkerStep, Tasks, rowVars, celeryVars, workerVars,
            requestVars, cancelVars, cleanVars, Goto, NothingLost
<1>1. CASE HostDies(t)
  BY <1>1 DEF HostDies
<1>2. CASE ProcessDies(t)
  BY <1>2 DEF ProcessDies
<1>3. CASE DiscardRevoked(t)
  BY <1>3 DEF DiscardRevoked
<1>4. CASE ApplyRevoke(t)
  BY <1>4 DEF ApplyRevoke
<1>5. CASE ResultExpires(t)
  BY <1>5 DEF ResultExpires
<1> QED
  BY <1>1, <1>2, <1>3, <1>4, <1>5
  DEF EnvironmentNext

LEMMA NextNoOrphan ==
    ASSUME NothingLost, TypeOK, Queueing, Unrevoked, NoOrphan, [Next]_vars
    PROVE  NoOrphan'
<1>1. CASE UNCHANGED vars
  BY <1>1 DEF NoOrphan, Attended, Responsible, vars, rowVars, celeryVars,
              workerVars, requestVars
<1>2. CASE Next
  BY <1>2, SubmitNoOrphan, ReviewNoOrphan, CancelNoOrphan, CleanUpNoOrphan,
     WorkerNoOrphan, EnvironmentNoOrphan DEF Next
<1> QED
  BY <1>1, <1>2

(* A queued or running execution always has somebody who will end it: host *)
(* crashes, engine errors, failed notifications, cancels and clean ups     *)
(* leave none behind, unless the environment loses a task.                 *)
THEOREM NobodyOrphaned == ASSUME NothingLost PROVE Spec => []NoOrphan
<1>1. Init => NoOrphan
  BY DEF Init, NoOrphan
<1>2. TypeOK /\ Queueing /\ Unrevoked /\ NoOrphan /\ [Next]_vars => NoOrphan'
  BY NextNoOrphan
<1>3. Spec => []Unrevoked
  BY UnrevokedInvariant DEF NothingLost
<1> QED
  BY <1>1, <1>2, <1>3, TypeCorrect, QueueingInvariant, PTL DEF Spec

=============================================================================
