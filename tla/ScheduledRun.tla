---------------------------- MODULE ScheduledRun ----------------------------
(***************************************************************************)
(* One scheduled run of a DataDoc (tasks/run_datadoc.py): the chain of two *)
(* tasks for each of its query cells that is not blank, and the record of  *)
(* the run.                                                                *)
(***************************************************************************)
EXTENDS Naturals, Sequences

CONSTANTS
    MaxCells,       \* bound
    None

VARIABLES
    cells,          \* the query cells, each "blank" or "query"
    removed,        \* the cells removed since
    chain,          \* the tasks to go, each <<kind, cell>>
    result,         \* what the next task is handed: a status and its cell
    statuses,       \* of the execution of each cell, "RUNNING" until it ended
    phase,          \* build, chain, success, failure, over
    record,         \* the status of the run record
    excuses         \* why the record is not closed, or closed as a failure

rvars == <<cells, removed, chain, result, statuses, phase, record, excuses>>

Init ==
    /\ cells \in UNION {[1..n -> {"blank", "query"}] : n \in 0..MaxCells}
    /\ removed = {}
    /\ chain = {}
    /\ result = None
    /\ statuses = [i \in DOMAIN cells |-> None]
    /\ phase = "build"
    /\ record = None
    /\ excuses = {}

Queries == {i \in DOMAIN cells : cells[i] = "query"}

AllDone == \A i \in Queries : statuses[i] = "DONE"

\* An author deletes a cell: its execution is no longer found by its document.
RemoveCell(i) ==
    /\ phase \in {"chain", "success"}
    /\ removed' = removed \cup {i}
    /\ UNCHANGED <<cells, chain, result, statuses, phase, record, excuses>>

-----------------------------------------------------------------------------
(* on_datadoc_completion *)

LeftOpen(why) ==
    /\ phase' = "over"
    /\ excuses' = excuses \cup {why}
    /\ UNCHANGED record

\* An export or a notification that raises makes it a failure; the record
\* itself may not be written.
Completes(success) ==
    \/ LeftOpen("not written")
    \/ /\ phase' = "over"
       /\ \/ /\ record' = IF success THEN "SUCCESS" ELSE "FAILURE"
             /\ UNCHANGED excuses
          \/ /\ record' = "FAILURE"
             /\ excuses' = excuses \cup {"raised"}

-----------------------------------------------------------------------------
(* run_datadoc_with_config *)

\* The tasks are chained in the order of their cells, two for each.
IsNext(task) ==
    /\ task \in chain
    /\ \A other \in chain \ {task} :
          other[2] > task[2] \/ other = <<"run", task[2]>>

\* An empty chain runs nothing and calls nobody.  Only the first of all query
\* cells gives its task a result to start with: without one, celery refuses to
\* queue the chain.
Build ==
    /\ phase = "build"
    /\ record' = "RUNNING"
    /\ IF 1 \in Queries
       THEN /\ phase' = "chain"
            /\ chain' = {"start", "run"} \X Queries
            /\ result' = <<"DONE", 0>>
            /\ UNCHANGED excuses
       ELSE /\ phase' = "over"
            /\ excuses' = excuses \cup {IF Queries = {} THEN "empty" ELSE "first is blank"}
            /\ UNCHANGED <<chain, result>>
    /\ UNCHANGED <<cells, removed, statuses>>

RenderingFails ==
    /\ phase = "build"
    /\ Queries # {}
    /\ record' = "FAILURE"
    /\ phase' = "over"
    /\ UNCHANGED <<cells, removed, chain, result, statuses, excuses>>

\* The chain could not be queued, or the worker died.
BuildFails ==
    /\ phase = "build"
    /\ record' = "RUNNING"
    /\ phase' = "over"
    /\ excuses' = excuses \cup {"not queued"}
    /\ UNCHANGED <<cells, removed, chain, result, statuses>>

\* The document is archived: there is no record.
Archived ==
    /\ phase = "build"
    /\ LeftOpen("archived")
    /\ UNCHANGED <<cells, removed, chain, result, statuses>>

-----------------------------------------------------------------------------
(* The chain *)

\* Broken variant: any result will do.
StartsAnyway == TRUE

\* _start_query_execution_task goes on with a result that is DONE.
Starts == result[1] = "DONE"

\* A task that raises ends the chain, and its errback is called.
Raises ==
    /\ phase' = "failure"
    /\ UNCHANGED <<cells, removed, chain, result, record>>

StartQueryExecution(i) ==
    /\ phase = "chain"
    /\ IsNext(<<"start", i>>)
    /\ Starts
    /\ statuses' = [statuses EXCEPT ![i] = "RUNNING"]
    /\ chain' = chain \ {<<"start", i>>}
    /\ UNCHANGED <<cells, removed, result, phase, record, excuses>>

\* The result is not DONE, or something fails, before or after the execution
\* was made.
StartRaises(i) ==
    /\ phase = "chain"
    /\ IsNext(<<"start", i>>)
    /\ \/ UNCHANGED statuses
       \/ Starts /\ statuses' = [statuses EXCEPT ![i] = "RUNNING"]
    /\ Raises
    /\ UNCHANGED excuses

\* run_query_task returns the status of its executor.  It made none when the
\* execution could not be run, or when it is a second delivery, for which the
\* first one left no word but the status.
RunQuery(i, status, made) ==
    /\ phase = "chain"
    /\ IsNext(<<"run", i>>)
    /\ statuses' = [statuses EXCEPT ![i] = status]
    /\ result' = <<IF made THEN status ELSE None, i>>
    /\ chain' = chain \ {<<"run", i>>}
    /\ phase' = IF chain' = {} THEN "success" ELSE "chain"
    /\ excuses' = excuses \cup {why \in {"delivered again"} : ~made /\ status = "DONE"}
    /\ UNCHANGED <<cells, removed, record>>

\* Its last block raises: a notification, the index, or the next task to queue.
RunQueryRaises(i, status) ==
    /\ phase = "chain"
    /\ IsNext(<<"run", i>>)
    /\ statuses' = [statuses EXCEPT ![i] = status]
    /\ Raises
    /\ excuses' = excuses \cup {"raised"}

\* A second delivery beside the first one or after it: it makes no executor,
\* so that what follows it in the chain fails, and the callback it reaches may
\* close the record; its ERROR may overwrite the status.
RunBeside(i) ==
    /\ phase # "build"
    /\ statuses[i] # None
    /\ \/ UNCHANGED statuses
       \/ statuses' = [statuses EXCEPT ![i] = "ERROR"]
    /\ \/ UNCHANGED record
       \/ record' = "FAILURE"
    /\ excuses' = excuses \cup {"run beside"}
    /\ UNCHANGED <<cells, removed, chain, result, phase>>

-----------------------------------------------------------------------------
(* The callbacks *)

\* get_datadoc_error_message raises for an execution without an error row and
\* for one that no document has.
MessageRaises == statuses[result[2]] \in {"DONE", "CANCEL"} \/ result[2] \in removed

OnSuccess ==
    /\ phase = "success"
    /\ IF result[1] # "DONE" /\ MessageRaises
       THEN LeftOpen("no message")
       ELSE Completes(result[1] = "DONE")
    /\ UNCHANGED <<cells, removed, chain, result, statuses>>

OnFailure ==
    /\ phase = "failure"
    /\ Completes(FALSE)
    /\ UNCHANGED <<cells, removed, chain, result, statuses>>

Next ==
    \/ Build \/ RenderingFails \/ BuildFails \/ Archived
    \/ \E i \in Queries :
          \/ StartQueryExecution(i) \/ StartRaises(i)
          \/ \E status \in {"DONE", "ERROR", "CANCEL"} :
                \/ RunQueryRaises(i, status)
                \/ \E made \in BOOLEAN : RunQuery(i, status, made)
          \/ RunBeside(i)
          \/ RemoveCell(i)
    \/ OnSuccess \/ OnFailure

Spec == Init /\ [][Next]_rvars

-----------------------------------------------------------------------------

\* The run ends without a word to the record, or without a record.
Unwritten == {"empty", "first is blank", "not queued", "archived", "no message",
              "not written"}

\* A query is started only after all above it are done, and the record says
\* SUCCESS only if every query is; what is over has its record closed, and it
\* is not closed as a failure when every query is done.
\* The exceptions: no record is closed for a document without a query or
\* whose first query cell is blank, a chain that was not queued, a last query
\* that did not hand on DONE and has no error row (it was cancelled, or was
\* done) or whose cell was removed, a record that could not be written, and an
\* archived document; a failure is recorded though every query is done when a
\* query's task, an export or a notification raised after it, or when its
\* task was delivered a second time before it handed on the status.  Nothing
\* is said of a query whose second delivery ran beside the first one: it may
\* write ERROR over a status on which the chain went on.
RecordTellsTheOutcome ==
    "run beside" \notin excuses =>
        /\ \A i \in Queries :
              statuses[i] # None => \A j \in Queries : j < i => statuses[j] = "DONE"
        /\ record = "SUCCESS" => AllDone
        /\ phase = "over" /\ excuses \cap Unwritten = {} =>
              record \in {"SUCCESS", "FAILURE"}
        /\ phase = "over" /\ excuses = {} /\ AllDone => record = "SUCCESS"

=============================================================================
