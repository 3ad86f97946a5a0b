---------------------------- MODULE PythonKernel ----------------------------
(***************************************************************************)
(* The Python kernel of the page (lib/python): the provider on the main    *)
(* thread, which starts the worker when it is first needed, and the task   *)
(* queue of the worker.  A document's variables are put into its namespace *)
(* by injectVariables; here a document has one variable and its value is   *)
(* the number of the injection.                                            *)
(***************************************************************************)
EXTENDS Naturals, Sequences, FiniteSets

CONSTANTS
    Docs,
    MaxInjections,  \* bound, for each document
    MaxRuns,        \* bound
    None

VARIABLES
    \* the React state and the refs of PythonProvider: the document whose run
    \* started the kernel waits for it, and the loop of
    \* processPendingInjections has the documents in `flushing` to go
    status, kernel, tasks, waiting, pending, flushing,
    \* messages to the worker, its task queue (the head is running), the
    \* variables of its namespaces
    wire, queue, namespaces,
    \* the last value that each document asked to have injected; what each
    \* executed run should have read and read; the number of runs
    latest, reads, runs,
    \* documents whose pending value was dropped when the kernel failed, until
    \* the next one arrives, and documents that acted while their pending value
    \* was still to be sent (None: a run overtook the one that waited)
    lost, overtaken

kvars == <<status, kernel, tasks, waiting, pending, flushing, wire, queue,
           namespaces, latest, reads, runs, lost, overtaken>>

Run(d, stale) == [doc |-> d, stale |-> stale, wants |-> latest[d]]
Injection(d, v) == [doc |-> d, value |-> v]

Init ==
    /\ status = "UNINITIALIZED"
    /\ kernel = "none"
    /\ tasks = 0
    /\ waiting = None
    /\ pending = <<>>
    /\ flushing = <<>>
    /\ wire = <<>>
    /\ queue = <<>>
    /\ namespaces = [d \in Docs |-> 0]
    /\ latest = [d \in Docs |-> 0]
    /\ reads = {}
    /\ runs = 0
    /\ lost = {}
    /\ overtaken = {}

\* updateKernelStatus, called by a function that captured `status` when the
\* kernel was not there yet (stale) or was
Updated(n, stale) == IF stale THEN status ELSE IF n > 0 THEN "BUSY" ELSE "IDLE"

-----------------------------------------------------------------------------
(* The page *)

\* Broken variant: variables that change before the kernel is there are dropped.
QueuedOnce(d) ==
    IF \E i \in DOMAIN pending : pending[i].doc = d THEN pending
    ELSE Append(pending, Injection(d, latest'[d]))

\* pendingInjectionsRef: a Map, which keeps the place of a key.
Queued(d) ==
    IF \E i \in DOMAIN pending : pending[i].doc = d
    THEN [i \in DOMAIN pending |->
             IF pending[i].doc = d THEN Injection(d, latest'[d]) ELSE pending[i]]
    ELSE Append(pending, Injection(d, latest'[d]))

Waits(d) == \E i \in DOMAIN flushing : flushing[i].doc = d

Inject(d) ==
    /\ latest[d] < MaxInjections
    /\ latest' = [latest EXCEPT ![d] = @ + 1]
    /\ IF kernel = "ready"
       THEN /\ wire' = Append(wire, Injection(d, latest'[d]))
            /\ overtaken' = overtaken \cup {e \in {d} : Waits(e)}
            /\ UNCHANGED pending
       ELSE /\ pending' = Queued(d)
            /\ UNCHANGED <<wire, overtaken>>
    /\ UNCHANGED <<status, kernel, tasks, waiting, flushing, queue, namespaces,
                   reads, runs, lost>>

\* initKernel, for a run of d or (None) for the identifiers of a namespace
Start(d) ==
    /\ kernel = "none"
    /\ status' = "INITIALIZING"
    /\ kernel' = "loading"
    /\ waiting' = d
    /\ UNCHANGED <<tasks, pending, flushing, wire, queue, namespaces, latest,
                   reads, lost, overtaken>>

GetNamespaceInfo == Start(None) /\ UNCHANGED runs

RunStarts(d) ==
    /\ runs < MaxRuns
    /\ runs' = runs + 1
    /\ Start(d)

\* While the kernel loads, initKernel returns at once and the run is given up
\* with "Failed to initialize Python kernel".
RunGivenUp(d) ==
    /\ kernel = "loading"
    /\ runs < MaxRuns
    /\ runs' = runs + 1
    /\ UNCHANGED <<status, kernel, tasks, waiting, pending, flushing, wire, queue,
                   namespaces, latest, reads, lost, overtaken>>

RunNow(d) ==
    /\ kernel = "ready"
    /\ runs < MaxRuns
    /\ runs' = runs + 1
    /\ tasks' = tasks + 1
    /\ status' = Updated(tasks', FALSE)
    /\ wire' = Append(wire, Run(d, FALSE))
    /\ overtaken' = overtaken \cup {e \in {d} : Waits(e)}
                                \cup {None : w \in {waiting} \ {None}}
    /\ UNCHANGED <<kernel, waiting, pending, flushing, queue, namespaces, latest,
                   reads, lost>>

-----------------------------------------------------------------------------
(* The kernel starts *)

\* The run that awaited initKernel goes on once the loop is over.
Resume(sent) ==
    IF waiting = None
    THEN /\ wire' = sent
         /\ UNCHANGED <<tasks, waiting>>
    ELSE /\ wire' = Append(sent, Run(waiting, TRUE))
         /\ tasks' = tasks + 1
         /\ waiting' = None

Loaded ==
    /\ kernel = "loading"
    /\ kernel' = "ready"
    /\ status' = "IDLE"
    /\ IF pending = <<>>
       THEN Resume(wire) /\ UNCHANGED flushing
       ELSE /\ flushing' = Tail(pending)
            /\ wire' = Append(wire, Head(pending))
            /\ UNCHANGED <<tasks, waiting>>
    /\ UNCHANGED <<pending, queue, namespaces, latest, reads, runs, lost, overtaken>>

\* The worker answered the injection; the next one is posted, or all of them
\* are cleared.
Flushed ==
    /\ kernel = "ready"
    /\ pending # <<>>
    /\ \A i \in DOMAIN wire :
          wire[i] # pending[Len(pending) - Len(flushing)]
    /\ IF flushing = <<>>
       THEN /\ pending' = <<>>
            /\ Resume(wire)
            /\ UNCHANGED flushing
       ELSE /\ flushing' = Tail(flushing)
            /\ wire' = Append(wire, Head(flushing))
            /\ UNCHANGED <<tasks, waiting, pending>>
    /\ UNCHANGED <<status, kernel, queue, namespaces, latest, reads, runs, lost,
                   overtaken>>

\* terminateKernel clears the variables that were to be injected.
LoadFails ==
    /\ kernel = "loading"
    /\ kernel' = "none"
    /\ status' = "UNINITIALIZED"
    /\ tasks' = 0
    /\ pending' = <<>>
    /\ waiting' = None
    /\ lost' = lost \cup {pending[i].doc : i \in DOMAIN pending}
    /\ UNCHANGED <<flushing, wire, queue, namespaces, latest, reads, runs, overtaken>>

-----------------------------------------------------------------------------
(* The worker *)

Take ==
    /\ wire # <<>>
    /\ wire' = Tail(wire)
    /\ LET m == Head(wire)
       IN  IF "value" \in DOMAIN m
           THEN /\ namespaces' = [namespaces EXCEPT ![m.doc] = m.value]
                /\ lost' = lost \ {m.doc}
                /\ UNCHANGED queue
           ELSE /\ queue' = Append(queue, m)
                /\ UNCHANGED <<namespaces, lost>>
    /\ UNCHANGED <<status, kernel, tasks, waiting, pending, flushing, latest, reads,
                   runs, overtaken>>

\* _runPython catches what the code raises, so that a run that fails ends as
\* one that succeeds, and the queue goes on.  The code reads its variable
\* after the packages are loaded.
RunEnds ==
    /\ queue # <<>>
    /\ reads' = reads \cup
          {[doc |-> Head(queue).doc, wants |-> Head(queue).wants,
            got |-> namespaces[Head(queue).doc],
            excused |-> Head(queue).doc \in lost \cup overtaken]}
    /\ queue' = Tail(queue)
    /\ tasks' = tasks - 1
    /\ status' = Updated(tasks', Head(queue).stale)
    /\ UNCHANGED <<kernel, waiting, pending, flushing, wire, namespaces, latest,
                   runs, lost, overtaken>>

Next ==
    \/ GetNamespaceInfo
    \/ \E d \in Docs : \/ Inject(d)
                       \/ RunStarts(d) \/ RunGivenUp(d) \/ RunNow(d)
    \/ Loaded \/ Flushed \/ LoadFails
    \/ Take \/ RunEnds

Spec == Init /\ [][Next]_kvars

-----------------------------------------------------------------------------

\* A run reads the variables of its document as they were when it was called,
\* or newer ones, also when they changed before the kernel was there.  It may
\* not when the kernel failed in between, which drops them, or when the run
\* or the change overtook the loop that sends them.
RunsSeeTheirVariables ==
    \A r \in reads : r.got >= r.wants \/ r.excused

\* The status of the kernel tells whether it works: with nothing to do it is
\* idle, and idle with something to do only while the run that started the
\* kernel is alone.
StatusTellsTheTruth ==
    kernel = "ready" =>
        /\ tasks = 0 => status = "IDLE" \/ overtaken # {}
        /\ status = "IDLE" =>
              \A i \in DOMAIN queue : queue[i].stale

\* The kernel serves a run with its variables and shows that it does.
KernelServesItsRuns == RunsSeeTheirVariables /\ StatusTellsTheTruth

=============================================================================
