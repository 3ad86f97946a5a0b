---------------------------- MODULE BatchManager ----------------------------
(***************************************************************************)
(* BatchManager of the web application, as the savers of DataDocs use it:  *)
(* changes are stacked until no change was made for batchFrequency, merged *)
(* field by field (spreadMergeFunction) and sent as one request, after the *)
(* request before it has settled.                                          *)
(*                                                                         *)
(* JavaScript runs one task at a time: a step here is one task with the    *)
(* continuations it makes runnable.  Several managers may exist; they send *)
(* to the same row of the server.                                          *)
(***************************************************************************)
EXTENDS Naturals, Sequences, FiniteSets

CONSTANTS
    NumManagers,  \* bound: instances of the class
    Fields,       \* the fields a change may set
    MaxChanges,   \* bound: calls of batch()
    Faults        \* "reject": a request fails; "silent": nobody answers it

Managers == 1 .. NumManagers

ASSUME BatchAssumption ==
    /\ NumManagers \in Nat
    /\ MaxChanges \in Nat
    /\ Faults \subseteq {"reject", "silent"}

VARIABLES
    \* the field that the i-th change sets (its value is i), and the promise
    \* its caller holds
    change, promise,
    \* of each manager: batchStack, changeVersion, the version its timer was
    \* armed with (0 when none is armed), processRequest (0 for null), and
    \* the requests that suspended calls of processBatch await
    stack, version, timer, processRequest, waiting,
    \* every call of processFunction, and the row they write
    requests, saved

changeVars  == <<change, promise>>
managerVars == <<stack, version, timer, processRequest, waiting>>
batchVars   == <<changeVars, managerVars, requests, saved>>

Changes == 1 .. Len(change)
Requests == 1 .. Len(requests)

Request == [manager: Managers, data: SUBSET Nat, notify: Nat,
            forced: BOOLEAN, applied: BOOLEAN,
            answer: {"none", "ok", "error", "lost"}]

TypeOK ==
    /\ change \in Seq(Fields)
    /\ promise \in Seq({"pending", "resolved", "rejected"})
    /\ Len(promise) = Len(change)
    /\ stack \in [Managers -> Seq(Nat)]
    /\ version \in [Managers -> Nat]
    /\ \A m \in Managers : timer[m] \in {0, version[m]}
    /\ processRequest \in [Managers -> 0 .. Len(requests)]
    /\ waiting \in [Managers -> SUBSET (1 .. Len(requests))]
    /\ requests \in Seq(Request)
    /\ saved \in [Fields -> 0 .. Len(change)]

Init ==
    /\ change = << >>
    /\ promise = << >>
    /\ stack = [m \in Managers |-> << >>]
    /\ version = [m \in Managers |-> 0]
    /\ timer = [m \in Managers |-> 0]
    /\ processRequest = [m \in Managers |-> 0]
    /\ waiting = [m \in Managers |-> {}]
    /\ requests = << >>
    /\ saved = [f \in Fields |-> 0]

-----------------------------------------------------------------------------
\* Broken variant: the first change to a field wins.
MergedFirstWins(s) ==
    {s[i] : i \in {j \in DOMAIN s :
                     \A k \in DOMAIN s : change[s[k]] = change[s[j]] => k >= j}}

\* spreadMergeFunction: of the changes to a field the last one counts.
Merged(s) ==
    {s[i] : i \in {j \in DOMAIN s :
                     \A k \in DOMAIN s : change[s[k]] = change[s[j]] => k <= j}}

\* Broken variant: the first change of the stack learns how it ends.
RequestNotifyingFirst(m, force) ==
    [manager |-> m, data |-> Merged(stack[m]), notify |-> stack[m][1],
     forced |-> force, applied |-> FALSE, answer |-> "none"]

\* The request that carries the whole stack; only the last change of it
\* learns how it ends ("We only notifiy the last one").
RequestOf(m, force) ==
    [manager |-> m, data |-> Merged(stack[m]),
     notify |-> stack[m][Len(stack[m])],
     forced |-> force, applied |-> FALSE, answer |-> "none"]

\* The end of processBatch up to its last await, sent being the requests so
\* far.
Send(m, force, sent) ==
    /\ requests' = Append(sent, RequestOf(m, force))
    /\ processRequest' = [processRequest EXCEPT ![m] = Len(sent) + 1]
    /\ stack' = [stack EXCEPT ![m] = << >>]

\* batch(data)
Batch(m, f) ==
    /\ Len(change) < MaxChanges
    /\ change' = Append(change, f)
    /\ promise' = Append(promise, "pending")
    /\ stack' = [stack EXCEPT ![m] = Append(@, Len(change) + 1)]
    /\ version' = [version EXCEPT ![m] = @ + 1]
    /\ timer' = [timer EXCEPT ![m] = version[m] + 1]
    /\ UNCHANGED <<processRequest, waiting, requests, saved>>

-----------------------------------------------------------------------------
(* The timer calls processBatch(version) *)

TimerFires(m) ==
    /\ timer[m] # 0
    /\ timer' = [timer EXCEPT ![m] = 0]

Superseded(m) == version[m] # timer[m] \/ stack[m] = << >>

TimerSkips(m) ==
    /\ TimerFires(m)
    /\ Superseded(m)
    /\ UNCHANGED <<changeVars, stack, version, processRequest, waiting,
                   requests, saved>>

\* Broken variant: a batch that finds a request in flight returns.
TimerGivesUp(m) ==
    /\ TimerFires(m)
    /\ ~Superseded(m)
    /\ processRequest[m] # 0
    /\ UNCHANGED <<changeVars, stack, version, processRequest, waiting,
                   requests, saved>>

TimerWaits(m) ==
    /\ TimerFires(m)
    /\ ~Superseded(m)
    /\ processRequest[m] # 0
    /\ waiting' = [waiting EXCEPT ![m] = @ \cup {processRequest[m]}]
    /\ UNCHANGED <<changeVars, stack, version, processRequest, requests,
                   saved>>

\* Broken variant: a batch does not wait for the request in flight.
TimerSendsAtOnce(m) ==
    /\ TimerFires(m)
    /\ ~Superseded(m)
    /\ Send(m, FALSE, requests)
    /\ UNCHANGED <<changeVars, version, waiting, saved>>

TimerSends(m) ==
    /\ TimerFires(m)
    /\ ~Superseded(m)
    /\ processRequest[m] = 0
    /\ Send(m, FALSE, requests)
    /\ UNCHANGED <<changeVars, version, waiting, saved>>

\* forceProcess does not wait for the request in flight.
ForceProcess(m) ==
    /\ stack[m] # << >>
    /\ timer' = [timer EXCEPT ![m] = 0]
    /\ version' = [version EXCEPT ![m] = @ + 1]
    /\ Send(m, TRUE, requests)
    /\ UNCHANGED <<changeVars, waiting, saved>>

-----------------------------------------------------------------------------
(* The server, and the end of a request *)

\* The server handles requests in any order, also those nobody awaits.
Apply(r) ==
    /\ ~requests[r].applied
    /\ requests' = [requests EXCEPT ![r].applied = TRUE]
    /\ saved' = [f \in Fields |->
                   IF \E c \in requests[r].data : change[c] = f
                   THEN CHOOSE c \in requests[r].data : change[c] = f
                   ELSE saved[f]]
    /\ UNCHANGED <<changeVars, managerVars>>

Awaiting(r) == r \in waiting[requests[r].manager]

\* The promise of processFunction settles: the finally block clears
\* processRequest, whatever request it holds, and no call awaits r any more.
Settle(r, answer, outcome) ==
    /\ requests[r].answer = "none"
    /\ promise' = [promise EXCEPT ![requests[r].notify] = outcome]
    /\ waiting' = [waiting EXCEPT ![requests[r].manager] = @ \ {r}]

Answered(r, answer) == [requests EXCEPT ![r].answer = answer]

ClearRequest(r) ==
    processRequest' = [processRequest EXCEPT ![requests[r].manager] = 0]

\* Broken variant: calls that awaited r forget to go on.
SucceedOnly(r) ==
    /\ requests[r].applied
    /\ Settle(r, "ok", "resolved")
    /\ requests' = Answered(r, "ok")
    /\ ClearRequest(r)
    /\ UNCHANGED <<change, stack, version, timer, saved>>

\* Nobody awaits r, or a call that does finds the stack taken by another
\* (merging nothing raises a TypeError that nobody handles).
Succeed(r) ==
    /\ requests[r].applied
    /\ ~Awaiting(r) \/ stack[requests[r].manager] = << >>
    /\ Settle(r, "ok", "resolved")
    /\ requests' = Answered(r, "ok")
    /\ ClearRequest(r)
    /\ UNCHANGED <<change, stack, version, timer, saved>>

\* The first call that awaited r sends the stack.
SucceedAndSend(r) ==
    /\ requests[r].applied
    /\ Awaiting(r)
    /\ stack[requests[r].manager] # << >>
    /\ Settle(r, "ok", "resolved")
    /\ Send(requests[r].manager, FALSE, Answered(r, "ok"))
    /\ UNCHANGED <<change, version, timer, saved>>

\* The calls that await r throw at their await, the stack as it is.
Fail(r) ==
    /\ "reject" \in Faults
    /\ Settle(r, "error", "rejected")
    /\ requests' = Answered(r, "error")
    /\ ClearRequest(r)
    /\ UNCHANGED <<change, stack, version, timer, saved>>

\* The answer never comes: a socket that was closed, or a promise of
\* DataDocSocket that another call replaced in promiseMap.
Lose(r) ==
    /\ "silent" \in Faults
    /\ requests[r].answer = "none"
    /\ requests' = Answered(r, "lost")
    /\ UNCHANGED <<changeVars, managerVars, saved>>

=============================================================================
