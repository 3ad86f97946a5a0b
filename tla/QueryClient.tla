----------------------------- MODULE QueryClient -----------------------------
(***************************************************************************)
(* How browser tabs follow one query execution: QueryExecution.tsx fetches *)
(* it and polls it, QueryExecutionSocket subscribes to its room, and the   *)
(* reducers apply the events.  The worker, which QueryExecution.tla models *)
(* in full, is reduced to the rows it commits and the events it emits      *)
(* after each commit; any end is DONE here.                                *)
(*                                                                         *)
(* The server answers a subscribe in two steps: it reads the row, and then *)
(* joins the room and emits what it read to everyone in it.                *)
(***************************************************************************)
EXTENDS Naturals, Sequences, FiniteSets, TLC

CONSTANTS
    Tabs,
    Busy,           \* tabs that listen to another execution all the time
    NumStatements,
    MaxLosses,      \* bound: connections lost and pages left
    None,           \* no row, no answer
    Asked           \* a GET that is on its way to the server

INITIALIZED == 0
RUNNING == 2
DONE == 3
PENDING_REVIEW == 6

Statuses == {INITIALIZED, RUNNING, DONE, PENDING_REVIEW}
Rows == [status: Statuses, statements: 0 .. NumStatements]

Query(r) == [type |-> "query", row |-> r]
Statement(i) == [type |-> "statement", index |-> i]

Events == [type: {"query"}, row: Rows]
            \cup [type: {"statement"}, index: 1 .. NumStatements]
Copies == [status: Statuses, statements: Seq(1 .. NumStatements)]
Handlings == [row: Rows, missed: BOOLEAN]

ASSUME ClientAssumption ==
    /\ Busy \subseteq Tabs
    /\ {NumStatements, MaxLosses} \subseteq Nat
    /\ None \notin Rows \cup Events \cup Copies \cup Handlings
    /\ Asked \notin Rows \cup {None}

VARIABLES
    \* the row with its number of statement rows, the number of statements
    \* that ended, and the event of the last commit if it is not out yet
    row, ended, unsent,
    \* of each tab: whether the execution is on the page, the store's copy of
    \* it, and the answer of a GET
    mounted, shown, get,
    \* activeQueryExecutions (while setupSocket is awaited: "waiting"), and
    \* the socket
    listening, link,
    \* at the server: a subscribe that came, the row read for it and whether
    \* an event missed the tab since, the room
    subscribed, handling, room,
    inbox,
    \* bookkeeping: connections lost and pages left; the tabs that were sent a
    \* row read before a commit, after the event of that commit
    losses, late

workerVars == <<row, ended, unsent>>
pageVars == <<mounted, shown, get>>
socketVars == <<listening, link>>
serverVars == <<subscribed, handling, room>>
vars == <<workerVars, pageVars, socketVars, serverVars, inbox, losses, late>>

TypeOK ==
    /\ row \in Rows
    /\ ended \in 0 .. row.statements
    /\ unsent \in Events \cup {None}
    /\ mounted \in [Tabs -> BOOLEAN]
    /\ shown \in [Tabs -> Copies \cup {None}]
    /\ get \in [Tabs -> Rows \cup {None, Asked}]
    /\ handling \in [Tabs -> Handlings \cup {None}]
    /\ inbox \in [Tabs -> Seq(Events)]
    /\ \A t \in Tabs :
          /\ listening[t] # "no" => shown[t] # None /\ link[t] # "closed"
          /\ handling[t] # None \/ t \in room => link[t] = "up"
    /\ listening \in [Tabs -> {"no", "waiting", "yes"}]
    /\ link \in [Tabs -> {"closed", "connecting", "up", "down"}]
    /\ subscribed \in [Tabs -> BOOLEAN]
    /\ room \subseteq Tabs
    /\ losses \in 0 .. MaxLosses
    /\ late \subseteq Tabs

Init ==
    /\ \E s \in {INITIALIZED, PENDING_REVIEW} :
          row = [status |-> s, statements |-> 0]
    /\ ended = 0
    /\ unsent = None
    /\ mounted = [t \in Tabs |-> FALSE]
    /\ shown = [t \in Tabs |-> None]
    /\ get = [t \in Tabs |-> None]
    /\ listening = [t \in Tabs |-> "no"]
    /\ link = [t \in Tabs |-> IF t \in Busy THEN "up" ELSE "closed"]
    /\ subscribed = [t \in Tabs |-> FALSE]
    /\ handling = [t \in Tabs |-> None]
    /\ room = {}
    /\ inbox = [t \in Tabs |-> <<>>]
    /\ losses = 0
    /\ late = {}

-----------------------------------------------------------------------------
(* The worker *)

Commit(r, event) ==
    /\ unsent = None
    /\ row' = r
    /\ unsent' = event
    /\ UNCHANGED <<pageVars, socketVars, serverVars, inbox, losses, late>>

\* Neither the approval nor "query_received" reaches the client; DELIVERED
\* is INITIALIZED to it.
Approve ==
    /\ row.status = PENDING_REVIEW
    /\ Commit([row EXCEPT !.status = INITIALIZED], None)
    /\ UNCHANGED ended

QueryStart ==
    /\ row.status = INITIALIZED
    /\ Commit([row EXCEPT !.status = RUNNING],
              Query([row EXCEPT !.status = RUNNING]))
    /\ UNCHANGED ended

StatementStart ==
    /\ row.status = RUNNING
    /\ ended = row.statements
    /\ row.statements < NumStatements
    /\ Commit([row EXCEPT !.statements = @ + 1], Statement(row.statements + 1))
    /\ UNCHANGED ended

StatementEnd ==
    /\ ended < row.statements
    /\ Commit(row, Statement(row.statements))
    /\ ended' = row.statements

QueryEnd ==
    /\ row.status = RUNNING
    /\ ended = NumStatements
    /\ Commit([row EXCEPT !.status = DONE], Query([row EXCEPT !.status = DONE]))
    /\ UNCHANGED ended

WorkerStep == Approve \/ QueryStart \/ StatementStart
                \/ StatementEnd \/ QueryEnd

Deliveries(tabs, event) ==
    inbox' = [t \in Tabs |-> IF t \in tabs THEN Append(inbox[t], event)
                             ELSE inbox[t]]

Emit ==
    /\ unsent # None
    /\ unsent' = None
    /\ Deliveries(room, unsent)
    /\ handling' = [t \in Tabs |->
                      IF handling[t] # None /\ handling[t].row # row
                      THEN [handling[t] EXCEPT !.missed = TRUE] ELSE handling[t]]
    /\ UNCHANGED <<row, ended, pageVars, socketVars, subscribed, room, losses, late>>

-----------------------------------------------------------------------------
(* pollQueryExecution, of the tabs in `polling`: an effect of the page each  *)
(* time that it shows another status                                         *)

Poll(t, polls) ==
    IF ~polls \/ listening[t] = "yes"
    THEN UNCHANGED <<socketVars, subscribed>>
    ELSE /\ link' = [link EXCEPT ![t] = IF @ = "closed" THEN "connecting" ELSE @]
         /\ listening' = [listening EXCEPT ![t] =
                             IF link[t] \in {"up", "down"} THEN "yes"
                             ELSE "waiting"]
         /\ subscribed' = [subscribed EXCEPT ![t] = @ \/ link[t] = "up"]

\* Broken variant: the page polls when it is opened only.
NoPolls(t, e) == FALSE

Polls(t, e) ==
    /\ mounted[t]
    /\ e.status <= RUNNING
    /\ shown[t] = None \/ shown[t].status # e.status

\* The store's copy of a row.
Copy(r) == [status |-> r.status,
            statements |-> [i \in 1 .. r.statements |-> i]]

-----------------------------------------------------------------------------
(* The page *)

\* fetchQueryExecutionIfNeeded, or the effect on a copy that is there.
Open(t) ==
    /\ ~mounted[t]
    /\ mounted' = [mounted EXCEPT ![t] = TRUE]
    /\ IF shown[t] = None
       THEN /\ get' = [get EXCEPT ![t] = IF @ = None THEN Asked ELSE @]
            /\ UNCHANGED <<socketVars, subscribed>>
       ELSE /\ Poll(t, shown[t].status <= RUNNING)
            /\ UNCHANGED get
    /\ UNCHANGED <<workerVars, shown, handling, room, inbox, losses, late>>

\* Nothing is unsubscribed.
Close(t) ==
    /\ mounted[t]
    /\ losses < MaxLosses
    /\ losses' = losses + 1
    /\ mounted' = [mounted EXCEPT ![t] = FALSE]
    /\ UNCHANGED <<workerVars, shown, get, socketVars, serverVars, inbox, late>>

GetReads(t) ==
    /\ get[t] = Asked
    /\ get' = [get EXCEPT ![t] = row]
    /\ UNCHANGED <<workerVars, mounted, shown, socketVars, serverVars, inbox,
                   losses, late>>

GetArrives(t) ==
    /\ get[t] \notin {None, Asked}
    /\ get' = [get EXCEPT ![t] = None]
    /\ shown' = [shown EXCEPT ![t] = Copy(get[t])]
    /\ Poll(t, Polls(t, get[t]))
    /\ UNCHANGED <<workerVars, mounted, handling, room, inbox, losses, late>>

-----------------------------------------------------------------------------
(* The socket *)

\* Broken variant: only the calls that await the connection subscribe.
ConnectOnce(t) ==
    /\ link[t] \in {"connecting", "down"}
    /\ link' = [link EXCEPT ![t] = "up"]
    /\ listening' = [listening EXCEPT ![t] = IF @ = "waiting" THEN "yes" ELSE @]
    /\ subscribed' = [subscribed EXCEPT ![t] = listening[t] = "waiting"]
    /\ UNCHANGED <<workerVars, pageVars, handling, room, inbox, losses, late>>

\* onSocketConnect subscribes for every active execution, and the calls that
\* await the first connection go on.
Connect(t) ==
    /\ link[t] \in {"connecting", "down"}
    /\ link' = [link EXCEPT ![t] = "up"]
    /\ listening' = [listening EXCEPT ![t] = IF @ = "waiting" THEN "yes" ELSE @]
    /\ subscribed' = [subscribed EXCEPT ![t] = listening[t] # "no"]
    /\ UNCHANGED <<workerVars, pageVars, handling, room, inbox, losses, late>>

Disconnect(t) ==
    /\ link[t] = "up"
    /\ losses < MaxLosses
    /\ losses' = losses + 1
    /\ link' = [link EXCEPT ![t] = "down"]
    /\ subscribed' = [subscribed EXCEPT ![t] = FALSE]
    /\ handling' = [handling EXCEPT ![t] = None]
    /\ room' = room \ {t}
    /\ inbox' = [inbox EXCEPT ![t] = <<>>]
    /\ UNCHANGED <<workerVars, pageVars, listening, late>>

SubscribeReads(t) ==
    /\ subscribed[t]
    /\ handling[t] = None
    /\ subscribed' = [subscribed EXCEPT ![t] = FALSE]
    /\ handling' = [handling EXCEPT ![t] = [row |-> row, missed |-> FALSE]]
    /\ UNCHANGED <<workerVars, pageVars, socketVars, room, inbox, losses, late>>

SubscribeJoins(t) ==
    /\ handling[t] # None
    /\ handling' = [handling EXCEPT ![t] = None]
    /\ room' = room \cup {t}
    /\ Deliveries(room', Query(handling[t].row))
    /\ late' = IF handling[t].missed THEN late \cup room' ELSE late
    /\ UNCHANGED <<workerVars, pageVars, socketVars, subscribed, losses>>

\* Broken variant: a statement is added whenever it is heard of.
AddAlways(s, i) == Append(s, i)

\* queryExecutionByIdReducer, of a statement event.
AddStatement(s, i) == IF s # <<>> /\ s[Len(s)] = i THEN s ELSE Append(s, i)

ReceiveStatement(t) ==
    /\ inbox[t] # <<>>
    /\ Head(inbox[t]).type = "statement"
    /\ shown' = [shown EXCEPT ![t].statements =
                    AddStatement(@, Head(inbox[t]).index)]
    /\ inbox' = [inbox EXCEPT ![t] = Tail(@)]
    /\ UNCHANGED <<workerVars, mounted, get, socketVars, serverVars, losses, late>>

ReceiveRunning(t) ==
    /\ inbox[t] # <<>>
    /\ Head(inbox[t]).type = "query"
    /\ LET r == Head(inbox[t]).row
       IN  /\ r.status < DONE
           /\ shown' = [shown EXCEPT ![t] = Copy(r)]
           /\ Poll(t, Polls(t, r))
    /\ inbox' = [inbox EXCEPT ![t] = Tail(@)]
    /\ UNCHANGED <<workerVars, mounted, get, handling, room, losses, late>>

\* removeQueryExecution: the room is left, and the socket is closed if nothing
\* else is listened to.
ReceiveEnd(t) ==
    /\ inbox[t] # <<>>
    /\ Head(inbox[t]).type = "query"
    /\ Head(inbox[t]).row.status >= DONE
    /\ shown' = [shown EXCEPT ![t] = Copy(Head(inbox[t]).row)]
    /\ IF listening[t] # "yes"
       THEN /\ inbox' = [inbox EXCEPT ![t] = Tail(@)]
            /\ UNCHANGED <<socketVars, serverVars>>
       ELSE /\ listening' = [listening EXCEPT ![t] = "no"]
            /\ subscribed' = [subscribed EXCEPT ![t] = FALSE]
            /\ handling' = [handling EXCEPT ![t] = None]
            /\ room' = room \ {t}
            /\ link' = [link EXCEPT ![t] = IF t \in Busy THEN @ ELSE "closed"]
            /\ inbox' = [inbox EXCEPT ![t] = IF t \in Busy THEN Tail(@) ELSE <<>>]
    /\ late' = late \ {t}
    /\ UNCHANGED <<workerVars, mounted, get, losses>>

ServerStep(t) == GetReads(t) \/ SubscribeReads(t) \/ SubscribeJoins(t)

TabStep(t) == GetArrives(t) \/ ReceiveStatement(t) \/ ReceiveRunning(t)
                \/ ReceiveEnd(t)

Next ==
    \/ WorkerStep \/ Emit
    \/ \E t \in Tabs :
          \/ Open(t) \/ Close(t)
          \/ ServerStep(t) \/ TabStep(t)
          \/ Connect(t) \/ Disconnect(t)

Spec == Init /\ [][Next]_vars

\* QueryExecution.tla shows that executions end; here that is assumed.  The
\* server answers, socket.io connects again, and the tab handles what comes.
FairSpec ==
    /\ Spec
    /\ WF_vars(WorkerStep) /\ WF_vars(Emit)
    /\ \A t \in Tabs : WF_vars(ServerStep(t)) /\ WF_vars(TabStep(t))
                         /\ WF_vars(Connect(t))

-----------------------------------------------------------------------------
(* What the author of a query sees *)

\* The page lists each statement once and in order, although rows that were
\* read earlier are emitted in between the events; the list has a gap only in
\* a tab that joined the room too late.
StatementsListedOnce ==
    \A t \in Tabs : shown[t] # None =>
        /\ \A i, j \in DOMAIN shown[t].statements :
              i < j => shown[t].statements[i] < shown[t].statements[j]
        /\ t \in late \/ shown[t] = Copy([status |-> shown[t].status,
                                        statements |-> Len(shown[t].statements)])

\* A page that shows a query under way listens, or is about to: once the
\* connection is up and nothing is on its way, it is in the room.
ListensWhileRunning ==
    \A t \in Tabs :
        /\ mounted[t]
        /\ shown[t] # None
        /\ shown[t].status <= RUNNING
        => /\ listening[t] # "no"
           /\ link[t] = "up" => t \in room \/ subscribed[t] \/ handling[t] # None

\* The page sees the end of the query.  Two gaps remain: a subscribe whose row
\* was read before a commit whose event went out before the tab was in the
\* room, and an execution that was shown while it waited for its review,
\* which nobody polls again.
SeesTheEnd ==
    \A t \in Tabs :
        mounted[t] ~> \/ ~mounted[t]
                      \/ shown[t] # None
                           /\ shown[t].status \in {DONE, PENDING_REVIEW}
                      \/ t \in late

=============================================================================
