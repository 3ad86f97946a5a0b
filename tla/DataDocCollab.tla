---------------------------- MODULE DataDocCollab ----------------------------
(***************************************************************************)
(* Several tabs edit the same DataDocs.  The server commits a request and  *)
(* afterwards emits events to the room of the document; each tab applies   *)
(* the events to its own copy, by position.  No copy is changed before the *)
(* event of the change arrives.                                            *)
(*                                                                         *)
(* The lists of the server are those of DataDocList; that the rows of      *)
(* data_doc_data_cell behave like them is checked in DataDocCells.  The    *)
(* connection is that of DataDocSocket: a document is fetched first and    *)
(* its room joined afterwards, over the same socket if another document    *)
(* was shown, and a lost connection joins the room again without fetching. *)
(* The server runs its handlers side by side: a request may be served      *)
(* before the subscribe that the tab sent first.                           *)
(***************************************************************************)
EXTENDS DataDocList, FiniteSets, Functions

CONSTANTS
    Tabs,
    None,
    Stored,       \* of each document, the cells it has already
    MaxRequests,  \* bound: requests that all tabs make
    MaxLeaves     \* bound: documents left and connections lost

\* A cell is in one document, and there once.
Disjoint(lists) ==
    \A d, e \in Docs : /\ IsInjective(lists[d])
                       /\ d # e => Range(lists[d]) \cap Range(lists[e]) = {}

ASSUME CollabAssumption ==
    /\ IsFiniteSet(Cells)
    /\ None \notin Docs \cup Cells \cup Tabs
    /\ Docs \cap Tabs = {}
    /\ Stored \in [Docs -> Seq(Cells)]
    /\ Disjoint(Stored)
    /\ {MaxRequests, MaxLeaves} \subseteq Nat

VARIABLES
    \* cells that have an id already
    made,
    \* the number of requests committed, and those whose events are not out
    commits, sending,
    \* of each tab: the document it shows, the room and the id of its socket,
    \* its copy of the list, the events on their way to it, and the fetches it
    \* made again: asked for and answered
    at, inRoom, socketId, view, inbox, asked, answers,
    \* promiseMap of each tab: the request that holds the slot of a key
    promiseMap,
    \* bookkeeping: the commits that a copy was fetched with, the newest one it
    \* took, those it missed, whether it took commits out of their order, lost
    \* one to an older fetch or took one of another document, which event settled
    \* which call, which calls of a tab are not settled, the tabs that called in
    \* spite of that, and how often a tab left
    base, newest, missed, mixed, settled, open, overlapped, left

server == <<cells, made, commits, sending>>
tabs == <<at, inRoom, socketId, view, inbox, asked, answers, base, newest,
          missed, mixed, left>>
promises == <<promiseMap, settled, open, overlapped>>
vars == <<server, tabs, promises>>

Keys == {"insertDataCell", "deleteDataCell", "moveDataCell", "pasteDataCell",
         "dataDocRestored"}
Requests == 1 .. MaxRequests

\* An event of the n-th commit, which the tab `by` asked for over the socket
\* that it has now.  The index of an insert and the two of a move are in from
\* and to.
Event(key, n, by, d, c, from, to) ==
    [key |-> key, n |-> n, by |-> by, socket |-> socketId[by], doc |-> d,
     cell |-> c, from |-> from, to |-> to]

Answer == [doc: Docs, cells: Seq(Cells), commits: Nat]

TypeOK ==
    /\ cells \in [Docs -> Seq(Cells)]
    /\ Disjoint(cells)
    /\ made \subseteq Cells
    /\ commits \in 0 .. MaxRequests
    /\ \A r \in sending : r.n \in 1 .. commits
    /\ at \in [Tabs -> Docs \cup {None}]
    /\ inRoom \in [Tabs -> Docs \cup {None}]
    /\ socketId \in [Tabs -> 0 .. MaxLeaves]
    /\ view \in [Tabs -> Seq(Cells \cup {None})]
    /\ asked \in [Tabs -> Seq(Docs)]
    /\ answers \in [Tabs -> Seq(Answer)]
    /\ promiseMap \in [Tabs -> [Keys -> 0 .. MaxRequests]]
    /\ {base, newest} \subseteq [Tabs -> 0 .. MaxRequests]
    /\ missed \in [Tabs -> SUBSET Requests]
    /\ mixed \in [Tabs -> BOOLEAN]
    /\ settled \subseteq (Requests \X (0 .. MaxRequests))
    /\ open \in [Tabs -> SUBSET Requests]
    /\ overlapped \subseteq Tabs
    /\ left \in 0 .. MaxLeaves

Init ==
    /\ cells = Stored
    /\ made = UNION {Range(Stored[d]) : d \in Docs}
    /\ commits = 0
    /\ sending = {}
    /\ at = [t \in Tabs |-> None]
    /\ inRoom = [t \in Tabs |-> None]
    /\ socketId = [t \in Tabs |-> 0]
    /\ view = [t \in Tabs |-> <<>>]
    /\ inbox = [t \in Tabs |-> <<>>]
    /\ asked = [t \in Tabs |-> <<>>]
    /\ answers = [t \in Tabs |-> <<>>]
    /\ promiseMap = [t \in Tabs |-> [k \in Keys |-> 0]]
    /\ base = [t \in Tabs |-> 0]
    /\ newest = [t \in Tabs |-> 0]
    /\ missed = [t \in Tabs |-> {}]
    /\ mixed = [t \in Tabs |-> FALSE]
    /\ settled = {}
    /\ open = [t \in Tabs |-> {}]
    /\ overlapped = {}
    /\ left = 0

-----------------------------------------------------------------------------
(* A request: the tab makes a promise, the server commits.  The indices were *)
(* computed from a copy that may be old, so they are any.                    *)

Pending(t) == {n \in open[t] : \E k \in Keys : promiseMap[t][k] = n}

Indices == 0 .. Cardinality(Cells)

\* makePromise takes the slot of its key, whoever held it.  Without a socket
\* there is no request.
MakePromise(t, key) ==
    /\ at[t] # None
    /\ commits' = commits + 1
    /\ promiseMap' = [promiseMap EXCEPT ![t][key] = commits']
    /\ open' = [open EXCEPT ![t] = @ \cup {commits'}]
    /\ overlapped' = IF open[t] = {} THEN overlapped ELSE overlapped \cup {t}
    /\ UNCHANGED <<settled, tabs>>

\* What a request emits, in order: to the room of a document, or to one tab.
To(room, events) ==
    [r \in Docs \cup Tabs |-> IF r = room THEN events ELSE <<>>]

Commit(t, key, emitted) ==
    /\ MakePromise(t, key)
    /\ sending' = sending \cup {[n |-> commits', emitted |-> emitted]}

InsertDataCell(t, c, i) ==
    LET d == at[t]
    IN  /\ Commit(t, "insertDataCell",
                  To(d, <<Event("insertDataCell", commits + 1, t, d, c, i, 0)>>))
        /\ c \notin made
        /\ made' = made \cup {c}
        /\ i <= Len(cells[d])
        /\ LInsert(d, i, c)

DeleteDataCell(t, c) ==
    LET d == at[t]
    IN  /\ Commit(t, "deleteDataCell",
                  To(d, <<Event("deleteDataCell", commits + 1, t, d, c, 0, 0)>>))
        /\ c \in Range(cells[d])
        /\ LDelete(d, c)
        /\ UNCHANGED made

MoveDataCell(t, from, to) ==
    LET d == at[t]
    IN  /\ Commit(t, "moveDataCell",
                  To(d, <<Event("moveDataCell", commits + 1, t, d, None, from,
                                to)>>))
        /\ from # to
        /\ {from, to} \subseteq 0 .. Len(cells[d]) - 1
        /\ LMove(d, from, to)
        /\ UNCHANGED made

\* Broken variant: the event names the index that was asked for.
PastedAt(from, i) == i

\* Where a cut cell of the same document is when it is pasted above index i.
PastedTo(from, i) == IF from < i THEN i - 1 ELSE i

Pasted(t) == Event("pasteDataCell", commits + 1, t, at[t], None, 0, 0)

PasteCopy(t, c, i) ==
    LET d == at[t]
    IN  /\ Commit(t, "pasteDataCell",
                  To(d, <<Event("insertDataCell", commits + 1, t, d, c, i, 0),
                          Pasted(t)>>))
        /\ c \notin made
        /\ made' = made \cup {c}
        /\ i <= Len(cells[d])
        /\ LInsert(d, i, c)

PasteCutWithin(t, c, i) ==
    LET d == at[t]
        from == IndexOf(cells[d], c)
    IN  /\ at[t] # None
        /\ c \in Range(cells[d])
        /\ from # PastedTo(from, i)
        /\ i <= Len(cells[d])
        /\ Commit(t, "pasteDataCell",
                  To(d, <<Event("moveDataCell", commits + 1, t, d, None, from,
                                PastedTo(from, i)),
                          Pasted(t)>>))
        /\ LPaste(d, c, d, i)
        /\ UNCHANGED made

PasteCutAcross(t, source, c, i) ==
    LET d == at[t]
    IN  /\ source # d
        /\ Commit(t, "pasteDataCell",
                  [To(d, <<Event("insertDataCell", commits + 1, t, d, c, i, 0),
                           Pasted(t)>>)
                   EXCEPT ![source] = <<Event("deleteDataCell", commits + 1, t,
                                              source, c, 0, 0)>>])
        /\ c \in Range(cells[source])
        /\ i <= Len(cells[d])
        /\ LPaste(source, c, d, i)
        /\ UNCHANGED made

\* The cells of a commit on GitHub replace those of the document.
RestoreDataDoc(t, c) ==
    LET d == at[t]
    IN  /\ Commit(t, "dataDocRestored",
                  To(d, <<Event("dataDocRestored", commits + 1, t, d, None, 0,
                                0)>>))
        /\ c \notin made
        /\ made' = made \cup {c}
        /\ cells' = [cells EXCEPT ![d] = <<c>>]

\* The handler raises: an "error" event, which rejects every promise of the
\* tab and leaves them in the map.
RequestFails(t, key) ==
    /\ Commit(t, key,
              To(t, <<Event("error", commits + 1, t, None, None, 0, 0)>>))
    /\ UNCHANGED <<cells, made>>

-----------------------------------------------------------------------------
(* Events on their way *)

\* A socket is in a room, and in one of its own; a tab without a document has
\* no socket.
Received(t, r) ==
    IF at[t] = None THEN <<>>
    ELSE IF r.emitted[t] # <<>>
    THEN IF Head(r.emitted[t]).socket = socketId[t] THEN r.emitted[t] ELSE <<>>
    ELSE IF inRoom[t] = None THEN <<>> ELSE r.emitted[inRoom[t]]

\* Of several requests whose events are due, any may come first.
EmitEvents(r) ==
    /\ r \in sending
    /\ sending' = sending \ {r}
    /\ inbox' = [t \in Tabs |-> inbox[t] \o Received(t, r)]
    /\ missed' = [t \in Tabs |->
                     IF at[t] # None /\ inRoom[t] # at[t] /\ r.n > base[t]
                          /\ r.emitted[at[t]] # <<>>
                     THEN missed[t] \cup {r.n} ELSE missed[t]]
    /\ UNCHANGED <<cells, made, commits, at, inRoom, socketId, view, asked,
                   answers, base, newest, mixed, left, promises>>

\* Broken variant: a cell that is in the list already is put in again.
InsertedAgain(list, e) ==
    IF e.from > Len(list) THEN Append(list, e.cell)
    ELSE InsertAt(list, e.from, e.cell)

\* cells.filter((id) => id !== c): what is at the other positions, in order.
Without(list, c) ==
    LET kept == {i \in DOMAIN list : list[i] # c}
        Rank(i) == Cardinality({j \in kept : j <= i})
    IN  [k \in 1 .. Cardinality(kept) |->
            list[CHOOSE i \in kept : Rank(i) = k]]

\* dataDocCellsArrayHelper: an insert first takes the cell out of the list.
Inserted(list, e) ==
    LET others == Without(list, e.cell)
    IN  IF e.from > Len(others) THEN Append(others, e.cell)
        ELSE InsertAt(others, e.from, e.cell)

\* arrayMove: beyond the end of the list it takes undefined, and puts it at
\* the end at most.
ArrayMoved(list, e) ==
    LET elem == IF e.from < Len(list) THEN list[e.from + 1] ELSE None
        rest == IF e.from < Len(list) THEN RemoveAt(list, e.from) ELSE list
    IN  IF e.to > Len(rest) THEN Append(rest, elem)
        ELSE InsertAt(rest, e.to, elem)

Applied(list, e) ==
    CASE e.key = "insertDataCell" -> Inserted(list, e)
      [] e.key = "deleteDataCell" -> Without(list, e.cell)
      [] e.key = "moveDataCell" -> ArrayMoved(list, e)
      [] OTHER -> list

\* Broken variant: whoever the event is of.
ResolveWhoever(t, e) ==
    LET n == promiseMap[t][e.key]
    IN  IF n # 0
        THEN /\ promiseMap' = [promiseMap EXCEPT ![t][e.key] = 0]
             /\ settled' = IF n \in open[t] THEN settled \cup {<<n, e.n>>}
                           ELSE settled
             /\ open' = [open EXCEPT ![t] = @ \ {n}]
        ELSE UNCHANGED <<promiseMap, settled, open>>

\* checkIsSameOrigin: the tab asked for it, over the socket that it has.
SameOrigin(t, e) == e.by = t /\ e.socket = socketId[t]

\* resolvePromise: only of an event that the tab asked for itself.
Resolve(t, e) ==
    LET n == promiseMap[t][e.key]
    IN  IF SameOrigin(t, e) /\ n # 0
        THEN /\ promiseMap' = [promiseMap EXCEPT ![t][e.key] = 0]
             /\ settled' = IF n \in open[t] THEN settled \cup {<<n, e.n>>}
                           ELSE settled
             /\ open' = [open EXCEPT ![t] = @ \ {n}]
        ELSE UNCHANGED <<promiseMap, settled, open>>

Reject(t, e) ==
    /\ settled' = settled \cup {<<n, e.n>> : n \in Pending(t)}
    /\ open' = [open EXCEPT ![t] = @ \ Pending(t)]
    /\ UNCHANGED promiseMap

\* The handlers fetch their document, and the tab that asked fetches its own.
Refetches(t, e) ==
    IF SameOrigin(t, e) /\ promiseMap[t][e.key] \in Pending(t)
    THEN <<at[t], e.doc>> ELSE <<at[t]>>

\* The handlers apply a position of another document to their own.
Receive(t) ==
    /\ inbox[t] # <<>>
    /\ LET e == Head(inbox[t])
           own == e.doc = at[t]
           positional == e.key \in {"insertDataCell", "deleteDataCell",
                                    "moveDataCell"}
       IN  /\ IF e.key = "error" THEN Reject(t, e) ELSE Resolve(t, e)
           /\ view' = [view EXCEPT ![t] = Applied(@, e)]
           /\ asked' = IF e.key # "dataDocRestored" THEN asked
                       ELSE [asked EXCEPT ![t] = @ \o Refetches(t, e)]
           /\ mixed' = [mixed EXCEPT ![t] = @ \/
                  IF own THEN positional /\ e.n <= newest[t]
                  ELSE view'[t] # view[t]]
           /\ newest' = IF own /\ positional /\ e.n > newest[t]
                        THEN [newest EXCEPT ![t] = e.n] ELSE newest
    /\ inbox' = [inbox EXCEPT ![t] = Tail(@)]
    /\ UNCHANGED <<server, at, inRoom, socketId, answers, base, missed,
                   left, overlapped>>

-----------------------------------------------------------------------------
(* Opening, closing, and losing the connection *)

LeaveOnce ==
    /\ left < MaxLeaves
    /\ left' = left + 1

\* openDataDoc: the document is fetched and put into the store, and addDataDoc
\* replaces the handlers.  The room of the document before it is left over the
\* same socket, when the server gets to it, and its events are on their way.
\* What is committed while the answer of the fetch is on its way is as good as
\* committed afterwards, before the room is joined.  That answers of several
\* fetches overtake one another is in DataDocSocket.
OpenDataDoc(t, d) ==
    /\ at[t] # d
    /\ inRoom[t] \in {None, at[t]}    \* bound: the room before the last is left
    /\ IF at[t] = None THEN UNCHANGED left ELSE LeaveOnce
    /\ at' = [at EXCEPT ![t] = d]
    /\ view' = [view EXCEPT ![t] = cells[d]]
    /\ base' = [base EXCEPT ![t] = commits]
    /\ newest' = [newest EXCEPT ![t] = commits]
    /\ missed' = [missed EXCEPT ![t] = {}]
    /\ mixed' = [mixed EXCEPT ![t] = FALSE]
    /\ promiseMap' = [promiseMap EXCEPT ![t] = [k \in Keys |-> 0]]
    /\ UNCHANGED <<server, inRoom, socketId, inbox, asked, answers, settled, open,
                   overlapped>>

\* The server handles unsubscribe and subscribe, or subscribe after the
\* connection was lost.
JoinRoom(t) ==
    /\ at[t] # None
    /\ inRoom[t] # at[t]
    /\ inRoom' = [inRoom EXCEPT ![t] = at[t]]
    /\ UNCHANGED <<server, at, socketId, view, inbox, asked, answers, base,
                   newest, missed, mixed, left, promises>>

\* The socket that connects again has another id.
LoseConnection(t) ==
    /\ at[t] # None
    /\ LeaveOnce
    /\ inRoom' = [inRoom EXCEPT ![t] = None]
    /\ socketId' = [socketId EXCEPT ![t] = left']
    /\ inbox' = [inbox EXCEPT ![t] = <<>>]
    /\ missed' = [missed EXCEPT ![t] =
                     @ \cup {n \in {e.n : e \in {f \in Range(inbox[t]) :
                                                    f.doc = at[t]}} : n > base[t]}]
    /\ UNCHANGED <<server, at, view, asked, answers, base, newest, mixed,
                   promises>>

\* The page is unmounted, and the socket with it.
CloseDataDoc(t) ==
    /\ at[t] # None
    /\ LeaveOnce
    /\ at' = [at EXCEPT ![t] = None]
    /\ inRoom' = [inRoom EXCEPT ![t] = None]
    /\ socketId' = [socketId EXCEPT ![t] = left']
    /\ inbox' = [inbox EXCEPT ![t] = <<>>]
    /\ promiseMap' = [promiseMap EXCEPT ![t] = [k \in Keys |-> 0]]
    /\ UNCHANGED <<server, view, asked, answers, base, newest, missed,
                   mixed, settled, open, overlapped>>

\* fetchDataDoc again, after the document was restored: the answer is what
\* the server has at some time, and replaces the copy whenever it arrives,
\* with every event that was applied since.
RefetchRead(t) ==
    /\ asked[t] # <<>>
    /\ asked' = [asked EXCEPT ![t] = Tail(@)]
    /\ answers' = [answers EXCEPT ![t] = Append(@,
          [doc |-> Head(asked[t]), cells |-> cells[Head(asked[t])],
           commits |-> commits])]
    /\ UNCHANGED <<server, at, inRoom, socketId, view, inbox, base, newest,
                   missed, mixed, left, promises>>

RefetchArrives(t, i) ==
    LET answer == answers[t][i]
    IN  /\ answers' = [answers EXCEPT ![t] = RemoveAt(@, i - 1)]
        /\ IF answer.doc = at[t]
           THEN /\ view' = [view EXCEPT ![t] = answer.cells]
                /\ mixed' = [mixed EXCEPT ![t] = newest[t] > answer.commits]
                /\ newest' = [newest EXCEPT ![t] =
                                 IF @ > answer.commits THEN @ ELSE answer.commits]
                /\ missed' = [missed EXCEPT ![t] = {n \in @ : n > answer.commits}]
                /\ base' = [base EXCEPT ![t] = answer.commits]
           ELSE UNCHANGED <<view, mixed, missed, base, newest>>
        /\ UNCHANGED <<server, at, inRoom, socketId, inbox, asked, left,
                       promises>>

Calls(t) ==
    \/ \E c \in Cells, i \in Indices :
          \/ InsertDataCell(t, c, i)
          \/ PasteCopy(t, c, i)
          \/ PasteCutWithin(t, c, i)
          \/ \E d \in Docs : PasteCutAcross(t, d, c, i)
    \/ \E c \in Cells : DeleteDataCell(t, c) \/ RestoreDataDoc(t, c)
    \/ \E from, to \in Indices : MoveDataCell(t, from, to)
    \/ \E key \in Keys : RequestFails(t, key)

Next ==
    \/ \E t \in Tabs :
          \/ commits < MaxRequests /\ Calls(t)    \* bound
          \/ \E d \in Docs : OpenDataDoc(t, d)
          \/ Receive(t)
          \/ JoinRoom(t) \/ LoseConnection(t) \/ CloseDataDoc(t)
          \/ RefetchRead(t)
          \/ \E i \in DOMAIN answers[t] : RefetchArrives(t, i)
    \/ \E r \in sending : EmitEvents(r)

Spec == Init /\ [][Next]_vars

-----------------------------------------------------------------------------
(* What the authors of a document rely on *)

\* Nothing is on its way to the copy of the tab.
InSync(t) ==
    /\ at[t] # None
    /\ inRoom[t] = at[t]
    /\ inbox[t] = <<>>
    /\ asked[t] = <<>>
    /\ answers[t] = <<>>
    /\ \A r \in sending : r.emitted[at[t]] = <<>>

\* A copy that was made of events applied one after the other, by positions,
\* is the server's list.  There are three ways to lose that: an event that went
\* out while the tab was not in the room, between the fetch and the join or
\* in a lost connection; events that do not come in the order of the commits;
\* and an event of the document shown before, which comes over the same socket
\* and changes the copy of this one.
CopiesConverge ==
    \A t \in Tabs :
        InSync(t) /\ missed[t] = {} /\ ~mixed[t] => view[t] = cells[at[t]]

\* A copy never shows a cell twice, although the event of an insert comes to a
\* tab whose fetch already had the cell.
NoCellTwice ==
    \A t \in Tabs : \A i, j \in DOMAIN view[t] :
        i # j /\ view[t][i] = view[t][j] => view[t][i] = None

\* A tab that makes one call at a time has each call settled by the event of
\* that call.
CallsSettledByTheirEvents ==
    \A p \in settled : p[1] = p[2] \/ overlapped # {}

=============================================================================
