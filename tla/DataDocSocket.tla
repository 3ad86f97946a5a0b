---------------------------- MODULE DataDocSocket ----------------------------
(***************************************************************************)
(* How one browser tab follows the DataDoc it shows: the page opens a      *)
(* document (openDataDoc fetches it, then DataDocSocket.addDataDoc joins   *)
(* its room), and SocketIOManager keeps the connection.  JavaScript runs   *)
(* one task at a time: a step is one task.                                 *)
(*                                                                         *)
(* The server and the network: a room is joined and left by messages that  *)
(* a connected socket delivers in order; a socket that is not connected    *)
(* keeps them until it is.  A lost connection is made again by itself, and *)
(* a lost socket is in no room.  The events of a room take their time to   *)
(* the tab: what the server sends while a message to it is on its way is   *)
(* as good as sent before the message was.                                 *)
(***************************************************************************)
EXTENDS Naturals, FiniteSets, SequencesExt

CONSTANTS
    Docs,
    Sockets,   \* bound: the connections ever made
    None,      \* null: no document, no socket
    MaxOpens   \* bound: documents opened

ASSUME SocketAssumption ==
    /\ None \notin Docs \cup Sockets
    /\ MaxOpens \in Nat

VARIABLES
    \* the document that the page DataDoc shows
    page,
    \* calls of openDataDoc: those that await the document, and those that
    \* await the first connection of the socket
    fetching, waiting,
    \* fields of DataDocSocket: _activeDataDocId, the document that eventMap
    \* belongs to, and socketPromise; socket is set once the promise resolves
    active, eventMap, socketPromise,
    \* OpenSocketManager._openSocket
    openSocket,
    \* each socket, the messages it keeps, and the rooms it is in
    link, buffer, rooms,
    \* events on their way to each socket: of which document, and whether the
    \* handlers were replaced since they were sent
    events,
    \* bookkeeping: what was opened, and the mishaps that happened
    opens, mishaps

calls == <<page, fetching, waiting, opens>>
socketVars == <<active, eventMap, socketPromise, openSocket, link, buffer, rooms,
                events>>
vars == <<calls, socketVars, mishaps>>

Join(d) == [join |-> TRUE, doc |-> d]
Leave(d) == [join |-> FALSE, doc |-> d]
Messages == [join : BOOLEAN, doc : Docs]

Events == [doc : Docs, old : BOOLEAN]

TypeOK ==
    /\ page \in Docs \cup {None}
    /\ fetching \subseteq Docs
    /\ waiting \in Seq(Docs)
    /\ {active, eventMap} \subseteq Docs \cup {None}
    /\ {socketPromise, openSocket} \subseteq Sockets \cup {None}
    /\ link \in [Sockets -> {"none", "connecting", "up", "down", "closed"}]
    /\ \A s \in Sockets : link[s] # "up" => rooms[s] = {} /\ events[s] = {}
    /\ buffer \in [Sockets -> Seq(Messages)]
    /\ rooms \in [Sockets -> SUBSET Docs]
    /\ events \in [Sockets -> SUBSET Events]
    /\ opens \in 0 .. MaxOpens
    /\ mishaps \subseteq {"overtaken", "failed", "leaked"}
    /\ active # None => socketPromise # None /\ waiting = <<>>
    /\ openSocket \in {None, socketPromise}

Init ==
    /\ page = None
    /\ fetching = {}
    /\ waiting = <<>>
    /\ active = None
    /\ eventMap = None
    /\ socketPromise = None
    /\ openSocket = None
    /\ link = [s \in Sockets |-> "none"]
    /\ buffer = [s \in Sockets |-> <<>>]
    /\ rooms = [s \in Sockets |-> {}]
    /\ events = [s \in Sockets |-> {}]
    /\ opens = 0
    /\ mishaps = {}

-----------------------------------------------------------------------------
(* Messages *)

\* The server handles subscribe and unsubscribe in their order: the last one
\* about a document counts.
Served(joined, messages) ==
    {d \in Docs :
        LET about == {i \in DOMAIN messages : messages[i].doc = d}
        IN  IF about = {} THEN d \in joined
            ELSE \E i \in about : messages[i].join /\ \A j \in about : j <= i}

Emit(s, messages) ==
    IF link[s] = "up"
    THEN /\ rooms' = [rooms EXCEPT ![s] = Served(@, messages)]
         /\ UNCHANGED buffer
    ELSE /\ buffer' = [buffer EXCEPT ![s] = @ \o messages]
         /\ UNCHANGED rooms

Mishap(happened, what) ==
    mishaps' = IF happened THEN mishaps \cup {what} ELSE mishaps

-----------------------------------------------------------------------------
(* The page *)

\* The page is mounted, or shows another document: nothing is closed.
OpenPage(d) ==
    /\ page # d
    /\ d \notin fetching    \* bound: one fetch of a document at a time
    /\ opens < MaxOpens
    /\ opens' = opens + 1
    /\ page' = d
    /\ fetching' = fetching \cup {d}
    /\ Mishap(waiting # <<>>, "overtaken")
    /\ UNCHANGED <<waiting, socketVars>>

FetchFails(d) ==
    /\ d \in fetching
    /\ fetching' = fetching \ {d}
    /\ Mishap(TRUE, "failed")
    /\ UNCHANGED <<page, waiting, opens, socketVars>>

\* The page is unmounted while its document is not the active one: the call
\* of removeDataDoc does nothing.
LeaveInactive ==
    /\ page # None
    /\ page # active
    /\ page' = None
    /\ Mishap(fetching # {} \/ waiting # <<>>, "overtaken")
    /\ UNCHANGED <<fetching, waiting, opens, socketVars>>

\* Broken variant: the socket is forgotten and stays open.
LeaveActiveOpen ==
    /\ page # None
    /\ page = active
    /\ openSocket # None
    /\ page' = None
    /\ active' = None
    /\ socketPromise' = None
    /\ openSocket' = None
    /\ Emit(openSocket, <<Leave(active)>>)
    /\ Mishap(fetching # {}, "overtaken")
    /\ UNCHANGED <<fetching, waiting, opens, eventMap, link, events>>

\* removeDataDoc(docId, true), and SocketIOManager.removeSocket.
LeaveActive ==
    /\ page # None
    /\ page = active
    /\ openSocket # None
    /\ page' = None
    /\ active' = None
    /\ socketPromise' = None
    /\ link' = [link EXCEPT ![openSocket] = "closed"]
    /\ rooms' = [rooms EXCEPT ![openSocket] = {}]
    /\ events' = [events EXCEPT ![openSocket] = {}]
    /\ openSocket' = None
    /\ Mishap(fetching # {}, "overtaken")
    /\ UNCHANGED <<fetching, waiting, opens, eventMap, buffer>>

\* The manager forgot the socket when its connection was lost, so the call of
\* removeSocket finds nothing to disconnect.
LeaveForgotten ==
    /\ page # None
    /\ page = active
    /\ openSocket = None
    /\ page' = None
    /\ active' = None
    /\ Emit(socketPromise, <<Leave(active)>>)
    /\ socketPromise' = None
    /\ mishaps' = mishaps \cup {"leaked"}
                    \cup (IF fetching = {} THEN {} ELSE {"overtaken"})
    /\ UNCHANGED <<fetching, waiting, opens, eventMap, openSocket, link, events>>

-----------------------------------------------------------------------------
(* addDataDoc, after the document was fetched *)

\* The handlers are replaced while events are on their way.
Outdated == [s \in Sockets |-> {[e EXCEPT !.old = TRUE] : e \in events[s]}]

\* Broken variant: the handlers are those of the first document.
FetchedFirst(d) ==
    /\ d \in fetching
    /\ fetching' = fetching \ {d}
    /\ eventMap' = IF eventMap = None THEN d ELSE eventMap
    /\ events' = Outdated
    /\ Mishap(d # page \/ waiting # <<>>, "overtaken")
    /\ UNCHANGED <<page, opens>>

Fetched(d) ==
    /\ d \in fetching
    /\ fetching' = fetching \ {d}
    /\ eventMap' = d
    /\ events' = Outdated
    /\ Mishap(d # page \/ waiting # <<>>, "overtaken")
    /\ UNCHANGED <<page, opens>>

\* getSocket: the one the manager knows, or a new one.
AddMakesSocket(d) ==
    /\ Fetched(d)
    /\ socketPromise = None
    /\ \E s \in Sockets :
          /\ link[s] = "none"
          /\ link' = [link EXCEPT ![s] = "connecting"]
          /\ socketPromise' = s
          /\ openSocket' = s
    /\ waiting' = <<d>>
    /\ UNCHANGED <<active, buffer, rooms>>

AddAwaitsSocket(d) ==
    /\ Fetched(d)
    /\ socketPromise # None
    /\ link[socketPromise] = "connecting"
    /\ waiting' = Append(waiting, d)
    /\ UNCHANGED <<active, socketPromise, openSocket, link, buffer, rooms>>

\* Broken variant: the room of the document before it is kept.
SwitchStays(d) == <<Join(d)>>

\* The room of the document before it is left first.
Switch(d) ==
    (IF active \in {None, d} THEN <<>> ELSE <<Leave(active)>>) \o <<Join(d)>>

AddNow(d) ==
    /\ Fetched(d)
    /\ socketPromise # None
    /\ link[socketPromise] # "connecting"
    /\ active' = d
    /\ Emit(socketPromise, Switch(d))
    /\ UNCHANGED <<waiting, socketPromise, openSocket, link>>

-----------------------------------------------------------------------------
(* The connection *)

\* Broken variant: the calls that awaited the connection are forgotten.
ConnectAlone(s) ==
    /\ link[s] \in {"connecting", "down"}
    /\ link' = [link EXCEPT ![s] = "up"]
    /\ buffer' = [buffer EXCEPT ![s] = <<>>]
    /\ rooms' = [rooms EXCEPT ![s] = Served({},
          buffer[s] \o (IF active = None THEN <<>> ELSE <<Join(active)>>))]
    /\ waiting' = IF s = socketPromise THEN <<>> ELSE waiting
    /\ UNCHANGED <<page, fetching, opens, active, eventMap, socketPromise,
                   openSocket, events, mishaps>>

\* Messages kept are sent, onSocketConnect joins the active document's room,
\* and then the calls that awaited the first connection go on in their order.
Connect(s) ==
    /\ link[s] \in {"connecting", "down"}
    /\ link' = [link EXCEPT ![s] = "up"]
    /\ buffer' = [buffer EXCEPT ![s] = <<>>]
    /\ LET resumed == IF s = socketPromise THEN waiting ELSE <<>>
       IN  /\ rooms' = [rooms EXCEPT ![s] = Served({},
                  buffer[s] \o (IF active = None THEN <<>> ELSE <<Join(active)>>)
                    \o [i \in DOMAIN resumed |-> Join(resumed[i])])]
           /\ active' = IF resumed = <<>> THEN active ELSE Last(resumed)
           /\ waiting' = IF s = socketPromise THEN <<>> ELSE waiting
    /\ UNCHANGED <<page, fetching, opens, eventMap, socketPromise, openSocket,
                   events, mishaps>>

\* connect_error: of whichever socket, it is the namespace that is forgotten.
ConnectError(s) ==
    /\ link[s] \in {"connecting", "down"}
    /\ openSocket # None
    /\ openSocket' = None
    /\ UNCHANGED <<calls, active, eventMap, socketPromise, link, buffer, rooms,
                   events, mishaps>>

\* disconnect, for a reason after which socket.io connects again.
Disconnect(s) ==
    /\ link[s] = "up"
    /\ link' = [link EXCEPT ![s] = "down"]
    /\ rooms' = [rooms EXCEPT ![s] = {}]
    /\ events' = [events EXCEPT ![s] = {}]
    /\ openSocket' = None
    /\ UNCHANGED <<calls, active, eventMap, socketPromise, buffer, mishaps>>

\* Somebody changes a document: its room is told.
SendEvent(s, d) ==
    /\ d \in rooms[s]
    /\ events' = [events EXCEPT ![s] = @ \cup {[doc |-> d, old |-> FALSE]}]
    /\ UNCHANGED <<calls, active, eventMap, socketPromise, openSocket, link, buffer,
                   rooms, mishaps>>

\* resolvePromiseAndEvent hands it to the handlers that the tab has now.
ReceiveEvent(s, e) ==
    /\ e \in events[s]
    /\ events' = [events EXCEPT ![s] = @ \ {e}]
    /\ UNCHANGED <<calls, active, eventMap, socketPromise, openSocket, link, buffer,
                   rooms, mishaps>>

AddDataDoc(d) == AddMakesSocket(d) \/ AddAwaitsSocket(d) \/ AddNow(d)

Next ==
    \/ \E d \in Docs : OpenPage(d) \/ FetchFails(d)
    \/ \E d \in Docs : AddMakesSocket(d) \/ AddAwaitsSocket(d) \/ AddNow(d)
    \/ LeaveInactive \/ LeaveActive \/ LeaveForgotten
    \/ \E s \in Sockets : Connect(s) \/ ConnectError(s) \/ Disconnect(s)
    \/ \E s \in Sockets : \/ \E d \in Docs : SendEvent(s, d)
                          \/ \E e \in events[s] : ReceiveEvent(s, e)

Spec == Init /\ [][Next]_vars

\* The server answers or refuses a fetch, and socket.io keeps trying; nobody
\* has to go anywhere.
FairSpec ==
    /\ Spec
    /\ \A d \in Docs : WF_vars(AddDataDoc(d) \/ FetchFails(d))
    /\ \A s \in Sockets : WF_vars(Connect(s))

-----------------------------------------------------------------------------
(* What a reader of a document relies on *)

Settled ==
    /\ fetching = {}
    /\ waiting = <<>>
    /\ socketPromise # None => link[socketPromise] = "up"

OpenSockets == {s \in Sockets : link[s] \in {"connecting", "up", "down"}}

\* socketio-manager.ts: "only use this to avoid repeated socket creation".
\* Whatever connections are lost and made again, a tab has one socket for the
\* namespace, unless it left a document after its connection was lost.
OneSocket == "leaked" \notin mishaps => Cardinality(OpenSockets) <= 1

\* Once everything settled, the room the tab is in is that of the document it
\* shows, and the handlers are those of that document, through every change
\* of document and every reconnection; only answers that come after the
\* reader went on, and fetches that fail, break this.
Followed ==
    IF page = None THEN "leaked" \in mishaps \/ \A s \in Sockets : rooms[s] = {}
    ELSE /\ active = page
         /\ eventMap = page
         /\ rooms[socketPromise] = {page}

FollowsThePage ==
    mishaps \cap {"overtaken", "failed"} = {} /\ Settled => Followed

\* An event is handed to the handlers of its own document, which take its
\* positions for those of the document they were made for; only one that was
\* sent before the reader went on to another document, over the same socket,
\* meets the handlers of that one.
EventsFindTheirDocument ==
    mishaps \cap {"overtaken", "leaked"} = {} =>
        \A s \in Sockets : \A e \in events[s] : e.old \/ e.doc = eventMap

\* A page that stays is in its room at some time.
EventuallyFollowed ==
    \A d \in Docs :
        page = d ~> \/ page # d
                    \/ mishaps \cap {"overtaken", "failed"} # {}
                    \/ \E s \in Sockets : d \in rooms[s]

=============================================================================
