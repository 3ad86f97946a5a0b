------------------------ MODULE DataDocSocket_proofs ------------------------
(***************************************************************************)
(* Theorems about DataDocSocket for any documents and any number of        *)
(* connections.  The invariant says, beyond the properties, which socket   *)
(* is in use and what is known before the page has settled: what the       *)
(* messages that a socket keeps will lead to, and where the document of    *)
(* the page is on its way to the room.                                     *)
(***************************************************************************)
EXTENDS DataDocSocket, SequenceTheorems, FiniteSetTheorems, TLAPS

\* The rooms that the tab should be in.
Room == {active} \ {None}

\* The promise is of a socket that is open, calls await its first connection
\* only, and messages are kept while there is no connection only.
Promised ==
    /\ socketPromise # None => socketPromise \in OpenSockets
    /\ socketPromise # None /\ link[socketPromise] = "connecting" => active = None
    /\ waiting # <<>> => socketPromise # None /\ link[socketPromise] = "connecting"
    /\ \A s \in Sockets : link[s] \in {"none", "up"} => buffer[s] = <<>>

OnlyThePromised == "leaked" \notin mishaps => \A s \in OpenSockets : s = socketPromise

\* The room of the active document is the only one, or will be.
InItsRoom ==
    "overtaken" \notin mishaps /\ socketPromise # None =>
        IF link[socketPromise] = "up" THEN rooms[socketPromise] = Room
        ELSE Served({}, buffer[socketPromise]) \subseteq Room

HandlersFollow ==
    "overtaken" \notin mishaps =>
        /\ active # None => eventMap = active
        /\ waiting # <<>> => waiting = <<eventMap>>

\* The document of the page is fetched, awaits the socket, or is the active one.
PageKnown ==
    mishaps \cap {"overtaken", "failed"} = {} =>
        /\ page # None /\ page \notin fetching =>
              eventMap = page /\ (active = page \/ waiting = <<page>>)
        /\ page = None => active = None /\ fetching = {} /\ waiting = <<>>

IInv == TypeOK /\ Promised /\ OnlyThePromised /\ InItsRoom /\ HandlersFollow
          /\ PageKnown

-----------------------------------------------------------------------------
(* What the server makes of messages *)

LEMMA ServedNothing ==
    ASSUME NEW J \in SUBSET Docs
    PROVE  Served(J, <<>>) = J
BY DEF Served

LEMMA ServedJoin ==
    ASSUME NEW J \in SUBSET Docs, NEW d \in Docs
    PROVE  Served(J, <<Join(d)>>) = J \cup {d}
<1> DEFINE m == <<Join(d)>>
<1>1. DOMAIN m = {1} /\ m[1].doc = d /\ m[1].join
  BY DEF Join
<1> HIDE DEF m
<1>2. ASSUME NEW e \in Docs
      PROVE  e \in Served(J, m) <=> e \in J \cup {d}
  <2>1. CASE e = d
    BY <1>1, <2>1 DEF Served
  <2>2. CASE e # d
    BY <1>1, <2>2 DEF Served
  <2> QED BY <2>1, <2>2
<1>3. Served(J, m) \subseteq Docs
  BY DEF Served
<1> QED BY <1>2, <1>3 DEF m

LEMMA ServedLeave ==
    ASSUME NEW J \in SUBSET Docs, NEW d \in Docs
    PROVE  Served(J, <<Leave(d)>>) = J \ {d}
<1> DEFINE m == <<Leave(d)>>
<1>1. DOMAIN m = {1} /\ m[1].doc = d /\ ~m[1].join
  BY DEF Leave
<1> HIDE DEF m
<1>2. ASSUME NEW e \in Docs
      PROVE  e \in Served(J, m) <=> e \in J \ {d}
  <2>1. CASE e = d
    BY <1>1, <2>1 DEF Served
  <2>2. CASE e # d
    BY <1>1, <2>2 DEF Served
  <2> QED BY <2>1, <2>2
<1>3. Served(J, m) \subseteq Docs
  BY DEF Served
<1> QED BY <1>2, <1>3 DEF m

\* Messages are handled one after the other.
LEMMA ServedInTurn ==
    ASSUME NEW J \in SUBSET Docs, NEW m \in Seq(Messages), NEW n \in Seq(Messages)
    PROVE  Served(J, m \o n) = Served(Served(J, m), n)
<1> DEFINE mn == m \o n
           About(s, d) == {i \in DOMAIN s : s[i].doc = d}
<1>1. /\ DOMAIN m = 1 .. Len(m) /\ Len(m) \in Nat
      /\ DOMAIN n = 1 .. Len(n) /\ Len(n) \in Nat
      /\ DOMAIN mn = 1 .. Len(m) + Len(n)
      /\ \A i \in 1 .. Len(m) : mn[i] = m[i]
      /\ \A i \in 1 .. Len(n) : mn[Len(m) + i] = n[i]
      /\ \A i \in DOMAIN mn : i \in 1 .. Len(m) \/ i - Len(m) \in 1 .. Len(n)
  OBVIOUS
<1> HIDE DEF mn
<1>2. ASSUME NEW d \in Docs
      PROVE  d \in Served(J, mn) <=> d \in Served(Served(J, m), n)
  <2>1. CASE About(n, d) = {}
    <3>1. About(mn, d) = About(m, d)
      <4>1. ASSUME NEW i \in About(mn, d) PROVE i \in About(m, d)
        <5>1. CASE i \in 1 .. Len(m)
          BY <1>1, <5>1
        <5>2. CASE i - Len(m) \in 1 .. Len(n)
          <6>1. mn[Len(m) + (i - Len(m))] = n[i - Len(m)] /\ Len(m) + (i - Len(m)) = i
            BY <1>1, <5>2
          <6> QED BY <1>1, <2>1, <5>2, <6>1
        <5> QED BY <1>1, <5>1, <5>2
      <4>2. ASSUME NEW i \in About(m, d) PROVE i \in About(mn, d)
        BY <1>1
      <4> QED BY <4>1, <4>2
    <3>2. \A i \in About(m, d) : mn[i] = m[i]
      BY <1>1
    <3>3. d \in Served(J, mn) <=> d \in Served(J, m)
      BY <3>1, <3>2 DEF Served
    <3>4. d \in Served(Served(J, m), n) <=> d \in Served(J, m)
      BY <2>1 DEF Served
    <3> QED BY <3>3, <3>4
  <2>2. CASE About(n, d) # {}
    <3>1. \A i \in About(n, d) : Len(m) + i \in About(mn, d) /\ mn[Len(m) + i] = n[i]
      BY <1>1
    <3>2. ASSUME NEW i \in About(mn, d), \A j \in About(mn, d) : j <= i
          PROVE  i - Len(m) \in About(n, d) /\ mn[i] = n[i - Len(m)]
      <4>1. PICK k \in About(n, d) : TRUE
        BY <2>2
      <4>2. Len(m) + k <= i /\ k \in 1 .. Len(n)
        BY <1>1, <3>1, <3>2
      <4>3. i - Len(m) \in 1 .. Len(n)
        BY <1>1, <4>2
      <4>4. mn[Len(m) + (i - Len(m))] = n[i - Len(m)] /\ Len(m) + (i - Len(m)) = i
        BY <1>1, <4>3
      <4> QED BY <1>1, <4>3, <4>4
    <3>3. ASSUME d \in Served(J, mn) PROVE d \in Served(Served(J, m), n)
      <4>1. PICK i \in About(mn, d) : mn[i].join /\ \A j \in About(mn, d) : j <= i
        BY <2>2, <3>1, <3>3 DEF Served
      <4>2. i - Len(m) \in About(n, d) /\ n[i - Len(m)].join
        BY <3>2, <4>1
      <4>3. \A j \in About(n, d) : j <= i - Len(m)
        <5> SUFFICES ASSUME NEW j \in About(n, d) PROVE j <= i - Len(m)
          OBVIOUS
        <5>1. Len(m) + j <= i /\ j \in Int /\ i \in Int
          BY <1>1, <3>1, <4>1
        <5> QED BY <1>1, <5>1
      <4> QED BY <2>2, <4>2, <4>3 DEF Served
    <3>4. ASSUME d \in Served(Served(J, m), n) PROVE d \in Served(J, mn)
      <4>1. PICK i \in About(n, d) : n[i].join /\ \A j \in About(n, d) : j <= i
        BY <2>2, <3>4 DEF Served
      <4>2. Len(m) + i \in About(mn, d) /\ mn[Len(m) + i].join
        BY <3>1, <4>1
      <4>3. \A j \in About(mn, d) : j <= Len(m) + i
        <5> SUFFICES ASSUME NEW j \in About(mn, d) PROVE j <= Len(m) + i
          OBVIOUS
        <5>1. CASE j \in 1 .. Len(m)
          BY <1>1, <5>1
        <5>2. CASE j - Len(m) \in 1 .. Len(n)
          <6>1. mn[Len(m) + (j - Len(m))] = n[j - Len(m)] /\ Len(m) + (j - Len(m)) = j
            BY <1>1, <5>2
          <6>2. j - Len(m) \in About(n, d)
            BY <1>1, <5>2, <6>1
          <6> QED BY <1>1, <4>1, <6>2
        <5> QED BY <1>1, <5>1, <5>2
      <4> QED BY <2>2, <4>2, <4>3 DEF Served
    <3> QED BY <3>3, <3>4
  <2> QED BY <2>1, <2>2
<1>3. Served(J, mn) \subseteq Docs /\ Served(Served(J, m), n) \subseteq Docs
  BY DEF Served
<1> QED BY <1>2, <1>3 DEF mn

\* A switch leaves the tab in the room of the new document alone.
LEMMA SwitchMovesOver ==
    ASSUME TypeOK, NEW d \in Docs, NEW J \in SUBSET Room
    PROVE  /\ Switch(d) \in Seq(Messages)
           /\ Served(J, Switch(d)) = {d}
<1>1. Join(d) \in Messages /\ Room \in SUBSET Docs
  BY DEF TypeOK, Room, Join, Messages
<1>2. <<Join(d)>> \in Seq(Messages) /\ J \in SUBSET Docs
  BY <1>1
<1>3. CASE active \in {None, d}
  <2>1. Switch(d) = <<Join(d)>>
    BY <1>2, <1>3 DEF Switch
  <2>2. J \subseteq {d}
    BY <1>3 DEF Room
  <2> QED BY <1>1, <1>2, <2>1, <2>2, ServedJoin
<1>4. CASE active \notin {None, d}
  <2>1. active \in Docs /\ Leave(active) \in Messages
    BY <1>4 DEF TypeOK, Leave, Messages
  <2>2. <<Leave(active)>> \in Seq(Messages)
    BY <2>1
  <2>3. Switch(d) = <<Leave(active)>> \o <<Join(d)>>
    BY <1>4 DEF Switch
  <2>4. Served(J, <<Leave(active)>>) = {}
    BY <1>2, <2>1, ServedLeave DEF Room
  <2>5. Served({}, <<Join(d)>>) = {d}
    BY ServedJoin
  <2>6. Served(J, <<Leave(active)>> \o <<Join(d)>>)
          = Served(Served(J, <<Leave(active)>>), <<Join(d)>>)
    BY <1>2, <2>2, ServedInTurn
  <2>7. <<Leave(active)>> \o <<Join(d)>> \in Seq(Messages)
    BY <1>2, <2>2, ConcatProperties
  <2>8. Served(J, Switch(d)) = {d}
    BY <2>3, <2>4, <2>5, <2>6, Zenon
  <2> QED BY <2>3, <2>7, <2>8, Zenon
<1> QED BY <1>3, <1>4

-----------------------------------------------------------------------------
(* Which socket is in use *)

SocketsRight == TypeOK /\ Promised /\ OnlyThePromised

LEMMA MishapType ==
    ASSUME TypeOK, NEW h, NEW w \in {"overtaken", "failed", "leaked"}, Mishap(h, w)
    PROVE  /\ mishaps' \subseteq {"overtaken", "failed", "leaked"}
           /\ mishaps \subseteq mishaps'
BY DEF TypeOK, Mishap

LEMMA EmitType ==
    ASSUME TypeOK, Promised, NEW s \in Sockets, s \in OpenSockets,
           NEW m \in Seq(Messages), Emit(s, m)
    PROVE  /\ buffer' \in [Sockets -> Seq(Messages)]
           /\ rooms' \in [Sockets -> SUBSET Docs]
           /\ \A q \in Sockets : link[q] # "up" => rooms'[q] = {}
           /\ \A q \in Sockets : link[q] \in {"none", "up"} => buffer'[q] = <<>>
<1>1. CASE link[s] = "up"
  <2>1. Served(rooms[s], m) \in SUBSET Docs
    BY DEF Served
  <2>2. rooms' = [rooms EXCEPT ![s] = Served(rooms[s], m)] /\ buffer' = buffer
    BY <1>1 DEF Emit
  <2> QED BY <1>1, <2>1, <2>2 DEF TypeOK, Promised
<1>2. CASE link[s] # "up"
  <2>1. buffer[s] \o m \in Seq(Messages)
    BY DEF TypeOK
  <2>2. buffer' = [buffer EXCEPT ![s] = buffer[s] \o m] /\ rooms' = rooms
    BY <1>2 DEF Emit
  <2>3. link[s] \notin {"none", "up"}
    BY <1>2 DEF OpenSockets
  <2> QED BY <2>1, <2>2, <2>3 DEF TypeOK, Promised
<1> QED BY <1>1, <1>2

LEMMA ConnectType ==
    ASSUME TypeOK, Promised, NEW s \in Sockets, Connect(s)
    PROVE  /\ TypeOK'
           /\ Promised'
<1> DEFINE resumed == IF s = socketPromise THEN waiting ELSE <<>>
<1>1. resumed \in Seq(Docs)
  BY DEF TypeOK
<1>2. resumed # <<>> => Last(resumed) \in Docs
  BY <1>1 DEF Last
<1>3. active' = IF resumed = <<>> THEN active ELSE Last(resumed)
  BY DEF Connect
<1> HIDE DEF resumed
<1>4. active' \in Docs \cup {None}
  BY <1>2, <1>3 DEF TypeOK
<1>5. rooms' \in [Sockets -> SUBSET Docs]
  BY DEF Connect, Served, TypeOK
<1>6. /\ link' = [link EXCEPT ![s] = "up"]
      /\ buffer' = [buffer EXCEPT ![s] = <<>>]
      /\ waiting' = IF s = socketPromise THEN <<>> ELSE waiting
      /\ \A q \in Sockets \ {s} : rooms'[q] = rooms[q]
      /\ UNCHANGED <<page, fetching, opens, eventMap, socketPromise, openSocket,
                     events, mishaps>>
  BY DEF Connect, TypeOK
<1>7. active' # None => socketPromise # None /\ waiting' = <<>>
  <2>1. CASE s = socketPromise
    BY <1>6, <2>1, SocketAssumption
  <2>2. CASE s # socketPromise
    BY <1>3, <1>6, <2>2 DEF TypeOK, resumed
  <2> QED BY <2>1, <2>2
<1>8. TypeOK'
  BY <1>4, <1>5, <1>6, <1>7 DEF TypeOK
<1>9. Promised'
  <2>1. socketPromise' # None => socketPromise' \in OpenSockets'
    BY <1>6 DEF TypeOK, Promised, OpenSockets
  <2>2. socketPromise' # None /\ link'[socketPromise'] = "connecting" => active' = None
    BY <1>3, <1>6 DEF TypeOK, Promised, resumed
  <2>3. waiting' # <<>> => socketPromise' # None /\ link'[socketPromise'] = "connecting"
    BY <1>6 DEF TypeOK, Promised
  <2>4. \A q \in Sockets : link'[q] \in {"none", "up"} => buffer'[q] = <<>>
    BY <1>6 DEF TypeOK, Promised
  <2> QED BY <2>1, <2>2, <2>3, <2>4 DEF Promised
<1> QED BY <1>8, <1>9

-----------------------------------------------------------------------------
(* The page goes to another document, or leaves one that is not active *)

LEMMA OpenPageKeeps ==
    ASSUME IInv, NEW d \in Docs, OpenPage(d)
    PROVE  IInv'
<1>1. /\ mishaps \subseteq mishaps'
      /\ mishaps' \subseteq {"overtaken", "failed", "leaked"}
      /\ waiting # <<>> => "overtaken" \in mishaps'
      /\ "leaked" \in mishaps' => "leaked" \in mishaps
  BY DEF OpenPage, Mishap, IInv, TypeOK
<1>2. TypeOK'
  BY <1>1, SocketAssumption DEF OpenPage, IInv, TypeOK, socketVars
<1>3. Promised' /\ OnlyThePromised' /\ InItsRoom' /\ HandlersFollow'
  BY <1>1 DEF OpenPage, IInv, Promised, OnlyThePromised, InItsRoom,
       HandlersFollow, OpenSockets, Room, socketVars
<1>4. PageKnown'
  BY <1>1, SocketAssumption DEF OpenPage, IInv, PageKnown, socketVars
<1> QED BY <1>2, <1>3, <1>4 DEF IInv

LEMMA FetchFailsKeeps ==
    ASSUME IInv, NEW d \in Docs, FetchFails(d)
    PROVE  IInv'
<1>1. mishaps' = mishaps \cup {"failed"}
  BY DEF FetchFails, Mishap
<1>2. TypeOK'
  BY <1>1 DEF FetchFails, IInv, TypeOK, socketVars
<1>3. Promised' /\ OnlyThePromised' /\ InItsRoom' /\ HandlersFollow'
  BY <1>1 DEF FetchFails, IInv, Promised, OnlyThePromised, InItsRoom,
       HandlersFollow, OpenSockets, Room, socketVars
<1>4. PageKnown'
  BY <1>1 DEF PageKnown
<1> QED BY <1>2, <1>3, <1>4 DEF IInv

LEMMA LeaveInactiveKeeps ==
    ASSUME IInv, LeaveInactive
    PROVE  IInv'
<1>1. /\ mishaps \subseteq mishaps'
      /\ mishaps' \subseteq {"overtaken", "failed", "leaked"}
      /\ fetching # {} \/ waiting # <<>> => "overtaken" \in mishaps'
      /\ "leaked" \in mishaps' => "leaked" \in mishaps
  BY DEF LeaveInactive, Mishap, IInv, TypeOK
<1>2. TypeOK'
  BY <1>1 DEF LeaveInactive, IInv, TypeOK, socketVars
<1>3. Promised' /\ OnlyThePromised' /\ InItsRoom' /\ HandlersFollow'
  BY <1>1 DEF LeaveInactive, IInv, Promised, OnlyThePromised, InItsRoom,
       HandlersFollow, OpenSockets, Room, socketVars
<1>4. PageKnown'
  BY <1>1 DEF LeaveInactive, IInv, PageKnown, socketVars
<1> QED BY <1>2, <1>3, <1>4 DEF IInv

-----------------------------------------------------------------------------
(* The page leaves the active document *)

LEMMA LeaveActiveKeeps ==
    ASSUME IInv, LeaveActive
    PROVE  IInv'
<1>1. /\ mishaps \subseteq mishaps'
      /\ mishaps' \subseteq {"overtaken", "failed", "leaked"}
      /\ fetching # {} => "overtaken" \in mishaps'
      /\ "leaked" \in mishaps' => "leaked" \in mishaps
  BY DEF LeaveActive, Mishap, IInv, TypeOK
<1>2. active # None /\ waiting = <<>> /\ openSocket = socketPromise
      /\ socketPromise \in Sockets
  BY DEF LeaveActive, IInv, TypeOK
<1>3. TypeOK'
  BY <1>1, <1>2 DEF LeaveActive, IInv, TypeOK
<1>4. Promised'
  BY <1>2 DEF LeaveActive, IInv, TypeOK, Promised
<1>5. OnlyThePromised'
  BY <1>1, <1>2 DEF LeaveActive, IInv, TypeOK, OnlyThePromised, OpenSockets
<1>6. InItsRoom' /\ HandlersFollow'
  BY <1>2 DEF LeaveActive, InItsRoom, HandlersFollow
<1>7. PageKnown'
  BY <1>1, <1>2 DEF LeaveActive, PageKnown
<1> QED BY <1>3, <1>4, <1>5, <1>6, <1>7 DEF IInv

LEMMA LeaveForgottenKeeps ==
    ASSUME IInv, LeaveForgotten
    PROVE  IInv'
<1>1. /\ mishaps \subseteq mishaps'
      /\ mishaps' \subseteq {"overtaken", "failed", "leaked"}
      /\ fetching # {} => "overtaken" \in mishaps'
      /\ "leaked" \in mishaps'
  BY DEF LeaveForgotten, IInv, TypeOK
<1>2. active \in Docs /\ waiting = <<>> /\ socketPromise \in OpenSockets
      /\ socketPromise \in Sockets
  BY DEF LeaveForgotten, IInv, TypeOK, Promised
<1>3. <<Leave(active)>> \in Seq(Messages)
  BY <1>2 DEF Leave, Messages
<1>4. Emit(socketPromise, <<Leave(active)>>)
  BY DEF LeaveForgotten
<1>5. /\ buffer' \in [Sockets -> Seq(Messages)]
      /\ rooms' \in [Sockets -> SUBSET Docs]
      /\ \A q \in Sockets : link[q] # "up" => rooms'[q] = {}
      /\ \A q \in Sockets : link[q] \in {"none", "up"} => buffer'[q] = <<>>
  BY <1>2, <1>3, <1>4, EmitType DEF IInv
<1>6. TypeOK'
  BY <1>1, <1>2, <1>5 DEF LeaveForgotten, IInv, TypeOK
<1>7. Promised'
  BY <1>2, <1>5 DEF LeaveForgotten, Promised
<1>8. OnlyThePromised' /\ InItsRoom' /\ HandlersFollow'
  BY <1>1, <1>2 DEF LeaveForgotten, OnlyThePromised, InItsRoom, HandlersFollow
<1>9. PageKnown'
  BY <1>1, <1>2 DEF LeaveForgotten, PageKnown
<1> QED BY <1>6, <1>7, <1>8, <1>9 DEF IInv

-----------------------------------------------------------------------------
(* A document was fetched *)

\* Events on their way grow old, and no others come.
LEMMA OutdatedType ==
    ASSUME TypeOK
    PROVE  /\ Outdated \in [Sockets -> SUBSET Events]
           /\ \A s \in Sockets : link[s] # "up" => Outdated[s] = {}
<1>1. ASSUME NEW s \in Sockets
      PROVE  /\ {[e EXCEPT !.old = TRUE] : e \in events[s]} \subseteq Events
             /\ events[s] = {} => {[e EXCEPT !.old = TRUE] : e \in events[s]} = {}
  <2>1. events[s] \subseteq Events
    BY DEF TypeOK
  <2> QED BY <2>1 DEF Events
<1> QED BY <1>1 DEF Outdated, TypeOK

\* What the three ways to go on have in common.
LEMMA FetchedKnows ==
    ASSUME IInv, NEW d \in Docs, Fetched(d)
    PROVE  /\ mishaps \subseteq mishaps'
           /\ mishaps' \subseteq {"overtaken", "failed", "leaked"}
           /\ "leaked" \in mishaps' => "leaked" \in mishaps
           /\ "overtaken" \notin mishaps' => d = page /\ waiting = <<>>
           /\ mishaps' \cap {"overtaken", "failed"} = {} =>
                 mishaps \cap {"overtaken", "failed"} = {}
           /\ page' = page /\ opens' = opens /\ eventMap' = d
           /\ fetching' = fetching \ {d}
           /\ events' \in [Sockets -> SUBSET Events]
           /\ \A s \in Sockets : link[s] # "up" => events'[s] = {}
<1>1. events' = Outdated /\ TypeOK
  BY DEF Fetched, IInv
<1>2. /\ events' \in [Sockets -> SUBSET Events]
      /\ \A s \in Sockets : link[s] # "up" => events'[s] = {}
  BY <1>1, OutdatedType
<1> QED BY <1>2 DEF Fetched, Mishap, IInv, TypeOK

LEMMA AddMakesSocketKeeps ==
    ASSUME IInv, NEW d \in Docs, AddMakesSocket(d)
    PROVE  IInv'
<1>1. Fetched(d) /\ socketPromise = None /\ waiting' = <<d>>
      /\ UNCHANGED <<active, buffer, rooms>>
  BY DEF AddMakesSocket
<1>2. /\ mishaps \subseteq mishaps'
      /\ mishaps' \subseteq {"overtaken", "failed", "leaked"}
      /\ "leaked" \in mishaps' => "leaked" \in mishaps
      /\ "overtaken" \notin mishaps' => d = page /\ waiting = <<>>
      /\ page' = page /\ opens' = opens /\ eventMap' = d
      /\ fetching' = fetching \ {d}
      /\ events' \in [Sockets -> SUBSET Events]
      /\ \A q \in Sockets : link[q] # "up" => events'[q] = {}
  BY <1>1, FetchedKnows
<1>3. PICK s \in Sockets :
          /\ link[s] = "none"
          /\ link' = [link EXCEPT ![s] = "connecting"]
          /\ socketPromise' = s
          /\ openSocket' = s
  BY DEF AddMakesSocket
<1>4. active = None /\ s # None /\ d # None /\ rooms[s] = {} /\ buffer[s] = <<>>
  BY <1>1, <1>3, SocketAssumption DEF IInv, TypeOK, Promised
<1>5. <<d>> \in Seq(Docs)
  OBVIOUS
<1>6. TypeOK'
  BY <1>1, <1>2, <1>3, <1>4, <1>5 DEF IInv, TypeOK
<1>7. Promised'
  BY <1>1, <1>3, <1>4 DEF IInv, TypeOK, Promised, OpenSockets
<1>8. OnlyThePromised'
  BY <1>1, <1>2, <1>3, SocketAssumption DEF IInv, TypeOK, OnlyThePromised, OpenSockets
<1>9. InItsRoom'
  <2>1. Served({}, <<>>) = {}
    BY ServedNothing
  <2> QED BY <1>1, <1>3, <1>4, <2>1 DEF IInv, TypeOK, InItsRoom
<1>10. HandlersFollow' /\ PageKnown'
  BY <1>1, <1>2, <1>4 DEF HandlersFollow, PageKnown
<1> QED BY <1>6, <1>7, <1>8, <1>9, <1>10 DEF IInv

LEMMA AddAwaitsSocketKeeps ==
    ASSUME IInv, NEW d \in Docs, AddAwaitsSocket(d)
    PROVE  IInv'
<1>1. Fetched(d) /\ socketPromise # None /\ link[socketPromise] = "connecting"
      /\ waiting' = Append(waiting, d)
      /\ UNCHANGED <<active, socketPromise, openSocket, link, buffer, rooms>>
  BY DEF AddAwaitsSocket
<1>2. /\ mishaps \subseteq mishaps'
      /\ mishaps' \subseteq {"overtaken", "failed", "leaked"}
      /\ "leaked" \in mishaps' => "leaked" \in mishaps
      /\ "overtaken" \notin mishaps' => d = page /\ waiting = <<>>
      /\ page' = page /\ opens' = opens /\ eventMap' = d
      /\ fetching' = fetching \ {d}
      /\ events' \in [Sockets -> SUBSET Events]
      /\ \A q \in Sockets : link[q] # "up" => events'[q] = {}
  BY <1>1, FetchedKnows
<1>3. active = None /\ d # None
  BY <1>1, SocketAssumption DEF IInv, Promised
<1>4. waiting' \in Seq(Docs)
  BY <1>1 DEF IInv, TypeOK
<1>5. waiting = <<>> => waiting' = <<d>>
  BY <1>1
<1>6. TypeOK'
  BY <1>1, <1>2, <1>3, <1>4 DEF IInv, TypeOK
<1>7. Promised' /\ OnlyThePromised' /\ InItsRoom'
  BY <1>1, <1>2, <1>3 DEF IInv, Promised, OnlyThePromised, InItsRoom, OpenSockets,
       Room
<1>8. HandlersFollow' /\ PageKnown'
  BY <1>1, <1>2, <1>3, <1>5 DEF HandlersFollow, PageKnown
<1> QED BY <1>6, <1>7, <1>8 DEF IInv

LEMMA AddNowKeeps ==
    ASSUME IInv, NEW d \in Docs, AddNow(d)
    PROVE  IInv'
<1> DEFINE s == socketPromise
<1>1. Fetched(d) /\ s # None /\ link[s] # "connecting"
      /\ active' = d /\ Emit(s, Switch(d))
      /\ UNCHANGED <<waiting, socketPromise, openSocket, link>>
  BY DEF AddNow
<1>2. /\ mishaps \subseteq mishaps'
      /\ mishaps' \subseteq {"overtaken", "failed", "leaked"}
      /\ "leaked" \in mishaps' => "leaked" \in mishaps
      /\ "overtaken" \notin mishaps' => d = page /\ waiting = <<>>
      /\ page' = page /\ opens' = opens /\ eventMap' = d
      /\ fetching' = fetching \ {d}
      /\ events' \in [Sockets -> SUBSET Events]
      /\ \A q \in Sockets : link[q] # "up" => events'[q] = {}
  BY <1>1, FetchedKnows
<1>3. waiting = <<>> /\ d # None /\ s \in OpenSockets /\ s \in Sockets
  BY <1>1, SocketAssumption DEF IInv, TypeOK, Promised, OpenSockets
<1>4. Switch(d) \in Seq(Messages)
  BY SwitchMovesOver DEF IInv
<1>5. /\ buffer' \in [Sockets -> Seq(Messages)]
      /\ rooms' \in [Sockets -> SUBSET Docs]
      /\ \A q \in Sockets : link[q] # "up" => rooms'[q] = {}
      /\ \A q \in Sockets : link[q] \in {"none", "up"} => buffer'[q] = <<>>
  BY <1>1, <1>3, <1>4, EmitType DEF IInv
<1>6. TypeOK'
  BY <1>1, <1>2, <1>3, <1>5 DEF IInv, TypeOK
<1>7. Promised' /\ OnlyThePromised'
  BY <1>1, <1>2, <1>3, <1>5 DEF IInv, Promised, OnlyThePromised, OpenSockets
<1>8. InItsRoom'
  <2> SUFFICES ASSUME "overtaken" \notin mishaps'
               PROVE  IF link[s] = "up" THEN rooms'[s] = {d}
                      ELSE Served({}, buffer'[s]) \subseteq {d}
    BY <1>1, <1>3 DEF InItsRoom, Room
  <2>1. "overtaken" \notin mishaps
    BY <1>2
  <2>2. CASE link[s] = "up"
    <3>1. rooms[s] \in SUBSET Room
      BY <1>1, <2>1, <2>2 DEF IInv, InItsRoom
    <3>2. rooms'[s] = Served(rooms[s], Switch(d))
      BY <1>1, <1>3, <2>2 DEF Emit, IInv, TypeOK
    <3> QED BY <2>2, <3>1, <3>2, SwitchMovesOver DEF IInv
  <2>3. CASE link[s] # "up"
    <3>1. Served({}, buffer[s]) \in SUBSET Room
      BY <1>1, <2>1, <2>3 DEF IInv, InItsRoom
    <3>2. buffer'[s] = buffer[s] \o Switch(d) /\ buffer[s] \in Seq(Messages)
      BY <1>1, <1>3, <2>3 DEF Emit, IInv, TypeOK
    <3>3. Served({}, buffer'[s]) = Served(Served({}, buffer[s]), Switch(d))
      BY <1>4, <3>2, ServedInTurn
    <3> QED BY <2>3, <3>1, <3>3, SwitchMovesOver DEF IInv
  <2> QED BY <2>2, <2>3
<1>9. HandlersFollow' /\ PageKnown'
  BY <1>1, <1>2, <1>3 DEF HandlersFollow, PageKnown
<1> QED BY <1>6, <1>7, <1>8, <1>9 DEF IInv

-----------------------------------------------------------------------------
(* The connection *)

LEMMA ConnectKeeps ==
    ASSUME IInv, NEW s \in Sockets, Connect(s)
    PROVE  IInv'
<1>1. TypeOK' /\ Promised'
  BY ConnectType DEF IInv
<1>2. /\ link[s] \in {"connecting", "down"}
      /\ link' = [link EXCEPT ![s] = "up"]
      /\ buffer' = [buffer EXCEPT ![s] = <<>>]
      /\ waiting' = IF s = socketPromise THEN <<>> ELSE waiting
      /\ \A q \in Sockets \ {s} : rooms'[q] = rooms[q]
      /\ UNCHANGED <<page, fetching, opens, eventMap, socketPromise, openSocket,
                     mishaps>>
  BY DEF Connect, IInv, TypeOK
<1>3. OnlyThePromised'
  BY <1>2 DEF IInv, TypeOK, OnlyThePromised, OpenSockets
<1>4. CASE s # socketPromise
  <2>1. active' = active
    BY <1>4 DEF Connect
  <2>2. InItsRoom'
    BY <1>2, <1>4, <2>1 DEF IInv, TypeOK, InItsRoom, Room
  <2>3. HandlersFollow' /\ PageKnown'
    BY <1>2, <1>4, <2>1 DEF IInv, HandlersFollow, PageKnown
  <2> QED BY <1>1, <1>3, <2>2, <2>3 DEF IInv
<1>5. CASE s = socketPromise /\ waiting = <<>>
  <2> DEFINE own == IF active = None THEN <<>> ELSE <<Join(active)>>
  <2>1. active' = active
    BY <1>5 DEF Connect
  <2>2. rooms'[s] = Served({}, buffer[s] \o own
                              \o [i \in DOMAIN waiting |-> Join(waiting[i])])
    BY <1>5 DEF Connect, IInv, TypeOK
  <2>3. own \in Seq(Messages) /\ buffer[s] \in Seq(Messages)
    <3>1. active # None => Join(active) \in Messages
      BY DEF IInv, TypeOK, Join, Messages
    <3>2. own \in Seq(Messages)
      BY <3>1
    <3>3. buffer[s] \in Seq(Messages)
      BY DEF IInv, TypeOK
    <3> QED BY <3>2, <3>3
  <2>4. [i \in DOMAIN waiting |-> Join(waiting[i])] = <<>>
    BY <1>5
  <2>5. buffer[s] \o own \in Seq(Messages)
    BY <2>3, ConcatProperties
  <2>6. rooms'[s] = Served(Served({}, buffer[s]), own)
    <3> HIDE DEF own
    <3>1. (buffer[s] \o own) \o <<>> = buffer[s] \o own
      BY <2>5
    <3> QED BY <2>2, <2>3, <2>4, <3>1, ServedInTurn
  <2>7. InItsRoom'
    <3> SUFFICES ASSUME "overtaken" \notin mishaps PROVE rooms'[s] = Room
      BY <1>2, <1>5, <2>1 DEF InItsRoom, Room, IInv, TypeOK
    <3>1. Served({}, buffer[s]) \subseteq Room
      BY <1>2, <1>5, SocketAssumption DEF IInv, InItsRoom
    <3>2. Room \in SUBSET Docs
      BY DEF IInv, TypeOK, Room
    <3>3. CASE active = None
      BY <2>6, <3>1, <3>2, <3>3, ServedNothing DEF Room
    <3>4. CASE active # None
      <4>1. active \in Docs
        BY <3>4 DEF IInv, TypeOK
      <4> QED BY <2>6, <3>1, <3>2, <3>4, <4>1, ServedJoin DEF Room
    <3> QED BY <3>3, <3>4
  <2>8. HandlersFollow' /\ PageKnown'
    BY <1>2, <1>5, <2>1 DEF IInv, HandlersFollow, PageKnown
  <2> QED BY <1>1, <1>3, <2>7, <2>8 DEF IInv
<1>6. CASE s = socketPromise /\ waiting # <<>>
  <2> DEFINE resumed == [i \in DOMAIN waiting |-> Join(waiting[i])]
  <2>1. active = None /\ active' = Last(waiting)
    BY <1>2, <1>6 DEF Connect, IInv, TypeOK
  <2>2. rooms'[s] = Served({}, buffer[s] \o <<>> \o resumed)
    BY <1>6, <2>1 DEF Connect, IInv, TypeOK
  <2>3. "overtaken" \notin mishaps =>
            active' = eventMap /\ resumed = <<Join(eventMap)>> /\ eventMap \in Docs
    <3> SUFFICES ASSUME "overtaken" \notin mishaps
                 PROVE  active' = eventMap /\ resumed = <<Join(eventMap)>>
                        /\ eventMap \in Docs
      OBVIOUS
    <3>1. waiting = <<eventMap>> /\ waiting \in Seq(Docs)
      BY <1>6 DEF IInv, HandlersFollow, TypeOK
    <3>2. eventMap \in Docs /\ Last(waiting) = eventMap
      BY <3>1 DEF Last
    <3>3. DOMAIN waiting = 1 .. 1 /\ waiting[1] = eventMap
      BY <3>1
    <3> QED BY <2>1, <3>2, <3>3
  <2>4. InItsRoom'
    <3> SUFFICES ASSUME "overtaken" \notin mishaps PROVE rooms'[s] = {eventMap}
      BY <1>2, <1>6, <2>3, SocketAssumption DEF InItsRoom, Room, IInv, TypeOK
    <3>1. Served({}, buffer[s]) = {}
      BY <1>2, <1>6, <2>1, SocketAssumption DEF IInv, InItsRoom, Room
    <3>2. buffer[s] \in Seq(Messages) /\ <<Join(eventMap)>> \in Seq(Messages)
      <4>1. Join(eventMap) \in Messages
        BY <2>3 DEF Join, Messages
      <4>2. buffer[s] \in Seq(Messages)
        BY DEF IInv, TypeOK
      <4> HIDE DEF resumed
      <4> QED BY <4>1, <4>2
    <3>3. buffer[s] \o <<>> = buffer[s]
      BY <3>2
    <3>4. rooms'[s] = Served({}, buffer[s] \o <<Join(eventMap)>>)
      <4> HIDE DEF resumed
      <4> QED BY <2>2, <2>3, <3>3
    <3>5. Served({}, buffer[s] \o <<Join(eventMap)>>)
            = Served(Served({}, buffer[s]), <<Join(eventMap)>>)
      BY <3>2, ServedInTurn
    <3> QED BY <2>3, <3>1, <3>4, <3>5, ServedJoin
  <2>5. HandlersFollow' /\ PageKnown'
    BY <1>2, <1>6, <2>1, <2>3 DEF IInv, HandlersFollow, PageKnown
  <2> QED BY <1>1, <1>3, <2>4, <2>5 DEF IInv
<1> QED BY <1>4, <1>5, <1>6

LEMMA ConnectErrorKeeps ==
    ASSUME IInv, NEW s \in Sockets, ConnectError(s)
    PROVE  IInv'
<1>1. TypeOK'
  BY DEF ConnectError, IInv, TypeOK, calls
<1>2. Promised' /\ OnlyThePromised' /\ InItsRoom' /\ HandlersFollow' /\ PageKnown'
  BY DEF ConnectError, IInv, Promised, OnlyThePromised, InItsRoom, HandlersFollow,
       PageKnown, OpenSockets, Room, calls
<1> QED BY <1>1, <1>2 DEF IInv

LEMMA DisconnectKeeps ==
    ASSUME IInv, NEW s \in Sockets, Disconnect(s)
    PROVE  IInv'
<1>1. TypeOK'
  BY DEF Disconnect, IInv, TypeOK, calls
<1>2. Promised' /\ OnlyThePromised'
  BY DEF Disconnect, IInv, TypeOK, Promised, OnlyThePromised, OpenSockets, calls
<1>3. InItsRoom'
  <2>1. Served({}, <<>>) = {}
    BY ServedNothing
  <2>2. buffer[s] = <<>>
    BY DEF Disconnect, IInv, Promised
  <2> QED BY <2>1, <2>2 DEF Disconnect, IInv, TypeOK, InItsRoom, Room
<1>4. HandlersFollow' /\ PageKnown'
  BY DEF Disconnect, IInv, HandlersFollow, PageKnown, calls
<1> QED BY <1>1, <1>2, <1>3, <1>4 DEF IInv

LEMMA EventsChangeNothing ==
    ASSUME IInv, events' \in [Sockets -> SUBSET Events],
           \A s \in Sockets : link[s] # "up" => events'[s] = {},
           UNCHANGED <<calls, active, eventMap, socketPromise, openSocket, link, buffer,
                       rooms, mishaps>>
    PROVE  IInv'
<1>1. TypeOK'
  BY DEF IInv, TypeOK, calls
<1>2. Promised' /\ OnlyThePromised' /\ InItsRoom' /\ HandlersFollow' /\ PageKnown'
  BY DEF IInv, Promised, OnlyThePromised, InItsRoom, HandlersFollow, PageKnown,
       OpenSockets, Room, calls
<1> QED BY <1>1, <1>2 DEF IInv

-----------------------------------------------------------------------------
(* The theorems *)

LEMMA Initially == Init => IInv
<1> SUFFICES ASSUME Init PROVE IInv
  OBVIOUS
<1>1. TypeOK
  BY SocketAssumption DEF Init, TypeOK
<1>2. Promised /\ OnlyThePromised /\ InItsRoom /\ HandlersFollow /\ PageKnown
  BY DEF Init, Promised, OnlyThePromised, InItsRoom, HandlersFollow, PageKnown,
       OpenSockets
<1> QED BY <1>1, <1>2 DEF IInv

LEMMA Inductive == IInv /\ [Next]_vars => IInv'
<1> SUFFICES ASSUME IInv, [Next]_vars PROVE IInv'
  OBVIOUS
<1>1. ASSUME NEW d \in Docs, OpenPage(d) PROVE IInv'
  BY <1>1, OpenPageKeeps
<1>2. ASSUME NEW d \in Docs, FetchFails(d) PROVE IInv'
  BY <1>2, FetchFailsKeeps
<1>3. ASSUME NEW d \in Docs, AddMakesSocket(d) PROVE IInv'
  BY <1>3, AddMakesSocketKeeps
<1>4. ASSUME NEW d \in Docs, AddAwaitsSocket(d) PROVE IInv'
  BY <1>4, AddAwaitsSocketKeeps
<1>5. ASSUME NEW d \in Docs, AddNow(d) PROVE IInv'
  BY <1>5, AddNowKeeps
<1>6. CASE LeaveInactive
  BY <1>6, LeaveInactiveKeeps
<1>7. CASE LeaveActive
  BY <1>7, LeaveActiveKeeps
<1>8. CASE LeaveForgotten
  BY <1>8, LeaveForgottenKeeps
<1>9. ASSUME NEW s \in Sockets, Connect(s) PROVE IInv'
  BY <1>9, ConnectKeeps
<1>10. ASSUME NEW s \in Sockets, ConnectError(s) PROVE IInv'
  BY <1>10, ConnectErrorKeeps
<1>11. ASSUME NEW s \in Sockets, Disconnect(s) PROVE IInv'
  BY <1>11, DisconnectKeeps
<1>12. ASSUME NEW s \in Sockets, NEW d \in Docs, SendEvent(s, d) PROVE IInv'
  <2>1. [doc |-> d, old |-> FALSE] \in Events
    BY DEF Events
  <2>2. link[s] = "up"
    BY <1>12 DEF SendEvent, IInv, TypeOK
  <2>3. /\ events' \in [Sockets -> SUBSET Events]
        /\ \A q \in Sockets : link[q] # "up" => events'[q] = {}
    BY <1>12, <2>1, <2>2 DEF SendEvent, IInv, TypeOK
  <2> QED BY <1>12, <2>3, EventsChangeNothing DEF SendEvent
<1>13. ASSUME NEW s \in Sockets, NEW e \in events[s], ReceiveEvent(s, e) PROVE IInv'
  BY <1>13, EventsChangeNothing DEF ReceiveEvent, IInv, TypeOK
<1>14. CASE UNCHANGED vars
  BY <1>14 DEF vars, calls, socketVars, IInv, TypeOK, Promised, OnlyThePromised,
       InItsRoom, HandlersFollow, PageKnown, OpenSockets, Room
<1> QED BY <1>1, <1>2, <1>3, <1>4, <1>5, <1>6, <1>7, <1>8, <1>9, <1>10, <1>11,
           <1>12, <1>13, <1>14 DEF Next

LEMMA Invariant == Spec => []IInv
BY Initially, Inductive, PTL DEF Spec

\* Whatever connections are lost, made again or refused, and whatever documents
\* the reader goes to, a tab holds one socket, unless it left a document when
\* the manager had forgotten the socket.
THEOREM OneSocketAtATime == Spec => []OneSocket
<1>1. IInv => OneSocket
  <2> SUFFICES ASSUME IInv, "leaked" \notin mishaps
               PROVE  Cardinality(OpenSockets) <= 1
    BY DEF OneSocket
  <2>1. OpenSockets = {} \/ OpenSockets = {socketPromise}
    BY DEF IInv, OnlyThePromised, OpenSockets
  <2>2. Cardinality(OpenSockets) \in {0, 1}
    BY <2>1, FS_EmptySet, FS_Singleton
  <2> QED BY <2>2
<1> QED BY <1>1, Invariant, PTL

\* Once the fetches are answered and the connection stands, the tab is in the
\* room of the document that it shows and in no other, and it has that
\* document's handlers: however many documents were opened and connections lost
\* on the way, if no answer came after the reader had gone on.
THEOREM PageIsFollowed == Spec => []FollowsThePage
<1>1. IInv => FollowsThePage
  <2> SUFFICES ASSUME IInv, mishaps \cap {"overtaken", "failed"} = {}, Settled
               PROVE  Followed
    BY DEF FollowsThePage
  <2>1. CASE page = None
    <3>1. active = None
      BY <2>1 DEF IInv, PageKnown
    <3>2. ASSUME "leaked" \notin mishaps, NEW s \in Sockets
          PROVE  rooms[s] = {}
      <4>1. CASE s \in OpenSockets
        <5>1. s = socketPromise /\ s # None
          BY <3>2, <4>1, SocketAssumption DEF IInv, OnlyThePromised
        <5> QED BY <3>1, <5>1 DEF IInv, InItsRoom, Room, Settled
      <4>2. CASE s \notin OpenSockets
        BY <4>2 DEF IInv, TypeOK, OpenSockets
      <4> QED BY <4>1, <4>2
    <3> QED BY <2>1, <3>2 DEF Followed
  <2>2. CASE page # None
    <3>1. eventMap = page /\ active = page
      BY <2>2 DEF IInv, PageKnown, Settled
    <3>2. socketPromise # None /\ link[socketPromise] = "up"
      BY <2>2, <3>1 DEF IInv, TypeOK, Settled
    <3>3. rooms[socketPromise] = {page}
      BY <2>2, <3>1, <3>2 DEF IInv, InItsRoom, Room
    <3> QED BY <2>2, <3>1, <3>3 DEF Followed
  <2> QED BY <2>1, <2>2
<1> QED BY <1>1, Invariant, PTL

\* The server sends the tab the events of the document whose handlers it has.
LEMMA RoomsAreHandled ==
    ASSUME IInv, mishaps \cap {"overtaken", "leaked"} = {}, NEW s \in Sockets
    PROVE  rooms[s] \subseteq {eventMap}
<1>1. CASE link[s] = "up"
  <2>1. s = socketPromise /\ s # None
    BY <1>1, SocketAssumption DEF IInv, OnlyThePromised, OpenSockets
  <2> QED BY <1>1, <2>1 DEF IInv, InItsRoom, HandlersFollow, Room
<1>2. CASE link[s] # "up"
  BY <1>2 DEF IInv, TypeOK
<1> QED BY <1>1, <1>2

LEMMA EventsStayRight ==
    ASSUME IInv, IInv', EventsFindTheirDocument, [Next]_vars
    PROVE  EventsFindTheirDocument'
<1> SUFFICES ASSUME mishaps' \cap {"overtaken", "leaked"} = {},
                    NEW s \in Sockets, NEW e \in events'[s]
             PROVE  e.old \/ e.doc = eventMap'
  BY DEF EventsFindTheirDocument
<1>1. mishaps \subseteq mishaps'
  BY DEF Next, vars, OpenPage, FetchFails, AddMakesSocket, AddAwaitsSocket, AddNow,
     Fetched, LeaveInactive, LeaveActive, LeaveForgotten, Connect, ConnectError,
     Disconnect, SendEvent, ReceiveEvent, Mishap
<1>2. \A f \in events[s] : f.old \/ f.doc = eventMap
  BY <1>1 DEF EventsFindTheirDocument
<1>3. ASSUME NEW d \in Docs, Fetched(d)
      PROVE  e.old
  <2>1. events' = Outdated
    BY <1>3 DEF Fetched
  <2>2. e \in {[f EXCEPT !.old = TRUE] : f \in events[s]}
    BY <2>1 DEF Outdated
  <2>3. PICK f \in events[s] : e = [f EXCEPT !.old = TRUE]
    BY <2>2
  <2>4. f \in Events
    BY DEF IInv, TypeOK
  <2> QED BY <2>3, <2>4 DEF Events
<1>4. ASSUME NEW q \in Sockets, NEW d \in Docs, SendEvent(q, d)
      PROVE  e.old \/ e.doc = eventMap'
  <2>1. d \in {eventMap} /\ eventMap' = eventMap
    BY <1>1, <1>4, RoomsAreHandled DEF SendEvent
  <2>2. e \in events[s] \/ e = [doc |-> d, old |-> FALSE]
    BY <1>4 DEF SendEvent, IInv, TypeOK
  <2> QED BY <1>2, <2>1, <2>2
<1>5. ASSUME events'[s] \subseteq events[s], eventMap' = eventMap
      PROVE  e.old \/ e.doc = eventMap'
  BY <1>2, <1>5
<1>6. ASSUME NEW q \in Sockets, NEW f \in events[q], ReceiveEvent(q, f)
      PROVE  events'[s] \subseteq events[s] /\ eventMap' = eventMap
  BY <1>6 DEF ReceiveEvent, IInv, TypeOK
<1>7. ASSUME LeaveActive \/ \E q \in Sockets : Disconnect(q)
      PROVE  events'[s] \subseteq events[s] /\ eventMap' = eventMap
  BY <1>7 DEF LeaveActive, Disconnect, IInv, TypeOK
<1>8. ASSUME \/ \E d \in Docs : OpenPage(d) \/ FetchFails(d)
             \/ LeaveInactive \/ LeaveForgotten
             \/ \E q \in Sockets : Connect(q) \/ ConnectError(q)
             \/ UNCHANGED vars
      PROVE  events'[s] \subseteq events[s] /\ eventMap' = eventMap
  BY <1>8 DEF OpenPage, FetchFails, LeaveInactive, LeaveForgotten, Connect, ConnectError,
     vars, socketVars
<1> QED
  BY <1>3, <1>4, <1>5, <1>6, <1>7, <1>8
     DEF Next, AddMakesSocket, AddAwaitsSocket, AddNow

\* At every moment, and not only once everything settled, an event that reaches
\* the tab is one of the document whose handlers it has, or was under way when
\* they were replaced.
THEOREM EventsAreHandedRight == Spec => []EventsFindTheirDocument
<1>1. Init => EventsFindTheirDocument
  BY DEF Init, EventsFindTheirDocument
<1> QED BY <1>1, EventsStayRight, Invariant, PTL DEF Spec

=============================================================================
