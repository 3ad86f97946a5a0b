------------------------- MODULE QueryClient_proofs -------------------------
(***************************************************************************)
(* QueryClient for any tabs and any number of statements.  The invariant   *)
(* follows what a tab is sent: the rows and statements on their way to it  *)
(* are all older than the row; a statement is never older than what came   *)
(* before it; and, for a tab that did not join its room too late, each     *)
(* statement is the one it knows already or the next one.                  *)
(***************************************************************************)
EXTENDS QueryClient, SequenceTheorems, TLAPS

\* The number of statements that an event is about.
Count(e) == IF e.type = "query" THEN e.row.statements ELSE e.index

\* The server has heard of the tab since its connection was made.
Subscribing(t) == subscribed[t] \/ handling[t] # None \/ t \in room

\* Listening and being subscribed go together, and nothing comes before the
\* first copy.
LinkedAt(t) ==
    /\ listening[t] = "waiting" => link[t] = "connecting"
    /\ Subscribing(t) <=> listening[t] = "yes" /\ link[t] = "up"
    /\ shown[t] = None => inbox[t] = <<>>
    /\ get[t] # None => shown[t] = None
    /\ mounted[t] /\ shown[t] # None /\ shown[t].status <= RUNNING =>
          listening[t] # "no"

\* An execution that waits for its review is not listened to.
StartedAt(t) ==
    row.status = PENDING_REVIEW =>
        /\ listening[t] = "no"
        /\ get[t] \notin {None, Asked} => get[t].status = PENDING_REVIEW
        /\ shown[t] # None => shown[t].status = PENDING_REVIEW

\* A row that was read of an execution under way, earlier or now.
Earlier(r) ==
    /\ PENDING_REVIEW \notin {r.status, row.status}
    /\ r.status = DONE => row.status = DONE
    /\ r.statements <= row.statements

\* The events on their way, each with those before it and after it.
StreamAt(t) ==
    /\ handling[t] # None => Earlier(handling[t].row)
    /\ \A p \in DOMAIN inbox[t] :
          LET e == inbox[t][p]
          IN  /\ e.type = "query" =>
                    /\ Earlier(e.row)
                    /\ e.row.status = DONE =>
                          \A q \in DOMAIN inbox[t] : p < q => inbox[t][q].type = "query"
              /\ e.type = "statement" =>
                    /\ e.index <= row.statements
                    /\ \A q \in DOMAIN inbox[t] : q <= p => Count(inbox[t][q]) <= e.index

\* What the page lists is in order, and older than what is on its way.
ListedAt(t) ==
    /\ get[t] \notin {None, Asked} => get[t].statements <= row.statements
    /\ shown[t] # None =>
          LET s == shown[t].statements
          IN  /\ \A i, j \in DOMAIN s : i < j => s[i] < s[j]
              /\ \A i \in DOMAIN s :
                    /\ s[i] <= row.statements
                    /\ \A p \in DOMAIN inbox[t] :
                          inbox[t][p].type = "statement" => s[i] <= inbox[t][p].index

\* The number of statements that a tab in the room has to know.
Current(n) ==
    \/ n = row.statements
    \/ unsent # None /\ unsent = Statement(row.statements) /\ n = row.statements - 1

\* The number of statements that the tab knows when the p-th event arrives.
Before(t, p) ==
    IF p = 1 THEN Len(shown[t].statements) ELSE Count(inbox[t][p - 1])

NoGapAt(t) ==
    /\ handling[t] # None /\ ~handling[t].missed => Current(handling[t].row.statements)
    /\ t \notin late /\ shown[t] # None =>
          /\ shown[t].statements = [i \in 1 .. Len(shown[t].statements) |-> i]
          /\ \A p \in DOMAIN inbox[t] : inbox[t][p].type = "statement" =>
                inbox[t][p].index \in {Before(t, p), Before(t, p) + 1}
          /\ t \in room => Current(Before(t, Len(inbox[t]) + 1))

AtTab(t) == LinkedAt(t) /\ StartedAt(t) /\ StreamAt(t) /\ ListedAt(t) /\ NoGapAt(t)

\* The event that is not out yet is of the row as it is.
Unsent ==
    /\ row.status # RUNNING => ended = row.statements
    /\ unsent # None /\ unsent.type = "query" =>
          unsent.row = row /\ row.status # PENDING_REVIEW
    /\ unsent # None /\ unsent.type = "statement" =>
          unsent.index = row.statements /\ row.status = RUNNING

IInv == TypeOK /\ Unsent /\ \A t \in Tabs : AtTab(t)

-----------------------------------------------------------------------------
(* Events and rows *)

LEMMA EventParts ==
    ASSUME NEW e \in Events
    PROVE  \/ e.type = "query" /\ e.row \in Rows /\ e = Query(e.row)
           \/ /\ e.type = "statement" /\ e.index \in 1 .. NumStatements
              /\ e = Statement(e.index)
BY DEF Events, Query, Statement

LEMMA QueryEvent ==
    ASSUME NEW r \in Rows
    PROVE  /\ Query(r) \in Events /\ Query(r) # None
           /\ Query(r).type = "query" /\ Query(r).row = r
           /\ Count(Query(r)) = r.statements
BY ClientAssumption DEF Events, Query, Count

LEMMA StatementEvent ==
    ASSUME NEW i \in 1 .. NumStatements
    PROVE  /\ Statement(i) \in Events /\ Statement(i) # None
           /\ Statement(i).type = "statement" /\ Statement(i).index = i
           /\ Count(Statement(i)) = i
BY ClientAssumption DEF Events, Statement, Count

LEMMA CountType ==
    ASSUME NEW e \in Events
    PROVE  Count(e) \in 0 .. NumStatements
BY EventParts, ClientAssumption DEF Count, Rows

LEMMA CopyType ==
    ASSUME NEW r \in Rows
    PROVE  /\ Copy(r) \in Copies /\ Copy(r) # None
           /\ Copy(r).status = r.status
           /\ Len(Copy(r).statements) = r.statements
           /\ DOMAIN Copy(r).statements = 1 .. r.statements
           /\ Copy(r).statements = [i \in 1 .. r.statements |-> i]
<1> DEFINE s == [i \in 1 .. r.statements |-> i]
<1>1. r.statements \in 0 .. NumStatements /\ r.status \in Statuses /\ NumStatements \in Nat
  BY ClientAssumption DEF Rows
<1>2. s \in Seq(1 .. NumStatements) /\ Len(s) = r.statements
  BY <1>1
<1>3. Copy(r) = [status |-> r.status, statements |-> s]
  BY DEF Copy
<1> HIDE DEF s
<1>4. Copy(r) \in Copies
  BY <1>1, <1>2, <1>3 DEF Copies
<1>5. Copy(r) # None
  BY <1>4, ClientAssumption
<1>6. Copy(r).status = r.status /\ Copy(r).statements = s
  BY <1>3
<1>7. s = [i \in 1 .. r.statements |-> i] /\ DOMAIN s = 1 .. r.statements
  BY DEF s
<1> QED BY <1>2, <1>4, <1>5, <1>6, <1>7

-----------------------------------------------------------------------------
(* Tabs that a step does not concern *)

Same(t) ==
    /\ mounted'[t] = mounted[t] /\ shown'[t] = shown[t] /\ get'[t] = get[t]
    /\ listening'[t] = listening[t] /\ link'[t] = link[t]
    /\ subscribed'[t] = subscribed[t] /\ handling'[t] = handling[t]
    /\ (t \in room') = (t \in room) /\ inbox'[t] = inbox[t]
    /\ (t \in late') = (t \in late)

LEMMA SameTab ==
    ASSUME NEW t, AtTab(t), Same(t), UNCHANGED <<row, unsent>>
    PROVE  AtTab(t)'
<1>1. LinkedAt(t)' /\ StartedAt(t)'
  BY DEF AtTab, Same, LinkedAt, StartedAt, Subscribing
<1>2. StreamAt(t)'
  BY DEF AtTab, Same, StreamAt, Earlier, Count
<1>3. ListedAt(t)'
  BY DEF AtTab, Same, ListedAt
<1>4. NoGapAt(t)'
  BY DEF AtTab, Same, NoGapAt, Current, Before, Count
<1> QED BY <1>1, <1>2, <1>3, <1>4 DEF AtTab

\* The step of one tab.
LEMMA OneTab ==
    ASSUME IInv, UNCHANGED workerVars, NEW t \in Tabs, TypeOK', AtTab(t)',
           \A u \in Tabs \ {t} : Same(u)
    PROVE  IInv'
<1>1. Unsent'
  BY DEF IInv, Unsent, workerVars
<1>2. \A u \in Tabs : AtTab(u)'
  BY SameTab DEF IInv, workerVars
<1> QED BY <1>1, <1>2 DEF IInv

-----------------------------------------------------------------------------
(* What the page asks for *)

LEMMA PollFacts ==
    ASSUME TypeOK, NEW t \in Tabs, LinkedAt(t), NEW polls \in BOOLEAN, Poll(t, polls)
    PROVE  /\ listening' \in [Tabs -> {"no", "waiting", "yes"}]
           /\ link' \in [Tabs -> {"closed", "connecting", "up", "down"}]
           /\ subscribed' \in [Tabs -> BOOLEAN]
           /\ \A u \in Tabs \ {t} : /\ listening'[u] = listening[u]
                                    /\ link'[u] = link[u]
                                    /\ subscribed'[u] = subscribed[u]
           /\ polls \/ listening[t] # "no" <=> listening'[t] # "no"
           /\ listening'[t] # "no" => link'[t] # "closed"
           /\ listening'[t] = "waiting" => link'[t] = "connecting"
           /\ subscribed'[t] \/ handling[t] # None \/ t \in room
                 <=> listening'[t] = "yes" /\ link'[t] = "up"
           /\ link[t] = "up" => link'[t] = "up"
<1>1. CASE ~polls \/ listening[t] = "yes"
  BY <1>1 DEF Poll, TypeOK, LinkedAt, Subscribing, socketVars
<1>2. CASE polls /\ listening[t] # "yes"
  <2>1. /\ link' = [link EXCEPT ![t] = IF @ = "closed" THEN "connecting" ELSE @]
        /\ listening' = [listening EXCEPT ![t] =
                            IF link[t] \in {"up", "down"} THEN "yes" ELSE "waiting"]
        /\ subscribed' = [subscribed EXCEPT ![t] = @ \/ link[t] = "up"]
    BY <1>2 DEF Poll
  <2>2. subscribed' \in [Tabs -> BOOLEAN] /\ subscribed'[t] = (link[t] = "up")
        /\ \A u \in Tabs \ {t} : subscribed'[u] = subscribed[u]
    BY <1>2, <2>1 DEF TypeOK, LinkedAt, Subscribing
  <2>3. handling[t] = None /\ t \notin room
    BY <1>2 DEF LinkedAt, Subscribing
  <2>4. /\ listening' \in [Tabs -> {"no", "waiting", "yes"}]
        /\ link' \in [Tabs -> {"closed", "connecting", "up", "down"}]
        /\ \A u \in Tabs \ {t} : listening'[u] = listening[u] /\ link'[u] = link[u]
        /\ listening'[t] = IF link[t] \in {"up", "down"} THEN "yes" ELSE "waiting"
        /\ link'[t] = IF link[t] = "closed" THEN "connecting" ELSE link[t]
        /\ link[t] \in {"closed", "connecting", "up", "down"}
    BY <2>1 DEF TypeOK
  <2> QED BY <1>2, <2>2, <2>3, <2>4
<1> QED BY <1>1, <1>2

-----------------------------------------------------------------------------
(* The worker *)

\* A commit is of a row that is further on, and its event is about that row.
LEMMA CommitKeeps ==
    ASSUME IInv, NEW r \in Rows, NEW e \in Events \cup {None}, Commit(r, e),
           r.status # PENDING_REVIEW, row.status = DONE => r.status = DONE,
           \/ r.statements = row.statements
           \/ r.statements = row.statements + 1 /\ e = Statement(r.statements),
           ended' \in 0 .. r.statements, r.status # RUNNING => ended' = r.statements,
           e # None /\ e.type = "query" => e.row = r,
           e # None /\ e.type = "statement" => e.index = r.statements /\ r.status = RUNNING
    PROVE  IInv'
<1>1. /\ row' = r /\ unsent' = e /\ unsent = None
      /\ UNCHANGED <<pageVars, socketVars, serverVars, inbox, losses, late>>
  BY DEF Commit
<1>2. TypeOK'
  BY <1>1 DEF IInv, TypeOK, pageVars, socketVars, serverVars
<1>3. Unsent'
  BY <1>1 DEF Unsent
<1>4. r.statements \in Nat /\ row.statements \in Nat /\ row.statements <= r.statements
  BY ClientAssumption DEF Rows, IInv, TypeOK
<1>5. ASSUME NEW t \in Tabs
      PROVE  AtTab(t)'
  <2>1. AtTab(t) /\ Same(t)
    BY <1>1 DEF IInv, Same, pageVars, socketVars, serverVars
  <2>2. LinkedAt(t)' /\ StartedAt(t)'
    BY <1>1, <2>1 DEF AtTab, Same, LinkedAt, StartedAt, Subscribing
  <2>3. ASSUME NEW x \in Rows, Earlier(x)
        PROVE  Earlier(x)'
    <3>1. x.statements \in Nat
      BY ClientAssumption DEF Rows
    <3> QED BY <1>1, <1>4, <2>3, <3>1 DEF Earlier
  <2>4. /\ handling[t] # None => handling[t].row \in Rows
        /\ \A p \in DOMAIN inbox[t] : inbox[t][p] \in Events
    BY DEF IInv, TypeOK, Handlings
  <2>5. \A p \in DOMAIN inbox[t] :
            /\ inbox[t][p].type = "query" => inbox[t][p].row \in Rows
            /\ inbox[t][p].type = "statement" => inbox[t][p].index \in Nat
    BY <2>4, EventParts, ClientAssumption
  <2>6. StreamAt(t)'
    BY <1>1, <1>4, <2>1, <2>3, <2>4, <2>5 DEF AtTab, Same, StreamAt, Count
  <2>7. ListedAt(t)'
    <3>1. get[t] \notin {None, Asked} => get[t].statements \in Nat
      BY ClientAssumption DEF IInv, TypeOK, Rows
    <3>2. shown[t] # None =>
              \A i \in DOMAIN shown[t].statements : shown[t].statements[i] \in Nat
      BY ClientAssumption DEF IInv, TypeOK, Copies
    <3> QED BY <1>1, <1>4, <2>1, <3>1, <3>2 DEF AtTab, Same, ListedAt
  <2>8. NoGapAt(t)'
    <3>1. \A n : Current(n) => Current(n)'
      <4> SUFFICES ASSUME NEW n, Current(n) PROVE Current(n)'
        OBVIOUS
      <4>1. n = row.statements
        BY <1>1 DEF Current
      <4>2. r.statements = row.statements + 1 /\ e = Statement(r.statements) => e # None
        BY <1>4, StatementEvent, ClientAssumption DEF Rows
      <4> QED BY <1>1, <1>4, <4>1, <4>2 DEF Current
    <3>2. /\ handling'[t] = handling[t] /\ shown'[t] = shown[t] /\ inbox'[t] = inbox[t]
          /\ room' = room /\ late' = late
      BY <1>1, <2>1 DEF Same, serverVars
    <3>3. \A p : Before(t, p)' = Before(t, p)
      BY <3>2 DEF Before, Count
    <3> QED BY <2>1, <3>1, <3>2, <3>3 DEF AtTab, NoGapAt
  <2> QED BY <2>2, <2>6, <2>7, <2>8 DEF AtTab
<1> QED BY <1>2, <1>3, <1>5 DEF IInv

\* The worker's own steps.
LEMMA WorkerKeeps ==
    ASSUME IInv, WorkerStep
    PROVE  IInv'
<1> USE DEF INITIALIZED, RUNNING, DONE, PENDING_REVIEW
<1>1. /\ row \in Rows /\ row.status \in Statuses /\ NumStatements \in Nat
      /\ row.statements \in 0 .. NumStatements
      /\ row = [status |-> row.status, statements |-> row.statements]
      /\ ended \in 0 .. row.statements
      /\ row.status # RUNNING => ended = row.statements
  BY ClientAssumption DEF IInv, TypeOK, Unsent, Rows
<1> DEFINE r(s, n) == [status |-> s, statements |-> n]
<1>2. ASSUME NEW s \in Statuses
      PROVE  /\ r(s, row.statements) \in Rows
             /\ [row EXCEPT !.status = s] = r(s, row.statements)
  BY <1>1 DEF Rows
<1>3. {INITIALIZED, RUNNING, DONE} \subseteq Statuses
  BY DEF Statuses
<1>4. CASE Approve
  <2>1. Commit(r(INITIALIZED, row.statements), None) /\ ended' = ended
    BY <1>2, <1>3, <1>4 DEF Approve
  <2> QED BY <1>1, <1>2, <1>3, <1>4, <2>1, CommitKeeps DEF Approve
<1>5. CASE QueryStart
  <2>1. /\ Commit(r(RUNNING, row.statements), Query(r(RUNNING, row.statements)))
        /\ ended' = ended
    BY <1>2, <1>3, <1>5 DEF QueryStart
  <2> QED BY <1>1, <1>2, <1>3, <1>5, <2>1, CommitKeeps, QueryEvent DEF QueryStart
<1>6. CASE StatementStart
  <2>1. /\ [row EXCEPT !.statements = @ + 1] = r(RUNNING, row.statements + 1)
        /\ r(RUNNING, row.statements + 1) \in Rows
        /\ row.statements + 1 \in 1 .. NumStatements
    BY <1>1, <1>3, <1>6 DEF StatementStart, Rows
  <2>2. /\ Commit(r(RUNNING, row.statements + 1), Statement(row.statements + 1))
        /\ ended' = ended
    BY <1>6, <2>1 DEF StatementStart
  <2>3. ended' \in 0 .. row.statements + 1
    BY <1>1, <2>2
  <2> QED BY <1>1, <1>6, <2>1, <2>2, <2>3, CommitKeeps, StatementEvent DEF StatementStart
<1>7. CASE StatementEnd
  <2>1. Commit(row, Statement(row.statements)) /\ ended' = row.statements
        /\ row.statements \in 1 .. NumStatements /\ row.status = RUNNING
    BY <1>1, <1>7 DEF StatementEnd
  <2> QED BY <1>1, <2>1, CommitKeeps, StatementEvent
<1>8. CASE QueryEnd
  <2>1. /\ Commit(r(DONE, row.statements), Query(r(DONE, row.statements)))
        /\ ended' = ended /\ ended = row.statements
    BY <1>1, <1>2, <1>3, <1>8 DEF QueryEnd
  <2> QED BY <1>1, <1>2, <1>3, <1>8, <2>1, CommitKeeps, QueryEvent DEF QueryEnd
<1> QED BY <1>4, <1>5, <1>6, <1>7, <1>8 DEF WorkerStep

-----------------------------------------------------------------------------
(* What is sent to a tab *)

\* One more event: a row read of the execution, or the last statement.
LEMMA AppendKeeps ==
    ASSUME IInv, NEW t \in Tabs, NEW e \in Events, row' = row, shown[t] # None,
           inbox'[t] = Append(inbox[t], e), shown'[t] = shown[t], get'[t] = get[t],
           t \in late => t \in late',
           handling'[t] # None =>
               /\ handling[t] # None /\ handling'[t].row = handling[t].row
               /\ ~handling'[t].missed => Current(handling[t].row.statements)',
           e.type = "query" => Earlier(e.row),
           e.type = "statement" => e.index = row.statements /\ row.status = RUNNING,
           t \notin late' =>
               /\ Current(Count(e))'
               /\ e.type = "statement" =>
                      e.index \in {Before(t, Len(inbox[t]) + 1),
                                   Before(t, Len(inbox[t]) + 1) + 1}
    PROVE  StreamAt(t)' /\ ListedAt(t)' /\ NoGapAt(t)'
<1> DEFINE s == inbox[t]
<1>0. PICK L \in Nat : Len(s) = L
  BY DEF IInv, TypeOK
<1>1. /\ s \in Seq(Events) /\ L \in Nat /\ DOMAIN s = 1 .. L
      /\ \A p \in DOMAIN s : s[p] \in Events
  BY <1>0 DEF IInv, TypeOK
<1>2. /\ inbox'[t] \in Seq(Events) /\ Len(inbox'[t]) = L + 1
      /\ DOMAIN inbox'[t] = 1 .. L + 1
      /\ \A p \in 1 .. L : inbox'[t][p] = s[p]
      /\ inbox'[t][L + 1] = e
  BY <1>1
<1>3. \A p \in 1 .. L + 1 : p = L + 1 \/ p \in 1 .. L
  BY <1>0
<1>4. AtTab(t)
  BY DEF IInv
<1>5. row.statements \in Nat /\ row.status \in Statuses
  BY ClientAssumption DEF IInv, TypeOK, Rows
<1> HIDE DEF s
<1>6. \A p \in 1 .. L : /\ Count(s[p]) \in Nat
                        /\ s[p].type \in {"query", "statement"}
  BY <1>1, CountType, EventParts, ClientAssumption
<1>7. \A p \in 1 .. L : Count(s[p]) <= row.statements
  BY <1>1, <1>4 DEF AtTab, StreamAt, Count, Earlier, Events, s
<1>8. \/ e.type = "query"
      \/ e.type = "statement" /\ Count(e) = e.index /\ e.index \in Nat
  BY EventParts, ClientAssumption DEF Count
<1>9. ASSUME NEW r, Earlier(r)
      PROVE  Earlier(r)'
  BY <1>9 DEF Earlier
<1>10. StreamAt(t)'
  <2>1. handling'[t] # None => Earlier(handling[t].row)'
    BY <1>4, <1>9 DEF AtTab, StreamAt
  <2>2. ASSUME NEW p \in 1 .. L + 1, inbox'[t][p].type = "query"
        PROVE  /\ Earlier(inbox[t][p].row)'
               /\ inbox'[t][p].row.status = DONE =>
                     \A q \in 1 .. L + 1 : p < q => inbox'[t][q].type = "query"
    <3>1. CASE p = L + 1
      BY <1>1, <1>2, <1>9, <2>2, <3>1
    <3>2. CASE p \in 1 .. L
      <4>1. Earlier(s[p].row)
        BY <1>1, <1>2, <1>4, <2>2, <3>2 DEF AtTab, StreamAt, s
      <4>2. s[p].row.status = DONE => \A q \in 1 .. L : p < q => s[q].type = "query"
        BY <1>1, <1>2, <1>4, <2>2, <3>2 DEF AtTab, StreamAt, s
      <4>3. s[p].row.status = DONE => e.type = "query"
        BY <1>8, <4>1 DEF Earlier, DONE, RUNNING
      <4> QED BY <1>1, <1>2, <1>9, <3>2, <4>1, <4>2, <4>3
    <3> QED BY <1>3, <3>1, <3>2
  <2>3. ASSUME NEW p \in 1 .. L + 1, inbox'[t][p].type = "statement"
        PROVE  /\ inbox'[t][p].index <= row.statements
               /\ \A q \in 1 .. L + 1 : q <= p => Count(inbox'[t][q]) <= inbox'[t][p].index
    <3>1. CASE p = L + 1
      <4>1. e.type = "statement" /\ e.index = row.statements /\ Count(e) = row.statements
        BY <1>2, <1>8, <2>3, <3>1
      <4>2. ASSUME NEW q \in 1 .. L + 1
            PROVE  Count(inbox'[t][q]) <= row.statements
        <5>1. CASE q \in 1 .. L
          BY <1>2, <1>7, <5>1
        <5>2. CASE q = L + 1
          BY <1>2, <1>5, <4>1, <5>2
        <5> QED BY <1>3, <5>1, <5>2
      <4> QED BY <1>2, <1>5, <3>1, <4>1, <4>2
    <3>2. CASE p \in 1 .. L
      <4>1. /\ s[p].index <= row.statements
            /\ \A q \in 1 .. L : q <= p => Count(s[q]) <= s[p].index
        BY <1>1, <1>2, <1>4, <2>3, <3>2 DEF AtTab, StreamAt, s
      <4>2. \A q \in 1 .. L + 1 : q <= p => q \in 1 .. L
        BY <1>1, <3>2
      <4> QED BY <1>2, <3>2, <4>1, <4>2
    <3> QED BY <1>3, <3>1, <3>2
  <2>4. /\ \A p \in 1 .. L + 1 : inbox'[t][p].type = "query" =>
               /\ Earlier(inbox[t][p].row)'
               /\ inbox'[t][p].row.status = DONE =>
                     \A q \in 1 .. L + 1 : p < q => inbox'[t][q].type = "query"
        /\ \A p \in 1 .. L + 1 : inbox'[t][p].type = "statement" =>
               /\ inbox'[t][p].index <= row'.statements
               /\ \A q \in 1 .. L + 1 : q <= p => Count(inbox'[t][q]) <= inbox'[t][p].index
    BY <2>2, <2>3
  <2> QED BY <1>2, <2>1, <2>4 DEF StreamAt, Count
<1>11. ListedAt(t)'
  <2>1. \A i \in DOMAIN shown[t].statements : shown[t].statements[i] <= row.statements
    BY <1>4 DEF AtTab, ListedAt
  <2>2. ASSUME NEW i \in DOMAIN shown[t].statements, NEW p \in 1 .. L + 1,
               inbox'[t][p].type = "statement"
        PROVE  shown[t].statements[i] <= inbox'[t][p].index
    <3>1. CASE p = L + 1
      BY <1>2, <2>1, <2>2, <3>1
    <3>2. CASE p \in 1 .. L
      BY <1>1, <1>2, <1>4, <2>2, <3>2 DEF AtTab, ListedAt, s
    <3> QED BY <1>3, <3>1, <3>2
  <2> QED BY <1>2, <1>4, <2>1, <2>2 DEF AtTab, ListedAt
<1>12. NoGapAt(t)'
  <2> SUFFICES ASSUME t \notin late'
      PROVE  /\ shown[t].statements = [i \in 1 .. Len(shown[t].statements) |-> i]
             /\ \A p \in 1 .. L + 1 : inbox'[t][p].type = "statement" =>
                   inbox'[t][p].index \in {Before(t, p)', Before(t, p)' + 1}
             /\ Current(Before(t, L + 2))'
    <3>1. L + 1 + 1 = L + 2
      BY <1>1
    <3> QED BY <1>2, <3>1 DEF NoGapAt
  <2>1. /\ shown[t].statements = [i \in 1 .. Len(shown[t].statements) |-> i]
        /\ \A p \in 1 .. L : s[p].type = "statement" =>
              s[p].index \in {Before(t, p), Before(t, p) + 1}
    BY <1>1, <1>4 DEF AtTab, NoGapAt, s
  <2>2. \A p \in 1 .. L + 1 : Before(t, p)' = Before(t, p)
    <3> SUFFICES ASSUME NEW p \in 1 .. L + 1 PROVE Before(t, p)' = Before(t, p)
      OBVIOUS
    <3>1. p = 1 \/ p - 1 \in 1 .. L
      BY <1>1
    <3> QED BY <1>2, <3>1 DEF Before, Count, s
  <2>3. Before(t, L + 2)' = Count(e)
    <3>1. L + 2 # 1 /\ L + 2 - 1 = L + 1
      BY <1>1
    <3> QED BY <1>2, <3>1 DEF Before, Count
  <2>4. ASSUME NEW p \in 1 .. L + 1, inbox'[t][p].type = "statement"
        PROVE  inbox'[t][p].index \in {Before(t, p), Before(t, p) + 1}
    <3>1. CASE p = L + 1
      BY <1>0, <1>2, <2>4, <3>1 DEF s
    <3>2. CASE p \in 1 .. L
      BY <1>2, <2>1, <2>4, <3>2
    <3> QED BY <1>3, <3>1, <3>2
  <2> QED BY <2>1, <2>2, <2>3, <2>4
<1> QED BY <1>10, <1>11, <1>12

\* One event handled: what the page lists then is what that event knows of.
LEMMA TailKeeps ==
    ASSUME IInv, NEW t \in Tabs, UNCHANGED <<row, unsent>>, inbox[t] # <<>>,
           inbox'[t] = Tail(inbox[t]), get'[t] = None,
           handling'[t] \in {None, handling[t]}, t \in room' => t \in room,
           NEW s \in Seq(1 .. NumStatements), shown'[t].statements = s,
           \A i, j \in DOMAIN s : i < j => s[i] < s[j],
           \A i \in DOMAIN s : s[i] <= Count(Head(inbox[t])),
           t \notin late' =>
               /\ s = [i \in 1 .. Len(s) |-> i]
               /\ Len(s) = Count(Head(inbox[t]))
               /\ \/ t \notin late
                  \/ /\ t \notin room'
                     /\ \A p \in DOMAIN inbox[t] : p > 1 => inbox[t][p].type # "statement"
    PROVE  StreamAt(t)' /\ ListedAt(t)' /\ NoGapAt(t)'
<1> DEFINE b == inbox[t]
<1>0. PICK L \in Nat \ {0} : Len(b) = L
  <2>1. b \in Seq(Events)
    BY DEF IInv, TypeOK
  <2>2. Len(b) \in Nat /\ Len(b) # 0
    BY <2>1
  <2> QED BY <2>2
<1>1. b \in Seq(Events) /\ DOMAIN b = 1 .. L /\ \A p \in 1 .. L : b[p] \in Events
  BY <1>0 DEF IInv, TypeOK
<1>2. /\ inbox'[t] \in Seq(Events) /\ Len(inbox'[t]) = L - 1
      /\ DOMAIN inbox'[t] = 1 .. L - 1
      /\ \A p \in 1 .. L - 1 : inbox'[t][p] = b[p + 1]
      /\ Head(b) = b[1] /\ 1 \in 1 .. L
  BY <1>0, <1>1
<1>3. AtTab(t)
  BY DEF IInv
<1>4. row.statements \in Nat
  BY ClientAssumption DEF IInv, TypeOK, Rows
<1> HIDE DEF b
<1>5. \A p \in 1 .. L : /\ Count(b[p]) \in Nat
                        /\ b[p].type = "statement" => Count(b[p]) = b[p].index
                        /\ b[p].type \in {"query", "statement"}
  BY <1>1, CountType, EventParts, ClientAssumption DEF Count
<1>6. /\ \A p \in 1 .. L : b[p].type = "query" =>
            /\ Earlier(b[p].row)
            /\ b[p].row.status = DONE =>
                  \A q \in 1 .. L : p < q => b[q].type = "query"
      /\ \A p \in 1 .. L : b[p].type = "statement" =>
            /\ b[p].index <= row.statements
            /\ \A q \in 1 .. L : q <= p => Count(b[q]) <= b[p].index
  BY <1>1, <1>3 DEF AtTab, StreamAt, b
<1>7. \A p \in 1 .. L - 1 : p + 1 \in 1 .. L
  BY <1>0
<1>8. \A p, q \in 1 .. L - 1 : /\ p < q => p + 1 < q + 1
                               /\ q <= p => q + 1 <= p + 1
  BY <1>0
<1>9. Count(b[1]) <= row.statements /\ Count(b[1]) \in Nat
  BY <1>2, <1>5, <1>6 DEF Count, Earlier
<1>10. \A i \in DOMAIN s : s[i] \in Nat /\ s[i] <= Count(b[1])
  BY <1>2, ClientAssumption DEF b
<1>11. StreamAt(t)'
  <2>1. \A r : Earlier(r) => Earlier(r)'
    BY DEF Earlier
  <2>2. handling'[t] # None => Earlier(handling[t].row)'
    BY <1>3, <2>1 DEF AtTab, StreamAt
  <2>3. /\ \A p \in 1 .. L - 1 : inbox'[t][p].type = "query" =>
               /\ Earlier(inbox[t][p].row)'
               /\ inbox'[t][p].row.status = DONE =>
                     \A q \in 1 .. L - 1 : p < q => inbox'[t][q].type = "query"
    BY <1>2, <1>6, <1>7, <1>8, <2>1
  <2>4. \A p \in 1 .. L - 1 : inbox'[t][p].type = "statement" =>
               /\ inbox'[t][p].index <= row'.statements
               /\ \A q \in 1 .. L - 1 : q <= p => Count(inbox'[t][q]) <= inbox'[t][p].index
    BY <1>2, <1>6, <1>7, <1>8
  <2> QED BY <1>2, <2>2, <2>3, <2>4 DEF StreamAt, Count
<1>12. ListedAt(t)'
  <2>1. \A i \in DOMAIN s : s[i] <= row'.statements
    BY <1>4, <1>9, <1>10
  <2>2. ASSUME NEW i \in DOMAIN s, NEW p \in 1 .. L - 1, inbox'[t][p].type = "statement"
        PROVE  s[i] <= inbox'[t][p].index
    <3>1. b[p + 1].type = "statement" /\ p + 1 \in 1 .. L /\ 1 \in 1 .. L /\ 1 <= p + 1
      BY <1>2, <1>7, <2>2
    <3>2. b[p + 1].index \in Nat /\ Count(b[1]) <= b[p + 1].index
      BY <1>5, <1>6, <3>1
    <3>3. s[i] <= b[p + 1].index
      BY <1>9, <1>10, <3>2
    <3> QED BY <1>2, <3>3
  <2> QED BY <1>2, <2>1, <2>2 DEF ListedAt
<1>13. NoGapAt(t)'
  <2>1. \A n : Current(n) => Current(n)'
    BY DEF Current
  <2>2. handling'[t] # None /\ ~handling'[t].missed =>
            Current(handling[t].row.statements)'
    BY <1>3, <2>1 DEF AtTab, NoGapAt
  <2>3. ASSUME t \notin late'
        PROVE  /\ \A p \in 1 .. L - 1 : inbox'[t][p].type = "statement" =>
                      inbox'[t][p].index \in {Before(t, p)', Before(t, p)' + 1}
               /\ t \in room' => Current(Before(t, L - 1 + 1))'
    <3>1. CASE /\ t \notin room'
               /\ \A p \in DOMAIN inbox[t] : p > 1 => inbox[t][p].type # "statement"
      <4>1. \A p \in 1 .. L - 1 : p + 1 > 1
        BY <1>0
      <4>2. \A p \in 1 .. L - 1 : inbox'[t][p].type # "statement"
        BY <1>1, <1>2, <1>7, <3>1, <4>1 DEF b
      <4> QED BY <3>1, <4>2
    <3>2. CASE t \notin late
      <4>1. ASSUME NEW p \in 1 .. L
            PROVE  Before(t, p)' = Before(t, p + 1)
        <5>1. p + 1 # 1 /\ p + 1 - 1 = p
          BY <1>0
        <5>2. Before(t, p + 1) = Count(b[p])
          BY <5>1 DEF Before, b
        <5>3. CASE p = 1
          BY <1>2, <2>3, <5>2, <5>3 DEF Before, b
        <5>4. CASE p # 1
          <6>1. p - 1 \in 1 .. L - 1 /\ p - 1 + 1 = p
            BY <1>0, <5>4
          <6> QED BY <1>2, <5>2, <5>4, <6>1 DEF Before, Count
        <5> QED BY <5>3, <5>4
      <4>2. shown[t] # None
        BY <1>3 DEF AtTab, LinkedAt
      <4>3. \A p \in 1 .. L : b[p].type = "statement" =>
                b[p].index \in {Before(t, p), Before(t, p) + 1}
        BY <1>1, <1>3, <3>2, <4>2 DEF AtTab, NoGapAt, b
      <4>4. t \in room => Current(Before(t, L + 1))
        BY <1>0, <1>3, <3>2, <4>2 DEF AtTab, NoGapAt, b
      <4>5. L - 1 + 1 = L /\ L \in 1 .. L
        BY <1>0
      <4>6. ASSUME t \in room' PROVE Current(Before(t, L))'
        <5>1. Before(t, L)' = Before(t, L + 1)
          BY <4>1, <4>5
        <5> QED BY <4>4, <4>6, <5>1 DEF Current
      <4>7. \A p \in 1 .. L - 1 : p \in 1 .. L
        BY <1>0
      <4>8. \A p \in 1 .. L - 1 : inbox'[t][p].type = "statement" =>
                inbox'[t][p].index \in {Before(t, p)', Before(t, p)' + 1}
        BY <1>2, <1>7, <4>1, <4>3, <4>7
      <4> QED BY <4>5, <4>6, <4>8
    <3> QED BY <2>3, <3>1, <3>2
  <2> QED BY <1>2, <2>2, <2>3 DEF NoGapAt
<1> QED BY <1>11, <1>12, <1>13

\* A tab to which nothing was sent and which shows what it showed.
LEMMA QuietKeeps ==
    ASSUME NEW t, AtTab(t), UNCHANGED <<row, unsent>>,
           inbox'[t] = inbox[t], shown'[t] = shown[t], late' = late,
           get'[t] \in {get[t], None, Asked, row}, handling'[t] = handling[t],
           (t \in room') = (t \in room), row.statements \in Nat
    PROVE  StreamAt(t)' /\ ListedAt(t)' /\ NoGapAt(t)'
<1>1. StreamAt(t)'
  BY DEF AtTab, StreamAt, Earlier, Count
<1>2. ListedAt(t)'
  BY DEF AtTab, ListedAt
<1>3. NoGapAt(t)'
  BY DEF AtTab, NoGapAt, Current, Before, Count
<1> QED BY <1>1, <1>2, <1>3

-----------------------------------------------------------------------------
(* The page and the connection *)

LEMMA TabFacts ==
    ASSUME IInv, NEW t \in Tabs
    PROVE  /\ AtTab(t) /\ LinkedAt(t) /\ StartedAt(t)
           /\ StreamAt(t) /\ ListedAt(t) /\ NoGapAt(t)
           /\ row \in Rows /\ row.statements \in Nat /\ NumStatements \in Nat
           /\ TypeOK
BY ClientAssumption DEF IInv, AtTab, TypeOK, Rows

LEMMA OpenKeeps ==
    ASSUME IInv, NEW t \in Tabs, Open(t)
    PROVE  IInv'
<1>1. /\ mounted' = [mounted EXCEPT ![t] = TRUE]
      /\ UNCHANGED <<workerVars, shown, handling, room, inbox, losses, late>>
  BY DEF Open
<1>2. CASE shown[t] = None
  <2>1. /\ get' = [get EXCEPT ![t] = IF @ = None THEN Asked ELSE @]
        /\ UNCHANGED <<socketVars, subscribed>>
    BY <1>2 DEF Open
  <2>2. TypeOK'
    BY <1>1, <2>1 DEF IInv, TypeOK, workerVars, socketVars
  <2>3. \A u \in Tabs \ {t} : Same(u)
    BY <1>1, <2>1 DEF IInv, TypeOK, Same, workerVars, socketVars
  <2>4. get'[t] \in {get[t], Asked} /\ (get'[t] # get[t] => get'[t] = Asked)
    BY <2>1 DEF IInv, TypeOK
  <2>5. LinkedAt(t)' /\ StartedAt(t)'
    BY <1>1, <1>2, <2>1, <2>4, TabFacts
       DEF LinkedAt, StartedAt, Subscribing, workerVars, socketVars
  <2>6. StreamAt(t)' /\ ListedAt(t)' /\ NoGapAt(t)'
    BY <1>1, <2>4, TabFacts, QuietKeeps DEF workerVars
  <2>7. AtTab(t)'
    BY <2>5, <2>6 DEF AtTab
  <2> QED BY <1>1, <2>2, <2>3, <2>7, OneTab
<1>3. CASE shown[t] # None
  <2> DEFINE polls == shown[t].status <= RUNNING
  <2>1. Poll(t, polls) /\ get' = get
    BY <1>3 DEF Open
  <2>2. polls \in BOOLEAN
    OBVIOUS
  <2>3. /\ listening' \in [Tabs -> {"no", "waiting", "yes"}]
        /\ link' \in [Tabs -> {"closed", "connecting", "up", "down"}]
        /\ subscribed' \in [Tabs -> BOOLEAN]
        /\ \A u \in Tabs \ {t} : /\ listening'[u] = listening[u]
                                 /\ link'[u] = link[u]
                                 /\ subscribed'[u] = subscribed[u]
        /\ polls \/ listening[t] # "no" <=> listening'[t] # "no"
        /\ listening'[t] # "no" => link'[t] # "closed"
        /\ listening'[t] = "waiting" => link'[t] = "connecting"
        /\ subscribed'[t] \/ handling[t] # None \/ t \in room
              <=> listening'[t] = "yes" /\ link'[t] = "up"
        /\ link[t] = "up" => link'[t] = "up"
    BY <2>1, <2>2, TabFacts, PollFacts
  <2>4. TypeOK'
    BY <1>1, <1>3, <2>1, <2>3 DEF IInv, TypeOK, workerVars
  <2>5. \A u \in Tabs \ {t} : Same(u)
    BY <1>1, <2>1, <2>3 DEF IInv, TypeOK, Same, workerVars
  <2>6. LinkedAt(t)'
    BY <1>1, <1>3, <2>1, <2>3, TabFacts DEF LinkedAt, Subscribing
  <2>7. StartedAt(t)'
    BY <1>1, <1>3, <2>1, <2>3, TabFacts
       DEF StartedAt, workerVars, RUNNING, PENDING_REVIEW
  <2>8. StreamAt(t)' /\ ListedAt(t)' /\ NoGapAt(t)'
    BY <1>1, <2>1, TabFacts, QuietKeeps DEF workerVars
  <2>9. AtTab(t)'
    BY <2>6, <2>7, <2>8 DEF AtTab
  <2> QED BY <1>1, <2>4, <2>5, <2>9, OneTab
<1> QED BY <1>2, <1>3

LEMMA CloseKeeps ==
    ASSUME IInv, NEW t \in Tabs, Close(t)
    PROVE  IInv'
<1>1. /\ mounted' = [mounted EXCEPT ![t] = FALSE] /\ losses' = losses + 1
      /\ losses < MaxLosses
      /\ UNCHANGED <<workerVars, shown, get, socketVars, serverVars, inbox, late>>
  BY DEF Close
<1>2. losses' \in 0 .. MaxLosses
  BY <1>1, ClientAssumption DEF IInv, TypeOK
<1>3. TypeOK'
  BY <1>1, <1>2 DEF IInv, TypeOK, workerVars, socketVars, serverVars
<1>4. \A u \in Tabs \ {t} : Same(u)
  BY <1>1 DEF IInv, TypeOK, Same, socketVars, serverVars
<1>5. LinkedAt(t)' /\ StartedAt(t)'
  BY <1>1, TabFacts
     DEF LinkedAt, StartedAt, Subscribing, workerVars, socketVars, serverVars, IInv, TypeOK
<1>6. StreamAt(t)' /\ ListedAt(t)' /\ NoGapAt(t)'
  BY <1>1, TabFacts, QuietKeeps DEF workerVars, serverVars
<1>7. AtTab(t)'
  BY <1>5, <1>6 DEF AtTab
<1> QED BY <1>1, <1>3, <1>4, <1>7, OneTab

LEMMA GetReadsKeeps ==
    ASSUME IInv, NEW t \in Tabs, GetReads(t)
    PROVE  IInv'
<1>1. /\ get[t] = Asked /\ get' = [get EXCEPT ![t] = row]
      /\ UNCHANGED <<workerVars, mounted, shown, socketVars, serverVars, inbox,
                     losses, late>>
  BY DEF GetReads
<1>2. TypeOK'
  BY <1>1 DEF IInv, TypeOK, workerVars, socketVars, serverVars
<1>3. \A u \in Tabs \ {t} : Same(u)
  BY <1>1 DEF IInv, TypeOK, Same, socketVars, serverVars
<1>4. get'[t] = row
  BY <1>1 DEF IInv, TypeOK
<1>5. LinkedAt(t)'
  <2>1. get[t] # None
    BY <1>1, ClientAssumption
  <2>2. shown[t] = None
    BY <1>1, <2>1, TabFacts DEF LinkedAt
  <2> QED BY <1>1, <2>2, TabFacts DEF LinkedAt, Subscribing, socketVars, serverVars
<1>6. StartedAt(t)'
  BY <1>1, <1>4, TabFacts DEF StartedAt, workerVars, socketVars
<1>7. StreamAt(t)' /\ ListedAt(t)' /\ NoGapAt(t)'
  BY <1>1, <1>4, TabFacts, QuietKeeps DEF workerVars, serverVars
<1>8. AtTab(t)'
  BY <1>5, <1>6, <1>7 DEF AtTab
<1> QED BY <1>1, <1>2, <1>3, <1>8, OneTab

LEMMA GetArrivesKeeps ==
    ASSUME IInv, NEW t \in Tabs, GetArrives(t)
    PROVE  IInv'
<1> DEFINE r == get[t]
           polls == Polls(t, r)
<1>1. /\ r \notin {None, Asked} /\ get' = [get EXCEPT ![t] = None]
      /\ shown' = [shown EXCEPT ![t] = Copy(r)] /\ Poll(t, polls)
      /\ UNCHANGED <<workerVars, mounted, handling, room, inbox, losses, late>>
  BY DEF GetArrives
<1>2. r \in Rows /\ shown[t] = None /\ inbox[t] = <<>> /\ listening[t] = "no"
      /\ handling[t] = None /\ t \notin room
  BY <1>1, TabFacts DEF TypeOK, LinkedAt, Subscribing
<1>3. polls \in BOOLEAN /\ (polls <=> mounted[t] /\ r.status <= RUNNING)
  BY <1>2 DEF Polls, TypeOK, IInv
<1>4. /\ Copy(r) \in Copies /\ Copy(r) # None /\ Copy(r).status = r.status
      /\ DOMAIN Copy(r).statements = 1 .. r.statements
      /\ Len(Copy(r).statements) = r.statements
      /\ Copy(r).statements = [i \in 1 .. r.statements |-> i]
  BY <1>2, CopyType
<1>5. shown'[t] = Copy(r) /\ get'[t] = None
  BY <1>1 DEF IInv, TypeOK
<1> HIDE DEF polls
<1>6. /\ listening' \in [Tabs -> {"no", "waiting", "yes"}]
      /\ link' \in [Tabs -> {"closed", "connecting", "up", "down"}]
      /\ subscribed' \in [Tabs -> BOOLEAN]
      /\ \A u \in Tabs \ {t} : /\ listening'[u] = listening[u]
                               /\ link'[u] = link[u]
                               /\ subscribed'[u] = subscribed[u]
      /\ polls \/ listening[t] # "no" <=> listening'[t] # "no"
      /\ listening'[t] # "no" => link'[t] # "closed"
      /\ listening'[t] = "waiting" => link'[t] = "connecting"
      /\ subscribed'[t] \/ handling[t] # None \/ t \in room
            <=> listening'[t] = "yes" /\ link'[t] = "up"
      /\ link[t] = "up" => link'[t] = "up"
  BY <1>1, <1>3, TabFacts, PollFacts
<1>7. TypeOK'
  <2>1. shown' \in [Tabs -> Copies \cup {None}] /\ get' \in [Tabs -> Rows \cup {None, Asked}]
    BY <1>1, <1>4 DEF IInv, TypeOK
  <2>2. \A u \in Tabs : /\ listening'[u] # "no" => shown'[u] # None /\ link'[u] # "closed"
                        /\ handling'[u] # None \/ u \in room' => link'[u] = "up"
    BY <1>1, <1>4, <1>6 DEF IInv, TypeOK
  <2> QED BY <1>1, <1>6, <2>1, <2>2 DEF IInv, TypeOK, workerVars
<1>8. \A u \in Tabs \ {t} : Same(u)
  BY <1>1, <1>6 DEF IInv, TypeOK, Same, workerVars
<1> HIDE DEF r
<1>9. LinkedAt(t)'
  BY <1>1, <1>2, <1>3, <1>4, <1>5, <1>6 DEF LinkedAt, Subscribing
<1>10. row.status = PENDING_REVIEW => r.status = PENDING_REVIEW /\ ~polls
  BY <1>1, <1>3, TabFacts DEF StartedAt, RUNNING, PENDING_REVIEW, r
<1>11. StartedAt(t)'
  BY <1>1, <1>2, <1>4, <1>5, <1>6, <1>10 DEF StartedAt, workerVars
<1>12. StreamAt(t)'
  BY <1>1, <1>2 DEF StreamAt
<1>13. ListedAt(t)'
  <2>1. r.statements <= row.statements /\ r.statements \in Nat
    BY <1>1, <1>2, TabFacts DEF ListedAt, Rows, r
  <2>2. \A i \in 1 .. r.statements :
            Copy(r).statements[i] = i /\ i \in Nat /\ i <= row.statements
    BY <1>4, <2>1, TabFacts
  <2>3. inbox'[t] = <<>> /\ DOMAIN <<>> = {} /\ row' = row
    BY <1>1, <1>2 DEF workerVars
  <2> QED BY <1>4, <1>5, <2>2, <2>3 DEF ListedAt
<1>14. NoGapAt(t)'
  <2>1. Copy(r).statements = [i \in 1 .. Len(Copy(r).statements) |-> i]
    BY <1>4
  <2>2. inbox'[t] = <<>> /\ DOMAIN <<>> = {} /\ t \notin room' /\ handling'[t] = None
    BY <1>1, <1>2
  <2> QED BY <1>5, <2>1, <2>2 DEF NoGapAt
<1>15. AtTab(t)'
  BY <1>9, <1>11, <1>12, <1>13, <1>14 DEF AtTab
<1> QED BY <1>1, <1>7, <1>8, <1>15, OneTab

LEMMA ConnectKeeps ==
    ASSUME IInv, NEW t \in Tabs, Connect(t)
    PROVE  IInv'
<1>1. /\ link[t] \in {"connecting", "down"} /\ link' = [link EXCEPT ![t] = "up"]
      /\ listening' = [listening EXCEPT ![t] = IF @ = "waiting" THEN "yes" ELSE @]
      /\ subscribed' = [subscribed EXCEPT ![t] = listening[t] # "no"]
      /\ UNCHANGED <<workerVars, pageVars, handling, room, inbox, losses, late>>
  BY DEF Connect
<1>2. TypeOK'
  BY <1>1 DEF IInv, TypeOK, workerVars, pageVars
<1>3. \A u \in Tabs \ {t} : Same(u)
  BY <1>1 DEF IInv, TypeOK, Same, pageVars
<1>4. LinkedAt(t)' /\ StartedAt(t)'
  BY <1>1, TabFacts DEF LinkedAt, StartedAt, Subscribing, TypeOK, workerVars, pageVars
<1>5. StreamAt(t)' /\ ListedAt(t)' /\ NoGapAt(t)'
  BY <1>1, TabFacts, QuietKeeps DEF workerVars, pageVars
<1>6. AtTab(t)'
  BY <1>4, <1>5 DEF AtTab
<1> QED BY <1>1, <1>2, <1>3, <1>6, OneTab

LEMMA DisconnectKeeps ==
    ASSUME IInv, NEW t \in Tabs, Disconnect(t)
    PROVE  IInv'
<1>1. /\ link[t] = "up" /\ losses < MaxLosses /\ losses' = losses + 1
      /\ link' = [link EXCEPT ![t] = "down"]
      /\ subscribed' = [subscribed EXCEPT ![t] = FALSE]
      /\ handling' = [handling EXCEPT ![t] = None]
      /\ room' = room \ {t} /\ inbox' = [inbox EXCEPT ![t] = <<>>]
      /\ UNCHANGED <<workerVars, pageVars, listening, late>>
  BY DEF Disconnect
<1>2. losses' \in 0 .. MaxLosses
  BY <1>1, ClientAssumption DEF IInv, TypeOK
<1>3. TypeOK'
  BY <1>1, <1>2 DEF IInv, TypeOK, workerVars, pageVars
<1>4. \A u \in Tabs \ {t} : Same(u)
  BY <1>1 DEF IInv, TypeOK, Same, pageVars
<1>5. inbox'[t] = <<>> /\ handling'[t] = None /\ t \notin room' /\ link'[t] = "down"
      /\ ~subscribed'[t]
  BY <1>1 DEF IInv, TypeOK
<1>6. LinkedAt(t)' /\ StartedAt(t)'
  BY <1>1, <1>5, TabFacts DEF LinkedAt, StartedAt, Subscribing, workerVars, pageVars
<1>7. StreamAt(t)' /\ ListedAt(t)' /\ NoGapAt(t)'
  <2>1. StreamAt(t)'
    BY <1>5 DEF StreamAt
  <2>2. ListedAt(t)'
    BY <1>1, <1>5, TabFacts DEF ListedAt, workerVars, pageVars
  <2>3. NoGapAt(t)'
    BY <1>1, <1>5, TabFacts DEF NoGapAt, workerVars, pageVars
  <2> QED BY <2>1, <2>2, <2>3
<1>8. AtTab(t)'
  BY <1>6, <1>7 DEF AtTab
<1> QED BY <1>1, <1>3, <1>4, <1>8, OneTab

LEMMA SubscribeReadsKeeps ==
    ASSUME IInv, NEW t \in Tabs, SubscribeReads(t)
    PROVE  IInv'
<1>1. /\ subscribed[t] /\ handling[t] = None
      /\ subscribed' = [subscribed EXCEPT ![t] = FALSE]
      /\ handling' = [handling EXCEPT ![t] = [row |-> row, missed |-> FALSE]]
      /\ UNCHANGED <<workerVars, pageVars, socketVars, room, inbox, losses, late>>
  BY DEF SubscribeReads
<1> DEFINE h == [row |-> row, missed |-> FALSE]
<1>2. h \in Handlings /\ h # None /\ h.row = row /\ listening[t] = "yes" /\ link[t] = "up"
  <2>1. h \in Handlings /\ h.row = row
    BY TabFacts DEF Handlings
  <2>2. h # None
    BY <2>1, ClientAssumption
  <2> QED BY <1>1, <2>1, <2>2, TabFacts DEF LinkedAt, Subscribing
<1> HIDE DEF h
<1>3. handling' = [handling EXCEPT ![t] = h]
  BY <1>1 DEF h
<1>4. TypeOK'
  <2>1. handling' \in [Tabs -> Handlings \cup {None}]
    BY <1>2, <1>3 DEF IInv, TypeOK
  <2>2. \A u \in Tabs : handling'[u] # None \/ u \in room' => link'[u] = "up"
    BY <1>1, <1>2, <1>3 DEF IInv, TypeOK, socketVars
  <2> QED BY <1>1, <2>1, <2>2 DEF IInv, TypeOK, workerVars, pageVars, socketVars
<1>5. \A u \in Tabs \ {t} : Same(u)
  BY <1>1, <1>3 DEF IInv, TypeOK, Same, pageVars, socketVars
<1>6. handling'[t] = h /\ row' = row /\ unsent' = unsent
  BY <1>3, <1>1 DEF IInv, TypeOK, workerVars
<1>7. LinkedAt(t)' /\ StartedAt(t)'
  BY <1>1, <1>2, <1>6, TabFacts
     DEF LinkedAt, StartedAt, Subscribing, workerVars, pageVars, socketVars
<1>8. StreamAt(t)'
  <2>1. Earlier(row)'
    BY <1>2, <1>6, TabFacts DEF StartedAt, Earlier
  <2> QED BY <1>1, <1>2, <1>6, <2>1, TabFacts DEF StreamAt, Earlier, Count
<1>9. ListedAt(t)' /\ NoGapAt(t)'
  BY <1>1, <1>2, <1>6, TabFacts DEF ListedAt, NoGapAt, Current, Before, Count, pageVars
<1>10. AtTab(t)'
  BY <1>7, <1>8, <1>9 DEF AtTab
<1> QED BY <1>1, <1>4, <1>5, <1>10, OneTab

-----------------------------------------------------------------------------
(* Events *)

LEMMA DeliveriesType ==
    ASSUME TypeOK, NEW tabs, NEW e \in Events, Deliveries(tabs, e)
    PROVE  /\ inbox' \in [Tabs -> Seq(Events)]
           /\ \A t \in Tabs : inbox'[t] = IF t \in tabs THEN Append(inbox[t], e)
                                          ELSE inbox[t]
<1>1. \A t \in Tabs : inbox[t] \in Seq(Events) /\ Append(inbox[t], e) \in Seq(Events)
  BY DEF TypeOK
<1> QED BY <1>1 DEF Deliveries

\* A tab in the room listens, so it has a copy of the query.
LEMMA InRoomFacts ==
    ASSUME IInv, NEW t \in Tabs, t \in room \/ handling[t] # None
    PROVE  shown[t] # None /\ listening[t] = "yes" /\ link[t] = "up"
BY TabFacts DEF LinkedAt, Subscribing, TypeOK

LEMMA EmitKeeps ==
    ASSUME IInv, Emit
    PROVE  IInv'
<1>1. /\ unsent # None /\ unsent' = None /\ Deliveries(room, unsent)
      /\ handling' = [t \in Tabs |->
                        IF handling[t] # None /\ handling[t].row # row
                        THEN [handling[t] EXCEPT !.missed = TRUE] ELSE handling[t]]
      /\ UNCHANGED <<row, ended, pageVars, socketVars, subscribed, room, losses, late>>
  BY DEF Emit
<1>2. unsent \in Events /\ TypeOK /\ Unsent
  BY <1>1 DEF IInv, TypeOK
<1>3. /\ inbox' \in [Tabs -> Seq(Events)]
      /\ \A t \in Tabs : inbox'[t] = IF t \in room THEN Append(inbox[t], unsent)
                                     ELSE inbox[t]
  BY <1>1, <1>2, DeliveriesType
<1>4. ASSUME NEW t \in Tabs
      PROVE  /\ handling'[t] \in Handlings \cup {None}
             /\ (handling'[t] # None) = (handling[t] # None)
             /\ handling'[t] # None =>
                   /\ handling'[t].row = handling[t].row
                   /\ ~handling'[t].missed => handling'[t].row = row
  <2>1. CASE handling[t] # None
    <3>1. handling[t] \in Handlings
      BY <1>2, <2>1 DEF TypeOK
    <3>2. /\ [handling[t] EXCEPT !.missed = TRUE] \in Handlings
          /\ [handling[t] EXCEPT !.missed = TRUE].row = handling[t].row
          /\ [handling[t] EXCEPT !.missed = TRUE].missed = TRUE
      BY <3>1 DEF Handlings
    <3> QED BY <1>1, <2>1, <3>1, <3>2, ClientAssumption
  <2>2. CASE handling[t] = None
    BY <1>1, <2>2
  <2> QED BY <2>1, <2>2
<1>5. TypeOK'
  <2>1. handling' \in [Tabs -> Handlings \cup {None}]
    BY <1>1, <1>4
  <2> QED BY <1>1, <1>2, <1>3, <1>4, <2>1 DEF TypeOK, pageVars, socketVars
<1>6. Unsent'
  BY <1>1, <1>2 DEF Unsent
<1>7. /\ \A n : n = row.statements => Current(n)'
      /\ row.statements \in Nat /\ row.statements = Count(unsent)
      /\ unsent.type = "query" => Earlier(unsent.row)
      /\ unsent.type = "statement" => unsent.index = row.statements /\ row.status = RUNNING
  <2>1. row.statements \in Nat
    BY <1>2, ClientAssumption DEF TypeOK, Rows
  <2>2. \A n : n = row.statements => Current(n)'
    BY <1>1 DEF Current
  <2>3. \/ unsent.type = "query" /\ unsent.row = row /\ row.status # PENDING_REVIEW
        \/ unsent.type = "statement" /\ unsent.index = row.statements /\ row.status = RUNNING
    BY <1>1, <1>2, EventParts DEF Unsent
  <2>4. row.statements = Count(unsent)
    BY <2>3 DEF Count
  <2>5. unsent.type = "query" => Earlier(unsent.row)
    BY <2>1, <2>3 DEF Earlier
  <2> QED BY <2>1, <2>2, <2>3, <2>4, <2>5
<1>8. ASSUME NEW t \in Tabs
      PROVE  AtTab(t)'
  <2>1. shown[t] = None => t \notin room
    BY InRoomFacts
  <2>2. LinkedAt(t)' /\ StartedAt(t)'
    BY <1>1, <1>3, <1>4, <2>1, TabFacts
       DEF LinkedAt, StartedAt, Subscribing, pageVars, socketVars
  <2>3. CASE t \in room
    <3>1. unsent.type = "statement" => unsent.index \in
              {Before(t, Len(inbox[t]) + 1), Before(t, Len(inbox[t]) + 1) + 1} \/ t \in late
      <4> SUFFICES ASSUME t \notin late, unsent.type = "statement"
                   PROVE  unsent.index \in {Before(t, Len(inbox[t]) + 1),
                                            Before(t, Len(inbox[t]) + 1) + 1}
        OBVIOUS
      <4>1. Current(Before(t, Len(inbox[t]) + 1))
        BY <2>1, <2>3, TabFacts DEF NoGapAt
      <4> HIDE DEF Before
      <4> QED BY <1>7, <4>1 DEF Current
    <3>2. StreamAt(t)' /\ ListedAt(t)' /\ NoGapAt(t)'
      <4> DEFINE e == unsent
      <4> QED BY <1>1, <1>2, <1>3, <1>4, <1>7, <2>1, <2>3, <3>1, AppendKeeps
               DEF pageVars
    <3> QED BY <2>2, <3>2 DEF AtTab
  <2>4. CASE t \notin room
    <3>1. inbox'[t] = inbox[t] /\ UNCHANGED <<row, get, shown, late, room>>
      BY <1>1, <1>3, <2>4 DEF pageVars
    <3>2. StreamAt(t)'
      BY <1>4, <3>1, TabFacts DEF StreamAt, Earlier, Count
    <3>3. ListedAt(t)'
      BY <3>1, TabFacts DEF ListedAt
    <3>4. NoGapAt(t)'
      BY <1>4, <1>7, <2>4, <3>1, TabFacts DEF NoGapAt, Before, Count
    <3> QED BY <2>2, <3>2, <3>3, <3>4 DEF AtTab
  <2> QED BY <2>3, <2>4
<1> QED BY <1>5, <1>6, <1>8 DEF IInv

LEMMA SubscribeJoinsKeeps ==
    ASSUME IInv, NEW t \in Tabs, SubscribeJoins(t)
    PROVE  IInv'
<1> DEFINE r == handling[t].row
           missed == handling[t].missed
           e == Query(r)
<1>1. /\ handling[t] # None /\ handling' = [handling EXCEPT ![t] = None]
      /\ room' = room \cup {t} /\ Deliveries(room', e)
      /\ late' = IF missed THEN late \cup room' ELSE late
      /\ UNCHANGED <<workerVars, pageVars, socketVars, subscribed, losses>>
  BY DEF SubscribeJoins
<1>2. handling[t] \in Handlings /\ r \in Rows /\ missed \in BOOLEAN
  BY <1>1 DEF IInv, TypeOK, Handlings
<1>3. e \in Events /\ e.type = "query" /\ e.row = r /\ Count(e) = r.statements
  BY <1>2, QueryEvent
<1>4. /\ inbox' \in [Tabs -> Seq(Events)]
      /\ \A u \in Tabs : inbox'[u] = IF u \in room' THEN Append(inbox[u], e)
                                     ELSE inbox[u]
  BY <1>1, <1>3, DeliveriesType DEF IInv
<1>5. /\ \A u \in Tabs \ {t} : handling'[u] = handling[u]
      /\ handling'[t] = None
      /\ handling' \in [Tabs -> Handlings \cup {None}]
  BY <1>1 DEF IInv, TypeOK
<1>6. /\ row' = row /\ unsent' = unsent
      /\ UNCHANGED <<mounted, shown, get, listening, link, subscribed>>
  BY <1>1 DEF workerVars, pageVars, socketVars
<1>7. link[t] = "up" /\ listening[t] = "yes" /\ shown[t] # None
  BY <1>1, InRoomFacts
<1>8. TypeOK'
  <2>1. late' \subseteq Tabs /\ room' \subseteq Tabs
    BY <1>1 DEF IInv, TypeOK
  <2>2. \A u \in Tabs : handling'[u] # None \/ u \in room' => link'[u] = "up"
    BY <1>1, <1>5, <1>6, <1>7 DEF IInv, TypeOK
  <2> QED BY <1>1, <1>4, <1>5, <1>6, <2>1, <2>2 DEF IInv, TypeOK, workerVars
<1>9. Unsent'
  BY <1>1 DEF IInv, Unsent, workerVars
<1>10. Earlier(r) /\ (~missed => Current(r.statements))
  BY <1>1, TabFacts DEF StreamAt, NoGapAt
<1>11. \A n : Current(n) => Current(n)'
  BY <1>6 DEF Current
<1> HIDE DEF r, missed, e
<1>12. ASSUME NEW u \in Tabs
       PROVE  AtTab(u)'
  <2>1. Subscribing(u)' <=> Subscribing(u)
    BY <1>1, <1>5, <1>6 DEF Subscribing
  <2>2. u \in room' => shown[u] # None
    BY <1>1, <1>7, InRoomFacts
  <2>3. LinkedAt(u)' /\ StartedAt(u)'
    BY <1>4, <1>6, <2>1, <2>2, TabFacts DEF LinkedAt, StartedAt
  <2>4. CASE u \in room'
    <3>1. inbox'[u] = Append(inbox[u], e) /\ shown[u] # None
      BY <1>4, <2>2, <2>4
    <3>2. u \notin late' => ~missed
      BY <1>1, <2>4
    <3>3. handling'[u] # None =>
              /\ handling[u] # None /\ handling'[u] = handling[u]
              /\ ~handling'[u].missed => Current(handling[u].row.statements)'
      <4> SUFFICES ASSUME handling'[u] # None
                   PROVE  /\ handling[u] # None /\ handling'[u] = handling[u]
                          /\ ~handling'[u].missed => Current(handling[u].row.statements)'
        OBVIOUS
      <4>1. handling'[u] = handling[u]
        BY <1>5
      <4> QED BY <1>6, <4>1, TabFacts DEF NoGapAt, Current
    <3>4. StreamAt(u)' /\ ListedAt(u)' /\ NoGapAt(u)'
      <4> SUFFICES ASSUME NEW x \in Events, x = e
                   PROVE  StreamAt(u)' /\ ListedAt(u)' /\ NoGapAt(u)'
        BY <1>3
      <4>1. /\ x.type = "query" /\ x.row = r
            /\ u \notin late' => Current(Count(x))'
        <5>1. Count(x) = r.statements
          BY <1>3
        <5> QED BY <1>3, <1>6, <1>10, <3>2, <5>1 DEF Current, Count
      <4>2. u \in late => u \in late'
        BY <1>1
      <4> QED BY <1>6, <1>10, <3>1, <3>3, <4>1, <4>2, AppendKeeps
    <3> QED BY <2>3, <3>4 DEF AtTab
  <2>5. CASE u \notin room'
    <3>1. u # t /\ inbox'[u] = inbox[u] /\ handling'[u] = handling[u] /\ u \notin room
      BY <1>1, <1>4, <1>5, <2>5
    <3>2. StreamAt(u)' /\ ListedAt(u)'
      BY <1>6, <3>1, TabFacts DEF StreamAt, ListedAt, Earlier, Count
    <3>3. NoGapAt(u)'
      BY <1>1, <1>6, <2>5, <3>1, TabFacts DEF NoGapAt, Current, Before, Count
    <3> QED BY <2>3, <3>2, <3>3 DEF AtTab
  <2> QED BY <2>4, <2>5
<1> QED BY <1>8, <1>9, <1>12 DEF IInv

\* What is known of the event that a tab handles next.
LEMMA HeadFacts ==
    ASSUME IInv, NEW t \in Tabs, inbox[t] # <<>>
    PROVE  /\ Head(inbox[t]) \in Events /\ Tail(inbox[t]) \in Seq(Events)
           /\ Head(inbox[t]) = inbox[t][1] /\ 1 \in DOMAIN inbox[t]
           /\ inbox[t] \in Seq(Events)
           /\ shown[t] # None /\ shown[t] \in Copies /\ get[t] = None
           /\ Head(inbox[t]).type = "query" =>
                 /\ Head(inbox[t]).row \in Rows /\ Earlier(Head(inbox[t]).row)
                 /\ Count(Head(inbox[t])) = Head(inbox[t]).row.statements
           /\ Head(inbox[t]).type = "statement" =>
                 /\ Head(inbox[t]).index \in 1 .. NumStatements
                 /\ Head(inbox[t]).index <= row.statements
                 /\ Count(Head(inbox[t])) = Head(inbox[t]).index
<1>1. inbox[t] \in Seq(Events)
  BY DEF IInv, TypeOK
<1>2. /\ Head(inbox[t]) \in Events /\ Tail(inbox[t]) \in Seq(Events)
      /\ Head(inbox[t]) = inbox[t][1] /\ 1 \in DOMAIN inbox[t]
  BY <1>1
<1>3. shown[t] # None /\ shown[t] \in Copies /\ get[t] = None
  BY TabFacts DEF LinkedAt, TypeOK
<1>4. /\ inbox[t][1].type = "query" => Earlier(inbox[t][1].row)
      /\ inbox[t][1].type = "statement" => inbox[t][1].index <= row.statements
  BY <1>2, TabFacts DEF StreamAt
<1> QED BY <1>1, <1>2, <1>3, <1>4, EventParts DEF Count

\* A statement that is the last one of the list, or a later one.
LEMMA AddFacts ==
    ASSUME NEW N \in Nat, NEW s \in Seq(1 .. N), NEW i \in 1 .. N,
           \A j, k \in DOMAIN s : j < k => s[j] < s[k],
           \A k \in DOMAIN s : s[k] <= i,
           NEW a, a = AddStatement(s, i)
    PROVE  /\ a \in Seq(1 .. N)
           /\ \A j, k \in DOMAIN a : j < k => a[j] < a[k]
           /\ \A k \in DOMAIN a : a[k] <= i
           /\ s = [k \in 1 .. Len(s) |-> k] /\ i \in {Len(s), Len(s) + 1} =>
                 a = [k \in 1 .. Len(a) |-> k] /\ Len(a) = i
<1>1. Len(s) \in Nat /\ DOMAIN s = 1 .. Len(s) /\ \A k \in 1 .. Len(s) : s[k] \in 1 .. N
  OBVIOUS
<1>2. CASE s # <<>> /\ s[Len(s)] = i
  <2>1. a = s
    BY <1>2 DEF AddStatement
  <2>2. Len(s) \in 1 .. Len(s)
    BY <1>1, <1>2
  <2>3. s = [k \in 1 .. Len(s) |-> k] => Len(s) = i
    BY <1>2, <2>2
  <2> QED BY <2>1, <2>3
<1>3. CASE ~(s # <<>> /\ s[Len(s)] = i)
  <2> DEFINE L == Len(s)
  <2>1. /\ a = Append(s, i) /\ a \in Seq(1 .. N) /\ Len(a) = L + 1
        /\ DOMAIN a = 1 .. L + 1 /\ a[L + 1] = i
        /\ \A k \in 1 .. L : a[k] = s[k]
    <3>1. a = Append(s, i)
      BY <1>3 DEF AddStatement
    <3> QED BY <1>1, <3>1, AppendProperties
  <2>2. \A k \in 1 .. L : s[k] < i
    <3> SUFFICES ASSUME NEW k \in 1 .. L PROVE s[k] < i
      OBVIOUS
    <3>1. L \in 1 .. L /\ s # <<>>
      BY <1>1
    <3>2. s[L] <= i /\ s[L] # i /\ s[L] \in Nat /\ s[k] \in Nat /\ i \in Nat
      BY <1>1, <1>3, <3>1
    <3>3. k = L \/ k < L
      <4>1. L \in Nat
        BY <1>1
      <4> HIDE DEF L
      <4> QED BY <4>1
    <3>4. k = L \/ s[k] < s[L]
      <4>1. k \in DOMAIN s /\ L \in DOMAIN s
        BY <1>1, <3>1
      <4> HIDE DEF L
      <4> QED BY <3>3, <4>1
    <3> QED BY <3>2, <3>4
  <2>3. L \in Nat
    BY <1>1
  <2> HIDE DEF L
  <2>4. \A k \in 1 .. L + 1 : k = L + 1 \/ k \in 1 .. L
    BY <2>3
  <2>5. \A j, k \in DOMAIN a : j < k => a[j] < a[k]
    <3> SUFFICES ASSUME NEW j \in 1 .. L + 1, NEW k \in 1 .. L + 1, j < k
                 PROVE  a[j] < a[k]
      BY <2>1
    <3>1. j \in 1 .. L
      BY <2>3
    <3> QED BY <1>1, <2>1, <2>2, <2>4, <3>1 DEF L
  <2>6. \A k \in DOMAIN a : a[k] <= i
    <3> SUFFICES ASSUME NEW k \in 1 .. L + 1 PROVE a[k] <= i
      BY <2>1
    <3> QED BY <2>1, <2>4 DEF L
  <2>7. ASSUME s = [k \in 1 .. L |-> k], i \in {L, L + 1}
        PROVE  a = [k \in 1 .. Len(a) |-> k] /\ Len(a) = i
    <3>1. i = L + 1
      <4> SUFFICES ASSUME i = L PROVE FALSE
        BY <2>7
      <4>1. L \in 1 .. L
        BY <2>3
      <4>2. s[L] = i
        BY <2>7, <4>1
      <4> QED BY <2>2, <4>1, <4>2
    <3>2. \A k \in 1 .. L + 1 : a[k] = k
      BY <2>1, <2>4, <2>7, <3>1
    <3>3. a = [k \in 1 .. L + 1 |-> a[k]]
      BY <2>1, LenProperties
    <3> QED BY <2>1, <3>1, <3>2, <3>3
  <2> QED BY <2>1, <2>5, <2>6, <2>7 DEF L
<1> QED BY <1>2, <1>3

LEMMA ReceiveStatementKeeps ==
    ASSUME IInv, NEW t \in Tabs, ReceiveStatement(t)
    PROVE  IInv'
<1> DEFINE i == Head(inbox[t]).index
           old == shown[t].statements
           s == AddStatement(old, i)
           c == [shown[t] EXCEPT !.statements = s]
<1>1. /\ inbox[t] # <<>> /\ Head(inbox[t]).type = "statement"
      /\ shown' = [shown EXCEPT ![t].statements = AddStatement(@, i)]
      /\ inbox' = [inbox EXCEPT ![t] = Tail(@)]
      /\ UNCHANGED <<workerVars, mounted, get, socketVars, serverVars, losses, late>>
  BY DEF ReceiveStatement
<1>2. /\ i \in 1 .. NumStatements /\ Count(Head(inbox[t])) = i /\ shown[t] \in Copies
      /\ get[t] = None /\ shown[t] # None /\ Tail(inbox[t]) \in Seq(Events)
      /\ Head(inbox[t]) = inbox[t][1] /\ 1 \in DOMAIN inbox[t] /\ NumStatements \in Nat
  BY <1>1, HeadFacts, ClientAssumption
<1>3. /\ shown[t].statements \in Seq(1 .. NumStatements) /\ shown[t].status \in Statuses
      /\ shown[t] = [status |-> shown[t].status, statements |-> shown[t].statements]
  BY <1>2 DEF Copies
<1>4. /\ \A j, k \in DOMAIN shown[t].statements :
            j < k => shown[t].statements[j] < shown[t].statements[k]
      /\ \A k \in DOMAIN shown[t].statements : shown[t].statements[k] <= i
  BY <1>1, <1>2, TabFacts DEF ListedAt
<1>5. /\ s \in Seq(1 .. NumStatements)
      /\ \A j, k \in DOMAIN s : j < k => s[j] < s[k]
      /\ \A k \in DOMAIN s : s[k] <= i
      /\ /\ shown[t].statements = [k \in 1 .. Len(shown[t].statements) |-> k]
         /\ i \in {Len(shown[t].statements), Len(shown[t].statements) + 1}
         => s = [k \in 1 .. Len(s) |-> k] /\ Len(s) = i
  <2>1. old \in Seq(1 .. NumStatements)
    BY <1>3
  <2>2. /\ \A j, k \in DOMAIN old : j < k => old[j] < old[k]
        /\ \A k \in DOMAIN old : old[k] <= i
    BY <1>4
  <2> HIDE DEF i, old
  <2>3. /\ s \in Seq(1 .. NumStatements)
        /\ \A j, k \in DOMAIN s : j < k => s[j] < s[k]
        /\ \A k \in DOMAIN s : s[k] <= i
        /\ /\ old = [k \in 1 .. Len(old) |-> k]
           /\ i \in {Len(old), Len(old) + 1}
           => s = [k \in 1 .. Len(s) |-> k] /\ Len(s) = i
    BY <1>2, <2>1, <2>2, AddFacts, SMTT(60)
  <2> QED BY <2>3 DEF old
<1>6. t \notin late =>
          /\ shown[t].statements = [k \in 1 .. Len(shown[t].statements) |-> k]
          /\ i \in {Len(shown[t].statements), Len(shown[t].statements) + 1}
  <2>1. Before(t, 1) = Len(shown[t].statements)
    BY DEF Before
  <2> QED BY <1>1, <1>2, <2>1, TabFacts DEF NoGapAt
<1>7. c = [status |-> shown[t].status, statements |-> s] /\ shown' = [shown EXCEPT ![t] = c]
  BY <1>1, <1>3
<1> HIDE DEF s, c
<1>8. c \in Copies /\ c # None /\ c.status = shown[t].status /\ c.statements = s
  <2>1. c \in Copies /\ c.status = shown[t].status /\ c.statements = s
    BY <1>3, <1>5, <1>7 DEF Copies
  <2> QED BY <2>1, ClientAssumption
<1>9. shown'[t] = c /\ inbox'[t] = Tail(inbox[t])
  BY <1>1, <1>7 DEF IInv, TypeOK
<1>10. TypeOK'
  <2>1. shown' \in [Tabs -> Copies \cup {None}]
    BY <1>7, <1>8 DEF IInv, TypeOK
  <2>2. inbox' \in [Tabs -> Seq(Events)]
    BY <1>1, <1>2 DEF IInv, TypeOK
  <2>3. \A u \in Tabs : shown[u] # None => shown'[u] # None
    BY <1>7, <1>8 DEF IInv, TypeOK
  <2> QED BY <1>1, <2>1, <2>2, <2>3 DEF IInv, TypeOK, workerVars, socketVars, serverVars
<1>11. \A u \in Tabs \ {t} : Same(u)
  BY <1>1, <1>7 DEF IInv, TypeOK, Same, socketVars, serverVars
<1>12. LinkedAt(t)' /\ StartedAt(t)'
  BY <1>1, <1>2, <1>8, <1>9, TabFacts
     DEF LinkedAt, StartedAt, Subscribing, workerVars, socketVars, serverVars
<1>13. StreamAt(t)' /\ ListedAt(t)' /\ NoGapAt(t)'
  <2> SUFFICES ASSUME NEW a \in Seq(1 .. NumStatements), a = s
               PROVE  StreamAt(t)' /\ ListedAt(t)' /\ NoGapAt(t)'
    BY <1>5
  <2>1. /\ UNCHANGED <<row, unsent>> /\ inbox[t] # <<>> /\ inbox'[t] = Tail(inbox[t])
        /\ get'[t] = None /\ handling'[t] = handling[t] /\ room' = room
        /\ shown'[t].statements = a
    BY <1>1, <1>2, <1>8, <1>9 DEF workerVars, serverVars
  <2>2. /\ \A j, k \in DOMAIN a : j < k => a[j] < a[k]
        /\ \A k \in DOMAIN a : a[k] <= Count(Head(inbox[t]))
    BY <1>2, <1>5
  <2>3. t \notin late' => /\ a = [k \in 1 .. Len(a) |-> k]
                         /\ Len(a) = Count(Head(inbox[t]))
                         /\ t \notin late
    BY <1>1, <1>2, <1>5, <1>6
  <2> QED BY <2>1, <2>2, <2>3, TailKeeps
<1>14. AtTab(t)'
  BY <1>12, <1>13 DEF AtTab
<1> QED BY <1>1, <1>10, <1>11, <1>14, OneTab

LEMMA ReceiveRunningKeeps ==
    ASSUME IInv, NEW t \in Tabs, ReceiveRunning(t)
    PROVE  IInv'
<1> DEFINE r == Head(inbox[t]).row
           polls == Polls(t, r)
           s == Copy(r).statements
<1>1. /\ inbox[t] # <<>> /\ Head(inbox[t]).type = "query" /\ r.status < DONE
      /\ shown' = [shown EXCEPT ![t] = Copy(r)] /\ Poll(t, polls)
      /\ inbox' = [inbox EXCEPT ![t] = Tail(@)]
      /\ UNCHANGED <<workerVars, mounted, get, handling, room, losses, late>>
  BY DEF ReceiveRunning
<1>2. /\ r \in Rows /\ Earlier(r) /\ Count(Head(inbox[t])) = r.statements
      /\ shown[t] # None /\ get[t] = None /\ Tail(inbox[t]) \in Seq(Events)
      /\ r.statements \in Nat
  BY <1>1, HeadFacts, ClientAssumption DEF Rows
<1>3. /\ Copy(r) \in Copies /\ Copy(r) # None /\ Copy(r).status = r.status
      /\ s \in Seq(1 .. NumStatements)
      /\ DOMAIN s = 1 .. r.statements /\ Len(s) = r.statements
      /\ s = [i \in 1 .. r.statements |-> i]
  BY <1>2, CopyType DEF Copies
<1>4. polls \in BOOLEAN
      /\ (polls <=> mounted[t] /\ r.status <= RUNNING /\ shown[t].status # r.status)
  BY <1>2 DEF Polls, TypeOK, IInv
<1>5. shown'[t] = Copy(r) /\ inbox'[t] = Tail(inbox[t])
  BY <1>1 DEF IInv, TypeOK
<1> HIDE DEF polls
<1>6. /\ listening' \in [Tabs -> {"no", "waiting", "yes"}]
      /\ link' \in [Tabs -> {"closed", "connecting", "up", "down"}]
      /\ subscribed' \in [Tabs -> BOOLEAN]
      /\ \A u \in Tabs \ {t} : /\ listening'[u] = listening[u]
                               /\ link'[u] = link[u]
                               /\ subscribed'[u] = subscribed[u]
      /\ polls \/ listening[t] # "no" <=> listening'[t] # "no"
      /\ listening'[t] # "no" => link'[t] # "closed"
      /\ listening'[t] = "waiting" => link'[t] = "connecting"
      /\ subscribed'[t] \/ handling[t] # None \/ t \in room
            <=> listening'[t] = "yes" /\ link'[t] = "up"
      /\ link[t] = "up" => link'[t] = "up"
  BY <1>1, <1>4, TabFacts, PollFacts
<1> HIDE DEF r, s
<1>7. TypeOK'
  <2>1. shown' \in [Tabs -> Copies \cup {None}] /\ inbox' \in [Tabs -> Seq(Events)]
    BY <1>1, <1>2, <1>3 DEF IInv, TypeOK
  <2>2. \A u \in Tabs : /\ listening'[u] # "no" => shown'[u] # None /\ link'[u] # "closed"
                        /\ handling'[u] # None \/ u \in room' => link'[u] = "up"
    BY <1>1, <1>3, <1>6 DEF IInv, TypeOK
  <2> QED BY <1>1, <1>6, <2>1, <2>2 DEF IInv, TypeOK, workerVars
<1>8. \A u \in Tabs \ {t} : Same(u)
  BY <1>1, <1>6 DEF IInv, TypeOK, Same
<1>9. LinkedAt(t)'
  BY <1>1, <1>2, <1>3, <1>4, <1>5, <1>6, TabFacts DEF LinkedAt, Subscribing
<1>10. StartedAt(t)'
  BY <1>1, <1>2 DEF StartedAt, Earlier, workerVars
<1>11. StreamAt(t)' /\ ListedAt(t)' /\ NoGapAt(t)'
  <2> SUFFICES ASSUME NEW a \in Seq(1 .. NumStatements), a = s
               PROVE  StreamAt(t)' /\ ListedAt(t)' /\ NoGapAt(t)'
    BY <1>3
  <2>1. /\ UNCHANGED <<row, unsent>> /\ inbox[t] # <<>> /\ inbox'[t] = Tail(inbox[t])
        /\ get'[t] = None /\ handling'[t] = handling[t] /\ room' = room
        /\ shown'[t].statements = a
    BY <1>1, <1>2, <1>5 DEF workerVars, s
  <2>2. /\ DOMAIN a = 1 .. r.statements /\ Len(a) = r.statements
        /\ \A i \in 1 .. r.statements : a[i] = i
        /\ a = [i \in 1 .. Len(a) |-> i]
    BY <1>3
  <2>3. \A j \in 1 .. r.statements : j \in Nat /\ j <= r.statements
    BY <1>2
  <2>4. /\ \A i, j \in DOMAIN a : i < j => a[i] < a[j]
        /\ \A i \in DOMAIN a : a[i] <= Count(Head(inbox[t]))
        /\ Len(a) = Count(Head(inbox[t]))
    BY <1>2, <2>2, <2>3
  <2>5. t \notin late' => t \notin late
    BY <1>1
  <2> QED BY <2>1, <2>2, <2>4, <2>5, TailKeeps
<1>12. AtTab(t)'
  BY <1>9, <1>10, <1>11 DEF AtTab
<1> QED BY <1>1, <1>7, <1>8, <1>12, OneTab

LEMMA ReceiveEndKeeps ==
    ASSUME IInv, NEW t \in Tabs, ReceiveEnd(t)
    PROVE  IInv'
<1> DEFINE r == Head(inbox[t]).row
           s == Copy(r).statements
<1>1. /\ inbox[t] # <<>> /\ Head(inbox[t]).type = "query" /\ r.status >= DONE
      /\ shown' = [shown EXCEPT ![t] = Copy(r)] /\ late' = late \ {t}
      /\ UNCHANGED <<workerVars, mounted, get, losses>>
  BY DEF ReceiveEnd
<1>2. /\ r \in Rows /\ Earlier(r) /\ Count(Head(inbox[t])) = r.statements
      /\ shown[t] # None /\ get[t] = None /\ Tail(inbox[t]) \in Seq(Events)
      /\ r.statements \in Nat /\ r.status \in Statuses
  BY <1>1, HeadFacts, ClientAssumption DEF Rows
<1>3. /\ Copy(r) \in Copies /\ Copy(r) # None /\ Copy(r).status = r.status
      /\ s \in Seq(1 .. NumStatements)
      /\ DOMAIN s = 1 .. r.statements /\ Len(s) = r.statements
      /\ s = [i \in 1 .. r.statements |-> i]
  BY <1>2, CopyType DEF Copies
<1>4. r.status = DONE /\ row.status = DONE
  BY <1>1, <1>2 DEF Earlier, Statuses, INITIALIZED, RUNNING, DONE, PENDING_REVIEW
<1>5. \A p \in DOMAIN inbox[t] : p > 1 => inbox[t][p].type # "statement"
  <2>1. Head(inbox[t]) = inbox[t][1] /\ 1 \in DOMAIN inbox[t]
    BY <1>1, HeadFacts
  <2>2. \A q \in DOMAIN inbox[t] : 1 < q => inbox[t][q].type = "query"
    BY <1>1, <1>4, <2>1, TabFacts DEF StreamAt
  <2>3. \A q \in DOMAIN inbox[t] : q \in Nat
    BY DEF IInv, TypeOK
  <2> QED BY <2>2, <2>3
<1>6. shown'[t] = Copy(r)
  BY <1>1 DEF IInv, TypeOK
<1> HIDE DEF r, s
<1>7. /\ inbox' \in [Tabs -> Seq(Events)] /\ inbox'[t] \in {Tail(inbox[t]), <<>>}
      /\ listening' \in [Tabs -> {"no", "waiting", "yes"}]
      /\ link' \in [Tabs -> {"closed", "connecting", "up", "down"}]
      /\ subscribed' \in [Tabs -> BOOLEAN]
      /\ handling' \in [Tabs -> Handlings \cup {None}] /\ room' \subseteq Tabs
      /\ t \notin room' /\ handling'[t] = None /\ ~subscribed'[t]
      /\ listening'[t] # "yes"
      /\ listening'[t] = "waiting" => link'[t] = "connecting"
      /\ \A u \in Tabs \ {t} :
            /\ inbox'[u] = inbox[u] /\ listening'[u] = listening[u]
            /\ link'[u] = link[u] /\ subscribed'[u] = subscribed[u]
            /\ handling'[u] = handling[u] /\ (u \in room') = (u \in room)
  <2>1. CASE listening[t] # "yes"
    <3>1. /\ inbox' = [inbox EXCEPT ![t] = Tail(@)]
          /\ UNCHANGED <<socketVars, serverVars>>
      BY <2>1 DEF ReceiveEnd
    <3>2. t \notin room /\ handling[t] = None /\ ~subscribed[t]
      BY <2>1, TabFacts DEF LinkedAt, Subscribing, TypeOK
    <3>3. inbox' \in [Tabs -> Seq(Events)] /\ inbox'[t] = Tail(inbox[t])
          /\ \A u \in Tabs \ {t} : inbox'[u] = inbox[u]
      BY <1>2, <3>1 DEF IInv, TypeOK
    <3> QED BY <2>1, <3>1, <3>2, <3>3, TabFacts
            DEF TypeOK, LinkedAt, socketVars, serverVars
  <2>2. CASE listening[t] = "yes"
    <3>1. /\ listening' = [listening EXCEPT ![t] = "no"]
          /\ subscribed' = [subscribed EXCEPT ![t] = FALSE]
          /\ handling' = [handling EXCEPT ![t] = None]
          /\ room' = room \ {t}
          /\ link' = [link EXCEPT ![t] = IF t \in Busy THEN @ ELSE "closed"]
          /\ inbox' = [inbox EXCEPT ![t] = IF t \in Busy THEN Tail(@) ELSE <<>>]
      BY <2>2 DEF ReceiveEnd
    <3>2. inbox' \in [Tabs -> Seq(Events)] /\ inbox'[t] \in {Tail(inbox[t]), <<>>}
          /\ \A u \in Tabs \ {t} : inbox'[u] = inbox[u]
      BY <1>2, <3>1 DEF IInv, TypeOK
    <3>3. /\ link' \in [Tabs -> {"closed", "connecting", "up", "down"}]
          /\ listening' \in [Tabs -> {"no", "waiting", "yes"}]
          /\ listening'[t] = "no"
          /\ \A u \in Tabs \ {t} : listening'[u] = listening[u] /\ link'[u] = link[u]
      BY <3>1 DEF IInv, TypeOK
    <3>4. /\ subscribed' \in [Tabs -> BOOLEAN] /\ ~subscribed'[t]
          /\ handling' \in [Tabs -> Handlings \cup {None}] /\ handling'[t] = None
          /\ room' \subseteq Tabs /\ t \notin room'
          /\ \A u \in Tabs \ {t} : /\ subscribed'[u] = subscribed[u]
                                   /\ handling'[u] = handling[u]
                                   /\ (u \in room') = (u \in room)
      BY <3>1 DEF IInv, TypeOK
    <3> QED BY <3>2, <3>3, <3>4
  <2> QED BY <2>1, <2>2
<1>8. TypeOK'
  <2>1. shown' \in [Tabs -> Copies \cup {None}] /\ late' \subseteq Tabs
    BY <1>1, <1>3 DEF IInv, TypeOK
  <2>2. ASSUME NEW u \in Tabs
        PROVE  /\ listening'[u] # "no" => shown'[u] # None /\ link'[u] # "closed"
               /\ handling'[u] # None \/ u \in room' => link'[u] = "up"
    <3>1. CASE u = t
      BY <1>3, <1>6, <1>7, <3>1
    <3>2. CASE u # t
      BY <1>1, <1>7, <3>2 DEF IInv, TypeOK
    <3> QED BY <3>1, <3>2
  <2> QED BY <1>1, <1>7, <2>1, <2>2 DEF IInv, TypeOK, workerVars
<1>9. \A u \in Tabs \ {t} : Same(u)
  BY <1>1, <1>7 DEF IInv, TypeOK, Same
<1>10. LinkedAt(t)' /\ StartedAt(t)'
  BY <1>1, <1>2, <1>3, <1>4, <1>6, <1>7
     DEF LinkedAt, StartedAt, Subscribing, workerVars, RUNNING, DONE, PENDING_REVIEW
<1>11. StreamAt(t)' /\ ListedAt(t)' /\ NoGapAt(t)'
  <2> SUFFICES ASSUME NEW a \in Seq(1 .. NumStatements), a = s
               PROVE  StreamAt(t)' /\ ListedAt(t)' /\ NoGapAt(t)'
    BY <1>3
  <2>1. /\ UNCHANGED <<row, unsent>> /\ inbox[t] # <<>>
        /\ get'[t] = None /\ handling'[t] = None /\ t \notin room'
        /\ shown'[t].statements = a
    BY <1>1, <1>2, <1>6, <1>7 DEF workerVars, s
  <2>2. /\ DOMAIN a = 1 .. r.statements /\ Len(a) = r.statements
        /\ \A i \in 1 .. r.statements : a[i] = i
        /\ a = [i \in 1 .. Len(a) |-> i]
    BY <1>3
  <2>3. \A j \in 1 .. r.statements : j \in Nat /\ j <= r.statements
    BY <1>2
  <2>4. /\ \A i, j \in DOMAIN a : i < j => a[i] < a[j]
        /\ \A i \in DOMAIN a : a[i] <= Count(Head(inbox[t]))
        /\ Len(a) = Count(Head(inbox[t]))
    BY <1>2, <2>2, <2>3
  <2>5. CASE inbox'[t] = Tail(inbox[t])
    BY <1>5, <2>1, <2>2, <2>4, <2>5, TailKeeps
  <2>6. CASE inbox'[t] = <<>>
    <3>1. StreamAt(t)' /\ NoGapAt(t)'
      BY <2>1, <2>2, <2>6 DEF StreamAt, NoGapAt
    <3>2. \A i \in DOMAIN a : a[i] <= row'.statements
      <4>1. r.statements <= row.statements
        BY <1>2 DEF Earlier
      <4> QED BY <1>2, <2>1, <2>2, <2>3, <4>1, TabFacts
    <3>3. ListedAt(t)'
      BY <2>1, <2>4, <2>6, <3>2 DEF ListedAt
    <3> QED BY <3>1, <3>3
  <2> QED BY <1>7, <2>5, <2>6
<1>12. AtTab(t)'
  BY <1>10, <1>11 DEF AtTab
<1> QED BY <1>1, <1>8, <1>9, <1>12, OneTab

-----------------------------------------------------------------------------
(* The theorems *)

LEMMA InitHolds == Init => IInv
<1> SUFFICES ASSUME Init PROVE IInv
  OBVIOUS
<1>1. row \in Rows /\ row.statements = 0 /\ row.status # RUNNING
  BY ClientAssumption
     DEF Init, Rows, Statuses, INITIALIZED, RUNNING, DONE, PENDING_REVIEW
<1>2. TypeOK
  BY <1>1, ClientAssumption DEF Init, TypeOK
<1>3. Unsent
  BY <1>1 DEF Init, Unsent
<1>4. \A t \in Tabs : AtTab(t)
  BY ClientAssumption DEF Init, AtTab, LinkedAt, Subscribing, StartedAt, StreamAt,
                          ListedAt, NoGapAt
<1> QED BY <1>2, <1>3, <1>4 DEF IInv

LEMMA StepKeeps ==
    ASSUME IInv, [Next]_vars
    PROVE  IInv'
<1>1. CASE WorkerStep
  BY <1>1, WorkerKeeps
<1>2. CASE Emit
  BY <1>2, EmitKeeps
<1>3. ASSUME NEW t \in Tabs, ServerStep(t)
      PROVE  IInv'
  BY <1>3, GetReadsKeeps, SubscribeReadsKeeps, SubscribeJoinsKeeps DEF ServerStep
<1>4. ASSUME NEW t \in Tabs, TabStep(t)
      PROVE  IInv'
  BY <1>4, GetArrivesKeeps, ReceiveStatementKeeps, ReceiveRunningKeeps, ReceiveEndKeeps
     DEF TabStep
<1>5. ASSUME NEW t \in Tabs, Open(t) \/ Close(t) \/ Connect(t) \/ Disconnect(t)
      PROVE  IInv'
  BY <1>5, OpenKeeps, CloseKeeps, ConnectKeeps, DisconnectKeeps
<1>6. CASE UNCHANGED vars
  <2>1. /\ UNCHANGED <<row, unsent, ended, losses, mounted, shown, get, listening, link>>
        /\ UNCHANGED <<subscribed, handling, room, inbox, late>>
    BY <1>6 DEF vars, workerVars, pageVars, socketVars, serverVars
  <2>2. TypeOK' /\ Unsent'
    BY <2>1 DEF IInv, TypeOK, Unsent
  <2>3. \A t \in Tabs : Same(t)
    BY <2>1 DEF Same
  <2>4. \A t \in Tabs : AtTab(t)'
    BY <2>1, <2>3, SameTab DEF IInv
  <2> QED BY <2>2, <2>4 DEF IInv
<1> QED BY <1>1, <1>2, <1>3, <1>4, <1>5, <1>6 DEF Next

\* Whatever rows and events a tab is sent, and however often it loses its
\* connection or leaves the page, the page lists each statement once and in
\* order; without a gap unless the tab joined the room too late.
THEOREM NothingListedTwice == Spec => []StatementsListedOnce
<1>1. IInv => StatementsListedOnce
  <2> SUFFICES ASSUME IInv, NEW t \in Tabs, shown[t] # None
      PROVE  /\ \A i, j \in DOMAIN shown[t].statements :
                   i < j => shown[t].statements[i] < shown[t].statements[j]
             /\ t \in late \/ shown[t] = Copy([status |-> shown[t].status,
                                        statements |-> Len(shown[t].statements)])
    BY DEF StatementsListedOnce
  <2>1. \A i, j \in DOMAIN shown[t].statements :
            i < j => shown[t].statements[i] < shown[t].statements[j]
    BY TabFacts DEF ListedAt
  <2>2. t \notin late => shown[t].statements = [i \in 1 .. Len(shown[t].statements) |-> i]
    BY TabFacts DEF NoGapAt
  <2>3. shown[t] = [status |-> shown[t].status, statements |-> shown[t].statements]
    BY DEF IInv, TypeOK, Copies
  <2> QED BY <2>1, <2>2, <2>3 DEF Copy
<1> QED BY <1>1, InitHolds, StepKeeps, PTL DEF Spec

\* A page that shows a query under way listens to it: once the connection is
\* up, the tab is in the room or its subscribe is on the way.
THEOREM ShownIsFollowed == Spec => []ListensWhileRunning
<1>1. IInv => ListensWhileRunning
  <2> SUFFICES ASSUME IInv, NEW t \in Tabs, mounted[t], shown[t] # None,
                      shown[t].status <= RUNNING
      PROVE  /\ listening[t] # "no"
             /\ link[t] = "up" => t \in room \/ subscribed[t] \/ handling[t] # None
    BY DEF ListensWhileRunning
  <2>1. listening[t] \in {"waiting", "yes"}
    BY TabFacts DEF LinkedAt, TypeOK
  <2> QED BY <2>1, TabFacts DEF LinkedAt, Subscribing
<1> QED BY <1>1, InitHolds, StepKeeps, PTL DEF Spec

=============================================================================
