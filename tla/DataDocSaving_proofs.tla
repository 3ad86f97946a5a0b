------------------------ MODULE DataDocSaving_proofs ------------------------
(***************************************************************************)
(* DataDocSaving for any number of managers, fields and edits, whatever    *)
(* requests fail or stay unanswered.  As long as nothing was saved by      *)
(* force, processRequest is the one request in flight, so a batch waits    *)
(* for it; and an edit that is stacked came after every edit that a        *)
(* request of its manager notifies, so the end of no request takes the key *)
(* that stands for it.                                                     *)
(***************************************************************************)
EXTENDS DataDocSaving, SequenceTheorems, TLAPS

Typed ==
    /\ change \in Seq(Fields)
    /\ stack \in [Managers -> Seq(Nat)]
    /\ processRequest \in [Managers -> Nat]
    /\ requests \in Seq(Request)
    /\ completeAt \in Seq(Nat)
    /\ Len(completeAt) = Len(change)
    /\ saving \in Nat
    /\ made \in 0 .. NumManagers
    /\ saver \in 0 .. made

\* Only managers that were made are used.
Used ==
    /\ \A m \in Managers : stack[m] # << >> => m <= made
    /\ \A r \in Requests : requests[r].manager <= made

\* A stacked edit is later than those its manager's requests notify.
Stacked ==
    /\ \A r \in Requests : requests[r].notify \in Changes
    /\ \A m \in Managers : \A i \in DOMAIN stack[m] :
          /\ stack[m][i] \in Changes
          /\ \A r \in Requests :
                requests[r].manager = m => requests[r].notify < stack[m][i]

\* Time passes, and the key is that of the last edit.
Clock ==
    /\ Len(change) > 0 \/ elapsed
    /\ \A c, d \in Changes : c <= d => completeAt[c] <= completeAt[d]
    /\ \A c \in Changes : completeAt[c] > 0
    /\ saving \in {0, Latest}

\* processRequest is the request in flight.
Slot ==
    NoneForced =>
        \A r \in Requests : Open(r) => processRequest[requests[r].manager] = r

IInv == Typed /\ Used /\ Stacked /\ Clock /\ Slot /\ WarnsBeforeLoss

-----------------------------------------------------------------------------
LEMMA LatestFacts ==
    ASSUME Typed
    PROVE  /\ Latest \in Nat
           /\ Len(change) \in Nat
           /\ Len(change) > 0 => Latest = completeAt[Len(change)]
           /\ Len(change) = 0 => Latest = 0
BY DEF Typed, Latest

\* What Send leaves behind.
LEMMA Sending ==
    ASSUME Typed, NEW m \in Managers, NEW f \in BOOLEAN,
           NEW sent \in Seq(Request), stack[m] # << >>, Send(m, f, sent)
    PROVE  /\ requests' \in Seq(Request)
           /\ stack' \in [Managers -> Seq(Nat)]
           /\ processRequest' \in [Managers -> Nat]
           /\ Len(requests') = Len(sent) + 1
           /\ \A r \in 1 .. Len(sent) : requests'[r] = sent[r]
           /\ requests'[Len(sent) + 1] = RequestOf(m, f)
           /\ processRequest'[m] = Len(sent) + 1
           /\ \A n \in Managers \ {m} : /\ stack'[n] = stack[n]
                                        /\ processRequest'[n] = processRequest[n]
           /\ stack'[m] = << >>
<1>1. stack[m] \in Seq(Nat) /\ Len(stack[m]) \in Nat /\ Len(stack[m]) > 0
  BY DEF Typed
<1>2. stack[m][Len(stack[m])] \in Nat /\ Merged(stack[m]) \subseteq Nat
  BY <1>1 DEF Merged
<1>3. RequestOf(m, f) \in Request
  BY <1>2 DEF RequestOf, Request
<1>4. requests' \in Seq(Request) /\ Len(requests') = Len(sent) + 1
  BY <1>3 DEF Send
<1>5. /\ \A r \in 1 .. Len(sent) : requests'[r] = sent[r]
      /\ requests'[Len(sent) + 1] = RequestOf(m, f)
  BY <1>3, AppendProperties DEF Send
<1>6. /\ stack' \in [Managers -> Seq(Nat)]
      /\ processRequest' \in [Managers -> Nat]
      /\ processRequest'[m] = Len(sent) + 1
      /\ \A n \in Managers \ {m} : /\ stack'[n] = stack[n]
                                   /\ processRequest'[n] = processRequest[n]
      /\ stack'[m] = << >>
  BY DEF Send, Typed
<1> QED BY <1>4, <1>5, <1>6

\* What an answer leaves behind.
LEMMA Answering ==
    ASSUME Typed, NEW r \in Requests, NEW a \in {"ok", "error", "lost"}
    PROVE  /\ Answered(r, a) \in Seq(Request)
           /\ Len(Answered(r, a)) = Len(requests)
           /\ \A q \in Requests :
                 /\ Answered(r, a)[q].manager = requests[q].manager
                 /\ Answered(r, a)[q].notify = requests[q].notify
                 /\ Answered(r, a)[q].forced = requests[q].forced
                 /\ q # r => Answered(r, a)[q].answer = requests[q].answer
           /\ Answered(r, a)[r].answer = a
<1>1. \A q \in Requests : requests[q] \in Request
  BY DEF Typed, Requests
<1>2. [requests[r] EXCEPT !.answer = a] \in Request
  BY <1>1 DEF Request
<1> DEFINE e == [requests[r] EXCEPT !.answer = a]
<1>a. Answered(r, a) = [requests EXCEPT ![r] = e]
  BY DEF Answered
<1>b. requests \in Seq(Request) /\ r \in 1 .. Len(requests) /\ e \in Request
  BY <1>2 DEF Typed, Requests
<1>c. /\ [requests EXCEPT ![r] = e] \in Seq(Request)
      /\ Len([requests EXCEPT ![r] = e]) = Len(requests)
      /\ \A j \in 1 .. Len(requests) :
            [requests EXCEPT ![r] = e][j] = IF j = r THEN e ELSE requests[j]
  BY <1>b, ExceptSeq
<1>3. /\ Answered(r, a) \in Seq(Request)
      /\ Len(Answered(r, a)) = Len(requests)
      /\ \A q \in Requests : q # r => Answered(r, a)[q] = requests[q]
      /\ Answered(r, a)[r] = e
  BY <1>a, <1>c DEF Requests
<1>4. /\ [requests[r] EXCEPT !.answer = a].manager = requests[r].manager
      /\ [requests[r] EXCEPT !.answer = a].notify = requests[r].notify
      /\ [requests[r] EXCEPT !.answer = a].forced = requests[r].forced
      /\ [requests[r] EXCEPT !.answer = a].answer = a
  BY <1>1 DEF Request
<1> QED BY <1>3, <1>4

-----------------------------------------------------------------------------
(* The requests so far, as a step may leave them *)

SameRequests(s) ==
    /\ s \in Seq(Request)
    /\ Len(s) = Len(requests)
    /\ \A q \in Requests : /\ s[q].manager = requests[q].manager
                           /\ s[q].notify = requests[q].notify
                           /\ s[q].forced = requests[q].forced

\* A step that neither stacks nor sends.
LEMMA ListsKept ==
    ASSUME Used, Stacked, SameRequests(requests'),
           UNCHANGED <<change, stack, made>>
    PROVE  Used' /\ Stacked'
<1>1. Requests' = Requests /\ Changes' = Changes
  BY DEF SameRequests, Requests, Changes
<1> QED BY <1>1 DEF Used, Stacked, SameRequests

\* A step that sends the stack of m.
LEMMA ListsSent ==
    ASSUME Typed, Used, Stacked, UNCHANGED <<change, made>>,
           NEW m \in Managers, NEW f \in BOOLEAN, NEW sent,
           SameRequests(sent), stack[m] # << >>, Send(m, f, sent)
    PROVE  Used' /\ Stacked'
<1> DEFINE new == Len(sent) + 1
<1>1. /\ sent \in Seq(Request)
      /\ Len(sent) = Len(requests)
      /\ Len(sent) \in Nat
  BY DEF SameRequests
<1>2. /\ Len(requests') = new
      /\ \A r \in 1 .. Len(sent) : requests'[r] = sent[r]
      /\ requests'[new] = RequestOf(m, f)
      /\ \A n \in Managers \ {m} : stack'[n] = stack[n]
      /\ stack'[m] = << >>
  BY <1>1, Sending
<1>3. /\ requests'[new].manager = m
      /\ requests'[new].notify = stack[m][Len(stack[m])]
  BY <1>2 DEF RequestOf
<1>4. Requests' = Requests \cup {new} /\ Changes' = Changes
  BY <1>1, <1>2 DEF Requests, Changes
<1>5. \A q \in Requests : /\ requests'[q].manager = requests[q].manager
                          /\ requests'[q].notify = requests[q].notify
  BY <1>1, <1>2 DEF SameRequests, Requests
<1>6. stack[m][Len(stack[m])] \in Changes
  <2>1. stack[m] \in Seq(Nat)
    BY DEF Typed
  <2>2. Len(stack[m]) \in DOMAIN stack[m]
    BY <2>1
  <2> QED BY <2>2 DEF Stacked
<1>7. Used'
  <2>1. m <= made
    BY DEF Used
  <2> QED BY <1>2, <1>3, <1>4, <1>5, <2>1 DEF Used
<1>8. Stacked'
  <2>1. \A r \in Requests' : requests'[r].notify \in Changes'
    BY <1>3, <1>4, <1>5, <1>6 DEF Stacked
  <2>2. ASSUME NEW n \in Managers, NEW i \in DOMAIN stack'[n]
        PROVE  /\ stack'[n][i] \in Changes'
               /\ \A r \in Requests' :
                    requests'[r].manager = n => requests'[r].notify < stack'[n][i]
    <3>1. n # m /\ stack'[n] = stack[n]
      BY <1>2, <2>2
    <3> QED BY <1>3, <1>4, <1>5, <3>1 DEF Stacked
  <2> QED BY <2>1, <2>2 DEF Stacked
<1> QED BY <1>7, <1>8

-----------------------------------------------------------------------------
(* Every step keeps the invariant *)

\* A step that only marks a request, or nothing: the timer that skips or
\* waits, the server's handling, and an answer that is lost.
LEMMA MarkingKeeps ==
    ASSUME IInv, SameRequests(requests'),
           \A q \in Requests : Open(q)' <=> Open(q),
           elapsed' = TRUE \/ UNCHANGED elapsed,
           UNCHANGED <<change, stack, processRequest, saver, made, saving,
                       completeAt>>
    PROVE  IInv'
<1>1. Used' /\ Stacked'
  BY ListsKept DEF IInv
<1>2. Requests' = Requests /\ Changes' = Changes
  BY DEF SameRequests, Requests, Changes
<1>3. Typed' /\ Clock'
  BY <1>2 DEF IInv, Typed, Clock, Latest, SameRequests
<1>4. /\ NoneForced' <=> NoneForced
      /\ NoTwoInOneSecond' <=> NoTwoInOneSecond
      /\ Unsaved' <=> Unsaved
  BY <1>2 DEF NoneForced, NoTwoInOneSecond, Unsaved, SameRequests
<1>5. Slot'
  BY <1>2, <1>4 DEF IInv, Slot, SameRequests
<1>6. WarnsBeforeLoss'
  BY <1>4 DEF IInv, WarnsBeforeLoss
<1> QED BY <1>1, <1>3, <1>5, <1>6 DEF IInv

LEMMA EditKeeps ==
    ASSUME BatchAssumption, IInv, NEW f \in Fields, Edit(f)
    PROVE  IInv'
<1> DEFINE n == Len(change) + 1
<1>1. /\ Typed /\ Used /\ Stacked /\ Clock /\ Slot
      /\ Len(change) \in Nat
      /\ Len(completeAt) = Len(change)
      /\ Latest \in Nat
      /\ Len(change) > 0 => Latest = completeAt[Len(change)]
      /\ Len(change) = 0 => Latest = 0
  BY LatestFacts DEF IInv, Typed
<1>2. PICK s \in {Latest + 1, Latest} :
         /\ completeAt' = Append(completeAt, s)
         /\ saving' = s
         /\ s = Latest => ~elapsed
  BY <1>1 DEF Edit
<1>3. s \in Nat /\ s > 0 /\ s >= Latest
  <2>1. s = Latest => Len(change) > 0
    BY <1>1, <1>2, Zenon DEF Clock
  <2>2. s = Latest => completeAt[Len(change)] > 0
    BY <1>1, <2>1 DEF Clock, Changes
  <2> QED BY <1>1, <1>2, <2>1, <2>2
<1>4. PICK m \in Managers :
         /\ Batch(m, f)
         /\ m <= made'
         /\ made <= made'
         /\ made' \in 0 .. NumManagers
         /\ saver' \in 0 .. made'
         /\ made' <= 1 /\ saver' = made' => made <= 1 /\ saver = made
  <2>1. CASE saver # 0 /\ Batch(saver, f) /\ UNCHANGED <<saver, made>>
    <3>1. saver \in Managers
      BY <1>1, <2>1 DEF BatchAssumption, Managers, Typed
    <3> QED BY <1>1, <2>1, <3>1 DEF Typed
  <2>2. CASE /\ saver = 0 /\ made < NumManagers /\ Batch(made + 1, f)
             /\ made' = made + 1 /\ saver' = made + 1
    <3>1. made + 1 \in Managers
      BY <1>1, <2>2 DEF BatchAssumption, Managers, Typed
    <3> QED BY <1>1, <2>2, <3>1 DEF BatchAssumption, Typed
  <2> QED BY <2>1, <2>2 DEF Edit
<1>5. /\ change' = Append(change, f)
      /\ stack' = [stack EXCEPT ![m] = Append(@, n)]
      /\ UNCHANGED <<processRequest, requests>>
  BY <1>4 DEF Batch
<1>6. /\ change' \in Seq(Fields)
      /\ Len(change') = n
      /\ completeAt' \in Seq(Nat)
      /\ Len(completeAt') = n
      /\ completeAt'[n] = s
      /\ \A c \in 1 .. Len(change) : completeAt'[c] = completeAt[c]
  BY <1>1, <1>2, <1>3, <1>5 DEF Typed
<1>7. /\ Changes' = Changes \cup {n}
      /\ Requests' = Requests
      /\ Latest' = s
  <2>1. completeAt' # << >>
    BY <1>1, <1>6
  <2> QED BY <1>1, <1>5, <1>6, <2>1 DEF Changes, Requests, Latest
<1>8. /\ stack[m] \in Seq(Nat)
      /\ stack'[m] = Append(stack[m], n)
      /\ \A k \in Managers \ {m} : stack'[k] = stack[k]
      /\ stack' \in [Managers -> Seq(Nat)]
  BY <1>1, <1>5 DEF Typed
<1>9. Typed'
  BY <1>1, <1>2, <1>3, <1>4, <1>5, <1>6, <1>8 DEF Typed
<1>10. Used'
  <2>1. ASSUME NEW r \in Requests
        PROVE  requests[r].manager \in Managers
    <3>1. requests[r] \in Request
      BY <1>1, <2>1 DEF Typed, Requests
    <3> QED BY <3>1 DEF Request
  <2>2. ASSUME NEW r \in Requests'
        PROVE  requests'[r].manager <= made'
    <3>1. requests[r].manager \in Managers /\ requests[r].manager <= made
      BY <1>1, <1>7, <2>1, <2>2 DEF Used
    <3>2. made \in Int /\ made' \in Int /\ made <= made'
      BY <1>1, <1>4 DEF Typed, Managers, BatchAssumption
    <3>3. requests'[r].manager \in Int /\ requests'[r].manager <= made
      BY <1>5, <3>1 DEF Managers
    <3> QED BY <3>2, <3>3
  <2>3. \A k \in Managers : stack'[k] # << >> => k <= made'
    BY <1>1, <1>4, <1>8 DEF Used, Typed, Managers, BatchAssumption
  <2> QED BY <2>2, <2>3 DEF Used
<1>11. Stacked'
  <2>1. \A r \in Requests' : requests'[r].notify \in Changes'
    BY <1>1, <1>5, <1>7 DEF Stacked
  <2>2. ASSUME NEW k \in Managers, NEW i \in DOMAIN stack'[k]
        PROVE  /\ stack'[k][i] \in Changes'
               /\ \A r \in Requests' :
                     requests'[r].manager = k => requests'[r].notify < stack'[k][i]
    <3>1. CASE k # m \/ i \in DOMAIN stack[m]
      <4>1. i \in DOMAIN stack[k] /\ stack'[k][i] = stack[k][i]
        <5>1. CASE k # m
          BY <1>8, <2>2, <5>1
        <5>2. CASE k = m
          <6>1. n \in Nat
            BY <1>1 DEF Typed
          <6>2. \A j \in 1 .. Len(stack[m]) : stack'[m][j] = stack[m][j]
            BY <1>8, <6>1, AppendProperties
          <6>3. i \in 1 .. Len(stack[m])
            BY <1>8, <3>1, <5>2
          <6> QED BY <1>8, <5>2, <6>2, <6>3
        <5> QED BY <5>1, <5>2
      <4> QED BY <1>1, <1>5, <1>7, <4>1 DEF Stacked
    <3>2. CASE k = m /\ i \notin DOMAIN stack[m]
      <4>1. stack'[k][i] = n
        BY <1>1, <1>8, <2>2, <3>2
      <4>2. \A r \in Requests : requests[r].notify < n
        BY <1>1 DEF Stacked, Changes
      <4> QED BY <1>5, <1>7, <4>1, <4>2
    <3> QED BY <3>1, <3>2
  <2> QED BY <2>1, <2>2 DEF Stacked
<1>12. Clock'
  <2>1. Len(change') > 0
    BY <1>1, <1>6
  <2>2. \A c \in Changes' : completeAt'[c] > 0
    BY <1>1, <1>3, <1>6, <1>7 DEF Clock, Changes
  <2>3. \A c \in Changes : completeAt[c] <= s
    <3> SUFFICES ASSUME NEW c \in Changes
                 PROVE  completeAt[c] <= s
      OBVIOUS
    <3>1. Len(change) \in Changes /\ c <= Len(change)
      BY <1>1 DEF Changes
    <3>2. completeAt[c] <= completeAt[Len(change)]
      BY <1>1, <3>1 DEF Clock
    <3>3. completeAt[c] \in Nat
      BY <1>1 DEF Typed, Changes
    <3>4. Latest = completeAt[Len(change)]
      BY <1>1, <3>1 DEF Changes
    <3> QED BY <1>1, <1>3, <3>2, <3>3, <3>4
  <2>4. \A c, d \in Changes' : c <= d => completeAt'[c] <= completeAt'[d]
    <3> SUFFICES ASSUME NEW c \in Changes', NEW d \in Changes', c <= d
                 PROVE  completeAt'[c] <= completeAt'[d]
      OBVIOUS
    <3>1. CASE d \in Changes
      <4>1. c \in Changes
        BY <1>1, <1>7, <3>1 DEF Changes
      <4>2. completeAt[c] <= completeAt[d]
        BY <1>1, <3>1, <4>1 DEF Clock
      <4> QED BY <1>6, <3>1, <4>1, <4>2 DEF Changes
    <3>2. CASE d = n
      <4>1. completeAt'[d] = s
        BY <1>6, <3>2
      <4>2. CASE c \in Changes
        BY <1>6, <2>3, <4>1, <4>2 DEF Changes
      <4>3. CASE c = n
        BY <1>3, <1>6, <4>1, <4>3
      <4> QED BY <1>7, <4>2, <4>3
    <3> QED BY <1>7, <3>1, <3>2
  <2>5. saving' \in {0, Latest'}
    BY <1>2, <1>7
  <2> QED BY <2>1, <2>2, <2>4, <2>5 DEF Clock
<1>13. NoneForced' => NoneForced
  BY <1>4, <1>5, <1>7 DEF NoneForced
<1>14. Slot'
  BY <1>1, <1>5, <1>7, <1>13 DEF Slot, Open
<1>15. WarnsBeforeLoss'
  BY <1>2, <1>3 DEF WarnsBeforeLoss
<1> QED BY <1>9, <1>10, <1>11, <1>12, <1>14, <1>15 DEF IInv

\* Without a forced save there is one manager.
LEMMA OneManager ==
    ASSUME BatchAssumption, IInv, NoneForced
    PROVE  /\ \A r \in Requests : requests[r].manager = 1
           /\ \A m \in Managers : stack[m] # << >> => m = 1
<1>1. made \in Nat /\ made <= 1
  BY DEF NoneForced, IInv, Typed, BatchAssumption
<1>2. \A m \in Managers : m <= made => m = 1
  BY <1>1 DEF Managers, BatchAssumption
<1>3. ASSUME NEW r \in Requests
      PROVE  requests[r].manager \in Managers
  <2>1. requests[r] \in Request
    BY DEF IInv, Typed, Requests
  <2> QED BY <2>1 DEF Request
<1> QED BY <1>2, <1>3 DEF IInv, Used

\* The end of a request leaves the key that stands for a stacked edit.
LEMMA KeyStays ==
    ASSUME BatchAssumption, IInv, NoneForced, NoTwoInOneSecond,
           NEW r \in Requests, NEW m \in Managers, stack[m] # << >>,
           SaveEnd(requests[r].notify)
    PROVE  saving' # 0
<1> DEFINE c == requests[r].notify
           d == stack[m][Len(stack[m])]
<1>1. stack[m] \in Seq(Nat) /\ Len(stack[m]) \in DOMAIN stack[m]
  BY DEF IInv, Typed
<1>2. requests[r].manager = m
  BY OneManager
<1>3. c \in Changes /\ d \in Changes /\ c < d
  BY <1>1, <1>2 DEF IInv, Stacked
<1>4. Len(change) \in Changes /\ d <= Len(change) /\ Len(change) > 0
  BY <1>3 DEF IInv, Typed, Changes
<1>5. completeAt[c] <= completeAt[d] /\ completeAt[d] <= completeAt[Len(change)]
  BY <1>3, <1>4 DEF IInv, Clock, Changes
<1>6. completeAt[c] # completeAt[d]
  BY <1>3 DEF NoTwoInOneSecond, Changes
<1>7. Latest = completeAt[Len(change)]
  BY <1>4, LatestFacts DEF IInv
<1>8. /\ completeAt[c] \in Nat
      /\ completeAt[d] \in Nat
      /\ completeAt[Len(change)] \in Nat
  BY <1>3, <1>4, SMTT(60) DEF IInv, Typed, Changes
<1>9. saving = Latest /\ saving # 0
  BY DEF IInv, Clock, WarnsBeforeLoss, Unsaved
<1>10. ~(saving <= completeAt[c])
  BY <1>5, <1>6, <1>7, <1>8, <1>9
<1> QED BY <1>9, <1>10 DEF SaveEnd

LEMMA TimerSendsKeeps ==
    ASSUME BatchAssumption, IInv, NEW m \in Managers, TimerSends(m),
           elapsed' = TRUE, UNCHANGED <<saver, made, saving, completeAt>>
    PROVE  IInv'
<1> DEFINE new == Len(requests) + 1
<1>1. /\ Typed /\ Used /\ Stacked /\ Clock /\ Slot
      /\ requests \in Seq(Request)
      /\ Len(requests) \in Nat
      /\ SameRequests(requests)
  BY DEF IInv, Typed, SameRequests
<1>2. /\ stack[m] # << >>
      /\ processRequest[m] = 0
      /\ Send(m, FALSE, requests)
      /\ UNCHANGED change
  BY DEF TimerSends, Superseded, changeVars
<1>3. /\ requests' \in Seq(Request)
      /\ stack' \in [Managers -> Seq(Nat)]
      /\ processRequest' \in [Managers -> Nat]
      /\ Len(requests') = new
      /\ \A r \in 1 .. Len(requests) : requests'[r] = requests[r]
      /\ requests'[new] = RequestOf(m, FALSE)
      /\ processRequest'[m] = new
      /\ \A n \in Managers \ {m} : processRequest'[n] = processRequest[n]
  BY <1>1, <1>2, Sending
<1>4. requests'[new].manager = m /\ requests'[new].answer = "none"
  BY <1>3 DEF RequestOf
<1>5. Requests' = Requests \cup {new} /\ Changes' = Changes
  BY <1>1, <1>2, <1>3 DEF Requests, Changes
<1>6. Used' /\ Stacked'
  BY <1>1, <1>2, ListsSent
<1>7. Typed'
  BY <1>1, <1>2, <1>3 DEF Typed
<1>8. Clock'
  BY <1>1, <1>2, <1>5 DEF Clock, Latest
<1>9. NoneForced' => NoneForced
  BY <1>3, <1>5 DEF NoneForced, Requests
<1>10. Slot'
  <2> SUFFICES ASSUME NoneForced', NEW q \in Requests', Open(q)'
               PROVE  processRequest'[requests'[q].manager] = q
    BY DEF Slot
  <2>1. CASE q = new
    BY <1>3, <1>4, <2>1
  <2>2. CASE q \in Requests
    <3>1. requests'[q] = requests[q] /\ Open(q)
      BY <1>3, <2>2 DEF Requests, Open
    <3>2. processRequest[requests[q].manager] = q
      BY <1>1, <1>9, <2>2, <3>1 DEF Slot
    <3>3. requests[q] \in Request /\ q # 0
      BY <1>1, <2>2 DEF Requests
    <3>4. requests[q].manager \in Managers \ {m}
      BY <1>2, <3>2, <3>3 DEF Request
    <3> QED BY <1>3, <3>1, <3>2, <3>4
  <2> QED BY <1>5, <2>1, <2>2
<1>11. WarnsBeforeLoss'
  <2>1. NoTwoInOneSecond' => NoTwoInOneSecond
    BY <1>5 DEF NoTwoInOneSecond
  <2>2. Unsaved
    BY <1>2 DEF Unsaved
  <2> QED BY <1>9, <2>1, <2>2 DEF IInv, WarnsBeforeLoss
<1> QED BY <1>6, <1>7, <1>8, <1>10, <1>11 DEF IInv

\* What both ends of a request have in common: q is another request.
LEMMA OthersInFlight ==
    ASSUME IInv, NoneForced, NEW r \in Requests, requests[r].answer = "none",
           NEW q \in Requests, q # r, Open(q)
    PROVE  /\ requests[q].manager # requests[r].manager
           /\ processRequest[requests[q].manager] = q
BY DEF IInv, Slot, Open

LEMMA SaverGone ==
    ASSUME Typed, NEW r \in Requests, UNCHANGED made,
           saver' = IF r \in removing THEN 0 ELSE saver
    PROVE  /\ saver' \in 0 .. made'
           /\ saver' = made' => saver = made
BY BatchAssumption DEF Typed, BatchAssumption

LEMMA EndKeeps ==
    ASSUME BatchAssumption, IInv, NEW r \in Requests, Succeed(r) \/ Fail(r),
           SaveEnd(requests[r].notify),
           saver' = IF r \in removing THEN 0 ELSE saver,
           UNCHANGED <<made, completeAt, elapsed>>
    PROVE  IInv'
<1>1. /\ Typed /\ Used /\ Stacked /\ Clock /\ Slot
      /\ requests[r].answer = "none"
      /\ UNCHANGED <<change, stack>>
      /\ ClearRequest(r)
  BY DEF IInv, Succeed, Fail, Settle
<1>2. PICK a \in {"ok", "error"} : requests' = Answered(r, a)
  BY DEF Succeed, Fail
<1>3. /\ requests' \in Seq(Request)
      /\ Len(requests') = Len(requests)
      /\ \A q \in Requests :
            /\ requests'[q].manager = requests[q].manager
            /\ requests'[q].notify = requests[q].notify
            /\ requests'[q].forced = requests[q].forced
            /\ q # r => requests'[q].answer = requests[q].answer
      /\ requests'[r].answer = a
  BY <1>1, <1>2, Answering
<1>4. SameRequests(requests')
  BY <1>3 DEF SameRequests
<1>5. Used' /\ Stacked'
  BY <1>1, <1>4, ListsKept
<1>6. Requests' = Requests /\ Changes' = Changes
  BY <1>1, <1>3 DEF Requests, Changes
<1>7. saver' \in 0 .. made' /\ (saver' = made' => saver = made)
  BY <1>1, SaverGone
<1>8. saving' \in {0, saving}
  BY DEF SaveEnd
<1>9. Typed'
  <2>1. processRequest' \in [Managers -> Nat]
    BY <1>1 DEF Typed, ClearRequest
  <2>2. saving' \in Nat
    BY <1>1, <1>8 DEF Typed
  <2> QED BY <1>1, <1>3, <1>7, <2>1, <2>2 DEF Typed
<1>10. Clock'
  BY <1>1, <1>6, <1>8 DEF Clock, Latest
<1>11. NoneForced' => NoneForced
  BY <1>3, <1>6, <1>7 DEF NoneForced
<1>12. NoTwoInOneSecond' => NoTwoInOneSecond
  BY <1>6 DEF NoTwoInOneSecond
<1>13. \A q \in Requests : Open(q)' => q # r /\ Open(q)
  BY <1>2, <1>3 DEF Open
<1>14. Slot'
  <2> SUFFICES ASSUME NoneForced', NEW q \in Requests, Open(q)'
               PROVE  processRequest'[requests'[q].manager] = q
    BY <1>6 DEF Slot
  <2>1. /\ requests[q].manager # requests[r].manager
        /\ processRequest[requests[q].manager] = q
    BY <1>1, <1>11, <1>13, OthersInFlight
  <2> QED BY <1>1, <1>3, <2>1 DEF ClearRequest, Typed
<1>15. WarnsBeforeLoss'
  <2> SUFFICES ASSUME NoneForced', NoTwoInOneSecond', Unsaved'
               PROVE  saving' # 0
    BY DEF WarnsBeforeLoss
  <2>1. ASSUME NEW q \in Requests, Open(q)'
        PROVE  FALSE
    <3>1. requests[q].manager # requests[r].manager
      BY <1>1, <1>11, <1>13, <2>1, OthersInFlight
    <3> QED BY <1>11, <3>1, OneManager
  <2>2. PICK m \in Managers : stack[m] # << >>
    BY <1>1, <1>6, <2>1 DEF Unsaved
  <2> QED BY <1>11, <1>12, <2>2, KeyStays
<1> QED BY <1>5, <1>9, <1>10, <1>14, <1>15 DEF IInv

LEMMA EndSendsKeeps ==
    ASSUME BatchAssumption, IInv, NEW r \in Requests, SucceedAndSend(r),
           SaveEnd(requests[r].notify),
           saver' = IF r \in removing THEN 0 ELSE saver,
           UNCHANGED <<made, completeAt, elapsed>>
    PROVE  IInv'
<1> DEFINE m == requests[r].manager
           sent == Answered(r, "ok")
           new == Len(sent) + 1
<1>1. /\ Typed /\ Used /\ Stacked /\ Clock /\ Slot
      /\ requests[r].answer = "none"
      /\ stack[m] # << >>
      /\ Send(m, FALSE, sent)
      /\ UNCHANGED change
  BY DEF IInv, SucceedAndSend, Settle
<1>2. m \in Managers /\ Len(requests) \in Nat
  <2>1. requests[r] \in Request /\ Len(requests) \in Nat
    BY <1>1 DEF Typed, Requests
  <2> QED BY <2>1 DEF Request
<1>3. /\ sent \in Seq(Request)
      /\ Len(sent) = Len(requests)
      /\ \A q \in Requests :
            /\ sent[q].manager = requests[q].manager
            /\ sent[q].notify = requests[q].notify
            /\ sent[q].forced = requests[q].forced
            /\ q # r => sent[q].answer = requests[q].answer
      /\ sent[r].answer = "ok"
  BY <1>1, Answering
<1>4. SameRequests(sent)
  BY <1>3 DEF SameRequests
<1> HIDE DEF sent
<1>5. /\ requests' \in Seq(Request)
      /\ stack' \in [Managers -> Seq(Nat)]
      /\ processRequest' \in [Managers -> Nat]
      /\ Len(requests') = new
      /\ \A q \in 1 .. Len(sent) : requests'[q] = sent[q]
      /\ requests'[new] = RequestOf(m, FALSE)
      /\ processRequest'[m] = new
      /\ \A n \in Managers \ {m} : processRequest'[n] = processRequest[n]
  BY <1>1, <1>2, <1>3, Sending
<1>6. requests'[new].manager = m /\ requests'[new].answer = "none"
  BY <1>5 DEF RequestOf
<1>7. Requests' = Requests \cup {new} /\ Changes' = Changes
  BY <1>1, <1>2, <1>3, <1>5 DEF Requests, Changes
<1>8. Used' /\ Stacked'
  BY <1>1, <1>2, <1>4, ListsSent
<1>9. saver' \in 0 .. made' /\ (saver' = made' => saver = made)
  BY <1>1, SaverGone
<1>10. saving' \in {0, saving}
  BY DEF SaveEnd
<1>11. Typed'
  BY <1>1, <1>5, <1>9, <1>10 DEF Typed
<1>12. Clock'
  BY <1>1, <1>7, <1>10 DEF Clock, Latest
<1>13. NoneForced' => NoneForced
  BY <1>3, <1>5, <1>7, <1>9 DEF NoneForced, Requests
<1>14. NoTwoInOneSecond' => NoTwoInOneSecond
  BY <1>7 DEF NoTwoInOneSecond
<1>15. Slot'
  <2> SUFFICES ASSUME NoneForced', NEW q \in Requests', Open(q)'
               PROVE  processRequest'[requests'[q].manager] = q
    BY DEF Slot
  <2>1. CASE q = new
    BY <1>5, <1>6, <2>1
  <2>2. CASE q \in Requests
    <3>1. /\ requests'[q].manager = requests[q].manager
          /\ q # r
          /\ Open(q)
      BY <1>3, <1>5, <2>2, SMTT(60) DEF Requests, Open
    <3>2. requests[q].manager # m /\ processRequest[requests[q].manager] = q
      BY <1>1, <1>13, <2>2, <3>1, OthersInFlight
    <3>3. requests[q] \in Request
      BY <1>1, <2>2 DEF Typed, Requests
    <3>4. requests[q].manager \in Managers \ {m}
      BY <3>2, <3>3 DEF Request
    <3> QED BY <1>5, <3>1, <3>2, <3>4
  <2> QED BY <1>7, <2>1, <2>2
<1>16. WarnsBeforeLoss'
  BY <1>1, <1>2, <1>13, <1>14, KeyStays DEF WarnsBeforeLoss
<1> QED BY <1>8, <1>11, <1>12, <1>15, <1>16 DEF IInv

\* A forced save sends a forced request, or has nothing to send.
LEMMA ForceKeeps ==
    ASSUME BatchAssumption, IInv, saver # 0, ForceSaver,
           saver' = 0 \/ (stack[saver] # << >> /\ UNCHANGED saver),
           saving' \in {0, saving},
           UNCHANGED <<made, completeAt, elapsed>>
    PROVE  IInv'
<1>1. /\ Typed /\ Used /\ Stacked /\ Clock
      /\ requests \in Seq(Request)
      /\ Len(requests) \in Nat
      /\ SameRequests(requests)
  BY DEF IInv, Typed, SameRequests
<1>2. saver \in Managers /\ saver' \in 0 .. made' /\ made \in Nat /\ made # 0
  BY <1>1 DEF Typed, Managers, BatchAssumption
<1>3. saving' \in Nat
  BY <1>1 DEF Typed
<1>4. CASE ForceProcess(saver)
  <2> DEFINE new == Len(requests) + 1
  <2>1. /\ stack[saver] # << >>
        /\ Send(saver, TRUE, requests)
        /\ UNCHANGED change
    BY <1>4 DEF ForceProcess, changeVars
  <2>2. /\ requests' \in Seq(Request)
        /\ stack' \in [Managers -> Seq(Nat)]
        /\ processRequest' \in [Managers -> Nat]
        /\ Len(requests') = new
        /\ requests'[new] = RequestOf(saver, TRUE)
    BY <1>1, <1>2, <2>1, Sending
  <2>3. Used' /\ Stacked'
    BY <1>1, <1>2, <2>1, ListsSent
  <2>4. Typed' /\ Clock'
    BY <1>1, <1>2, <1>3, <2>1, <2>2 DEF Typed, Clock, Latest, Changes
  <2>5. new \in Requests' /\ requests'[new].forced
    BY <1>1, <2>2 DEF Requests, RequestOf
  <2>6. ~NoneForced'
    BY <2>5 DEF NoneForced
  <2> QED BY <2>3, <2>4, <2>6 DEF IInv, Slot, WarnsBeforeLoss
<1>5. CASE stack[saver] = << >> /\ UNCHANGED batchVars
  <2>1. UNCHANGED <<change, stack, processRequest, requests>> /\ saver' = 0
    BY <1>5 DEF batchVars, changeVars, managerVars
  <2>2. Used' /\ Stacked'
    BY <1>1, <2>1, ListsKept
  <2>3. Typed' /\ Clock'
    BY <1>1, <1>2, <1>3, <2>1 DEF Typed, Clock, Latest, Changes
  <2>4. ~NoneForced'
    BY <1>2, <2>1 DEF NoneForced
  <2> QED BY <2>2, <2>3, <2>4 DEF IInv, Slot, WarnsBeforeLoss
<1> QED BY <1>4, <1>5 DEF ForceSaver

\* A forced save of a page that has no manager finds nothing unsaved, or
\* comes after one that removed it.
LEMMA ForceNothingKeeps ==
    ASSUME BatchAssumption, IInv, saver = 0, saving' = 0,
           UNCHANGED <<batchVars, saver, made, completeAt, elapsed>>
    PROVE  IInv'
<1>1. /\ Typed /\ Used /\ Stacked /\ Clock /\ Slot
      /\ requests \in Seq(Request)
      /\ SameRequests(requests)
      /\ UNCHANGED <<change, stack, processRequest, requests>>
  BY DEF IInv, Typed, SameRequests, batchVars, changeVars, managerVars
<1>2. Used' /\ Stacked'
  BY <1>1, ListsKept
<1>3. Typed' /\ Clock'
  BY <1>1 DEF Typed, Clock, Latest, Changes
<1>4. /\ NoneForced' <=> NoneForced
      /\ Unsaved' <=> Unsaved
      /\ Requests' = Requests
  BY <1>1 DEF NoneForced, Unsaved, Requests, Open
<1>5. Slot'
  BY <1>1, <1>4 DEF Slot, Open
<1>6. WarnsBeforeLoss'
  <2> SUFFICES ASSUME NoneForced PROVE ~Unsaved
    BY <1>4 DEF WarnsBeforeLoss
  <2>1. made = 0
    BY DEF NoneForced
  <2>2. ASSUME NEW r \in Requests
        PROVE  FALSE
    <3>1. requests[r] \in Request
      BY <1>1 DEF Requests
    <3>2. requests[r].manager \in Managers /\ requests[r].manager <= 0
      BY <1>1, <2>1, <3>1 DEF Request, Used
    <3> QED BY <3>2 DEF Managers
  <2>3. \A m \in Managers : stack[m] = << >>
    BY <1>1, <2>1 DEF Used, Managers
  <2> QED BY <2>2, <2>3 DEF Unsaved
<1> QED BY <1>2, <1>3, <1>5, <1>6 DEF IInv

LEMMA NextKeeps ==
    ASSUME BatchAssumption, IInv, [SNext]_vars
    PROVE  IInv'
<1>0. requests \in Seq(Request) /\ SameRequests(requests)
  BY DEF IInv, Typed, SameRequests
<1>1. ASSUME NEW f \in Fields, Edit(f)
      PROVE  IInv'
  BY <1>1, EditKeeps
<1>2. ASSUME NEW m \in Managers, Timer(m)
      PROVE  IInv'
  <2>1. CASE TimerSkips(m) \/ TimerWaits(m)
    <3>1. UNCHANGED <<change, stack, processRequest, requests>>
      BY <2>1 DEF TimerSkips, TimerWaits, changeVars
    <3>2. /\ elapsed' = TRUE
          /\ UNCHANGED <<saver, made, saving, completeAt>>
      BY <1>2 DEF Timer
    <3> QED BY <1>0, <3>1, <3>2, MarkingKeeps DEF Open
  <2>2. CASE TimerSends(m)
    BY <1>2, <2>2, TimerSendsKeeps DEF Timer
  <2> QED BY <1>2, <2>1, <2>2 DEF Timer
<1>3. ASSUME NEW r \in Requests, ServerApplies(r)
      PROVE  IInv'
  <2> DEFINE e == [requests[r] EXCEPT !.applied = TRUE]
  <2>1. /\ requests' = [requests EXCEPT ![r] = e]
        /\ UNCHANGED <<change, stack, processRequest>>
        /\ UNCHANGED <<saver, made, saving, completeAt, elapsed>>
    BY <1>3 DEF ServerApplies, Apply, changeVars, managerVars, saveVars
  <2>2. requests[r] \in Request /\ r \in 1 .. Len(requests)
    BY <1>0 DEF Requests
  <2>3. /\ e \in Request
        /\ e.manager = requests[r].manager
        /\ e.notify = requests[r].notify
        /\ e.forced = requests[r].forced
        /\ e.answer = requests[r].answer
    BY <2>2 DEF Request
  <2> HIDE DEF e
  <2>4. /\ requests' \in Seq(Request)
        /\ Len(requests') = Len(requests)
        /\ \A q \in 1 .. Len(requests) :
              requests'[q] = IF q = r THEN e ELSE requests[q]
    BY <1>0, <2>1, <2>2, <2>3, ExceptSeq
  <2>5. /\ SameRequests(requests')
        /\ \A q \in Requests : Open(q)' <=> Open(q)
    BY <2>3, <2>4 DEF SameRequests, Requests, Open
  <2> QED BY <2>1, <2>5, MarkingKeeps
<1>4. ASSUME NEW r \in Requests, RequestEnds(r)
      PROVE  IInv'
  BY <1>4, EndKeeps, EndSendsKeeps DEF RequestEnds
<1>5. ASSUME NEW r \in Requests, AnswerIsLost(r)
      PROVE  IInv'
  <2>1. /\ requests' = Answered(r, "lost")
        /\ requests[r].answer = "none"
        /\ UNCHANGED <<change, stack, processRequest>>
        /\ UNCHANGED <<saver, made, saving, completeAt, elapsed>>
    BY <1>5 DEF AnswerIsLost, Lose, changeVars, managerVars, saveVars
  <2>2. /\ SameRequests(requests')
        /\ \A q \in Requests : Open(q)' <=> Open(q)
    BY <2>1, Answering, SMTT(60) DEF IInv, SameRequests, Open
  <2> QED BY <2>1, <2>2, MarkingKeeps
<1>6. ASSUME ForceSaveDataDoc
      PROVE  IInv'
  <2>1. CASE saver = 0
    BY <1>6, <2>1, ForceNothingKeeps DEF ForceSaveDataDoc
  <2>2. CASE saver # 0
    <3>1. /\ ForceSaver
          /\ saver' = 0 \/ (stack[saver] # << >> /\ UNCHANGED saver)
      BY <1>6, <2>2, ZenonT(30)
         DEF ForceSaveDataDoc, ForceSaveDataCell, ForceSaveDataDocFields
    <3>2. saving' = 0 /\ UNCHANGED <<made, completeAt, elapsed>>
      BY <1>6 DEF ForceSaveDataDoc
    <3>3. saving' \in {0, saving}
      BY <3>2
    <3> QED BY <2>2, <3>1, <3>2, <3>3, ForceKeeps, Zenon
  <2> QED BY <2>1, <2>2
<1>7. ASSUME ForceSaveDataDocCell
      PROVE  IInv'
  <2>1. /\ saver # 0
        /\ ForceSaver
        /\ saver' = 0 \/ (stack[saver] # << >> /\ UNCHANGED saver)
    BY <1>7, ZenonT(30) DEF ForceSaveDataDocCell, ForceSaveDataCell
  <2>2. UNCHANGED <<saving, made, completeAt, elapsed>>
    BY <1>7 DEF ForceSaveDataDocCell
  <2>3. saving' \in {0, saving}
    BY <2>2
  <2> QED BY <2>1, <2>2, <2>3, ForceKeeps, Zenon
<1>8. ASSUME UNCHANGED vars
      PROVE  IInv'
  <2>1. /\ UNCHANGED <<change, stack, processRequest, requests>>
        /\ UNCHANGED <<saver, made, saving, completeAt, elapsed>>
    BY <1>8 DEF vars, batchVars, changeVars, managerVars, saveVars
  <2> QED BY <1>0, <2>1, MarkingKeeps DEF Open
<1> QED BY <1>1, <1>2, <1>3, <1>4, <1>5, <1>6, <1>7, <1>8 DEF SNext

LEMMA InitHolds ==
    ASSUME BatchAssumption, SInit
    PROVE  IInv
<1>1. /\ change = << >> /\ completeAt = << >> /\ requests = << >>
      /\ \A m \in Managers : stack[m] = << >>
      /\ made = 0 /\ saver = 0 /\ saving = 0 /\ elapsed = TRUE
      /\ stack \in [Managers -> Seq(Nat)]
      /\ processRequest \in [Managers -> Nat]
  BY DEF SInit, Init
<1>2. Changes = {} /\ Requests = {}
  BY <1>1 DEF Changes, Requests
<1>3. Typed
  BY <1>1 DEF Typed, BatchAssumption
<1>4. Used /\ Stacked /\ Slot
  BY <1>1, <1>2 DEF Used, Stacked, Slot
<1>5. Clock
  BY <1>1, <1>2 DEF Clock
<1>6. WarnsBeforeLoss
  BY <1>1, <1>2 DEF WarnsBeforeLoss, Unsaved
<1> QED BY <1>3, <1>4, <1>5, <1>6 DEF IInv

-----------------------------------------------------------------------------
(* What waits, and for what *)

\* A timer is armed with the version of its manager, and processRequest and
\* the calls that wait refer to requests of their manager; processRequest to
\* one in flight.
Follows ==
    /\ version \in [Managers -> Nat]
    /\ timer \in [Managers -> Nat]
    /\ waiting \in [Managers -> SUBSET Requests]
    /\ \A m \in Managers :
          /\ timer[m] \in {0, version[m]}
          /\ \A r \in waiting[m] : requests[r].manager = m
          /\ processRequest[m] # 0 =>
                /\ processRequest[m] \in Requests
                /\ Open(processRequest[m])
                /\ requests[processRequest[m]].manager = m

\* What a step does to the managers and the requests.
BatchStep ==
    \/ \E f \in Fields, m \in Managers : Batch(m, f)
    \/ \E m \in Managers : TimerSkips(m) \/ TimerWaits(m) \/ TimerSends(m)
    \/ \E r \in Requests : Apply(r) \/ Succeed(r) \/ SucceedAndSend(r)
                             \/ Fail(r) \/ Lose(r)
    \/ \E m \in Managers : ForceProcess(m)
    \/ UNCHANGED batchVars

LEMMA StepsBatch ==
    ASSUME IInv, [SNext]_vars
    PROVE  BatchStep
<1>1. saver \in 0 .. NumManagers /\ made \in 0 .. NumManagers /\ NumManagers \in Nat
  BY BatchAssumption DEF IInv, Typed
<1>2. saver # 0 => saver \in Managers
  BY <1>1 DEF Managers
<1>3. made < NumManagers => made + 1 \in Managers
  BY <1>1 DEF Managers
<1>4. ASSUME NEW f \in Fields, Edit(f)
      PROVE  BatchStep
  BY <1>2, <1>3, <1>4 DEF Edit, BatchStep
<1>5. ASSUME NEW m \in Managers, Timer(m)
      PROVE  BatchStep
  BY <1>5 DEF Timer, BatchStep
<1>6. ASSUME NEW r \in Requests, ServerApplies(r) \/ RequestEnds(r) \/ AnswerIsLost(r)
      PROVE  BatchStep
  BY <1>6 DEF ServerApplies, RequestEnds, AnswerIsLost, BatchStep
<1>7. CASE ForceSaveDataDoc
  BY <1>2, <1>7 DEF ForceSaveDataDoc, ForceSaveDataCell, ForceSaveDataDocFields,
                    ForceSaver, BatchStep
<1>8. CASE ForceSaveDataDocCell
  BY <1>2, <1>8 DEF ForceSaveDataDocCell, ForceSaveDataCell, ForceSaver, BatchStep
<1>9. CASE UNCHANGED vars
  BY <1>9 DEF vars, BatchStep
<1> QED BY <1>4, <1>5, <1>6, <1>7, <1>8, <1>9 DEF SNext

\* The facts of the invariant that every step needs.
LEMMA TypedFacts ==
    ASSUME IInv
    PROVE  /\ Typed
           /\ requests \in Seq(Request) /\ Len(requests) \in Nat
           /\ Requests = 1 .. Len(requests)
           /\ \A r \in Requests : requests[r] \in Request /\ requests[r].manager \in Managers
           /\ SameRequests(requests)
<1>1. /\ requests \in Seq(Request) /\ Len(requests) \in Nat
      /\ Requests = 1 .. Len(requests)
  BY DEF IInv, Typed, Requests
<1>2. \A r \in Requests : requests[r] \in Request
  BY <1>1
<1>3. \A r \in Requests : requests[r].manager \in Managers
  BY <1>2 DEF Request
<1> QED BY <1>1, <1>2, <1>3 DEF IInv, SameRequests

\* What OnlyFailuresStrand says of a step.
NoneStrands == \A m \in Managers : Stranded(m)' => Stranded(m) \/ Abandons(m)

\* The stack of m is sent; of the requests before, only those of m may have
\* been answered by the step.
LEMMA FollowsSent ==
    ASSUME IInv, Follows,
           NEW m \in Managers, NEW f \in BOOLEAN, NEW sent, SameRequests(sent),
           \A q \in Requests : sent[q].answer = requests[q].answer
                                 \/ requests[q].manager = m,
           stack[m] # << >>, Send(m, f, sent),
           version' \in [Managers -> Nat], timer' \in [Managers -> Nat],
           \A k \in Managers : timer'[k] \in {0, version'[k]},
           \A k \in Managers \ {m} : timer'[k] = timer[k] /\ waiting'[k] = waiting[k],
           waiting' \in [Managers -> SUBSET Requests],
           waiting'[m] \subseteq waiting[m]
    PROVE  Follows' /\ NoneStrands
<1> DEFINE new == Len(requests) + 1
<1>1. /\ sent \in Seq(Request) /\ Len(sent) = Len(requests) /\ Len(requests) \in Nat
      /\ Requests = 1 .. Len(requests) /\ Typed
  BY TypedFacts DEF SameRequests
<1>2. /\ Len(requests') = new
      /\ \A r \in Requests : requests'[r] = sent[r]
      /\ requests'[new] = RequestOf(m, f)
      /\ processRequest'[m] = new
      /\ \A n \in Managers \ {m} : /\ stack'[n] = stack[n]
                                   /\ processRequest'[n] = processRequest[n]
      /\ stack'[m] = << >>
  BY <1>1, Sending
<1>3. requests'[new].manager = m /\ requests'[new].answer = "none"
  BY <1>2 DEF RequestOf
<1>4. Requests' = Requests \cup {new}
  BY <1>1, <1>2 DEF Requests
<1>5. \A q \in Requests : requests'[q].manager = requests[q].manager
  BY <1>2 DEF SameRequests
<1>6. \A q \in Requests :
          requests[q].manager # m => requests'[q].answer = requests[q].answer
  BY <1>2
<1>7. Follows'
  <2>1. waiting' \in [Managers -> SUBSET Requests']
    BY <1>4
  <2>2. ASSUME NEW k \in Managers
        PROVE  \A r \in waiting'[k] : requests'[r].manager = k
    BY <1>5, <2>2 DEF Follows
  <2>3. ASSUME NEW k \in Managers, processRequest'[k] # 0
        PROVE  /\ processRequest'[k] \in Requests'
               /\ Open(processRequest[k])'
               /\ requests'[processRequest'[k]].manager = k
    <3>1. CASE k = m
      BY <1>2, <1>3, <1>4, <3>1 DEF Open
    <3>2. CASE k # m
      <4>1. /\ processRequest'[k] = processRequest[k] /\ processRequest[k] \in Requests
            /\ Open(processRequest[k]) /\ requests[processRequest[k]].manager = k
        BY <1>2, <2>3, <3>2 DEF Follows
      <4> QED BY <1>4, <1>5, <1>6, <3>2, <4>1 DEF Open
    <3> QED BY <3>1, <3>2
  <2> QED BY <2>1, <2>2, <2>3 DEF Follows
<1>8. NoneStrands
  <2> SUFFICES ASSUME NEW k \in Managers, Stranded(k)'
               PROVE  Stranded(k)
    BY DEF NoneStrands
  <2>1. k # m
    BY <1>2 DEF Stranded
  <2>2. stack[k] # << >> /\ timer[k] = 0 /\ waiting'[k] = waiting[k]
    BY <1>2, <2>1 DEF Stranded
  <2>3. ASSUME NEW r \in waiting[k]
        PROVE  ~Open(r)
    <3>1. r \in Requests /\ requests[r].manager = k
      BY DEF Follows
    <3>2. requests'[r].answer = requests[r].answer
      BY <1>6, <2>1, <3>1
    <3>3. ~Open(r)'
      BY <2>2 DEF Stranded
    <3> QED BY <3>2, <3>3 DEF Open
  <2> QED BY <2>2, <2>3 DEF Stranded
<1> QED BY <1>7, <1>8

\* The step touches nothing that manager k waits for.
Untouched(k) ==
    /\ UNCHANGED <<processRequest[k], timer[k], waiting[k]>>
    /\ \A r \in Requests :
          requests[r].manager = k => requests'[r].answer = requests[r].answer

\* Whatever the step touched, what k refers to is in flight, and its stack is
\* taken or still waits, unless it is abandoned.
Rests(k) ==
    /\ \/ processRequest'[k] = 0
       \/ processRequest'[k] = processRequest[k] /\ Open(processRequest[k])'
    /\ Stranded(k)' => Stranded(k) \/ Abandons(k)

\* A timer fires or a request changes: nothing is stacked or sent.
LEMMA FollowsKept ==
    ASSUME IInv, Follows,
           SameRequests(requests'), UNCHANGED <<stack, version>>,
           timer' \in [Managers -> Nat], \A k \in Managers : timer'[k] \in {0, timer[k]},
           waiting' \in [Managers -> SUBSET Requests],
           \A k \in Managers : \A r \in waiting'[k] : requests[r].manager = k,
           \A k \in Managers : Untouched(k) \/ Rests(k)
    PROVE  Follows' /\ NoneStrands
<1>1. Requests' = Requests
  BY DEF SameRequests, Requests
<1>2. \A q \in Requests : requests'[q].manager = requests[q].manager
  BY DEF SameRequests
<1>3. Follows'
  <2>1. ASSUME NEW k \in Managers, processRequest'[k] # 0
        PROVE  /\ processRequest'[k] \in Requests'
               /\ Open(processRequest[k])'
               /\ requests'[processRequest'[k]].manager = k
    <3>1. processRequest'[k] = processRequest[k]
      BY <2>1 DEF Untouched, Rests
    <3>2. /\ processRequest[k] \in Requests /\ Open(processRequest[k])
          /\ requests[processRequest[k]].manager = k
      BY <2>1, <3>1 DEF Follows
    <3>3. Open(processRequest[k])'
      <4>1. Untouched(k) => Open(processRequest[k])'
        BY <3>1, <3>2 DEF Open, Untouched
      <4>2. Rests(k) => Open(processRequest[k])'
        BY <2>1 DEF Rests
      <4> QED BY <4>1, <4>2
    <3> QED BY <1>1, <1>2, <3>1, <3>2, <3>3
  <2>2. \A k \in Managers : \A r \in waiting'[k] : requests'[r].manager = k
    BY <1>2
  <2>3. \A k \in Managers : timer'[k] \in {0, version'[k]}
    BY DEF Follows
  <2> QED BY <1>1, <2>1, <2>2, <2>3 DEF Follows
<1>4. NoneStrands
  <2> SUFFICES ASSUME NEW k \in Managers, Stranded(k)', Untouched(k)
               PROVE  Stranded(k)
    BY DEF NoneStrands, Rests
  <2>1. timer[k] = 0 /\ waiting'[k] = waiting[k] /\ stack[k] # << >>
    BY DEF Stranded, Untouched
  <2>2. ASSUME NEW r \in waiting[k]
        PROVE  ~Open(r)
    <3>1. r \in Requests /\ requests[r].manager = k
      BY DEF Follows
    <3>2. requests'[r].answer = requests[r].answer
      BY <3>1 DEF Untouched
    <3>3. ~Open(r)'
      BY <2>1 DEF Stranded
    <3> QED BY <3>2, <3>3 DEF Open
  <2> QED BY <2>1, <2>2 DEF Stranded
<1> QED BY <1>3, <1>4

LEMMA BatchFollows ==
    ASSUME IInv, Follows, NEW f \in Fields, NEW m \in Managers, Batch(m, f)
    PROVE  Follows' /\ NoneStrands
<1>1. /\ stack' = [stack EXCEPT ![m] = Append(@, Len(change) + 1)]
      /\ version' = [version EXCEPT ![m] = @ + 1]
      /\ timer' = [timer EXCEPT ![m] = version[m] + 1]
      /\ UNCHANGED <<processRequest, waiting, requests>>
  BY DEF Batch
<1>2. /\ version' \in [Managers -> Nat] /\ timer' \in [Managers -> Nat]
      /\ timer'[m] = version'[m] /\ timer'[m] # 0
      /\ \A k \in Managers \ {m} : /\ timer'[k] = timer[k] /\ version'[k] = version[k]
                                   /\ stack'[k] = stack[k]
  BY <1>1 DEF Follows, IInv, Typed
<1>3. Follows'
  BY <1>1, <1>2 DEF Follows, Requests, Open
<1>4. NoneStrands
  <2> SUFFICES ASSUME NEW k \in Managers, Stranded(k)'
               PROVE  Stranded(k)
    BY DEF NoneStrands
  <2>1. k # m
    BY <1>2 DEF Stranded
  <2> QED BY <1>1, <1>2, <2>1 DEF Stranded, Open
<1> QED BY <1>3, <1>4

LEMMA TimerFollows ==
    ASSUME IInv, Follows, NEW m \in Managers,
           TimerSkips(m) \/ TimerWaits(m) \/ TimerSends(m)
    PROVE  Follows' /\ NoneStrands
<1>1. /\ timer[m] # 0 /\ timer' = [timer EXCEPT ![m] = 0] /\ version' = version
      /\ timer[m] = version[m]
  BY DEF TimerSkips, TimerWaits, TimerSends, TimerFires, Follows
<1>2. /\ timer' \in [Managers -> Nat] /\ timer'[m] = 0
      /\ \A k \in Managers \ {m} : timer'[k] = timer[k]
  BY <1>1 DEF Follows
<1>3. CASE TimerSkips(m)
  <2>1. /\ stack[m] = << >>
        /\ UNCHANGED <<stack, version, processRequest, waiting, requests>>
    BY <1>1, <1>3 DEF TimerSkips, Superseded
  <2>2. SameRequests(requests')
    BY <2>1, TypedFacts
  <2>3. \A k \in Managers : Open(processRequest[k])' = Open(processRequest[k])
    BY <2>1 DEF Open
  <2>4. processRequest'[m] = 0 \/ Open(processRequest[m])'
    BY <2>1, <2>3 DEF Follows
  <2>5. /\ waiting' \in [Managers -> SUBSET Requests]
        /\ \A k \in Managers : \A r \in waiting'[k] : requests[r].manager = k
    BY <2>1 DEF Follows
  <2>6. \A k \in Managers : timer'[k] \in {0, timer[k]}
    BY <1>2
  <2>7. \A k \in Managers \ {m} : Untouched(k)
    BY <1>2, <2>1 DEF Untouched
  <2>8. Rests(m)
    BY <2>1, <2>4 DEF Rests, Stranded
  <2>9. SameRequests(requests') /\ UNCHANGED <<stack, version>>
    BY <2>1, <2>2
  <2> QED BY <1>2, <2>5, <2>6, <2>7, <2>8, <2>9, FollowsKept
<1>4. CASE TimerWaits(m)
  <2>1. /\ processRequest[m] # 0
        /\ waiting' = [waiting EXCEPT ![m] = @ \cup {processRequest[m]}]
        /\ UNCHANGED <<stack, version, processRequest, requests>>
    BY <1>4 DEF TimerWaits
  <2>2. /\ processRequest[m] \in Requests /\ Open(processRequest[m])
        /\ requests[processRequest[m]].manager = m
    BY <2>1 DEF Follows
  <2>3. /\ waiting' \in [Managers -> SUBSET Requests]
        /\ waiting'[m] = waiting[m] \cup {processRequest[m]}
        /\ \A k \in Managers \ {m} : waiting'[k] = waiting[k]
    BY <2>1, <2>2 DEF Follows
  <2>4. SameRequests(requests')
    BY <2>1, TypedFacts
  <2>5. Open(processRequest[m])'
    BY <2>1, <2>2 DEF Open
  <2>6. ~Stranded(m)'
    BY <2>1, <2>3, <2>5 DEF Stranded, Open
  <2>7. \A k \in Managers : \A r \in waiting'[k] : requests[r].manager = k
    BY <2>2, <2>3 DEF Follows
  <2>8. Rests(m)
    BY <2>1, <2>5, <2>6 DEF Rests
  <2>9. \A k \in Managers \ {m} : Untouched(k)
    BY <1>2, <2>1, <2>3 DEF Untouched
  <2>10. \A k \in Managers : timer'[k] \in {0, timer[k]}
    BY <1>2
  <2>11. SameRequests(requests') /\ UNCHANGED <<stack, version>>
    BY <2>1, <2>4
  <2> QED BY <1>2, <2>3, <2>7, <2>8, <2>9, <2>10, <2>11, FollowsKept
<1>5. CASE TimerSends(m)
  <2>1. /\ stack[m] # << >> /\ Send(m, FALSE, requests) /\ waiting' = waiting
    BY <1>5 DEF TimerSends, Superseded
  <2>2. waiting' \in [Managers -> SUBSET Requests] /\ version' \in [Managers -> Nat]
    BY <1>1, <2>1 DEF Follows
  <2>3. \A k \in Managers : timer'[k] \in {0, version'[k]}
    BY <1>1, <1>2 DEF Follows
  <2> QED BY <1>2, <2>1, <2>2, <2>3, TypedFacts, FollowsSent
<1> QED BY <1>3, <1>4, <1>5

\* The server applies a request, or a request ends without another.
LEMMA RequestFollows ==
    ASSUME IInv, Follows, NEW r \in Requests,
           Apply(r) \/ Succeed(r) \/ Fail(r) \/ Lose(r)
    PROVE  Follows' /\ NoneStrands
<1>0. PICK m \in Managers : m = requests[r].manager
  BY TypedFacts
<1>1. /\ Typed /\ Len(requests) \in Nat
      /\ Requests = 1 .. Len(requests) /\ requests[r] \in Request
  BY TypedFacts
<1>2. UNCHANGED <<stack, version, timer>>
  BY DEF Apply, Succeed, Fail, Lose, managerVars
<1>3. /\ timer' \in [Managers -> Nat] /\ \A k \in Managers : timer'[k] \in {0, timer[k]}
  BY <1>2 DEF Follows
<1>4. CASE Apply(r)
  <2> DEFINE e == [requests[r] EXCEPT !.applied = TRUE]
  <2>1. requests' = [requests EXCEPT ![r] = e] /\ UNCHANGED <<processRequest, waiting>>
    BY <1>4 DEF Apply, managerVars
  <2>2. /\ e \in Request /\ e.manager = requests[r].manager
        /\ e.notify = requests[r].notify /\ e.forced = requests[r].forced
        /\ e.answer = requests[r].answer
    BY <1>1 DEF Request
  <2> HIDE DEF e
  <2>3. /\ requests' \in Seq(Request) /\ Len(requests') = Len(requests)
        /\ \A q \in 1 .. Len(requests) : requests'[q] = IF q = r THEN e ELSE requests[q]
    BY <1>1, <2>1, <2>2, TypedFacts, ExceptSeq
  <2>4. /\ SameRequests(requests')
        /\ \A q \in Requests : requests'[q].answer = requests[q].answer
    BY <1>1, <2>2, <2>3 DEF SameRequests
  <2>5. /\ waiting' \in [Managers -> SUBSET Requests]
        /\ \A k \in Managers : \A q \in waiting'[k] : requests[q].manager = k
    BY <2>1 DEF Follows
  <2>6. \A k \in Managers : Untouched(k)
    BY <1>2, <2>1, <2>4 DEF Untouched
  <2> QED BY <1>2, <1>3, <2>4, <2>5, <2>6, FollowsKept
<1>5. CASE Succeed(r) \/ Fail(r)
  <2>1. PICK a \in {"ok", "error"} : requests' = Answered(r, a) /\ (Succeed(r) => a = "ok")
    BY <1>5 DEF Succeed, Fail
  <2>2. /\ SameRequests(requests')
        /\ Len(requests') = Len(requests)
        /\ \A q \in Requests : q # r => requests'[q].answer = requests[q].answer
        /\ requests'[r].answer = a
    BY <1>1, <2>1, Answering DEF SameRequests
  <2>3. /\ requests[r].answer = "none"
        /\ waiting' = [waiting EXCEPT ![m] = @ \ {r}]
        /\ processRequest' = [processRequest EXCEPT ![m] = 0]
    BY <1>0, <1>5 DEF Succeed, Fail, Settle, ClearRequest
  <2>4. a = "ok" => ~Awaiting(r) \/ stack[m] = << >>
    <3>1. Fail(r) => requests'[r].answer = "error"
      BY <1>1, TypedFacts, Answering DEF Fail
    <3> QED BY <1>0, <1>5, <2>2, <3>1 DEF Succeed
  <2>5. /\ waiting' \in [Managers -> SUBSET Requests] /\ waiting'[m] = waiting[m] \ {r}
        /\ \A k \in Managers \ {m} : waiting'[k] = waiting[k]
        /\ processRequest'[m] = 0
        /\ \A k \in Managers \ {m} : processRequest'[k] = processRequest[k]
    BY <1>1, <2>3 DEF Follows, Typed
  <2>6. \A k \in Managers : \A q \in waiting'[k] : requests[q].manager = k
    BY <2>5 DEF Follows
  <2>7. \A k \in Managers \ {m} : Untouched(k)
    BY <1>0, <1>2, <2>2, <2>5 DEF Untouched
  <2>8. Stranded(m)' => Stranded(m) \/ Abandons(m)
    <3> SUFFICES ASSUME Stranded(m)', ~Abandons(m)
                 PROVE  Stranded(m)
      OBVIOUS
    <3>1. stack[m] # << >> /\ timer[m] = 0
      BY <1>2 DEF Stranded
    <3>2. r \notin waiting[m]
      BY <1>0, <2>2, <2>3, <2>4, <3>1 DEF Abandons, Awaiting
    <3>3. ASSUME NEW q \in waiting[m]
          PROVE  ~Open(q)
      <4>1. q \in waiting'[m] /\ q # r /\ q \in Requests
        BY <1>1, <2>5, <3>2 DEF Follows
      <4>2. requests'[q].answer = requests[q].answer /\ ~Open(q)'
        BY <2>2, <4>1 DEF Stranded
      <4> QED BY <4>2 DEF Open
    <3> QED BY <3>1, <3>3 DEF Stranded
  <2>9. Rests(m)
    BY <2>5, <2>8 DEF Rests
  <2> QED BY <1>2, <1>3, <2>2, <2>5, <2>6, <2>7, <2>9, FollowsKept
<1>6. CASE Lose(r)
  <2>1. requests' = Answered(r, "lost") /\ requests[r].answer = "none"
        /\ UNCHANGED <<processRequest, waiting>>
    BY <1>6 DEF Lose, managerVars
  <2>2. /\ SameRequests(requests')
        /\ Len(requests') = Len(requests)
        /\ \A q \in Requests : q # r => requests'[q].answer = requests[q].answer
        /\ requests'[r].answer = "lost"
    BY <1>1, <2>1, Answering DEF SameRequests
  <2>3. /\ waiting' \in [Managers -> SUBSET Requests]
        /\ \A k \in Managers : \A q \in waiting'[k] : requests[q].manager = k
    BY <2>1 DEF Follows
  <2>4. ASSUME NEW k \in Managers
        PROVE  processRequest'[k] = 0 \/ /\ processRequest'[k] = processRequest[k]
                                         /\ Open(processRequest[k])'
    <3>1. processRequest[k] # 0 => processRequest[k] \in Requests /\ Open(processRequest[k])
      BY DEF Follows
    <3> QED BY <2>1, <2>2, <3>1 DEF Open
  <2>5. ASSUME NEW k \in Managers, Stranded(k)'
        PROVE  Stranded(k)
    <3>1. stack[k] # << >> /\ timer[k] = 0 /\ waiting'[k] = waiting[k]
      BY <1>2, <2>1, <2>5 DEF Stranded
    <3>2. ASSUME NEW q \in waiting[k]
          PROVE  ~Open(q)
      <4>1. q \in Requests /\ ~Open(q)'
        BY <2>5, <3>1 DEF Stranded, Follows
      <4> QED BY <2>2, <4>1 DEF Open
    <3> QED BY <3>1, <3>2 DEF Stranded
  <2>6. \A k \in Managers : Rests(k)
    BY <2>4, <2>5 DEF Rests
  <2> QED BY <1>2, <1>3, <2>2, <2>3, <2>6, FollowsKept
<1> QED BY <1>4, <1>5, <1>6

LEMMA SendFollows ==
    ASSUME IInv, Follows, NEW r \in Requests, SucceedAndSend(r)
    PROVE  Follows' /\ NoneStrands
<1> DEFINE m == requests[r].manager
           sent == Answered(r, "ok")
<1>1. m \in Managers /\ Typed /\ Len(requests) \in Nat /\ Requests = 1 .. Len(requests)
  BY TypedFacts
<1>2. /\ stack[m] # << >> /\ Send(m, FALSE, sent) /\ requests[r].answer = "none"
      /\ waiting' = [waiting EXCEPT ![m] = @ \ {r}]
      /\ UNCHANGED <<version, timer>>
  BY DEF SucceedAndSend, Settle
<1>3. /\ sent \in Seq(Request) /\ SameRequests(sent) /\ Len(sent) = Len(requests)
      /\ \A q \in Requests : q # r => sent[q].answer = requests[q].answer
      /\ sent[r].answer = "ok"
  BY <1>1, Answering DEF SameRequests
<1> HIDE DEF sent
<1>4. /\ waiting' \in [Managers -> SUBSET Requests] /\ waiting'[m] \subseteq waiting[m]
      /\ \A k \in Managers \ {m} : waiting'[k] = waiting[k] /\ timer'[k] = timer[k]
  BY <1>1, <1>2 DEF Follows
<1>5. /\ version' \in [Managers -> Nat] /\ timer' \in [Managers -> Nat]
      /\ \A k \in Managers : timer'[k] \in {0, version'[k]}
  BY <1>2 DEF Follows
<1>6. \A q \in Requests : sent[q].answer = requests[q].answer \/ requests[q].manager = m
  BY <1>3
<1> HIDE DEF m
<1> QED BY <1>1, <1>2, <1>3, <1>4, <1>5, <1>6, FollowsSent

LEMMA ForceFollows ==
    ASSUME IInv, Follows, NEW m \in Managers, ForceProcess(m)
    PROVE  Follows' /\ NoneStrands
<1>1. /\ stack[m] # << >> /\ Send(m, TRUE, requests) /\ waiting' = waiting
      /\ timer' = [timer EXCEPT ![m] = 0] /\ version' = [version EXCEPT ![m] = @ + 1]
  BY DEF ForceProcess
<1>2. /\ version' \in [Managers -> Nat] /\ timer' \in [Managers -> Nat]
      /\ \A k \in Managers : timer'[k] \in {0, version'[k]}
      /\ \A k \in Managers \ {m} : timer'[k] = timer[k]
      /\ waiting' \in [Managers -> SUBSET Requests]
  BY <1>1 DEF Follows
<1> QED BY <1>1, <1>2, TypedFacts, FollowsSent

LEMMA StrandedKeeps ==
    ASSUME IInv, Follows, [SNext]_vars
    PROVE  Follows' /\ NoneStrands
<1>1. BatchStep
  BY StepsBatch
<1>2. CASE UNCHANGED batchVars
  <2>1. UNCHANGED <<requests, stack, version, timer, waiting, processRequest>>
    BY <1>2 DEF batchVars, managerVars
  <2> QED BY <2>1 DEF Follows, NoneStrands, Stranded, Requests, Open
<1> QED BY <1>1, <1>2, BatchFollows, TimerFollows, RequestFollows, SendFollows,
           ForceFollows DEF BatchStep

\* No request of the manager failed.
Unfailed(m) ==
    \A r \in Requests : requests[r].manager = m => requests[r].answer # "error"

\* What failed has failed for good.
LEMMA FailuresStay ==
    ASSUME IInv, Follows, [SNext]_vars
    PROVE  \A r \in Requests :
              /\ r \in Requests' /\ requests'[r].manager = requests[r].manager
              /\ requests[r].answer = "error" => requests'[r].answer = "error"
<1> DEFINE Stays == \A r \in Requests :
              /\ r \in Requests' /\ requests'[r].manager = requests[r].manager
              /\ requests[r].answer = "error" => requests'[r].answer = "error"
<1>1. /\ Typed /\ requests \in Seq(Request) /\ Len(requests) \in Nat
      /\ Requests = 1 .. Len(requests) /\ SameRequests(requests)
  BY TypedFacts
<1>2. ASSUME UNCHANGED requests
      PROVE  Stays
  BY <1>2 DEF Requests
<1>3. ASSUME NEW m \in Managers, NEW f \in BOOLEAN, stack[m] # << >>,
             Send(m, f, requests)
      PROVE  Stays
  <2>1. /\ Len(requests') = Len(requests) + 1
        /\ \A r \in Requests : requests'[r] = requests[r]
    BY <1>1, <1>3, Sending
  <2> QED BY <1>1, <2>1 DEF Requests
<1>4. ASSUME NEW r \in Requests, Apply(r)
      PROVE  Stays
  <2>1. requests' = [requests EXCEPT ![r].applied = TRUE]
    BY <1>4 DEF Apply
  <2>2. Len(requests') = Len(requests)
    BY <1>1, <2>1
  <2>3. ASSUME NEW q \in Requests
        PROVE  /\ requests'[q].manager = requests[q].manager
               /\ requests'[q].answer = requests[q].answer
    BY <1>1, <2>1 DEF Request
  <2> QED BY <2>2, <2>3 DEF Requests
<1>5. ASSUME NEW r \in Requests, NEW a \in {"ok", "error", "lost"},
             requests[r].answer = "none", requests' = Answered(r, a)
      PROVE  Stays
  <2>1. /\ SameRequests(requests')
        /\ \A q \in Requests : q # r => requests'[q].answer = requests[q].answer
    BY <1>1, <1>5, Answering DEF SameRequests
  <2> QED BY <1>5, <2>1 DEF SameRequests, Requests
<1>6. ASSUME NEW r \in Requests, SucceedAndSend(r)
      PROVE  Stays
  <2> DEFINE sent == Answered(r, "ok")
             m == requests[r].manager
  <2>1. Send(m, FALSE, sent) /\ requests[r].answer = "none" /\ stack[m] # << >>
    BY <1>6 DEF SucceedAndSend, Settle
  <2>2. /\ sent \in Seq(Request) /\ SameRequests(sent) /\ Len(sent) = Len(requests)
        /\ \A q \in Requests : q # r => sent[q].answer = requests[q].answer
    BY <1>1, Answering DEF SameRequests
  <2>3. m \in Managers
    BY TypedFacts
  <2> HIDE DEF sent, m
  <2>4. /\ Len(requests') = Len(requests) + 1
        /\ \A q \in Requests : requests'[q] = sent[q]
    BY <1>1, <2>1, <2>2, <2>3, Sending
  <2> QED BY <1>1, <2>1, <2>2, <2>4 DEF SameRequests, Requests
<1> HIDE DEF Stays
<1>7. BatchStep
  BY StepsBatch
<1>8. ASSUME NEW m \in Managers, NEW f \in Fields, Batch(m, f)
      PROVE  Stays
  BY <1>2, <1>8 DEF Batch
<1>9. ASSUME NEW m \in Managers, TimerSkips(m) \/ TimerWaits(m) \/ TimerSends(m)
      PROVE  Stays
  BY <1>2, <1>3, <1>9 DEF TimerSkips, TimerWaits, TimerSends, Superseded
<1>10. ASSUME NEW m \in Managers, ForceProcess(m)
       PROVE  Stays
  BY <1>3, <1>10 DEF ForceProcess
<1>11. ASSUME NEW r \in Requests, Succeed(r) \/ Fail(r) \/ Lose(r)
       PROVE  Stays
  BY <1>5, <1>11 DEF Succeed, Fail, Lose, Settle
<1>12. ASSUME UNCHANGED batchVars
       PROVE  Stays
  BY <1>2, <1>12 DEF batchVars
<1>13. Stays
  BY <1>4, <1>6, <1>7, <1>8, <1>9, <1>10, <1>11, <1>12 DEF BatchStep
<1> QED BY <1>13 DEF Stays

LEMMA FollowsInit == SInit => Follows
BY DEF SInit, Init, Follows

-----------------------------------------------------------------------------
(* What callers are told *)

Promises ==
    /\ promise \in Seq({"pending", "resolved", "rejected"})
    /\ Len(promise) = Len(change)
    /\ saved \in [Fields -> Nat]

\* Only what was applied is answered "ok".
Answers == \A r \in Requests : requests[r].answer = "ok" => requests[r].applied

\* A request carries the edit it notifies, as the only one of its field, and
\* no edit that came before those its manager notified earlier.
Carried ==
    \A r \in Requests :
        /\ requests[r].notify \in requests[r].data
        /\ \A c \in requests[r].data :
              /\ c \in Changes
              /\ change[c] = change[requests[r].notify] => c = requests[r].notify
              /\ \A q \in Requests :
                    q < r /\ requests[q].manager = requests[r].manager
                        => requests[q].notify < c

\* A request in flight is the last one of its manager.
LastOpen ==
    NoneForced =>
        \A r, q \in Requests :
            Open(r) /\ requests[q].manager = requests[r].manager => q <= r

\* A resolved promise was notified by a request answered "ok".
Told ==
    \A c \in Changes : promise[c] = "resolved" =>
        \E r \in Requests : requests[r].notify = c /\ requests[r].answer = "ok"

\* The row holds what an applied request notifies, or something later.
Written ==
    NoneForced /\ NoneFailed =>
        \A r \in Requests : requests[r].applied =>
            saved[change[requests[r].notify]] >= requests[r].notify

RInv == Promises /\ Answers /\ Carried /\ LastOpen /\ Told /\ Written

\* s are the requests so far, after one of them may have been answered.
Kept(s) ==
    /\ SameRequests(s)
    /\ \A q \in Requests : /\ s[q].data = requests[q].data
                           /\ s[q].applied <=> requests[q].applied
                           /\ s[q].answer = "ok" => s[q].applied

\* The promises of the step agree with the answers in s.
Telling(s) ==
    /\ promise' \in Seq({"pending", "resolved", "rejected"})
    /\ Len(promise') = Len(change)
    /\ \A c \in Changes : promise'[c] = "resolved" =>
          \E q \in Requests : s[q].notify = c /\ s[q].answer = "ok"

LEMMA NothingAnswered ==
    ASSUME IInv, RInv, UNCHANGED promise
    PROVE  Kept(requests) /\ Telling(requests)
<1>1. SameRequests(requests)
  BY TypedFacts
<1> QED BY <1>1 DEF Kept, Telling, RInv, Promises, Answers, Told

LEMMA AnswerTells ==
    ASSUME IInv, RInv, NEW r \in Requests, NEW a \in {"ok", "error", "lost"},
           NEW o \in {"resolved", "rejected"}, requests[r].answer = "none",
           a = "ok" => requests[r].applied, o = "resolved" => a = "ok",
           promise' = [promise EXCEPT ![requests[r].notify] = o] \/ UNCHANGED promise
    PROVE  Kept(Answered(r, a)) /\ Telling(Answered(r, a))
<1>1. /\ Typed /\ requests \in Seq(Request) /\ Requests = 1 .. Len(requests)
      /\ Len(requests) \in Nat /\ requests[r] \in Request
  BY TypedFacts
<1> DEFINE e == [requests[r] EXCEPT !.answer = a]
           s == Answered(r, a)
<1>2. /\ e \in Request /\ e.manager = requests[r].manager
      /\ e.notify = requests[r].notify /\ e.forced = requests[r].forced
      /\ e.data = requests[r].data /\ e.applied = requests[r].applied /\ e.answer = a
  BY <1>1 DEF Request
<1>3. s = [requests EXCEPT ![r] = e]
  BY DEF Answered
<1> HIDE DEF e, s
<1>4. /\ s \in Seq(Request) /\ Len(s) = Len(requests)
      /\ \A q \in Requests : s[q] = IF q = r THEN e ELSE requests[q]
  BY <1>1, <1>2, <1>3, ExceptSeq
<1>5. SameRequests(s)
  BY <1>2, <1>4 DEF SameRequests
<1>6. ASSUME NEW q \in Requests
      PROVE  /\ s[q].data = requests[q].data
             /\ s[q].applied <=> requests[q].applied
             /\ s[q].answer = "ok" => s[q].applied
  BY <1>2, <1>4 DEF RInv, Answers
<1>7. Kept(s)
  BY <1>5, <1>6 DEF Kept
<1>8. Telling(s)
  <2>1. /\ promise \in Seq({"pending", "resolved", "rejected"})
        /\ Len(promise) = Len(change) /\ Len(change) \in Nat
    BY <1>1 DEF RInv, Promises, Typed
  <2>2. requests[r].notify \in 1 .. Len(promise)
    BY <2>1 DEF IInv, Stacked, Changes
  <2>3. /\ promise' \in Seq({"pending", "resolved", "rejected"})
        /\ Len(promise') = Len(change)
        /\ \A c \in Changes : promise'[c] = "resolved" =>
              promise[c] = "resolved" \/ (c = requests[r].notify /\ a = "ok")
    <3>1. CASE UNCHANGED promise
      BY <2>1, <3>1
    <3>2. CASE promise' = [promise EXCEPT ![requests[r].notify] = o]
      <4>1. o \in {"pending", "resolved", "rejected"}
        OBVIOUS
      <4>2. /\ promise' \in Seq({"pending", "resolved", "rejected"})
            /\ Len(promise') = Len(promise)
            /\ \A j \in 1 .. Len(promise) :
                  promise'[j] = IF j = requests[r].notify THEN o ELSE promise[j]
        BY <2>1, <2>2, <3>2, <4>1, ExceptSeq
      <4> QED BY <2>1, <4>2 DEF Changes
    <3> QED BY <3>1, <3>2
  <2>4. ASSUME NEW c \in Changes, promise'[c] = "resolved"
        PROVE  \E q \in Requests : s[q].notify = c /\ s[q].answer = "ok"
    <3>1. CASE c = requests[r].notify /\ a = "ok"
      BY <1>2, <1>4, <3>1
    <3>2. CASE promise[c] = "resolved"
      <4>1. PICK q \in Requests : requests[q].notify = c /\ requests[q].answer = "ok"
        BY <3>2 DEF RInv, Told
      <4>2. q # r
        BY <4>1
      <4> QED BY <1>4, <4>1, <4>2
    <3> QED BY <2>3, <2>4, <3>1, <3>2
  <2> QED BY <2>3, <2>4 DEF Telling
<1> QED BY <1>7, <1>8 DEF s

\* A step that sends nothing, and after which no more is in flight.
LEMMA KeptTold ==
    ASSUME IInv, RInv, NoneForced' => NoneForced, NoneFailed' => NoneFailed,
           Kept(requests'), Telling(requests'),
           \A q \in Requests : Open(q)' => Open(q), UNCHANGED <<change, saved>>
    PROVE  RInv'
<1>1. Requests' = Requests /\ Changes' = Changes
  BY DEF Kept, SameRequests, Requests, Changes
<1>2. \A q \in Requests : /\ requests'[q].manager = requests[q].manager
                          /\ requests'[q].notify = requests[q].notify
                          /\ requests'[q].data = requests[q].data
                          /\ requests'[q].applied <=> requests[q].applied
                          /\ requests'[q].answer = "ok" => requests'[q].applied
  BY DEF Kept, SameRequests
<1>3. Promises' /\ Told'
  BY <1>1 DEF Telling, RInv, Promises, Told
<1>4. Answers'
  BY <1>1, <1>2 DEF Answers
<1>5. Carried'
  BY <1>1, <1>2 DEF RInv, Carried
<1>6. LastOpen'
  BY <1>1, <1>2 DEF RInv, LastOpen
<1>7. Written'
  BY <1>1, <1>2 DEF RInv, Written
<1> QED BY <1>3, <1>4, <1>5, <1>6, <1>7 DEF RInv

\* What the merged stack of a manager holds.
LEMMA MergedStack ==
    ASSUME IInv, NEW m \in Managers, stack[m] # << >>
    PROVE  LET last == stack[m][Len(stack[m])] IN
           /\ last \in Merged(stack[m])
           /\ \A c \in Merged(stack[m]) :
                 /\ c \in Changes
                 /\ change[c] = change[last] => c = last
                 /\ \A q \in Requests :
                       requests[q].manager = m => requests[q].notify < c
<1> DEFINE s == stack[m]
<1>1. s \in Seq(Nat) /\ Len(s) \in Nat /\ Len(s) > 0 /\ DOMAIN s = 1 .. Len(s)
  BY TypedFacts DEF Typed
<1>2. \A i \in DOMAIN s : /\ s[i] \in Changes
                          /\ \A q \in Requests :
                                requests[q].manager = m => requests[q].notify < s[i]
  BY DEF IInv, Stacked
<1> HIDE DEF s
<1>3. s[Len(s)] \in Merged(s)
  <2>1. Len(s) \in DOMAIN s /\ \A k \in DOMAIN s : k <= Len(s)
    BY <1>1
  <2> QED BY <2>1 DEF Merged
<1>4. ASSUME NEW c \in Merged(s)
      PROVE  \E i \in DOMAIN s :
                /\ c = s[i]
                /\ \A k \in DOMAIN s : change[s[k]] = change[s[i]] => k <= i
  BY <1>4 DEF Merged
<1>5. ASSUME NEW c \in Merged(s), change[c] = change[s[Len(s)]]
      PROVE  c = s[Len(s)]
  <2>1. PICK i \in DOMAIN s :
                /\ c = s[i]
                /\ \A k \in DOMAIN s : change[s[k]] = change[s[i]] => k <= i
    BY <1>4
  <2>2. Len(s) \in DOMAIN s
    BY <1>1
  <2>3. Len(s) <= i
    BY <1>5, <2>1, <2>2
  <2>4. i = Len(s)
    BY <1>1, <2>3
  <2> QED BY <2>1, <2>4
<1>6. \A c \in Merged(s) : /\ c \in Changes
                           /\ \A q \in Requests :
                                 requests[q].manager = m => requests[q].notify < c
  BY <1>2, <1>4
<1> QED BY <1>3, <1>5, <1>6 DEF s

\* The stack of m is sent.
LEMMA SentTold ==
    ASSUME BatchAssumption, IInv, IInv', RInv,
           NoneForced' => NoneForced, NoneFailed' => NoneFailed,
           NEW m \in Managers, NEW f \in BOOLEAN, NEW sent, Kept(sent), Telling(sent),
           stack[m] # << >>, Send(m, f, sent), UNCHANGED <<change, saved>>
    PROVE  RInv'
<1> DEFINE new == Len(requests) + 1
<1>1. /\ Typed /\ Len(requests) \in Nat /\ Requests = 1 .. Len(requests)
      /\ sent \in Seq(Request) /\ Len(sent) = Len(requests)
  BY TypedFacts DEF Kept, SameRequests
<1>2. /\ Len(requests') = new
      /\ \A q \in Requests : requests'[q] = sent[q]
      /\ requests'[new] = RequestOf(m, f)
  BY <1>1, Sending
<1>3. /\ requests'[new].manager = m /\ requests'[new].answer = "none"
      /\ requests'[new].applied = FALSE
      /\ requests'[new].data = Merged(stack[m])
      /\ requests'[new].notify = stack[m][Len(stack[m])]
  BY <1>2 DEF RequestOf
<1>4. Requests' = Requests \cup {new} /\ Changes' = Changes /\ new \notin Requests
  BY <1>1, <1>2 DEF Requests, Changes
<1>5. \A q \in Requests : /\ requests'[q].manager = requests[q].manager
                          /\ requests'[q].notify = requests[q].notify
                          /\ requests'[q].data = requests[q].data
                          /\ requests'[q].applied <=> requests[q].applied
                          /\ requests'[q].answer = "ok" => requests'[q].applied
  BY <1>2 DEF Kept, SameRequests
<1>6. Promises'
  BY DEF Telling, RInv, Promises
<1>7. Told'
  <2> SUFFICES ASSUME NEW c \in Changes, promise'[c] = "resolved"
               PROVE  \E r \in Requests' : /\ requests'[r].notify = c
                                           /\ requests'[r].answer = "ok"
    BY <1>4 DEF Told
  <2>1. PICK q \in Requests : sent[q].notify = c /\ sent[q].answer = "ok"
    BY DEF Telling
  <2> QED BY <1>2, <1>4, <2>1
<1>8. Answers'
  BY <1>3, <1>4, <1>5 DEF Answers
<1>9. Carried'
  <2> DEFINE last == stack[m][Len(stack[m])]
  <2>1. /\ last \in Merged(stack[m])
        /\ \A c \in Merged(stack[m]) :
              /\ c \in Changes
              /\ change[c] = change[last] => c = last
              /\ \A q \in Requests :
                    requests[q].manager = m => requests[q].notify < c
    BY MergedStack
  <2> HIDE DEF last
  <2>2. ASSUME NEW r \in Requests
        PROVE  /\ requests'[r].notify \in requests'[r].data
               /\ \A c \in requests'[r].data :
                     /\ c \in Changes
                     /\ change[c] = change[requests'[r].notify] => c = requests'[r].notify
                     /\ \A q \in Requests :
                           q < r /\ requests'[q].manager = requests'[r].manager
                               => requests'[q].notify < c
    BY <1>5, <2>2 DEF RInv, Carried
  <2>3. \A r \in Requests : r < new /\ ~(new < r)
    BY <1>1
  <2>4. /\ requests'[new].notify \in requests'[new].data
        /\ \A c \in requests'[new].data :
              /\ c \in Changes
              /\ change[c] = change[requests'[new].notify] => c = requests'[new].notify
              /\ \A q \in Requests :
                    requests'[q].manager = requests'[new].manager
                        => requests'[q].notify < c
    BY <1>3, <1>5, <2>1 DEF last
  <2>5. ~(new < new)
    BY <1>1
  <2> HIDE DEF new
  <2>6. ASSUME NEW r \in Requests', NEW c \in requests'[r].data, NEW q \in Requests',
               q < r, requests'[q].manager = requests'[r].manager
        PROVE  requests'[q].notify < c
    BY <1>4, <2>2, <2>3, <2>4, <2>5, <2>6
  <2>7. ASSUME NEW r \in Requests'
        PROVE  /\ requests'[r].notify \in requests'[r].data
               /\ \A c \in requests'[r].data :
                     /\ c \in Changes
                     /\ change[c] = change[requests'[r].notify] => c = requests'[r].notify
    BY <1>4, <2>2, <2>4, <2>7
  <2> QED BY <1>4, <2>6, <2>7 DEF Carried
<1>10. LastOpen'
  <2> SUFFICES ASSUME NoneForced', NEW r \in Requests', NEW q \in Requests', Open(r)'
               PROVE  q <= r
    BY DEF LastOpen
  <2>1. requests'[new].answer = "none" /\ new \in Requests'
    BY <1>3, <1>4
  <2>2. requests'[r].manager = 1 /\ requests'[new].manager = 1
    <3>1. m = 1 /\ \A p \in Requests : requests[p].manager = 1
      BY OneManager
    <3> QED BY <1>3, <1>4, <1>5, <3>1
  <2> HIDE DEF new
  <2>3. processRequest'[1] = r
    BY <2>2 DEF IInv, Slot
  <2>4. processRequest'[1] = new
    BY <2>1, <2>2 DEF IInv, Slot, Open
  <2>5. q <= new
    BY <1>1, <1>4 DEF new
  <2> QED BY <2>3, <2>4, <2>5
<1>11. Written'
  <2> SUFFICES ASSUME NoneForced, NoneFailed, NEW r \in Requests', requests'[r].applied
               PROVE  saved[change[requests'[r].notify]] >= requests'[r].notify
    BY DEF Written
  <2>1. r \in Requests
    BY <1>3, <1>4
  <2> QED BY <1>5, <2>1 DEF RInv, Written
<1> QED BY <1>6, <1>7, <1>8, <1>9, <1>10, <1>11 DEF RInv

\* A new edit.
LEMMA BatchTold ==
    ASSUME IInv, RInv, NoneForced' => NoneForced,
           NEW f \in Fields, NEW m \in Managers, Batch(m, f)
    PROVE  RInv'
<1> DEFINE n == Len(change) + 1
<1>1. /\ change \in Seq(Fields) /\ Len(change) \in Nat
      /\ promise \in Seq({"pending", "resolved", "rejected"})
      /\ Len(promise) = Len(change) /\ saved \in [Fields -> Nat]
      /\ change' = Append(change, f) /\ promise' = Append(promise, "pending")
      /\ UNCHANGED <<requests, saved>>
  BY DEF IInv, Typed, RInv, Promises, Batch
<1>2. /\ Len(change') = n /\ Len(promise') = n
      /\ \A c \in 1 .. Len(change) : change'[c] = change[c] /\ promise'[c] = promise[c]
      /\ promise'[n] = "pending"
      /\ promise' \in Seq({"pending", "resolved", "rejected"})
  BY <1>1, AppendProperties
<1>3. /\ Changes' = Changes \cup {n} /\ Requests' = Requests
      /\ \A c \in Changes : change'[c] = change[c] /\ promise'[c] = promise[c]
  BY <1>1, <1>2 DEF Changes, Requests
<1> HIDE DEF n
<1>4. \A r \in Requests : requests[r].notify \in Changes
  BY DEF IInv, Stacked
<1>5. Promises'
  BY <1>1, <1>2 DEF Promises
<1>6. Answers' /\ LastOpen'
  BY <1>1, <1>3 DEF RInv, Answers, LastOpen, Open
<1>7. Told'
  BY <1>1, <1>2, <1>3 DEF RInv, Told
<1>8. Carried'
  <2>1. ASSUME NEW r \in Requests, NEW c \in requests[r].data
        PROVE  /\ c \in Changes'
               /\ change'[c] = change'[requests[r].notify] => c = requests[r].notify
               /\ \A q \in Requests :
                     q < r /\ requests[q].manager = requests[r].manager
                         => requests[q].notify < c
    BY <1>3, <1>4, <2>1 DEF RInv, Carried
  <2>2. \A r \in Requests : requests[r].notify \in requests[r].data
    BY DEF RInv, Carried
  <2>3. requests' = requests
    BY <1>1
  <2> QED BY <1>3, <2>1, <2>2, <2>3 DEF Carried
<1>9. Written'
  BY <1>1, <1>3, <1>4 DEF RInv, Written, NoneFailed
<1> QED BY <1>5, <1>6, <1>7, <1>8, <1>9 DEF RInv

\* The server writes what the request carries: it is the last one.
LEMMA AppliedTold ==
    ASSUME BatchAssumption, IInv, RInv, NoneForced' => NoneForced,
           NEW r \in Requests, Apply(r)
    PROVE  RInv'
<1> DEFINE e == [requests[r] EXCEPT !.applied = TRUE]
<1>1. /\ Typed /\ requests \in Seq(Request) /\ Requests = 1 .. Len(requests)
      /\ Len(requests) \in Nat /\ requests[r] \in Request
  BY TypedFacts
<1>2. /\ ~requests[r].applied /\ requests' = [requests EXCEPT ![r] = e]
      /\ saved' = [f \in Fields |->
                     IF \E c \in requests[r].data : change[c] = f
                     THEN CHOOSE c \in requests[r].data : change[c] = f
                     ELSE saved[f]]
      /\ UNCHANGED <<change, promise>>
  BY DEF Apply, changeVars
<1>3. /\ e \in Request /\ e.manager = requests[r].manager
      /\ e.notify = requests[r].notify /\ e.forced = requests[r].forced
      /\ e.data = requests[r].data /\ e.answer = requests[r].answer /\ e.applied
  BY <1>1 DEF Request
<1> HIDE DEF e
<1>4. /\ requests' \in Seq(Request) /\ Len(requests') = Len(requests)
      /\ \A q \in Requests : requests'[q] = IF q = r THEN e ELSE requests[q]
  BY <1>1, <1>2, <1>3, ExceptSeq
<1>5. /\ Requests' = Requests /\ Changes' = Changes
      /\ \A q \in Requests : /\ requests'[q].manager = requests[q].manager
                             /\ requests'[q].notify = requests[q].notify
                             /\ requests'[q].data = requests[q].data
                             /\ requests'[q].answer = requests[q].answer
  BY <1>1, <1>2, <1>3, <1>4 DEF Requests, Changes
<1>6. \A q \in Requests : requests'[q].applied <=> requests[q].applied \/ q = r
  BY <1>3, <1>4
<1>7. \A q \in Requests : /\ requests[q].data \subseteq Nat
                          /\ requests[q].notify \in Changes
  <2>1. \A q \in Requests : requests[q] \in Request
    BY <1>1
  <2> QED BY <2>1 DEF IInv, Stacked, Request
<1>8. Promises'
  BY <1>2, <1>7 DEF RInv, Promises
<1>9. Answers'
  BY <1>5, <1>6 DEF RInv, Answers
<1>10. Carried' /\ Told'
  BY <1>2, <1>5 DEF RInv, Carried, Told
<1>11. LastOpen'
  BY <1>5 DEF RInv, LastOpen, Open
<1>12. Written'
  <2> SUFFICES ASSUME NoneForced, NoneFailed', NEW q \in Requests, requests'[q].applied
               PROVE  saved'[change[requests[q].notify]] >= requests[q].notify
    BY <1>2, <1>5 DEF Written
  <2> DEFINE f == change[requests[q].notify]
  <2>1. f \in Fields /\ requests[q].notify \in Nat
    BY <1>1, <1>7 DEF Typed, Changes
  <2>2. NoneFailed
    BY <1>5 DEF NoneFailed
  <2>3. q <= r
    <3>1. requests[r] \in Request /\ requests[r].answer \notin {"ok", "error"}
      BY <1>1, <1>2, <2>2 DEF NoneFailed, RInv, Answers
    <3>2. requests[q].manager = requests[r].manager
      BY OneManager
    <3> QED BY <3>1, <3>2 DEF RInv, LastOpen, Open, Request
  <2>4. q \in Nat /\ r \in Nat
    BY <1>1
  <2>5. CASE \E c \in requests[r].data : change[c] = f
    <3> DEFINE d == CHOOSE c \in requests[r].data : change[c] = f
    <3>1. saved'[f] = d
      BY <1>2, <2>1, <2>5
    <3>2. d \in requests[r].data /\ change[d] = f
      BY <2>5
    <3>3. d \in Nat
      BY <1>7, <3>2
    <3> HIDE DEF d
    <3>4. CASE q = r
      BY <2>1, <3>1, <3>2, <3>4 DEF RInv, Carried
    <3>5. CASE q # r
      <4>1. q < r /\ requests[q].manager = requests[r].manager
        BY <2>3, <2>4, <3>5, OneManager
      <4>2. requests[q].notify < d
        BY <3>2, <4>1 DEF RInv, Carried
      <4> QED BY <2>1, <3>1, <3>3, <4>2
    <3> QED BY <3>4, <3>5
  <2>6. CASE ~\E c \in requests[r].data : change[c] = f
    <3>1. saved'[f] = saved[f]
      BY <1>2, <2>1, <2>6
    <3>2. q # r
      BY <2>6 DEF RInv, Carried
    <3>3. requests[q].applied
      BY <1>6, <3>2
    <3> QED BY <2>2, <3>1, <3>3 DEF RInv, Written
  <2> QED BY <2>5, <2>6
<1> QED BY <1>8, <1>9, <1>10, <1>11, <1>12 DEF RInv

\* Forcing is never undone.
LEMMA ForcedForGood ==
    ASSUME BatchAssumption, IInv, [SNext]_vars, NoneForced'
    PROVE  NoneForced
<1>1. /\ Typed /\ requests \in Seq(Request) /\ Requests = 1 .. Len(requests)
      /\ Len(requests) \in Nat /\ made \in Nat /\ saver \in 0 .. made
  BY TypedFacts DEF Typed, BatchAssumption
<1>2. \A q \in Requests : q \in Requests' /\ requests'[q].forced = requests[q].forced
  <2>1. CASE requests' = requests
    BY <2>1 DEF Requests
  <2>2. ASSUME NEW sent, NEW m \in Managers, NEW f \in BOOLEAN, SameRequests(sent),
               stack[m] # << >>, Send(m, f, sent)
        PROVE  \A q \in Requests : q \in Requests' /\ requests'[q].forced = requests[q].forced
    <3>1. sent \in Seq(Request) /\ Len(sent) = Len(requests)
      BY <2>2 DEF SameRequests
    <3>2. /\ Len(requests') = Len(requests) + 1
          /\ \A q \in Requests : requests'[q] = sent[q]
      BY <1>1, <2>2, <3>1, Sending
    <3> QED BY <1>1, <2>2, <3>2 DEF SameRequests, Requests
  <2>3. ASSUME NEW r \in Requests, NEW a \in {"ok", "error", "lost"}
        PROVE  SameRequests(Answered(r, a))
    BY <1>1, <2>3, Answering DEF SameRequests
  <2>4. ASSUME SameRequests(requests')
        PROVE  \A q \in Requests : q \in Requests' /\ requests'[q].forced = requests[q].forced
    BY <2>4 DEF SameRequests, Requests
  <2>5. BatchStep
    BY StepsBatch
  <2>6. ASSUME NEW m \in Managers, TimerSends(m)
        PROVE  \A q \in Requests : q \in Requests' /\ requests'[q].forced = requests[q].forced
    BY <2>2, <2>6, TypedFacts DEF TimerSends, Superseded
  <2>7. ASSUME NEW m \in Managers, ForceProcess(m)
        PROVE  \A q \in Requests : q \in Requests' /\ requests'[q].forced = requests[q].forced
    BY <2>2, <2>7, TypedFacts DEF ForceProcess
  <2>8. ASSUME NEW r \in Requests, SucceedAndSend(r)
        PROVE  \A q \in Requests : q \in Requests' /\ requests'[q].forced = requests[q].forced
    <3>1. requests[r].manager \in Managers
      BY TypedFacts
    <3> QED BY <2>2, <2>3, <2>8, <3>1 DEF SucceedAndSend
  <2>9. ASSUME NEW r \in Requests, Succeed(r) \/ Fail(r) \/ Lose(r)
        PROVE  \A q \in Requests : q \in Requests' /\ requests'[q].forced = requests[q].forced
    BY <2>3, <2>4, <2>9 DEF Succeed, Fail, Lose
  <2>10. ASSUME NEW r \in Requests, Apply(r)
         PROVE  \A q \in Requests : q \in Requests' /\ requests'[q].forced = requests[q].forced
    <3> DEFINE e == [requests[r] EXCEPT !.applied = TRUE]
    <3>1. requests[r] \in Request /\ requests' = [requests EXCEPT ![r] = e]
      BY <1>1, <2>10 DEF Apply
    <3>2. e \in Request /\ e.forced = requests[r].forced
      BY <3>1 DEF Request
    <3> HIDE DEF e
    <3>3. /\ Len(requests') = Len(requests)
          /\ \A q \in Requests : requests'[q] = IF q = r THEN e ELSE requests[q]
      BY <1>1, <3>1, <3>2, ExceptSeq
    <3> QED BY <3>2, <3>3 DEF Requests
  <2>11. ASSUME NEW m \in Managers,
                TimerSkips(m) \/ TimerWaits(m) \/ (\E f \in Fields : Batch(m, f))
         PROVE  requests' = requests
    BY <2>11 DEF TimerSkips, TimerWaits, Batch
  <2>12. UNCHANGED batchVars => requests' = requests
    BY DEF batchVars
  <2> QED BY <2>1, <2>5, <2>6, <2>7, <2>8, <2>9, <2>10, <2>11, <2>12 DEF BatchStep
<1>3. \A q \in Requests : ~requests[q].forced
  BY <1>2 DEF NoneForced
<1>4. made <= 1 /\ saver = made
  <2>1. made' <= 1 /\ saver' = made'
    BY DEF NoneForced
  <2>2. ASSUME NEW f \in Fields, Edit(f)
        PROVE  made <= 1 /\ saver = made
    <3>1. UNCHANGED <<saver, made>> \/ (saver = 0 /\ made' = made + 1)
      BY <2>2 DEF Edit
    <3> QED BY <1>1, <2>1, <3>1
  <2>3. ASSUME NEW r \in Requests, RequestEnds(r)
        PROVE  made <= 1 /\ saver = made
    BY <1>1, <2>1, <2>3, SaverGone DEF RequestEnds
  <2>4. ASSUME saver' = 0, made' = made
        PROVE  made <= 1 /\ saver = made
    <3>1. made = 0
      BY <2>1, <2>4
    <3>2. saver = 0
      BY <1>1, <3>1
    <3> QED BY <3>1, <3>2
  <2>5. CASE ForceSaveDataDoc
    <3>1. made' = made /\ (saver' = 0 \/ saver' = saver)
      BY <2>5 DEF ForceSaveDataDoc, ForceSaveDataCell, ForceSaveDataDocFields
    <3> QED BY <2>1, <2>4, <3>1
  <2>6. CASE ForceSaveDataDocCell
    <3>1. made' = made /\ (saver' = 0 \/ saver' = saver)
      BY <2>6 DEF ForceSaveDataDocCell, ForceSaveDataCell
    <3> QED BY <2>1, <2>4, <3>1
  <2>7. ASSUME UNCHANGED <<saver, made>>
        PROVE  made <= 1 /\ saver = made
    BY <2>1, <2>7
  <2>8. ASSUME \/ \E m \in Managers : Timer(m)
               \/ \E r \in Requests : ServerApplies(r) \/ AnswerIsLost(r)
               \/ UNCHANGED vars
        PROVE  UNCHANGED <<saver, made>>
    BY <2>8 DEF Timer, ServerApplies, AnswerIsLost, saveVars, vars
  <2> QED BY <2>2, <2>3, <2>5, <2>6, <2>7, <2>8 DEF SNext
<1> QED BY <1>3, <1>4 DEF NoneForced

LEMMA ToldKeeps ==
    ASSUME BatchAssumption, IInv, IInv', RInv, [SNext]_vars
    PROVE  RInv'
<1>1. BatchStep /\ (NoneForced' => NoneForced)
  BY StepsBatch, ForcedForGood
<1>2. \A m \in Managers, f \in Fields : Batch(m, f) => RInv'
  BY <1>1, BatchTold
<1>3. ASSUME UNCHANGED <<change, promise, requests, saved>>
      PROVE  RInv'
  <2>1. Kept(requests') /\ Telling(requests')
    BY <1>3, NothingAnswered
  <2>2. NoneFailed' => NoneFailed
    BY <1>3 DEF NoneFailed, Requests
  <2>3. \A q \in Requests : Open(q)' => Open(q)
    BY <1>3 DEF Open
  <2> QED BY <1>1, <1>3, <2>1, <2>2, <2>3, KeptTold
<1>4. ASSUME NEW m \in Managers, TimerSkips(m) \/ TimerWaits(m)
      PROVE  RInv'
  <2>1. UNCHANGED <<change, promise, requests, saved>>
    BY <1>4 DEF TimerSkips, TimerWaits, changeVars
  <2> QED BY <1>3, <2>1
<1>5. ASSUME NEW m \in Managers, NEW f \in BOOLEAN, stack[m] # << >>,
             Send(m, f, requests), UNCHANGED <<change, promise, saved>>
      PROVE  RInv'
  <2>1. Kept(requests) /\ Telling(requests)
    BY <1>5, NothingAnswered
  <2>2. NoneFailed' => NoneFailed
    <3>1. /\ Len(requests') = Len(requests) + 1
          /\ \A r \in 1 .. Len(requests) : requests'[r] = requests[r]
      BY <1>5, TypedFacts, Sending
    <3> QED BY <3>1, TypedFacts DEF NoneFailed, Requests
  <2> QED BY <1>1, <1>5, <2>1, <2>2, SentTold
<1>6. ASSUME NEW m \in Managers, TimerSends(m) \/ ForceProcess(m)
      PROVE  RInv'
  <2>1. /\ stack[m] # << >> /\ UNCHANGED <<change, promise, saved>>
        /\ \E f \in BOOLEAN : Send(m, f, requests)
    BY <1>6 DEF TimerSends, ForceProcess, Superseded, changeVars
  <2> QED BY <1>5, <2>1
<1>7. ASSUME NEW r \in Requests, Apply(r)
      PROVE  RInv'
  BY <1>1, <1>7, AppliedTold
<1>8. ASSUME NEW r \in Requests, Succeed(r) \/ Fail(r) \/ Lose(r)
      PROVE  RInv'
  <2>1. PICK a \in {"ok", "error", "lost"}, o \in {"resolved", "rejected"} :
            /\ requests' = Answered(r, a) /\ requests[r].answer = "none"
            /\ a = "ok" => requests[r].applied
            /\ o = "resolved" => a = "ok"
            /\ promise' = [promise EXCEPT ![requests[r].notify] = o] \/ UNCHANGED promise
            /\ UNCHANGED <<change, saved>>
    <3>1. CASE Succeed(r)
      BY <3>1 DEF Succeed, Settle
    <3>2. CASE Fail(r)
      BY <3>2 DEF Fail, Settle
    <3>3. CASE Lose(r)
      BY <3>3 DEF Lose, changeVars
    <3> QED BY <1>8, <3>1, <3>2, <3>3
  <2>2. Kept(requests') /\ Telling(requests')
    BY <2>1, AnswerTells
  <2>3. /\ \A q \in Requests : q # r => requests'[q].answer = requests[q].answer
        /\ Requests' = Requests
    BY <2>1, TypedFacts, Answering DEF Requests
  <2>4. NoneFailed' => NoneFailed
    BY <2>1, <2>3 DEF NoneFailed
  <2>5. \A q \in Requests : Open(q)' => Open(q)
    BY <2>1, <2>3 DEF Open
  <2> QED BY <1>1, <2>1, <2>2, <2>4, <2>5, KeptTold
<1>9. ASSUME NEW r \in Requests, SucceedAndSend(r)
      PROVE  RInv'
  <2> DEFINE m == requests[r].manager
             sent == Answered(r, "ok")
  <2>1. /\ m \in Managers /\ stack[m] # << >> /\ Send(m, FALSE, sent)
        /\ requests[r].answer = "none" /\ requests[r].applied
        /\ promise' = [promise EXCEPT ![requests[r].notify] = "resolved"]
        /\ UNCHANGED <<change, saved>>
    BY <1>9, TypedFacts DEF SucceedAndSend, Settle
  <2>2. Kept(sent) /\ Telling(sent)
    BY <2>1, AnswerTells
  <2>3. /\ sent \in Seq(Request) /\ Len(sent) = Len(requests)
        /\ \A q \in Requests : q # r => sent[q].answer = requests[q].answer
    BY <1>9, TypedFacts, Answering
  <2> HIDE DEF m, sent
  <2>4. NoneFailed' => NoneFailed
    <3>1. /\ Len(requests') = Len(sent) + 1
          /\ \A q \in 1 .. Len(sent) : requests'[q] = sent[q]
      BY <2>1, <2>3, TypedFacts, Sending
    <3>2. /\ Requests \subseteq Requests'
          /\ \A q \in Requests : q # r => requests'[q].answer = requests[q].answer
      BY <2>3, <3>1, TypedFacts DEF Requests
    <3> QED BY <2>1, <3>2 DEF NoneFailed
  <2> QED BY <1>1, <2>1, <2>2, <2>4, SentTold
<1>10. UNCHANGED batchVars => RInv'
  BY <1>3 DEF batchVars, changeVars
<1> QED BY <1>1, <1>2, <1>4, <1>6, <1>7, <1>8, <1>9, <1>10 DEF BatchStep

LEMMA ToldInit ==
    ASSUME SInit
    PROVE  RInv
<1>1. /\ requests = << >> /\ change = << >> /\ promise = << >>
      /\ saved = [f \in Fields |-> 0]
  BY DEF SInit, Init
<1>2. Requests = {} /\ Changes = {}
  BY <1>1 DEF Requests, Changes
<1>3. Promises
  BY <1>1 DEF Promises
<1> QED BY <1>2, <1>3 DEF RInv, Answers, Carried, LastOpen, Told, Written

-----------------------------------------------------------------------------
\* BatchManager never has two requests of a manager in flight, as long as
\* nothing was saved by force: processBatch waits for processRequest.
THEOREM OneInFlight == SSpec => []OneAtATime
<1>1. SInit => IInv
  BY BatchAssumption, InitHolds
<1>2. IInv /\ [SNext]_vars => IInv'
  BY BatchAssumption, NextKeeps
<1>3. IInv => OneAtATime
  BY DEF IInv, Slot, OneAtATime
<1> QED BY <1>1, <1>2, <1>3, PTL DEF SSpec

\* The key of dataDocSavePromiseById, and so the question asked before the
\* page is left, is there whenever an edit is stacked or on its way, as long
\* as nothing was saved by force and no two edits fall into one second.
THEOREM AskedBeforeLeaving == SSpec => []WarnsBeforeLoss
<1>1. SInit => IInv
  BY BatchAssumption, InitHolds
<1>2. IInv /\ [SNext]_vars => IInv'
  BY BatchAssumption, NextKeeps
<1>3. IInv => WarnsBeforeLoss
  BY DEF IInv
<1> QED BY <1>1, <1>2, <1>3, PTL DEF SSpec

\* Edits that are stacked are left there only by a step in which a request
\* that a batch of their manager awaits fails: nothing else, forced saves and
\* lost answers included, takes the last timer or waiting call from a stack.
THEOREM OnlyFailuresAbandon == SSpec => OnlyFailuresStrand
<1> DEFINE FInv == IInv /\ Follows
           Fails == \A m \in Managers : Stranded(m)' => Stranded(m) \/ Abandons(m)
<1>1. SInit => FInv
  BY BatchAssumption, InitHolds, FollowsInit
<1>2. FInv /\ [SNext]_vars => FInv'
  BY BatchAssumption, NextKeeps, StrandedKeeps
<1>3. FInv /\ [SNext]_vars => [Fails]_vars
  BY StrandedKeeps DEF NoneStrands
<1> QED BY <1>1, <1>2, <1>3, PTL DEF SSpec, OnlyFailuresStrand

\* So what processBatch says of a batch that it skips, "there is another save
\* or nothing to save", is right for a manager none of whose requests failed.
THEOREM CoveredUntilFailure ==
    SSpec => [](\A m \in Managers : Unfailed(m) => ~Stranded(m))
<1> DEFINE Covered == \A m \in Managers : Unfailed(m) => ~Stranded(m)
           FInv == IInv /\ Follows /\ Covered
<1>1. SInit => FInv
  BY BatchAssumption, InitHolds, FollowsInit DEF SInit, Init, Stranded
<1>2. FInv /\ [SNext]_vars => FInv'
  <2> SUFFICES ASSUME FInv, [SNext]_vars
               PROVE  FInv'
    OBVIOUS
  <2>1. IInv' /\ Follows' /\ NoneStrands
    BY BatchAssumption, NextKeeps, StrandedKeeps
  <2>2. ASSUME NEW m \in Managers, Unfailed(m)'
        PROVE  ~Stranded(m)'
    <3>1. Unfailed(m) /\ ~Abandons(m)
      BY <2>2, FailuresStay DEF Unfailed, Abandons, Follows
    <3> QED BY <2>1, <3>1 DEF NoneStrands
  <2> QED BY <2>1, <2>2
<1>3. FInv => Covered
  OBVIOUS
<1> QED BY <1>1, <1>2, <1>3, PTL DEF SSpec

\* A caller whose promise of batch() resolved finds its edit, or a later one
\* of its field, in the row, and no older request ever overwrites it, as long
\* as nothing is saved by force and no request fails, answered or not.
THEOREM ToldTheTruth == SSpec => []ResolvedIsSaved
<1> DEFINE All == IInv /\ RInv
<1>1. SInit => All
  BY BatchAssumption, InitHolds, ToldInit
<1>2. All /\ [SNext]_vars => All'
  BY BatchAssumption, NextKeeps, ToldKeeps
<1>3. All => ResolvedIsSaved
  <2> SUFFICES ASSUME IInv, RInv, NoneForced, NoneFailed, NEW c \in Changes,
                      promise[c] = "resolved"
               PROVE  saved[change[c]] >= c
    BY DEF ResolvedIsSaved
  <2>1. PICK r \in Requests : requests[r].notify = c /\ requests[r].answer = "ok"
    BY DEF RInv, Told
  <2>2. requests[r].applied
    BY <2>1 DEF RInv, Answers
  <2> QED BY <2>1, <2>2 DEF RInv, Written
<1> QED BY <1>1, <1>2, <1>3, PTL DEF SSpec

=============================================================================
