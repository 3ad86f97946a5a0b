------------------------ MODULE DataDocCollab_proofs ------------------------
(***************************************************************************)
(* DataDocCollab for any number of tabs, documents, cells, requests and    *)
(* sockets.  A tab that makes one call at a time has a single call that    *)
(* is not settled; every event it asked for and that is still on its way   *)
(* belongs to that call, and only the last of them can settle a promise.   *)
(* No list, in the table or in a tab, has a cell twice.  And a copy that   *)
(* took every event in order, and no other, is the list of the server.     *)
(***************************************************************************)
EXTENDS DataDocCollab, SequenceTheorems, FiniteSetTheorems, TLAPS

Items == Cells \cup {None}
Rooms == Docs \cup Tabs

Events == {e \in [key: Keys \cup {"error"}, n: Nat, by: Tabs, socket: Nat,
                  doc: Docs \cup {None}, cell: Items, from: Nat, to: Nat] :
               e.key # "error" => e.doc \in Docs}

Typed ==
    /\ commits \in Nat
    /\ promiseMap \in [Tabs -> [Keys -> 0 .. commits]]
    /\ open \in [Tabs -> SUBSET (1 .. commits)]
    /\ overlapped \subseteq Tabs
    /\ at \in [Tabs -> Docs \cup {None}]
    /\ inRoom \in [Tabs -> Docs \cup {None}]
    /\ socketId \in [Tabs -> Nat] /\ left \in Nat
    /\ inbox \in [Tabs -> Seq(Events)]
    /\ \A t \in Tabs : at[t] = None => inbox[t] = <<>>
    /\ \A r \in sending : /\ r.n \in 1 .. commits
                          /\ r.emitted \in [Rooms -> Seq(Events)]

\* The events of the call n of tab t, for a room.
OfCall(t, n, room, events) ==
    \A i \in DOMAIN events : /\ events[i].by = t
                             /\ events[i].n = n
                             /\ room \in Tabs => room = t
                             /\ events[i].key = "error" => room = t

\* Every event tells whose call it is of, and a call is sent once.
Tagged ==
    /\ \A r, q \in sending : r.n = q.n => r = q
    /\ \A r \in sending : \E t \in Tabs : \A room \in Rooms :
          OfCall(t, r.n, room, r.emitted[room])
    /\ \A t \in Tabs : \A i \in DOMAIN inbox[t] :
          /\ inbox[t][i].n \in 1 .. commits
          /\ inbox[t][i].key = "error" => inbox[t][i].by = t
          /\ \A r \in sending : inbox[t][i].n # r.n

Settles(t, e) == e.key = "error" \/ promiseMap[t][e.key] \in open[t]

\* Of the events that a tab asked for, the last one alone can settle a call.
LastSettles(t, events) ==
    \A i, j \in DOMAIN events :
        i < j /\ events[i].by = t /\ events[j].by = t => ~Settles(t, events[i])

\* The events that a tab asked for are of a call that is not settled.
OfOpen(t, events) ==
    \A i \in DOMAIN events : events[i].by = t => events[i].n \in open[t]

\* The tab t waits for one call, and what is on its way is of that call.
Waits(t) ==
    /\ \A m, n \in open[t] : m = n
    /\ OfOpen(t, inbox[t])
    /\ LastSettles(t, inbox[t])
    /\ \A r \in sending : \A room \in Rooms : /\ OfOpen(t, r.emitted[room])
                                              /\ LastSettles(t, r.emitted[room])

Waited == overlapped = {} => \A t \in Tabs : Waits(t)

CallInv == Typed /\ Tagged /\ Waited /\ CallsSettledByTheirEvents

-----------------------------------------------------------------------------
(* Lists without a cell twice *)

\* A list that has no cell twice; what arrayMove took from beyond the end of a
\* copy may be there several times.
Plain(s) ==
    /\ s \in Seq(Items)
    /\ \A i, j \in DOMAIN s : i # j /\ s[i] = s[j] => s[i] = None

\* A list with an item more: those from the index i on go down by one.
LEMMA InsertAtFacts ==
    ASSUME NEW s \in Seq(Items), NEW i \in 0 .. Len(s), NEW c \in Items
    PROVE  /\ InsertAt(s, i, c) \in Seq(Items)
           /\ Len(InsertAt(s, i, c)) = Len(s) + 1
           /\ \A p \in 1 .. Len(s) + 1 :
                 InsertAt(s, i, c)[p] = IF p <= i THEN s[p]
                                        ELSE IF p = i + 1 THEN c ELSE s[p - 1]
<1> DEFINE before == SubSeq(s, 1, i)
           after == SubSeq(s, i + 1, Len(s))
           front == before \o <<c>>
           all == front \o after
<1>1. Len(s) \in Nat /\ i \in Nat /\ i <= Len(s)
  OBVIOUS
<1>2. /\ before \in Seq(Items) /\ Len(before) = i
      /\ \A p \in 1 .. i : before[p] = s[p]
  BY SubSeqProperties
<1>3. /\ after \in Seq(Items) /\ Len(after) = Len(s) - i
      /\ \A p \in 1 .. Len(s) - i : after[p] = s[i + p]
  BY SubSeqProperties
<1>4. InsertAt(s, i, c) = all
  BY DEF InsertAt
<1> HIDE DEF before, after
<1>5. /\ front \in Seq(Items) /\ Len(front) = i + 1
      /\ \A p \in 1 .. i + 1 : front[p] = IF p <= i THEN s[p] ELSE c
  BY <1>2
<1> HIDE DEF front
<1>6. /\ all \in Seq(Items) /\ Len(all) = Len(front) + Len(after)
      /\ \A p \in 1 .. Len(front) + Len(after) :
            all[p] = IF p <= Len(front) THEN front[p] ELSE after[p - Len(front)]
  BY <1>3, <1>5, ConcatProperties
<1> HIDE DEF all
<1>7. Len(front) + Len(after) = Len(s) + 1
  BY <1>1, <1>3, <1>5
<1>8. ASSUME NEW p \in 1 .. Len(s) + 1
      PROVE  all[p] = IF p <= i THEN s[p] ELSE IF p = i + 1 THEN c ELSE s[p - 1]
  <2>1. CASE p <= i + 1
    BY <1>1, <1>5, <1>6, <1>7, <2>1
  <2>2. CASE p > i + 1
    <3>1. p - (i + 1) \in 1 .. Len(s) - i /\ i + (p - (i + 1)) = p - 1
      BY <1>1, <2>2
    <3>2. all[p] = after[p - (i + 1)]
      BY <1>1, <1>5, <1>6, <1>7, <2>2
    <3> QED BY <1>1, <1>3, <2>2, <3>1, <3>2
  <2> QED BY <1>1, <2>1, <2>2
<1> QED BY <1>4, <1>6, <1>7, <1>8

\* A list with an item less: those after the index i come up by one.
LEMMA RemoveAtOf ==
    ASSUME NEW S, NEW s \in Seq(S), NEW i \in 0 .. Len(s) - 1
    PROVE  /\ RemoveAt(s, i) \in Seq(S)
           /\ Len(RemoveAt(s, i)) = Len(s) - 1
           /\ \A p \in 1 .. Len(s) - 1 :
                 RemoveAt(s, i)[p] = IF p <= i THEN s[p] ELSE s[p + 1]
<1> DEFINE before == SubSeq(s, 1, i)
           after == SubSeq(s, i + 2, Len(s))
           all == before \o after
<1>1. Len(s) \in Nat /\ i \in Nat /\ i < Len(s)
  OBVIOUS
<1>2. /\ before \in Seq(S) /\ Len(before) = i
      /\ \A p \in 1 .. i : before[p] = s[p]
  BY SubSeqProperties
<1>3. /\ after \in Seq(S) /\ Len(after) = Len(s) - 1 - i
      /\ \A p \in 1 .. Len(s) - 1 - i : after[p] = s[i + 1 + p]
  BY SubSeqProperties
<1>4. RemoveAt(s, i) = all
  BY DEF RemoveAt
<1> HIDE DEF before, after
<1>5. /\ all \in Seq(S) /\ Len(all) = Len(before) + Len(after)
      /\ \A p \in 1 .. Len(before) + Len(after) :
            all[p] = IF p <= Len(before) THEN before[p] ELSE after[p - Len(before)]
  BY <1>2, <1>3, ConcatProperties
<1> HIDE DEF all
<1>6. Len(before) + Len(after) = Len(s) - 1
  BY <1>1, <1>2, <1>3
<1>7. ASSUME NEW p \in 1 .. Len(s) - 1
      PROVE  all[p] = IF p <= i THEN s[p] ELSE s[p + 1]
  <2>1. CASE p <= i
    BY <1>1, <1>2, <1>5, <1>6, <2>1
  <2>2. CASE p > i
    <3>1. p - i \in 1 .. Len(s) - 1 - i /\ i + 1 + (p - i) = p + 1
      BY <1>1, <2>2
    <3>2. all[p] = after[p - i]
      BY <1>1, <1>2, <1>5, <1>6, <2>2
    <3> QED BY <1>1, <1>3, <2>2, <3>1, <3>2
  <2> QED BY <1>1, <2>1, <2>2
<1> QED BY <1>4, <1>5, <1>6, <1>7

LEMMA RemoveAtFacts ==
    ASSUME NEW s \in Seq(Items), NEW i \in 0 .. Len(s) - 1
    PROVE  /\ RemoveAt(s, i) \in Seq(Items)
           /\ Len(RemoveAt(s, i)) = Len(s) - 1
           /\ \A p \in 1 .. Len(s) - 1 :
                 RemoveAt(s, i)[p] = IF p <= i THEN s[p] ELSE s[p + 1]
BY RemoveAtOf

LEMMA InsertPlain ==
    ASSUME NEW s, Plain(s), NEW i \in 0 .. Len(s), NEW c \in Items,
           c # None => c \notin Range(s)
    PROVE  /\ Plain(InsertAt(s, i, c))
           /\ Range(InsertAt(s, i, c)) = Range(s) \cup {c}
<1> DEFINE all == InsertAt(s, i, c)
           n == Len(s)
           Back(p) == IF p <= i THEN p ELSE p - 1
<1>1. /\ s \in Seq(Items) /\ n \in Nat /\ i \in 0 .. n /\ DOMAIN s = 1 .. n
      /\ \A p, q \in 1 .. n : p # q /\ s[p] = s[q] => s[p] = None
  BY DEF Plain
<1>2. /\ all \in Seq(Items) /\ Len(all) = n + 1
      /\ \A p \in 1 .. n + 1 : all[p] = IF p <= i THEN s[p]
                                        ELSE IF p = i + 1 THEN c ELSE s[p - 1]
  <2>1. s \in Seq(Items) /\ i \in 0 .. Len(s) /\ c \in Items
    BY <1>1
  <2> HIDE DEF all, n
  <2>2. /\ InsertAt(s, i, c) \in Seq(Items)
        /\ Len(InsertAt(s, i, c)) = Len(s) + 1
        /\ \A p \in 1 .. Len(s) + 1 :
              InsertAt(s, i, c)[p] = IF p <= i THEN s[p]
                                     ELSE IF p = i + 1 THEN c ELSE s[p - 1]
    BY <2>1, InsertAtFacts
  <2> QED BY <2>2 DEF all, n
<1>3. DOMAIN all = 1 .. n + 1
  BY <1>1, <1>2
<1> HIDE DEF all, n
<1>4. \A p \in (1 .. n + 1) \ {i + 1} : Back(p) \in 1 .. n /\ all[p] = s[Back(p)]
  BY <1>1, <1>2
<1>5. \A p, q \in (1 .. n + 1) \ {i + 1} : p # q => Back(p) # Back(q)
  BY <1>1
<1>6. i + 1 \in 1 .. n + 1 /\ all[i + 1] = c
  BY <1>1, <1>2
<1>7. \A q \in 1 .. n : \E p \in (1 .. n + 1) \ {i + 1} : Back(p) = q
  <2> SUFFICES ASSUME NEW q \in 1 .. n
               PROVE  \E p \in (1 .. n + 1) \ {i + 1} : Back(p) = q
    OBVIOUS
  <2>1. CASE q <= i
    BY <1>1, <2>1
  <2>2. CASE q > i
    <3>1. q + 1 \in (1 .. n + 1) \ {i + 1} /\ Back(q + 1) = q
      BY <1>1, <2>2
    <3> QED BY <3>1
  <2> QED BY <1>1, <2>1, <2>2
<1> HIDE DEF Back
<1>8. Range(s) = {s[p] : p \in 1 .. n} /\ Range(all) = {all[p] : p \in 1 .. n + 1}
  BY <1>1, <1>3 DEF Range
<1>9. Range(all) = Range(s) \cup {c}
  <2>1. \A p \in 1 .. n + 1 : all[p] \in Range(s) \cup {c}
    BY <1>4, <1>6, <1>8
  <2>2. \A q \in 1 .. n : s[q] \in Range(all)
    BY <1>4, <1>7, <1>8
  <2> QED BY <1>6, <1>8, <2>1, <2>2
<1>10. ASSUME NEW p \in 1 .. n + 1, NEW q \in 1 .. n + 1, p # q, all[p] = all[q]
       PROVE  all[p] = None
  <2>1. CASE p # i + 1 /\ q # i + 1
    BY <1>1, <1>4, <1>5, <1>10, <2>1
  <2>2. CASE p = i + 1
    BY <1>4, <1>6, <1>8, <1>10, <2>2
  <2>3. CASE q = i + 1
    BY <1>4, <1>6, <1>8, <1>10, <2>3
  <2> QED BY <2>1, <2>2, <2>3
<1>11. Plain(all)
  BY <1>2, <1>3, <1>10 DEF Plain
<1> QED BY <1>9, <1>11 DEF all

LEMMA RemovePlain ==
    ASSUME NEW s, Plain(s), NEW i \in 0 .. Len(s) - 1
    PROVE  /\ Plain(RemoveAt(s, i))
           /\ Len(RemoveAt(s, i)) = Len(s) - 1
           /\ Range(RemoveAt(s, i)) \subseteq Range(s)
           /\ s[i + 1] # None => s[i + 1] \notin Range(RemoveAt(s, i))
<1> DEFINE rest == RemoveAt(s, i)
           n == Len(s)
           Back(p) == IF p <= i THEN p ELSE p + 1
<1>1. /\ s \in Seq(Items) /\ n \in Nat /\ i \in 0 .. n - 1 /\ DOMAIN s = 1 .. n
      /\ \A p, q \in 1 .. n : p # q /\ s[p] = s[q] => s[p] = None
  BY DEF Plain
<1>2. /\ rest \in Seq(Items) /\ Len(rest) = n - 1
      /\ \A p \in 1 .. n - 1 : rest[p] = IF p <= i THEN s[p] ELSE s[p + 1]
  BY <1>1, RemoveAtFacts
<1>3. DOMAIN rest = 1 .. n - 1
  BY <1>1, <1>2
<1> HIDE DEF rest, n
<1>4. \A p \in 1 .. n - 1 : /\ Back(p) \in (1 .. n) \ {i + 1}
                            /\ rest[p] = s[Back(p)]
  BY <1>1, <1>2
<1>5. \A p, q \in 1 .. n - 1 : p # q => Back(p) # Back(q)
  BY <1>1
<1>6. i + 1 \in 1 .. n
  BY <1>1
<1> HIDE DEF Back
<1>7. Range(s) = {s[p] : p \in 1 .. n} /\ Range(rest) = {rest[p] : p \in 1 .. n - 1}
  BY <1>1, <1>3 DEF Range
<1>8. Range(rest) \subseteq Range(s)
  BY <1>4, <1>7
<1>9. s[i + 1] # None => s[i + 1] \notin Range(rest)
  BY <1>1, <1>4, <1>6, <1>7
<1>10. Plain(rest)
  BY <1>1, <1>2, <1>3, <1>4, <1>5 DEF Plain
<1> QED BY <1>2, <1>8, <1>9, <1>10 DEF rest, n

LEMMA AppendPlain ==
    ASSUME NEW s, Plain(s), NEW c \in Items, c # None => c \notin Range(s)
    PROVE  Plain(Append(s, c))
<1> DEFINE all == Append(s, c)
           n == Len(s)
<1>1. /\ s \in Seq(Items) /\ n \in Nat /\ DOMAIN s = 1 .. n
      /\ \A p, q \in 1 .. n : p # q /\ s[p] = s[q] => s[p] = None
  BY DEF Plain
<1>2. /\ all \in Seq(Items) /\ DOMAIN all = 1 .. n + 1
      /\ \A p \in 1 .. n : all[p] = s[p]
      /\ all[n + 1] = c
  BY <1>1, AppendProperties
<1>3. Range(s) = {s[p] : p \in 1 .. n}
  BY <1>1 DEF Range
<1> HIDE DEF all, n
<1>4. \A p \in 1 .. n + 1 : p = n + 1 \/ p \in 1 .. n
  BY <1>1
<1>5. ASSUME NEW p \in 1 .. n + 1, NEW q \in 1 .. n + 1, p # q, all[p] = all[q]
      PROVE  all[p] = None
  BY <1>1, <1>2, <1>3, <1>4, <1>5
<1>6. Plain(all)
  BY <1>2, <1>5 DEF Plain
<1> QED BY <1>6 DEF all

\* The filter leaves every other cell in, once for each time it was there.
LEMMA WithoutPlain ==
    ASSUME NEW s, Plain(s), NEW c \in Items
    PROVE  Plain(Without(s, c)) /\ c \notin Range(Without(s, c))
<1> DEFINE kept == {i \in DOMAIN s : s[i] # c}
           upto(i) == {j \in kept : j <= i}
           m == Cardinality(kept)
           rank == [i \in kept |-> Cardinality(upto(i))]
           at1(k) == CHOOSE i \in kept : Cardinality(upto(i)) = k
           rest == [k \in 1 .. m |-> s[at1(k)]]
<1>1. /\ s \in Seq(Items) /\ Len(s) \in Nat /\ DOMAIN s = 1 .. Len(s)
      /\ \A i, j \in DOMAIN s : i # j /\ s[i] = s[j] => s[i] = None
  BY DEF Plain
<1>2. Without(s, c) = rest
  BY DEF Without
<1>3. IsFiniteSet(kept) /\ kept \subseteq Nat /\ kept \subseteq DOMAIN s
  <2>1. IsFiniteSet(DOMAIN s)
    BY <1>1, FS_Interval
  <2>2. kept \in SUBSET DOMAIN s
    OBVIOUS
  <2> QED BY <1>1, <2>1, <2>2, FS_Subset
<1>4. \A i \in kept : s[i] \in Items \ {c}
  BY <1>1
<1> HIDE DEF kept
<1>5. m \in Nat /\ IsFiniteSet(1 .. m) /\ Cardinality(1 .. m) = m
  <2>1. m \in Nat
    BY <1>3, FS_CardinalityType
  <2> HIDE DEF m
  <2> QED BY <2>1, FS_Interval
<1>6. \A i \in kept : /\ upto(i) \in SUBSET kept /\ IsFiniteSet(upto(i)) /\ i \in upto(i)
                      /\ Cardinality(upto(i)) \in 1 .. m
  <2> TAKE i \in kept
  <2>1. upto(i) \in SUBSET kept /\ i \in upto(i)
    BY <1>3
  <2> HIDE DEF upto
  <2>2. IsFiniteSet(upto(i)) /\ Cardinality(upto(i)) <= m
    BY <1>3, <2>1, FS_Subset
  <2>3. Cardinality(upto(i)) \in Nat /\ Cardinality(upto(i)) # 0
    BY <2>1, <2>2, FS_CardinalityType, FS_EmptySet
  <2> HIDE DEF m
  <2> QED BY <1>5, <2>1, <2>2, <2>3
<1>7. ASSUME NEW i \in kept, NEW j \in kept, i < j
      PROVE  Cardinality(upto(i)) # Cardinality(upto(j))
  <2>1. upto(i) \in SUBSET upto(j) /\ j \in upto(j) /\ j \notin upto(i)
    <3>1. i \in Nat /\ j \in Nat /\ kept \subseteq Nat
      BY <1>3
    <3>2. \A k \in Nat : k <= i => k <= j
      BY <1>7, <3>1
    <3>3. j <= j /\ ~(j <= i)
      BY <1>7, <3>1
    <3> QED BY <3>1, <3>2, <3>3
  <2>2. IsFiniteSet(upto(j))
    BY <1>6
  <2> HIDE DEF upto
  <2> QED BY <2>1, <2>2, FS_Subset
<1>8. rank \in Injection(kept, 1 .. m)
  <2>1. rank \in [kept -> 1 .. m]
    BY <1>6
  <2>2. \A i, j \in kept : i # j => rank[i] # rank[j]
    <3>1. \A i, j \in kept : i # j => i < j \/ j < i
      BY <1>3
    <3> HIDE DEF upto
    <3> QED BY <1>7, <3>1
  <2> HIDE DEF rank, upto, m
  <2> QED BY <2>1, <2>2 DEF Injection, IsInjective
<1>9. rank \in Surjection(kept, 1 .. m)
  <2> HIDE DEF rank, upto
  <2>1. Cardinality(kept) = Cardinality(1 .. m)
    BY <1>5
  <2> QED BY <1>5, <1>8, <2>1, FS_Injection
<1>10. ASSUME NEW k \in 1 .. m
       PROVE  at1(k) \in kept /\ Cardinality(upto(at1(k))) = k
  <2>1. \E i \in kept : rank[i] = k
    <3> HIDE DEF rank, upto, m
    <3> QED BY <1>9 DEF Surjection
  <2>2. \E i \in kept : Cardinality(upto(i)) = k
    BY <2>1
  <2> HIDE DEF upto
  <2> QED BY <2>2
<1>11. \A k, l \in 1 .. m : k # l => at1(k) # at1(l)
  <2> HIDE DEF at1, upto, m
  <2> QED BY <1>10
<1>12. \A k \in 1 .. m : rest[k] = s[at1(k)] /\ at1(k) \in DOMAIN s /\ rest[k] \in Items \ {c}
  <2> HIDE DEF at1, upto, m
  <2> QED BY <1>3, <1>4, <1>10
<1> HIDE DEF at1
<1>13. rest \in Seq(Items) /\ DOMAIN rest = 1 .. m
  <2>1. rest \in [1 .. m -> Items]
    BY <1>12
  <2> HIDE DEF rest, m
  <2> QED BY <1>5, <2>1
<1> HIDE DEF rest, m, upto
<1>14. Plain(rest)
  BY <1>1, <1>11, <1>12, <1>13 DEF Plain
<1>15. c \notin Range(rest)
  BY <1>12, <1>13 DEF Range
<1> QED BY <1>2, <1>14, <1>15

LEMMA InsertedPlain ==
    ASSUME NEW s, Plain(s), NEW e, e.cell \in Items, e.from \in Nat
    PROVE  Plain(Inserted(s, e))
<1> DEFINE others == Without(s, e.cell)
<1>1. Plain(others) /\ e.cell \notin Range(others)
  BY WithoutPlain
<1>2. Inserted(s, e) = IF e.from > Len(others) THEN Append(others, e.cell)
                       ELSE InsertAt(others, e.from, e.cell)
  BY DEF Inserted
<1> HIDE DEF others
<1>3. CASE e.from > Len(others)
  BY <1>1, <1>2, <1>3, AppendPlain
<1>4. CASE ~(e.from > Len(others))
  <2>1. e.from \in 0 .. Len(others)
    BY <1>1, <1>4 DEF Plain
  <2>2. Plain(InsertAt(others, e.from, e.cell))
    BY <1>1, <2>1, InsertPlain
  <2> QED BY <1>2, <1>4, <2>2
<1> QED BY <1>3, <1>4

LEMMA ArrayMovedPlain ==
    ASSUME NEW s, Plain(s), NEW e, e.from \in Nat, e.to \in Nat
    PROVE  Plain(ArrayMoved(s, e))
<1> DEFINE elem == IF e.from < Len(s) THEN s[e.from + 1] ELSE None
           rest == IF e.from < Len(s) THEN RemoveAt(s, e.from) ELSE s
<1>1. /\ s \in Seq(Items) /\ Len(s) \in Nat /\ DOMAIN s = 1 .. Len(s)
  BY DEF Plain
<1>2. elem \in Items /\ Plain(rest) /\ (elem # None => elem \notin Range(rest))
  <2>1. CASE e.from < Len(s)
    <3>1. e.from \in 0 .. Len(s) - 1 /\ e.from + 1 \in 1 .. Len(s)
      BY <1>1, <2>1
    <3>2. s[e.from + 1] \in Items
      BY <1>1, <3>1
    <3>3. /\ Plain(RemoveAt(s, e.from))
          /\ s[e.from + 1] # None => s[e.from + 1] \notin Range(RemoveAt(s, e.from))
      BY <3>1, RemovePlain
    <3> QED BY <2>1, <3>2, <3>3
  <2>2. CASE ~(e.from < Len(s))
    BY <2>2 DEF Items
  <2> QED BY <2>1, <2>2
<1>3. ArrayMoved(s, e) = IF e.to > Len(rest) THEN Append(rest, elem)
                         ELSE InsertAt(rest, e.to, elem)
  BY DEF ArrayMoved
<1> HIDE DEF elem, rest
<1>4. CASE e.to > Len(rest)
  BY <1>2, <1>3, <1>4, AppendPlain
<1>5. CASE ~(e.to > Len(rest))
  <2>1. e.to \in 0 .. Len(rest)
    BY <1>2, <1>5 DEF Plain
  <2>2. Plain(InsertAt(rest, e.to, elem))
    BY <1>2, <2>1, InsertPlain
  <2> QED BY <1>3, <1>5, <2>2
<1> QED BY <1>4, <1>5

\* Whatever event is applied to a copy, and whatever copy that is.
LEMMA AppliedPlain ==
    ASSUME NEW s, Plain(s), NEW e \in Events
    PROVE  Plain(Applied(s, e))
<1>1. e.cell \in Items /\ e.from \in Nat /\ e.to \in Nat
  BY DEF Events
<1>2. Plain(Inserted(s, e)) /\ Plain(Without(s, e.cell)) /\ Plain(ArrayMoved(s, e))
  BY <1>1, InsertedPlain, WithoutPlain, ArrayMovedPlain
<1> QED BY <1>2 DEF Applied

-----------------------------------------------------------------------------
(* The lists of the server *)

Lists ==
    /\ cells \in [Docs -> Seq(Cells)]
    /\ Disjoint(cells)
    /\ made \subseteq Cells
    /\ \A d \in Docs : Range(cells[d]) \subseteq made

LEMMA Injective ==
    ASSUME NEW s
    PROVE  s \in Seq(Cells) /\ IsInjective(s) <=> Plain(s) /\ Range(s) \subseteq Cells
<1>1. ASSUME s \in Seq(Cells), IsInjective(s)
      PROVE  Plain(s) /\ Range(s) \subseteq Cells
  <2>1. DOMAIN s = 1 .. Len(s) /\ \A i \in DOMAIN s : s[i] \in Cells
    BY <1>1
  <2>2. s \in Seq(Items)
    BY <1>1 DEF Items
  <2> QED BY <1>1, <2>1, <2>2 DEF Plain, Range, IsInjective
<1>2. ASSUME Plain(s), Range(s) \subseteq Cells
      PROVE  s \in Seq(Cells) /\ IsInjective(s)
  <2>1. s \in Seq(Items) /\ DOMAIN s = 1 .. Len(s) /\ Len(s) \in Nat
    BY <1>2 DEF Plain
  <2>2. \A i \in DOMAIN s : s[i] \in Cells
    BY <1>2 DEF Range
  <2>3. s \in [1 .. Len(s) -> Items]
    BY <2>1
  <2>4. s \in [1 .. Len(s) -> Cells]
    BY <2>1, <2>2, <2>3
  <2>5. s \in Seq(Cells)
    BY <2>1, <2>4
  <2>6. IsInjective(s)
    BY <1>2, <2>2, CollabAssumption DEF Plain, IsInjective
  <2> QED BY <2>5, <2>6
<1> QED BY <1>1, <1>2

LEMMA JoinsList ==
    ASSUME NEW s \in Seq(Cells), IsInjective(s), NEW i \in 0 .. Len(s),
           NEW c \in Cells \ Range(s)
    PROVE  /\ InsertAt(s, i, c) \in Seq(Cells)
           /\ IsInjective(InsertAt(s, i, c))
           /\ Range(InsertAt(s, i, c)) = Range(s) \cup {c}
<1>1. Plain(s) /\ Range(s) \subseteq Cells
  BY Injective
<1>2. Plain(InsertAt(s, i, c)) /\ Range(InsertAt(s, i, c)) = Range(s) \cup {c}
  BY <1>1, InsertPlain DEF Items
<1> QED BY <1>1, <1>2, Injective

LEMMA PlaceInList ==
    ASSUME NEW s \in Seq(Cells), NEW c \in Range(s)
    PROVE  /\ IndexOf(s, c) \in 0 .. Len(s) - 1
           /\ s[IndexOf(s, c) + 1] = c
<1> DEFINE p == CHOOSE i \in DOMAIN s : s[i] = c
<1>1. p \in DOMAIN s /\ s[p] = c
  BY DEF Range
<1>2. IndexOf(s, c) = p - 1
  BY DEF IndexOf
<1> HIDE DEF p
<1>3. p \in 1 .. Len(s) /\ Len(s) \in Nat
  BY <1>1
<1> QED BY <1>1, <1>2, <1>3

LEMMA LeavesList ==
    ASSUME NEW s \in Seq(Cells), IsInjective(s), NEW i \in 0 .. Len(s) - 1
    PROVE  /\ RemoveAt(s, i) \in Seq(Cells)
           /\ IsInjective(RemoveAt(s, i))
           /\ Len(RemoveAt(s, i)) = Len(s) - 1
           /\ Range(RemoveAt(s, i)) \subseteq Range(s) \ {s[i + 1]}
           /\ s[i + 1] \in Range(s)
<1>1. Plain(s) /\ Range(s) \subseteq Cells
  BY Injective
<1>2. i + 1 \in DOMAIN s
  OBVIOUS
<1>3. s[i + 1] \in Range(s) /\ s[i + 1] # None
  BY <1>1, <1>2, CollabAssumption DEF Range
<1>4. /\ Plain(RemoveAt(s, i))
      /\ Len(RemoveAt(s, i)) = Len(s) - 1
      /\ Range(RemoveAt(s, i)) \subseteq Range(s) \ {s[i + 1]}
  BY <1>1, <1>3, RemovePlain
<1> QED BY <1>1, <1>3, <1>4, Injective

LEMMA MovesInList ==
    ASSUME NEW s \in Seq(Cells), IsInjective(s), NEW from \in 0 .. Len(s) - 1,
           NEW to \in 0 .. Len(s) - 1
    PROVE  /\ MoveItem(s, from, to) \in Seq(Cells)
           /\ IsInjective(MoveItem(s, from, to))
           /\ Range(MoveItem(s, from, to)) \subseteq Range(s)
<1> DEFINE rest == RemoveAt(s, from)
           c == s[from + 1]
<1>1. /\ rest \in Seq(Cells) /\ IsInjective(rest) /\ Len(rest) = Len(s) - 1
      /\ Range(rest) \subseteq Range(s) \ {c} /\ c \in Range(s)
  BY LeavesList
<1>2. MoveItem(s, from, to) = InsertAt(rest, to, c)
  BY DEF MoveItem
<1>3. Range(s) \subseteq Cells
  BY Injective
<1> HIDE DEF rest, c
<1>4. to \in 0 .. Len(rest) /\ c \in Cells \ Range(rest)
  BY <1>1, <1>3
<1>5. /\ InsertAt(rest, to, c) \in Seq(Cells) /\ IsInjective(InsertAt(rest, to, c))
      /\ Range(InsertAt(rest, to, c)) = Range(rest) \cup {c}
  BY <1>1, <1>4, JoinsList
<1> QED BY <1>1, <1>2, <1>5

\* One document has its list changed: by no cell, or by one that is new.
LEMMA OneListKeeps ==
    ASSUME Lists, NEW d \in Docs, NEW s \in Seq(Cells), IsInjective(s),
           made \subseteq made', made' \subseteq Cells,
           Range(s) \subseteq Range(cells[d]) \cup (made' \ made),
           cells' = [cells EXCEPT ![d] = s]
    PROVE  Lists'
<1>1. /\ cells' \in [Docs -> Seq(Cells)]
      /\ \A e \in Docs : cells'[e] = IF e = d THEN s ELSE cells[e]
  BY DEF Lists
<1>2. ASSUME NEW e \in Docs
      PROVE  /\ IsInjective(cells'[e])
             /\ Range(cells'[e]) \subseteq Range(cells[e]) \cup (made' \ made)
             /\ e # d => Range(cells'[e]) = Range(cells[e])
             /\ Range(cells[e]) \subseteq made
  BY <1>1 DEF Lists, Disjoint
<1>3. ASSUME NEW e \in Docs, NEW f \in Docs, e # f
      PROVE  Range(cells'[e]) \cap Range(cells'[f]) = {}
  <2>1. Range(cells[e]) \cap Range(cells[f]) = {}
    BY <1>3 DEF Lists, Disjoint
  <2>2. e # d \/ f # d
    BY <1>3
  <2> QED BY <1>2, <2>1, <2>2
<1>4. Disjoint(cells)'
  BY <1>2, <1>3 DEF Disjoint
<1>5. \A e \in Docs : Range(cells'[e]) \subseteq made'
  BY <1>2
<1> QED BY <1>1, <1>4, <1>5 DEF Lists

\* A cell goes from one document to another.
LEMMA AcrossKeeps ==
    ASSUME Lists, NEW d \in Docs, NEW source \in Docs, source # d,
           NEW c \in Range(cells[source]), NEW i \in 0 .. Len(cells[d]),
           LPaste(source, c, d, i), UNCHANGED made
    PROVE  Lists'
<1> DEFINE from == IndexOf(cells[source], c)
           S == RemoveAt(cells[source], from)
           D == InsertAt(cells[d], i, c)
<1>1. /\ cells[source] \in Seq(Cells) /\ IsInjective(cells[source])
      /\ cells[d] \in Seq(Cells) /\ IsInjective(cells[d])
      /\ Range(cells[source]) \cap Range(cells[d]) = {}
      /\ Range(cells[source]) \subseteq made /\ made \subseteq Cells
  BY DEF Lists, Disjoint
<1>2. from \in 0 .. Len(cells[source]) - 1 /\ cells[source][from + 1] = c
  BY <1>1, PlaceInList
<1>3. cells' = [cells EXCEPT ![source] = S, ![d] = D]
  BY DEF LPaste
<1> HIDE DEF from
<1>4. /\ S \in Seq(Cells) /\ IsInjective(S)
      /\ Range(S) \subseteq Range(cells[source]) \ {c}
  BY <1>1, <1>2, LeavesList
<1>5. /\ D \in Seq(Cells) /\ IsInjective(D)
      /\ Range(D) = Range(cells[d]) \cup {c}
  <2>1. c \in Cells \ Range(cells[d])
    BY <1>1
  <2> QED BY <1>1, <2>1, JoinsList
<1> HIDE DEF S, D
<1>6. /\ cells' \in [Docs -> Seq(Cells)]
      /\ \A e \in Docs : cells'[e] = IF e = d THEN D
                                     ELSE IF e = source THEN S ELSE cells[e]
  BY <1>3, <1>4, <1>5 DEF Lists
<1>7. \A e \in Docs : IsInjective(cells'[e])
  BY <1>4, <1>5, <1>6 DEF Lists, Disjoint
<1>8. \A e, f \in Docs : e # f => Range(cells[e]) \cap Range(cells[f]) = {}
  BY DEF Lists, Disjoint
<1>9. \A e \in Docs : /\ e # d => Range(cells'[e]) \subseteq Range(cells[e]) \ {c}
                      /\ e = d => Range(cells'[e]) = Range(cells[e]) \cup {c}
  <2>1. \A e \in Docs \ {source} : c \notin Range(cells[e])
    BY <1>8
  <2> QED BY <1>4, <1>5, <1>6, <2>1
<1>10. \A e, f \in Docs : e # f => Range(cells'[e]) \cap Range(cells'[f]) = {}
  BY <1>8, <1>9
<1>11. \A e \in Docs : Range(cells'[e]) \subseteq made'
  BY <1>1, <1>9 DEF Lists
<1> QED BY <1>6, <1>7, <1>10, <1>11 DEF Lists, Disjoint

\* The filter of a cell that is at one position p, or (p beyond the end) at none.
LEMMA WithoutAt ==
    ASSUME NEW s \in Seq(Items), NEW c, NEW p \in 1 .. Len(s) + 1,
           \A i \in DOMAIN s : s[i] = c <=> i = p
    PROVE  /\ Without(s, c) \in Seq(Items)
           /\ Len(Without(s, c)) = IF p <= Len(s) THEN Len(s) - 1 ELSE Len(s)
           /\ \A k \in 1 .. Len(Without(s, c)) :
                 Without(s, c)[k] = IF k < p THEN s[k] ELSE s[k + 1]
<1> DEFINE kept == {i \in DOMAIN s : s[i] # c}
           upto(i) == {j \in kept : j <= i}
           m == Cardinality(kept)
           at1(k) == CHOOSE i \in kept : Cardinality(upto(i)) = k
           rest == [k \in 1 .. m |-> s[at1(k)]]
           n == Len(s)
<1>1. n \in Nat /\ DOMAIN s = 1 .. n /\ p \in Nat /\ p >= 1 /\ p <= n + 1
      /\ \A i \in 1 .. n : s[i] \in Items
  OBVIOUS
<1>2. Without(s, c) = rest
  BY DEF Without
<1>3. kept = (1 .. n) \ {p}
  BY <1>1
<1> HIDE DEF n
<1>4. m = IF p <= n THEN n - 1 ELSE n
  <2>1. IsFiniteSet(1 .. n) /\ Cardinality(1 .. n) = n
    BY <1>1, FS_Interval
  <2>2. m = IF p \in 1 .. n THEN n - 1 ELSE n
    <3> DEFINE all == 1 .. n
    <3>1. IsFiniteSet(all)
      BY <2>1
    <3>2. Cardinality(all \ {p}) =
              IF p \in all THEN Cardinality(all) - 1 ELSE Cardinality(all)
      <4> HIDE DEF all
      <4> QED BY <3>1, FS_RemoveElement
    <3> QED BY <1>3, <2>1, <3>2
  <2> HIDE DEF m
  <2> QED BY <1>1, <2>2
<1> HIDE DEF kept, m
<1>5. ASSUME NEW i \in kept
      PROVE  Cardinality(upto(i)) = IF i < p THEN i ELSE i - 1
  <2>1. i \in 1 .. n /\ i # p
    BY <1>3
  <2>2. upto(i) = (1 .. i) \ {p}
    <3>1. \A j \in Nat : j <= i => j <= n
      BY <1>1, <2>1
    <3> QED BY <1>1, <1>3, <2>1, <3>1
  <2>3. IsFiniteSet(1 .. i) /\ Cardinality(1 .. i) = i
    BY <2>1, FS_Interval
  <2>4. Cardinality(upto(i)) = IF p \in 1 .. i THEN i - 1 ELSE i
    <3> DEFINE first == 1 .. i
    <3>1. Cardinality(first \ {p}) =
              IF p \in first THEN Cardinality(first) - 1 ELSE Cardinality(first)
      <4>1. IsFiniteSet(first)
        BY <2>3
      <4> HIDE DEF first
      <4> QED BY <4>1, FS_RemoveElement
    <3> HIDE DEF upto
    <3> QED BY <2>2, <2>3, <3>1
  <2> HIDE DEF upto
  <2> QED BY <1>1, <2>1, <2>4
<1> HIDE DEF upto
<1>6. ASSUME NEW k \in 1 .. m
      PROVE  at1(k) = IF k < p THEN k ELSE k + 1
  <2> DEFINE i == IF k < p THEN k ELSE k + 1
  <2>1. i \in 1 .. n /\ i # p /\ (IF i < p THEN i ELSE i - 1) = k
    BY <1>1, <1>4
  <2>2. i \in kept
    BY <1>3, <2>1
  <2> HIDE DEF i
  <2>3. Cardinality(upto(i)) = k
    BY <1>5, <2>1, <2>2
  <2>4. \A j \in kept : (IF j < p THEN j ELSE j - 1) = k => j = i
    BY <1>1, <1>3, <2>1
  <2>5. \A j \in kept : Cardinality(upto(j)) = k => j = i
    BY <1>5, <2>4
  <2>6. at1(k) = i
    BY <2>2, <2>3, <2>5
  <2> QED BY <2>6 DEF i
<1> HIDE DEF at1
<1>7. \A k \in 1 .. m : rest[k] = (IF k < p THEN s[k] ELSE s[k + 1]) /\ rest[k] \in Items
  <2> TAKE k \in 1 .. m
  <2>1. rest[k] = s[at1(k)]
    OBVIOUS
  <2> HIDE DEF rest
  <2>2. k \in 1 .. n /\ (~(k < p) => k + 1 \in 1 .. n)
    BY <1>1, <1>4
  <2> QED BY <1>1, <1>6, <2>1, <2>2
<1>8. rest \in Seq(Items) /\ Len(rest) = m
  <2>1. m \in Nat
    BY <1>1, <1>4
  <2>2. rest \in [1 .. m -> Items]
    BY <1>7
  <2> HIDE DEF rest
  <2> QED BY <2>1, <2>2
<1> HIDE DEF rest
<1> QED BY <1>2, <1>4, <1>7, <1>8 DEF n

LEMMA WithoutNothing ==
    ASSUME NEW s \in Seq(Items), NEW c, c \notin Range(s)
    PROVE  Without(s, c) = s
<1> DEFINE p == Len(s) + 1
           w == Without(s, c)
<1>1. p \in 1 .. Len(s) + 1 /\ \A i \in DOMAIN s : i # p /\ s[i] # c
  BY DEF Range
<1> HIDE DEF p
<1>2. /\ w \in Seq(Items)
      /\ Len(w) = IF p <= Len(s) THEN Len(s) - 1 ELSE Len(s)
      /\ \A k \in 1 .. Len(w) : w[k] = IF k < p THEN s[k] ELSE s[k + 1]
  BY <1>1, WithoutAt
<1> HIDE DEF w
<1>3. Len(w) = Len(s) /\ \A k \in 1 .. Len(s) : k < p
  BY <1>2 DEF p
<1>4. w = s
  BY <1>2, <1>3
<1> QED BY <1>4 DEF w

LEMMA WithoutOne ==
    ASSUME NEW s \in Seq(Cells), IsInjective(s), NEW c \in Range(s)
    PROVE  Without(s, c) = RemoveAt(s, IndexOf(s, c))
<1> DEFINE i == IndexOf(s, c)
           w == Without(s, c)
           r == RemoveAt(s, i)
           n == Len(s)
<1>1. i \in 0 .. n - 1 /\ s[i + 1] = c /\ s \in Seq(Items) /\ n \in Nat /\ DOMAIN s = 1 .. n
  BY PlaceInList DEF Items
<1> HIDE DEF i
<1>2. i + 1 \in 1 .. n + 1 /\ i + 1 \in DOMAIN s /\ i + 1 <= n
  BY <1>1
<1>3. \A j \in DOMAIN s : s[j] = c <=> j = i + 1
  BY <1>1, <1>2 DEF IsInjective
<1>4. /\ w \in Seq(Items) /\ Len(w) = n - 1
      /\ \A k \in 1 .. Len(w) : w[k] = IF k < i + 1 THEN s[k] ELSE s[k + 1]
  BY <1>1, <1>2, <1>3, WithoutAt
<1>5. /\ r \in Seq(Items) /\ Len(r) = n - 1
      /\ \A k \in 1 .. n - 1 : r[k] = IF k <= i THEN s[k] ELSE s[k + 1]
  BY <1>1, RemoveAtFacts
<1> HIDE DEF w, r, n
<1>6. \A k \in 1 .. n - 1 : k < i + 1 <=> k <= i
  BY <1>1
<1>7. w = r
  BY <1>1, <1>4, <1>5, <1>6
<1> QED BY <1>7 DEF w, r, i

\* On a list that does not have the cell, an insert is an insert; a cell that
\* is there once is deleted at its place; and a move from and to a place in the
\* list is a move.
LEMMA InsertedIs ==
    ASSUME NEW s \in Seq(Cells), NEW e, e.cell \notin Range(s),
           e.from \in 0 .. Len(s)
    PROVE  Inserted(s, e) = InsertAt(s, e.from, e.cell)
<1>1. Without(s, e.cell) = s
  <2>1. s \in Seq(Items)
    BY DEF Items
  <2> QED BY <2>1, WithoutNothing
<1>2. ~(e.from > Len(s))
  OBVIOUS
<1> QED BY <1>1, <1>2 DEF Inserted

LEMMA ArrayMovedIs ==
    ASSUME NEW s \in Seq(Cells), NEW e, e.from \in 0 .. Len(s) - 1,
           e.to \in 0 .. Len(s) - 1
    PROVE  ArrayMoved(s, e) = MoveItem(s, e.from, e.to)
<1> DEFINE rest == RemoveAt(s, e.from)
<1>1. Len(rest) = Len(s) - 1
  BY RemoveAtOf
<1>2. e.from < Len(s) /\ ~(e.to > Len(rest))
  BY <1>1
<1> QED BY <1>2 DEF ArrayMoved, MoveItem

-----------------------------------------------------------------------------
(* A call is made *)

\* What a call may emit: its own events, of which the last one alone has the
\* key of its promise.
Emits(t, key, emitted) ==
    /\ emitted \in [Rooms -> Seq(Events)]
    /\ \A room \in Rooms : OfCall(t, commits + 1, room, emitted[room])
    /\ \A room \in Rooms : \A i, j \in DOMAIN emitted[room] :
          i < j => emitted[room][i].key \in Keys \ {key}

LEMMA CallKeeps ==
    ASSUME CallInv, NEW t \in Tabs, NEW key \in Keys, NEW emitted,
           Commit(t, key, emitted), Emits(t, key, emitted)
    PROVE  CallInv'
<1> DEFINE n == commits + 1
           new == [n |-> n, emitted |-> emitted]
<1>1. /\ commits' = n /\ sending' = sending \cup {new}
      /\ promiseMap' = [promiseMap EXCEPT ![t][key] = n]
      /\ open' = [open EXCEPT ![t] = @ \cup {n}]
      /\ overlapped' = IF open[t] = {} THEN overlapped ELSE overlapped \cup {t}
      /\ UNCHANGED <<settled, at, inRoom, socketId, left, inbox>>
  BY DEF Commit, MakePromise, tabs
<1>2. /\ commits \in Nat /\ n \in Nat /\ 1 .. n = (1 .. commits) \cup {n}
      /\ n \notin 1 .. commits /\ n \notin 0 .. commits
  BY DEF CallInv, Typed
<1>3. /\ promiseMap' \in [Tabs -> [Keys -> 0 .. n]]
      /\ promiseMap'[t][key] = n
      /\ \A k \in Keys \ {key} : promiseMap'[t][k] = promiseMap[t][k]
      /\ \A u \in Tabs \ {t} : promiseMap'[u] = promiseMap[u]
  BY <1>1, <1>2 DEF CallInv, Typed
<1>4. /\ open' \in [Tabs -> SUBSET (1 .. n)]
      /\ open'[t] = open[t] \cup {n}
      /\ \A u \in Tabs \ {t} : open'[u] = open[u]
  BY <1>1, <1>2 DEF CallInv, Typed
<1>5. new.n = n /\ new.emitted = emitted
  OBVIOUS
<1>6. \A r \in sending : r.n \in 1 .. commits /\ r.emitted \in [Rooms -> Seq(Events)]
  BY DEF CallInv, Typed
<1> HIDE DEF n, new
<1>7. Typed'
  <2>1. \A r \in sending' : /\ r.n \in 1 .. n
                            /\ r.emitted \in [Rooms -> Seq(Events)]
    BY <1>1, <1>2, <1>5, <1>6 DEF Emits
  <2>2. overlapped' \subseteq Tabs
    BY <1>1 DEF CallInv, Typed
  <2> QED BY <1>1, <1>2, <1>3, <1>4, <2>1, <2>2 DEF CallInv, Typed
<1>8. Tagged'
  <2>1. \A r, q \in sending' : r.n = q.n => r = q
    BY <1>1, <1>2, <1>5, <1>6 DEF CallInv, Tagged
  <2>2. \A r \in sending' : \E u \in Tabs : \A room \in Rooms :
            OfCall(u, r.n, room, r.emitted[room])
    <3>1. \A room \in Rooms : OfCall(t, new.n, room, new.emitted[room])
      BY <1>5 DEF Emits, n
    <3> QED BY <1>1, <3>1 DEF CallInv, Tagged
  <2>3. ASSUME NEW u \in Tabs, NEW i \in DOMAIN inbox[u]
        PROVE  /\ inbox[u][i].n \in 1 .. n
               /\ inbox[u][i].key = "error" => inbox[u][i].by = u
               /\ \A r \in sending' : inbox[u][i].n # r.n
    BY <1>1, <1>2, <1>5 DEF CallInv, Tagged
  <2> QED BY <1>1, <2>1, <2>2, <2>3 DEF Tagged
<1>9. Waited'
  <2> SUFFICES ASSUME overlapped' = {}, NEW u \in Tabs
               PROVE  Waits(u)'
    BY DEF Waited
  <2>1. overlapped = {} /\ open[t] = {}
    BY <1>1
  <2>2. Waits(u) /\ Waits(t)
    BY <2>1 DEF CallInv, Waited
  <2>3. /\ \A i \in DOMAIN inbox[t] : inbox[t][i].by # t
        /\ \A r \in sending : \A room \in Rooms : \A i \in DOMAIN r.emitted[room] :
              r.emitted[room][i].by # t
    BY <2>1, <2>2 DEF Waits, OfOpen
  <2>4. \A room \in Rooms : \A i \in DOMAIN emitted[room] :
            emitted[room][i].by = t /\ emitted[room][i].n = n
    BY DEF Emits, OfCall, n
  <2>5. CASE u = t
    <3>1. \A k, m \in open'[t] : k = m
      BY <1>4, <2>1
    <3>2. /\ OfOpen(t, inbox[t])' /\ LastSettles(t, inbox[t])'
      BY <1>1, <2>3 DEF OfOpen, LastSettles
    <3>3. ASSUME NEW room \in Rooms
          PROVE  /\ \A i \in DOMAIN emitted[room] : emitted[room][i].n \in open'[t]
                 /\ \A i, j \in DOMAIN emitted[room] : i < j =>
                       ~(\/ emitted[room][i].key = "error"
                         \/ promiseMap'[t][emitted[room][i].key] \in open'[t])
      <4>1. \A i \in DOMAIN emitted[room] : emitted[room][i].n \in open'[t]
        BY <1>4, <2>4
      <4>2. ASSUME NEW i \in DOMAIN emitted[room], NEW j \in DOMAIN emitted[room], i < j
            PROVE  /\ emitted[room][i].key # "error"
                   /\ promiseMap'[t][emitted[room][i].key] \notin open'[t]
        <5>1. emitted[room][i].key \in Keys \ {key}
          BY <4>2 DEF Emits
        <5>2. promiseMap'[t][emitted[room][i].key] \in 0 .. commits
          BY <1>3, <5>1 DEF CallInv, Typed
        <5>3. open'[t] = {n}
          BY <1>4, <2>1
        <5> QED BY <1>2, <5>1, <5>2, <5>3 DEF Keys
      <4> QED BY <4>1, <4>2
    <3>4. ASSUME NEW r \in sending', NEW room \in Rooms
          PROVE  OfOpen(t, r.emitted[room])' /\ LastSettles(t, r.emitted[room])'
      <4>1. CASE r = new
        BY <1>5, <3>3, <4>1 DEF OfOpen, LastSettles, Settles
      <4>2. CASE r \in sending
        BY <2>3, <4>2 DEF OfOpen, LastSettles
      <4> QED BY <1>1, <4>1, <4>2
    <3> QED BY <2>5, <3>1, <3>2, <3>4 DEF Waits
  <2>6. CASE u # t
    <3>1. open'[u] = open[u] /\ promiseMap'[u] = promiseMap[u] /\ inbox' = inbox
      BY <1>1, <1>3, <1>4, <2>6
    <3>2. /\ \A k, m \in open'[u] : k = m
          /\ OfOpen(u, inbox[u])' /\ LastSettles(u, inbox[u])'
      BY <2>2, <3>1 DEF Waits, OfOpen, LastSettles, Settles
    <3>3. ASSUME NEW r \in sending', NEW room \in Rooms
          PROVE  OfOpen(u, r.emitted[room])' /\ LastSettles(u, r.emitted[room])'
      <4>1. CASE r = new
        BY <1>5, <2>4, <2>6, <4>1 DEF OfOpen, LastSettles
      <4>2. CASE r \in sending
        BY <2>2, <3>1, <4>2 DEF Waits, OfOpen, LastSettles, Settles
      <4> QED BY <1>1, <4>1, <4>2
    <3> QED BY <3>2, <3>3 DEF Waits
  <2> QED BY <2>5, <2>6
<1>10. CallsSettledByTheirEvents'
  BY <1>1 DEF CallInv, CallsSettledByTheirEvents
<1> QED BY <1>7, <1>8, <1>9, <1>10 DEF CallInv

\* A call that emits to one room only.
LEMMA ToEmits ==
    ASSUME Typed, NEW t \in Tabs, NEW key \in Keys, NEW room \in Rooms,
           NEW events \in Seq(Events), OfCall(t, commits + 1, room, events),
           \A i, j \in DOMAIN events : i < j => events[i].key \in Keys \ {key}
    PROVE  Emits(t, key, To(room, events))
<1> DEFINE emitted == To(room, events)
<1>1. /\ emitted = [r \in Rooms |-> IF r = room THEN events ELSE <<>>]
      /\ DOMAIN <<>> = {} /\ <<>> \in Seq(Events)
  BY DEF To, Rooms
<1> HIDE DEF emitted
<1>2. emitted \in [Rooms -> Seq(Events)]
  BY <1>1
<1>3. \A r \in Rooms : (emitted[r] = events /\ r = room) \/ DOMAIN emitted[r] = {}
  BY <1>1
<1>4. Emits(t, key, emitted)
  BY <1>2, <1>3 DEF Emits, OfCall
<1> QED BY <1>4 DEF emitted

\* One event of the call to the room of its document.
LEMMA OneEvent ==
    ASSUME Typed, NEW t \in Tabs, NEW key \in Keys, NEW d \in Docs, NEW e \in Events,
           e.key = key, e.by = t, e.n = commits + 1
    PROVE  Emits(t, key, To(d, <<e>>))
<1> DEFINE events == <<e>>
<1>1. events \in Seq(Events) /\ DOMAIN events = {1} /\ events[1] = e
  OBVIOUS
<1> HIDE DEF events
<1>2. d \notin Tabs /\ key # "error"
  BY CollabAssumption DEF Keys
<1>3. OfCall(t, commits + 1, d, events)
  BY <1>1, <1>2 DEF OfCall
<1>4. Emits(t, key, To(d, events))
  BY <1>1, <1>3, ToEmits DEF Rooms
<1> QED BY <1>4 DEF events

\* Two events, of which the second has the key of the call.
LEMMA TwoEvents ==
    ASSUME Typed, NEW t \in Tabs, NEW key \in Keys, NEW d \in Docs, NEW e \in Events,
           NEW f \in Events, e.key \in Keys \ {key}, f.key = key,
           e.by = t, f.by = t, e.n = commits + 1, f.n = commits + 1
    PROVE  /\ <<e, f>> \in Seq(Events)
           /\ OfCall(t, commits + 1, d, <<e, f>>)
           /\ \A i, j \in DOMAIN <<e, f>> : i < j => <<e, f>>[i].key \in Keys \ {key}
           /\ Emits(t, key, To(d, <<e, f>>))
<1> DEFINE events == <<e, f>>
<1>1. /\ events \in Seq(Events) /\ DOMAIN events = {1, 2}
      /\ events[1] = e /\ events[2] = f
  OBVIOUS
<1> HIDE DEF events
<1>2. d \notin Tabs /\ e.key # "error" /\ f.key # "error"
  BY CollabAssumption DEF Keys
<1>3. OfCall(t, commits + 1, d, events)
  BY <1>1, <1>2 DEF OfCall
<1>4. \A i, j \in DOMAIN events : i < j => events[i].key \in Keys \ {key}
  BY <1>1
<1>5. Emits(t, key, To(d, events))
  BY <1>1, <1>3, <1>4, ToEmits DEF Rooms
<1> QED BY <1>1, <1>3, <1>4, <1>5 DEF events

Positional(e) == e.key \in {"insertDataCell", "deleteDataCell", "moveDataCell"}

Changing(e) == Positional(e) \/ e.key = "dataDocRestored"

\* The events of a call tell how the call changed the lists; what is sent to one
\* tab changes nothing, and is all that its call emits.
Explains(emitted) ==
    /\ \A d \in Docs : \/ cells'[d] = cells[d]
                       \/ \E i \in DOMAIN emitted[d] : Changing(emitted[d][i])
    /\ \A d \in Docs : \A i \in DOMAIN emitted[d] :
          /\ Changing(emitted[d][i]) => emitted[d][i].doc = d
          /\ Positional(emitted[d][i]) => cells'[d] = Applied(cells[d], emitted[d][i])
    /\ \A t \in Tabs : emitted[t] # <<>> =>
          /\ \A i \in DOMAIN emitted[t] : ~Changing(emitted[t][i])
          /\ \A d \in Docs : emitted[d] = <<>>

LEMMA RoomExplains ==
    ASSUME Lists, NEW d \in Docs, NEW s \in Seq(Cells),
           cells' = [cells EXCEPT ![d] = s], NEW events \in Seq(Events),
           \E i \in DOMAIN events : Changing(events[i]),
           \A i \in DOMAIN events :
              /\ Changing(events[i]) => events[i].doc = d
              /\ Positional(events[i]) => s = Applied(cells[d], events[i])
    PROVE  Explains(To(d, events))
<1> DEFINE emitted == To(d, events)
<1>1. /\ emitted[d] = events
      /\ \A r \in Docs \cup Tabs : r # d => emitted[r] = <<>>
  BY DEF To
<1>2. \A t \in Tabs : emitted[t] = <<>>
  BY <1>1, CollabAssumption
<1>3. cells'[d] = s /\ \A r \in Docs : r # d => cells'[r] = cells[r]
  BY DEF Lists
<1> HIDE DEF emitted
<1>4. \A r \in Docs : r # d => DOMAIN emitted[r] = {}
  BY <1>1
<1> HIDE DEF Changing, Positional
<1>5. Explains(emitted)
  BY <1>1, <1>2, <1>3, <1>4 DEF Explains
<1> QED BY <1>5 DEF emitted

LEMMA OneExplains ==
    ASSUME Lists, NEW d \in Docs, NEW s \in Seq(Cells),
           cells' = [cells EXCEPT ![d] = s], NEW e \in Events,
           Changing(e), e.doc = d, Positional(e) => s = Applied(cells[d], e)
    PROVE  Explains(To(d, <<e>>))
<1> DEFINE events == <<e>>
<1>1. events \in Seq(Events) /\ DOMAIN events = {1} /\ events[1] = e
  OBVIOUS
<1> HIDE DEF events
<1> HIDE DEF Changing, Positional
<1>2. Explains(To(d, events))
  BY <1>1, RoomExplains
<1> QED BY <1>2 DEF events

LEMMA TwoExplain ==
    ASSUME Lists, NEW d \in Docs, NEW s \in Seq(Cells),
           cells' = [cells EXCEPT ![d] = s], NEW e \in Events, NEW f \in Events,
           Changing(e), e.doc = d, Positional(e) => s = Applied(cells[d], e),
           f.key = "pasteDataCell"
    PROVE  Explains(To(d, <<e, f>>))
<1> DEFINE events == <<e, f>>
<1>1. /\ events \in Seq(Events) /\ DOMAIN events = {1, 2}
      /\ events[1] = e /\ events[2] = f
  OBVIOUS
<1> HIDE DEF events
<1>2. ~Changing(f) /\ ~Positional(f)
  BY DEF Changing, Positional
<1> HIDE DEF Changing, Positional
<1>3. \A i \in DOMAIN events :
         /\ Changing(events[i]) => events[i].doc = d
         /\ Positional(events[i]) => s = Applied(cells[d], events[i])
  BY <1>1, <1>2
<1>4. \E i \in DOMAIN events : Changing(events[i])
  BY <1>1
<1>5. Explains(To(d, events))
  BY <1>1, <1>3, <1>4, RoomExplains
<1> QED BY <1>5 DEF events

\* A request is one call, its events tell what it changed, and it leaves the
\* lists of the server in order.
IsCall(t) == \E key \in Keys : \E emitted :
                /\ Commit(t, key, emitted)
                /\ Emits(t, key, emitted)
                /\ Explains(emitted)

LEMMA CallerFacts ==
    ASSUME Typed, Lists, NEW t \in Tabs, at[t] # None
    PROVE  /\ at[t] \in Docs
           /\ commits + 1 \in Nat
           /\ cells[at[t]] \in Seq(Cells) /\ IsInjective(cells[at[t]])
           /\ Range(cells[at[t]]) \subseteq made
           /\ Len(cells[at[t]]) \in Nat
           /\ Indices \subseteq Nat
           /\ Cells \subseteq Items /\ None \in Items
<1>1. Cardinality(Cells) \in Nat
  BY CollabAssumption, FS_CardinalityType
<1>2. at[t] \in Docs
  BY DEF Typed
<1> QED BY <1>1, <1>2 DEF Typed, Lists, Disjoint, Indices, Items

LEMMA InsertDataCellCalls ==
    ASSUME Typed, Lists, NEW t \in Tabs, NEW c \in Cells, NEW i \in Indices,
           InsertDataCell(t, c, i)
    PROVE  IsCall(t) /\ Lists'
<1> DEFINE d == at[t]
           e == Event("insertDataCell", commits + 1, t, d, c, i, 0)
<1>0. at[t] # None
  BY DEF InsertDataCell, Commit, MakePromise
<1>1. /\ d \in Docs /\ commits + 1 \in Nat /\ i \in Nat /\ c \in Items
      /\ cells[d] \in Seq(Cells) /\ IsInjective(cells[d])
      /\ Range(cells[d]) \subseteq made /\ i \in 0 .. Len(cells[d])
  BY <1>0, CallerFacts DEF InsertDataCell
<1>2. /\ Commit(t, "insertDataCell", To(d, <<e>>))
      /\ c \notin made /\ made' = made \cup {c} /\ LInsert(d, i, c)
  BY DEF InsertDataCell
<1> HIDE DEF d
<1>3. /\ e \in Events /\ e.key = "insertDataCell" /\ e.n = commits + 1 /\ e.by = t
      /\ e.doc = d /\ e.cell = c /\ e.from = i
  BY <1>1 DEF Event, Events, Keys, Typed
<1> HIDE DEF e
<1>4. Emits(t, "insertDataCell", To(d, <<e>>))
  BY <1>1, <1>3, OneEvent DEF Keys
<1>5. /\ InsertAt(cells[d], i, c) \in Seq(Cells) /\ IsInjective(InsertAt(cells[d], i, c))
      /\ Range(InsertAt(cells[d], i, c)) = Range(cells[d]) \cup {c}
  BY <1>1, <1>2, JoinsList
<1>6. cells' = [cells EXCEPT ![d] = InsertAt(cells[d], i, c)]
  BY <1>2 DEF LInsert
<1>7. Explains(To(d, <<e>>))
  <2>1. InsertAt(cells[d], i, c) = Applied(cells[d], e)
    BY <1>1, <1>2, <1>3, InsertedIs DEF Applied
  <2> QED BY <1>1, <1>3, <1>5, <1>6, <2>1, OneExplains DEF Changing, Positional
<1>8. IsCall(t)
  BY <1>2, <1>4, <1>7 DEF IsCall, Keys
<1>9. made' \subseteq Cells
  BY <1>2 DEF Lists
<1>10. Lists'
  BY <1>1, <1>2, <1>5, <1>6, <1>9, OneListKeeps
<1> QED BY <1>8, <1>10


LEMMA DeleteDataCellCalls ==
    ASSUME Typed, Lists, NEW t \in Tabs, NEW c \in Cells, DeleteDataCell(t, c)
    PROVE  IsCall(t) /\ Lists'
<1> DEFINE d == at[t]
           e == Event("deleteDataCell", commits + 1, t, d, c, 0, 0)
<1>0. at[t] # None
  BY DEF DeleteDataCell, Commit, MakePromise
<1>1. /\ d \in Docs /\ commits + 1 \in Nat /\ c \in Items
      /\ cells[d] \in Seq(Cells) /\ IsInjective(cells[d]) /\ c \in Range(cells[d])
  BY <1>0, CallerFacts DEF DeleteDataCell
<1>2. /\ Commit(t, "deleteDataCell", To(d, <<e>>))
      /\ LDelete(d, c) /\ UNCHANGED made
  BY DEF DeleteDataCell
<1> HIDE DEF d
<1>3. /\ e \in Events /\ e.key = "deleteDataCell" /\ e.n = commits + 1 /\ e.by = t
      /\ e.doc = d /\ e.cell = c
  BY <1>1 DEF Event, Events, Keys, Typed
<1> HIDE DEF e
<1>4. Emits(t, "deleteDataCell", To(d, <<e>>))
  BY <1>1, <1>3, OneEvent DEF Keys
<1> DEFINE s == RemoveAt(cells[d], IndexOf(cells[d], c))
<1>5. s \in Seq(Cells) /\ IsInjective(s) /\ Range(s) \subseteq Range(cells[d])
  <2>1. IndexOf(cells[d], c) \in 0 .. Len(cells[d]) - 1
    BY <1>1, PlaceInList
  <2> QED BY <1>1, <2>1, LeavesList
<1>6. cells' = [cells EXCEPT ![d] = s]
  BY <1>2 DEF LDelete
<1>7. s = Applied(cells[d], e)
  BY <1>1, <1>3, WithoutOne DEF Applied
<1> HIDE DEF s
<1>8. Explains(To(d, <<e>>))
  BY <1>1, <1>3, <1>5, <1>6, <1>7, OneExplains DEF Changing, Positional
<1>9. IsCall(t)
  BY <1>2, <1>4, <1>8 DEF IsCall, Keys
<1>10. Lists'
  <2>1. made \subseteq made' /\ made' \subseteq Cells
    BY <1>2 DEF Lists
  <2> QED BY <1>1, <1>5, <1>6, <2>1, OneListKeeps
<1> QED BY <1>9, <1>10

LEMMA MoveDataCellCalls ==
    ASSUME Typed, Lists, NEW t \in Tabs, NEW from \in Indices, NEW to \in Indices,
           MoveDataCell(t, from, to)
    PROVE  IsCall(t) /\ Lists'
<1> DEFINE d == at[t]
           e == Event("moveDataCell", commits + 1, t, d, None, from, to)
<1>0. at[t] # None
  BY DEF MoveDataCell, Commit, MakePromise
<1>1. /\ d \in Docs /\ commits + 1 \in Nat /\ None \in Items
      /\ from \in Nat /\ to \in Nat
      /\ cells[d] \in Seq(Cells) /\ IsInjective(cells[d])
      /\ from \in 0 .. Len(cells[d]) - 1 /\ to \in 0 .. Len(cells[d]) - 1
  BY <1>0, CallerFacts DEF MoveDataCell
<1>2. /\ Commit(t, "moveDataCell", To(d, <<e>>))
      /\ LMove(d, from, to) /\ UNCHANGED made
  BY DEF MoveDataCell
<1> HIDE DEF d
<1>3. /\ e \in Events /\ e.key = "moveDataCell" /\ e.n = commits + 1 /\ e.by = t
      /\ e.doc = d /\ e.from = from /\ e.to = to
  BY <1>1 DEF Event, Events, Keys, Typed
<1> HIDE DEF e
<1>4. Emits(t, "moveDataCell", To(d, <<e>>))
  BY <1>1, <1>3, OneEvent DEF Keys
<1> DEFINE s == MoveItem(cells[d], from, to)
<1>5. s \in Seq(Cells) /\ IsInjective(s) /\ Range(s) \subseteq Range(cells[d])
  BY <1>1, MovesInList
<1>6. cells' = [cells EXCEPT ![d] = s]
  BY <1>2 DEF LMove
<1>7. s = Applied(cells[d], e)
  BY <1>1, <1>3, ArrayMovedIs DEF Applied
<1> HIDE DEF s
<1>8. Explains(To(d, <<e>>))
  BY <1>1, <1>3, <1>5, <1>6, <1>7, OneExplains DEF Changing, Positional
<1>9. IsCall(t)
  BY <1>2, <1>4, <1>8 DEF IsCall, Keys
<1>10. Lists'
  <2>1. made \subseteq made' /\ made' \subseteq Cells
    BY <1>2 DEF Lists
  <2> QED BY <1>1, <1>5, <1>6, <2>1, OneListKeeps
<1> QED BY <1>9, <1>10

LEMMA PasteCopyCalls ==
    ASSUME Typed, Lists, NEW t \in Tabs, NEW c \in Cells, NEW i \in Indices,
           PasteCopy(t, c, i)
    PROVE  IsCall(t) /\ Lists'
<1> DEFINE d == at[t]
           e == Event("insertDataCell", commits + 1, t, d, c, i, 0)
           f == Event("pasteDataCell", commits + 1, t, d, None, 0, 0)
<1>0. at[t] # None
  BY DEF PasteCopy, Commit, MakePromise
<1>1. /\ d \in Docs /\ commits + 1 \in Nat /\ i \in Nat /\ c \in Items /\ None \in Items
      /\ cells[d] \in Seq(Cells) /\ IsInjective(cells[d])
      /\ Range(cells[d]) \subseteq made /\ i \in 0 .. Len(cells[d])
  BY <1>0, CallerFacts DEF PasteCopy
<1>2. /\ Commit(t, "pasteDataCell", To(d, <<e, f>>))
      /\ c \notin made /\ made' = made \cup {c} /\ LInsert(d, i, c)
  BY DEF PasteCopy, Pasted
<1> HIDE DEF d
<1>3. /\ e \in Events /\ e.key = "insertDataCell" /\ e.n = commits + 1 /\ e.by = t
      /\ e.doc = d /\ e.cell = c /\ e.from = i
      /\ f \in Events /\ f.key = "pasteDataCell" /\ f.n = commits + 1 /\ f.by = t
  <2>1. /\ e \in Events /\ e.key = "insertDataCell" /\ e.n = commits + 1 /\ e.by = t
        /\ e.doc = d /\ e.cell = c /\ e.from = i
    BY <1>1 DEF Event, Events, Keys, Typed
  <2>2. f \in Events /\ f.key = "pasteDataCell" /\ f.n = commits + 1 /\ f.by = t
    BY <1>1 DEF Event, Events, Keys, Typed
  <2> QED BY <2>1, <2>2
<1> HIDE DEF e, f
<1>4. Emits(t, "pasteDataCell", To(d, <<e, f>>))
  BY <1>1, <1>3, TwoEvents DEF Keys
<1>5. /\ InsertAt(cells[d], i, c) \in Seq(Cells) /\ IsInjective(InsertAt(cells[d], i, c))
      /\ Range(InsertAt(cells[d], i, c)) = Range(cells[d]) \cup {c}
  BY <1>1, <1>2, JoinsList
<1>6. cells' = [cells EXCEPT ![d] = InsertAt(cells[d], i, c)]
  BY <1>2 DEF LInsert
<1>7. Explains(To(d, <<e, f>>))
  <2>1. InsertAt(cells[d], i, c) = Applied(cells[d], e)
    BY <1>1, <1>2, <1>3, InsertedIs DEF Applied
  <2> QED BY <1>1, <1>3, <1>5, <1>6, <2>1, TwoExplain DEF Changing, Positional
<1>8. IsCall(t)
  BY <1>2, <1>4, <1>7 DEF IsCall, Keys
<1>9. made' \subseteq Cells
  BY <1>2 DEF Lists
<1>10. Lists'
  BY <1>1, <1>2, <1>5, <1>6, <1>9, OneListKeeps
<1> QED BY <1>8, <1>10

LEMMA PasteCutWithinCalls ==
    ASSUME Typed, Lists, NEW t \in Tabs, NEW c \in Cells, NEW i \in Indices,
           PasteCutWithin(t, c, i)
    PROVE  IsCall(t) /\ Lists'
<1> DEFINE d == at[t]
           from == IndexOf(cells[d], c)
           to == PastedTo(from, i)
           e == Event("moveDataCell", commits + 1, t, d, None, from, to)
           f == Event("pasteDataCell", commits + 1, t, d, None, 0, 0)
<1>0. at[t] # None
  BY DEF PasteCutWithin
<1>1. /\ d \in Docs /\ commits + 1 \in Nat /\ i \in Nat /\ None \in Items
      /\ cells[d] \in Seq(Cells) /\ IsInjective(cells[d]) /\ Len(cells[d]) \in Nat
      /\ c \in Range(cells[d]) /\ i <= Len(cells[d])
  BY <1>0, CallerFacts DEF PasteCutWithin
<1>2. /\ Commit(t, "pasteDataCell", To(d, <<e, f>>))
      /\ LPaste(d, c, d, i) /\ UNCHANGED made
  BY DEF PasteCutWithin, Pasted
<1>3. cells' = [cells EXCEPT ![d] = MoveItem(cells[d], from, to)]
  BY <1>2 DEF LPaste, LMove, PastedTo
<1> HIDE DEF d
<1>4. from \in 0 .. Len(cells[d]) - 1
  BY <1>1, PlaceInList
<1> HIDE DEF from
<1>5. to \in 0 .. Len(cells[d]) - 1 /\ from \in Nat /\ to \in Nat
  BY <1>1, <1>4 DEF PastedTo
<1> HIDE DEF to
<1>6. /\ e \in Events /\ e.key = "moveDataCell" /\ e.n = commits + 1 /\ e.by = t
      /\ e.doc = d /\ e.from = from /\ e.to = to
      /\ f \in Events /\ f.key = "pasteDataCell" /\ f.n = commits + 1 /\ f.by = t
  <2>1. /\ e \in Events /\ e.key = "moveDataCell" /\ e.n = commits + 1 /\ e.by = t
        /\ e.doc = d /\ e.from = from /\ e.to = to
    BY <1>1, <1>5 DEF Event, Events, Keys, Typed
  <2>2. f \in Events /\ f.key = "pasteDataCell" /\ f.n = commits + 1 /\ f.by = t
    BY <1>1 DEF Event, Events, Keys, Typed
  <2> QED BY <2>1, <2>2
<1> HIDE DEF e, f
<1>7. Emits(t, "pasteDataCell", To(d, <<e, f>>))
  BY <1>1, <1>6, TwoEvents DEF Keys
<1> DEFINE s == MoveItem(cells[d], from, to)
<1>8. s \in Seq(Cells) /\ IsInjective(s) /\ Range(s) \subseteq Range(cells[d])
  BY <1>1, <1>4, <1>5, MovesInList
<1>9. cells' = [cells EXCEPT ![d] = s]
  BY <1>3
<1>10. s = Applied(cells[d], e)
  BY <1>1, <1>4, <1>5, <1>6, ArrayMovedIs DEF Applied
<1> HIDE DEF s
<1>11. Explains(To(d, <<e, f>>))
  BY <1>1, <1>6, <1>8, <1>9, <1>10, TwoExplain DEF Changing, Positional
<1>12. IsCall(t)
  BY <1>2, <1>7, <1>11 DEF IsCall, Keys
<1>13. Lists'
  <2>1. made \subseteq made' /\ made' \subseteq Cells
    BY <1>2 DEF Lists
  <2> QED BY <1>1, <1>8, <1>9, <2>1, OneListKeeps
<1> QED BY <1>12, <1>13

LEMMA PasteCutAcrossCalls ==
    ASSUME Typed, Lists, NEW t \in Tabs, NEW source \in Docs, NEW c \in Cells,
           NEW i \in Indices, PasteCutAcross(t, source, c, i)
    PROVE  IsCall(t) /\ Lists'
<1> DEFINE d == at[t]
           e == Event("insertDataCell", commits + 1, t, d, c, i, 0)
           f == Event("pasteDataCell", commits + 1, t, d, None, 0, 0)
           g == Event("deleteDataCell", commits + 1, t, source, c, 0, 0)
           here == To(d, <<e, f>>)
           emitted == [here EXCEPT ![source] = <<g>>]
<1>0. at[t] # None
  BY DEF PasteCutAcross, Commit, MakePromise
<1>1. /\ d \in Docs /\ commits + 1 \in Nat /\ i \in Nat /\ c \in Items /\ None \in Items
      /\ source # d /\ c \in Range(cells[source]) /\ i \in 0 .. Len(cells[d])
  BY <1>0, CallerFacts DEF PasteCutAcross
<1>2. /\ Commit(t, "pasteDataCell", emitted)
      /\ LPaste(source, c, d, i) /\ UNCHANGED made
  BY DEF PasteCutAcross, Pasted
<1> HIDE DEF d
<1>3. /\ "insertDataCell" \in Keys /\ "pasteDataCell" \in Keys
      /\ "deleteDataCell" \in Keys /\ 0 \in Nat
  BY DEF Keys
<1>4. /\ e \in Events /\ e.key = "insertDataCell" /\ e.n = commits + 1 /\ e.by = t
      /\ e.doc = d /\ e.cell = c /\ e.from = i
  BY <1>1, <1>3 DEF Event, Events, Keys, Typed
<1>5. f \in Events /\ f.key = "pasteDataCell" /\ f.n = commits + 1 /\ f.by = t
  BY <1>1, <1>3 DEF Event, Events, Keys, Typed
<1>6. /\ g \in Events /\ g.key = "deleteDataCell" /\ g.n = commits + 1 /\ g.by = t
      /\ g.doc = source /\ g.cell = c
  BY <1>1, <1>3 DEF Event, Events, Keys, Typed
<1> HIDE DEF e, f, g
<1>7. Emits(t, "pasteDataCell", here)
  BY <1>1, <1>3, <1>4, <1>5, TwoEvents
<1> DEFINE there == <<g>>
<1>9. there \in Seq(Events) /\ DOMAIN there = {1} /\ there[1] = g
  BY <1>6
<1>10. OfCall(t, commits + 1, source, there)
  BY <1>6, <1>9, CollabAssumption DEF OfCall
<1>11. /\ emitted = [here EXCEPT ![source] = there]
       /\ here \in [Rooms -> Seq(Events)] /\ source \in Rooms
  BY <1>7 DEF Emits, Rooms
<1> HIDE DEF there, here, emitted
<1>12. /\ emitted \in [Rooms -> Seq(Events)]
       /\ \A room \in Rooms : emitted[room] = IF room = source THEN there
                                              ELSE here[room]
  BY <1>9, <1>11
<1>13. Emits(t, "pasteDataCell", emitted)
  <2>1. \A room \in Rooms : OfCall(t, commits + 1, room, emitted[room])
    BY <1>7, <1>10, <1>12 DEF Emits
  <2>2. \A j, k \in DOMAIN there : ~(j < k)
    BY <1>9
  <2>3. \A room \in Rooms : \A j, k \in DOMAIN emitted[room] :
            j < k => emitted[room][j].key \in Keys \ {"pasteDataCell"}
    BY <1>7, <1>12, <2>2 DEF Emits
  <2> QED BY <1>12, <2>1, <2>3 DEF Emits
<1>14. Explains(emitted)
  <2> DEFINE from == IndexOf(cells[source], c)
             s == RemoveAt(cells[source], from)
             q == InsertAt(cells[d], i, c)
  <2>1. /\ cells \in [Docs -> Seq(Cells)] /\ IsInjective(cells[source])
        /\ c \notin Range(cells[d])
    BY <1>1 DEF Lists, Disjoint
  <2>2. cells' = [cells EXCEPT ![source] = s, ![d] = q]
    BY <1>1, <1>2 DEF LPaste
  <2>3. s = Applied(cells[source], g)
    BY <1>1, <1>6, <2>1, WithoutOne DEF Applied
  <2>4. q = Applied(cells[d], e)
    BY <1>1, <1>4, <2>1, InsertedIs DEF Applied
  <2> HIDE DEF s, q
  <2>5. cells'[source] = s /\ cells'[d] = q
        /\ \A r \in Docs : r # d /\ r # source => cells'[r] = cells[r]
    BY <1>1, <2>1, <2>2
  <2>6. /\ emitted[source] = there
        /\ emitted[d] = <<e, f>>
        /\ \A r \in Rooms : r # d /\ r # source => emitted[r] = <<>>
    BY <1>1, <1>12 DEF here, To, Rooms
  <2> DEFINE both == <<e, f>>
  <2>7. DOMAIN both = {1, 2} /\ both[1] = e /\ both[2] = f
    OBVIOUS
  <2> HIDE DEF both
  <2>8. Changing(e) /\ Changing(g) /\ ~Changing(f) /\ ~Positional(f)
    BY <1>4, <1>5, <1>6 DEF Changing, Positional
  <2>9. \A t1 \in Tabs : emitted[t1] = <<>>
    BY <1>1, <2>6, CollabAssumption DEF Rooms
  <2> HIDE DEF Changing, Positional
  <2>10. emitted[d] = both
    BY <2>6 DEF both
  <2>11. ASSUME NEW r \in Docs
         PROVE  \/ cells'[r] = cells[r]
                \/ \E j \in DOMAIN emitted[r] : Changing(emitted[r][j])
    BY <1>9, <2>5, <2>6, <2>7, <2>8, <2>10
  <2>12. ASSUME NEW r \in Docs, NEW j \in DOMAIN emitted[r]
         PROVE  /\ Changing(emitted[r][j]) => emitted[r][j].doc = r
                /\ Positional(emitted[r][j]) => cells'[r] = Applied(cells[r], emitted[r][j])
    <3>1. CASE r = source
      BY <1>6, <1>9, <2>3, <2>5, <2>6, <3>1
    <3>2. CASE r = d
      BY <1>4, <2>4, <2>5, <2>7, <2>8, <2>10, <3>2
    <3>3. CASE r # d /\ r # source
      BY <2>6, <3>3 DEF Rooms
    <3> QED BY <3>1, <3>2, <3>3
  <2> QED BY <2>9, <2>11, <2>12 DEF Explains
<1>15. IsCall(t)
  BY <1>2, <1>3, <1>13, <1>14 DEF IsCall
<1>16. Lists'
  BY <1>1, <1>2, AcrossKeeps
<1> QED BY <1>15, <1>16

LEMMA RestoreDataDocCalls ==
    ASSUME Typed, Lists, NEW t \in Tabs, NEW c \in Cells, RestoreDataDoc(t, c)
    PROVE  IsCall(t) /\ Lists'
<1> DEFINE d == at[t]
           e == Event("dataDocRestored", commits + 1, t, d, None, 0, 0)
<1>0. at[t] # None
  BY DEF RestoreDataDoc, Commit, MakePromise
<1>1. d \in Docs /\ commits + 1 \in Nat /\ None \in Items
  BY <1>0, CallerFacts
<1>2. /\ Commit(t, "dataDocRestored", To(d, <<e>>))
      /\ c \notin made /\ made' = made \cup {c}
      /\ cells' = [cells EXCEPT ![d] = <<c>>]
  BY DEF RestoreDataDoc
<1> HIDE DEF d
<1>3. /\ e \in Events /\ e.key = "dataDocRestored" /\ e.n = commits + 1 /\ e.by = t
      /\ e.doc = d
  BY <1>1 DEF Event, Events, Keys, Typed
<1> HIDE DEF e
<1>4. Emits(t, "dataDocRestored", To(d, <<e>>))
  BY <1>1, <1>3, OneEvent DEF Keys
<1> DEFINE s == <<c>>
<1>5. s \in Seq(Cells) /\ DOMAIN s = {1} /\ s[1] = c
  OBVIOUS
<1>6. cells' = [cells EXCEPT ![d] = s]
  BY <1>2
<1> HIDE DEF s
<1>7. IsInjective(s) /\ Range(s) = {c}
  BY <1>5 DEF IsInjective, Range
<1>8. Explains(To(d, <<e>>))
  BY <1>1, <1>3, <1>5, <1>6, OneExplains DEF Changing, Positional
<1>9. IsCall(t)
  BY <1>2, <1>4, <1>8 DEF IsCall, Keys
<1>10. Lists'
  <2>1. made \subseteq made' /\ made' \subseteq Cells /\ c \in made' \ made
    BY <1>2 DEF Lists
  <2> QED BY <1>1, <1>5, <1>6, <1>7, <2>1, OneListKeeps
<1> QED BY <1>9, <1>10

LEMMA RequestFailsCalls ==
    ASSUME Typed, Lists, NEW t \in Tabs, NEW key \in Keys, RequestFails(t, key)
    PROVE  IsCall(t) /\ Lists'
<1> DEFINE e == Event("error", commits + 1, t, None, None, 0, 0)
           events == <<e>>
<1>1. /\ Commit(t, key, To(t, events)) /\ UNCHANGED <<cells, made>>
  BY DEF RequestFails
<1>2. e \in Events /\ e.key = "error" /\ e.n = commits + 1 /\ e.by = t
  <2>1. commits + 1 \in Nat
    BY DEF Typed
  <2> QED BY <2>1 DEF Event, Events, Items, Typed
<1> HIDE DEF e
<1>3. events \in Seq(Events) /\ DOMAIN events = {1} /\ events[1] = e
  BY <1>2
<1> HIDE DEF events
<1>4. OfCall(t, commits + 1, t, events)
  BY <1>2, <1>3 DEF OfCall
<1>5. Emits(t, key, To(t, events))
  BY <1>3, <1>4, ToEmits DEF Rooms
<1>6. Explains(To(t, events))
  <2>1. To(t, events)[t] = events /\ \A r \in Docs \cup Tabs : r # t => To(t, events)[r] = <<>>
    BY DEF To
  <2>2. \A d \in Docs : To(t, events)[d] = <<>>
    BY <2>1, CollabAssumption
  <2>3. \A i \in DOMAIN events : ~Changing(events[i])
    BY <1>2, <1>3 DEF Changing, Positional
  <2>4. UNCHANGED cells
    BY <1>1
  <2> QED BY <2>1, <2>2, <2>3, <2>4 DEF Explains
<1>7. IsCall(t)
  BY <1>1, <1>5, <1>6 DEF IsCall
<1>8. Lists'
  BY <1>1 DEF Lists
<1> QED BY <1>7, <1>8

-----------------------------------------------------------------------------
(* Events are emitted, and arrive *)

LEMMA ReceivedFacts ==
    ASSUME CallInv, NEW r \in sending, NEW t \in Tabs
    PROVE  /\ Received(t, r) \in Seq(Events)
           /\ at[t] = None => Received(t, r) = <<>>
           /\ \/ Received(t, r) = <<>>
              \/ \E room \in Rooms : /\ Received(t, r) = r.emitted[room]
                                     /\ room \in Tabs => room = t
<1>1. r.emitted \in [Rooms -> Seq(Events)]
  BY DEF CallInv, Typed
<1>2. CASE at[t] = None
  BY <1>2 DEF Received
<1>3. CASE at[t] # None /\ r.emitted[t] # <<>>
  <2>1. t \in Rooms /\ (Received(t, r) = <<>> \/ Received(t, r) = r.emitted[t])
    BY <1>3 DEF Received, Rooms
  <2>2. CASE Received(t, r) = <<>>
    BY <1>3, <2>2
  <2>3. CASE Received(t, r) = r.emitted[t]
    <3>1. r.emitted[t] \in Seq(Events)
      BY <1>1, <2>1
    <3> QED BY <1>3, <2>1, <2>3, <3>1
  <2> QED BY <2>1, <2>2, <2>3
<1>4. CASE at[t] # None /\ r.emitted[t] = <<>> /\ inRoom[t] = None
  BY <1>4 DEF Received
<1>5. CASE at[t] # None /\ r.emitted[t] = <<>> /\ inRoom[t] # None
  <2>1. inRoom[t] \in Docs /\ Received(t, r) = r.emitted[inRoom[t]]
    BY <1>5 DEF CallInv, Typed, Received
  <2>2. inRoom[t] \in Rooms /\ inRoom[t] \notin Tabs
    BY <2>1, CollabAssumption DEF Rooms
  <2> QED BY <1>1, <1>5, <2>1, <2>2
<1> QED BY <1>2, <1>3, <1>4, <1>5

LEMMA JoinedEvents ==
    ASSUME NEW s \in Seq(Events), NEW q \in Seq(Events)
    PROVE  /\ s \o q \in Seq(Events)
           /\ \A i \in DOMAIN (s \o q) :
                 \/ i \in DOMAIN s /\ (s \o q)[i] = s[i]
                 \/ i > Len(s) /\ i - Len(s) \in DOMAIN q /\ (s \o q)[i] = q[i - Len(s)]
<1>1. Len(s) \in Nat /\ Len(q) \in Nat /\ DOMAIN s = 1 .. Len(s) /\ DOMAIN q = 1 .. Len(q)
  OBVIOUS
<1>2. /\ s \o q \in Seq(Events) /\ Len(s \o q) = Len(s) + Len(q)
      /\ \A i \in 1 .. Len(s) + Len(q) :
            (s \o q)[i] = IF i <= Len(s) THEN s[i] ELSE q[i - Len(s)]
  BY ConcatProperties
<1> DEFINE a == s \o q
           m == Len(s)
           n == Len(q)
<1>3. a \in Seq(Events) /\ DOMAIN a = 1 .. m + n
  BY <1>1, <1>2
<1> HIDE DEF a, m, n
<1>4. \A i \in 1 .. m + n : i \in 1 .. m \/ (i > m /\ i - m \in 1 .. n)
  BY <1>1 DEF m, n
<1> QED BY <1>1, <1>2, <1>3, <1>4 DEF a, m, n

LEMMA EmitEventsKeeps ==
    ASSUME CallInv, NEW r \in sending, EmitEvents(r)
    PROVE  CallInv'
<1>1. /\ sending' = sending \ {r}
      /\ inbox' = [t \in Tabs |-> inbox[t] \o Received(t, r)]
      /\ UNCHANGED <<commits, promiseMap, open, overlapped, at, inRoom, socketId,
                     left, settled>>
  BY DEF EmitEvents, promises
<1>2. /\ commits \in Nat /\ inbox \in [Tabs -> Seq(Events)] /\ r.n \in 1 .. commits
      /\ \A q \in sending : q.n = r.n => q = r
  BY DEF CallInv, Typed, Tagged
<1>3. PICK by \in Tabs : \A room \in Rooms : OfCall(by, r.n, room, r.emitted[room])
  BY DEF CallInv, Tagged
<1> DEFINE new(t) == Received(t, r)
<1>4. \A t \in Tabs : /\ inbox'[t] = inbox[t] \o new(t)
                      /\ inbox[t] \in Seq(Events) /\ new(t) \in Seq(Events)
  BY <1>1, <1>2, ReceivedFacts
<1>5. \A t \in Tabs : \A k \in DOMAIN new(t) :
          /\ new(t)[k].by = by
          /\ new(t)[k].n = r.n
          /\ new(t)[k].key = "error" => new(t)[k].by = t
  <2> SUFFICES ASSUME NEW t \in Tabs, NEW k \in DOMAIN new(t)
               PROVE  /\ new(t)[k].by = by /\ new(t)[k].n = r.n
                      /\ new(t)[k].key = "error" => new(t)[k].by = t
    OBVIOUS
  <2>1. new(t) # <<>>
    OBVIOUS
  <2>2. PICK room \in Rooms : new(t) = r.emitted[room] /\ (room \in Tabs => room = t)
    BY <2>1, ReceivedFacts
  <2>3. OfCall(by, r.n, room, new(t))
    BY <1>3, <2>2
  <2> HIDE DEF new
  <2> QED BY <2>2, <2>3 DEF OfCall
<1> HIDE DEF new
<1>6. \A t \in Tabs : /\ inbox'[t] \in Seq(Events)
                      /\ \A i \in DOMAIN inbox'[t] :
                            \/ i \in DOMAIN inbox[t] /\ inbox'[t][i] = inbox[t][i]
                            \/ /\ i > Len(inbox[t])
                               /\ i - Len(inbox[t]) \in DOMAIN new(t)
                               /\ inbox'[t][i] = new(t)[i - Len(inbox[t])]
  <2> TAKE t \in Tabs
  <2> DEFINE s == inbox[t]
             q == new(t)
  <2>1. s \in Seq(Events) /\ q \in Seq(Events) /\ inbox'[t] = s \o q
    BY <1>4
  <2> HIDE DEF s, q
  <2>2. /\ s \o q \in Seq(Events)
        /\ \A i \in DOMAIN (s \o q) :
              \/ i \in DOMAIN s /\ (s \o q)[i] = s[i]
              \/ i > Len(s) /\ i - Len(s) \in DOMAIN q /\ (s \o q)[i] = q[i - Len(s)]
    BY <2>1, JoinedEvents
  <2> QED BY <2>1, <2>2 DEF s, q
<1>7. Typed'
  <2>1. inbox' \in [Tabs -> Seq(Events)]
    BY <1>1, <1>6
  <2>2. \A t \in Tabs : at[t] = None => inbox'[t] = <<>>
    BY <1>4, ReceivedFacts DEF new, CallInv, Typed
  <2> QED BY <1>1, <2>1, <2>2 DEF CallInv, Typed
<1>8. Tagged'
  <2>1. ASSUME NEW t \in Tabs, NEW i \in DOMAIN inbox'[t]
        PROVE  /\ inbox'[t][i].n \in 1 .. commits
               /\ inbox'[t][i].key = "error" => inbox'[t][i].by = t
               /\ \A q \in sending' : inbox'[t][i].n # q.n
    <3>1. CASE i \in DOMAIN inbox[t] /\ inbox'[t][i] = inbox[t][i]
      BY <1>1, <3>1 DEF CallInv, Tagged
    <3>2. CASE /\ i - Len(inbox[t]) \in DOMAIN new(t)
               /\ inbox'[t][i] = new(t)[i - Len(inbox[t])]
      BY <1>1, <1>2, <1>5, <3>2
    <3> QED BY <1>6, <3>1, <3>2
  <2> QED BY <1>1, <2>1 DEF CallInv, Tagged
<1>9. Waited'
  <2> SUFFICES ASSUME overlapped = {}, NEW u \in Tabs
               PROVE  Waits(u)'
    BY <1>1 DEF Waited
  <2>1. Waits(u)
    BY DEF CallInv, Waited
  <2>2. \A k \in DOMAIN new(u) : new(u)[k].by = u => new(u)[k].n \in open[u]
    <3> SUFFICES ASSUME NEW k \in DOMAIN new(u), new(u)[k].by = u
                 PROVE  new(u)[k].n \in open[u]
      OBVIOUS
    <3>1. PICK room \in Rooms : new(u) = r.emitted[room]
      BY ReceivedFacts DEF new
    <3> QED BY <2>1, <3>1 DEF Waits, OfOpen
  <2>3. \A j, k \in DOMAIN new(u) :
            j < k /\ new(u)[j].by = u /\ new(u)[k].by = u => ~Settles(u, new(u)[j])
    <3> SUFFICES ASSUME NEW j \in DOMAIN new(u), NEW k \in DOMAIN new(u), j < k,
                        new(u)[j].by = u, new(u)[k].by = u
                 PROVE  ~Settles(u, new(u)[j])
      OBVIOUS
    <3>1. PICK room \in Rooms : new(u) = r.emitted[room]
      BY ReceivedFacts DEF new
    <3> QED BY <2>1, <3>1 DEF Waits, LastSettles
  <2>4. \/ \A i \in DOMAIN inbox[u] : inbox[u][i].by # u
        \/ \A k \in DOMAIN new(u) : new(u)[k].by # u
    <3> SUFFICES ASSUME NEW i \in DOMAIN inbox[u], inbox[u][i].by = u,
                        NEW k \in DOMAIN new(u), new(u)[k].by = u
                 PROVE  FALSE
      OBVIOUS
    <3>1. inbox[u][i].n \in open[u] /\ new(u)[k].n \in open[u] /\ new(u)[k].n = r.n
      BY <1>5, <2>1, <2>2 DEF Waits, OfOpen
    <3>2. inbox[u][i].n = r.n
      BY <2>1, <3>1 DEF Waits
    <3> QED BY <3>2 DEF CallInv, Tagged
  <2>5. OfOpen(u, inbox[u])'
    <3>1. \A i \in DOMAIN inbox'[u] : inbox'[u][i].by = u => inbox'[u][i].n \in open[u]
      BY <1>6, <2>1, <2>2 DEF Waits, OfOpen
    <3> QED BY <1>1, <3>1 DEF OfOpen
  <2>6. LastSettles(u, inbox[u])'
    <3> SUFFICES ASSUME NEW i \in DOMAIN inbox'[u], NEW j \in DOMAIN inbox'[u], i < j,
                        inbox'[u][i].by = u, inbox'[u][j].by = u
                 PROVE  ~Settles(u, inbox'[u][i])
      BY <1>1 DEF LastSettles, Settles
    <3> DEFINE m == Len(inbox[u])
    <3>0. m \in Nat /\ DOMAIN inbox[u] = 1 .. m /\ i \in Nat /\ j \in Nat
      BY <1>4, <1>6
    <3> HIDE DEF m
    <3>1. CASE \A k \in DOMAIN inbox[u] : inbox[u][k].by # u
      <4>1. /\ i - m \in DOMAIN new(u) /\ inbox'[u][i] = new(u)[i - m]
            /\ j - m \in DOMAIN new(u) /\ inbox'[u][j] = new(u)[j - m]
        BY <1>6, <3>1 DEF m
      <4>2. i - m < j - m
        BY <3>0
      <4> QED BY <2>3, <4>1, <4>2
    <3>2. CASE \A k \in DOMAIN new(u) : new(u)[k].by # u
      <4>1. /\ i \in DOMAIN inbox[u] /\ inbox'[u][i] = inbox[u][i]
            /\ j \in DOMAIN inbox[u] /\ inbox'[u][j] = inbox[u][j]
        BY <1>6, <3>2
      <4> QED BY <2>1, <4>1 DEF Waits, LastSettles
    <3> QED BY <2>4, <3>1, <3>2
  <2>7. \A q \in sending' : \A room \in Rooms : /\ OfOpen(u, q.emitted[room])'
                                                /\ LastSettles(u, q.emitted[room])'
    BY <1>1, <2>1 DEF Waits, OfOpen, LastSettles, Settles
  <2>8. \A m, n \in open'[u] : m = n
    BY <1>1, <2>1 DEF Waits
  <2> QED BY <2>5, <2>6, <2>7, <2>8 DEF Waits
<1>10. CallsSettledByTheirEvents'
  BY <1>1 DEF CallInv, CallsSettledByTheirEvents
<1> QED BY <1>7, <1>8, <1>9, <1>10 DEF CallInv

\* The first event of a list and the others.
LEMMA HeadAndTail ==
    ASSUME NEW s \in Seq(Events), s # <<>>
    PROVE  /\ Head(s) \in Events /\ 1 \in DOMAIN s /\ Head(s) = s[1]
           /\ Tail(s) \in Seq(Events)
           /\ \A i \in DOMAIN Tail(s) : /\ i \in Nat /\ i > 0 /\ i + 1 \in DOMAIN s
                                        /\ Tail(s)[i] = s[i + 1]
OBVIOUS

\* With one call at a time, the event that settles a call is the event of that
\* call, and the last one of it.
LEMMA SettlingEvent ==
    ASSUME CallInv, overlapped = {}, NEW t \in Tabs, inbox[t] # <<>>,
           Head(inbox[t]).by = t, Settles(t, Head(inbox[t]))
    PROVE  /\ Head(inbox[t]).n \in open[t]
           /\ \A n \in open[t] : n = Head(inbox[t]).n
           /\ \A i \in DOMAIN Tail(inbox[t]) : Tail(inbox[t])[i].by # t
           /\ \A r \in sending : \A room \in Rooms : \A i \in DOMAIN r.emitted[room] :
                 r.emitted[room][i].by # t
<1> DEFINE e == Head(inbox[t])
<1>1. /\ inbox[t] \in Seq(Events) /\ e = inbox[t][1] /\ 1 \in DOMAIN inbox[t]
      /\ \A i \in DOMAIN Tail(inbox[t]) : /\ i \in Nat /\ i > 0
                                          /\ i + 1 \in DOMAIN inbox[t]
                                          /\ Tail(inbox[t])[i] = inbox[t][i + 1]
  <2>1. inbox[t] \in Seq(Events)
    BY DEF CallInv, Typed
  <2> QED BY <2>1, HeadAndTail
<1>2. Waits(t) /\ e.by = t /\ Settles(t, e)
  BY DEF CallInv, Waited
<1> HIDE DEF e
<1>3. e.n \in open[t] /\ \A n \in open[t] : n = e.n
  BY <1>1, <1>2 DEF Waits, OfOpen
<1>4. \A i \in DOMAIN Tail(inbox[t]) : Tail(inbox[t])[i].by # t
  <2> SUFFICES ASSUME NEW i \in DOMAIN Tail(inbox[t]), Tail(inbox[t])[i].by = t
               PROVE  FALSE
    OBVIOUS
  <2>1. 1 < i + 1 /\ i + 1 \in DOMAIN inbox[t] /\ inbox[t][i + 1].by = t
    BY <1>1
  <2>2. LastSettles(t, inbox[t])
    BY <1>2 DEF Waits
  <2> QED BY <1>1, <1>2, <2>1, <2>2 DEF LastSettles
<1>5. \A r \in sending : \A room \in Rooms : \A i \in DOMAIN r.emitted[room] :
          r.emitted[room][i].by # t
  <2> SUFFICES ASSUME NEW r \in sending, NEW room \in Rooms,
                      NEW i \in DOMAIN r.emitted[room], r.emitted[room][i].by = t
               PROVE  FALSE
    OBVIOUS
  <2>1. r.emitted[room][i].n \in open[t]
    BY <1>2 DEF Waits, OfOpen
  <2>2. r.emitted[room][i].n = r.n
    BY DEF CallInv, Tagged, OfCall
  <2>3. e.n # r.n
    BY <1>1 DEF CallInv, Tagged
  <2> QED BY <1>3, <2>1, <2>2, <2>3
<1> QED BY <1>3, <1>4, <1>5 DEF e

\* What a tab does with an event leaves its map and its calls in order.
LEMMA ReceiveTypes ==
    ASSUME CallInv, NEW t \in Tabs, Receive(t)
    PROVE  /\ promiseMap' \in [Tabs -> [Keys -> 0 .. commits]]
           /\ \A u \in Tabs : \A k \in Keys : \/ promiseMap'[u][k] = promiseMap[u][k]
                                              \/ promiseMap'[u][k] = 0
           /\ open' \in [Tabs -> SUBSET (1 .. commits)]
           /\ \A u \in Tabs : open'[u] \subseteq open[u]
           /\ \A u \in Tabs \ {t} : open'[u] = open[u]
<1> DEFINE e == Head(inbox[t])
<1>1. e \in Events /\ (e.key # "error" => e.key \in Keys)
  <2>1. inbox[t] \in Seq(Events) /\ inbox[t] # <<>>
    BY DEF CallInv, Typed, Receive
  <2>2. e \in Events
    BY <2>1, HeadAndTail
  <2> HIDE DEF e
  <2> QED BY <2>2 DEF Events
<1>2. /\ promiseMap \in [Tabs -> [Keys -> 0 .. commits]]
      /\ open \in [Tabs -> SUBSET (1 .. commits)] /\ commits \in Nat
  BY DEF CallInv, Typed
<1>3. IF e.key = "error" THEN Reject(t, e) ELSE Resolve(t, e)
  BY DEF Receive
<1> HIDE DEF e
<1>4. \/ UNCHANGED promiseMap
      \/ e.key \in Keys /\ promiseMap' = [promiseMap EXCEPT ![t][e.key] = 0]
  BY <1>1, <1>3 DEF Reject, Resolve
<1>5. \/ UNCHANGED open
      \/ \E gone : open' = [open EXCEPT ![t] = @ \ gone]
  BY <1>3 DEF Reject, Resolve
<1>6. promiseMap' \in [Tabs -> [Keys -> 0 .. commits]]
      /\ \A u \in Tabs : \A k \in Keys : \/ promiseMap'[u][k] = promiseMap[u][k]
                                         \/ promiseMap'[u][k] = 0
  <2>1. CASE UNCHANGED promiseMap
    BY <1>2, <2>1
  <2>2. CASE e.key \in Keys /\ promiseMap' = [promiseMap EXCEPT ![t][e.key] = 0]
    <3> DEFINE key == e.key
    <3>1. key \in Keys /\ promiseMap' = [promiseMap EXCEPT ![t][key] = 0]
      BY <2>2
    <3>2. 0 \in 0 .. commits
      BY <1>2
    <3> HIDE DEF key
    <3> QED BY <1>2, <3>1, <3>2
  <2> QED BY <1>4, <2>1, <2>2
<1>7. /\ open' \in [Tabs -> SUBSET (1 .. commits)]
      /\ \A u \in Tabs : open'[u] \subseteq open[u]
      /\ \A u \in Tabs \ {t} : open'[u] = open[u]
  BY <1>2, <1>5
<1> QED BY <1>6, <1>7

\* A promise that is gone settles nothing, and the others settle what they did.
LEMMA SettlesStill ==
    ASSUME Typed, NEW u \in Tabs, NEW e \in Events, open'[u] \subseteq open[u],
           \A k \in Keys : \/ promiseMap'[u][k] = promiseMap[u][k]
                           \/ promiseMap'[u][k] = 0
    PROVE  (e.key = "error" \/ promiseMap'[u][e.key] \in open'[u]) => Settles(u, e)
<1>1. e.key = "error" \/ e.key \in Keys
  BY DEF Events
<1>2. 0 \notin open[u]
  BY DEF Typed
<1> QED BY <1>1, <1>2 DEF Settles

LEMMA ReceiveKeeps ==
    ASSUME CallInv, NEW t \in Tabs, Receive(t)
    PROVE  CallInv'
<1> DEFINE e == Head(inbox[t])
<1>1. /\ inbox[t] # <<>> /\ inbox' = [inbox EXCEPT ![t] = Tail(@)]
      /\ IF e.key = "error" THEN Reject(t, e) ELSE Resolve(t, e)
      /\ UNCHANGED <<commits, sending, at, inRoom, socketId, left, overlapped>>
  BY DEF Receive, server
<1>2. /\ inbox \in [Tabs -> Seq(Events)] /\ commits \in Nat
      /\ promiseMap \in [Tabs -> [Keys -> 0 .. commits]]
      /\ open \in [Tabs -> SUBSET (1 .. commits)]
  BY DEF CallInv, Typed
<1>3. /\ e \in Events /\ e = inbox[t][1] /\ 1 \in DOMAIN inbox[t]
      /\ Tail(inbox[t]) \in Seq(Events)
      /\ \A i \in DOMAIN Tail(inbox[t]) : /\ i \in Nat /\ i > 0
                                          /\ i + 1 \in DOMAIN inbox[t]
                                          /\ Tail(inbox[t])[i] = inbox[t][i + 1]
  <2>1. inbox[t] \in Seq(Events)
    BY <1>2
  <2> QED BY <1>1, <2>1, HeadAndTail
<1> HIDE DEF e
<1>4. /\ inbox' \in [Tabs -> Seq(Events)] /\ inbox'[t] = Tail(inbox[t])
      /\ \A u \in Tabs \ {t} : inbox'[u] = inbox[u]
  BY <1>1, <1>2, <1>3
<1>5. /\ promiseMap' \in [Tabs -> [Keys -> 0 .. commits]]
      /\ \A u \in Tabs : \A k \in Keys : \/ promiseMap'[u][k] = promiseMap[u][k]
                                         \/ promiseMap'[u][k] = 0
      /\ open' \in [Tabs -> SUBSET (1 .. commits)]
      /\ \A u \in Tabs : open'[u] \subseteq open[u]
      /\ \A u \in Tabs \ {t} : open'[u] = open[u]
  BY ReceiveTypes
<1>6. Typed'
  <2>1. at[t] # None
    BY <1>1 DEF CallInv, Typed
  <2> QED BY <1>1, <1>4, <1>5, <2>1 DEF CallInv, Typed
<1>7. Tagged'
  <2>1. ASSUME NEW u \in Tabs, NEW i \in DOMAIN inbox'[u]
        PROVE  \E j \in DOMAIN inbox[u] : inbox'[u][i] = inbox[u][j]
    BY <1>3, <1>4
  <2>2. ASSUME NEW u \in Tabs, NEW i \in DOMAIN inbox'[u]
        PROVE  /\ inbox'[u][i].n \in 1 .. commits
               /\ inbox'[u][i].key = "error" => inbox'[u][i].by = u
               /\ \A r \in sending : inbox'[u][i].n # r.n
    BY <2>1 DEF CallInv, Tagged
  <2> QED BY <1>1, <2>2 DEF CallInv, Tagged
<1>8. e.key = "error" => e.by = t
  BY <1>3 DEF CallInv, Tagged
<1>9. \/ /\ e.by = t /\ Settles(t, e)
      \/ UNCHANGED <<open, settled>>
  <2>1. CASE e.key = "error"
    BY <1>8, <2>1 DEF Settles
  <2>2. CASE e.key # "error" /\ ~(e.by = t /\ Settles(t, e))
    <3>1. e.key \in Keys /\ Resolve(t, e)
      BY <1>1, <1>3, <2>2 DEF Events
    <3>2. CASE e.by # t \/ promiseMap[t][e.key] = 0
      BY <3>1, <3>2 DEF Resolve, SameOrigin
    <3>3. CASE e.by = t /\ promiseMap[t][e.key] # 0
      <4>0. CASE ~SameOrigin(t, e)
        BY <3>1, <4>0 DEF Resolve
      <4>1. promiseMap[t][e.key] \notin open[t]
        BY <2>2, <3>3 DEF Settles
      <4>2. CASE SameOrigin(t, e)
        <5>1. /\ open' = [open EXCEPT ![t] = @ \ {promiseMap[t][e.key]}]
              /\ UNCHANGED settled
          BY <3>1, <3>3, <4>1, <4>2 DEF Resolve
        <5> QED BY <1>2, <4>1, <5>1
      <4> QED BY <4>0, <4>2
    <3> QED BY <3>2, <3>3
  <2> QED BY <2>1, <2>2
<1>10. overlapped = {} =>
          \/ UNCHANGED <<open, settled>>
          \/ /\ e.n \in open[t] /\ \A n \in open[t] : n = e.n
             /\ \A i \in DOMAIN inbox'[t] : inbox'[t][i].by # t
             /\ \A r \in sending : \A room \in Rooms : \A i \in DOMAIN r.emitted[room] :
                   r.emitted[room][i].by # t
  BY <1>1, <1>4, <1>9, SettlingEvent DEF e
<1>11. Waited'
  <2> SUFFICES ASSUME overlapped = {}, NEW u \in Tabs
               PROVE  Waits(u)'
    BY <1>1 DEF Waited
  <2>1. Waits(u)
    BY DEF CallInv, Waited
  <2>2. \A m, n \in open'[u] : m = n
    BY <1>5, <2>1 DEF Waits
  <2>3. \A f \in Events : (f.key = "error" \/ promiseMap'[u][f.key] \in open'[u])
                             => Settles(u, f)
    BY <1>5, SettlesStill DEF CallInv
  <2>4. CASE open'[u] = open[u]
    <3>1. ASSUME NEW s \in Seq(Events), OfOpen(u, s), LastSettles(u, s)
          PROVE  /\ \A i \in DOMAIN s : s[i].by = u => s[i].n \in open'[u]
                 /\ \A i, j \in DOMAIN s : i < j /\ s[i].by = u /\ s[j].by = u =>
                       ~(s[i].key = "error" \/ promiseMap'[u][s[i].key] \in open'[u])
      <4>1. \A i \in DOMAIN s : s[i] \in Events
        OBVIOUS
      <4>2. \A i, j \in DOMAIN s : i < j /\ s[i].by = u /\ s[j].by = u =>
                ~Settles(u, s[i])
        BY <3>1 DEF LastSettles
      <4> QED BY <2>3, <2>4, <3>1, <4>1, <4>2 DEF OfOpen
    <3>2. OfOpen(u, inbox'[u]) /\ LastSettles(u, inbox'[u]) /\ inbox'[u] \in Seq(Events)
      <4>1. CASE u # t
        BY <1>4, <2>1, <4>1 DEF Waits
      <4>2. CASE u = t
        <5>1. \A i \in DOMAIN inbox'[t] : /\ i \in Nat /\ i + 1 \in DOMAIN inbox[t]
                                          /\ inbox'[t][i] = inbox[t][i + 1]
          BY <1>3, <1>4
        <5>2. OfOpen(t, inbox'[t])
          BY <2>1, <4>2, <5>1 DEF Waits, OfOpen
        <5>3. LastSettles(t, inbox'[t])
          <6> SUFFICES ASSUME NEW i \in DOMAIN inbox'[t], NEW j \in DOMAIN inbox'[t],
                              i < j, inbox'[t][i].by = t, inbox'[t][j].by = t
                       PROVE  ~Settles(t, inbox'[t][i])
            BY DEF LastSettles
          <6>1. i + 1 < j + 1 /\ i + 1 \in DOMAIN inbox[t] /\ j + 1 \in DOMAIN inbox[t]
            BY <5>1
          <6>2. inbox[t][i + 1].by = t /\ inbox[t][j + 1].by = t
            BY <5>1
          <6>3. ~Settles(t, inbox[t][i + 1])
            BY <2>1, <4>2, <6>1, <6>2 DEF Waits, LastSettles
          <6> QED BY <5>1, <6>3
        <5> QED BY <1>4, <4>2, <5>2, <5>3
      <4> QED BY <4>1, <4>2
    <3>3. OfOpen(u, inbox[u])' /\ LastSettles(u, inbox[u])'
      BY <3>1, <3>2 DEF OfOpen, LastSettles, Settles
    <3>4. ASSUME NEW r \in sending', NEW room \in Rooms
          PROVE  OfOpen(u, r.emitted[room])' /\ LastSettles(u, r.emitted[room])'
      <4>1. /\ r.emitted[room] \in Seq(Events)
            /\ OfOpen(u, r.emitted[room]) /\ LastSettles(u, r.emitted[room])
        BY <1>1, <2>1 DEF Waits, CallInv, Typed
      <4> QED BY <3>1, <4>1 DEF OfOpen, LastSettles, Settles
    <3> QED BY <2>2, <3>3, <3>4 DEF Waits
  <2>5. CASE open'[u] # open[u]
    <3>1. u = t /\ open' # open
      BY <1>5, <2>5
    <3>2. /\ \A i \in DOMAIN inbox'[t] : inbox'[t][i].by # t
          /\ \A r \in sending : \A room \in Rooms : \A i \in DOMAIN r.emitted[room] :
                r.emitted[room][i].by # t
      BY <1>10, <3>1
    <3> QED BY <1>1, <2>2, <3>1, <3>2 DEF Waits, OfOpen, LastSettles
  <2> QED BY <2>4, <2>5
<1>12. CallsSettledByTheirEvents'
  <2> SUFFICES ASSUME overlapped = {}, NEW p \in settled'
               PROVE  p[1] = p[2]
    BY <1>1 DEF CallsSettledByTheirEvents
  <2>1. CASE p \in settled
    BY <2>1 DEF CallInv, CallsSettledByTheirEvents
  <2>2. CASE p \notin settled
    <3>1. \A n \in open[t] : n = e.n
      BY <1>10, <2>2
    <3>2. PICK n \in open[t] : p = <<n, e.n>>
      BY <1>1, <2>2 DEF Reject, Resolve, Pending
    <3> QED BY <3>1, <3>2
  <2> QED BY <2>1, <2>2
<1> QED BY <1>6, <1>7, <1>11, <1>12 DEF CallInv

-----------------------------------------------------------------------------
(* Documents are opened and closed *)

\* A step that makes no call, emits nothing and settles nothing: at most, the
\* events on their way to a tab are lost, or its promises.
LEMMA QuietKeeps ==
    ASSUME CallInv, UNCHANGED <<commits, sending, settled, open, overlapped>>,
           at' \in [Tabs -> Docs \cup {None}], inRoom' \in [Tabs -> Docs \cup {None}],
           socketId' \in [Tabs -> Nat], left' \in Nat,
           \A t \in Tabs : at'[t] = None => inbox'[t] = <<>>,
           inbox' \in [Tabs -> Seq(Events)],
           \A t \in Tabs : inbox'[t] = inbox[t] \/ inbox'[t] = <<>>,
           promiseMap' \in [Tabs -> [Keys -> 0 .. commits]],
           \A t \in Tabs : \A k \in Keys : \/ promiseMap'[t][k] = promiseMap[t][k]
                                           \/ promiseMap'[t][k] = 0
    PROVE  CallInv'
<1>1. Typed'
  BY DEF CallInv, Typed
<1>2. \A t \in Tabs : inbox'[t] = inbox[t] \/ DOMAIN inbox'[t] = {}
  <2> TAKE t \in Tabs
  <2> DEFINE none == <<>>
  <2>1. DOMAIN none = {}
    OBVIOUS
  <2>2. inbox'[t] = inbox[t] \/ inbox'[t] = none
    OBVIOUS
  <2> HIDE DEF none
  <2> QED BY <2>1, <2>2
<1>3. Tagged'
  <2>1. ASSUME NEW t \in Tabs, NEW i \in DOMAIN inbox'[t]
        PROVE  /\ inbox'[t][i].n \in 1 .. commits
               /\ inbox'[t][i].key = "error" => inbox'[t][i].by = t
               /\ \A q \in sending : inbox'[t][i].n # q.n
    <3>1. inbox'[t] = inbox[t]
      BY <1>2
    <3> QED BY <3>1 DEF CallInv, Tagged
  <2> QED BY <2>1 DEF CallInv, Tagged
<1>4. Waited'
  <2> SUFFICES ASSUME overlapped = {}, NEW u \in Tabs
               PROVE  Waits(u)'
    BY DEF Waited
  <2>1. Waits(u)
    BY DEF CallInv, Waited
  <2>2. \A f \in Events : (f.key = "error" \/ promiseMap'[u][f.key] \in open'[u])
                             => Settles(u, f)
    BY SettlesStill DEF CallInv
  <2>3. ASSUME NEW s \in Seq(Events), OfOpen(u, s), LastSettles(u, s)
        PROVE  /\ \A i \in DOMAIN s : s[i].by = u => s[i].n \in open'[u]
               /\ \A i, j \in DOMAIN s : i < j /\ s[i].by = u /\ s[j].by = u =>
                     ~(s[i].key = "error" \/ promiseMap'[u][s[i].key] \in open'[u])
    <3>1. \A i \in DOMAIN s : s[i] \in Events
      OBVIOUS
    <3>2. \A i, j \in DOMAIN s : i < j /\ s[i].by = u /\ s[j].by = u =>
              ~Settles(u, s[i])
      BY <2>3 DEF LastSettles
    <3> QED BY <2>2, <2>3, <3>1, <3>2 DEF OfOpen
  <2>4. OfOpen(u, inbox'[u]) /\ LastSettles(u, inbox'[u])
    BY <1>2, <2>1 DEF Waits, OfOpen, LastSettles
  <2>5. OfOpen(u, inbox[u])' /\ LastSettles(u, inbox[u])'
    BY <2>3, <2>4 DEF OfOpen, LastSettles, Settles
  <2>6. ASSUME NEW r \in sending', NEW room \in Rooms
        PROVE  OfOpen(u, r.emitted[room])' /\ LastSettles(u, r.emitted[room])'
    <3>1. /\ r.emitted[room] \in Seq(Events)
          /\ OfOpen(u, r.emitted[room]) /\ LastSettles(u, r.emitted[room])
      BY <2>1 DEF Waits, CallInv, Typed
    <3> QED BY <2>3, <3>1 DEF OfOpen, LastSettles, Settles
  <2> QED BY <2>1, <2>5, <2>6 DEF Waits
<1>5. CallsSettledByTheirEvents'
  BY DEF CallInv, CallsSettledByTheirEvents
<1> QED BY <1>1, <1>3, <1>4, <1>5 DEF CallInv

\* What the tabs have of the documents: their copies, and the fetches they
\* made again.
Copies ==
    /\ view \in [Tabs -> Seq(Items)]
    /\ \A t \in Tabs : Plain(view[t])
    /\ asked \in [Tabs -> Seq(Docs)]
    /\ answers \in [Tabs -> Seq({a \in Answer : Plain(a.cells)})]

IInv == Lists /\ Copies /\ CallInv

LEMMA Initially == Init => IInv
<1> SUFFICES ASSUME Init PROVE IInv
  OBVIOUS
<1>1. /\ \A d \in Docs : Stored[d] \in Seq(Cells) /\ Range(Stored[d]) \subseteq Cells
      /\ Stored \in [Docs -> Seq(Cells)] /\ Disjoint(Stored)
  <2>1. \A d \in Docs : IsInjective(Stored[d]) /\ Stored[d] \in Seq(Cells)
    BY CollabAssumption DEF Disjoint
  <2> QED BY <2>1, CollabAssumption, Injective
<1>2. Lists
  BY <1>1 DEF Init, Lists
<1>3. <<>> \in Seq(Items) /\ <<>> \in Seq(Docs) /\ <<>> \in Seq(Events) /\ DOMAIN <<>> = {}
  OBVIOUS
<1>4. Copies
  <2>1. Plain(<<>>)
    BY <1>3 DEF Plain
  <2> QED BY <1>3, <2>1 DEF Init, Copies
<1>5. Typed
  BY <1>3 DEF Init, Typed
<1>6. Tagged /\ Waited /\ CallsSettledByTheirEvents
  BY <1>3 DEF Init, Tagged, Waited, Waits, OfOpen, LastSettles,
     CallsSettledByTheirEvents
<1> QED BY <1>2, <1>4, <1>5, <1>6 DEF IInv, CallInv

LEMMA CallsKeep ==
    ASSUME IInv, NEW t \in Tabs, IsCall(t), Lists'
    PROVE  IInv'
<1>1. PICK key \in Keys : \E emitted : Commit(t, key, emitted) /\ Emits(t, key, emitted)
  BY DEF IsCall
<1>2. PICK emitted : Commit(t, key, emitted) /\ Emits(t, key, emitted)
  BY <1>1
<1>3. CallInv'
  BY <1>2, CallKeeps DEF IInv
<1>4. Copies'
  BY <1>2 DEF IInv, Copies, Commit, MakePromise, tabs
<1> QED BY <1>3, <1>4 DEF IInv

LEMMA EmitEventsKeepsAll ==
    ASSUME IInv, NEW r \in sending, EmitEvents(r)
    PROVE  IInv'
<1>1. CallInv'
  BY EmitEventsKeeps DEF IInv
<1>2. Lists' /\ Copies'
  BY DEF EmitEvents, IInv, Lists, Copies
<1> QED BY <1>1, <1>2 DEF IInv

LEMMA ReceiveKeepsAll ==
    ASSUME IInv, NEW t \in Tabs, Receive(t)
    PROVE  IInv'
<1> DEFINE e == Head(inbox[t])
<1>1. CallInv'
  BY ReceiveKeeps DEF IInv
<1>2. Lists' /\ UNCHANGED answers
  BY DEF Receive, server, IInv, Lists
<1>3. e \in Events
  <2>1. inbox[t] \in Seq(Events) /\ inbox[t] # <<>>
    BY DEF Receive, IInv, CallInv, Typed
  <2> QED BY <2>1, HeadAndTail
<1>4. /\ view' = [view EXCEPT ![t] = Applied(@, e)]
      /\ asked' = IF e.key # "dataDocRestored" THEN asked
                  ELSE [asked EXCEPT ![t] = @ \o Refetches(t, e)]
  BY DEF Receive
<1> HIDE DEF e
<1>5. view' \in [Tabs -> Seq(Items)] /\ \A u \in Tabs : Plain(view'[u])
  <2>1. Plain(Applied(view[t], e))
    BY <1>3, AppliedPlain DEF IInv, Copies
  <2> DEFINE v == Applied(view[t], e)
  <2>2. v \in Seq(Items) /\ Plain(v) /\ view' = [view EXCEPT ![t] = v]
    BY <1>4, <2>1 DEF Plain
  <2> HIDE DEF v
  <2> QED BY <2>2 DEF IInv, Copies
<1>6. asked' \in [Tabs -> Seq(Docs)]
  <2>1. CASE e.key # "dataDocRestored"
    BY <1>4, <2>1 DEF IInv, Copies
  <2>2. CASE e.key = "dataDocRestored"
    <3>1. e.doc \in Docs
      BY <1>3, <2>2 DEF Events
    <3>2. Refetches(t, e) \in Seq(Docs)
      <4>1. at[t] \in Docs
        BY DEF Receive, IInv, CallInv, Typed
      <4> QED BY <3>1, <4>1 DEF Refetches
    <3> DEFINE q == asked[t] \o Refetches(t, e)
    <3>3. asked[t] \in Seq(Docs)
      BY DEF IInv, Copies
    <3>4. q \in Seq(Docs) /\ asked' = [asked EXCEPT ![t] = q]
      BY <1>4, <2>2, <3>2, <3>3, ConcatProperties
    <3> HIDE DEF q
    <3> QED BY <3>4 DEF IInv, Copies
  <2> QED BY <2>1, <2>2
<1> QED BY <1>1, <1>2, <1>5, <1>6 DEF IInv, Copies

LEMMA OpenDataDocKeeps ==
    ASSUME IInv, NEW t \in Tabs, NEW d \in Docs, OpenDataDoc(t, d)
    PROVE  IInv'
<1>1. /\ at' = [at EXCEPT ![t] = d] /\ view' = [view EXCEPT ![t] = cells[d]]
      /\ promiseMap' = [promiseMap EXCEPT ![t] = [k \in Keys |-> 0]]
      /\ UNCHANGED <<server, inRoom, socketId, inbox, asked, answers, settled, open,
                     overlapped>>
      /\ left' = left \/ left' = left + 1
  BY DEF OpenDataDoc, LeaveOnce
<1>2. Lists'
  BY <1>1 DEF server, IInv, Lists
<1>3. Copies'
  <2> DEFINE s == cells[d]
  <2>1. s \in Seq(Cells) /\ IsInjective(s)
    BY DEF IInv, Lists, Disjoint
  <2> HIDE DEF s
  <2>2. Plain(s)
    BY <2>1, Injective
  <2>3. view' = [view EXCEPT ![t] = s]
    BY <1>1 DEF s
  <2>4. s \in Seq(Items)
    BY <2>2 DEF Plain
  <2> QED BY <1>1, <2>2, <2>3, <2>4 DEF IInv, Copies
<1>4. CallInv'
  <2>1. d # None
    BY CollabAssumption
  <2>2. /\ at \in [Tabs -> Docs \cup {None}] /\ inRoom' \in [Tabs -> Docs \cup {None}]
        /\ socketId' \in [Tabs -> Nat] /\ left' \in Nat
        /\ inbox' \in [Tabs -> Seq(Events)]
    BY <1>1 DEF IInv, CallInv, Typed
  <2>3. /\ at' \in [Tabs -> Docs \cup {None}]
        /\ \A u \in Tabs : at'[u] = None => inbox'[u] = <<>>
    BY <1>1, <2>1, <2>2 DEF IInv, CallInv, Typed
  <2>4. /\ promiseMap' \in [Tabs -> [Keys -> 0 .. commits]]
        /\ \A u \in Tabs : \A k \in Keys : \/ promiseMap'[u][k] = promiseMap[u][k]
                                           \/ promiseMap'[u][k] = 0
    <3> DEFINE none == [k \in Keys |-> 0]
    <3>1. /\ promiseMap \in [Tabs -> [Keys -> 0 .. commits]] /\ commits \in Nat
      BY DEF IInv, CallInv, Typed
    <3>2. /\ none \in [Keys -> 0 .. commits] /\ \A k \in Keys : none[k] = 0
          /\ promiseMap' = [promiseMap EXCEPT ![t] = none]
      BY <1>1, <3>1
    <3> HIDE DEF none
    <3> QED BY <3>1, <3>2
  <2>5. UNCHANGED <<commits, sending, settled, open, overlapped, inbox>>
    BY <1>1 DEF server
  <2> QED BY <2>2, <2>3, <2>4, <2>5, QuietKeeps DEF IInv
<1> QED BY <1>2, <1>3, <1>4 DEF IInv

LEMMA RoomKeeps ==
    ASSUME IInv, NEW t \in Tabs, JoinRoom(t) \/ LoseConnection(t) \/ CloseDataDoc(t)
    PROVE  IInv'
<1>1. UNCHANGED <<server, view, asked, answers, settled, open, overlapped>>
  BY DEF JoinRoom, LoseConnection, CloseDataDoc, promises
<1>2. Lists' /\ Copies'
  BY <1>1 DEF server, IInv, Lists, Copies
<1>3. /\ at \in [Tabs -> Docs \cup {None}] /\ inRoom \in [Tabs -> Docs \cup {None}]
      /\ socketId \in [Tabs -> Nat] /\ left \in Nat
      /\ inbox \in [Tabs -> Seq(Events)]
      /\ \A u \in Tabs : at[u] = None => inbox[u] = <<>>
      /\ promiseMap \in [Tabs -> [Keys -> 0 .. commits]] /\ commits \in Nat
  BY DEF IInv, CallInv, Typed
<1>4. /\ at' \in [Tabs -> Docs \cup {None}] /\ inRoom' \in [Tabs -> Docs \cup {None}]
      /\ socketId' \in [Tabs -> Nat] /\ left' \in Nat
  <2>1. /\ UNCHANGED at \/ at' = [at EXCEPT ![t] = None]
        /\ \/ inRoom' = [inRoom EXCEPT ![t] = at[t]]
           \/ inRoom' = [inRoom EXCEPT ![t] = None]
        /\ left' = left \/ left' = left + 1
        /\ UNCHANGED socketId \/ socketId' = [socketId EXCEPT ![t] = left']
    BY DEF JoinRoom, LoseConnection, CloseDataDoc, LeaveOnce
  <2>2. left' \in Nat
    BY <1>3, <2>1
  <2>3. at' \in [Tabs -> Docs \cup {None}] /\ inRoom' \in [Tabs -> Docs \cup {None}]
    BY <1>3, <2>1
  <2>4. socketId' \in [Tabs -> Nat]
    BY <1>3, <2>1, <2>2
  <2> QED BY <2>2, <2>3, <2>4
<1>5. /\ inbox' \in [Tabs -> Seq(Events)]
      /\ \A u \in Tabs : inbox'[u] = inbox[u] \/ inbox'[u] = <<>>
      /\ \A u \in Tabs : at'[u] = None => inbox'[u] = <<>>
  <2>1. \/ UNCHANGED <<inbox, at>>
        \/ /\ inbox' = [inbox EXCEPT ![t] = <<>>]
           /\ UNCHANGED at \/ at' = [at EXCEPT ![t] = None]
    BY DEF JoinRoom, LoseConnection, CloseDataDoc
  <2>2. CASE UNCHANGED <<inbox, at>>
    BY <1>3, <2>2
  <2>3. CASE /\ inbox' = [inbox EXCEPT ![t] = <<>>]
             /\ UNCHANGED at \/ at' = [at EXCEPT ![t] = None]
    <3> DEFINE none == <<>>
    <3>1. none \in Seq(Events) /\ inbox' = [inbox EXCEPT ![t] = none]
      BY <2>3
    <3> HIDE DEF none
    <3>2. /\ inbox' \in [Tabs -> Seq(Events)] /\ inbox'[t] = none
          /\ \A u \in Tabs \ {t} : inbox'[u] = inbox[u] /\ at'[u] = at[u]
      BY <1>3, <2>3, <3>1
    <3> QED BY <1>3, <3>2 DEF none
  <2> QED BY <2>1, <2>2, <2>3
<1>6. /\ promiseMap' \in [Tabs -> [Keys -> 0 .. commits]]
      /\ \A u \in Tabs : \A k \in Keys : \/ promiseMap'[u][k] = promiseMap[u][k]
                                         \/ promiseMap'[u][k] = 0
  <2>1. \/ UNCHANGED promiseMap
        \/ promiseMap' = [promiseMap EXCEPT ![t] = [k \in Keys |-> 0]]
    BY DEF JoinRoom, LoseConnection, CloseDataDoc, promises
  <2>2. CASE UNCHANGED promiseMap
    BY <1>3, <2>2
  <2>3. CASE promiseMap' = [promiseMap EXCEPT ![t] = [k \in Keys |-> 0]]
    <3> DEFINE none == [k \in Keys |-> 0]
    <3>1. none \in [Keys -> 0 .. commits] /\ \A k \in Keys : none[k] = 0
      BY <1>3
    <3>2. promiseMap' = [promiseMap EXCEPT ![t] = none]
      BY <2>3
    <3> HIDE DEF none
    <3> QED BY <1>3, <3>1, <3>2
  <2> QED BY <2>1, <2>2, <2>3
<1>7. CallInv'
  BY <1>1, <1>4, <1>5, <1>6, QuietKeeps DEF server, IInv
<1> QED BY <1>2, <1>7 DEF IInv

LEMMA RefetchKeeps ==
    ASSUME IInv, NEW t \in Tabs,
           RefetchRead(t) \/ \E i \in DOMAIN answers[t] : RefetchArrives(t, i)
    PROVE  IInv'
<1>1. UNCHANGED <<server, promises, at, inRoom, socketId, left, inbox>>
  BY DEF RefetchRead, RefetchArrives
<1>2. Lists'
  BY <1>1 DEF server, IInv, Lists
<1>3. CallInv'
  <2>1. UNCHANGED <<commits, sending, settled, open, overlapped, at, inRoom,
                    socketId, left, inbox, promiseMap>>
    BY <1>1 DEF server, promises
  <2>2. /\ at' \in [Tabs -> Docs \cup {None}] /\ inRoom' \in [Tabs -> Docs \cup {None}]
        /\ socketId' \in [Tabs -> Nat] /\ left' \in Nat
        /\ \A u \in Tabs : at'[u] = None => inbox'[u] = <<>>
        /\ inbox' \in [Tabs -> Seq(Events)]
        /\ promiseMap' \in [Tabs -> [Keys -> 0 .. commits]]
    BY <2>1 DEF IInv, CallInv, Typed
  <2> QED BY <2>1, <2>2, QuietKeeps DEF IInv
<1>4. CASE RefetchRead(t)
  <2> DEFINE q == asked[t]
             d == Head(q)
             a == [doc |-> d, cells |-> cells[d], commits |-> commits]
  <2>1. q \in Seq(Docs) /\ q # <<>> /\ asked \in [Tabs -> Seq(Docs)]
        /\ commits \in Nat
    BY <1>4 DEF RefetchRead, IInv, Copies, CallInv, Typed
  <2>2. /\ asked' = [asked EXCEPT ![t] = Tail(q)]
        /\ answers' = [answers EXCEPT ![t] = Append(answers[t], a)]
        /\ UNCHANGED view
    BY <1>4 DEF RefetchRead
  <2> HIDE DEF q
  <2>3. d \in Docs /\ Tail(q) \in Seq(Docs)
    BY <2>1
  <2> HIDE DEF d
  <2>4. cells[d] \in Seq(Cells) /\ IsInjective(cells[d])
    BY <2>3 DEF IInv, Lists, Disjoint
  <2>5. Plain(cells[d])
    BY <2>4, Injective
  <2>6. a \in {b \in Answer : Plain(b.cells)}
    BY <2>1, <2>3, <2>4, <2>5 DEF Answer
  <2> HIDE DEF a
  <2>7. asked' \in [Tabs -> Seq(Docs)]
    BY <2>1, <2>2, <2>3
  <2>8. answers' \in [Tabs -> Seq({b \in Answer : Plain(b.cells)})]
    <3> DEFINE A == {b \in Answer : Plain(b.cells)}
               q2 == Append(answers[t], a)
    <3>1. answers \in [Tabs -> Seq(A)] /\ a \in A
      BY <2>6 DEF IInv, Copies
    <3> HIDE DEF A
    <3>2. q2 \in Seq(A) /\ answers' = [answers EXCEPT ![t] = q2]
      BY <2>2, <3>1
    <3> HIDE DEF q2
    <3>3. answers' \in [Tabs -> Seq(A)]
      BY <3>1, <3>2
    <3> QED BY <3>3 DEF A
  <2>9. Copies'
    BY <2>2, <2>7, <2>8 DEF IInv, Copies
  <2> QED BY <1>2, <1>3, <2>9 DEF IInv
<1>5. CASE \E i \in DOMAIN answers[t] : RefetchArrives(t, i)
  <2>1. PICK i \in DOMAIN answers[t] : RefetchArrives(t, i)
    BY <1>5
  <2> DEFINE A == {b \in Answer : Plain(b.cells)}
             s == answers[t][i].cells
             rest == RemoveAt(answers[t], i - 1)
  <2>2. answers \in [Tabs -> Seq(A)]
    BY DEF IInv, Copies
  <2>9. Plain(s)
    <3>1. \A b \in A : Plain(b.cells)
      OBVIOUS
    <3> HIDE DEF A
    <3>2. answers[t] \in Seq(A)
      BY <2>2
    <3>3. answers[t][i] \in A
      BY <3>2
    <3> QED BY <3>1, <3>3
  <2> HIDE DEF A
  <2>3. answers' \in [Tabs -> Seq(A)]
    <3>1. answers[t] \in Seq(A) /\ i - 1 \in 0 .. Len(answers[t]) - 1
      BY <2>2
    <3>2. rest \in Seq(A)
      BY <3>1, RemoveAtOf
    <3>3. answers' = [answers EXCEPT ![t] = rest]
      BY <2>1 DEF RefetchArrives
    <3> HIDE DEF rest
    <3> QED BY <2>2, <3>2, <3>3
  <2>4. UNCHANGED view \/ view' = [view EXCEPT ![t] = s]
    BY <2>1 DEF RefetchArrives
  <2>5. s \in Seq(Items)
    BY <2>9 DEF Plain
  <2> HIDE DEF s
  <2>6. view' \in [Tabs -> Seq(Items)] /\ \A u \in Tabs : Plain(view'[u])
    BY <2>9, <2>4, <2>5 DEF IInv, Copies
  <2>7. UNCHANGED asked
    BY <2>1 DEF RefetchArrives
  <2>8. Copies'
    BY <2>3, <2>6, <2>7 DEF A, IInv, Copies
  <2> QED BY <1>2, <1>3, <2>8 DEF IInv
<1> QED BY <1>4, <1>5

LEMMA Inductive == IInv /\ [Next]_vars => IInv'
<1> SUFFICES ASSUME IInv, [Next]_vars PROVE IInv'
  OBVIOUS
<1>0. Typed /\ Lists
  BY DEF IInv, CallInv
<1>1. ASSUME NEW t \in Tabs, NEW c \in Cells, NEW i \in Indices,
             \/ InsertDataCell(t, c, i)
             \/ PasteCopy(t, c, i)
             \/ PasteCutWithin(t, c, i)
             \/ \E d \in Docs : PasteCutAcross(t, d, c, i)
      PROVE  IInv'
  BY <1>0, <1>1, InsertDataCellCalls, PasteCopyCalls, PasteCutWithinCalls,
     PasteCutAcrossCalls, CallsKeep
<1>2. ASSUME NEW t \in Tabs, NEW c \in Cells,
             DeleteDataCell(t, c) \/ RestoreDataDoc(t, c)
      PROVE  IInv'
  BY <1>0, <1>2, DeleteDataCellCalls, RestoreDataDocCalls, CallsKeep
<1>3. ASSUME NEW t \in Tabs, NEW from \in Indices, NEW to \in Indices,
             MoveDataCell(t, from, to)
      PROVE  IInv'
  BY <1>0, <1>3, MoveDataCellCalls, CallsKeep
<1>4. ASSUME NEW t \in Tabs, NEW key \in Keys, RequestFails(t, key)
      PROVE  IInv'
  BY <1>0, <1>4, RequestFailsCalls, CallsKeep
<1>5. ASSUME NEW t \in Tabs, NEW d \in Docs, OpenDataDoc(t, d)
      PROVE  IInv'
  BY <1>5, OpenDataDocKeeps
<1>6. ASSUME NEW t \in Tabs, Receive(t)
      PROVE  IInv'
  BY <1>6, ReceiveKeepsAll
<1>7. ASSUME NEW t \in Tabs, JoinRoom(t) \/ LoseConnection(t) \/ CloseDataDoc(t)
      PROVE  IInv'
  BY <1>7, RoomKeeps
<1>8. ASSUME NEW t \in Tabs,
             RefetchRead(t) \/ \E i \in DOMAIN answers[t] : RefetchArrives(t, i)
      PROVE  IInv'
  BY <1>8, RefetchKeeps
<1>9. ASSUME NEW r \in sending, EmitEvents(r)
      PROVE  IInv'
  BY <1>9, EmitEventsKeepsAll
<1>10. CASE UNCHANGED vars
  <2>1. UNCHANGED <<server, tabs, promises>>
    BY <1>10 DEF vars
  <2>2. Lists' /\ Copies'
    BY <2>1 DEF server, tabs, IInv, Lists, Copies
  <2>3. UNCHANGED <<commits, sending, settled, open, overlapped, at, inRoom,
                    socketId, left, inbox, promiseMap>>
    BY <2>1 DEF server, tabs, promises
  <2>4. /\ at' \in [Tabs -> Docs \cup {None}] /\ inRoom' \in [Tabs -> Docs \cup {None}]
        /\ socketId' \in [Tabs -> Nat] /\ left' \in Nat
        /\ \A u \in Tabs : at'[u] = None => inbox'[u] = <<>>
        /\ inbox' \in [Tabs -> Seq(Events)]
        /\ promiseMap' \in [Tabs -> [Keys -> 0 .. commits]]
    BY <2>3 DEF IInv, CallInv, Typed
  <2>5. CallInv'
    BY <2>3, <2>4, QuietKeeps DEF IInv
  <2> QED BY <2>2, <2>5 DEF IInv
<1> QED
  BY <1>1, <1>2, <1>3, <1>4, <1>5, <1>6, <1>7, <1>8, <1>9, <1>10 DEF Next, Calls

LEMMA Invariant == Spec => []IInv
BY Initially, Inductive, PTL DEF Spec

\* A copy never shows a cell twice, whatever events come, in whatever order and
\* however late, and although the event of an insert may come to a tab that has
\* fetched the cell already: the lists of the server never have a cell twice,
\* and dataDocCellsArrayHelper makes of a list without a cell twice another one.
THEOREM NothingShownTwice == Spec => []NoCellTwice
<1>1. IInv => NoCellTwice
  BY DEF IInv, Copies, Plain, NoCellTwice
<1> QED BY <1>1, Invariant, PTL

\* As long as each tab makes one call at a time, the event that resolves or
\* rejects a call is one of that call, although the promise map of a tab has one
\* slot for a kind of call, a failing call rejects them all and an event is
\* matched to a promise by nothing but the author and the kind.
THEOREM EachCallItsEvent == Spec => []CallsSettledByTheirEvents
<1>1. IInv => CallsSettledByTheirEvents
  BY DEF IInv, CallInv
<1> QED BY <1>1, Invariant, PTL

-----------------------------------------------------------------------------
(* Copies and the lists that the documents have had *)

\* What an event of d tells of h, the lists after each commit.
Tells(h, e, d) ==
    /\ Changing(e) => e.doc = d
    /\ Positional(e) => h[e.n][d] = Applied(h[e.n - 1][d], e)

Recorded(h) ==
    /\ h \in [Nat -> [Docs -> Seq(Cells)]]
    /\ h[commits] = cells
    /\ \A r \in sending : \A d \in Docs : \A i \in DOMAIN r.emitted[d] :
          Tells(h, r.emitted[d][i], d)
    /\ \A t \in Tabs : \A i \in DOMAIN inbox[t] :
          Changing(inbox[t][i]) => Tells(h, inbox[t][i], inbox[t][i].doc)
    /\ \A t \in Tabs : \A i \in DOMAIN answers[t] :
          /\ answers[t][i].commits <= commits
          /\ answers[t][i].cells = h[answers[t][i].commits][answers[t][i].doc]

\* What is sent to one tab changes nothing, and is all that its request emits.
OwnEvents ==
    \A r \in sending : \A t \in Tabs : r.emitted[t] # <<>> =>
       /\ \A i \in DOMAIN r.emitted[t] : ~Changing(r.emitted[t][i])
       /\ \A d \in Docs : r.emitted[d] = <<>>

Counts ==
    /\ base \in [Tabs -> Nat] /\ newest \in [Tabs -> Nat]
    /\ missed \in [Tabs -> SUBSET Nat] /\ mixed \in [Tabs -> BOOLEAN]
    /\ \A t \in Tabs : base[t] <= newest[t] /\ newest[t] <= commits

\* What the commit n changed in the document of the tab is on its way, or is
\* to be fetched again.  Events of other documents do not count.
OnItsWay(t, n) ==
    \/ \E i \in DOMAIN inbox[t] : /\ inbox[t][i].n = n /\ inbox[t][i].doc = at[t]
                                 /\ Changing(inbox[t][i])
    \/ \E r \in sending : /\ r.n = n
                          /\ \E i \in DOMAIN r.emitted[at[t]] : Changing(r.emitted[at[t]][i])

Fetched(t, n) ==
    \/ \E i \in DOMAIN asked[t] : asked[t][i] = at[t]
    \/ \E i \in DOMAIN answers[t] : answers[t][i].doc = at[t] /\ n <= answers[t][i].commits

\* A change after the newest one that the tab took will come, unless it missed it.
ToCome(h, t) ==
    at[t] # None =>
       \A l, k \in newest[t] .. commits :
          l <= k => \/ h[k][at[t]] = h[l][at[t]]
                    \/ \E n \in l + 1 .. k : OnItsWay(t, n) \/ Fetched(t, n) \/ n \in missed[t]

\* The copy is the list of the newest commit that it took, unless one before
\* that is still to come.
UpToDate(h, t) ==
    at[t] # None /\ missed[t] = {} /\ ~mixed[t] =>
       \/ view[t] = h[newest[t]][at[t]]
       \/ \E n \in base[t] + 1 .. newest[t] : OnItsWay(t, n)
       \/ Fetched(t, 0)

Follows(h) ==
    /\ OwnEvents
    /\ Counts
    /\ Recorded(h)
    /\ \A t \in Tabs : ToCome(h, t) /\ UpToDate(h, t)

Histories == [Nat -> [Docs -> Seq(Cells)]]

ConvInv == \E h \in Histories : Follows(h)

\* A step that leaves the copy of a tab alone, and loses nothing that is on its
\* way to it without saying so.
LeavesCopy(u) ==
    /\ at'[u] = at[u] /\ view'[u] = view[u] /\ mixed'[u] = mixed[u]
    /\ base'[u] = base[u] /\ newest'[u] = newest[u] /\ missed[u] \subseteq missed'[u]
    /\ at[u] # None => \A n \in base[u] + 1 .. commits :
                          OnItsWay(u, n) => OnItsWay(u, n)' \/ n \in missed'[u]
    /\ at[u] # None => \A n \in 0 .. commits : Fetched(u, n) => Fetched(u, n)'

LEMMA CopyLeft ==
    ASSUME commits \in Nat, Counts, NEW h, NEW u \in Tabs, ToCome(h, u), UpToDate(h, u),
           commits' = commits, LeavesCopy(u)
    PROVE  ToCome(h, u)' /\ UpToDate(h, u)'
<1>1. /\ base[u] \in Nat /\ newest[u] \in Nat /\ base[u] <= newest[u]
      /\ newest[u] <= commits
  BY DEF Counts
<1>2. CASE at[u] = None
  BY <1>2 DEF LeavesCopy, ToCome, UpToDate
<1>3. CASE at[u] # None
  <2>1. ToCome(h, u)'
    <3> SUFFICES ASSUME NEW l \in newest[u] .. commits, NEW k \in newest[u] .. commits,
                        l <= k, h[k][at[u]] # h[l][at[u]]
                 PROVE  \E n \in l + 1 .. k : OnItsWay(u, n)' \/ Fetched(u, n)' \/ n \in missed'[u]
      BY DEF ToCome, LeavesCopy
    <3>1. PICK n \in l + 1 .. k : OnItsWay(u, n) \/ Fetched(u, n) \/ n \in missed[u]
      BY <1>3 DEF ToCome
    <3>2. n \in base[u] + 1 .. commits /\ n \in 0 .. commits
      BY <1>1
    <3>3. OnItsWay(u, n)' \/ Fetched(u, n)' \/ n \in missed'[u]
      BY <1>3, <3>1, <3>2 DEF LeavesCopy
    <3> QED BY <3>3
  <2>2. UpToDate(h, u)'
    <3> SUFFICES ASSUME missed'[u] = {}, ~mixed'[u]
                 PROVE  \/ view'[u] = h[newest'[u]][at'[u]]
                        \/ \E n \in base'[u] + 1 .. newest'[u] : OnItsWay(u, n)'
                        \/ Fetched(u, 0)'
      BY DEF UpToDate
    <3>1. missed[u] = {} /\ ~mixed[u]
      BY DEF LeavesCopy
    <3>2. CASE view[u] = h[newest[u]][at[u]]
      BY <3>2 DEF LeavesCopy
    <3>3. CASE \E n \in base[u] + 1 .. newest[u] : OnItsWay(u, n)
      <4>1. PICK n \in base[u] + 1 .. newest[u] : OnItsWay(u, n)
        BY <3>3
      <4>2. n \in base[u] + 1 .. commits
        BY <1>1
      <4>3. OnItsWay(u, n)'
        BY <1>3, <4>1, <4>2 DEF LeavesCopy
      <4> QED BY <4>3 DEF LeavesCopy
    <3>4. CASE Fetched(u, 0)
      <4>1. 0 \in 0 .. commits
        OBVIOUS
      <4> QED BY <1>3, <3>4, <4>1 DEF LeavesCopy
    <3> QED BY <1>3, <3>1, <3>2, <3>3, <3>4 DEF UpToDate
  <2> QED BY <2>1, <2>2
<1> QED BY <1>2, <1>3

\* A tab whose document is to be fetched again is excused.
LEMMA FetchExcuses ==
    ASSUME commits' \in Nat, Counts', NEW h, NEW u \in Tabs,
           \E i \in DOMAIN asked'[u] : asked'[u][i] = at'[u]
    PROVE  ToCome(h, u)' /\ UpToDate(h, u)'
<1>1. newest'[u] \in Nat
  BY DEF Counts
<1>2. \A n : Fetched(u, n)'
  BY DEF Fetched
<1>3. ToCome(h, u)'
  <2> SUFFICES ASSUME NEW l \in newest'[u] .. commits', NEW k \in newest'[u] .. commits',
                      l <= k, h[k][at'[u]] # h[l][at'[u]]
               PROVE  \E n \in l + 1 .. k : Fetched(u, n)'
    BY DEF ToCome
  <2>1. k \in l + 1 .. k
    BY <1>1
  <2> QED BY <1>2, <2>1
<1>4. UpToDate(h, u)'
  BY <1>2 DEF UpToDate
<1> QED BY <1>3, <1>4

\* Nothing of what the copies depend on changes.
LEMMA NothingMoves ==
    ASSUME NEW h, Follows(h),
           UNCHANGED <<cells, commits, sending, at, view, inbox, asked, answers, base,
                       newest, missed, mixed>>
    PROVE  Follows(h)'
<1>1. OwnEvents' /\ Counts'
  BY DEF Follows, OwnEvents, Counts
<1>2. Recorded(h)'
  BY DEF Follows, Recorded
<1>3. ASSUME NEW t \in Tabs
      PROVE  ToCome(h, t)' /\ UpToDate(h, t)'
  <2>1. \A n : OnItsWay(t, n)' <=> OnItsWay(t, n)
    BY DEF OnItsWay
  <2>2. \A n : Fetched(t, n)' <=> Fetched(t, n)
    BY DEF Fetched
  <2> QED BY <2>1, <2>2 DEF Follows, ToCome, UpToDate
<1> QED BY <1>1, <1>2, <1>3 DEF Follows

\* Nothing committed so far is to come to a copy that was fetched now; what is
\* on its way to the tab is of the document before it, or in the copy already.
LEMMA OpenFollows ==
    ASSUME IInv, NEW h, Follows(h), NEW t \in Tabs, NEW d \in Docs, OpenDataDoc(t, d)
    PROVE  Follows(h)'
<1>1. /\ at' = [at EXCEPT ![t] = d]
      /\ view' = [view EXCEPT ![t] = cells[d]]
      /\ base' = [base EXCEPT ![t] = commits] /\ newest' = [newest EXCEPT ![t] = commits]
      /\ missed' = [missed EXCEPT ![t] = {}] /\ mixed' = [mixed EXCEPT ![t] = FALSE]
      /\ UNCHANGED <<cells, commits, sending, inbox, asked, answers>>
  BY DEF OpenDataDoc, server
<1>2. /\ commits \in Nat /\ at \in [Tabs -> Docs \cup {None}] /\ None \notin Docs
      /\ view \in [Tabs -> Seq(Items)]
  BY CollabAssumption DEF IInv, CallInv, Typed, Copies
<1>3. OwnEvents' /\ Counts'
  <2>1. OwnEvents'
    BY <1>1 DEF Follows, OwnEvents
  <2>2. /\ base' \in [Tabs -> Nat] /\ newest' \in [Tabs -> Nat]
        /\ missed' \in [Tabs -> SUBSET Nat] /\ mixed' \in [Tabs -> BOOLEAN]
    BY <1>1, <1>2 DEF Follows, Counts
  <2>3. \A u \in Tabs : base'[u] <= newest'[u] /\ newest'[u] <= commits'
    BY <1>1, <1>2 DEF Follows, Counts
  <2> QED BY <2>1, <2>2, <2>3 DEF Counts
<1>4. Recorded(h)'
  BY <1>1 DEF Follows, Recorded
<1>5. ASSUME NEW u \in Tabs
      PROVE  ToCome(h, u)' /\ UpToDate(h, u)'
  <2>1. CASE u = t
    <3>1. at'[t] = d /\ view'[t] = cells[d] /\ newest'[t] = commits
      BY <1>1, <1>2 DEF Follows, Counts
    <3>2. h[commits] = cells
      BY DEF Follows, Recorded
    <3>3. \A l, k \in newest'[t] .. commits' : l = k
      BY <1>1, <1>2, <3>1
    <3> QED BY <2>1, <3>1, <3>2, <3>3 DEF ToCome, UpToDate
  <2>2. CASE u # t
    <3>1. LeavesCopy(u)
      <4>1. /\ at'[u] = at[u] /\ view'[u] = view[u] /\ mixed'[u] = mixed[u]
            /\ base'[u] = base[u] /\ newest'[u] = newest[u] /\ missed[u] \subseteq missed'[u]
        BY <1>1, <2>2
      <4>2. \A n : OnItsWay(u, n) => OnItsWay(u, n)'
        BY <1>1, <4>1 DEF OnItsWay
      <4>3. \A n : Fetched(u, n) => Fetched(u, n)'
        BY <1>1, <4>1 DEF Fetched
      <4> QED BY <4>1, <4>2, <4>3 DEF LeavesCopy
    <3> QED BY <1>1, <1>2, <3>1, CopyLeft DEF Follows
  <2> QED BY <2>1, <2>2
<1> QED BY <1>3, <1>4, <1>5 DEF Follows

LEMMA LoseFollows ==
    ASSUME IInv, NEW h, Follows(h), NEW t \in Tabs, LoseConnection(t)
    PROVE  Follows(h)'
<1> DEFINE lost == {n \in {e.n : e \in {f \in Range(inbox[t]) : f.doc = at[t]}} :
                       n > base[t]}
<1>1. /\ inbox' = [inbox EXCEPT ![t] = <<>>]
      /\ missed' = [missed EXCEPT ![t] = missed[t] \cup lost]
      /\ UNCHANGED <<cells, commits, sending, at, view, asked, answers, base, newest, mixed>>
  BY DEF LoseConnection, server
<1>2. commits \in Nat /\ inbox \in [Tabs -> Seq(Events)]
  BY DEF IInv, CallInv, Typed
<1>3. \A i \in DOMAIN inbox[t] : inbox[t][i].n \in 1 .. commits
  BY DEF IInv, CallInv, Tagged
<1>4. lost \subseteq Nat
  BY <1>2, <1>3 DEF Range
<1>5. \A i \in DOMAIN inbox[t] :
         inbox[t][i].doc = at[t] /\ inbox[t][i].n > base[t] => inbox[t][i].n \in lost
  BY DEF Range
<1> HIDE DEF lost
<1>6. OwnEvents' /\ Counts'
  <2>1. OwnEvents'
    BY <1>1 DEF Follows, OwnEvents
  <2>2. missed' \in [Tabs -> SUBSET Nat]
    BY <1>1, <1>4 DEF Follows, Counts
  <2> QED BY <1>1, <2>1, <2>2 DEF Follows, Counts
<1>7. \A u \in Tabs : inbox'[u] = inbox[u] \/ inbox'[u] = <<>>
  <2> DEFINE none == <<>>
  <2>1. inbox' = [inbox EXCEPT ![t] = none]
    BY <1>1
  <2> HIDE DEF none
  <2>2. \A u \in Tabs : inbox'[u] = inbox[u] \/ inbox'[u] = none
    BY <1>2, <2>1
  <2> QED BY <2>2 DEF none
<1>8. Recorded(h)'
  <2>1. ASSUME NEW u \in Tabs, NEW i \in DOMAIN inbox'[u], Changing(inbox'[u][i])
        PROVE  Tells(h, inbox'[u][i], inbox'[u][i].doc)
    <3>1. inbox'[u] = inbox[u]
      BY <1>7
    <3> QED BY <2>1, <3>1 DEF Follows, Recorded
  <2> QED BY <1>1, <2>1 DEF Follows, Recorded
<1>9. ASSUME NEW u \in Tabs
      PROVE  ToCome(h, u)' /\ UpToDate(h, u)'
  <2>1. missed[u] \subseteq missed'[u]
    BY <1>1 DEF Follows, Counts
  <2>2. \A n : Fetched(u, n) => Fetched(u, n)'
    BY <1>1 DEF Fetched
  <2>3. ASSUME NEW n \in base[u] + 1 .. commits, OnItsWay(u, n)
        PROVE  OnItsWay(u, n)' \/ n \in missed'[u]
    <3>1. CASE u = t
      <4>1. base[t] \in Nat /\ n > base[t]
        BY <3>1 DEF Follows, Counts
      <4>2. CASE \E i \in DOMAIN inbox[u] : /\ inbox[u][i].n = n
                                            /\ inbox[u][i].doc = at[u]
        <5>1. n \in lost
          BY <1>5, <3>1, <4>1, <4>2
        <5> QED BY <1>1, <3>1, <5>1 DEF Follows, Counts
      <4>3. CASE \E r \in sending : /\ r.n = n
                                    /\ \E i \in DOMAIN r.emitted[at[u]] :
                                          Changing(r.emitted[at[u]][i])
        BY <1>1, <4>3 DEF OnItsWay
      <4> QED BY <2>3, <4>2, <4>3 DEF OnItsWay
    <3>2. CASE u # t
      <4>1. inbox'[u] = inbox[u]
        BY <1>1, <3>2
      <4> QED BY <1>1, <2>3, <4>1 DEF OnItsWay
    <3> QED BY <3>1, <3>2
  <2>4. LeavesCopy(u)
    BY <1>1, <2>1, <2>2, <2>3 DEF LeavesCopy
  <2> QED BY <1>1, <1>2, <2>4, CopyLeft DEF Follows
<1> QED BY <1>6, <1>8, <1>9 DEF Follows

LEMMA CloseFollows ==
    ASSUME IInv, NEW h, Follows(h), NEW t \in Tabs, CloseDataDoc(t)
    PROVE  Follows(h)'
<1>1. /\ inbox' = [inbox EXCEPT ![t] = <<>>] /\ at' = [at EXCEPT ![t] = None]
      /\ UNCHANGED <<cells, commits, sending, view, asked, answers, base, newest, missed,
                     mixed>>
  BY DEF CloseDataDoc, server
<1>2. /\ commits \in Nat /\ inbox \in [Tabs -> Seq(Events)]
      /\ at \in [Tabs -> Docs \cup {None}]
  BY DEF IInv, CallInv, Typed
<1>3. OwnEvents' /\ Counts'
  BY <1>1 DEF Follows, OwnEvents, Counts
<1>4. inbox'[t] = <<>> /\ at'[t] = None
      /\ \A u \in Tabs : u # t => inbox'[u] = inbox[u] /\ at'[u] = at[u]
  <2> DEFINE none == <<>>
  <2>1. inbox' = [inbox EXCEPT ![t] = none]
    BY <1>1
  <2> HIDE DEF none
  <2>2. inbox'[t] = none /\ at'[t] = None
        /\ \A u \in Tabs : u # t => inbox'[u] = inbox[u] /\ at'[u] = at[u]
    BY <1>1, <1>2, <2>1
  <2> QED BY <2>2 DEF none
<1>5. Recorded(h)'
  <2>1. ASSUME NEW u \in Tabs, NEW i \in DOMAIN inbox'[u], Changing(inbox'[u][i])
        PROVE  Tells(h, inbox'[u][i], inbox'[u][i].doc)
    <3>1. u # t
      BY <1>4
    <3> QED BY <1>4, <2>1, <3>1 DEF Follows, Recorded
  <2> QED BY <1>1, <2>1 DEF Follows, Recorded
<1>6. ASSUME NEW u \in Tabs
      PROVE  ToCome(h, u)' /\ UpToDate(h, u)'
  <2>1. CASE u = t
    BY <1>4, <2>1 DEF ToCome, UpToDate
  <2>2. CASE u # t
    <3>1. \A n : OnItsWay(u, n) => OnItsWay(u, n)'
      BY <1>1, <1>4, <2>2 DEF OnItsWay
    <3>2. \A n : Fetched(u, n) => Fetched(u, n)'
      BY <1>1, <1>4, <2>2 DEF Fetched
    <3>3. LeavesCopy(u)
      BY <1>1, <1>4, <2>2, <3>1, <3>2 DEF LeavesCopy
    <3> QED BY <1>1, <1>2, <3>3, CopyLeft DEF Follows
  <2> QED BY <2>1, <2>2
<1> QED BY <1>3, <1>5, <1>6 DEF Follows

LEMMA RefetchReadFollows ==
    ASSUME IInv, NEW h, Follows(h), NEW t \in Tabs, RefetchRead(t)
    PROVE  Follows(h)'
<1> DEFINE q == asked[t]
           d == Head(q)
           a == [doc |-> d, cells |-> cells[d], commits |-> commits]
<1>1. /\ q # <<>> /\ asked' = [asked EXCEPT ![t] = Tail(q)]
      /\ answers' = [answers EXCEPT ![t] = Append(answers[t], a)]
      /\ UNCHANGED <<cells, commits, sending, at, view, inbox, base, newest, missed, mixed>>
  BY DEF RefetchRead, server
<1>2. /\ commits \in Nat /\ asked \in [Tabs -> Seq(Docs)]
      /\ answers \in [Tabs -> Seq({b \in Answer : Plain(b.cells)})]
  BY DEF IInv, CallInv, Typed, Copies
<1>3. /\ d \in Docs /\ Tail(q) \in Seq(Docs) /\ q \in Seq(Docs)
      /\ \A i \in DOMAIN q : i = 1 \/ (i - 1 \in DOMAIN Tail(q) /\ Tail(q)[i - 1] = q[i])
      /\ q[1] = d
  BY <1>1, <1>2
<1>4. a.doc = d /\ a.cells = cells[d] /\ a.commits = commits
  OBVIOUS
<1> HIDE DEF q, d, a
<1>5. asked'[t] = Tail(q) /\ answers'[t] = Append(answers[t], a)
      /\ \A u \in Tabs : u # t => asked'[u] = asked[u] /\ answers'[u] = answers[u]
  BY <1>1, <1>2
<1>6. \E S : answers[t] \in Seq(S)
  BY <1>2
<1>7. LET w == answers[t] IN
      /\ Len(w) + 1 \in DOMAIN answers'[t] /\ answers'[t][Len(w) + 1] = a
      /\ \A i \in DOMAIN w : i \in DOMAIN answers'[t] /\ answers'[t][i] = w[i]
      /\ \A i \in DOMAIN answers'[t] : answers'[t][i] = a \/ (i \in DOMAIN w /\ answers'[t][i] = w[i])
  <2> DEFINE w == answers[t]
             w2 == Append(w, a)
  <2>1. PICK S : w \in Seq(S)
    BY <1>6
  <2> HIDE DEF w
  <2>2. /\ DOMAIN w = 1 .. Len(w) /\ Len(w) \in Nat /\ DOMAIN w2 = 1 .. Len(w) + 1
        /\ w2[Len(w) + 1] = a /\ \A i \in 1 .. Len(w) : w2[i] = w[i]
    BY <2>1
  <2> HIDE DEF w2
  <2>3. /\ Len(w) + 1 \in DOMAIN w2 /\ w2[Len(w) + 1] = a
        /\ \A i \in DOMAIN w : i \in DOMAIN w2 /\ w2[i] = w[i]
        /\ \A i \in DOMAIN w2 : w2[i] = a \/ (i \in DOMAIN w /\ w2[i] = w[i])
    BY <2>2
  <2> QED BY <1>5, <2>3 DEF w, w2
<1>8. OwnEvents' /\ Counts'
  BY <1>1 DEF Follows, OwnEvents, Counts
<1>9. Recorded(h)'
  <2>1. \A u \in Tabs : \A i \in DOMAIN answers'[u] :
          /\ answers'[u][i].commits <= commits
          /\ answers'[u][i].cells = h[answers'[u][i].commits][answers'[u][i].doc]
    <3> TAKE u \in Tabs
    <3>1. h[commits] = cells
      BY DEF Follows, Recorded
    <3>2. \A i \in DOMAIN answers[u] :
             /\ answers[u][i].commits <= commits
             /\ answers[u][i].cells = h[answers[u][i].commits][answers[u][i].doc]
      BY DEF Follows, Recorded
    <3>3. CASE u = t
      <4> TAKE i \in DOMAIN answers'[u]
      <4>1. CASE answers'[u][i] = a
        BY <1>2, <1>4, <3>1, <4>1
      <4>2. CASE i \in DOMAIN answers[t] /\ answers'[u][i] = answers[t][i]
        BY <3>2, <3>3, <4>2
      <4> QED BY <1>7, <3>3, <4>1, <4>2
    <3>4. CASE u # t
      BY <1>5, <3>2, <3>4
    <3> QED BY <3>3, <3>4
  <2> QED BY <1>1, <2>1 DEF Follows, Recorded
<1>10. ASSUME NEW u \in Tabs
       PROVE  ToCome(h, u)' /\ UpToDate(h, u)'
  <2>1. \A n : OnItsWay(u, n) => OnItsWay(u, n)'
    BY <1>1 DEF OnItsWay
  <2>2. ASSUME NEW n \in 0 .. commits, Fetched(u, n)
        PROVE  Fetched(u, n)'
    <3>1. CASE u = t
      <4>1. CASE \E i \in DOMAIN asked[t] : asked[t][i] = at[t]
        <5>1. PICK i \in DOMAIN q : q[i] = at[t]
          BY <4>1 DEF q
        <5>2. CASE i = 1
          <6>1. a.doc = at[t] /\ n <= a.commits
            BY <1>2, <1>3, <1>4, <5>1, <5>2
          <6>2. \E j \in DOMAIN answers'[t] : answers'[t][j] = a
            BY <1>7
          <6>3. \E j \in DOMAIN answers'[t] : /\ answers'[t][j].doc = at[t]
                                             /\ n <= answers'[t][j].commits
            BY <6>1, <6>2
          <6> QED BY <1>1, <3>1, <6>3 DEF Fetched
        <5>3. CASE i # 1
          <6>1. i - 1 \in DOMAIN Tail(q) /\ Tail(q)[i - 1] = at[t]
            BY <1>3, <5>1, <5>3
          <6>2. \E j \in DOMAIN asked'[t] : asked'[t][j] = at[t]
            BY <1>5, <6>1
          <6> QED BY <1>1, <3>1, <6>2 DEF Fetched
        <5> QED BY <5>2, <5>3
      <4>2. CASE \E i \in DOMAIN answers[t] : answers[t][i].doc = at[t] /\ n <= answers[t][i].commits
        BY <1>1, <1>7, <3>1, <4>2 DEF Fetched
      <4> QED BY <2>2, <3>1, <4>1, <4>2 DEF Fetched
    <3>2. CASE u # t
      BY <1>1, <1>5, <2>2, <3>2 DEF Fetched
    <3> QED BY <3>1, <3>2
  <2>3. LeavesCopy(u)
    BY <1>1, <2>1, <2>2 DEF LeavesCopy
  <2> QED BY <1>1, <1>2, <2>3, CopyLeft DEF Follows
<1> QED BY <1>8, <1>9, <1>10 DEF Follows

LEMMA RefetchArrivesFollows ==
    ASSUME IInv, NEW h, Follows(h), NEW t \in Tabs, NEW x \in DOMAIN answers[t],
           RefetchArrives(t, x)
    PROVE  Follows(h)'
<1> DEFINE w == answers[t]
           a == w[x]
           rest == RemoveAt(w, x - 1)
           A == {b \in Answer : Plain(b.cells)}
<1>1. /\ answers' = [answers EXCEPT ![t] = rest]
      /\ UNCHANGED <<cells, commits, sending, at, inbox, asked>>
  BY DEF RefetchArrives, server
<1>2. /\ commits \in Nat /\ answers \in [Tabs -> Seq(A)] /\ view \in [Tabs -> Seq(Items)]
      /\ at \in [Tabs -> Docs \cup {None}]
  BY DEF IInv, CallInv, Typed, Copies
<1>3. /\ base \in [Tabs -> Nat] /\ newest \in [Tabs -> Nat]
      /\ missed \in [Tabs -> SUBSET Nat] /\ mixed \in [Tabs -> BOOLEAN]
      /\ \A u \in Tabs : base[u] <= newest[u] /\ newest[u] <= commits
  BY DEF Follows, Counts
<1>4. a.commits <= commits /\ a.cells = h[a.commits][a.doc]
  BY DEF Follows, Recorded
<1>5. a.commits \in Nat
  <2>1. \A b \in A : b.commits \in Nat
    BY DEF Answer
  <2> HIDE DEF A
  <2>2. w \in Seq(A)
    BY <1>2
  <2> HIDE DEF w
  <2>3. a \in A
    BY <2>2 DEF w
  <2> HIDE DEF a
  <2> QED BY <2>1, <2>3
<1>6. /\ \A j \in DOMAIN w : j # x => \E i \in DOMAIN rest : rest[i] = w[j]
      /\ \A i \in DOMAIN rest : \E j \in DOMAIN w : rest[i] = w[j]
  <2> HIDE DEF A
  <2>1. w \in Seq(A)
    BY <1>2
  <2>2. /\ x \in 1 .. Len(w) /\ x - 1 \in 0 .. Len(w) - 1
        /\ Len(w) \in Nat /\ DOMAIN w = 1 .. Len(w)
    BY <2>1
  <2>3. /\ rest \in Seq(A) /\ Len(rest) = Len(w) - 1
        /\ \A p \in 1 .. Len(w) - 1 : rest[p] = IF p <= x - 1 THEN w[p] ELSE w[p + 1]
    BY <2>1, <2>2, RemoveAtOf
  <2> HIDE DEF w, rest
  <2>4. DOMAIN rest = 1 .. Len(w) - 1
    BY <2>3
  <2>5. ASSUME NEW j \in DOMAIN w, j # x
        PROVE  \E i \in DOMAIN rest : rest[i] = w[j]
    <3>1. CASE j < x
      <4>1. j \in 1 .. Len(w) - 1 /\ j <= x - 1
        BY <2>2, <3>1
      <4> QED BY <2>3, <2>4, <4>1
    <3>2. CASE j > x
      <4>1. j - 1 \in 1 .. Len(w) - 1 /\ ~(j - 1 <= x - 1) /\ (j - 1) + 1 = j
        BY <2>2, <3>2
      <4>2. rest[j - 1] = w[j]
        BY <2>3, <4>1
      <4> QED BY <2>4, <4>1, <4>2
    <3> QED BY <2>2, <2>5, <3>1, <3>2
  <2>6. ASSUME NEW i \in DOMAIN rest
        PROVE  \E j \in DOMAIN w : rest[i] = w[j]
    <3>1. i \in DOMAIN w /\ i + 1 \in DOMAIN w
      BY <2>2, <2>4
    <3> QED BY <2>3, <2>4, <3>1
  <2> QED BY <2>5, <2>6
<1>7. answers'[t] = rest /\ \A u \in Tabs : u # t => answers'[u] = answers[u]
  BY <1>1, <1>2
<1> HIDE DEF rest, A
<1>8. Recorded(h)'
  <2>1. ASSUME NEW u \in Tabs, NEW i \in DOMAIN answers'[u]
        PROVE  /\ answers'[u][i].commits <= commits
               /\ answers'[u][i].cells = h[answers'[u][i].commits][answers'[u][i].doc]
    <3>1. \E j \in DOMAIN answers[u] : answers'[u][i] = answers[u][j]
      BY <1>6, <1>7 DEF w
    <3> QED BY <3>1 DEF Follows, Recorded
  <2> QED BY <1>1, <2>1 DEF Follows, Recorded
<1>9. OwnEvents'
  BY <1>1 DEF Follows, OwnEvents
<1>10. \A u \in Tabs : \A n : OnItsWay(u, n) => OnItsWay(u, n)'
  BY <1>1 DEF OnItsWay
<1>11. ASSUME NEW n, Fetched(t, n), ~(a.doc = at[t] /\ n <= a.commits)
       PROVE  Fetched(t, n)'
  <2>1. CASE \E i \in DOMAIN asked[t] : asked[t][i] = at[t]
    BY <1>1, <2>1 DEF Fetched
  <2>2. CASE \E j \in DOMAIN w : w[j].doc = at[t] /\ n <= w[j].commits
    <3>1. PICK j \in DOMAIN w : w[j].doc = at[t] /\ n <= w[j].commits
      BY <2>2
    <3>2. j # x
      BY <1>11, <3>1
    <3>3. \E i \in DOMAIN answers'[t] : answers'[t][i].doc = at[t] /\ n <= answers'[t][i].commits
      BY <1>6, <1>7, <3>1, <3>2
    <3> QED BY <1>1, <3>3 DEF Fetched
  <2> QED BY <1>11, <2>1, <2>2 DEF Fetched, w
<1>12. ASSUME NEW u \in Tabs, u # t, view'[u] = view[u], mixed'[u] = mixed[u],
              base'[u] = base[u], newest'[u] = newest[u], missed'[u] = missed[u]
       PROVE  ToCome(h, u)' /\ UpToDate(h, u)'
  <2>1. \A n : Fetched(u, n) => Fetched(u, n)'
    BY <1>1, <1>7, <1>12 DEF Fetched
  <2>2. LeavesCopy(u)
    BY <1>1, <1>10, <1>12, <2>1 DEF LeavesCopy
  <2> QED BY <1>1, <1>2, <2>2, CopyLeft DEF Follows
<1>13. CASE a.doc # at[t]
  <2>1. UNCHANGED <<view, mixed, missed, base, newest>>
    BY <1>13 DEF RefetchArrives
  <2>2. Counts'
    BY <1>1, <2>1 DEF Follows, Counts
  <2>3. \A n : Fetched(t, n) => Fetched(t, n)'
    BY <1>11, <1>13
  <2>4. LeavesCopy(t)
    BY <1>1, <1>10, <2>1, <2>3 DEF LeavesCopy
  <2>5. ToCome(h, t)' /\ UpToDate(h, t)'
    BY <1>1, <1>2, <2>4, CopyLeft DEF Follows
  <2>6. ASSUME NEW u \in Tabs, u # t
        PROVE  ToCome(h, u)' /\ UpToDate(h, u)'
    BY <1>12, <2>1, <2>6
  <2> QED BY <1>8, <1>9, <2>2, <2>5, <2>6 DEF Follows
<1>14. CASE a.doc = at[t]
  <2> DEFINE new == IF newest[t] > a.commits THEN newest[t] ELSE a.commits
             left1 == {n \in missed[t] : n > a.commits}
  <2>1. /\ view' = [view EXCEPT ![t] = a.cells]
        /\ mixed' = [mixed EXCEPT ![t] = newest[t] > a.commits]
        /\ newest' = [newest EXCEPT ![t] = new]
        /\ missed' = [missed EXCEPT ![t] = left1]
        /\ base' = [base EXCEPT ![t] = a.commits]
    BY <1>14 DEF RefetchArrives
  <2>2. left1 \in SUBSET Nat /\ \A n \in missed[t] : n > a.commits => n \in left1
    BY <1>3
  <2> HIDE DEF left1, w
  <2>3. /\ view'[t] = a.cells /\ mixed'[t] = (newest[t] > a.commits) /\ newest'[t] = new
        /\ missed'[t] = left1 /\ base'[t] = a.commits
        /\ \A u \in Tabs : u # t => /\ view'[u] = view[u] /\ mixed'[u] = mixed[u]
                                    /\ newest'[u] = newest[u] /\ missed'[u] = missed[u]
                                    /\ base'[u] = base[u]
    BY <1>2, <1>3, <2>1
  <2>4. new \in Nat /\ a.commits <= new /\ new <= commits /\ newest[t] <= new
    BY <1>2, <1>3, <1>4, <1>5
  <2> HIDE DEF a
  <2>5. Counts'
    <3>1. /\ base' \in [Tabs -> Nat] /\ newest' \in [Tabs -> Nat]
          /\ missed' \in [Tabs -> SUBSET Nat] /\ mixed' \in [Tabs -> BOOLEAN]
      BY <1>3, <1>5, <2>1, <2>2, <2>4
    <3>2. \A u \in Tabs : base'[u] <= newest'[u] /\ newest'[u] <= commits'
      BY <1>1, <1>3, <2>3, <2>4
    <3> QED BY <3>1, <3>2 DEF Counts
  <2>6. ToCome(h, t)'
    <3> HIDE DEF new
    <3> SUFFICES ASSUME at[t] # None, NEW l \in new .. commits, NEW k \in new .. commits,
                        l <= k, h[k][at[t]] # h[l][at[t]]
                 PROVE  \E n \in l + 1 .. k : OnItsWay(t, n)' \/ Fetched(t, n)' \/ n \in missed'[t]
      BY <1>1, <2>3 DEF ToCome
    <3>1. l \in newest[t] .. commits /\ k \in newest[t] .. commits
      BY <1>2, <1>3, <2>4
    <3>2. PICK n \in l + 1 .. k : OnItsWay(t, n) \/ Fetched(t, n) \/ n \in missed[t]
      BY <3>1 DEF Follows, ToCome
    <3>3. n > a.commits /\ ~(n <= a.commits)
      BY <1>5, <2>4
    <3>4. CASE OnItsWay(t, n)
      BY <1>10, <3>4
    <3>5. CASE Fetched(t, n)
      BY <1>11, <3>3, <3>5 DEF a
    <3>6. CASE n \in missed[t]
      BY <2>2, <2>3, <3>3, <3>6
    <3> QED BY <3>2, <3>4, <3>5, <3>6
  <2>7. UpToDate(h, t)'
    <3> SUFFICES ASSUME ~mixed'[t]
                 PROVE  view'[t] = h[newest'[t]][at'[t]]
      BY DEF UpToDate
    <3>1. new = a.commits
      BY <2>3
    <3> QED BY <1>1, <1>4, <1>14, <2>3, <3>1 DEF a
  <2>8. ASSUME NEW u \in Tabs, u # t
        PROVE  ToCome(h, u)' /\ UpToDate(h, u)'
    BY <1>12, <2>3, <2>8
  <2> QED BY <1>8, <1>9, <2>5, <2>6, <2>7, <2>8 DEF Follows
<1> QED BY <1>13, <1>14

LEMMA EmitEventsFollows ==
    ASSUME IInv, NEW h, Follows(h), NEW r \in sending, EmitEvents(r)
    PROVE  Follows(h)'
<1>1. /\ sending' = sending \ {r}
      /\ inbox' = [t \in Tabs |-> inbox[t] \o Received(t, r)]
      /\ missed' = [t \in Tabs |-> IF at[t] # None /\ inRoom[t] # at[t] /\ r.n > base[t]
                                        /\ r.emitted[at[t]] # <<>>
                                   THEN missed[t] \cup {r.n} ELSE missed[t]]
      /\ UNCHANGED <<cells, commits, at, view, asked, answers, base, newest, mixed>>
  BY DEF EmitEvents
<1>2. /\ commits \in Nat /\ inbox \in [Tabs -> Seq(Events)]
      /\ at \in [Tabs -> Docs \cup {None}] /\ inRoom \in [Tabs -> Docs \cup {None}]
      /\ r.n \in Nat /\ r.emitted \in [Rooms -> Seq(Events)]
  BY DEF IInv, CallInv, Typed
<1>3. missed \in [Tabs -> SUBSET Nat]
  BY DEF Follows, Counts
<1>4. OwnEvents'
  BY <1>1 DEF Follows, OwnEvents
<1>5. Counts'
  <2>1. missed' \in [Tabs -> SUBSET Nat]
    BY <1>1, <1>2, <1>3
  <2> QED BY <1>1, <2>1 DEF Follows, Counts
<1>6. ASSUME NEW u \in Tabs
      PROVE  /\ Received(u, r) \in Seq(Events)
             /\ \A i \in DOMAIN Received(u, r) :
                   Changing(Received(u, r)[i]) =>
                      Tells(h, Received(u, r)[i], Received(u, r)[i].doc)
             /\ at[u] # None /\ inRoom[u] = at[u]
                /\ (\E i \in DOMAIN r.emitted[at[u]] : Changing(r.emitted[at[u]][i]))
                   => Received(u, r) = r.emitted[at[u]]
  <2>1. Received(u, r) \in Seq(Events)
    BY ReceivedFacts DEF IInv
  <2>2. /\ at[u] # None => at[u] \in Docs
        /\ inRoom[u] # None => inRoom[u] \in Docs
    BY <1>2
  <2>3. r.emitted[u] # <<>> =>
           /\ \A i \in DOMAIN r.emitted[u] : ~Changing(r.emitted[u][i])
           /\ \A d \in Docs : r.emitted[d] = <<>>
    BY DEF Follows, OwnEvents
  <2>4. CASE at[u] = None
    <3>1. Received(u, r) = <<>>
      BY <2>4 DEF Received
    <3> QED BY <2>1, <2>4, <3>1
  <2>5. CASE at[u] # None /\ r.emitted[u] # <<>>
    <3>1. Received(u, r) = <<>> \/ Received(u, r) = r.emitted[u]
      BY <2>5 DEF Received
    <3> QED BY <1>2, <2>1, <2>2, <2>3, <2>5, <3>1
  <2>6. CASE at[u] # None /\ r.emitted[u] = <<>> /\ inRoom[u] = None
    <3>1. Received(u, r) = <<>>
      BY <2>6 DEF Received
    <3> QED BY <2>1, <2>6, <3>1
  <2>7. CASE at[u] # None /\ r.emitted[u] = <<>> /\ inRoom[u] # None
    <3>1. Received(u, r) = r.emitted[inRoom[u]] /\ inRoom[u] \in Docs
      BY <2>2, <2>7 DEF Received
    <3>2. \A i \in DOMAIN r.emitted[inRoom[u]] :
             Tells(h, r.emitted[inRoom[u]][i], inRoom[u])
      BY <3>1 DEF Follows, Recorded
    <3>3. \A i \in DOMAIN Received(u, r) :
             Changing(Received(u, r)[i]) =>
                Tells(h, Received(u, r)[i], Received(u, r)[i].doc)
      BY <3>1, <3>2 DEF Tells
    <3> QED BY <2>1, <3>1, <3>3
  <2> QED BY <2>4, <2>5, <2>6, <2>7
<1>7. ASSUME NEW u \in Tabs
      PROVE  /\ \A i \in DOMAIN inbox'[u] :
                   \/ \E j \in DOMAIN inbox[u] : inbox'[u][i] = inbox[u][j]
                   \/ \E j \in DOMAIN Received(u, r) : inbox'[u][i] = Received(u, r)[j]
             /\ \A j \in DOMAIN inbox[u] : \E i \in DOMAIN inbox'[u] : inbox'[u][i] = inbox[u][j]
             /\ \A j \in DOMAIN Received(u, r) :
                   \E i \in DOMAIN inbox'[u] : inbox'[u][i] = Received(u, r)[j]
  <2> DEFINE s == inbox[u]
             q == Received(u, r)
             sq == s \o q
  <2>1. s \in Seq(Events) /\ q \in Seq(Events)
    BY <1>2, <1>6
  <2>2. inbox'[u] = sq
    BY <1>1
  <2> HIDE DEF s, q
  <2>3. \A i \in DOMAIN sq : \/ i \in DOMAIN s /\ sq[i] = s[i]
                             \/ i - Len(s) \in DOMAIN q /\ sq[i] = q[i - Len(s)]
    BY <2>1, JoinedEvents
  <2>4. \A j \in DOMAIN s : j \in DOMAIN sq /\ sq[j] = s[j]
    BY <2>1
  <2>5. \A j \in DOMAIN q : Len(s) + j \in DOMAIN sq /\ sq[Len(s) + j] = q[j]
    BY <2>1
  <2> HIDE DEF sq
  <2> QED BY <2>2, <2>3, <2>4, <2>5 DEF s, q
<1>8. Recorded(h)'
  <2>1. ASSUME NEW u \in Tabs, NEW i \in DOMAIN inbox'[u], Changing(inbox'[u][i])
        PROVE  Tells(h, inbox'[u][i], inbox'[u][i].doc)
    <3>1. CASE \E j \in DOMAIN inbox[u] : inbox'[u][i] = inbox[u][j]
      BY <2>1, <3>1 DEF Follows, Recorded
    <3>2. CASE \E j \in DOMAIN Received(u, r) : inbox'[u][i] = Received(u, r)[j]
      BY <1>6, <2>1, <3>2
    <3> QED BY <1>7, <3>1, <3>2
  <2> QED BY <1>1, <2>1 DEF Follows, Recorded
<1>9. ASSUME NEW u \in Tabs
      PROVE  ToCome(h, u)' /\ UpToDate(h, u)'
  <2>1. missed[u] \subseteq missed'[u]
    BY <1>1
  <2>2. \A n : Fetched(u, n) => Fetched(u, n)'
    BY <1>1 DEF Fetched
  <2>3. ASSUME at[u] # None, NEW n \in base[u] + 1 .. commits, OnItsWay(u, n)
        PROVE  OnItsWay(u, n)' \/ n \in missed'[u]
    <3>1. CASE \E j \in DOMAIN inbox[u] : /\ inbox[u][j].n = n /\ inbox[u][j].doc = at[u]
                                          /\ Changing(inbox[u][j])
      <4>1. \E i \in DOMAIN inbox'[u] : /\ inbox'[u][i].n = n /\ inbox'[u][i].doc = at[u]
                                        /\ Changing(inbox'[u][i])
        BY <1>7, <3>1
      <4> QED BY <1>1, <4>1 DEF OnItsWay
    <3>2. CASE \E q \in sending : /\ q.n = n
                                  /\ \E i \in DOMAIN q.emitted[at[u]] :
                                        Changing(q.emitted[at[u]][i])
      <4>1. PICK q \in sending : /\ q.n = n
                                 /\ \E i \in DOMAIN q.emitted[at[u]] :
                                       Changing(q.emitted[at[u]][i])
        BY <3>2
      <4>2. CASE q # r
        BY <1>1, <4>1, <4>2 DEF OnItsWay
      <4>3. CASE q = r /\ inRoom[u] = at[u]
        <5>1. Received(u, r) = r.emitted[at[u]]
          BY <1>6, <2>3, <4>1, <4>3
        <5>2. PICK j \in DOMAIN Received(u, r) : Changing(Received(u, r)[j])
          BY <4>1, <4>3, <5>1
        <5>3. at[u] \in Rooms
          BY <1>2, <2>3 DEF Rooms
        <5>4. Received(u, r)[j].n = r.n
          BY <5>1, <5>3 DEF IInv, CallInv, Tagged, OfCall
        <5>5. Received(u, r)[j].doc = at[u]
          BY <1>2, <2>3, <5>1, <5>2 DEF Follows, Recorded, Tells
        <5>6. \E i \in DOMAIN inbox'[u] : /\ inbox'[u][i].n = n /\ inbox'[u][i].doc = at[u]
                                          /\ Changing(inbox'[u][i])
          BY <1>7, <4>1, <4>3, <5>2, <5>4, <5>5
        <5> QED BY <1>1, <5>6 DEF OnItsWay
      <4>4. CASE q = r /\ inRoom[u] # at[u]
        <5>1. r.n > base[u]
          BY <4>1, <4>4 DEF Follows, Counts
        <5>2. r.emitted[at[u]] # <<>>
          BY <4>1, <4>4
        <5> QED BY <1>1, <2>3, <4>1, <4>4, <5>1, <5>2
      <4> QED BY <4>2, <4>3, <4>4
    <3> QED BY <2>3, <3>1, <3>2 DEF OnItsWay
  <2>4. LeavesCopy(u)
    BY <1>1, <2>1, <2>2, <2>3 DEF LeavesCopy
  <2> QED BY <1>1, <1>2, <2>4, CopyLeft DEF Follows
<1> QED BY <1>4, <1>5, <1>8, <1>9 DEF Follows

LEMMA ReceiveFollows ==
    ASSUME IInv, NEW h, Follows(h), NEW t \in Tabs, Receive(t)
    PROVE  Follows(h)'
<1> DEFINE e == Head(inbox[t])
           d == at[t]
           n == e.n
           asking == asked[t] \o Refetches(t, e)
           rest == Tail(inbox[t])
           wrong == IF e.doc = d THEN Positional(e) /\ n <= newest[t]
                    ELSE view'[t] # view[t]
<1>1. /\ inbox[t] # <<>> /\ inbox' = [inbox EXCEPT ![t] = rest]
      /\ view' = [view EXCEPT ![t] = Applied(view[t], e)]
      /\ asked' = IF e.key # "dataDocRestored" THEN asked
                  ELSE [asked EXCEPT ![t] = asking]
      /\ mixed' = [mixed EXCEPT ![t] = mixed[t] \/ wrong]
      /\ newest' = IF e.doc = d /\ Positional(e) /\ n > newest[t]
                   THEN [newest EXCEPT ![t] = n] ELSE newest
      /\ UNCHANGED <<cells, commits, sending, at, answers, base, missed>>
  BY DEF Receive, server, Positional
<1>2. /\ commits \in Nat /\ inbox \in [Tabs -> Seq(Events)]
      /\ at \in [Tabs -> Docs \cup {None}] /\ view \in [Tabs -> Seq(Items)]
      /\ asked \in [Tabs -> Seq(Docs)]
  BY DEF IInv, CallInv, Typed, Copies
<1>3. /\ base \in [Tabs -> Nat] /\ newest \in [Tabs -> Nat]
      /\ missed \in [Tabs -> SUBSET Nat] /\ mixed \in [Tabs -> BOOLEAN]
      /\ \A u \in Tabs : base[u] <= newest[u] /\ newest[u] <= commits
  BY DEF Follows, Counts
<1>4. /\ 1 \in DOMAIN inbox[t] /\ e = inbox[t][1] /\ e \in Events
      /\ \A i \in DOMAIN inbox[t] : i = 1 \/ /\ i - 1 \in DOMAIN rest
                                             /\ rest[i - 1] = inbox[t][i]
      /\ \A i \in DOMAIN rest : /\ i + 1 \in DOMAIN inbox[t]
                                          /\ rest[i] = inbox[t][i + 1]
  BY <1>1, <1>2
<1>5. n \in 1 .. commits /\ d \in Docs /\ (Changing(e) => Tells(h, e, e.doc))
  <2>1. d \in Docs
    BY <1>1, <1>2 DEF IInv, CallInv, Typed
  <2> QED BY <1>4, <2>1 DEF IInv, CallInv, Tagged, Follows, Recorded
<1>0. wrong \in BOOLEAN
  BY DEF Positional
<1> HIDE DEF e, rest, wrong
<1>6. \A u \in Tabs : u # t => /\ inbox'[u] = inbox[u] /\ view'[u] = view[u]
                               /\ asked'[u] = asked[u] /\ mixed'[u] = mixed[u]
                               /\ newest'[u] = newest[u]
  BY <1>1, <1>2, <1>3
<1>7. /\ inbox'[t] = rest /\ view'[t] = Applied(view[t], e)
      /\ mixed'[t] = (mixed[t] \/ wrong)
      /\ newest'[t] = IF e.doc = d /\ Positional(e) /\ n > newest[t] THEN n ELSE newest[t]
  BY <1>1, <1>2, <1>3
<1>8. OwnEvents'
  BY <1>1 DEF Follows, OwnEvents
<1> HIDE DEF Positional
<1>9. Counts'
  <2>1. newest' \in [Tabs -> Nat] /\ mixed' \in [Tabs -> BOOLEAN]
    <3>1. n \in Nat
      BY <1>5
    <3>2. mixed' \in [Tabs -> BOOLEAN]
      BY <1>0, <1>1, <1>3
    <3> HIDE DEF n
    <3> QED BY <1>1, <1>3, <3>1, <3>2
  <2>2. \A u \in Tabs : base'[u] <= newest'[u] /\ newest'[u] <= commits'
    <3> TAKE u \in Tabs
    <3>1. base[u] \in Nat /\ newest[u] \in Nat /\ base[u] <= newest[u] /\ newest[u] <= commits
      BY <1>3
    <3>2. CASE u = t
      BY <1>1, <1>2, <1>5, <1>7, <3>1, <3>2
    <3>3. CASE u # t
      BY <1>1, <1>6, <3>1, <3>3
    <3> QED BY <3>2, <3>3
  <2> QED BY <1>1, <1>3, <2>1, <2>2 DEF Counts
<1>10. Recorded(h)'
  <2>1. ASSUME NEW u \in Tabs, NEW i \in DOMAIN inbox'[u], Changing(inbox'[u][i])
        PROVE  Tells(h, inbox'[u][i], inbox'[u][i].doc)
    <3>1. \E j \in DOMAIN inbox[u] : inbox'[u][i] = inbox[u][j]
      BY <1>4, <1>6, <1>7
    <3> QED BY <2>1, <3>1 DEF Follows, Recorded
  <2> QED BY <1>1, <2>1 DEF Follows, Recorded
<1>11. ASSUME NEW u \in Tabs, u # t
       PROVE  ToCome(h, u)' /\ UpToDate(h, u)'
  <2>1. \A k : OnItsWay(u, k) => OnItsWay(u, k)'
    BY <1>1, <1>6, <1>11 DEF OnItsWay
  <2>2. \A k : Fetched(u, k) => Fetched(u, k)'
    BY <1>1, <1>6, <1>11 DEF Fetched
  <2>3. LeavesCopy(u)
    BY <1>1, <1>6, <1>11, <2>1, <2>2 DEF LeavesCopy
  <2> QED BY <1>1, <1>2, <2>3, CopyLeft DEF Follows
<1>12. ASSUME NEW k, OnItsWay(t, k), k # n \/ ~Changing(e) \/ e.doc # d
       PROVE  OnItsWay(t, k)'
  <2>1. CASE \E i \in DOMAIN inbox[t] : /\ inbox[t][i].n = k /\ inbox[t][i].doc = d
                                        /\ Changing(inbox[t][i])
    <3>1. PICK i \in DOMAIN inbox[t] : /\ inbox[t][i].n = k /\ inbox[t][i].doc = d
                                      /\ Changing(inbox[t][i])
      BY <2>1
    <3>2. i # 1
      BY <1>4, <1>12, <3>1
    <3>3. \E j \in DOMAIN inbox'[t] : /\ inbox'[t][j].n = k /\ inbox'[t][j].doc = d
                                      /\ Changing(inbox'[t][j])
      BY <1>4, <1>7, <3>1, <3>2
    <3> QED BY <1>1, <3>3 DEF OnItsWay
  <2>2. CASE \E r \in sending : /\ r.n = k
                                /\ \E i \in DOMAIN r.emitted[at[t]] : Changing(r.emitted[at[t]][i])
    BY <1>1, <2>2 DEF OnItsWay
  <2> QED BY <1>12, <2>1, <2>2 DEF OnItsWay
<1>13. CASE e.key = "dataDocRestored"
  <2> DEFINE more == Refetches(t, e)
             q == asked[t]
  <2>1. d \in Docs /\ e.doc \in Docs
    BY <1>4, <1>5, <1>13 DEF Events
  <2>2. more \in Seq(Docs) /\ 1 \in DOMAIN more /\ more[1] = d
    BY <2>1 DEF Refetches
  <2>3. q \in Seq(Docs)
    BY <1>2
  <2>4. asked'[t] = q \o more
    BY <1>1, <1>2, <1>13
  <2> HIDE DEF q, more
  <2>5. Len(q) + 1 \in DOMAIN (q \o more) /\ (q \o more)[Len(q) + 1] = d
    BY <2>2, <2>3
  <2>6. \E i \in DOMAIN asked'[t] : asked'[t][i] = at'[t]
    BY <1>1, <2>4, <2>5
  <2>7. ToCome(h, t)' /\ UpToDate(h, t)'
    BY <1>1, <1>2, <1>9, <2>6, FetchExcuses
  <2> QED BY <1>8, <1>9, <1>10, <1>11, <2>7 DEF Follows
<1>14. ASSUME e.key # "dataDocRestored", NEW k, Fetched(t, k)
       PROVE  Fetched(t, k)'
  BY <1>1, <1>14 DEF Fetched
<1>15. CASE ~Changing(e) \/ (/\ e.doc # d /\ e.key # "dataDocRestored"
                             /\ Applied(view[t], e) = view[t])
  <2>1. /\ e.key # "dataDocRestored" /\ (e.doc = d => ~Positional(e))
        /\ Applied(view[t], e) = view[t]
    BY <1>15 DEF Changing, Positional, Applied
  <2>2. /\ view'[t] = view[t] /\ mixed'[t] = mixed[t] /\ newest'[t] = newest[t]
    <3>1. view'[t] = view[t] /\ newest'[t] = newest[t]
      BY <1>7, <2>1
    <3>2. ~wrong
      BY <2>1, <3>1 DEF wrong
    <3>3. mixed[t] \in BOOLEAN
      BY <1>3
    <3> QED BY <1>7, <3>1, <3>2, <3>3
  <2>3. LeavesCopy(t)
    BY <1>1, <1>12, <1>14, <1>15, <2>1, <2>2 DEF LeavesCopy
  <2>4. ToCome(h, t)' /\ UpToDate(h, t)'
    BY <1>1, <1>2, <2>3, CopyLeft DEF Follows
  <2> QED BY <1>8, <1>9, <1>10, <1>11, <2>4 DEF Follows
<1>17. CASE e.doc # d /\ e.key # "dataDocRestored" /\ Applied(view[t], e) # view[t]
  <2>1. wrong /\ newest'[t] = newest[t]
    BY <1>7, <1>17 DEF wrong
  <2>2. mixed'[t]
    BY <1>7, <2>1
  <2>3. UpToDate(h, t)'
    BY <2>2 DEF UpToDate
  <2>4. ToCome(h, t)'
    <3> SUFFICES ASSUME NEW l \in newest[t] .. commits, NEW k \in newest[t] .. commits,
                        l <= k, h[k][d] # h[l][d]
                 PROVE  \E m \in l + 1 .. k :
                           OnItsWay(t, m)' \/ Fetched(t, m)' \/ m \in missed'[t]
      BY <1>1, <2>1 DEF ToCome
    <3>1. d # None
      BY <1>5, CollabAssumption
    <3>2. PICK m \in l + 1 .. k : OnItsWay(t, m) \/ Fetched(t, m) \/ m \in missed[t]
      BY <3>1 DEF Follows, ToCome
    <3>3. OnItsWay(t, m)' \/ Fetched(t, m)' \/ m \in missed'[t]
      BY <1>1, <1>12, <1>14, <1>17, <3>2
    <3> QED BY <3>3
  <2> QED BY <1>8, <1>9, <1>10, <1>11, <2>3, <2>4 DEF Follows
<1>16. CASE Positional(e) /\ e.doc = d
  <2>1. /\ Changing(e) /\ e.key # "dataDocRestored" /\ d # None
        /\ h[n][d] = Applied(h[n - 1][d], e)
    BY <1>5, <1>16, CollabAssumption DEF Changing, Positional, Tells
  <2>2. /\ n \in Nat /\ n >= 1 /\ n <= commits /\ newest[t] \in Nat /\ base[t] \in Nat
        /\ base[t] <= newest[t] /\ newest[t] <= commits
    BY <1>2, <1>3, <1>5
  <2> HIDE DEF n, d
  <2>3. n <= newest'[t] /\ newest[t] <= newest'[t] /\ newest'[t] \in Nat
    BY <1>7, <1>16, <2>2
  <2>4. ToCome(h, t)'
    <3> SUFFICES ASSUME NEW l \in newest'[t] .. commits, NEW k \in newest'[t] .. commits,
                        l <= k, h[k][d] # h[l][d]
                 PROVE  \E m \in l + 1 .. k :
                           OnItsWay(t, m)' \/ Fetched(t, m)' \/ m \in missed'[t]
      BY <1>1 DEF ToCome, d
    <3>1. l \in newest[t] .. commits /\ k \in newest[t] .. commits
      BY <1>2, <2>2, <2>3
    <3>2. PICK m \in l + 1 .. k : OnItsWay(t, m) \/ Fetched(t, m) \/ m \in missed[t]
      BY <2>1, <3>1 DEF Follows, ToCome, d
    <3>3. m # n
      BY <2>2, <2>3
    <3>4. OnItsWay(t, m)' \/ Fetched(t, m)' \/ m \in missed'[t]
      BY <1>1, <1>12, <1>14, <2>1, <3>2, <3>3
    <3> QED BY <3>4
  <2>5. UpToDate(h, t)'
    <3> SUFFICES ASSUME missed[t] = {}, ~mixed'[t]
                 PROVE  \/ view'[t] = h[newest'[t]][d]
                        \/ \E m \in base[t] + 1 .. newest'[t] : OnItsWay(t, m)'
                        \/ Fetched(t, 0)'
      BY <1>1 DEF UpToDate, d
    <3>1. ~mixed[t] /\ n > newest[t] /\ newest'[t] = n
      <4>1. mixed[t] \in BOOLEAN /\ ~(mixed[t] \/ n <= newest[t])
        BY <1>0, <1>3, <1>7, <1>16 DEF wrong
      <4>2. ~mixed[t] /\ ~(n <= newest[t])
        BY <4>1
      <4>3. n > newest[t]
        BY <2>2, <4>2
      <4> QED BY <1>7, <1>16, <4>2, <4>3
    <3>2. CASE view[t] = h[newest[t]][d]
      <4>1. CASE h[n - 1][d] = h[newest[t]][d]
        BY <1>7, <2>1, <3>1, <3>2, <4>1
      <4>2. CASE h[n - 1][d] # h[newest[t]][d]
        <5>1. newest[t] \in newest[t] .. commits /\ n - 1 \in newest[t] .. commits
              /\ newest[t] <= n - 1
          BY <1>2, <2>2, <3>1
        <5>2. PICK m \in newest[t] + 1 .. n - 1 :
                      OnItsWay(t, m) \/ Fetched(t, m) \/ m \in missed[t]
          BY <2>1, <4>2, <5>1 DEF Follows, ToCome, d
        <5>3. m \in base[t] + 1 .. newest'[t] /\ m # n /\ m >= 0
          BY <2>2, <3>1
        <5>4. CASE OnItsWay(t, m)
          BY <1>12, <5>3, <5>4
        <5>5. CASE Fetched(t, m)
          <6>1. Fetched(t, 0)
            <7>1. CASE \E i \in DOMAIN asked[t] : asked[t][i] = at[t]
              BY <7>1 DEF Fetched
            <7>2. CASE \E i \in DOMAIN answers[t] : answers[t][i].doc = at[t] /\ m <= answers[t][i].commits
              <8>1. PICK i \in DOMAIN answers[t] : answers[t][i].doc = at[t] /\ m <= answers[t][i].commits
                BY <7>2
              <8> DEFINE A == {b \in Answer : Plain(b.cells)}
                         w == answers[t]
              <8>2. \A b \in A : b.commits \in Nat
                BY DEF Answer
              <8>3. w \in Seq(A)
                BY DEF IInv, Copies
              <8> HIDE DEF A, w
              <8>4. w[i].commits \in Nat
                <9>1. w[i] \in A
                  BY <8>1, <8>3 DEF w
                <9> QED BY <8>2, <9>1
              <8>5. 0 <= answers[t][i].commits
                BY <8>4 DEF w
              <8> QED BY <8>1, <8>5 DEF Fetched
            <7> QED BY <5>5, <7>1, <7>2 DEF Fetched
          <6> QED BY <1>14, <2>1, <6>1
        <5> QED BY <5>2, <5>4, <5>5
      <4> QED BY <4>1, <4>2
    <3>3. CASE \E m \in base[t] + 1 .. newest[t] : OnItsWay(t, m)
      <4>1. PICK m \in base[t] + 1 .. newest[t] : OnItsWay(t, m)
        BY <3>3
      <4>2. m # n /\ m \in base[t] + 1 .. newest'[t]
        BY <2>2, <3>1
      <4>3. OnItsWay(t, m)'
        BY <1>12, <4>1, <4>2
      <4> QED BY <4>2, <4>3
    <3>4. CASE Fetched(t, 0)
      BY <1>14, <2>1, <3>4
    <3> QED BY <2>1, <3>1, <3>2, <3>3, <3>4 DEF Follows, UpToDate, d
  <2> QED BY <1>8, <1>9, <1>10, <1>11, <2>4, <2>5 DEF Follows
<1> QED BY <1>13, <1>15, <1>16, <1>17 DEF Changing

\* A call adds what it made of the lists to the history.
LEMMA CallFollows ==
    ASSUME IInv, NEW h \in Histories, Follows(h), NEW t0 \in Tabs, IsCall(t0), Lists'
    PROVE  ConvInv'
<1>00. PICK n \in Nat : n = commits + 1
  BY DEF IInv, CallInv, Typed
<1>0. PICK key \in Keys : \E emitted : /\ Commit(t0, key, emitted)
                                       /\ Emits(t0, key, emitted)
                                       /\ Explains(emitted)
  BY DEF IsCall
<1>1. PICK emitted : /\ Commit(t0, key, emitted)
                     /\ Emits(t0, key, emitted)
                     /\ Explains(emitted)
  BY <1>0
<1> DEFINE new == [n |-> n, emitted |-> emitted]
<1>2. /\ commits' = n /\ sending' = sending \cup {new}
      /\ UNCHANGED <<at, view, inbox, asked, answers, base, newest, missed, mixed>>
  BY <1>00, <1>1 DEF Commit, MakePromise, tabs
<1>3. new.n = n /\ new.emitted = emitted
  OBVIOUS
<1>4. /\ commits \in Nat /\ at \in [Tabs -> Docs \cup {None}]
      /\ \A r \in sending : r.n \in 1 .. commits /\ r.emitted \in [Rooms -> Seq(Events)]
      /\ inbox \in [Tabs -> Seq(Events)]
      /\ \A t \in Tabs : \A i \in DOMAIN inbox[t] : inbox[t][i].n \in 1 .. commits
  BY DEF IInv, CallInv, Typed, Tagged
<1>5. cells' \in [Docs -> Seq(Cells)]
  BY DEF Lists
<1>6. \E x : x = [h EXCEPT ![n] = cells']
  OBVIOUS
<1>7. PICK g : g = [h EXCEPT ![n] = cells']
  BY <1>6
<1>8. /\ g \in Histories /\ g[n] = cells' /\ g[commits] = h[commits]
      /\ \A k \in 0 .. commits : g[k] = h[k]
      /\ h[commits] = cells
  BY <1>00, <1>4, <1>5, <1>7 DEF Histories, Follows, Recorded
<1>9. ASSUME NEW e, NEW d, e.n \in 1 .. commits, Tells(h, e, d)
      PROVE  Tells(g, e, d)
  <2>1. e.n \in 0 .. commits /\ e.n - 1 \in 0 .. commits
    BY <1>4, <1>9
  <2> QED BY <1>8, <1>9, <2>1 DEF Tells
<1> HIDE DEF new
<1>10. OwnEvents'
  <2>1. ASSUME NEW r \in sending', NEW t \in Tabs, r.emitted[t] # <<>>
        PROVE  /\ \A i \in DOMAIN r.emitted[t] : ~Changing(r.emitted[t][i])
               /\ \A d \in Docs : r.emitted[d] = <<>>
    <3>1. CASE r \in sending
      BY <2>1, <3>1 DEF Follows, OwnEvents
    <3>2. CASE r = new
      BY <1>1, <1>3, <2>1, <3>2 DEF Explains
    <3> QED BY <1>2, <3>1, <3>2
  <2> QED BY <2>1 DEF OwnEvents
<1>11. Counts'
  <2>1. \A t \in Tabs : base'[t] <= newest'[t] /\ newest'[t] <= commits'
    BY <1>00, <1>2, <1>4 DEF Follows, Counts
  <2> QED BY <1>2, <2>1 DEF Follows, Counts
<1>12. ASSUME NEW d \in Docs, NEW i \in DOMAIN emitted[d]
       PROVE  Tells(g, emitted[d][i], d)
  <2>1. emitted[d][i].n = n
    BY <1>00, <1>1 DEF Emits, OfCall, Rooms
  <2>2. n - 1 = commits
    BY <1>00, <1>4
  <2> QED BY <1>1, <1>8, <2>1, <2>2 DEF Explains, Tells
<1>13. Recorded(g)'
  <2>1. g \in [Nat -> [Docs -> Seq(Cells)]] /\ g[commits'] = cells'
    BY <1>2, <1>8 DEF Histories
  <2>2. ASSUME NEW r \in sending', NEW d \in Docs, NEW i \in DOMAIN r.emitted[d]
        PROVE  Tells(g, r.emitted[d][i], d)
    <3>1. CASE r \in sending
      <4>1. Tells(h, r.emitted[d][i], d)
        BY <3>1 DEF Follows, Recorded
      <4>2. r.emitted[d][i].n = r.n
        BY <3>1 DEF IInv, CallInv, Tagged, OfCall, Rooms
      <4>3. r.n \in 1 .. commits
        BY <1>00, <1>4, <3>1
      <4> QED BY <1>9, <4>1, <4>2, <4>3
    <3>2. CASE r = new
      BY <1>3, <1>12, <3>2
    <3> QED BY <1>2, <3>1, <3>2
  <2>3. ASSUME NEW t \in Tabs, NEW i \in DOMAIN inbox[t], Changing(inbox[t][i])
        PROVE  Tells(g, inbox[t][i], inbox[t][i].doc)
    BY <1>00, <1>4, <1>9, <2>3 DEF Follows, Recorded
  <2>4. ASSUME NEW t \in Tabs, NEW i \in DOMAIN answers[t]
        PROVE  /\ answers[t][i].commits <= commits'
               /\ answers[t][i].cells = g[answers[t][i].commits][answers[t][i].doc]
    <3> DEFINE A == {b \in Answer : Plain(b.cells)}
               w == answers[t]
    <3>1. \A b \in A : b.commits \in Nat
      BY DEF Answer
    <3>2. w \in Seq(A)
      BY DEF IInv, Copies
    <3> HIDE DEF A, w
    <3>3. w[i] \in A
      BY <3>2 DEF w
    <3>4. answers[t][i].commits \in Nat
      BY <3>1, <3>3 DEF w
    <3>5. /\ answers[t][i].commits <= commits
          /\ answers[t][i].cells = h[answers[t][i].commits][answers[t][i].doc]
      BY DEF Follows, Recorded
    <3>6. answers[t][i].commits \in 0 .. commits /\ answers[t][i].commits <= commits'
      BY <1>00, <1>2, <1>4, <3>4, <3>5
    <3> QED BY <1>8, <3>5, <3>6
  <2>5. \A t \in Tabs : \A i \in DOMAIN inbox'[t] :
           Changing(inbox'[t][i]) => Tells(g, inbox'[t][i], inbox'[t][i].doc)
    BY <1>2, <2>3
  <2>6. \A t \in Tabs : \A i \in DOMAIN answers'[t] :
          /\ answers'[t][i].commits <= commits'
          /\ answers'[t][i].cells = g[answers'[t][i].commits][answers'[t][i].doc]
    BY <1>2, <2>4
  <2> QED BY <2>1, <2>2, <2>5, <2>6 DEF Recorded
<1>14. ASSUME NEW t \in Tabs, NEW k, OnItsWay(t, k)
       PROVE  OnItsWay(t, k)'
  BY <1>2, <1>14 DEF OnItsWay
<1>15. ASSUME NEW t \in Tabs, NEW k, Fetched(t, k)
       PROVE  Fetched(t, k)'
  BY <1>2, <1>15 DEF Fetched
<1>16. ASSUME NEW t \in Tabs
       PROVE  ToCome(g, t)' /\ UpToDate(g, t)'
  <2>1. newest[t] \in Nat /\ newest[t] <= commits /\ newest'[t] = newest[t] /\ at'[t] = at[t]
    BY <1>2 DEF Follows, Counts
  <2>2. ToCome(g, t)'
    <3> SUFFICES ASSUME at[t] # None, NEW l \in newest[t] .. n, NEW k \in newest[t] .. n,
                        l <= k, g[k][at[t]] # g[l][at[t]]
                 PROVE  \E m \in l + 1 .. k :
                           OnItsWay(t, m)' \/ Fetched(t, m)' \/ m \in missed'[t]
      BY <1>2, <2>1 DEF ToCome
    <3>1. at[t] \in Docs
      BY <1>00, <1>4
    <3>2. ASSUME NEW k1 \in newest[t] .. commits, l <= k1, k1 <= k,
                 h[k1][at[t]] # h[l][at[t]]
          PROVE  \E m \in l + 1 .. k :
                    OnItsWay(t, m)' \/ Fetched(t, m)' \/ m \in missed'[t]
      <4>1. l \in newest[t] .. commits
        BY <1>00, <1>4, <2>1, <3>2
      <4>2. PICK m \in l + 1 .. k1 : OnItsWay(t, m) \/ Fetched(t, m) \/ m \in missed[t]
        BY <3>2, <4>1 DEF Follows, ToCome
      <4>3. m \in l + 1 .. k
        BY <1>00, <1>4, <2>1, <3>2
      <4>4. OnItsWay(t, m)' \/ Fetched(t, m)' \/ m \in missed'[t]
        BY <1>2, <1>14, <1>15, <4>2
      <4> QED BY <4>3, <4>4
    <3>3. CASE k \in newest[t] .. commits
      <4>1. g[k] = h[k] /\ g[l] = h[l]
        BY <1>00, <1>4, <1>8, <2>1, <3>3
      <4> QED BY <2>1, <3>2, <3>3, <4>1
    <3>4. CASE k = n /\ l # n
      <4>1. l \in newest[t] .. commits /\ commits \in newest[t] .. commits
            /\ l <= commits /\ commits <= k /\ l \in 0 .. commits /\ n \in l + 1 .. k
        BY <1>00, <1>4, <2>1, <3>4
      <4>2. g[l] = h[l] /\ g[k] = cells'
        BY <1>8, <3>4, <4>1
      <4>3. CASE cells'[at[t]] = cells[at[t]]
        BY <1>8, <3>2, <4>1, <4>2, <4>3
      <4>4. CASE \E i \in DOMAIN emitted[at[t]] : Changing(emitted[at[t]][i])
        <5>1. \E i \in DOMAIN new.emitted[at[t]] : Changing(new.emitted[at[t]][i])
          BY <1>3, <4>4
        <5>2. new \in sending'
          BY <1>2
        <5>3. \E r \in sending' : /\ r.n = n
                                  /\ \E i \in DOMAIN r.emitted[at'[t]] :
                                        Changing(r.emitted[at'[t]][i])
          BY <1>3, <2>1, <5>1, <5>2
        <5>4. OnItsWay(t, n)'
          BY <5>3 DEF OnItsWay
        <5> QED BY <4>1, <5>4
      <4> QED BY <1>1, <3>1, <4>3, <4>4 DEF Explains
    <3>5. CASE k = n /\ l = n
      BY <3>5
    <3> QED BY <1>00, <1>4, <2>1, <3>3, <3>4, <3>5
  <2>3. UpToDate(g, t)'
    <3> SUFFICES ASSUME at[t] # None, missed[t] = {}, ~mixed[t]
                 PROVE  \/ view[t] = g[newest[t]][at[t]]
                        \/ \E m \in base[t] + 1 .. newest[t] : OnItsWay(t, m)'
                        \/ Fetched(t, 0)'
      BY <1>2 DEF UpToDate
    <3>1. g[newest[t]] = h[newest[t]]
      BY <1>00, <1>4, <1>8, <2>1
    <3> QED BY <1>14, <1>15, <3>1 DEF Follows, UpToDate
  <2> QED BY <2>2, <2>3
<1>17. Follows(g)'
  BY <1>10, <1>11, <1>13, <1>16 DEF Follows
<1> QED BY <1>8, <1>17 DEF ConvInv

LEMMA FollowsInitially == Init => ConvInv
<1> SUFFICES ASSUME Init PROVE ConvInv
  OBVIOUS
<1> DEFINE h == [k \in Nat |-> cells]
<1>1. cells \in [Docs -> Seq(Cells)] /\ commits = 0
  BY CollabAssumption DEF Init
<1>2. h \in Histories /\ h[commits] = cells
  BY <1>1 DEF Histories
<1> HIDE DEF h
<1>3. \A t \in Tabs : at[t] = None /\ inbox[t] = <<>> /\ answers[t] = <<>>
  BY DEF Init
<1>4. OwnEvents
  BY DEF Init, OwnEvents
<1>5. Counts
  BY DEF Init, Counts
<1>6. sending = {}
  BY DEF Init
<1>7. Recorded(h)
  BY <1>2, <1>3, <1>6 DEF Recorded, Histories
<1>8. \A t \in Tabs : ToCome(h, t) /\ UpToDate(h, t)
  BY <1>3 DEF ToCome, UpToDate
<1>9. Follows(h)
  BY <1>4, <1>5, <1>7, <1>8 DEF Follows
<1> QED BY <1>2, <1>9 DEF ConvInv

LEMMA HistoryKept == IInv /\ ConvInv /\ [Next]_vars => ConvInv'
<1> SUFFICES ASSUME IInv, ConvInv, [Next]_vars PROVE ConvInv'
  OBVIOUS
<1>0. Typed /\ Lists
  BY DEF IInv, CallInv
<1>1. PICK h \in Histories : Follows(h)
  BY DEF ConvInv
<1>2. ASSUME Follows(h)' PROVE ConvInv'
  BY <1>2 DEF ConvInv
<1>3. ASSUME NEW t \in Tabs, NEW c \in Cells, NEW i \in Indices,
             \/ InsertDataCell(t, c, i)
             \/ PasteCopy(t, c, i)
             \/ PasteCutWithin(t, c, i)
             \/ \E d \in Docs : PasteCutAcross(t, d, c, i)
      PROVE  ConvInv'
  BY <1>0, <1>1, <1>3, InsertDataCellCalls, PasteCopyCalls, PasteCutWithinCalls,
     PasteCutAcrossCalls, CallFollows
<1>4. ASSUME NEW t \in Tabs, NEW c \in Cells,
             DeleteDataCell(t, c) \/ RestoreDataDoc(t, c)
      PROVE  ConvInv'
  BY <1>0, <1>1, <1>4, DeleteDataCellCalls, RestoreDataDocCalls, CallFollows
<1>5. ASSUME NEW t \in Tabs, NEW from \in Indices, NEW to \in Indices,
             MoveDataCell(t, from, to)
      PROVE  ConvInv'
  BY <1>0, <1>1, <1>5, MoveDataCellCalls, CallFollows
<1>6. ASSUME NEW t \in Tabs, NEW key \in Keys, RequestFails(t, key)
      PROVE  ConvInv'
  BY <1>0, <1>1, <1>6, RequestFailsCalls, CallFollows
<1>7. ASSUME NEW t \in Tabs, NEW d \in Docs, OpenDataDoc(t, d)
      PROVE  ConvInv'
  BY <1>1, <1>2, <1>7, OpenFollows
<1>8. ASSUME NEW t \in Tabs, Receive(t)
      PROVE  ConvInv'
  BY <1>1, <1>2, <1>8, ReceiveFollows
<1>9. ASSUME NEW t \in Tabs, JoinRoom(t)
      PROVE  ConvInv'
  <2>1. UNCHANGED <<cells, commits, sending, at, view, inbox, asked, answers, base,
                    newest, missed, mixed>>
    BY <1>9 DEF JoinRoom, server
  <2> QED BY <1>1, <1>2, <2>1, NothingMoves
<1>10. ASSUME NEW t \in Tabs, LoseConnection(t) \/ CloseDataDoc(t)
       PROVE  ConvInv'
  BY <1>1, <1>2, <1>10, LoseFollows, CloseFollows
<1>11. ASSUME NEW t \in Tabs, RefetchRead(t)
       PROVE  ConvInv'
  BY <1>1, <1>2, <1>11, RefetchReadFollows
<1>12. ASSUME NEW t \in Tabs, NEW i \in DOMAIN answers[t], RefetchArrives(t, i)
       PROVE  ConvInv'
  BY <1>1, <1>2, <1>12, RefetchArrivesFollows
<1>13. ASSUME NEW r \in sending, EmitEvents(r)
       PROVE  ConvInv'
  BY <1>1, <1>2, <1>13, EmitEventsFollows
<1>14. CASE UNCHANGED vars
  <2>1. UNCHANGED <<cells, commits, sending, at, view, inbox, asked, answers, base,
                    newest, missed, mixed>>
    BY <1>14 DEF vars, server, tabs
  <2> QED BY <1>1, <1>2, <2>1, NothingMoves
<1> QED BY <1>3, <1>4, <1>5, <1>6, <1>7, <1>8, <1>9, <1>10, <1>11, <1>12, <1>13, <1>14
        DEF Next, Calls

\* What InSync says is enough: nothing that the tab did not take can be left.
LEMMA ConvergeBy == IInv /\ ConvInv => CopiesConverge
<1> SUFFICES ASSUME IInv, ConvInv, NEW t \in Tabs, InSync(t), missed[t] = {}, ~mixed[t]
             PROVE  view[t] = cells[at[t]]
  BY DEF CopiesConverge
<1>1. PICK h \in Histories : Follows(h)
  BY DEF ConvInv
<1>2. at[t] # None /\ commits \in Nat
  BY DEF InSync, IInv, CallInv, Typed
<1>3. \A n : ~OnItsWay(t, n) /\ ~Fetched(t, n)
  BY DEF InSync, OnItsWay, Fetched
<1>4. newest[t] \in Nat /\ newest[t] <= commits /\ base[t] <= newest[t]
  BY <1>1 DEF Follows, Counts
<1>5. view[t] = h[newest[t]][at[t]]
  BY <1>1, <1>2, <1>3 DEF Follows, UpToDate
<1>6. h[commits][at[t]] = h[newest[t]][at[t]]
  <2>1. newest[t] \in newest[t] .. commits /\ commits \in newest[t] .. commits
    BY <1>2, <1>4
  <2> QED BY <1>1, <1>2, <1>3, <1>4, <2>1 DEF Follows, ToCome
<1>7. h[commits] = cells
  BY <1>1 DEF Follows, Recorded
<1> QED BY <1>5, <1>6, <1>7

\* A copy that took every event of its room, took them in the order of the
\* commits, and was changed by no event of the document that the tab showed
\* before, is the list that the server has as soon as nothing is on its way to
\* it, whatever was inserted, moved, pasted, deleted or restored by whom,
\* however often the document was fetched again, and whatever else came over
\* the socket: the server emits for each commit events that make of the list
\* before it the list after it.
THEOREM CopiesAreTheList == Spec => []CopiesConverge
<1>1. Init => IInv /\ ConvInv
  BY Initially, FollowsInitially
<1>2. IInv /\ ConvInv /\ [Next]_vars => (IInv /\ ConvInv)'
  BY Inductive, HistoryKept
<1> QED BY <1>1, <1>2, ConvergeBy, PTL DEF Spec

=============================================================================
