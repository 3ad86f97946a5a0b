------------------------- MODULE DataDocCells_proofs -------------------------
(***************************************************************************)
(* DataDocCells for any documents, cells and authors: however their        *)
(* requests overlap, the positions of a document stay 0, 1, 2, ... and     *)
(* what is committed is the list operation that was asked for, as long as  *)
(* no request is committed on a position that is no longer right.          *)
(*                                                                         *)
(* A request that is committed shifts the positions of one document or of  *)
(* two, in one of three ways (JoinsAt, LeavesFrom, MovesIn).  What each    *)
(* way does to a document in order, and to the list that its positions     *)
(* stand for, are lemmas of their own.                                     *)
(***************************************************************************)
EXTENDS DataDocCells, SequenceTheorems, FiniteSetTheorems, TLAPS

\* The positions of the document are 0, 1, 2, ...: one cell at each.
InOrder(d) ==
    /\ \A c \in Rows(d) : order[c] \in 0 .. Length(d) - 1
    /\ \A c, e \in Rows(d) : order[c] = order[e] => c = e
    /\ \A i \in 0 .. Length(d) - 1 : \E c \in Rows(d) : order[c] = i

Ordered == ~torn => \A d \in Docs : InOrder(d)

\* The cell of an insert is in no document before the insert is committed, and
\* no other insert is of that cell.
Inserting(a) == request[a] # Nothing /\ request[a].kind = "insert"

NewCells ==
    \A a \in Authors : Inserting(a) =>
        /\ request[a].cell \in made
        /\ doc[request[a].cell] = NoDoc
        /\ \A b \in Authors :
              Inserting(b) /\ request[b].cell = request[a].cell => a = b

IInv == TypeOK /\ NewCells /\ Ordered

-----------------------------------------------------------------------------
(* The number of cells *)

LEMMA SomeCells ==
    ASSUME NEW S \in SUBSET Cells
    PROVE  IsFiniteSet(S) /\ Cardinality(S) \in Nat
BY CellsAssumption, FS_Subset, FS_CardinalityType

LEMMA LengthType ==
    ASSUME NEW d
    PROVE  Length(d) \in Nat /\ Length(d)' \in Nat
<1>1. Rows(d) \in SUBSET Cells /\ Rows(d)' \in SUBSET Cells
  BY DEF Rows
<1> QED BY <1>1, SomeCells DEF Length

-----------------------------------------------------------------------------
(* What the shifts do to a document in order *)

\* Nothing happens to the document.
Untouched(d) ==
    /\ Rows(d)' = Rows(d)
    /\ \A e \in Rows(d) : order'[e] = order[e]

\* A cell comes to the position i, and those from there on go down by one.
JoinsAt(d, c, i) ==
    /\ c \in Cells \ Rows(d)
    /\ i \in 0 .. Length(d)
    /\ Rows(d)' = Rows(d) \cup {c}
    /\ order'[c] = i
    /\ \A e \in Rows(d) :
          order'[e] = IF order[e] >= i THEN order[e] + 1 ELSE order[e]

\* The cell at the position i goes, and those after it come up by one.
LeavesFrom(d, c, i) ==
    /\ c \in Rows(d)
    /\ order[c] = i
    /\ Rows(d)' = Rows(d) \ {c}
    /\ \A e \in Rows(d) \ {c} :
          order'[e] = IF order[e] > i THEN order[e] - 1 ELSE order[e]

\* The cell at from goes to the position to, and those between close the gap.
MovesIn(d, from, to) ==
    /\ {from, to} \subseteq 0 .. Length(d) - 1
    /\ Rows(d)' = Rows(d)
    /\ \A e \in Rows(d) : order'[e] = Moved(d, from, to)[e]

LEMMA Stays ==
    ASSUME NEW d, InOrder(d), Untouched(d)
    PROVE  InOrder(d)'
BY DEF InOrder, Length, Untouched

LEMMA Joins ==
    ASSUME NEW d, InOrder(d), NEW c, NEW i, JoinsAt(d, c, i)
    PROVE  InOrder(d)'
<1>0. /\ c \in Cells /\ c \notin Rows(d) /\ i \in 0 .. Length(d)
      /\ Rows(d)' = Rows(d) \cup {c} /\ order'[c] = i
      /\ \A e \in Rows(d) :
            order'[e] = IF order[e] >= i THEN order[e] + 1 ELSE order[e]
  BY DEF JoinsAt
<1> DEFINE n == Length(d)
<1>1. n \in Nat
  BY <1>0, LengthType
<1>2. Length(d)' = n + 1
  <2>1. IsFiniteSet(Rows(d))
    BY SomeCells DEF Rows
  <2> QED BY <1>0, <2>1, FS_AddElement DEF Length
<1>3. \A e \in Rows(d) : order[e] \in 0 .. n - 1
  BY <1>0 DEF InOrder
<1> HIDE DEF n
<1>4. \A e \in Rows(d)' : order'[e] \in 0 .. n
  BY <1>0, <1>1, <1>3 DEF n
<1>5. ASSUME NEW e \in Rows(d)', NEW f \in Rows(d)', order'[e] = order'[f]
      PROVE  e = f
  <2>1. CASE e = c \/ f = c
    BY <1>0, <1>1, <1>3, <1>5, <2>1
  <2>2. CASE e # c /\ f # c
    <3>1. order[e] = order[f]
      BY <1>0, <1>1, <1>3, <1>5, <2>2
    <3> QED BY <1>0, <2>2, <3>1 DEF InOrder
  <2> QED BY <1>0, <2>1, <2>2
<1>6. ASSUME NEW p \in 0 .. n
      PROVE  \E e \in Rows(d)' : order'[e] = p
  <2>1. CASE p = i
    BY <1>0, <2>1
  <2>2. CASE p < i
    <3>1. p \in 0 .. n - 1
      BY <1>0, <1>1, <2>2 DEF n
    <3>2. PICK e \in Rows(d) : order[e] = p
      BY <1>0, <3>1 DEF InOrder, n
    <3> QED BY <1>0, <2>2, <3>1, <3>2
  <2>3. CASE p > i
    <3>1. p - 1 \in 0 .. n - 1 /\ p - 1 >= i /\ p - 1 + 1 = p
      BY <1>0, <1>1, <2>3 DEF n
    <3>2. PICK e \in Rows(d) : order[e] = p - 1
      BY <1>0, <3>1 DEF InOrder, n
    <3> QED BY <1>0, <3>1, <3>2
  <2> QED BY <1>0, <1>1, <2>1, <2>2, <2>3 DEF n
<1>7. Length(d)' - 1 = n
  BY <1>0, <1>1, <1>2
<1> QED BY <1>0, <1>4, <1>5, <1>6, <1>7, Zenon DEF InOrder

LEMMA Leaves ==
    ASSUME NEW d, InOrder(d), NEW c, NEW i, LeavesFrom(d, c, i)
    PROVE  InOrder(d)'
<1>0. /\ c \in Rows(d) /\ order[c] = i /\ Rows(d)' = Rows(d) \ {c}
      /\ \A e \in Rows(d) \ {c} :
            order'[e] = IF order[e] > i THEN order[e] - 1 ELSE order[e]
  BY DEF LeavesFrom
<1> DEFINE n == Length(d)
<1>1. n \in Nat /\ i \in 0 .. n - 1
  BY <1>0, LengthType DEF InOrder
<1>2. Length(d)' = n - 1
  <2>1. IsFiniteSet(Rows(d))
    BY SomeCells DEF Rows
  <2> QED BY <1>0, <2>1, FS_RemoveElement DEF Length
<1>3. \A e \in Rows(d) \ {c} : order[e] \in 0 .. n - 1 /\ order[e] # i
  BY <1>0 DEF InOrder
<1> HIDE DEF n
<1>4. \A e \in Rows(d)' : order'[e] \in 0 .. n - 2
  BY <1>0, <1>1, <1>3
<1>5. ASSUME NEW e \in Rows(d)', NEW f \in Rows(d)', order'[e] = order'[f]
      PROVE  e = f
  <2>1. order[e] = order[f]
    BY <1>0, <1>1, <1>3, <1>5
  <2> QED BY <1>0, <2>1 DEF InOrder
<1>6. ASSUME NEW p \in 0 .. n - 2
      PROVE  \E e \in Rows(d)' : order'[e] = p
  <2>1. CASE p < i
    <3>1. p \in 0 .. n - 1 /\ p # i
      BY <1>0, <1>1, <2>1
    <3>2. PICK e \in Rows(d) : order[e] = p
      BY <1>0, <3>1 DEF InOrder, n
    <3> QED BY <1>0, <1>1, <2>1, <3>1, <3>2
  <2>2. CASE p >= i
    <3>1. p + 1 \in 0 .. n - 1 /\ p + 1 > i /\ p + 1 - 1 = p
      BY <1>0, <1>1, <2>2
    <3>2. PICK e \in Rows(d) : order[e] = p + 1
      BY <1>0, <3>1 DEF InOrder, n
    <3> QED BY <1>0, <1>1, <3>1, <3>2
  <2> QED BY <1>0, <1>1, <2>1, <2>2
<1>7. Length(d)' - 1 = n - 2
  BY <1>0, <1>1, <1>2
<1> QED BY <1>0, <1>4, <1>5, <1>6, <1>7, Zenon DEF InOrder

LEMMA MovedTo ==
    ASSUME NEW d, InOrder(d), NEW from, NEW to, MovesIn(d, from, to),
           NEW e \in Rows(d)
    PROVE  order'[e] = IF order[e] = from THEN to
                       ELSE IF order[e] > from /\ order[e] <= to THEN order[e] - 1
                       ELSE IF order[e] >= to /\ order[e] < from THEN order[e] + 1
                       ELSE order[e]
<1>1. e \in Cells /\ doc[e] = d /\ order[e] # -1
  BY LengthType DEF Rows, InOrder
<1>2. order'[e] = Moved(d, from, to)[e]
  BY DEF MovesIn
<1> QED BY <1>1, <1>2 DEF Moved

LEMMA Moves ==
    ASSUME NEW d, InOrder(d), NEW from, NEW to, MovesIn(d, from, to)
    PROVE  InOrder(d)'
<1>0. Rows(d)' = Rows(d) /\ {from, to} \subseteq 0 .. Length(d) - 1
  BY DEF MovesIn
<1> DEFINE n == Length(d)
<1>1. n \in Nat /\ from \in 0 .. n - 1 /\ to \in 0 .. n - 1
  BY <1>0, LengthType
<1>2. Length(d)' = n
  BY <1>0 DEF Length
<1>3. \A e \in Rows(d) : order[e] \in 0 .. n - 1
  BY <1>0 DEF InOrder
<1> HIDE DEF n
<1>4. \A e \in Rows(d) :
          order'[e] = IF order[e] = from THEN to
                      ELSE IF order[e] > from /\ order[e] <= to THEN order[e] - 1
                      ELSE IF order[e] >= to /\ order[e] < from THEN order[e] + 1
                      ELSE order[e]
  BY MovedTo
<1>5. \A e \in Rows(d)' : order'[e] \in 0 .. n - 1
  BY <1>0, <1>1, <1>3, <1>4
<1>6. ASSUME NEW e \in Rows(d)', NEW f \in Rows(d)', order'[e] = order'[f]
      PROVE  e = f
  <2>1. order[e] = order[f]
    BY <1>0, <1>1, <1>3, <1>4, <1>6
  <2> QED BY <1>0, <2>1 DEF InOrder
<1>7. ASSUME NEW p \in 0 .. n - 1
      PROVE  \E e \in Rows(d)' : order'[e] = p
  <2> DEFINE was == IF p = to THEN from
                    ELSE IF from <= p /\ p < to THEN p + 1
                    ELSE IF to < p /\ p <= from THEN p - 1
                    ELSE p
  <2>1. was \in 0 .. n - 1
    BY <1>0, <1>1
  <2>2. PICK e \in Rows(d) : order[e] = was
    BY <1>0, <2>1 DEF InOrder, n
  <2>3. order'[e] = p
    BY <1>0, <1>1, <1>4, <2>2
  <2> QED BY <1>0, <2>3
<1> QED BY <1>0, <1>2, <1>5, <1>6, <1>7 DEF InOrder

-----------------------------------------------------------------------------
(* A request reads *)

LEMMA AcceptKeeps ==
    ASSUME IInv, NEW a \in Authors, NEW o \in Operations, Accept(a, o),
           made' \in SUBSET Cells, made \subseteq made',
           o.kind = "insert" => o.cell \in made' \ made
    PROVE  IInv'
<1>1. UNCHANGED <<doc, order, torn>> /\ request' = [request EXCEPT ![a] = o]
  BY DEF Accept
<1>2. request'[a] = o /\ \A b \in Authors \ {a} : request'[b] = request[b]
  BY <1>1 DEF IInv, TypeOK
<1>3. TypeOK'
  BY <1>1 DEF IInv, TypeOK
<1>4. Ordered'
  <2>1. ASSUME NEW d PROVE Rows(d)' = Rows(d) /\ Length(d)' = Length(d)
    BY <1>1 DEF Rows, Length
  <2>2. ASSUME NEW d, InOrder(d) PROVE InOrder(d)'
    BY <1>1, <2>1, <2>2, Stays DEF Untouched
  <2> QED BY <1>1, <2>2 DEF IInv, Ordered
<1>5. ASSUME NEW b \in Authors, Inserting(b)'
      PROVE  /\ request'[b].cell \in made'
             /\ doc'[request'[b].cell] = NoDoc
             /\ \A e \in Authors :
                   Inserting(e)' /\ request'[e].cell = request'[b].cell => b = e
  <2>1. CASE b = a
    <3>1. o.kind = "insert" /\ o.cell \in made' \ made
      BY <1>2, <1>5, <2>1 DEF Inserting
    <3>2. doc[o.cell] = NoDoc
      BY <3>1 DEF IInv, TypeOK
    <3>3. \A e \in Authors \ {a} : Inserting(e) => request[e].cell # o.cell
      BY <3>1 DEF IInv, NewCells
    <3> QED BY <1>1, <1>2, <2>1, <3>1, <3>2, <3>3 DEF Inserting
  <2>2. CASE b # a
    <3>1. Inserting(b) /\ request'[b] = request[b]
      BY <1>2, <1>5, <2>2 DEF Inserting
    <3>2. /\ request[b].cell \in made
          /\ doc[request[b].cell] = NoDoc
          /\ \A e \in Authors :
                Inserting(e) /\ request[e].cell = request[b].cell => b = e
      BY <3>1 DEF IInv, NewCells
    <3>3. Inserting(a)' => request'[a].cell # request[b].cell
      BY <1>2, <3>2 DEF Inserting
    <3> QED BY <1>1, <1>2, <3>1, <3>2, <3>3 DEF Inserting
  <2> QED BY <2>1, <2>2
<1>6. NewCells'
  BY <1>5 DEF NewCells
<1> QED BY <1>3, <1>4, <1>6 DEF IInv

LEMMA ReadInsertKeeps ==
    ASSUME IInv, NEW a \in Authors, NEW d \in Docs, NEW c \in Cells,
           NEW i \in Indices, ReadInsert(a, d, c, i)
    PROVE  IInv'
<1> DEFINE o == [kind |-> "insert", doc |-> d, cell |-> c, index |-> i]
<1>1. i \in Nat
  BY LengthType DEF ReadInsert
<1>2. o \in Operations
  BY <1>1 DEF Operations
<1>3. made' \in SUBSET Cells /\ made \subseteq made' /\ o.cell \in made' \ made
  BY DEF ReadInsert, IInv, TypeOK
<1>4. Accept(a, o)
  BY DEF ReadInsert
<1> QED BY <1>2, <1>3, <1>4, AcceptKeeps

LEMMA ReadDeleteKeeps ==
    ASSUME IInv, NEW a \in Authors, NEW d \in Docs, NEW c \in Cells,
           ReadDelete(a, d, c)
    PROVE  IInv'
<1> DEFINE o == [kind |-> "delete", doc |-> d, cell |-> c, index |-> order[c]]
<1>1. order[c] \in Int
  BY DEF IInv, TypeOK
<1>2. o \in Operations
  BY <1>1 DEF Operations
<1>3. made' = made /\ made \in SUBSET Cells /\ o.kind # "insert"
  BY DEF ReadDelete, IInv, TypeOK
<1>4. Accept(a, o)
  BY DEF ReadDelete
<1> QED BY <1>2, <1>3, <1>4, AcceptKeeps

LEMMA ReadMoveKeeps ==
    ASSUME IInv, NEW a \in Authors, NEW d \in Docs, NEW from \in Indices,
           NEW to \in Indices, ReadMove(a, d, from, to)
    PROVE  IInv'
<1> DEFINE o == [kind |-> "move", doc |-> d, from |-> from, to |-> to]
<1>1. from \in Nat /\ to \in Nat
  BY LengthType DEF ReadMove, Movable
<1>2. o \in Operations
  BY <1>1 DEF Operations
<1>3. made' = made /\ made \in SUBSET Cells /\ o.kind # "insert"
  BY DEF ReadMove, IInv, TypeOK
<1>4. Accept(a, o)
  BY DEF ReadMove
<1> QED BY <1>2, <1>3, <1>4, AcceptKeeps

LEMMA ReadPasteWithinKeeps ==
    ASSUME IInv, NEW a \in Authors, NEW d \in Docs, NEW c \in Cells,
           NEW i \in Indices, ReadPasteWithin(a, d, c, i)
    PROVE  IInv'
<1> DEFINE o == [kind |-> "paste", source |-> d, doc |-> d, cell |-> c,
                 from |-> order[c], index |-> i]
<1>1. order[c] \in Int /\ i \in Int
  BY DEF IInv, TypeOK, Indices
<1>2. o \in Operations
  BY <1>1 DEF Operations
<1>3. made' = made /\ made \in SUBSET Cells /\ o.kind # "insert"
  BY DEF ReadPasteWithin, IInv, TypeOK
<1>4. Accept(a, o)
  BY DEF ReadPasteWithin
<1> QED BY <1>2, <1>3, <1>4, AcceptKeeps

LEMMA ReadPasteKeeps ==
    ASSUME IInv, NEW a \in Authors, NEW d \in Docs, NEW c \in Cells,
           NEW i \in Indices, ReadPaste(a, d, c, i)
    PROVE  IInv'
<1> DEFINE o == [kind |-> "paste", source |-> doc[c], doc |-> d, cell |-> c,
                 from |-> order[c], index |-> i]
<1>1. order[c] \in Int /\ i \in Int /\ doc[c] \in Docs
  BY DEF IInv, TypeOK, Indices, ReadPaste
<1>2. o \in Operations
  BY <1>1 DEF Operations
<1>3. made' = made /\ made \in SUBSET Cells /\ o.kind # "insert"
  BY DEF ReadPaste, IInv, TypeOK
<1>4. Accept(a, o)
  BY DEF ReadPaste
<1> QED BY <1>2, <1>3, <1>4, AcceptKeeps

-----------------------------------------------------------------------------
(* A request is committed *)

\* What every commit does.
LEMMA CommitFacts ==
    ASSUME IInv, NEW a \in Authors, NEW kind, Commit(a, kind)
    PROVE  /\ request[a] \in Operations /\ request[a].kind = kind
           /\ request' \in [Authors -> Operations \cup {Nothing}]
           /\ request'[a] = Nothing
           /\ \A b \in Authors \ {a} : request'[b] = request[b]
           /\ made' = made /\ torn' \in BOOLEAN
           /\ ~torn' => ~torn /\ ~Misplaced(request[a])
BY DEF Commit, IInv, TypeOK

\* The cells of the inserts that are left are still in no document.
LEMMA OthersInsert ==
    ASSUME IInv, NEW a \in Authors, made' = made, request'[a] = Nothing,
           \A b \in Authors \ {a} : request'[b] = request[b],
           \A c \in Cells : \/ doc'[c] \in {doc[c], NoDoc}
                            \/ doc[c] # NoDoc
                            \/ Inserting(a) /\ c = request[a].cell
    PROVE  NewCells'
<1> SUFFICES ASSUME NEW b \in Authors, Inserting(b)'
             PROVE  /\ request'[b].cell \in made'
                    /\ doc'[request'[b].cell] = NoDoc
                    /\ \A e \in Authors :
                          Inserting(e)' /\ request'[e].cell = request'[b].cell
                              => b = e
  BY DEF NewCells
<1>1. b # a /\ request'[b] = request[b] /\ Inserting(b)
  BY DEF Inserting
<1>2. /\ request[b].cell \in made
      /\ doc[request[b].cell] = NoDoc
      /\ \A e \in Authors :
            Inserting(e) /\ request[e].cell = request[b].cell => b = e
  BY <1>1 DEF IInv, NewCells
<1>3. doc'[request[b].cell] = NoDoc
  BY <1>1, <1>2 DEF IInv, TypeOK
<1>4. \A e \in Authors : Inserting(e)' => Inserting(e) /\ request'[e] = request[e]
  BY DEF Inserting
<1> QED BY <1>1, <1>2, <1>3, <1>4

LEMMA CommitInsertDoes ==
    ASSUME IInv, NEW a \in Authors, CommitInsert(a)
    PROVE  LET o == request[a]
           IN  /\ TypeOK' /\ NewCells' /\ o.doc \in Docs
               /\ ~torn' => \A e \in Docs : IF e = o.doc
                                             THEN JoinsAt(e, o.cell, o.index)
                                             ELSE Untouched(e)
<1> DEFINE o == request[a]
           d == o.doc
           c == o.cell
           i == o.index
<1>1. Commit(a, "insert")
  BY DEF CommitInsert
<1>2. /\ o \in Operations /\ o.kind = "insert"
      /\ request' \in [Authors -> Operations \cup {Nothing}]
      /\ request'[a] = Nothing
      /\ \A b \in Authors \ {a} : request'[b] = request[b]
      /\ made' = made /\ torn' \in BOOLEAN
      /\ ~torn' => ~torn /\ ~Misplaced(o)
  BY <1>1, CommitFacts
<1>3. d \in Docs /\ c \in Cells /\ i \in Nat
  BY <1>2 DEF Operations
<1>4. Inserting(a) /\ c \in made /\ doc[c] = NoDoc
  BY <1>1 DEF IInv, NewCells, Inserting, Commit
<1>5. doc' = [doc EXCEPT ![c] = d]
  BY DEF CommitInsert
<1>6. order' = [[e \in Cells |-> IF e \in {f \in Rows(d) : order[f] >= i}
                                 THEN order[e] + 1 ELSE order[e]]
                  EXCEPT ![c] = i]
  BY DEF CommitInsert, Shift
<1>7. order'[c] = i
      /\ \A e \in Cells \ {c} : order'[e] = IF e \in Rows(d) /\ order[e] >= i
                                            THEN order[e] + 1 ELSE order[e]
  BY <1>3, <1>6
<1>8. order' \in [Cells -> Int]
  BY <1>3, <1>6 DEF IInv, TypeOK
<1> HIDE DEF o, d, c, i
<1>9. TypeOK'
  BY <1>2, <1>3, <1>4, <1>5, <1>8 DEF IInv, TypeOK
<1>10. NewCells'
  BY <1>2, <1>3, <1>4, <1>5, OthersInsert DEF IInv, TypeOK, o, c
<1>11. ASSUME ~torn', NEW e \in Docs
       PROVE  IF e = d THEN JoinsAt(e, c, i) ELSE Untouched(e)
  <2>1. ~Misplaced(o)
    BY <1>2, <1>11
  <2>2. Rows(e)' = IF e = d THEN Rows(e) \cup {c} ELSE Rows(e)
    BY <1>3, <1>4, <1>5, CellsAssumption DEF Rows, IInv, TypeOK
  <2>3. c \notin Rows(e)
    BY <1>4, CellsAssumption DEF Rows
  <2>4. \A f \in Rows(e) : order'[f] = IF e = d /\ order[f] >= i
                                       THEN order[f] + 1 ELSE order[f]
    BY <1>7, <2>3 DEF Rows
  <2>5. CASE e = d
    <3>1. i \in 0 .. Length(d)
      <4>1. ~(i > Length(d))
        BY <1>2, <2>1 DEF Misplaced, o, i, d
      <4> QED BY <1>3, <4>1, LengthType
    <3> QED BY <1>3, <1>7, <2>2, <2>3, <2>4, <2>5, <3>1 DEF JoinsAt
  <2>6. CASE e # d
    BY <2>2, <2>4, <2>6 DEF Untouched
  <2> QED BY <2>5, <2>6
<1> QED BY <1>3, <1>9, <1>10, <1>11 DEF o, d, c, i

LEMMA CommitDeleteDoes ==
    ASSUME IInv, NEW a \in Authors, CommitDelete(a)
    PROVE  LET o == request[a]
           IN  /\ TypeOK' /\ NewCells' /\ o.doc \in Docs
               /\ ~torn' => \A e \in Docs : IF e = o.doc
                                             THEN LeavesFrom(e, o.cell, order[o.cell])
                                             ELSE Untouched(e)
<1> DEFINE o == request[a]
           d == o.doc
           c == o.cell
           i == o.index
<1>1. Commit(a, "delete")
  BY DEF CommitDelete
<1>2. /\ o \in Operations /\ o.kind = "delete"
      /\ request' \in [Authors -> Operations \cup {Nothing}]
      /\ request'[a] = Nothing
      /\ \A b \in Authors \ {a} : request'[b] = request[b]
      /\ made' = made /\ torn' \in BOOLEAN
      /\ ~torn' => ~torn /\ ~Misplaced(o)
  BY <1>1, CommitFacts
<1>3. d \in Docs /\ c \in Cells /\ i \in Int
  BY <1>2 DEF Operations
<1>4. doc' = [doc EXCEPT ![c] = NoDoc]
  BY DEF CommitDelete
<1>5. order' = [[e \in Cells |-> IF e \in {f \in Rows(d) \ {c} : order[f] > i}
                                 THEN order[e] + (-1) ELSE order[e]]
                  EXCEPT ![c] = 0]
  BY DEF CommitDelete, Shift
<1>6. \A e \in Cells \ {c} : order'[e] = IF e \in Rows(d) /\ order[e] > i
                                         THEN order[e] + (-1) ELSE order[e]
  BY <1>3, <1>5
<1>7. order' \in [Cells -> Int]
  BY <1>3, <1>5 DEF IInv, TypeOK
<1> HIDE DEF o, d, c, i
<1>8. TypeOK'
  BY <1>2, <1>3, <1>4, <1>7 DEF IInv, TypeOK
<1>9. NewCells'
  BY <1>2, <1>3, <1>4, OthersInsert DEF IInv, TypeOK
<1>10. ASSUME ~torn', NEW e \in Docs
       PROVE  IF e = d THEN LeavesFrom(e, c, order[c]) ELSE Untouched(e)
  <2>1. doc[c] = d /\ order[c] = i
    BY <1>2, <1>10 DEF Misplaced, o, d, c, i
  <2>2. Rows(e)' = Rows(e) \ {c}
    BY <1>3, <1>4, CellsAssumption DEF Rows, IInv, TypeOK
  <2>3. CASE e = d
    <3>1. \A f \in Rows(e) \ {c} :
              order'[f] = IF order[f] > i THEN order[f] - 1 ELSE order[f]
      BY <1>6, <2>3 DEF Rows, IInv, TypeOK
    <3>2. c \in Rows(e)
      BY <1>3, <2>1, <2>3 DEF Rows
    <3> QED BY <2>1, <2>2, <2>3, <3>1, <3>2 DEF LeavesFrom
  <2>4. CASE e # d
    <3>1. c \notin Rows(e)
      BY <2>1, <2>4 DEF Rows
    <3>2. \A f \in Rows(e) : order'[f] = order[f]
      BY <1>6, <2>4, <3>1 DEF Rows
    <3> QED BY <2>2, <2>4, <3>1, <3>2 DEF Untouched
  <2> QED BY <2>3, <2>4
<1> QED BY <1>3, <1>8, <1>9, <1>10 DEF o, d, c, i

\* A move and a paste within a document, with the place that it comes to.
LEMMA MovedDoes ==
    ASSUME IInv, NEW a \in Authors, NEW kind, kind # "insert", Commit(a, kind),
           UNCHANGED doc, NEW d \in Docs, NEW from \in Int, NEW to \in Int,
           order' = Moved(d, from, to),
           ~torn' => {from, to} \subseteq 0 .. Length(d) - 1
    PROVE  /\ TypeOK' /\ NewCells'
           /\ ~torn' => \A e \in Docs : IF e = d THEN MovesIn(e, from, to)
                                         ELSE Untouched(e)
<1>1. /\ request' \in [Authors -> Operations \cup {Nothing}]
      /\ request'[a] = Nothing
      /\ \A b \in Authors \ {a} : request'[b] = request[b]
      /\ made' = made /\ torn' \in BOOLEAN
      /\ ~torn' => ~torn
  BY CommitFacts
<1>2. order' \in [Cells -> Int]
  BY DEF IInv, TypeOK, Moved
<1>3. TypeOK'
  BY <1>1, <1>2 DEF IInv, TypeOK
<1>4. NewCells'
  BY <1>1, OthersInsert
<1>5. ASSUME ~torn', NEW e \in Docs
      PROVE  IF e = d THEN MovesIn(e, from, to) ELSE Untouched(e)
  <2>1. Rows(e)' = Rows(e)
    BY DEF Rows
  <2>2. CASE e = d
    BY <1>5, <2>1, <2>2 DEF MovesIn
  <2>3. CASE e # d
    <3>1. \A f \in Rows(e) : order'[f] = order[f]
      BY <2>3 DEF Moved, Rows
    <3> QED BY <2>1, <2>3, <3>1 DEF Untouched
  <2> QED BY <2>2, <2>3
<1> QED BY <1>3, <1>4, <1>5

LEMMA CommitMoveDoes ==
    ASSUME IInv, NEW a \in Authors, CommitMove(a)
    PROVE  LET o == request[a]
           IN  /\ TypeOK' /\ NewCells' /\ o.doc \in Docs
               /\ ~torn' => \A e \in Docs : IF e = o.doc
                                             THEN MovesIn(e, o.from, o.to)
                                             ELSE Untouched(e)
<1> DEFINE o == request[a]
<1>1. Commit(a, "move") /\ UNCHANGED doc /\ order' = Moved(o.doc, o.from, o.to)
  BY DEF CommitMove
<1>2. o \in Operations /\ o.kind = "move" /\ (~torn' => ~Misplaced(o))
  BY <1>1, CommitFacts
<1>3. o.doc \in Docs /\ o.from \in Int /\ o.to \in Int
  BY <1>2 DEF Operations
<1> HIDE DEF o
<1>4. ~torn' => {o.from, o.to} \subseteq 0 .. Length(o.doc) - 1
  <2> SUFFICES ASSUME ~torn' PROVE {o.from, o.to} \subseteq 0 .. Length(o.doc) - 1
    OBVIOUS
  <2>1. {o.from, o.to} \cap (0 .. Length(o.doc) - 1) = {o.from, o.to}
    BY <1>2 DEF Misplaced
  <2> QED BY <2>1
<1>5. UNCHANGED doc /\ order' = Moved(o.doc, o.from, o.to)
  BY <1>1 DEF o
<1> QED BY <1>1, <1>3, <1>4, <1>5, MovedDoes DEF o

LEMMA CommitPasteWithinDoes ==
    ASSUME IInv, NEW a \in Authors, CommitPasteWithin(a)
    PROVE  LET o == request[a]
           IN  /\ TypeOK' /\ NewCells' /\ o.doc \in Docs /\ o.source = o.doc
               /\ ~torn' =>
                     /\ o.cell \in Rows(o.doc) /\ o.from = order[o.cell]
                     /\ \A e \in Docs : IF e = o.doc
                                        THEN MovesIn(e, o.from, PasteTo(o.from, o.index))
                                        ELSE Untouched(e)
<1> DEFINE o == request[a]
           to == PasteTo(o.from, o.index)
<1>1. /\ Commit(a, "paste") /\ UNCHANGED doc
      /\ order' = Moved(o.doc, o.from, to) /\ o.source = o.doc
  BY DEF CommitPasteWithin
<1>2. o \in Operations /\ o.kind = "paste" /\ (~torn' => ~torn /\ ~Misplaced(o))
  BY <1>1, CommitFacts
<1>3. /\ o.doc \in Docs /\ o.cell \in Cells /\ o.from \in Int /\ o.index \in Int
      /\ to \in Int
  BY <1>2 DEF Operations, PasteTo
<1> HIDE DEF o
<1>4. ~torn' => /\ {o.from, to} \subseteq 0 .. Length(o.doc) - 1
                /\ o.cell \in Rows(o.doc) /\ o.from = order[o.cell]
  <2> SUFFICES ASSUME ~torn'
               PROVE  /\ {o.from, to} \subseteq 0 .. Length(o.doc) - 1
                      /\ o.cell \in Rows(o.doc) /\ o.from = order[o.cell]
    OBVIOUS
  <2>1. /\ doc[o.cell] = o.doc /\ order[o.cell] = o.from
        /\ o.index \in 0 .. Length(o.doc) /\ ~(to >= Length(o.doc))
    BY <1>1, <1>2 DEF Misplaced
  <2>2. o.from \in 0 .. Length(o.doc) - 1 /\ o.cell \in Rows(o.doc)
    BY <1>2, <1>3, <2>1 DEF IInv, Ordered, InOrder, Rows
  <2> QED BY <1>3, <2>1, <2>2, LengthType DEF PasteTo
<1>5. UNCHANGED doc /\ order' = Moved(o.doc, o.from, to)
  BY <1>1 DEF o
<1> HIDE DEF to
<1>6. /\ TypeOK' /\ NewCells'
      /\ ~torn' => \A e \in Docs : IF e = o.doc THEN MovesIn(e, o.from, to)
                                    ELSE Untouched(e)
  BY <1>1, <1>3, <1>4, <1>5, MovedDoes
<1> QED BY <1>1, <1>3, <1>4, <1>6 DEF o, to

LEMMA CommitPasteDoes ==
    ASSUME IInv, NEW a \in Authors, CommitPaste(a)
    PROVE  LET o == request[a]
           IN  /\ TypeOK' /\ NewCells' /\ {o.source, o.doc} \subseteq Docs
               /\ o.source # o.doc
               /\ ~torn' => \A e \in Docs :
                     IF e = o.source THEN LeavesFrom(e, o.cell, order[o.cell])
                     ELSE IF e = o.doc THEN JoinsAt(e, o.cell, o.index)
                     ELSE Untouched(e)
<1> DEFINE o == request[a]
           s == o.source
           d == o.doc
           c == o.cell
           from == o.from
           i == o.index
           Shifted(e) == IF e \in Rows(s) /\ order[e] > from THEN order[e] - 1
                         ELSE IF e \in Rows(d) /\ order[e] >= i THEN order[e] + 1
                         ELSE order[e]
<1>1. Commit(a, "paste") /\ s # d /\ doc[c] # NoDoc
      /\ doc' = [doc EXCEPT ![c] = d]
  BY DEF CommitPaste
<1>2. /\ o \in Operations /\ o.kind = "paste"
      /\ request' \in [Authors -> Operations \cup {Nothing}]
      /\ request'[a] = Nothing
      /\ \A b \in Authors \ {a} : request'[b] = request[b]
      /\ made' = made /\ torn' \in BOOLEAN
      /\ ~torn' => ~torn /\ ~Misplaced(o)
  BY <1>1, CommitFacts
<1>3. s \in Docs /\ d \in Docs /\ c \in Cells /\ from \in Int /\ i \in Int
  BY <1>2 DEF Operations
<1>4. order' = IF i = from THEN [e \in Cells |-> Shifted(e)]
               ELSE [[e \in Cells |-> Shifted(e)] EXCEPT ![c] = i]
  <2>1. [e \in Cells |-> Shifted(e)]
          = [e \in Cells |->
                IF e \in {f \in Rows(s) : order[f] > from} THEN order[e] - 1
                ELSE IF e \in {f \in Rows(d) : order[f] >= i} THEN order[e] + 1
                ELSE order[e]]
    OBVIOUS
  <2> QED BY <2>1 DEF CommitPaste
<1>5. \A e \in Cells : Shifted(e) \in Int
  BY DEF IInv, TypeOK
<1>6. order'[c] = (IF i = from THEN Shifted(c) ELSE i)
      /\ \A e \in Cells \ {c} : order'[e] = Shifted(e)
  <2> HIDE DEF Shifted, o
  <2> QED BY <1>3, <1>4
<1>7. order' \in [Cells -> Int]
  <2> HIDE DEF Shifted, o
  <2> QED BY <1>3, <1>4, <1>5
<1> HIDE DEF o, s, d, c, from, i
<1>8. TypeOK'
  <2>1. doc' \in [Cells -> Docs \cup {NoDoc}]
    BY <1>1, <1>3 DEF IInv, TypeOK
  <2>2. \A e \in Cells : doc'[e] # NoDoc => e \in made'
    BY <1>1, <1>2, <1>3 DEF IInv, TypeOK
  <2> QED BY <1>2, <1>7, <2>1, <2>2 DEF IInv, TypeOK
<1>9. NewCells'
  BY <1>1, <1>2, <1>3, OthersInsert DEF IInv, TypeOK
<1>10. ASSUME ~torn', NEW e \in Docs
       PROVE  IF e = s THEN LeavesFrom(e, c, order[c])
              ELSE IF e = d THEN JoinsAt(e, c, i) ELSE Untouched(e)
  <2>1. doc[c] = s /\ order[c] = from /\ i \in 0 .. Length(d)
    BY <1>2, <1>10 DEF Misplaced, o, s, d, c, from, i
  <2>2. Rows(e)' = IF e = d THEN Rows(e) \cup {c} ELSE Rows(e) \ {c}
    BY <1>1, <1>3, CellsAssumption DEF Rows, IInv, TypeOK
  <2>3. \A f \in Rows(e) \ {c} : order'[f] = Shifted(f)
    BY <1>6 DEF Rows
  <2>4. CASE e = s
    <3>1. \A f \in Rows(e) \ {c} :
              order'[f] = IF order[f] > from THEN order[f] - 1 ELSE order[f]
      BY <1>1, <2>3, <2>4 DEF Rows
    <3>2. c \in Rows(e) /\ Rows(e)' = Rows(e) \ {c}
      BY <1>1, <1>3, <2>1, <2>2, <2>4 DEF Rows
    <3> QED BY <2>1, <2>4, <3>1, <3>2 DEF LeavesFrom
  <2>5. CASE e = d
    <3>1. c \notin Rows(e) /\ Rows(e)' = Rows(e) \cup {c}
      BY <1>1, <2>1, <2>2, <2>5 DEF Rows
    <3>2. \A f \in Rows(e) :
              order'[f] = IF order[f] >= i THEN order[f] + 1 ELSE order[f]
      BY <1>1, <2>3, <2>5, <3>1 DEF Rows
    <3>3. order'[c] = i
      BY <1>1, <1>3, <1>6, <2>1 DEF Rows
    <3> QED BY <1>1, <1>3, <2>1, <2>5, <3>1, <3>2, <3>3 DEF JoinsAt
  <2>6. CASE e # s /\ e # d
    <3>1. c \notin Rows(e) /\ Rows(e)' = Rows(e)
      BY <2>1, <2>2, <2>6 DEF Rows
    <3>2. \A f \in Rows(e) : order'[f] = order[f]
      BY <2>3, <2>6, <3>1 DEF Rows
    <3> QED BY <2>6, <3>1, <3>2 DEF Untouched
  <2> QED BY <2>4, <2>5, <2>6
<1> QED BY <1>1, <1>3, <1>8, <1>9, <1>10 DEF o, s, d, c, i

\* Whatever is committed, documents in order stay in order.
LEMMA CommitKeeps ==
    ASSUME IInv, NEW a \in Authors,
           CommitInsert(a) \/ CommitDelete(a) \/ CommitMove(a)
             \/ CommitPasteWithin(a) \/ CommitPaste(a)
    PROVE  IInv'
<1>1. TypeOK' /\ NewCells'
  BY CommitInsertDoes, CommitDeleteDoes, CommitMoveDoes, CommitPasteWithinDoes,
     CommitPasteDoes
<1>2. ASSUME ~torn', NEW e \in Docs
      PROVE  InOrder(e)'
  <2>1. ~torn
    <3>1. \E kind : Commit(a, kind)
      BY DEF CommitInsert, CommitDelete, CommitMove, CommitPasteWithin, CommitPaste
    <3> QED BY <1>2, <3>1, CommitFacts
  <2>2. InOrder(e)
    BY <2>1 DEF IInv, Ordered
  <2>3. \/ Untouched(e)
        \/ \E c, i : JoinsAt(e, c, i) \/ LeavesFrom(e, c, i) \/ MovesIn(e, c, i)
    <3>1. CASE CommitInsert(a)
      BY <1>2, <3>1, CommitInsertDoes
    <3>2. CASE CommitDelete(a)
      BY <1>2, <3>2, CommitDeleteDoes
    <3>3. CASE CommitMove(a)
      BY <1>2, <3>3, CommitMoveDoes
    <3>4. CASE CommitPasteWithin(a)
      BY <1>2, <3>4, CommitPasteWithinDoes
    <3>5. CASE CommitPaste(a)
      BY <1>2, <3>5, CommitPasteDoes
    <3> QED BY <3>1, <3>2, <3>3, <3>4, <3>5
  <2> QED BY <2>2, <2>3, Stays, Joins, Leaves, Moves
<1> QED BY <1>1, <1>2 DEF IInv, Ordered

LEMMA RollBackPasteKeeps ==
    ASSUME IInv, NEW a \in Authors, RollBackPaste(a)
    PROVE  IInv'
<1>1. /\ request' = [request EXCEPT ![a] = Nothing]
      /\ UNCHANGED <<doc, order, made, torn>>
  BY DEF RollBackPaste
<1>2. TypeOK'
  BY <1>1 DEF IInv, TypeOK
<1>3. request'[a] = Nothing /\ \A b \in Authors \ {a} : request'[b] = request[b]
  BY <1>1 DEF IInv, TypeOK
<1>4. NewCells'
  BY <1>1, <1>3, OthersInsert
<1>5. Ordered'
  BY <1>1 DEF IInv, Ordered, InOrder, Length, Rows
<1> QED BY <1>2, <1>4, <1>5 DEF IInv

-----------------------------------------------------------------------------
(* The theorem *)

LEMMA Initially == Init => IInv
<1> SUFFICES ASSUME Init PROVE IInv
  OBVIOUS
<1>1. TypeOK
  <2>1. doc \in [Cells -> Docs \cup {NoDoc}] /\ \A c \in Cells : doc[c] = NoDoc
    BY DEF Init
  <2>2. order \in [Cells -> Int] /\ made \subseteq Cells
    BY DEF Init
  <2>3. request \in [Authors -> Operations \cup {Nothing}]
    BY DEF Init
  <2>4. torn \in BOOLEAN
    BY DEF Init
  <2> QED BY <2>1, <2>2, <2>3, <2>4 DEF TypeOK
<1>2. NewCells
  BY DEF Init, NewCells, Inserting
<1>3. ASSUME NEW d \in Docs PROVE InOrder(d)
  <2>1. Rows(d) = {}
    BY CellsAssumption DEF Init, Rows
  <2>2. Length(d) = 0
    BY <2>1, FS_EmptySet DEF Length
  <2> QED BY <2>1, <2>2 DEF InOrder
<1> QED BY <1>1, <1>2, <1>3 DEF IInv, Ordered

LEMMA Inductive == IInv /\ [Next]_vars => IInv'
<1> SUFFICES ASSUME IInv, [Next]_vars PROVE IInv'
  OBVIOUS
<1>1. ASSUME NEW a \in Authors, NEW d \in Docs, NEW c \in Cells, NEW i \in Indices,
             ReadInsert(a, d, c, i) \/ ReadPasteWithin(a, d, c, i)
               \/ ReadPaste(a, d, c, i)
      PROVE  IInv'
  BY <1>1, ReadInsertKeeps, ReadPasteWithinKeeps, ReadPasteKeeps
<1>2. ASSUME NEW a \in Authors, NEW d \in Docs, NEW c \in Cells, ReadDelete(a, d, c)
      PROVE  IInv'
  BY <1>2, ReadDeleteKeeps
<1>3. ASSUME NEW a \in Authors, NEW d \in Docs, NEW from \in Indices,
             NEW to \in Indices, ReadMove(a, d, from, to)
      PROVE  IInv'
  BY <1>3, ReadMoveKeeps
<1>4. ASSUME NEW a \in Authors,
             CommitInsert(a) \/ CommitDelete(a) \/ CommitMove(a)
               \/ CommitPasteWithin(a) \/ CommitPaste(a)
      PROVE  IInv'
  BY <1>4, CommitKeeps
<1>6. ASSUME NEW a \in Authors, RollBackPaste(a)
      PROVE  IInv'
  BY <1>6, RollBackPasteKeeps
<1>5. CASE UNCHANGED vars
  <2>1. TypeOK' /\ NewCells'
    BY <1>5 DEF vars, IInv, TypeOK, NewCells, Inserting
  <2>2. Ordered'
    BY <1>5 DEF vars, IInv, Ordered, InOrder, Length, Rows
  <2> QED BY <2>1, <2>2 DEF IInv
<1> QED BY <1>1, <1>2, <1>3, <1>4, <1>5, <1>6 DEF Next

LEMMA Invariant == Spec => []IInv
BY Initially, Inductive, PTL DEF Spec

\* The positions of the cells of each document are 0, 1, 2, ... without a gap
\* or a duplicate, whatever requests of whatever authors overlap, as long as
\* none was committed on a position that no longer was right.
THEOREM PositionsAreContiguous == Spec => []Contiguous
<1>1. IInv => Contiguous
  BY DEF IInv, Ordered, InOrder, Contiguous
<1> QED BY <1>1, Invariant, PTL

-----------------------------------------------------------------------------
(* The lists that the positions stand for *)

\* A list with an item more: those from the index i on go down by one.
LEMMA InsertAtFacts ==
    ASSUME NEW s \in Seq(Cells), NEW i \in 0 .. Len(s), NEW c \in Cells
    PROVE  /\ List!InsertAt(s, i, c) \in Seq(Cells)
           /\ Len(List!InsertAt(s, i, c)) = Len(s) + 1
           /\ \A p \in 1 .. Len(s) + 1 :
                 List!InsertAt(s, i, c)[p] = IF p <= i THEN s[p]
                                             ELSE IF p = i + 1 THEN c ELSE s[p - 1]
<1> DEFINE before == SubSeq(s, 1, i)
           after == SubSeq(s, i + 1, Len(s))
           front == before \o <<c>>
           all == front \o after
<1>1. Len(s) \in Nat /\ i \in Nat /\ i <= Len(s)
  OBVIOUS
<1>2. /\ before \in Seq(Cells) /\ Len(before) = i
      /\ \A p \in 1 .. i : before[p] = s[p]
  BY SubSeqProperties
<1>3. /\ after \in Seq(Cells) /\ Len(after) = Len(s) - i
      /\ \A p \in 1 .. Len(s) - i : after[p] = s[i + p]
  BY SubSeqProperties
<1>4. List!InsertAt(s, i, c) = all
  BY DEF List!InsertAt
<1> HIDE DEF before, after
<1>5. /\ front \in Seq(Cells) /\ Len(front) = i + 1
      /\ \A p \in 1 .. i + 1 : front[p] = IF p <= i THEN s[p] ELSE c
  BY <1>2
<1> HIDE DEF front
<1>6. /\ all \in Seq(Cells) /\ Len(all) = Len(front) + Len(after)
      /\ \A p \in 1 .. Len(front) + Len(after) :
            all[p] = IF p <= Len(front) THEN front[p] ELSE after[p - Len(front)]
  BY <1>3, <1>5, ConcatProperties
<1> HIDE DEF all
<1>7. Len(front) + Len(after) = Len(s) + 1
  BY <1>1, <1>3, <1>5
<1>8. ASSUME NEW p \in 1 .. Len(s) + 1
      PROVE  all[p] = IF p <= i THEN s[p] ELSE IF p = i + 1 THEN c ELSE s[p - 1]
  <2>1. CASE p <= i + 1
    BY <1>1, <1>5, <1>6, <1>7, <2>1
  <2>2. CASE p > i + 1
    <3>1. p - (i + 1) \in 1 .. Len(s) - i /\ i + (p - (i + 1)) = p - 1
      BY <1>1, <2>2
    <3>2. all[p] = after[p - (i + 1)]
      BY <1>1, <1>5, <1>6, <1>7, <2>2
    <3> QED BY <1>1, <1>3, <2>2, <3>1, <3>2
  <2> QED BY <1>1, <2>1, <2>2
<1> QED BY <1>4, <1>6, <1>7, <1>8

\* A list with an item less: those after the index i come up by one.
LEMMA RemoveAtFacts ==
    ASSUME NEW s \in Seq(Cells), NEW i \in 0 .. Len(s) - 1
    PROVE  /\ List!RemoveAt(s, i) \in Seq(Cells)
           /\ Len(List!RemoveAt(s, i)) = Len(s) - 1
           /\ \A p \in 1 .. Len(s) - 1 :
                 List!RemoveAt(s, i)[p] = IF p <= i THEN s[p] ELSE s[p + 1]
<1> DEFINE before == SubSeq(s, 1, i)
           after == SubSeq(s, i + 2, Len(s))
           all == before \o after
<1>1. Len(s) \in Nat /\ i \in Nat /\ i < Len(s)
  OBVIOUS
<1>2. /\ before \in Seq(Cells) /\ Len(before) = i
      /\ \A p \in 1 .. i : before[p] = s[p]
  BY SubSeqProperties
<1>3. /\ after \in Seq(Cells) /\ Len(after) = Len(s) - 1 - i
      /\ \A p \in 1 .. Len(s) - 1 - i : after[p] = s[i + 1 + p]
  BY SubSeqProperties
<1>4. List!RemoveAt(s, i) = all
  BY DEF List!RemoveAt
<1> HIDE DEF before, after
<1>5. /\ all \in Seq(Cells) /\ Len(all) = Len(before) + Len(after)
      /\ \A p \in 1 .. Len(before) + Len(after) :
            all[p] = IF p <= Len(before) THEN before[p] ELSE after[p - Len(before)]
  BY <1>2, <1>3, ConcatProperties
<1> HIDE DEF all
<1>6. Len(before) + Len(after) = Len(s) - 1
  BY <1>1, <1>2, <1>3
<1>7. ASSUME NEW p \in 1 .. Len(s) - 1
      PROVE  all[p] = IF p <= i THEN s[p] ELSE s[p + 1]
  <2>1. CASE p <= i
    BY <1>1, <1>2, <1>5, <1>6, <2>1
  <2>2. CASE p > i
    <3>1. p - i \in 1 .. Len(s) - 1 - i /\ i + 1 + (p - i) = p + 1
      BY <1>1, <2>2
    <3>2. all[p] = after[p - i]
      BY <1>1, <1>2, <1>5, <1>6, <2>2
    <3> QED BY <1>1, <1>3, <2>2, <3>1, <3>2
  <2> QED BY <1>1, <2>1, <2>2
<1> QED BY <1>4, <1>5, <1>6, <1>7

\* A document in order is a list: its cells at their positions.
LEMMA ListingFacts ==
    ASSUME NEW d \in Docs, InOrder(d)
    PROVE  /\ Listing[d] \in Seq(Cells)
           /\ Len(Listing[d]) = Length(d)
           /\ \A p \in 1 .. Length(d) : /\ Listing[d][p] \in Rows(d)
                                        /\ order[Listing[d][p]] = p - 1
           /\ \A c \in Rows(d) : Listing[d][order[c] + 1] = c
<1> DEFINE L == [p \in 1 .. Length(d) |-> CHOOSE c \in Rows(d) : order[c] = p - 1]
<1>1. Length(d) \in Nat /\ Rows(d) \subseteq Cells
  BY LengthType DEF Rows
<1>2. Listing[d] = L
  BY DEF Listing
<1>3. ASSUME NEW p \in 1 .. Length(d)
      PROVE  L[p] \in Rows(d) /\ order[L[p]] = p - 1
  <2>1. p - 1 \in 0 .. Length(d) - 1
    BY <1>1
  <2>2. \E c \in Rows(d) : order[c] = p - 1
    BY <2>1 DEF InOrder
  <2> QED BY <2>2
<1> HIDE DEF L
<1>4. L \in Seq(Cells) /\ Len(L) = Length(d)
  <2>1. L \in [1 .. Length(d) -> Cells]
    BY <1>1, <1>3 DEF L
  <2> QED BY <1>1, <2>1
<1>5. ASSUME NEW c \in Rows(d)
      PROVE  L[order[c] + 1] = c
  <2> DEFINE q == order[c] + 1
  <2>1. q \in 1 .. Length(d) /\ q - 1 = order[c]
    BY <1>1 DEF InOrder
  <2> HIDE DEF q
  <2>2. L[q] \in Rows(d) /\ order[L[q]] = order[c]
    BY <1>3, <2>1
  <2>3. L[q] = c
    BY <2>2 DEF InOrder
  <2> QED BY <2>3 DEF q
<1> QED BY <1>2, <1>3, <1>4, <1>5

\* The list after a step is the one whose cells have the positions then.
LEMMA ListingAfter ==
    ASSUME NEW d \in Docs, InOrder(d)', NEW s \in Seq(Cells), Len(s) = Length(d)',
           \A p \in 1 .. Len(s) : s[p] \in Rows(d)' /\ order'[s[p]] = p - 1
    PROVE  Listing'[d] = s
<1> DEFINE L == [p \in 1 .. Length(d)' |-> CHOOSE c \in Rows(d)' : order'[c] = p - 1]
<1>1. Listing'[d] = L
  BY DEF Listing
<1>2. DOMAIN s = 1 .. Length(d)' /\ Len(s) = Length(d)' /\ s = [p \in DOMAIN s |-> s[p]]
  OBVIOUS
<1>3. ASSUME NEW p \in 1 .. Length(d)'
      PROVE  L[p] = s[p]
  <2>1. s[p] \in Rows(d)' /\ order'[s[p]] = p - 1
    BY <1>2
  <2>2. L[p] \in Rows(d)' /\ order'[L[p]] = p - 1
    BY <2>1
  <2> QED BY <2>1, <2>2 DEF InOrder
<1>4. DOMAIN L = 1 .. Length(d)' /\ L = [p \in DOMAIN L |-> L[p]]
  OBVIOUS
<1> HIDE DEF L
<1> QED BY <1>1, <1>2, <1>3, <1>4

LEMMA UntouchedList ==
    ASSUME NEW d \in Docs, InOrder(d), Untouched(d)
    PROVE  Listing'[d] = Listing[d]
<1>1. InOrder(d)' /\ Length(d)' = Length(d)
  BY Stays DEF Untouched, Length
<1>2. /\ Listing[d] \in Seq(Cells) /\ Len(Listing[d]) = Length(d)
      /\ \A p \in 1 .. Length(d) : /\ Listing[d][p] \in Rows(d)
                                   /\ order[Listing[d][p]] = p - 1
  BY ListingFacts
<1>3. \A p \in 1 .. Len(Listing[d]) : /\ Listing[d][p] \in Rows(d)'
                                      /\ order'[Listing[d][p]] = p - 1
  BY <1>2 DEF Untouched
<1> QED BY <1>1, <1>2, <1>3, ListingAfter

LEMMA JoinsList ==
    ASSUME NEW d \in Docs, InOrder(d), NEW c, NEW i, JoinsAt(d, c, i)
    PROVE  Listing'[d] = List!InsertAt(Listing[d], i, c)
<1> DEFINE L == Listing[d]
           s == List!InsertAt(L, i, c)
           n == Length(d)
<1>1. n \in Nat /\ InOrder(d)'
  BY LengthType, Joins
<1>2. /\ c \in Cells /\ c \notin Rows(d) /\ i \in 0 .. n
      /\ Rows(d)' = Rows(d) \cup {c} /\ order'[c] = i
      /\ \A e \in Rows(d) :
            order'[e] = IF order[e] >= i THEN order[e] + 1 ELSE order[e]
  BY DEF JoinsAt
<1>3. Length(d)' = n + 1
  <2>1. IsFiniteSet(Rows(d))
    BY SomeCells DEF Rows
  <2> QED BY <1>2, <2>1, FS_AddElement DEF Length
<1>4. /\ L \in Seq(Cells) /\ Len(L) = n
      /\ \A p \in 1 .. n : L[p] \in Rows(d) /\ order[L[p]] = p - 1
  BY ListingFacts
<1> HIDE DEF L, n
<1>5. /\ s \in Seq(Cells) /\ Len(s) = n + 1
      /\ \A p \in 1 .. n + 1 : s[p] = IF p <= i THEN L[p]
                                      ELSE IF p = i + 1 THEN c ELSE L[p - 1]
  <2>1. L \in Seq(Cells) /\ i \in 0 .. Len(L) /\ c \in Cells
    BY <1>2, <1>4
  <2>2. /\ List!InsertAt(L, i, c) \in Seq(Cells)
        /\ Len(List!InsertAt(L, i, c)) = Len(L) + 1
        /\ \A p \in 1 .. Len(L) + 1 :
              List!InsertAt(L, i, c)[p] = IF p <= i THEN L[p]
                                          ELSE IF p = i + 1 THEN c ELSE L[p - 1]
    BY <2>1, InsertAtFacts
  <2>3. s = List!InsertAt(L, i, c)
    OBVIOUS
  <2> HIDE DEF s
  <2> QED BY <1>4, <2>2, <2>3
<1> HIDE DEF s
<1>6. ASSUME NEW p \in 1 .. n + 1
      PROVE  s[p] \in Rows(d)' /\ order'[s[p]] = p - 1
  <2>1. CASE p <= i
    <3>1. p \in 1 .. n /\ s[p] = L[p]
      BY <1>1, <1>2, <1>5, <2>1
    <3> QED BY <1>1, <1>2, <1>4, <2>1, <3>1
  <2>2. CASE p = i + 1
    BY <1>1, <1>2, <1>5, <2>2
  <2>3. CASE p > i + 1
    <3>1. p - 1 \in 1 .. n /\ s[p] = L[p - 1]
      BY <1>1, <1>2, <1>5, <2>3
    <3> QED BY <1>1, <1>2, <1>4, <2>3, <3>1
  <2> QED BY <1>1, <1>2, <2>1, <2>2, <2>3
<1> QED BY <1>1, <1>3, <1>5, <1>6, ListingAfter DEF s, L

LEMMA LeavesList ==
    ASSUME NEW d \in Docs, InOrder(d), NEW c, NEW i, LeavesFrom(d, c, i)
    PROVE  Listing'[d] = List!RemoveAt(Listing[d], i)
<1> DEFINE L == Listing[d]
           s == List!RemoveAt(L, i)
           n == Length(d)
<1>1. n \in Nat /\ InOrder(d)'
  BY LengthType, Leaves
<1>2. /\ c \in Rows(d) /\ order[c] = i /\ Rows(d)' = Rows(d) \ {c}
      /\ \A e \in Rows(d) \ {c} :
            order'[e] = IF order[e] > i THEN order[e] - 1 ELSE order[e]
  BY DEF LeavesFrom
<1>3. Length(d)' = n - 1
  <2>1. IsFiniteSet(Rows(d))
    BY SomeCells DEF Rows
  <2> QED BY <1>2, <2>1, FS_RemoveElement DEF Length
<1>4. i \in 0 .. n - 1
  BY <1>2 DEF InOrder
<1>5. /\ L \in Seq(Cells) /\ Len(L) = n
      /\ \A p \in 1 .. n : L[p] \in Rows(d) /\ order[L[p]] = p - 1
  BY ListingFacts
<1> HIDE DEF L, n
<1>6. /\ s \in Seq(Cells) /\ Len(s) = n - 1
      /\ \A p \in 1 .. n - 1 : s[p] = IF p <= i THEN L[p] ELSE L[p + 1]
  BY <1>4, <1>5, RemoveAtFacts
<1> HIDE DEF s
<1>7. ASSUME NEW p \in 1 .. n - 1
      PROVE  s[p] \in Rows(d)' /\ order'[s[p]] = p - 1
  <2>1. CASE p <= i
    <3>1. p \in 1 .. n /\ s[p] = L[p] /\ order[L[p]] = p - 1 /\ p - 1 < i
      BY <1>1, <1>4, <1>5, <1>6, <2>1
    <3>2. L[p] \in Rows(d) \ {c} /\ ~(p - 1 > i)
      BY <1>1, <1>2, <1>4, <1>5, <3>1
    <3> QED BY <1>2, <3>1, <3>2
  <2>2. CASE p > i
    <3>1. p + 1 \in 1 .. n /\ s[p] = L[p + 1] /\ order[L[p + 1]] = p /\ p > i
      BY <1>1, <1>4, <1>5, <1>6, <2>2
    <3>2. L[p + 1] \in Rows(d) \ {c}
      BY <1>1, <1>2, <1>4, <1>5, <3>1
    <3>3. order'[L[p + 1]] = p - 1
      <4> DEFINE e == L[p + 1]
      <4>1. e \in Rows(d) \ {c} /\ order[e] = p /\ p > i
        BY <3>1, <3>2
      <4> HIDE DEF e
      <4>2. order'[e] = p - 1
        BY <1>2, <4>1
      <4> QED BY <4>2 DEF e
    <3>4. s[p] = L[p + 1]
      BY <3>1
    <3> QED BY <1>2, <3>2, <3>3, <3>4
  <2> QED BY <1>1, <1>4, <2>1, <2>2
<1> QED BY <1>1, <1>3, <1>6, <1>7, ListingAfter DEF s, L

LEMMA MovesList ==
    ASSUME NEW d \in Docs, InOrder(d), NEW from, NEW to, MovesIn(d, from, to)
    PROVE  Listing'[d] = List!MoveItem(Listing[d], from, to)
<1> DEFINE L == Listing[d]
           rest == List!RemoveAt(L, from)
           s == List!InsertAt(rest, to, L[from + 1])
           n == Length(d)
<1>1. n \in Nat /\ InOrder(d)'
  BY LengthType, Moves
<1>2. from \in 0 .. n - 1 /\ to \in 0 .. n - 1 /\ Rows(d)' = Rows(d)
  BY DEF MovesIn
<1>3. Length(d)' = n
  BY <1>2 DEF Length
<1>4. /\ L \in Seq(Cells) /\ Len(L) = n
      /\ \A p \in 1 .. n : L[p] \in Rows(d) /\ order[L[p]] = p - 1
  BY ListingFacts
<1>5. \A e \in Rows(d) :
          order'[e] = IF order[e] = from THEN to
                      ELSE IF order[e] > from /\ order[e] <= to THEN order[e] - 1
                      ELSE IF order[e] >= to /\ order[e] < from THEN order[e] + 1
                      ELSE order[e]
  BY MovedTo
<1>6. List!MoveItem(L, from, to) = s
  BY DEF List!MoveItem
<1> HIDE DEF L, n
<1>7. /\ rest \in Seq(Cells) /\ Len(rest) = n - 1
      /\ \A p \in 1 .. n - 1 : rest[p] = IF p <= from THEN L[p] ELSE L[p + 1]
  BY <1>2, <1>4, RemoveAtFacts
<1> HIDE DEF rest
<1>8. L[from + 1] \in Cells
  <2>1. from + 1 \in 1 .. n
    BY <1>1, <1>2
  <2> QED BY <1>4, <2>1 DEF Rows
<1>9. /\ s \in Seq(Cells) /\ Len(s) = n
      /\ \A p \in 1 .. n : s[p] = IF p <= to THEN rest[p]
                                  ELSE IF p = to + 1 THEN L[from + 1] ELSE rest[p - 1]
  <2> DEFINE c == L[from + 1]
  <2>1. rest \in Seq(Cells) /\ to \in 0 .. Len(rest) /\ c \in Cells
    BY <1>2, <1>7, <1>8
  <2> HIDE DEF c
  <2>2. /\ List!InsertAt(rest, to, c) \in Seq(Cells)
        /\ Len(List!InsertAt(rest, to, c)) = Len(rest) + 1
        /\ \A p \in 1 .. Len(rest) + 1 :
              List!InsertAt(rest, to, c)[p] = IF p <= to THEN rest[p]
                                              ELSE IF p = to + 1 THEN c ELSE rest[p - 1]
    BY <2>1, InsertAtFacts
  <2>3. Len(rest) + 1 = n
    BY <1>1, <1>7
  <2>4. s = List!InsertAt(rest, to, c)
    BY DEF c
  <2> HIDE DEF s
  <2>5. /\ s \in Seq(Cells) /\ Len(s) = n
        /\ \A p \in 1 .. n : s[p] = IF p <= to THEN rest[p]
                                    ELSE IF p = to + 1 THEN c ELSE rest[p - 1]
    BY <2>2, <2>3, <2>4
  <2> QED BY <2>5 DEF c
<1> HIDE DEF s
<1>10. ASSUME NEW p \in 1 .. n
       PROVE  \E q \in 1 .. n : s[p] = L[q]
                /\ q - 1 = IF p = to + 1 THEN from
                           ELSE IF from < p /\ p <= to THEN p
                           ELSE IF to + 1 < p /\ p <= from + 1 THEN p - 2
                           ELSE p - 1
  <2>1. CASE p = to + 1
    <3>1. s[p] = L[from + 1] /\ from + 1 \in 1 .. n /\ from + 1 - 1 = from
      BY <1>1, <1>2, <1>9, <2>1
    <3> QED BY <1>1, <1>2, <2>1, <3>1
  <2>2. CASE p <= to /\ p <= from
    <3>1. s[p] = L[p]
      <4>1. p \in 1 .. n - 1 /\ p <= from
        BY <1>1, <1>2, <2>2
      <4>2. s[p] = rest[p]
        BY <1>9, <2>2
      <4> QED BY <1>7, <4>1, <4>2
    <3> QED BY <1>1, <1>2, <2>2, <3>1
  <2>3. CASE p <= to /\ p > from
    <3>1. s[p] = L[p + 1] /\ p + 1 \in 1 .. n /\ p + 1 - 1 = p
      <4>1. p \in 1 .. n - 1 /\ p + 1 \in 1 .. n /\ p + 1 - 1 = p
        BY <1>1, <1>2, <2>3
      <4>2. s[p] = rest[p] /\ rest[p] = L[p + 1]
        BY <1>2, <1>7, <1>9, <2>3, <4>1
      <4> QED BY <4>1, <4>2
    <3> QED BY <1>1, <1>2, <2>3, <3>1
  <2>4. CASE p > to + 1 /\ p - 1 <= from
    <3>1. s[p] = L[p - 1] /\ p - 1 \in 1 .. n /\ p - 1 - 1 = p - 2
      BY <1>1, <1>2, <1>7, <1>9, <2>4, SMTT(60)
    <3> QED BY <1>1, <1>2, <2>4, <3>1
  <2>5. CASE p > to + 1 /\ p - 1 > from
    <3>1. s[p] = L[p]
      <4>1. p - 1 \in 1 .. n - 1 /\ p - 1 + 1 = p
        BY <1>1, <1>2, <2>5
      <4>2. s[p] = rest[p - 1]
        BY <1>1, <1>2, <1>9, <2>5
      <4>3. rest[p - 1] = L[p - 1 + 1]
        BY <1>1, <1>2, <1>7, <2>5, <4>1
      <4> QED BY <4>1, <4>2, <4>3
    <3> QED BY <1>1, <1>2, <2>5, <3>1
  <2> QED BY <1>1, <1>2, <2>1, <2>2, <2>3, <2>4, <2>5
<1>11. ASSUME NEW p \in 1 .. n
       PROVE  s[p] \in Rows(d)' /\ order'[s[p]] = p - 1
  <2>1. PICK q \in 1 .. n : s[p] = L[q]
          /\ q - 1 = IF p = to + 1 THEN from
                     ELSE IF from < p /\ p <= to THEN p
                     ELSE IF to + 1 < p /\ p <= from + 1 THEN p - 2
                     ELSE p - 1
    BY <1>10
  <2>2. s[p] \in Rows(d) /\ order[s[p]] = q - 1
    BY <1>4, <2>1
  <2>3. order'[s[p]] = p - 1
    BY <1>1, <1>2, <1>5, <2>1, <2>2
  <2> QED BY <1>2, <2>2, <2>3
<1> QED BY <1>1, <1>3, <1>6, <1>9, <1>11, ListingAfter DEF L

\* Where a cell is in the list of its document.
LEMMA PlaceInList ==
    ASSUME NEW d \in Docs, InOrder(d), NEW c \in Rows(d)
    PROVE  List!IndexOf(Listing[d], c) = order[c]
<1>1. /\ Listing[d] \in Seq(Cells)
      /\ Len(Listing[d]) = Length(d)
      /\ \A p \in 1 .. Length(d) : /\ Listing[d][p] \in Rows(d)
                                   /\ order[Listing[d][p]] = p - 1
      /\ \A e \in Rows(d) : Listing[d][order[e] + 1] = e
  BY ListingFacts
<1>2. order[c] + 1 \in 1 .. Length(d) /\ order[c] \in Int
  BY LengthType DEF InOrder
<1>3. DOMAIN Listing[d] = 1 .. Length(d)
  BY <1>1
<1>4. \A p \in DOMAIN Listing[d] : Listing[d][p] = c <=> p = order[c] + 1
  BY <1>1, <1>2, <1>3, LengthType
<1> DEFINE q == CHOOSE i \in DOMAIN Listing[d] : Listing[d][i] = c
<1>5. q = order[c] + 1
  BY <1>2, <1>3, <1>4
<1>6. List!IndexOf(Listing[d], c) = q - 1
  BY DEF List!IndexOf
<1> HIDE DEF q
<1> QED BY <1>2, <1>5, <1>6

-----------------------------------------------------------------------------
(* What is committed is what was asked for *)

LEMMA CommitIsListOperation ==
    ASSUME IInv, ~torn', NEW a \in Authors,
           CommitInsert(a) \/ CommitDelete(a) \/ CommitMove(a)
             \/ CommitPasteWithin(a) \/ CommitPaste(a)
    PROVE  Promised(request[a])
<1> DEFINE o == request[a]
<1>0. PICK kind : Commit(a, kind)
  BY DEF CommitInsert, CommitDelete, CommitMove, CommitPasteWithin, CommitPaste
<1>1. /\ \A e \in Docs : InOrder(e)
      /\ DOMAIN Listing = Docs /\ DOMAIN Listing' = Docs
      /\ Listing = [e \in DOMAIN Listing |-> Listing[e]]
      /\ Listing' = [e \in DOMAIN Listing' |-> Listing'[e]]
  <2>1. ~torn
    BY <1>0, CommitFacts
  <2> QED BY <2>1 DEF IInv, Ordered, Listing
<1>2. CASE CommitInsert(a)
  <2>1. o.kind = "insert" /\ o.doc \in Docs
        /\ \A e \in Docs : IF e = o.doc THEN JoinsAt(e, o.cell, o.index)
                           ELSE Untouched(e)
    BY <1>2, CommitInsertDoes DEF CommitInsert, Commit
  <2>2. \A e \in Docs : Listing'[e] = IF e = o.doc
                                      THEN List!InsertAt(Listing[e], o.index, o.cell)
                                      ELSE Listing[e]
    BY <1>1, <2>1, JoinsList, UntouchedList
  <2>3. List!LInsert(o.doc, o.index, o.cell)
    BY <1>1, <2>1, <2>2 DEF List!LInsert
  <2> QED BY <2>1, <2>3 DEF Promised
<1>3. CASE CommitDelete(a)
  <2>1. o.kind = "delete" /\ o.doc \in Docs
        /\ \A e \in Docs : IF e = o.doc THEN LeavesFrom(e, o.cell, order[o.cell])
                           ELSE Untouched(e)
    BY <1>3, CommitDeleteDoes DEF CommitDelete, Commit
  <2>2. List!IndexOf(Listing[o.doc], o.cell) = order[o.cell]
    BY <1>1, <2>1, PlaceInList DEF LeavesFrom
  <2>3. \A e \in Docs : Listing'[e] = IF e = o.doc
                                      THEN List!RemoveAt(Listing[e], order[o.cell])
                                      ELSE Listing[e]
    BY <1>1, <2>1, LeavesList, UntouchedList
  <2>4. List!LDelete(o.doc, o.cell)
    BY <1>1, <2>1, <2>2, <2>3 DEF List!LDelete
  <2> QED BY <2>1, <2>4 DEF Promised
<1>4. CASE CommitMove(a)
  <2>1. o.kind = "move" /\ o.doc \in Docs
        /\ \A e \in Docs : IF e = o.doc THEN MovesIn(e, o.from, o.to)
                           ELSE Untouched(e)
    BY <1>4, CommitMoveDoes DEF CommitMove, Commit
  <2>2. \A e \in Docs : Listing'[e] = IF e = o.doc
                                      THEN List!MoveItem(Listing[e], o.from, o.to)
                                      ELSE Listing[e]
    BY <1>1, <2>1, MovesList, UntouchedList
  <2>3. List!LMove(o.doc, o.from, o.to)
    BY <1>1, <2>1, <2>2 DEF List!LMove
  <2> QED BY <2>1, <2>3 DEF Promised
<1>5. CASE CommitPasteWithin(a)
  <2> DEFINE to == PasteTo(o.from, o.index)
  <2>1. o.kind = "paste" /\ o.doc \in Docs /\ o.source = o.doc
        /\ o.cell \in Rows(o.doc) /\ o.from = order[o.cell]
        /\ \A e \in Docs : IF e = o.doc THEN MovesIn(e, o.from, to) ELSE Untouched(e)
    BY <1>5, CommitPasteWithinDoes DEF CommitPasteWithin, Commit
  <2>2. List!IndexOf(Listing[o.source], o.cell) = o.from
    BY <1>1, <2>1, PlaceInList
  <2>3. \A e \in Docs : Listing'[e] = IF e = o.doc
                                      THEN List!MoveItem(Listing[e], o.from, to)
                                      ELSE Listing[e]
    <3> HIDE DEF to
    <3> QED BY <1>1, <2>1, MovesList, UntouchedList
  <2>4. List!LMove(o.doc, o.from, to)
    BY <1>1, <2>1, <2>3 DEF List!LMove
  <2>5. List!LPaste(o.source, o.cell, o.doc, o.index)
    BY <2>1, <2>2, <2>4 DEF List!LPaste, PasteTo
  <2> QED BY <2>1, <2>5 DEF Promised
<1>6. CASE CommitPaste(a)
  <2> DEFINE from == order[o.cell]
  <2>1. o.kind = "paste" /\ o.doc \in Docs /\ o.source \in Docs /\ o.source # o.doc
        /\ \A e \in Docs : IF e = o.source THEN LeavesFrom(e, o.cell, from)
                           ELSE IF e = o.doc THEN JoinsAt(e, o.cell, o.index)
                           ELSE Untouched(e)
    BY <1>6, CommitPasteDoes DEF CommitPaste, Commit
  <2>2. List!IndexOf(Listing[o.source], o.cell) = from
    BY <1>1, <2>1, PlaceInList DEF LeavesFrom
  <2>3. \A e \in Docs :
            Listing'[e] = IF e = o.source THEN List!RemoveAt(Listing[e], from)
                          ELSE IF e = o.doc
                          THEN List!InsertAt(Listing[e], o.index, o.cell)
                          ELSE Listing[e]
    <3> HIDE DEF from
    <3> QED BY <1>1, <2>1, LeavesList, JoinsList, UntouchedList
  <2>4. Listing' = [Listing EXCEPT
                       ![o.source] = List!RemoveAt(Listing[o.source], from),
                       ![o.doc] = List!InsertAt(Listing[o.doc], o.index, o.cell)]
    BY <1>1, <2>1, <2>3
  <2>5. List!LPaste(o.source, o.cell, o.doc, o.index)
    BY <2>1, <2>2, <2>4 DEF List!LPaste
  <2> QED BY <2>1, <2>5 DEF Promised
<1> QED BY <1>2, <1>3, <1>4, <1>5, <1>6

\* Shifting positions is the operation on the list that the author asked for:
\* an insert above the cell at the index, a delete, a move to the index, a
\* paste above; and the lists of the other documents stay as they are.
THEOREM CommitsAreListOperations == Spec => RequestsAreListOperations
<1> DEFINE Step == ~torn' =>
              \A a \in Authors :
                  request[a] # Nothing /\ request'[a] = Nothing /\ ~UNCHANGED order
                      => Promised(request[a])
<1>1. IInv /\ [Next]_vars => [Step]_vars
  <2> SUFFICES ASSUME IInv, Next, ~torn', NEW b \in Authors,
                      request[b] # Nothing, request'[b] = Nothing, ~UNCHANGED order
               PROVE  Promised(request[b])
    BY DEF Next
  <2>1. ASSUME NEW a \in Authors, NEW operation, Accept(a, operation)
        PROVE  FALSE
    BY <2>1 DEF Accept
  <2>2. ASSUME NEW a \in Authors, RollBackPaste(a)
        PROVE  FALSE
    BY <2>2 DEF RollBackPaste
  <2>3. ASSUME NEW a \in Authors,
               CommitInsert(a) \/ CommitDelete(a) \/ CommitMove(a)
                 \/ CommitPasteWithin(a) \/ CommitPaste(a)
        PROVE  Promised(request[b])
    <3>1. PICK kind : Commit(a, kind)
      BY <2>3 DEF CommitInsert, CommitDelete, CommitMove, CommitPasteWithin,
         CommitPaste
    <3>2. a = b
      BY <3>1, CommitFacts
    <3> QED BY <2>3, <3>2, CommitIsListOperation
  <2> QED BY <2>1, <2>2, <2>3 DEF Next, ReadInsert, ReadDelete, ReadMove,
        ReadPasteWithin, ReadPaste
<1>2. QED
  BY <1>1, Invariant, PTL DEF Spec, RequestsAreListOperations

=============================================================================
