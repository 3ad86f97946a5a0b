---------------------------- MODULE DataDocCells ----------------------------
(***************************************************************************)
(* The order of the cells of DataDocs, kept as the column cell_order of    *)
(* the table data_doc_data_cell.  A request of an author reads the table   *)
(* in its transaction's snapshot, checks its indices against what it read, *)
(* and then rewrites the column with UPDATE statements.  MySQL lets the    *)
(* first of them wait for every transaction that wrote rows of the         *)
(* document and has not committed, and it writes to the rows as they are   *)
(* then.  So a request has two steps: what it reads, and what it writes.   *)
(***************************************************************************)
EXTENDS Integers, Sequences, FiniteSets

CONSTANTS
    Docs,
    Cells,     \* bound: the cells ever made
    Authors,   \* who has one request each in progress at a time
    NoDoc,
    Nothing

ASSUME CellsAssumption ==
    /\ NoDoc \notin Docs
    /\ IsFiniteSet(Cells)

VARIABLES
    \* data_doc_data_cell: the document and the position of each cell
    doc, order,
    \* cells that were given an id; none gets it again
    made,
    \* the request of each author between its two steps
    request,
    \* a request was committed on a position that no longer was right
    torn

vars == <<doc, order, made, request, torn>>

Rows(d) == {c \in Cells : doc[c] = d}
Length(d) == Cardinality(Rows(d))

Operations ==
    [kind: {"insert"}, doc: Docs, cell: Cells, index: Nat]
    \cup [kind: {"delete"}, doc: Docs, cell: Cells, index: Int]
    \cup [kind: {"move"}, doc: Docs, from: Nat, to: Nat]
    \cup [kind: {"paste"}, source: Docs, doc: Docs, cell: Cells, from: Int,
          index: Int]

\* A move is only accepted with indices that exist, a cell is only in a
\* document after it was made: the assertions of the requests.
TypeOK ==
    /\ doc \in [Cells -> Docs \cup {NoDoc}]
    /\ order \in [Cells -> Int]
    /\ made \subseteq Cells
    /\ request \in [Authors -> Operations \cup {Nothing}]
    /\ torn \in BOOLEAN
    /\ \A c \in Cells : doc[c] # NoDoc => c \in made

Init ==
    /\ doc = [c \in Cells |-> NoDoc]
    /\ order = [c \in Cells |-> 0]
    /\ made = {}
    /\ request = [a \in Authors |-> Nothing]
    /\ torn = FALSE

-----------------------------------------------------------------------------
(* What a request reads and asserts *)

Accept(a, operation) ==
    /\ request[a] = Nothing
    /\ request' = [request EXCEPT ![a] = operation]
    /\ UNCHANGED <<doc, order, torn>>

\* insert_data_doc_cell of a new cell; a copy is pasted the same way.
ReadInsert(a, d, c, i) ==
    /\ c \notin made
    /\ made' = made \cup {c}
    /\ i \in 0 .. Length(d)
    /\ Accept(a, [kind |-> "insert", doc |-> d, cell |-> c, index |-> i])

\* delete_data_doc_cell
ReadDelete(a, d, c) ==
    /\ doc[c] = d
    /\ UNCHANGED made
    /\ Accept(a, [kind |-> "delete", doc |-> d, cell |-> c,
                  index |-> order[c]])

\* move_data_doc_cell
Movable(d, from, to) ==
    /\ from # to
    /\ from \in 0 .. Length(d) - 1
    /\ to \in 0 .. Length(d) - 1

ReadMove(a, d, from, to) ==
    /\ Movable(d, from, to)
    /\ UNCHANGED made
    /\ Accept(a, [kind |-> "move", doc |-> d, from |-> from, to |-> to])

\* Broken variant: the special case of moving down is forgotten.
PasteAt(from, i) == i

\* Where a cell of the same document goes when it is to be ABOVE the cell at
\* the index i.
PasteTo(from, i) == IF from < i THEN i - 1 ELSE i

\* move_data_doc_cell_to_doc: within a document it is a move.
ReadPasteWithin(a, d, c, i) ==
    /\ doc[c] = d
    /\ Movable(d, order[c], PasteTo(order[c], i))
    /\ UNCHANGED made
    /\ Accept(a, [kind |-> "paste", source |-> d, doc |-> d, cell |-> c,
                  from |-> order[c], index |-> i])

\* From another document; nothing bounds the index.
ReadPaste(a, d, c, i) ==
    /\ doc[c] \in Docs \ {d}
    /\ UNCHANGED made
    /\ Accept(a, [kind |-> "paste", source |-> doc[c], doc |-> d, cell |-> c,
                  from |-> order[c], index |-> i])

-----------------------------------------------------------------------------
(* What it writes *)

\* An UPDATE that adds to the cell_order of the rows in S.
Shift(S, by) == [c \in Cells |-> IF c \in S THEN order[c] + by ELSE order[c]]

\* The positions that the request relies on are no longer those it read.
Misplaced(o) ==
    CASE o.kind = "insert" -> o.index > Length(o.doc)
      [] o.kind = "delete" -> doc[o.cell] # o.doc \/ order[o.cell] # o.index
      [] o.kind = "move" -> {o.from, o.to} \cap (0 .. Length(o.doc) - 1)
                              # {o.from, o.to}
      [] o.kind = "paste" ->
            \/ doc[o.cell] # o.source \/ order[o.cell] # o.from
            \/ o.index \notin 0 .. Length(o.doc)
            \/ o.source = o.doc /\ PasteTo(o.from, o.index) >= Length(o.doc)

Commit(a, kind) ==
    /\ request[a] # Nothing
    /\ request[a].kind = kind
    /\ request' = [request EXCEPT ![a] = Nothing]
    /\ torn' = (torn \/ Misplaced(request[a]))
    /\ UNCHANGED made

CommitInsert(a) ==
    LET o == request[a]
    IN  /\ Commit(a, "insert")
        /\ doc' = [doc EXCEPT ![o.cell] = o.doc]
        /\ order' = [Shift({c \in Rows(o.doc) : order[c] >= o.index}, 1)
                        EXCEPT ![o.cell] = o.index]

\* Broken variant: the cells below stay where they are.
CommitDeleteOnly(a) ==
    LET o == request[a]
    IN  /\ Commit(a, "delete")
        /\ doc' = [doc EXCEPT ![o.cell] = NoDoc]
        /\ order' = [order EXCEPT ![o.cell] = 0]

\* The row is deleted by its id, wherever it is by now; a row that is gone
\* already is only warned about, and the cells below are shifted again.
CommitDelete(a) ==
    LET o == request[a]
        below == {c \in Rows(o.doc) \ {o.cell} : order[c] > o.index}
    IN  /\ Commit(a, "delete")
        /\ doc' = [doc EXCEPT ![o.cell] = NoDoc]
        /\ order' = [Shift(below, -1) EXCEPT ![o.cell] = 0]

\* The row at from is parked at -1, the rows between close the gap, and what
\* is at -1 goes to the place to.
Moved(d, from, to) ==
    [c \in Cells |->
        IF doc[c] # d THEN order[c]
        ELSE IF order[c] \in {from, -1} THEN to
        ELSE IF order[c] > from /\ order[c] <= to THEN order[c] - 1
        ELSE IF order[c] >= to /\ order[c] < from THEN order[c] + 1
        ELSE order[c]]

CommitMove(a) ==
    LET o == request[a]
    IN  /\ Commit(a, "move")
        /\ order' = Moved(o.doc, o.from, o.to)
        /\ UNCHANGED doc

CommitPasteWithin(a) ==
    LET o == request[a]
    IN  /\ Commit(a, "paste")
        /\ o.source = o.doc
        /\ order' = Moved(o.doc, o.from, PasteTo(o.from, o.index))
        /\ UNCHANGED doc

\* Both documents are shifted, and the row is changed by its id; the ORM
\* leaves cell_order out of that UPDATE when the new index equals the
\* position it has loaded.
CommitPaste(a) ==
    LET o == request[a]
        left == {c \in Rows(o.source) : order[c] > o.from}
        pushed == {c \in Rows(o.doc) : order[c] >= o.index}
        shifted == [c \in Cells |-> IF c \in left THEN order[c] - 1
                                    ELSE IF c \in pushed THEN order[c] + 1
                                    ELSE order[c]]
    IN  /\ Commit(a, "paste")
        /\ o.source # o.doc
        /\ doc[o.cell] # NoDoc
        /\ doc' = [doc EXCEPT ![o.cell] = o.doc]
        /\ order' = IF o.index = o.from THEN shifted
                    ELSE [shifted EXCEPT ![o.cell] = o.index]

\* The UPDATE of a row that is gone raises, and the transaction is rolled
\* back.
RollBackPaste(a) ==
    /\ request[a] # Nothing
    /\ request[a].kind = "paste"
    /\ request[a].source # request[a].doc
    /\ doc[request[a].cell] = NoDoc
    /\ request' = [request EXCEPT ![a] = Nothing]
    /\ UNCHANGED <<doc, order, made, torn>>

-----------------------------------------------------------------------------

\* The indices that clients send, stale ones and ones off the list included.
Indices == -1 .. Cardinality(Cells)

Next ==
    \E a \in Authors :
        \/ \E d \in Docs, c \in Cells, i \in Indices : ReadInsert(a, d, c, i)
        \/ \E d \in Docs, c \in Cells : ReadDelete(a, d, c)
        \/ \E d \in Docs, from, to \in Indices : ReadMove(a, d, from, to)
        \/ \E d \in Docs, c \in Cells, i \in Indices :
              ReadPasteWithin(a, d, c, i)
        \/ \E d \in Docs, c \in Cells, i \in Indices : ReadPaste(a, d, c, i)
        \/ CommitInsert(a)
        \/ CommitDelete(a)
        \/ CommitMove(a)
        \/ CommitPasteWithin(a)
        \/ CommitPaste(a)
        \/ RollBackPaste(a)

Spec == Init /\ [][Next]_vars

-----------------------------------------------------------------------------
(* What the order promises *)

\* The positions of a document's cells are 0, 1, 2, ... without a gap or a
\* duplicate.  Inserts and moves of several authors may overlap as they like;
\* only a delete or a paste of a cell that moved meanwhile, or an index that
\* fell off the end of a document, tears the order.
Contiguous ==
    ~torn => \A d \in Docs :
                {order[c] : c \in Rows(d)} = 0 .. Length(d) - 1

Listing ==
    [d \in Docs |->
        [i \in 1 .. Length(d) |-> CHOOSE c \in Rows(d) : order[c] = i - 1]]

List == INSTANCE DataDocList WITH cells <- Listing

\* The list operation that a request stands for.
Promised(o) ==
    CASE o.kind = "insert" -> List!LInsert(o.doc, o.index, o.cell)
      [] o.kind = "delete" -> List!LDelete(o.doc, o.cell)
      [] o.kind = "move" -> List!LMove(o.doc, o.from, o.to)
      [] o.kind = "paste" ->
            List!LPaste(o.source, o.cell, o.doc, o.index)

\* Shifting positions is the list operation that the author asked for: an
\* insert above the cell at the index, a move to the index, a paste above.
RequestsAreListOperations ==
    [][~torn' =>
          \A a \in Authors :
              request[a] # Nothing /\ request'[a] = Nothing /\ ~UNCHANGED order
                  => Promised(request[a])]_vars

=============================================================================
