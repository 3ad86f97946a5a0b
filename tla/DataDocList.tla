---------------------------- MODULE DataDocList ----------------------------
(***************************************************************************)
(* What an author of a DataDoc sees: each document is a list of cells, and *)
(* an operation on it is an operation on lists.  Indices start at 0, as in *)
(* the requests.                                                           *)
(***************************************************************************)
EXTENDS Integers, Sequences

CONSTANTS Docs, Cells

VARIABLE cells  \* of each document, its cells from top to bottom

InsertAt(s, i, c) == SubSeq(s, 1, i) \o <<c>> \o SubSeq(s, i + 1, Len(s))
RemoveAt(s, i) == SubSeq(s, 1, i) \o SubSeq(s, i + 2, Len(s))
MoveItem(s, from, to) == InsertAt(RemoveAt(s, from), to, s[from + 1])

IndexOf(s, c) == (CHOOSE i \in DOMAIN s : s[i] = c) - 1

LInsert(d, i, c) ==
    cells' = [cells EXCEPT ![d] = InsertAt(@, i, c)]

LDelete(d, c) ==
    cells' = [cells EXCEPT ![d] = RemoveAt(@, IndexOf(@, c))]

LMove(d, from, to) ==
    cells' = [cells EXCEPT ![d] = MoveItem(@, from, to)]

\* The cell is put ABOVE the cell at index i, which counts the cell itself
\* when it already was in the document.
LPaste(source, c, d, i) ==
    LET from == IndexOf(cells[source], c)
    IN  IF source = d
        THEN LMove(d, from, IF from < i THEN i - 1 ELSE i)
        ELSE cells' = [cells EXCEPT ![source] = RemoveAt(@, from),
                                    ![d] = InsertAt(@, i, c)]

=============================================================================
