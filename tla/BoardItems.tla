----------------------------- MODULE BoardItems -----------------------------
(***************************************************************************)
(* The items of one board (list): the rows of the server (logic/board.py)  *)
(* and the list that one page shows (redux/board), which is changed once   *)
(* the server has answered.  A thing that is listed is <<kind, number>>.   *)
(***************************************************************************)
EXTENDS Integers, Sequences, FiniteSets

CONSTANTS
    Things,
    Listed,         \* the things listed when the page fetched the board
    MaxCalls        \* bound

VARIABLES
    rows,           \* board_item: id, thing, order
    items,          \* board.items of the page
    itemById,       \* boardItemById of the page
    calls,          \* under way: sent, read by an add, or done by the server
    made,           \* calls made, rows made
    astray          \* since the last fetch of a plain board: overlap, when
                    \* calls overlapped or an answer was lost, and query, when
                    \* one was removed

bvars == <<rows, items, itemById, calls, made, astray>>

\* The orders have gaps, where items were deleted.
Init ==
    /\ rows = {[id |-> i, thing |-> Listed[i], order |-> 2 * i - 1] : i \in DOMAIN Listed}
    /\ items = [i \in DOMAIN Listed |-> i]
    /\ itemById = Listed
    /\ calls = {}
    /\ made = [calls |-> 0, rows |-> Len(Listed)]
    /\ astray = {}

-----------------------------------------------------------------------------
(* The page sends *)

Send(op, args) ==
    /\ made.calls < MaxCalls
    /\ made' = [made EXCEPT !.calls = @ + 1]
    /\ calls' = calls \cup
          {[id |-> made.calls + 1, op |-> op, args |-> args, phase |-> "sent",
            order |-> 0, added |-> 0, board |-> <<>>, alone |-> calls = {}]}
    /\ astray' = astray \cup {"overlap" : c \in calls}
    /\ UNCHANGED <<rows, items, itemById>>

AddBoardItem(t) == Send("add", <<t>>)

MoveBoardItem(i, j) == i # j /\ Send("move", <<i, j>>)

DeleteBoardItem(t) == Send("delete", <<t>>)

FetchBoard == Send("fetch", <<>>)

-----------------------------------------------------------------------------
(* The server *)

Before(a, b) == a.order < b.order \/ (a.order = b.order /\ a.id < b.id)

\* items, by item_order
BoardOrder(rs) ==
    [k \in 1 .. Cardinality(rs) |->
       CHOOSE r \in rs : Cardinality({s \in rs : Before(s, r)}) = k - 1]

Ids(list) == [k \in DOMAIN list |-> list[k].id]

Answered(c, d) == calls' = (calls \ {c}) \cup {d}

\* add_item_to_board: an item that is there already is refused
AddReads(c) ==
    /\ c.op = "add"
    /\ c.phase = "sent"
    /\ \A r \in rows : r.thing # c.args[1]
    /\ \E highest \in {r.order : r \in rows} \cup {0} :
          /\ \A r \in rows : r.order <= highest
          /\ Answered(c, [c EXCEPT !.phase = "read", !.order = highest + 1])
    /\ UNCHANGED <<rows, items, itemById, made, astray>>

AddCommits(c) ==
    /\ c.phase = "read"
    /\ made' = [made EXCEPT !.rows = @ + 1]
    /\ rows' = rows \cup {[id |-> made'.rows, thing |-> c.args[1], order |-> c.order]}
    /\ Answered(c, [c EXCEPT !.phase = "done", !.added = made'.rows])
    /\ UNCHANGED <<items, itemById, astray>>

\* Broken variant: the items between are shifted one too few.
ShiftedShort(r, from, to) ==
    IF r = from THEN to.order
    ELSE IF from.order < r.order /\ r.order < to.order THEN r.order - 1
    ELSE IF to.order <= r.order /\ r.order < from.order THEN r.order + 1
    ELSE r.order

\* move_item_order: the order that a row has afterwards
Shifted(r, from, to) ==
    IF r = from THEN to.order
    ELSE IF from.order < r.order /\ r.order <= to.order THEN r.order - 1
    ELSE IF to.order <= r.order /\ r.order < from.order THEN r.order + 1
    ELSE r.order

Move(c) ==
    /\ c.op = "move"
    /\ c.phase = "sent"
    /\ LET list == BoardOrder(rows)
       IN  /\ {c.args[1], c.args[2]} \subseteq DOMAIN list
           /\ rows' = {[r EXCEPT !.order = Shifted(r, list[c.args[1]], list[c.args[2]])] :
                         r \in rows}
    /\ Answered(c, [c EXCEPT !.phase = "done"])
    /\ UNCHANGED <<items, itemById, made, astray>>

\* remove_item_from_board: nothing, when it is not there; the first one
Delete(c) ==
    /\ c.op = "delete"
    /\ c.phase = "sent"
    /\ LET found == {r \in rows : r.thing = c.args[1]}
       IN  rows' = rows \ {r \in found : \A s \in found : r.id <= s.id}
    /\ Answered(c, [c EXCEPT !.phase = "done"])
    /\ UNCHANGED <<items, itemById, made, astray>>

GetBoard(c) ==
    /\ c.op = "fetch"
    /\ c.phase = "sent"
    /\ Answered(c, [c EXCEPT !.phase = "done", !.board = BoardOrder(rows)])
    /\ UNCHANGED <<rows, items, itemById, made, astray>>

\* refused by an assertion, a lack of permission or a connection lost; the
\* action is left and the page stays as it is
Fails(c) ==
    /\ c.phase \in {"sent", "read"}
    /\ calls' = calls \ {c}
    /\ UNCHANGED <<rows, items, itemById, made, astray>>

LoseAnswer(c) ==
    /\ c.phase = "done"
    /\ calls' = calls \ {c}
    /\ astray' = astray \cup {"overlap"}
    /\ UNCHANGED <<rows, items, itemById, made>>

-----------------------------------------------------------------------------
(* The answer reaches the page *)

Received(c) == calls' = calls \ {c} /\ UNCHANGED <<rows, made>>

\* RECEIVE_BOARD_ITEM asks whether the id is an index of the list.
ReceiveBoardItem(c) ==
    /\ c.op = "add"
    /\ c.phase = "done"
    /\ itemById' = [i \in DOMAIN itemById \cup {c.added} |->
                      IF i = c.added THEN c.args[1] ELSE itemById[i]]
    /\ items' = IF c.added < Len(items) THEN items ELSE Append(items, c.added)
    /\ UNCHANGED astray
    /\ Received(c)

\* The field of an item that REMOVE_BOARD_ITEM compares: a query is looked for
\* among the boards.
Field(kind) == IF kind = "query" THEN "board" ELSE kind

\* items.filter
Without(list, gone) ==
    Ids(BoardOrder({[id |-> list[k], order |-> k] :
                       k \in {j \in DOMAIN list : list[j] \notin gone}}))

RemoveBoardItem(c) ==
    /\ c.op = "delete"
    /\ c.phase = "done"
    /\ LET t == c.args[1]
           gone == {i \in DOMAIN itemById : itemById[i] = <<Field(t[1]), t[2]>>}
       IN  /\ itemById' = [i \in DOMAIN itemById \ gone |-> itemById[i]]
           /\ items' = Without(items, gone)
           /\ astray' = astray \cup {k \in {"query"} : t[1] = k}
    /\ Received(c)

\* arrayMove: what is not in the list is undefined, 0.
ArrayMoved(list, from, to) ==
    LET moves == from \in DOMAIN list
        rest == [k \in 1 .. (IF moves THEN Len(list) - 1 ELSE Len(list)) |->
                    IF k < from THEN list[k] ELSE list[k + 1]]
        at == IF to <= Len(rest) THEN to ELSE Len(rest) + 1
    IN  [k \in 1 .. Len(rest) + 1 |->
            IF k < at THEN rest[k]
            ELSE IF k > at THEN rest[k - 1]
            ELSE IF moves THEN list[from] ELSE 0]

MoveItem(c) ==
    /\ c.op = "move"
    /\ c.phase = "done"
    /\ items' = ArrayMoved(items, c.args[1], c.args[2])
    /\ UNCHANGED <<itemById, astray>>
    /\ Received(c)

\* Plain rows: neither an item twice nor two in one place
Plain(rs) == \A r, s \in rs : r.order = s.order \/ r.thing = s.thing => r = s

ReceiveBoardWithItems(c) ==
    /\ c.op = "fetch"
    /\ c.phase = "done"
    /\ LET listed == {c.board[k] : k \in DOMAIN c.board}
       IN  /\ items' = Ids(c.board)
           /\ itemById' = [i \in DOMAIN itemById \cup {r.id : r \in listed} |->
                             IF \E r \in listed : r.id = i
                             THEN (CHOOSE r \in listed : r.id = i).thing
                             ELSE itemById[i]]
           /\ astray' = IF c.alone /\ c.id = made.calls /\ Plain(listed) THEN {}
                        ELSE astray
    /\ Received(c)

Next ==
    \/ \E t \in Things : AddBoardItem(t) \/ DeleteBoardItem(t)
    \/ \E i, j \in DOMAIN items : MoveBoardItem(i, j)
    \/ FetchBoard
    \/ \E c \in calls :
          \/ AddReads(c) \/ AddCommits(c) \/ Move(c) \/ Delete(c) \/ GetBoard(c)
          \/ Fails(c) \/ LoseAnswer(c)
          \/ ReceiveBoardItem(c) \/ RemoveBoardItem(c) \/ MoveItem(c)
          \/ ReceiveBoardWithItems(c)

Spec == Init /\ [][Next]_bvars

-----------------------------------------------------------------------------

\* With no call under way the page lists what the server lists, in its order,
\* although each computes moves in its own way, the server over orders with
\* gaps.  It need not when calls overlapped (two adds read the same highest
\* order, or both add the same thing, and answers come in any order), an
\* answer was lost or a query was removed, until the board is fetched again
\* without an item that is there twice or two that have one place.
PageListsTheBoard ==
    calls = {} /\ astray = {} => items = Ids(BoardOrder(rows))

=============================================================================
