--------------------------- MODULE TableNavigator ---------------------------
(***************************************************************************)
(* The table navigator (redux/dataTableSearch): the tables that match a    *)
(* search and the schemas in an order, both loaded in batches as the user  *)
(* scrolls.  A batch is the search (or order) it was asked for and its     *)
(* number in the list of the server.                                       *)
(***************************************************************************)
EXTENDS Naturals, Sequences

CONSTANTS
    Searches,       \* text, filters, table order and metastore
    InitialSearch,
    Orders,         \* of schemas
    DefaultOrder,
    Batches,        \* the length of the server's lists
    MaxSent,        \* bound: requests
    None

VARIABLES
    search, tables, count, searchRequest, order, schemas,
    out,            \* requests under way
    sent,
    stray           \* tables, schemas: a list was reset under a request;
                    \* twice: schemas were asked for while others were

tvars == <<search, tables, count, searchRequest, order, schemas, out, sent, stray>>

Init ==
    /\ search = InitialSearch
    /\ tables = <<>>
    /\ count = 0
    /\ searchRequest = None
    /\ order = DefaultOrder
    /\ schemas = <<>>
    /\ out = {}
    /\ sent = 0
    /\ stray = {}

Request(kind, of, offset) ==
    [id |-> sent + 1, kind |-> kind, of |-> of, batch |-> offset + 1]

SchemasUnderWay == {"schemas" : r \in {q \in out : q.kind = "schemas"}}

\* searchDataTable, after each change of the search.  It resets the
\* schemas and their order, too.
SearchDataTable(s) ==
    /\ sent < MaxSent
    /\ sent' = sent + 1
    /\ search' = s
    /\ tables' = <<>>
    /\ count' = 0
    /\ order' = DefaultOrder
    /\ schemas' = <<>>
    /\ searchRequest' = sent + 1
    /\ out' = {r \in out : r.id # searchRequest} \cup {Request("first", s, 0)}
    /\ stray' = stray \cup SchemasUnderWay

\* Broken variant: the answer to the same batch may still come.
GetMoreBoth ==
    /\ Len(tables) < count
    /\ sent < MaxSent
    /\ sent' = sent + 1
    /\ searchRequest' = sent + 1
    /\ out' = out \cup {Request("more", search, Len(tables))}
    /\ UNCHANGED <<search, tables, count, order, schemas, stray>>

GetMoreDataTable ==
    /\ Len(tables) < count
    /\ sent < MaxSent
    /\ sent' = sent + 1
    /\ searchRequest' = sent + 1
    /\ out' = {r \in out : r.id # searchRequest}
                \cup {Request("more", search, Len(tables))}
    /\ UNCHANGED <<search, tables, count, order, schemas, stray>>

\* resetSearch, in an environment without a metastore: nothing is cancelled
ResetSearch ==
    /\ search' = InitialSearch
    /\ tables' = <<>>
    /\ count' = 0
    /\ searchRequest' = None
    /\ order' = DefaultOrder
    /\ schemas' = <<>>
    /\ stray' = stray \cup SchemasUnderWay
                      \cup {"tables" : r \in {q \in out : q.kind # "schemas"}}
    /\ UNCHANGED <<out, sent>>

\* searchSchemas, when the end of the list comes into view.  Nothing looks for
\* a request under way: the same batch may be asked for again.
SearchSchemas ==
    /\ Len(schemas) < Batches
    /\ sent < MaxSent
    /\ sent' = sent + 1
    /\ out' = out \cup {Request("schemas", order, Len(schemas))}
    /\ stray' = stray \cup {"twice" : r \in SchemasUnderWay}
    /\ UNCHANGED <<search, tables, count, searchRequest, order, schemas>>

ChangeSchemasSort(o) ==
    /\ order' = o
    /\ schemas' = <<>>
    /\ stray' = stray \cup SchemasUnderWay
    /\ UNCHANGED <<search, tables, count, searchRequest, out, sent>>

Done(r) ==
    /\ out' = out \ {r}
    /\ CASE r.kind = "first" ->
              /\ tables' = <<<<r.of, 1>>>>
              /\ count' = Batches
              /\ searchRequest' = None
              /\ UNCHANGED schemas
         [] r.kind = "more" ->
              /\ tables' = Append(tables, <<r.of, r.batch>>)
              /\ searchRequest' = None
              /\ UNCHANGED <<count, schemas>>
         [] r.kind = "schemas" ->
              /\ schemas' = Append(schemas, <<r.of, r.batch>>)
              /\ UNCHANGED <<tables, count, searchRequest>>
    /\ UNCHANGED <<search, order, sent, stray>>

Fails(r) ==
    /\ out' = out \ {r}
    /\ UNCHANGED <<search, tables, count, searchRequest, order, schemas, sent, stray>>

Next ==
    \/ \E s \in Searches : SearchDataTable(s)
    \/ GetMoreDataTable \/ ResetSearch
    \/ SearchSchemas
    \/ \E o \in Orders : ChangeSchemasSort(o)
    \/ \E r \in out : Done(r) \/ Fails(r)

Spec == Init /\ [][Next]_tvars

-----------------------------------------------------------------------------

ListOf(list, x) == list = [i \in DOMAIN list |-> <<x, i>>]

\* The tables listed are a prefix of those that match the search, none twice
\* and none left out, whatever answer is slow, fails or was asked for twice.
\* The schemas listed are of their order and never ahead of their place; they
\* are a prefix, too, as long as none was asked for while others were on their
\* way: nothing prevents that, the batch is then listed twice and the next one
\* is skipped.  A list that was reset while a request that nobody cancels was
\* under way is excepted.
ListsArePrefixes ==
    /\ "tables" \in stray \/ ListOf(tables, search)
    /\ "schemas" \in stray
         \/ \A i \in DOMAIN schemas : schemas[i][1] = order /\ schemas[i][2] \in 1..i
    /\ stray \cap {"schemas", "twice"} # {} \/ ListOf(schemas, order)

=============================================================================
