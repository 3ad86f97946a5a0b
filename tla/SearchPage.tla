----------------------------- MODULE SearchPage -----------------------------
(***************************************************************************)
(* The search page (redux/search): a search is a model value that stands   *)
(* for its type, text, filters, fields and order.  An answer carries the   *)
(* search and the page it was asked for.                                   *)
(***************************************************************************)
EXTENDS Naturals

CONSTANTS
    Searches,
    Unsent,         \* the searches that are not performed: queries, no filter
    Pages,
    MaxSent,        \* bound: requests
    None

VARIABLES
    search, currentPage, resultByPage, searchRequest,
    out,            \* requests under way
    sent,           \* requests sent
    failed          \* the requests that failed

svars == <<search, currentPage, resultByPage, searchRequest, out, sent, failed>>

Init ==
    /\ search \in Unsent
    /\ currentPage = 0
    /\ resultByPage = << >>
    /\ searchRequest = None
    /\ out = {}
    /\ sent = 0
    /\ failed = {}

\* Broken variant: the search before is not cancelled.
PerformBoth(s, p) ==
    IF s \in Unsent THEN UNCHANGED <<searchRequest, out, sent>>
    ELSE LET r == [id |-> sent + 1, search |-> s, page |-> p]
         IN  /\ sent < MaxSent
             /\ sent' = sent + 1
             /\ searchRequest' = r.id
             /\ out' = out \cup {r}

\* performSearch.  A cancelled request fails in silence: no reducer knows
\* SEARCH_FAILED.
Perform(s, p) ==
    IF s \in Unsent THEN UNCHANGED <<searchRequest, out, sent>>
    ELSE LET r == [id |-> sent + 1, search |-> s, page |-> p]
         IN  /\ sent < MaxSent
             /\ sent' = sent + 1
             /\ searchRequest' = r.id
             /\ out' = {q \in out : q.id # searchRequest} \cup {r}

\* updateSearchString, updateSearchFilter, updateSearchField,
\* updateSearchOrder, updateSearchType, updateUseVectorSearch
Update(s) ==
    /\ search' = s
    /\ currentPage' = 0
    /\ resultByPage' = << >>
    /\ Perform(s, 0)
    /\ UNCHANGED failed

\* mapQueryParamToState: the page was opened by a link
Open(s, p) ==
    /\ search' = s
    /\ currentPage' = p
    /\ resultByPage' = << >>
    /\ Perform(s, p)
    /\ UNCHANGED failed

MoveToPage(p) ==
    /\ currentPage' = p
    /\ IF p \in DOMAIN resultByPage THEN UNCHANGED <<searchRequest, out, sent>>
       ELSE Perform(search, p)
    /\ UNCHANGED <<search, resultByPage, failed>>

Done(r) ==
    /\ out' = out \ {r}
    /\ searchRequest' = None
    /\ resultByPage' = [p \in DOMAIN resultByPage \cup {r.page} |->
                           IF p = r.page THEN r.search ELSE resultByPage[p]]
    /\ UNCHANGED <<search, currentPage, sent, failed>>

Fails(r) ==
    /\ out' = out \ {r}
    /\ failed' = failed \cup {r.id}
    /\ UNCHANGED <<search, currentPage, resultByPage, searchRequest, sent>>

Next ==
    \/ \E s \in Searches : Update(s) \/ \E p \in Pages : Open(s, p)
    \/ \E p \in Pages : MoveToPage(p)
    \/ \E r \in out : Done(r) \/ Fails(r)

Spec == Init /\ [][Next]_svars

-----------------------------------------------------------------------------

\* The results on the page are those of the search in its fields, on every
\* page visited, and the page that waits for an answer waits for one that is
\* to come.  A search that is not performed is the exception, as it does not
\* cancel the one before; so is a request that failed, which is never cleared.
ResultsBelongToTheSearch ==
    /\ search \notin Unsent =>
          \A p \in DOMAIN resultByPage : resultByPage[p] = search
    /\ searchRequest \notin {None} \cup failed =>
          \E r \in out : r.id = searchRequest

=============================================================================
