-------------------------- MODULE StatementResults --------------------------
(***************************************************************************)
(* The rows of one statement's result as the page loads them: fetchResult  *)
(* and the reducers that it reads and writes.  The statement's own view    *)
(* asks for as many rows as are shown, charts and exports for theirs.      *)
(***************************************************************************)
EXTENDS Naturals

CONSTANTS
    Limits,         \* numbers of rows that are asked for
    MaxRequests,    \* bound
    None

VARIABLES
    result,         \* statementResultById of the statement
    loading,        \* statementResultLoadingById of the statement
    out,            \* the requests that are under way
    requests,       \* how many were sent
    strayed         \* a request under way lost its entry in `loading`

rvars == <<result, loading, out, requests, strayed>>

Init ==
    /\ result = None
    /\ loading = None
    /\ out = {}
    /\ requests = 0
    /\ strayed = FALSE

\* Broken variant: only a result of the very size is reused.
LoadedExactly(n) == result # None /\ ~result.failed /\ result.limit = n

Loaded(n) == result # None /\ ~result.failed /\ result.limit >= n

\* A failed load of as many rows hides that some are being loaded.
Hidden(n) == result # None /\ result.failed /\ result.limit >= n

Failed(n) == IF result # None /\ ~result.failed THEN result
             ELSE [limit |-> n, failed |-> TRUE]

Send(n) == [id |-> requests + 1, limit |-> n]

Fetch(n) ==
    /\ requests < MaxRequests
    /\ ~Loaded(n)
    /\ loading = None \/ Hidden(n)
    /\ requests' = requests + 1
    /\ out' = out \cup {Send(n)}
    /\ loading' = Send(n)
    /\ strayed' = (strayed \/ loading # None)
    /\ UNCHANGED result

\* A request for fewer rows is cancelled.  Its catch runs as soon as the next
\* one was sent: the failure it reports deletes the entry of the next one.
FetchMore(n) ==
    /\ requests < MaxRequests
    /\ ~Loaded(n)
    /\ ~Hidden(n)
    /\ loading # None
    /\ loading.limit < n
    /\ requests' = requests + 1
    /\ out' = (out \ {loading}) \cup {Send(n)}
    /\ result' = Failed(loading.limit)
    /\ loading' = None
    /\ strayed' = TRUE

\* RECEIVE_RESULT deletes the entry, whosever it is.
Answers(r) ==
    /\ result' = [limit |-> r.limit, failed |-> FALSE]
    /\ loading' = None
    /\ out' = out \ {r}
    /\ UNCHANGED <<requests, strayed>>

Fails(r) ==
    /\ result' = Failed(r.limit)
    /\ loading' = None
    /\ out' = out \ {r}
    /\ UNCHANGED <<requests, strayed>>

Next ==
    \/ \E n \in Limits : Fetch(n) \/ FetchMore(n)
    \/ \E r \in out : Answers(r) \/ Fails(r)

Spec == Init /\ [][Next]_rvars

-----------------------------------------------------------------------------

\* Rows that were loaded stay loaded: neither a failure nor a later answer
\* replaces a result by less.  It may once a request lost its entry, which
\* lets a request for fewer rows be sent beside it.
NeverShrinks ==
    [][result # None /\ ~result.failed =>
          ~result'.failed /\ (result'.limit >= result.limit \/ strayed)]_rvars

=============================================================================
