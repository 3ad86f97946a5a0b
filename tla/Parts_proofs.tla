---------------------------- MODULE Parts_proofs ----------------------------
(***************************************************************************)
(* Theorems about the parts of the page and of the server's tasks, for     *)
(* every value of their constants.  A step of Parts is a step of one part, *)
(* so that each of them runs as its own specification says.                *)
(***************************************************************************)
EXTENDS Parts, FiniteSetTheorems, SequenceTheorems, WellFoundedInduction, TLAPS

\* A step of one part leaves the variables of the others alone.
LEMMA PartsStepByThemselves ==
    ASSUME [Next]_vars
    PROVE  /\ [Kernel!Next]_Kernel!kvars
           /\ [Results!Next]_Results!rvars
           /\ [Search!Next]_Search!svars
           /\ [Navigator!Next]_Navigator!tvars
           /\ [Board!Next]_Board!bvars
           /\ [Cell!Next]_Cell!cvars
           /\ [Debounce!Next]_Debounce!dvars
           /\ [Editor!Next]_Editor!evars
           /\ [Beat!Next]_Beat!bvars
           /\ [Tasks!Next]_Tasks!dvars
           /\ [DocRun!Next]_DocRun!rvars
<1> USE DEF pageVars, serverVars, kernelVars, resultVars, searchVars, tableVars,
            boardVars, cellVars, debounceVars, editorVars, beatVars, taskVars,
            runVars
<1>1. CASE KernelNext
  BY <1>1 DEF KernelNext, Results!rvars, Search!svars, Navigator!tvars, Board!bvars,
              Cell!cvars, Debounce!dvars, Editor!evars, Beat!bvars, Tasks!dvars,
              DocRun!rvars
<1>2. CASE ResultsNext
  BY <1>2 DEF ResultsNext, Kernel!kvars, Search!svars, Navigator!tvars, Board!bvars, Cell!cvars,
              Debounce!dvars, Editor!evars, Beat!bvars, Tasks!dvars, DocRun!rvars
<1>3. CASE SearchNext
  BY <1>3 DEF SearchNext, Kernel!kvars, Results!rvars, Navigator!tvars, Board!bvars,
              Cell!cvars, Debounce!dvars, Editor!evars, Beat!bvars, Tasks!dvars,
              DocRun!rvars
<1>4. CASE NavigatorNext
  BY <1>4 DEF NavigatorNext, Kernel!kvars, Results!rvars, Search!svars, Board!bvars, Cell!cvars,
              Debounce!dvars, Editor!evars, Beat!bvars, Tasks!dvars, DocRun!rvars
<1>5. CASE BoardNext
  BY <1>5 DEF BoardNext, Kernel!kvars, Results!rvars, Search!svars, Navigator!tvars,
              Cell!cvars, Debounce!dvars, Editor!evars, Beat!bvars, Tasks!dvars,
              DocRun!rvars
<1>6. CASE CellNext
  BY <1>6 DEF CellNext, Kernel!kvars, Results!rvars, Search!svars, Navigator!tvars,
              Board!bvars, Debounce!dvars, Editor!evars, Beat!bvars, Tasks!dvars,
              DocRun!rvars
<1>7. CASE DebounceNext
  BY <1>7 DEF DebounceNext, Kernel!kvars, Results!rvars, Search!svars, Navigator!tvars,
              Board!bvars, Cell!cvars, Editor!evars, Beat!bvars, Tasks!dvars,
              DocRun!rvars
<1>8. CASE EditorNext
  BY <1>8 DEF EditorNext, Kernel!kvars, Results!rvars, Search!svars, Navigator!tvars,
              Board!bvars, Cell!cvars, Debounce!dvars, Beat!bvars, Tasks!dvars,
              DocRun!rvars
<1>9. CASE BeatNext
  BY <1>9 DEF BeatNext, Kernel!kvars, Results!rvars, Search!svars, Navigator!tvars,
              Board!bvars, Cell!cvars, Debounce!dvars, Editor!evars, Tasks!dvars,
              DocRun!rvars
<1>10. CASE TasksNext
  BY <1>10 DEF TasksNext, Kernel!kvars, Results!rvars, Search!svars, Navigator!tvars,
              Board!bvars, Cell!cvars, Debounce!dvars, Editor!evars, Beat!bvars,
              DocRun!rvars
<1>11. CASE DocRunNext
  BY <1>11 DEF DocRunNext, Kernel!kvars, Results!rvars, Search!svars, Navigator!tvars,
              Board!bvars, Cell!cvars, Debounce!dvars, Editor!evars, Beat!bvars,
              Tasks!dvars
<1>12. CASE SqlNext
  BY <1>12 DEF SqlNext, Kernel!kvars, Results!rvars, Search!svars, Navigator!tvars,
              Board!bvars, Cell!cvars, Debounce!dvars, Editor!evars, Beat!bvars,
              Tasks!dvars, DocRun!rvars
<1>13. CASE UNCHANGED vars
  BY <1>13 DEF vars, Kernel!kvars, Results!rvars, Search!svars, Navigator!tvars,
              Board!bvars, Cell!cvars, Debounce!dvars, Editor!evars, Beat!bvars,
              Tasks!dvars, DocRun!rvars
<1> QED BY <1>1, <1>2, <1>3, <1>4, <1>5, <1>6, <1>7, <1>8, <1>9, <1>10, <1>11,
           <1>12, <1>13 DEF Next

\* Each part runs as its own specification says.
LEMMA PartsRunByThemselves ==
    Spec => /\ Kernel!Spec
            /\ Results!Spec
            /\ Search!Spec
            /\ Navigator!Spec
            /\ Board!Spec
            /\ Cell!Spec
            /\ Debounce!Spec
            /\ Editor!Spec
            /\ Beat!Spec
            /\ Tasks!Spec
            /\ DocRun!Spec
<1>1. Init => /\ Kernel!Init
              /\ Results!Init
              /\ Search!Init
              /\ Navigator!Init
              /\ Board!Init
              /\ Cell!Init
              /\ Debounce!Init
              /\ Editor!Init
              /\ Beat!Init
              /\ Tasks!Init
              /\ DocRun!Init
  BY DEF Init
<1>2. [Next]_vars => /\ [Kernel!Next]_Kernel!kvars
                     /\ [Results!Next]_Results!rvars
                     /\ [Search!Next]_Search!svars
                     /\ [Navigator!Next]_Navigator!tvars
                     /\ [Board!Next]_Board!bvars
                     /\ [Cell!Next]_Cell!cvars
                     /\ [Debounce!Next]_Debounce!dvars
                     /\ [Editor!Next]_Editor!evars
                     /\ [Beat!Next]_Beat!bvars
                     /\ [Tasks!Next]_Tasks!dvars
                     /\ [DocRun!Next]_DocRun!rvars
  BY PartsStepByThemselves
<1> QED BY <1>1, <1>2, PTL DEF Spec, Kernel!Spec, Results!Spec, Search!Spec,
                              Navigator!Spec, Board!Spec, Cell!Spec, Debounce!Spec,
                              Editor!Spec, Beat!Spec, Tasks!Spec, DocRun!Spec

-----------------------------------------------------------------------------
(* StatementResults: as long as no request lost its entry in the store, the
   one under way is the one of the entry and asks for more rows than are
   there. *)

ResultsTyped ==
    /\ requests \in Nat
    /\ result = None \/ result \in [limit : Nat, failed : BOOLEAN]
    /\ loading = None \/ loading \in [id : Nat, limit : Nat]
    /\ fetches \subseteq [id : Nat, limit : Nat]
    /\ strayed \in BOOLEAN

OneFetchUnderWay ==
    ~strayed => /\ loading = None => fetches = {}
                /\ \A r \in fetches : r = loading

AsksForMore ==
    ~strayed /\ result # None /\ ~result.failed =>
        \A r \in fetches : r.limit > result.limit

ResultsInv == ResultsTyped /\ OneFetchUnderWay /\ AsksForMore

Shrinks ==
    /\ result # None
    /\ ~result.failed
    /\ ~(~result'.failed /\ (result'.limit >= result.limit \/ strayed))

\* What an answer, a failure or another request does to the invariant.
LEMMA FetchesKeepTheInvariant ==
    ASSUME Limits \subseteq Nat, None \notin [id : Nat, limit : Nat],
           ResultsInv, [Results!Next]_Results!rvars
    PROVE  ResultsInv'
<1> USE DEF ResultsInv, ResultsTyped, OneFetchUnderWay, AsksForMore
<1>1. ASSUME NEW n \in Limits, Results!Fetch(n) PROVE ResultsInv'
  <2>1. n \in Nat /\ Results!Send(n) \in [id : Nat, limit : Nat] /\ Results!Send(n).limit = n
    BY DEF Results!Send
  <2>2. ResultsTyped'
    BY <1>1, <2>1 DEF Results!Fetch
  <2>3. ~strayed' => ~strayed /\ fetches' = {Results!Send(n)} /\ loading' = Results!Send(n)
    BY <1>1 DEF Results!Fetch
  <2>4. OneFetchUnderWay'
    BY <2>1, <2>3
  <2>5. AsksForMore'
    BY <1>1, <2>1, <2>3 DEF Results!Fetch, Results!Loaded
  <2> QED BY <2>2, <2>4, <2>5
<1>2. ASSUME NEW n \in Limits, Results!FetchMore(n) PROVE ResultsInv'
  <2>1. n \in Nat /\ Results!Send(n) \in [id : Nat, limit : Nat]
    BY DEF Results!Send
  <2>2. Results!Failed(loading.limit) \in [limit : Nat, failed : BOOLEAN]
    BY <1>2 DEF Results!FetchMore, Results!Failed
  <2> QED BY <1>2, <2>1, <2>2 DEF Results!FetchMore
<1>3. ASSUME NEW r \in fetches, Results!Answers(r) PROVE ResultsInv'
  <2>1. ~strayed' => fetches' = {}
    BY <1>3 DEF Results!Answers
  <2> QED BY <1>3, <2>1 DEF Results!Answers
<1>4. ASSUME NEW r \in fetches, Results!Fails(r) PROVE ResultsInv'
  <2>1. ~strayed' => fetches' = {}
    BY <1>4 DEF Results!Fails
  <2> QED BY <1>4, <2>1 DEF Results!Fails, Results!Failed
<1>5. CASE UNCHANGED Results!rvars
  BY <1>5 DEF Results!rvars
<1> QED BY <1>1, <1>2, <1>3, <1>4, <1>5 DEF Results!Next

\* No step replaces the rows that were loaded by fewer or by a failure.
LEMMA NoStepShrinks ==
    ASSUME Limits \subseteq Nat, ResultsInv, [Results!Next]_Results!rvars
    PROVE  ~Shrinks \/ UNCHANGED Results!rvars
<1> USE DEF ResultsInv, ResultsTyped, Shrinks
<1>1. ASSUME NEW n \in Limits, Results!Fetch(n) PROVE ~Shrinks
  BY <1>1 DEF Results!Fetch
<1>2. ASSUME NEW n \in Limits, Results!FetchMore(n) PROVE ~Shrinks
  BY <1>2 DEF Results!FetchMore, Results!Failed
<1>3. ASSUME NEW r \in fetches, Results!Answers(r) PROVE ~Shrinks
  BY <1>3 DEF Results!Answers, AsksForMore
<1>4. ASSUME NEW r \in fetches, Results!Fails(r) PROVE ~Shrinks
  BY <1>4 DEF Results!Fails, Results!Failed
<1> QED BY <1>1, <1>2, <1>3, <1>4 DEF Results!Next, Results!rvars

\* fetchResult: rows that were loaded are not replaced by fewer, for any
\* number of requests that overtake, fail and cancel each other.
THEOREM ResultsOnlyGrow ==
    ASSUME Limits \subseteq Nat, None \notin [id : Nat, limit : Nat]
    PROVE  Spec => NeverShrinks
<1>1. Results!Init => ResultsInv
  <2>1. Results!Init => ResultsTyped
    <3>1. 0 \in Nat
      OBVIOUS
    <3> QED BY <3>1, Zenon DEF Results!Init, ResultsTyped
  <2>2. Results!Init => OneFetchUnderWay /\ AsksForMore
    BY DEF Results!Init, OneFetchUnderWay, AsksForMore
  <2> QED BY <2>1, <2>2 DEF ResultsInv
<1>2. ResultsInv /\ [Results!Next]_Results!rvars => ResultsInv'
  BY FetchesKeepTheInvariant
<1>3. ResultsInv /\ [Results!Next]_Results!rvars =>
        [result # None /\ ~result.failed =>
            ~result'.failed /\ (result'.limit >= result.limit \/ strayed)]_Results!rvars
  BY NoStepShrinks DEF Shrinks
<1> QED BY <1>1, <1>2, <1>3, PartsRunByThemselves, PTL DEF Results!Spec, NeverShrinks, Results!NeverShrinks
-----------------------------------------------------------------------------
(* SearchPage: there is at most one request under way, the one that the page
   remembers, and it is for the search shown, unless that is one that is not
   performed. *)

SearchesTyped ==
    /\ sent \in Nat
    /\ searches \subseteq [id : Nat, search : Searches, page : Pages]

OneSearchUnderWay ==
    /\ \A r \in searches : r.id = searchRequest
    /\ \A r, q \in searches : r = q

ForTheSearchShown == search \notin Unsent => \A r \in searches : r.search = search

SearchInv == SearchesTyped /\ OneSearchUnderWay /\ ForTheSearchShown /\ ResultsBelongToTheSearch

\* A request that is sent takes the place of the one before.
LEMMA PerformReplaces ==
    ASSUME SearchInv, NEW s \in Searches, NEW p \in Pages, Search!Perform(s, p), s \notin Unsent
    PROVE  /\ SearchesTyped'
           /\ OneSearchUnderWay'
           /\ \A r \in searches' : r.search = s
           /\ \E r \in searches' : r.id = searchRequest'
<1> DEFINE r == [id |-> sent + 1, search |-> s, page |-> p]
<1>1. {q \in searches : q.id # searchRequest} = {}
  BY DEF SearchInv, OneSearchUnderWay
<1>2. sent' = sent + 1 /\ searchRequest' = r.id /\ searches' = {r}
  BY <1>1 DEF Search!Perform
<1>3. sent + 1 \in Nat
  BY DEF SearchInv, SearchesTyped
<1>4. r \in [id : Nat, search : Searches, page : Pages]
  BY <1>3
<1> HIDE DEF r
<1>5. r.search = s
  BY DEF r
<1> QED BY <1>2, <1>3, <1>4, <1>5 DEF SearchesTyped, OneSearchUnderWay

\* updateSearch... and a link that is opened begin with an empty page.
LEMMA NewSearchKeepsTheInvariant ==
    ASSUME SearchInv, NEW s \in Searches, NEW p \in Pages, Search!Perform(s, p),
           search' = s, resultByPage' = << >>, failed' = failed
    PROVE  SearchInv'
<1>0. \A q \in DOMAIN resultByPage' : resultByPage'[q] = search'
  OBVIOUS
<1>1. CASE s \in Unsent
  <2>1. UNCHANGED <<searchRequest, searches, sent>>
    BY <1>1 DEF Search!Perform
  <2> QED
    BY <1>1, <2>1 DEF SearchInv, SearchesTyped, OneSearchUnderWay, ForTheSearchShown,
                      ResultsBelongToTheSearch, Search!ResultsBelongToTheSearch
<1>2. CASE s \notin Unsent
  BY <1>0, <1>2, PerformReplaces DEF SearchInv, ForTheSearchShown, ResultsBelongToTheSearch, Search!ResultsBelongToTheSearch
<1> QED BY <1>1, <1>2

\* Another page of the search is in the store or is asked for.
LEMMA MoveToPageKeepsTheInvariant ==
    ASSUME SearchInv, NEW p \in Pages, Search!MoveToPage(p), search \in Searches
    PROVE  SearchInv'
<1>1. CASE UNCHANGED <<searchRequest, searches, sent>>
  BY <1>1 DEF Search!MoveToPage, SearchInv, SearchesTyped, OneSearchUnderWay, ForTheSearchShown,
              ResultsBelongToTheSearch, Search!ResultsBelongToTheSearch
<1>2. CASE Search!Perform(search, p) /\ search \notin Unsent
  BY <1>2, PerformReplaces
     DEF Search!MoveToPage, SearchInv, ForTheSearchShown, ResultsBelongToTheSearch, Search!ResultsBelongToTheSearch
<1>3. CASE Search!Perform(search, p) /\ search \in Unsent
  BY <1>1, <1>3 DEF Search!Perform
<1> QED BY <1>1, <1>2, <1>3 DEF Search!MoveToPage

\* The answer is of the search shown, or that is one that is not performed.
LEMMA AnswersKeepTheInvariant ==
    ASSUME SearchInv, NEW r \in searches, Search!Done(r) \/ Search!Fails(r)
    PROVE  SearchInv'
<1>1. searches' = {}
  BY DEF SearchInv, OneSearchUnderWay, Search!Done, Search!Fails
<1>2. SearchesTyped' /\ OneSearchUnderWay' /\ ForTheSearchShown'
  BY <1>1 DEF SearchInv, SearchesTyped, OneSearchUnderWay, ForTheSearchShown, Search!Done, Search!Fails
<1>3. CASE Search!Done(r)
  <2>1. search' \notin Unsent =>
          \A p \in DOMAIN resultByPage' : resultByPage'[p] = search'
    BY <1>3 DEF Search!Done, SearchInv, ForTheSearchShown, ResultsBelongToTheSearch, Search!ResultsBelongToTheSearch
  <2> QED BY <1>2, <1>3, <2>1 DEF Search!Done, SearchInv, ResultsBelongToTheSearch, Search!ResultsBelongToTheSearch
<1>4. CASE Search!Fails(r)
  <2>1. searchRequest' \in failed'
    BY <1>4 DEF Search!Fails, SearchInv, OneSearchUnderWay
  <2> QED BY <1>2, <1>4, <2>1 DEF Search!Fails, SearchInv, ResultsBelongToTheSearch, Search!ResultsBelongToTheSearch
<1> QED BY <1>3, <1>4

SearchTyped == search \in Searches

\* The search page: results of another search never appear on it, for any
\* number of searches, pages and requests, in any order of the answers.
THEOREM NoForeignResults ==
    ASSUME Unsent \subseteq Searches, 0 \in Pages
    PROVE  Spec => []ResultsBelongToTheSearch
<1>1. Search!Init => SearchTyped /\ SearchInv
  BY DEF Search!Init, SearchTyped, SearchInv, SearchesTyped, OneSearchUnderWay, ForTheSearchShown,
         ResultsBelongToTheSearch, Search!ResultsBelongToTheSearch
<1>2. SearchTyped /\ SearchInv /\ [Search!Next]_Search!svars => SearchTyped' /\ SearchInv'
  <2> SUFFICES ASSUME SearchTyped, SearchInv, [Search!Next]_Search!svars PROVE SearchTyped' /\ SearchInv'
    OBVIOUS
  <2>1. ASSUME NEW s \in Searches, Search!Update(s) PROVE SearchTyped' /\ SearchInv'
    BY <2>1, NewSearchKeepsTheInvariant DEF Search!Update, SearchTyped
  <2>2. ASSUME NEW s \in Searches, NEW p \in Pages, Search!Open(s, p)
        PROVE  SearchTyped' /\ SearchInv'
    BY <2>2, NewSearchKeepsTheInvariant DEF Search!Open, SearchTyped
  <2>3. ASSUME NEW p \in Pages, Search!MoveToPage(p) PROVE SearchTyped' /\ SearchInv'
    BY <2>3, MoveToPageKeepsTheInvariant DEF Search!MoveToPage, SearchTyped
  <2>4. ASSUME NEW r \in searches, Search!Done(r) \/ Search!Fails(r) PROVE SearchTyped' /\ SearchInv'
    BY <2>4, AnswersKeepTheInvariant DEF Search!Done, Search!Fails, SearchTyped
  <2>5. CASE UNCHANGED Search!svars
    BY <2>5 DEF Search!svars, SearchTyped, SearchInv, SearchesTyped, OneSearchUnderWay,
                ForTheSearchShown, ResultsBelongToTheSearch, Search!ResultsBelongToTheSearch
  <2> QED BY <2>1, <2>2, <2>3, <2>4, <2>5 DEF Search!Next
<1>3. SearchInv => ResultsBelongToTheSearch
  BY DEF SearchInv
<1> QED BY <1>1, <1>2, <1>3, PartsRunByThemselves, PTL DEF Search!Spec
-----------------------------------------------------------------------------
(* DebounceState: what waits is what is shown, unless they came apart. *)

WaitsForWhatIsShown == debounced # None /\ ~apart => debounced = cached

DebounceInv == OwnerHasWhatIsShown /\ WaitsForWhatIsShown

\* Typing, the pause after it and a value set by another keep the invariant.
LEMMA DebounceKeepsTheInvariant ==
    ASSUME None \notin Values, DebounceInv, [Debounce!Next]_Debounce!dvars
    PROVE  DebounceInv'
<1> USE DEF DebounceInv, OwnerHasWhatIsShown, Debounce!OwnerHasWhatIsShown, WaitsForWhatIsShown
<1>1. ASSUME NEW v \in Values, Debounce!Type(v) PROVE DebounceInv'
  <2>1. CASE v # value
    BY <1>1, <2>1 DEF Debounce!Type
  <2>2. CASE v = value
    BY <1>1, <2>2 DEF Debounce!Type
  <2> QED BY <2>1, <2>2
<1>2. ASSUME NEW v \in Values, Debounce!OwnerSets(v) PROVE DebounceInv'
  BY <1>2 DEF Debounce!OwnerSets
<1>3. CASE Debounce!Fire
  BY <1>3 DEF Debounce!Fire
<1>4. CASE UNCHANGED Debounce!dvars
  BY <1>4 DEF Debounce!dvars
<1> QED BY <1>1, <1>2, <1>3, <1>4 DEF Debounce!Next

\* useDebounceState: once the typing paused, the owner has what is shown,
\* whatever is typed and set by others, in any order.
THEOREM OwnerCatchesUp ==
    ASSUME None \notin Values
    PROVE  Spec => []OwnerHasWhatIsShown
<1>1. Debounce!Init => DebounceInv
  BY DEF Debounce!Init, DebounceInv, OwnerHasWhatIsShown, Debounce!OwnerHasWhatIsShown, WaitsForWhatIsShown
<1>2. DebounceInv /\ [Debounce!Next]_Debounce!dvars => DebounceInv'
  BY DebounceKeepsTheInvariant
<1>3. DebounceInv => OwnerHasWhatIsShown
  BY DEF DebounceInv
<1> QED BY <1>1, <1>2, <1>3, PartsRunByThemselves, PTL DEF Debounce!Spec
-----------------------------------------------------------------------------
(* DebouncedTasks: the counter is never above the number of calls that wait,
   as long as none failed to queue its task, so that the last of them runs
   the function; and it is never below, as long as it was not torn, so that
   no other does. *)

TasksTyped ==
    /\ counter \in Int \cup {None}
    /\ called \in Nat
    /\ IsFiniteSet(Tasks!Waiting)
    /\ Tasks!Waiting \subseteq 1..called
    /\ calling \cap queued = {}

NeverAbove == ~leaked => Tasks!Value <= Cardinality(Tasks!Waiting)

NeverBelow == ~torn => /\ ending = {} => Tasks!Value >= Cardinality(Tasks!Waiting)
                       /\ ending # {} => Tasks!Waiting = {}

TasksInv == TasksTyped /\ NeverAbove /\ NeverBelow /\ EveryCallIsServed

LEMMA ValueIsInt ==
    ASSUME TasksTyped
    PROVE  Tasks!Value \in Int /\ Cardinality(Tasks!Waiting) \in Nat
BY FS_CardinalityType DEF TasksTyped, Tasks!Value

\* The value of the counter after it was set to a number.
LEMMA ValueSet ==
    ASSUME None \notin Int, NEW n \in Int, counter' = n
    PROVE  Tasks!Value' = n
BY DEF Tasks!Value

LEMMA CallKeepsTheInvariant ==
    ASSUME None \notin Int, TasksInv, Tasks!Call
    PROVE  TasksInv'
<1>1. TasksTyped /\ Tasks!Value \in Int /\ Cardinality(Tasks!Waiting) \in Nat
  BY ValueIsInt DEF TasksInv
<1>2. called' \in Nat /\ called' \notin Tasks!Waiting /\ Tasks!Waiting' = Tasks!Waiting \cup {called'}
  BY <1>1 DEF Tasks!Call, TasksTyped, Tasks!Waiting
<1>3. IsFiniteSet(Tasks!Waiting') /\ Cardinality(Tasks!Waiting') = Cardinality(Tasks!Waiting) + 1
  BY <1>1, <1>2, FS_AddElement DEF TasksTyped
<1>4. Tasks!Value' = Tasks!Value + 1
  BY <1>1, ValueSet DEF Tasks!Call
<1>5. TasksTyped'
  BY <1>1, <1>2, <1>3 DEF Tasks!Call, TasksTyped, Tasks!Waiting
<1>6. NeverAbove'
  BY <1>1, <1>3, <1>4 DEF Tasks!Call, TasksInv, NeverAbove
<1>7. NeverBelow'
  <2>1. ~torn' => ~torn /\ ending = {} /\ ending' = {}
    BY Zenon DEF Tasks!Call
  <2>2. ~torn => (ending = {} => Tasks!Value >= Cardinality(Tasks!Waiting))
    BY DEF TasksInv, NeverBelow
  <2>3. Tasks!Value >= Cardinality(Tasks!Waiting) => Tasks!Value' >= Cardinality(Tasks!Waiting')
    BY <1>1, <1>3, <1>4
  <2> QED BY <2>1, <2>2, <2>3 DEF NeverBelow
<1>8. EveryCallIsServed'
  BY <1>2 DEF Tasks!Call, TasksInv, EveryCallIsServed, Tasks!EveryCallIsServed
<1> QED BY <1>5, <1>6, <1>7, <1>8 DEF TasksInv

\* A call that queues its task still waits, one that cannot does not.
LEMMA ApplyAsyncKeepsTheInvariant ==
    ASSUME None \notin Int, TasksInv, NEW c, Tasks!ApplyAsync(c) \/ Tasks!ApplyAsyncFails(c)
    PROVE  TasksInv'
<1>1. TasksTyped /\ Tasks!Value \in Int /\ Cardinality(Tasks!Waiting) \in Nat
  BY ValueIsInt DEF TasksInv
<1>2. Tasks!Value' = Tasks!Value
  BY DEF Tasks!ApplyAsync, Tasks!ApplyAsyncFails, Tasks!Value
<1>3. CASE Tasks!ApplyAsync(c)
  <2>1. Tasks!Waiting' = Tasks!Waiting
    BY <1>3 DEF Tasks!ApplyAsync, Tasks!Waiting
  <2>2. TasksTyped'
    BY <1>1, <1>3, <2>1 DEF Tasks!ApplyAsync, TasksTyped
  <2> QED BY <1>2, <1>3, <2>1, <2>2
          DEF Tasks!ApplyAsync, TasksInv, NeverAbove, NeverBelow, EveryCallIsServed, Tasks!EveryCallIsServed
<1>4. CASE Tasks!ApplyAsyncFails(c)
  <2>1. Tasks!Waiting' = Tasks!Waiting \ {c} /\ c \in Tasks!Waiting
    BY <1>1, <1>4 DEF Tasks!ApplyAsyncFails, Tasks!Waiting, TasksTyped
  <2>2. IsFiniteSet(Tasks!Waiting') /\ Cardinality(Tasks!Waiting') = Cardinality(Tasks!Waiting) - 1
    BY <1>1, <2>1, FS_RemoveElement DEF TasksTyped
  <2>3. TasksTyped'
    BY <1>1, <1>4, <2>1, <2>2 DEF Tasks!ApplyAsyncFails, TasksTyped
  <2>4. NeverAbove'
    BY <1>4 DEF Tasks!ApplyAsyncFails, NeverAbove
  <2>5. NeverBelow'
    BY <1>1, <1>2, <1>4, <2>1, <2>2 DEF Tasks!ApplyAsyncFails, TasksInv, NeverBelow
  <2>6. EveryCallIsServed'
    BY <1>4 DEF Tasks!ApplyAsyncFails, TasksInv, EveryCallIsServed, Tasks!EveryCallIsServed
  <2> QED BY <2>3, <2>4, <2>5, <2>6 DEF TasksInv
<1> QED BY <1>3, <1>4

\* A task that does not bring the counter down leaves another that waits.
LEMMA DecrKeepsTheInvariant ==
    ASSUME None \notin Int, TasksInv, NEW c, Tasks!Decr(c)
    PROVE  TasksInv'
<1>1. TasksTyped /\ Tasks!Value \in Int /\ Cardinality(Tasks!Waiting) \in Nat
  BY ValueIsInt DEF TasksInv
<1>2. Tasks!Value' = Tasks!Value - 1
  BY <1>1, ValueSet DEF Tasks!Decr
<1>3. Tasks!Waiting' = Tasks!Waiting \ {c} /\ c \in Tasks!Waiting
  BY <1>1 DEF Tasks!Decr, Tasks!Waiting, TasksTyped
<1>4. IsFiniteSet(Tasks!Waiting') /\ Cardinality(Tasks!Waiting') = Cardinality(Tasks!Waiting) - 1
  BY <1>1, <1>3, FS_RemoveElement DEF TasksTyped
<1>5. Tasks!Waiting' = {} <=> Cardinality(Tasks!Waiting) = 1
  BY <1>1, <1>4, FS_EmptySet
<1>6. TasksTyped'
  BY <1>1, <1>3, <1>4 DEF Tasks!Decr, TasksTyped
<1>7. NeverAbove'
  BY <1>1, <1>2, <1>4 DEF Tasks!Decr, TasksInv, NeverAbove
<1>8. CASE Tasks!Value <= 1
  <2>1. ending' # {}
    BY <1>8 DEF Tasks!Decr
  <2>2. ~torn => Tasks!Waiting' = {}
    <3>1. ~torn => Cardinality(Tasks!Waiting) <= 1 /\ Cardinality(Tasks!Waiting) # 0
      BY <1>1, <1>3, <1>8, FS_EmptySet DEF TasksInv, NeverBelow, TasksTyped
    <3> QED BY <1>1, <1>5, <3>1
  <2>3. NeverBelow' /\ EveryCallIsServed'
    BY <2>1, <2>2 DEF Tasks!Decr, TasksInv, NeverBelow, EveryCallIsServed, Tasks!EveryCallIsServed
  <2> QED BY <1>6, <1>7, <2>3 DEF TasksInv
<1>9. CASE ~(Tasks!Value <= 1)
  <2>1. ending' = ending
    BY <1>9 DEF Tasks!Decr
  <2>2. NeverBelow'
    BY <1>1, <1>2, <1>3, <1>4, <2>1 DEF Tasks!Decr, TasksInv, NeverBelow
  <2>3. ~leaked' => Tasks!Waiting' # {}
    BY <1>1, <1>5, <1>9 DEF Tasks!Decr, TasksInv, NeverAbove
  <2>4. EveryCallIsServed'
    BY <2>3 DEF Tasks!Decr, TasksInv, EveryCallIsServed, Tasks!EveryCallIsServed
  <2> QED BY <1>6, <1>7, <2>2, <2>4 DEF TasksInv
<1> QED BY <1>8, <1>9

\* The counter begins again, deleted or expired.
LEMMA ResetKeepsTheInvariant ==
    ASSUME TasksInv, Tasks!Expire \/ \E c \in 1..MaxCalls : Tasks!DeleteAndRun(c)
    PROVE  TasksInv'
<1>1. TasksTyped /\ Cardinality(Tasks!Waiting) \in Nat
  BY ValueIsInt DEF TasksInv
<1>2. Tasks!Value' = 0 /\ Tasks!Waiting' = Tasks!Waiting
  BY DEF Tasks!Expire, Tasks!DeleteAndRun, Tasks!Value, Tasks!Waiting
<1>3. TasksTyped'
  BY <1>1, <1>2 DEF Tasks!Expire, Tasks!DeleteAndRun, TasksTyped
<1>4. NeverAbove'
  BY <1>1, <1>2 DEF NeverAbove
<1>5. ~torn' => Tasks!Waiting' = {}
  BY <1>2 DEF Tasks!Expire, Tasks!DeleteAndRun, TasksInv, NeverBelow
<1>6. NeverBelow'
  BY <1>2, <1>5, FS_EmptySet DEF NeverBelow
<1>7. EveryCallIsServed'
  <2>1. CASE Tasks!Expire
    BY <1>2, <2>1 DEF Tasks!Expire, TasksInv, EveryCallIsServed, Tasks!EveryCallIsServed
  <2>2. CASE \E c \in 1..MaxCalls : Tasks!DeleteAndRun(c)
    BY <1>2, <2>2 DEF Tasks!DeleteAndRun, TasksInv, NeverBelow, EveryCallIsServed, Tasks!EveryCallIsServed
  <2> QED BY <2>1, <2>2
<1> QED BY <1>3, <1>4, <1>6, <1>7 DEF TasksInv

\* debounced_task: when nothing waits the function ran after the last call,
\* unless a task could not be queued, and it never ran too early, unless the
\* counter was torn, for any number of calls in any order.
THEOREM LastCallIsServed ==
    ASSUME None \notin Int
    PROVE  Spec => []EveryCallIsServed
<1>1. Tasks!Init => TasksInv
  <2> SUFFICES ASSUME Tasks!Init PROVE TasksInv
    OBVIOUS
  <2>1. Tasks!Waiting = {} /\ Tasks!Value = 0 /\ ending = {}
    BY DEF Tasks!Init, Tasks!Waiting, Tasks!Value
  <2>2. TasksTyped
    BY <2>1, FS_EmptySet DEF Tasks!Init, TasksTyped
  <2> QED BY <2>1, <2>2, FS_EmptySet
          DEF Tasks!Init, TasksInv, NeverAbove, NeverBelow, EveryCallIsServed, Tasks!EveryCallIsServed
<1>2. TasksInv /\ [Tasks!Next]_Tasks!dvars => TasksInv'
  <2> SUFFICES ASSUME TasksInv, [Tasks!Next]_Tasks!dvars PROVE TasksInv'
    OBVIOUS
  <2>1. CASE UNCHANGED Tasks!dvars
    BY <2>1 DEF Tasks!dvars, TasksInv, TasksTyped, NeverAbove, NeverBelow, EveryCallIsServed, Tasks!EveryCallIsServed, Tasks!Value,
                Tasks!Waiting
  <2>2. CASE Tasks!Call
    BY <2>2, CallKeepsTheInvariant
  <2>3. ASSUME NEW c \in 1..MaxCalls, Tasks!ApplyAsync(c) \/ Tasks!ApplyAsyncFails(c) PROVE TasksInv'
    BY <2>3, ApplyAsyncKeepsTheInvariant
  <2>4. ASSUME NEW c \in 1..MaxCalls, Tasks!Decr(c) PROVE TasksInv'
    BY <2>4, DecrKeepsTheInvariant
  <2>5. CASE Tasks!Expire \/ \E c \in 1..MaxCalls : Tasks!DeleteAndRun(c)
    BY <2>5, ResetKeepsTheInvariant
  <2> QED BY <2>1, <2>2, <2>3, <2>4, <2>5 DEF Tasks!Next
<1>3. TasksInv => EveryCallIsServed
  BY DEF TasksInv
<1> QED BY <1>1, <1>2, <1>3, PartsRunByThemselves, PTL DEF Tasks!Spec
-----------------------------------------------------------------------------
(* QueryCell: as long as no collaborator's change crossed one of the page,
   either the page has something to save or events are on their way to it.
   The store is the server's row and what is still to be saved; the last
   event is the server's row; and a field whose edit kept its timer is shown
   as the store has it, but for what the timer is to hand over. *)

Patches == UNION {[fs -> Nat] : fs \in SUBSET Cell!Fields}

CellTyped ==
    /\ shown \in [Cell!Fields -> Nat]
    /\ stored \in [Cell!Fields -> Nat]
    /\ server \in [Cell!Fields -> Nat]
    /\ timer \in Patches
    /\ saver \in Patches
    /\ saving = None \/ saving \in Patches
    /\ inbox \in Seq([Cell!Fields -> Nat])
    /\ version \in Nat

NeverBoth == ~crossed => inbox = <<>> \/ ~Cell!Unsaved

\* The row once everything is saved
ToBe == [f \in Cell!Fields |->
            IF f \in DOMAIN saver THEN saver[f]
            ELSE IF saving # None /\ f \in DOMAIN saving THEN saving[f]
            ELSE server[f]]

StoredToBe == ~crossed /\ inbox = <<>> => stored = ToBe

LastEventIsTheRow == ~crossed /\ inbox # <<>> => inbox[Len(inbox)] = server

ShownAsStored ==
    \A f \in Cell!Fields \ dropped : f \in DOMAIN timer \/ shown[f] = stored[f]

CellInv == CellTyped /\ NeverBoth /\ StoredToBe /\ LastEventIsTheRow /\ ShownAsStored

\* A patch that is spread over a cell, or over another patch.
LEMMA SpreadType ==
    ASSUME NEW p \in Patches
    PROVE  /\ p \in [DOMAIN p -> Nat]
           /\ DOMAIN p \subseteq Cell!Fields
           /\ \A c \in [Cell!Fields -> Nat] : Cell!Spread(c, p) \in [Cell!Fields -> Nat]
           /\ \A q \in Patches : Cell!Spread(q, p) \in Patches
<1>1. p \in [DOMAIN p -> Nat] /\ DOMAIN p \subseteq Cell!Fields
  BY DEF Patches
<1>2. \A c \in [Cell!Fields -> Nat] : Cell!Spread(c, p) \in [Cell!Fields -> Nat]
  BY <1>1 DEF Cell!Spread
<1>3. ASSUME NEW q \in Patches PROVE Cell!Spread(q, p) \in Patches
  <2>1. q \in [DOMAIN q -> Nat] /\ DOMAIN q \subseteq Cell!Fields
    BY DEF Patches
  <2>2. Cell!Spread(q, p) \in [DOMAIN q \cup DOMAIN p -> Nat]
    BY <1>1, <2>1 DEF Cell!Spread
  <2>3. DOMAIN q \cup DOMAIN p \in SUBSET Cell!Fields
    BY <1>1, <2>1
  <2> QED BY <2>2, <2>3 DEF Patches
<1> QED BY <1>1, <1>2, <1>3

\* What an edit shows is in the timer.
LEMMA ChangeKeepsTheInvariant ==
    ASSUME CellInv, NEW fs \in SUBSET Cell!Fields, fs # {}, Cell!Change(fs)
    PROVE  CellInv'
<1>1. version' \in Nat
  BY DEF CellInv, CellTyped, Cell!Change
<1>2. timer' = [f \in fs |-> version'] /\ timer' \in Patches /\ DOMAIN timer' = fs
  BY <1>1 DEF Cell!Change, Patches
<1>3. shown' = Cell!Spread(shown, timer') /\ shown' \in [Cell!Fields -> Nat]
  BY <1>2, SpreadType DEF Cell!Change, CellInv, CellTyped
<1>4. CellTyped'
  BY <1>1, <1>2, <1>3 DEF Cell!Change, CellInv, CellTyped
<1>5. NeverBoth'
  BY DEF Cell!Change, NeverBoth
<1>6. StoredToBe' /\ LastEventIsTheRow'
  BY DEF Cell!Change, CellInv, StoredToBe, LastEventIsTheRow, ToBe
<1>7. ASSUME NEW f \in Cell!Fields, f \notin dropped', f \notin DOMAIN timer'
      PROVE  shown'[f] = stored'[f]
  <2>1. f \notin fs /\ f \notin dropped /\ f \notin DOMAIN timer
    BY <1>2, <1>7 DEF Cell!Change
  <2>2. shown'[f] = shown[f]
    BY <1>2, <1>3, <2>1 DEF CellInv, CellTyped, Cell!Spread
  <2> QED BY <2>1, <2>2 DEF Cell!Change, CellInv, ShownAsStored
<1> QED BY <1>4, <1>5, <1>6, <1>7 DEF CellInv, ShownAsStored

\* The timer hands its patch to the store and to the saver.
LEMMA DebouncedKeepsTheInvariant ==
    ASSUME CellInv, Cell!Debounced
    PROVE  CellInv'
<1> USE DEF CellInv, CellTyped
<1>1. DOMAIN timer' = {} /\ timer' \in Patches
  <2>1. timer' = <<>> /\ DOMAIN <<>> = {} /\ <<>> \in [{} -> Nat]
    BY DEF Cell!Debounced, Cell!NoPatch
  <2> QED BY <2>1 DEF Patches
<1>2. /\ shown' = Cell!Spread(shown, timer)
      /\ stored' = Cell!Spread(stored, timer)
      /\ saver' = Cell!Spread(saver, timer)
  BY DEF Cell!Debounced, Cell!Take
<1>3. CellTyped'
  <2>1. shown' \in [Cell!Fields -> Nat] /\ stored' \in [Cell!Fields -> Nat] /\ saver' \in Patches
    BY <1>2, SpreadType
  <2> QED BY <1>1, <2>1 DEF Cell!Debounced
<1>4. NeverBoth'
  BY DEF Cell!Debounced, NeverBoth, Cell!Unsaved
<1>5. StoredToBe'
  <2>1. ASSUME ~crossed', inbox' = <<>> PROVE stored' = ToBe'
    <3>1. stored = ToBe
      BY <2>1 DEF StoredToBe, Cell!Debounced
    <3>2. ASSUME NEW f \in Cell!Fields PROVE stored'[f] = ToBe'[f]
      <4>1. stored'[f] = IF f \in DOMAIN timer THEN timer[f] ELSE stored[f]
        BY <1>2 DEF Cell!Spread
      <4>2. f \in DOMAIN saver' <=> f \in DOMAIN timer \/ f \in DOMAIN saver
        BY <1>2 DEF Cell!Spread
      <4>3. CASE f \in DOMAIN timer
        BY <1>2, <4>1, <4>2, <4>3 DEF ToBe, Cell!Spread
      <4>4. CASE f \notin DOMAIN timer /\ f \in DOMAIN saver
        BY <1>2, <3>1, <4>1, <4>2, <4>4 DEF ToBe, Cell!Spread
      <4>5. CASE f \notin DOMAIN timer /\ f \notin DOMAIN saver
        BY <1>2, <3>1, <4>1, <4>2, <4>5 DEF ToBe, Cell!Debounced
      <4> QED BY <4>3, <4>4, <4>5
    <3>3. DOMAIN stored' = Cell!Fields /\ stored' = [f \in Cell!Fields |-> stored'[f]]
      BY <1>3
    <3> QED BY <3>2, <3>3 DEF ToBe
  <2> QED BY <2>1 DEF StoredToBe
<1>6. LastEventIsTheRow'
  BY DEF Cell!Debounced, LastEventIsTheRow
<1>7. ASSUME NEW f \in Cell!Fields, f \notin dropped' PROVE shown'[f] = stored'[f]
  <2>1. f \notin dropped
    BY <1>7 DEF Cell!Debounced
  <2>2. CASE f \in DOMAIN timer
    BY <1>2, <2>2 DEF Cell!Spread
  <2>3. CASE f \notin DOMAIN timer
    BY <1>2, <2>1, <2>3 DEF Cell!Spread, ShownAsStored
  <2> QED BY <2>2, <2>3
<1> QED BY <1>3, <1>4, <1>5, <1>6, <1>7 DEF ShownAsStored

\* The query goes to the saver at once.
LEMMA ForceSaveKeepsTheInvariant ==
    ASSUME CellInv, Cell!ForceSaveQuery
    PROVE  CellInv'
<1> USE DEF CellInv, CellTyped
<1> DEFINE patch == [context |-> shown.context]
<1>1. /\ "context" \in Cell!Fields /\ shown.context \in Nat
      /\ patch \in Patches /\ DOMAIN patch = {"context"} /\ patch["context"] = shown.context
  <2>1. "context" \in Cell!Fields /\ shown.context \in Nat
    BY DEF Cell!Fields
  <2>2. DOMAIN patch = {"context"} /\ patch["context"] = shown.context
    OBVIOUS
  <2>3. patch \in [{"context"} -> Nat]
    BY <2>1, <2>2
  <2> QED BY <2>1, <2>2, <2>3 DEF Patches
<1>2. /\ saver' = Cell!Spread(saver, patch)
      /\ stored' = [stored EXCEPT !["context"] = shown.context]
  BY DEF Cell!ForceSaveQuery, Cell!Take
<1> HIDE DEF patch
<1>3. saver' \in Patches
  BY <1>1, <1>2, SpreadType
<1>4. stored' \in [Cell!Fields -> Nat]
  BY <1>1, <1>2
<1>5. CellTyped'
  BY <1>3, <1>4 DEF Cell!ForceSaveQuery
<1>6. NeverBoth'
  BY DEF Cell!ForceSaveQuery, NeverBoth
<1>7. StoredToBe'
  <2>1. ASSUME ~crossed', inbox' = <<>> PROVE stored' = ToBe'
    <3>1. stored = ToBe
      BY <2>1 DEF StoredToBe, Cell!ForceSaveQuery
    <3>2. ASSUME NEW f \in Cell!Fields PROVE stored'[f] = ToBe'[f]
      <4>1. f \in DOMAIN saver' <=> f = "context" \/ f \in DOMAIN saver
        BY <1>1, <1>2 DEF Cell!Spread
      <4>2. CASE f = "context"
        <5>1. saver'[f] = shown.context
          BY <1>1, <1>2, <4>2 DEF Cell!Spread
        <5>2. stored'[f] = shown.context
          BY <1>2, <4>2
        <5> QED BY <4>1, <4>2, <5>1, <5>2 DEF ToBe
      <4>3. CASE f # "context" /\ f \in DOMAIN saver
        <5>1. saver'[f] = saver[f]
          BY <1>1, <1>2, <4>3 DEF Cell!Spread
        <5>2. stored'[f] = stored[f]
          BY <1>2, <4>3
        <5> QED BY <3>1, <4>1, <4>3, <5>1, <5>2 DEF ToBe
      <4>4. CASE f # "context" /\ f \notin DOMAIN saver
        <5>1. stored'[f] = stored[f]
          BY <1>2, <4>4
        <5> QED BY <3>1, <4>1, <4>4, <5>1 DEF ToBe, Cell!ForceSaveQuery
      <4> QED BY <4>2, <4>3, <4>4
    <3>3. stored' = [f \in Cell!Fields |-> stored'[f]]
      BY <1>4
    <3> QED BY <3>2, <3>3 DEF ToBe
  <2> QED BY <2>1 DEF StoredToBe
<1>8. LastEventIsTheRow'
  BY DEF Cell!ForceSaveQuery, LastEventIsTheRow
<1>9. ASSUME NEW f \in Cell!Fields, f \notin dropped', f \notin DOMAIN timer'
      PROVE  shown'[f] = stored'[f]
  <2>1. CASE f = "context"
    BY <1>2, <2>1 DEF Cell!ForceSaveQuery
  <2>2. CASE f # "context"
    BY <1>2, <1>9, <2>2 DEF Cell!ForceSaveQuery, ShownAsStored
  <2> QED BY <2>1, <2>2
<1> QED BY <1>5, <1>6, <1>7, <1>8, <1>9 DEF ShownAsStored

\* The saver sends its patch, and the server keeps it.
LEMMA SavingKeepsTheInvariant ==
    ASSUME None \notin Patches, CellInv, Cell!Save \/ Cell!Saved
    PROVE  CellInv'
<1> USE DEF CellInv, CellTyped
<1>1. Cell!NoPatch \in Patches /\ DOMAIN Cell!NoPatch = {}
  <2>1. DOMAIN <<>> = {} /\ <<>> \in [{} -> Nat]
    OBVIOUS
  <2> QED BY <2>1 DEF Patches, Cell!NoPatch
<1>2. CellTyped'
  <2>1. CASE Cell!Save
    BY <1>1, <2>1 DEF Cell!Save
  <2>2. CASE Cell!Saved
    <3>1. saving \in Patches /\ server' = Cell!Spread(server, saving)
      BY <2>2 DEF Cell!Saved
    <3>2. server' \in [Cell!Fields -> Nat]
      BY <3>1, SpreadType
    <3> QED BY <2>2, <3>2 DEF Cell!Saved
  <2> QED BY <2>1, <2>2
<1>3. ShownAsStored'
  BY DEF Cell!Save, Cell!Saved, ShownAsStored
<1>4. NeverBoth' /\ LastEventIsTheRow'
  BY DEF Cell!Save, Cell!Saved, NeverBoth, LastEventIsTheRow, Cell!Unsaved
<1>5. ToBe' = ToBe
  <2>1. CASE Cell!Save
    <3>1. saving = None /\ saving' = saver /\ saving' # None /\ DOMAIN saver' = {}
      BY <1>1, <2>1 DEF Cell!Save
    <3> QED BY <2>1, <3>1 DEF Cell!Save, ToBe
  <2>2. CASE Cell!Saved
    <3>1. saving # None /\ saving \in Patches /\ server' = Cell!Spread(server, saving)
      BY <2>2 DEF Cell!Saved
    <3>2. \A f \in Cell!Fields :
             server'[f] = IF f \in DOMAIN saving THEN saving[f] ELSE server[f]
      BY <3>1 DEF Cell!Spread
    <3> QED BY <2>2, <3>1, <3>2 DEF Cell!Saved, ToBe
  <2> QED BY <2>1, <2>2
<1>6. StoredToBe'
  BY <1>5 DEF StoredToBe, Cell!Save, Cell!Saved
<1> QED BY <1>2, <1>3, <1>4, <1>6

\* A collaborator's change is announced, or crosses one of the page.
LEMMA RemoteChangeKeepsTheInvariant ==
    ASSUME CellInv, NEW f \in Cell!Fields, Cell!RemoteChange(f)
    PROVE  CellInv'
<1> USE DEF CellInv, CellTyped
<1>1. version' \in Nat /\ server' = [server EXCEPT ![f] = version']
  BY DEF Cell!RemoteChange
<1>2. server' \in [Cell!Fields -> Nat] /\ inbox' = Append(inbox, server')
  BY <1>1 DEF Cell!RemoteChange
<1>3. /\ inbox' \in Seq([Cell!Fields -> Nat])
      /\ inbox' # <<>>
      /\ inbox'[Len(inbox')] = server'
  BY <1>2, AppendProperties
<1>4. CellTyped'
  BY <1>1, <1>2, <1>3 DEF Cell!RemoteChange
<1>5. NeverBoth'
  BY DEF Cell!RemoteChange, NeverBoth, Cell!Unsaved
<1>6. StoredToBe' /\ LastEventIsTheRow'
  BY <1>3 DEF StoredToBe, LastEventIsTheRow
<1>7. ShownAsStored'
  BY DEF Cell!RemoteChange, ShownAsStored
<1> QED BY <1>4, <1>5, <1>6, <1>7

\* The store takes the row of the event, the page what of it is new.
LEMMA ReceiveKeepsTheInvariant ==
    ASSUME CellInv, Cell!Receive
    PROVE  CellInv'
<1> USE DEF CellInv, CellTyped
<1> DEFINE row == Head(inbox)
<1>1. /\ inbox # <<>> /\ Len(inbox) \in Nat /\ Len(inbox) > 0
      /\ row \in [Cell!Fields -> Nat] /\ row = inbox[1]
      /\ Tail(inbox) \in Seq([Cell!Fields -> Nat])
      /\ Len(Tail(inbox)) = Len(inbox) - 1
      /\ \A i \in 1..Len(Tail(inbox)) : Tail(inbox)[i] = inbox[i + 1]
      /\ Tail(inbox) = <<>> => Len(inbox) = 1
  <2>1. inbox # <<>> /\ inbox \in Seq([Cell!Fields -> Nat])
    BY DEF Cell!Receive
  <2>2. Len(inbox) \in Nat /\ Len(inbox) > 0
    BY <2>1, EmptySeq, LenProperties
  <2>3. /\ Head(inbox) \in [Cell!Fields -> Nat] /\ Tail(inbox) \in Seq([Cell!Fields -> Nat])
        /\ Len(Tail(inbox)) = Len(inbox) - 1
        /\ \A i \in 1..Len(Tail(inbox)) : Tail(inbox)[i] = inbox[i + 1]
    BY <2>1, HeadTailProperties
  <2>4. Head(inbox) = inbox[1]
    BY <2>1
  <2>5. Tail(inbox) = <<>> => Len(inbox) = 1
    <3>1. Len(<<>>) = 0
      OBVIOUS
    <3> DEFINE rest == Tail(inbox)
    <3>2. Len(rest) = Len(inbox) - 1
      BY <2>3
    <3>3. rest = <<>> => Len(inbox) = 1
      <4> HIDE DEF rest
      <4> QED BY <2>2, <3>1, <3>2
    <3> QED BY <3>3
  <2> QED BY <2>1, <2>2, <2>3, <2>4, <2>5
<1> DEFINE asked == IF row["context"] = stored["context"] THEN shown["context"] ELSE row["context"]
<1>2. /\ stored' = row /\ inbox' = Tail(inbox)
      /\ shown' = [shown EXCEPT !["context"] = asked, !["meta"] = row["meta"]]
  BY DEF Cell!Receive
<1>3. Cell!Fields = {"context", "meta"} /\ "context" # "meta"
  BY DEF Cell!Fields
<1>4. asked \in Nat /\ row["meta"] \in Nat
  BY <1>1, <1>3
<1> HIDE DEF row
<1>5. /\ shown' \in [Cell!Fields -> Nat]
      /\ shown'["context"] = asked /\ shown'["meta"] = row["meta"]
  <2> HIDE DEF asked
  <2> QED BY <1>2, <1>3, <1>4
<1>6. CellTyped'
  BY <1>1, <1>2, <1>5 DEF Cell!Receive
<1>7. NeverBoth'
  BY <1>1 DEF Cell!Receive, NeverBoth, Cell!Unsaved
<1>8. ShownAsStored'
  <2>1. ASSUME NEW f \in Cell!Fields, f \notin dropped', f \notin DOMAIN timer'
        PROVE  shown'[f] = stored'[f]
    <3>1. f \notin dropped /\ f \notin DOMAIN timer
      BY <2>1 DEF Cell!Receive
    <3>2. shown[f] = stored[f]
      BY <3>1 DEF ShownAsStored
    <3> QED BY <1>2, <1>3, <1>5, <3>2
  <2> QED BY <2>1 DEF ShownAsStored
<1>9. ASSUME ~crossed' PROVE StoredToBe' /\ LastEventIsTheRow'
  <2>1. ~crossed /\ inbox[Len(inbox)] = server /\ ~Cell!Unsaved
    BY <1>1, <1>9 DEF Cell!Receive, LastEventIsTheRow, NeverBoth
  <2>2. server' = server /\ DOMAIN saver' = {} /\ saving' = None
    <3>1. DOMAIN <<>> = {}
      OBVIOUS
    <3> QED BY <2>1, <3>1 DEF Cell!Receive, Cell!Unsaved, Cell!NoPatch
  <2>3. inbox' = <<>> => stored' = server'
    BY <1>1, <1>2, <2>1, <2>2
  <2>4. server' = [f \in Cell!Fields |-> server'[f]]
    BY <2>2
  <2>5. StoredToBe'
    BY <2>2, <2>3, <2>4 DEF StoredToBe, ToBe
  <2>6. LastEventIsTheRow'
    <3>1. ASSUME inbox' # <<>> PROVE inbox'[Len(inbox')] = server'
      <4>1. Len(inbox') = Len(inbox) - 1 /\ Len(inbox') \in 1..Len(Tail(inbox))
        BY <1>1, <1>2, <3>1, EmptySeq
      <4> QED BY <1>1, <1>2, <2>1, <2>2, <4>1
    <3> QED BY <3>1 DEF LastEventIsTheRow
  <2> QED BY <2>5, <2>6
<1>10. crossed' => StoredToBe' /\ LastEventIsTheRow'
  BY DEF StoredToBe, LastEventIsTheRow
<1> QED BY <1>6, <1>7, <1>8, <1>9, <1>10

\* A query cell: once nothing waits, the page, the store and the server agree
\* on it, for any number of edits, forced saves and events.
THEOREM PageAgreesOnTheCell ==
    ASSUME None \notin Patches
    PROVE  Spec => []PageShowsTheCell
<1>1. Cell!Init => CellInv
  <2>1. DOMAIN <<>> = {} /\ <<>> \in [{} -> Nat] /\ 0 \in Nat
    OBVIOUS
  <2>2. ASSUME Cell!Init PROVE CellInv
    <3>0. <<>> \in Patches /\ <<>> \in Seq([Cell!Fields -> Nat])
      <4>1. {} \in SUBSET Cell!Fields
        OBVIOUS
      <4>2. <<>> \in Patches
        BY <2>1, <4>1 DEF Patches
      <4> QED BY <4>2
    <3>1. /\ timer = <<>> /\ saver = <<>> /\ <<>> \in Patches /\ saving = None /\ inbox = <<>>
          /\ version = 0 /\ <<>> \in Seq([Cell!Fields -> Nat])
      BY <2>2, <3>0 DEF Cell!Init, Cell!NoPatch
    <3>2. shown = [f \in Cell!Fields |-> 0] /\ stored = shown /\ server = shown
      BY <2>2 DEF Cell!Init
    <3>3. CellTyped
      BY <2>1, <3>1, <3>2 DEF CellTyped
    <3>4. StoredToBe
      BY <2>1, <3>1, <3>2 DEF StoredToBe, ToBe
    <3> QED BY <3>1, <3>2, <3>3, <3>4 DEF CellInv, NeverBoth, LastEventIsTheRow, ShownAsStored
  <2> QED BY <2>2
<1>2. CellInv /\ [Cell!Next]_Cell!cvars => CellInv'
  <2> SUFFICES ASSUME CellInv, [Cell!Next]_Cell!cvars PROVE CellInv'
    OBVIOUS
  <2>1. ASSUME NEW fs \in {{"context"}, {"meta"}, Cell!Fields}, Cell!Change(fs) PROVE CellInv'
    <3>1. fs \in SUBSET Cell!Fields /\ fs # {}
      BY DEF Cell!Fields
    <3> QED BY <2>1, <3>1, ChangeKeepsTheInvariant
  <2>2. ASSUME NEW f \in Cell!Fields, Cell!RemoteChange(f) PROVE CellInv'
    BY <2>2, RemoteChangeKeepsTheInvariant
  <2>3. CASE UNCHANGED Cell!cvars
    BY <2>3 DEF Cell!cvars, CellInv, CellTyped, NeverBoth, StoredToBe, ToBe, LastEventIsTheRow,
                ShownAsStored, Cell!Unsaved
  <2> QED BY <2>1, <2>2, <2>3, DebouncedKeepsTheInvariant, ForceSaveKeepsTheInvariant,
             SavingKeepsTheInvariant, ReceiveKeepsTheInvariant DEF Cell!Next
<1>3. CellInv => PageShowsTheCell
  <2> SUFFICES ASSUME CellInv, ~Cell!Unsaved, inbox = <<>>, ~crossed
               PROVE  /\ stored = server
                      /\ \A f \in Cell!Fields \ dropped : shown[f] = stored[f]
    BY DEF PageShowsTheCell, Cell!PageShowsTheCell
  <2>1. DOMAIN timer = {} /\ DOMAIN saver = {} /\ saving = None
    <3>1. DOMAIN <<>> = {}
      OBVIOUS
    <3> QED BY <3>1 DEF Cell!Unsaved, Cell!NoPatch
  <2>2. stored = server
    BY <2>1 DEF CellInv, CellTyped, StoredToBe, ToBe
  <2> QED BY <2>1, <2>2 DEF CellInv, ShownAsStored
<1> QED BY <1>1, <1>2, <1>3, PartsRunByThemselves, PTL DEF Cell!Spec
-----------------------------------------------------------------------------
(* BeatScheduler: what the process holds is as the table has it, or a change
   is announced that it has not seen, or a reload is under way; and a run is
   counted in the table, or in an entry whose name is to be saved. *)

Schedules == [version : Nat, enabled : BOOLEAN, noChanges : BOOLEAN, count : Nat]
Entries == [version : Nat, count : Nat]

BeatTyped ==
    /\ schedules \in [Names -> Schedules \cup {None}]
    /\ lastUpdate \in Nat /\ clock \in Nat /\ changes \in Nat
    /\ lastUpdate <= clock
    /\ lastTimestamp = None \/ lastTimestamp \in 0..clock
    /\ mode \in {"down", "starting", "idle", "sync"}
    /\ DOMAIN entries \subseteq Names
    /\ entries \in [DOMAIN entries -> Entries]
    /\ dirty \subseteq DOMAIN entries
    /\ nested \in Seq(Names)
    /\ reserving = None \/ reserving \in [name : Names, entry : Entries]
    /\ fired \in [Names -> Nat]

\* What the modes of the process imply.  The timestamp is first read when the
\* process is idle.
BeatModes ==
    /\ mode \in {"down", "starting"} => dirty = {}
    /\ mode # "sync" => nested = <<>>
    /\ mode = "starting" => lastTimestamp = None
    /\ mode \in {"idle", "sync"} => lastTimestamp # None
    /\ dirty \cap Beat!ToSet(nested) = {}
    /\ reserving # None => mode = "sync" /\ reloads

Reloads == mode = "sync" /\ (reloads \/ nested # <<>>)

FollowsRow(n) ==
    /\ n \in DOMAIN entries <=> n \in Beat!Rows /\ schedules[n].enabled
    /\ n \in DOMAIN entries => entries[n].version = schedules[n].version

SeenAt(n) ==
    mode # "down" /\ n \notin unseen => FollowsRow(n) \/ Beat!ScheduleChanged \/ Reloads

\* Its run is counted in the entry that is to be stored, and not yet sent.
Reserved(n) == reserving # None /\ reserving.name = n

\* A name is not used again, so that nothing is left in memory when a schedule
\* is created.
CountedAt(n) ==
    /\ n \in Beat!Rows \ uncounted =>
          IF Reserved(n) THEN reserving.entry.count = fired[n] + 1
          ELSE /\ n \notin dirty \cup Beat!ToSet(nested) => schedules[n].count = fired[n]
               /\ n \in DOMAIN entries \ Beat!ToSet(nested) => entries[n].count = fired[n]
    /\ n \notin Beat!Rows /\ fired[n] = 0 => n \notin DOMAIN entries /\ ~Reserved(n)

BeatInv ==
    /\ BeatTyped /\ BeatModes
    /\ \A n \in Names : SeenAt(n) /\ CountedAt(n)

\* The names whose save was put off, when one is added or taken away
LEMMA NestedSets ==
    ASSUME NEW seq \in Seq(Names)
    PROVE  /\ Beat!ToSet(seq) \subseteq Names
           /\ Beat!ToSet(<<>>) = {}
           /\ \A n \in Names : /\ <<n>> \o seq \in Seq(Names)
                               /\ <<n>> \o seq # <<>>
                               /\ Beat!ToSet(<<n>> \o seq) = {n} \cup Beat!ToSet(seq)
           /\ seq # <<>> =>
                 /\ Head(seq) \in Names /\ Tail(seq) \in Seq(Names)
                 /\ Beat!ToSet(seq) = {Head(seq)} \cup Beat!ToSet(Tail(seq))
<1> USE DEF Beat!ToSet
<1>1. Len(seq) \in Nat /\ DOMAIN seq = 1..Len(seq) /\ \A i \in 1..Len(seq) : seq[i] \in Names
  BY LenProperties
<1>2. Beat!ToSet(seq) \subseteq Names
  BY <1>1
<1>3. Beat!ToSet(<<>>) = {}
  OBVIOUS
<1>4. ASSUME NEW n \in Names
      PROVE  /\ <<n>> \o seq \in Seq(Names)
             /\ <<n>> \o seq # <<>>
             /\ Beat!ToSet(<<n>> \o seq) = {n} \cup Beat!ToSet(seq)
  <2> DEFINE more == <<n>> \o seq
  <2>1. /\ <<n>> \in Seq(Names) /\ Len(<<n>>) = 1 /\ <<n>>[1] = n
    OBVIOUS
  <2>2. /\ more \in Seq(Names) /\ Len(more) = 1 + Len(seq)
        /\ more[1] = n
        /\ \A i \in 1..Len(seq) : more[i + 1] = seq[i]
    BY <1>1, <2>1
  <2>3. DOMAIN more = 1..(Len(seq) + 1)
    BY <1>1, <2>2, LenProperties
  <2> HIDE DEF more
  <2>4. {more[i] : i \in DOMAIN more} \subseteq {n} \cup {seq[i] : i \in DOMAIN seq}
    <3>1. ASSUME NEW i \in DOMAIN more, i # 1 PROVE more[i] \in {seq[j] : j \in DOMAIN seq}
      <4>1. i - 1 \in 1..Len(seq) /\ (i - 1) + 1 = i
        BY <1>1, <2>3, <3>1
      <4>2. more[i] = seq[i - 1]
        BY <2>2, <4>1
      <4> QED BY <1>1, <4>1, <4>2
    <3> QED BY <2>2, <3>1
  <2>5. {n} \cup {seq[i] : i \in DOMAIN seq} \subseteq {more[i] : i \in DOMAIN more}
    <3>1. 1 \in DOMAIN more
      BY <1>1, <2>3
    <3>2. ASSUME NEW i \in DOMAIN seq PROVE seq[i] \in {more[j] : j \in DOMAIN more}
      <4>1. i + 1 \in DOMAIN more /\ more[i + 1] = seq[i]
        BY <1>1, <2>2, <2>3
      <4> QED BY <4>1
    <3> QED BY <2>2, <3>1, <3>2
  <2>6. more # <<>>
    <3>1. DOMAIN <<>> = {} /\ 1 \in DOMAIN more
      BY <1>1, <2>3
    <3> QED BY <3>1
  <2> QED BY <2>2, <2>4, <2>5, <2>6 DEF more
<1>5. ASSUME seq # <<>>
      PROVE  /\ Head(seq) \in Names /\ Tail(seq) \in Seq(Names)
             /\ Beat!ToSet(seq) = {Head(seq)} \cup Beat!ToSet(Tail(seq))
  <2> DEFINE rest == Tail(seq)
  <2>1. /\ Head(seq) \in Names /\ rest \in Seq(Names) /\ Len(rest) = Len(seq) - 1
        /\ \A i \in 1..Len(rest) : rest[i] = seq[i + 1]
    BY <1>5, HeadTailProperties
  <2>2. Head(seq) = seq[1] /\ Len(seq) > 0
    BY <1>5, EmptySeq
  <2>3. DOMAIN rest = 1..(Len(seq) - 1)
    BY <2>1, LenProperties
  <2> HIDE DEF rest
  <2>4. {seq[i] : i \in DOMAIN seq} \subseteq {seq[1]} \cup {rest[i] : i \in DOMAIN rest}
    <3>1. ASSUME NEW i \in DOMAIN seq, i # 1 PROVE seq[i] \in {rest[j] : j \in DOMAIN rest}
      <4>1. i - 1 \in 1..Len(rest) /\ (i - 1) + 1 = i
        BY <1>1, <2>1, <3>1
      <4>2. rest[i - 1] = seq[i]
        BY <2>1, <4>1
      <4> QED BY <1>1, <2>1, <2>3, <4>1, <4>2
    <3> QED BY <3>1
  <2>5. {seq[1]} \cup {rest[i] : i \in DOMAIN rest} \subseteq {seq[i] : i \in DOMAIN seq}
    <3>1. 1 \in DOMAIN seq
      BY <1>1, <2>2
    <3>2. ASSUME NEW i \in DOMAIN rest PROVE rest[i] \in {seq[j] : j \in DOMAIN seq}
      <4>1. i + 1 \in DOMAIN seq /\ rest[i] = seq[i + 1]
        BY <1>1, <2>1, <2>3
      <4> QED BY <4>1
    <3> QED BY <3>1, <3>2
  <2> QED BY <2>1, <2>2, <2>4, <2>5 DEF rest
<1> QED BY <1>2, <1>3, <1>4, <1>5

\* A change of one row that is announced, or counted as one that is not.
LEMMA TableChange ==
    ASSUME BeatInv, NEW n \in Names, NEW row \in Schedules \cup {None},
           schedules' = [schedules EXCEPT ![n] = row],
           Beat!Announced(n) \/ Beat!Quiet(n), Beat!Changes,
           fired' \in [Names -> Nat], \A k \in Names \ {n} : fired'[k] = fired[k],
           uncounted \subseteq uncounted', CountedAt(n)'
    PROVE  BeatInv'
<1>1. /\ UNCHANGED <<clock, mode, entries, lastTimestamp, dirty, reloads, nested, reserving>>
      /\ changes' = changes + 1
  BY DEF Beat!Changes, Beat!beatVars
<1>2. lastUpdate' \in Nat /\ lastUpdate' <= clock' /\ lastUpdate <= lastUpdate'
  BY <1>1 DEF BeatInv, BeatTyped, Beat!Announced, Beat!Quiet
<1>3. schedules' \in [Names -> Schedules \cup {None}]
  BY DEF BeatInv, BeatTyped
<1>4. BeatTyped'
  BY <1>1, <1>2, <1>3 DEF BeatInv, BeatTyped
<1>5. BeatModes'
  BY <1>1 DEF BeatInv, BeatModes
<1>6. unseen \subseteq unseen'
  BY DEF Beat!Announced, Beat!Quiet
<1>7. Beat!ScheduleChanged => Beat!ScheduleChanged'
  <2>1. lastUpdate \in Nat /\ lastUpdate' \in Nat
    BY <1>2 DEF BeatInv, BeatTyped
  <2>2. lastTimestamp = None \/ lastTimestamp \in Int
    BY DEF BeatInv, BeatTyped
  <2> QED BY <1>1, <1>2, <2>1, <2>2 DEF Beat!ScheduleChanged
<1>8. SeenAt(n)'
  <2>1. ASSUME mode # "down", n \notin unseen' PROVE Beat!ScheduleChanged'
    <3>1. Beat!Announced(n) /\ ~Beat!TooEarly
      BY <2>1 DEF Beat!Announced, Beat!Quiet
    <3>2. lastTimestamp # None /\ clock # lastTimestamp /\ lastUpdate' = clock
      BY <2>1, <3>1 DEF Beat!Announced, Beat!TooEarly
    <3>3. lastTimestamp \in 0..clock /\ clock \in Nat
      BY <3>2 DEF BeatInv, BeatTyped
    <3>4. lastTimestamp' # None /\ lastUpdate' > lastTimestamp'
      BY <1>1, <3>2, <3>3
    <3> QED BY <3>4 DEF Beat!ScheduleChanged
  <2> QED BY <1>1, <2>1 DEF SeenAt
<1>9. ASSUME NEW k \in Names \ {n} PROVE SeenAt(k)' /\ CountedAt(k)'
  <2>1. schedules'[k] = schedules[k] /\ fired'[k] = fired[k]
    BY DEF BeatInv, BeatTyped
  <2>2. (k \in Beat!Rows)' <=> k \in Beat!Rows
    BY <2>1 DEF Beat!Rows
  <2>3. FollowsRow(k) => FollowsRow(k)'
    BY <1>1, <2>1, <2>2 DEF FollowsRow
  <2>4. Reloads => Reloads'
    BY <1>1 DEF Reloads
  <2>5. SeenAt(k)'
    BY <1>1, <1>6, <1>7, <2>3, <2>4 DEF SeenAt, BeatInv
  <2>6. CountedAt(k)'
    BY <1>1, <2>1, <2>2 DEF CountedAt, Reserved, BeatInv
  <2> QED BY <2>5, <2>6
<1> QED BY <1>4, <1>5, <1>8, <1>9 DEF BeatInv

\* The rows that a request writes
LEMMA RowTypes ==
    ASSUME NEW row \in Schedules, NEW off \in BOOLEAN
    PROVE  /\ \A c \in Nat : [row EXCEPT !.count = c, !.noChanges = off] \in Schedules
           /\ \A v \in Nat, on \in BOOLEAN :
                 /\ [row EXCEPT !.version = v, !.enabled = on, !.noChanges = off] \in Schedules
                 /\ [row EXCEPT !.version = v, !.enabled = on, !.noChanges = off].count
                      = row.count
<1>1. ASSUME NEW c \in Nat PROVE [row EXCEPT !.count = c, !.noChanges = off] \in Schedules
  BY DEF Schedules
<1>2. ASSUME NEW v \in Nat, NEW on \in BOOLEAN
      PROVE  [row EXCEPT !.version = v, !.enabled = on, !.noChanges = off] \in Schedules
  BY DEF Schedules
<1>3. ASSUME NEW v \in Nat, NEW on \in BOOLEAN
      PROVE  [row EXCEPT !.version = v, !.enabled = on, !.noChanges = off].count = row.count
  BY DEF Schedules
<1> QED BY <1>1, <1>2, <1>3

\* The requests that create, change and delete a schedule.
LEMMA RequestsKeepTheInvariant ==
    ASSUME None \notin Nat, None \notin Schedules, MaxFires \in Nat \ {0},
           BeatInv, NEW n \in Names,
           \/ Beat!Create(n) \/ Beat!UpdateOwner(n) \/ Beat!Delete(n) \/ Beat!RunByHand(n)
           \/ \E on \in BOOLEAN : Beat!Update(n, on)
    PROVE  BeatInv'
<1>1. /\ schedules \in [Names -> Schedules \cup {None}] /\ changes \in Nat
      /\ fired \in [Names -> Nat]
      /\ (n \in Beat!Rows => schedules[n] \in Schedules)
      /\ (n \in Beat!Rows <=> schedules[n] # None)
  BY DEF BeatInv, BeatTyped, Beat!Rows
<1>2. CountedAt(n) /\ (n \in Beat!Rows)' = (schedules'[n] # None)
  BY DEF BeatInv, Beat!Rows
<1>3. CASE Beat!Create(n)
  <2> DEFINE row == Beat!Row(changes + 1)
  <2>1. row \in Schedules /\ row.count = 0 /\ row # None
    <3>1. changes + 1 \in Nat /\ 0 \in Nat
      BY <1>1
    <3>2. row \in Schedules
      BY <3>1 DEF Beat!Row, Schedules
    <3>3. row.count = 0
      BY DEF Beat!Row
    <3> QED BY <3>2, <3>3
  <2>2. /\ schedules' = [schedules EXCEPT ![n] = row]
        /\ Beat!Announced(n) /\ Beat!Changes /\ UNCHANGED <<fired, uncounted>>
        /\ n \notin Beat!Rows /\ fired[n] = 0
    BY <1>3 DEF Beat!Create
  <2> HIDE DEF row
  <2>3. CountedAt(n)'
    BY <1>1, <1>2, <2>1, <2>2 DEF CountedAt, Reserved, Beat!Changes, Beat!beatVars
  <2> QED BY <1>1, <2>1, <2>2, <2>3, TableChange
<1>4. CASE Beat!UpdateOwner(n)
  <2> DEFINE row == [schedules[n] EXCEPT !.version = changes + 1]
  <2>1. row \in Schedules /\ row.count = schedules[n].count /\ row # None
    BY <1>1, <1>4 DEF Beat!UpdateOwner, Schedules
  <2>2. /\ schedules' = [schedules EXCEPT ![n] = row]
        /\ Beat!Announced(n) \/ Beat!Quiet(n)
        /\ Beat!Changes /\ UNCHANGED <<fired, uncounted>> /\ n \in Beat!Rows
    BY <1>1, <1>4 DEF Beat!UpdateOwner
  <2> HIDE DEF row
  <2>3. CountedAt(n)'
    BY <1>1, <1>2, <2>1, <2>2 DEF CountedAt, Reserved, Beat!Changes, Beat!beatVars
  <2> QED BY <1>1, <2>1, <2>2, <2>3, TableChange
<1>5. CASE Beat!Delete(n)
  <2>1. /\ schedules' = [schedules EXCEPT ![n] = None]
        /\ Beat!Announced(n) \/ Beat!Quiet(n)
        /\ Beat!Changes /\ UNCHANGED uncounted
        /\ fired' = [fired EXCEPT ![n] = MaxFires]
    BY <1>5 DEF Beat!Delete
  <2>2. /\ fired' \in [Names -> Nat] /\ fired'[n] # 0
        /\ \A k \in Names \ {n} : fired'[k] = fired[k]
        /\ schedules'[n] = None
    BY <1>1, <2>1
  <2>3. CountedAt(n)'
    BY <1>2, <2>2 DEF CountedAt
  <2> QED BY <2>1, <2>2, <2>3, TableChange
<1>6. CASE Beat!RunByHand(n)
  <2> DEFINE row == [schedules[n] EXCEPT !.count = @ + 1, !.noChanges = FALSE]
  <2>1. row \in Schedules /\ row # None
    <3>1. n \in Beat!Rows
      BY <1>6 DEF Beat!RunByHand
    <3>2. schedules[n] \in Schedules
      BY <1>1, <3>1
    <3>3. schedules[n].count + 1 \in Nat
      BY <3>2 DEF Schedules
    <3>4. row \in Schedules
      BY <3>2, <3>3, RowTypes
    <3> QED BY <3>4
  <2>2. schedules' = [schedules EXCEPT ![n] = row]
    BY <1>1, <1>6 DEF Beat!RunByHand
  <2>3. /\ Beat!Announced(n) /\ Beat!Changes
        /\ fired' = [fired EXCEPT ![n] = fired[n] + 1]
        /\ uncounted' = uncounted \cup {n} /\ n \in Beat!Rows
    BY <1>1, <1>6 DEF Beat!RunByHand
  <2> HIDE DEF row
  <2>4. fired' \in [Names -> Nat] /\ \A k \in Names \ {n} : fired'[k] = fired[k]
    BY <1>1, <2>3
  <2>5. schedules'[n] # None
    BY <1>1, <2>1, <2>2
  <2>6. CountedAt(n)'
    BY <1>2, <2>3, <2>5 DEF CountedAt
  <2> QED BY <2>1, <2>2, <2>3, <2>4, <2>6, TableChange
<1>7. ASSUME NEW on \in BOOLEAN, Beat!Update(n, on) PROVE BeatInv'
  <2> DEFINE row == [schedules[n] EXCEPT !.version = changes + 1, !.enabled = on,
                                         !.noChanges = FALSE]
  <2>1. row \in Schedules /\ row.count = schedules[n].count /\ row # None
    <3>1. n \in Beat!Rows
      BY <1>7 DEF Beat!Update
    <3>2. schedules[n] \in Schedules /\ changes + 1 \in Nat
      BY <1>1, <3>1
    <3>3. row \in Schedules /\ row.count = schedules[n].count
      BY <3>2, RowTypes
    <3> QED BY <3>3
  <2>2. /\ schedules' = [schedules EXCEPT ![n] = row]
        /\ Beat!Announced(n)
        /\ Beat!Changes /\ UNCHANGED <<fired, uncounted>> /\ n \in Beat!Rows
    BY <1>1, <1>7 DEF Beat!Update
  <2> HIDE DEF row
  <2>3. CountedAt(n)'
    BY <1>1, <1>2, <2>1, <2>2 DEF CountedAt, Reserved, Beat!Changes, Beat!beatVars
  <2> QED BY <1>1, <2>1, <2>2, <2>3, TableChange
<1> QED BY <1>3, <1>4, <1>5, <1>6, <1>7

\* The clock goes on, and the process reads the timestamp, begins to save and
\* dies: the table and the entries stay.
LEMMA TurnsKeepTheInvariant ==
    ASSUME None \notin Nat, BeatInv,
           Beat!Tick \/ Beat!ReadSchedule \/ Beat!Sync \/ Beat!Dies
    PROVE  BeatInv'
<1>1. UNCHANGED <<schedules, entries, fired, unseen, lastUpdate, changes>>
  BY DEF Beat!Tick, Beat!ReadSchedule, Beat!Sync, Beat!Dies, Beat!beatVars
<1>2. lastUpdate \in Nat /\ clock \in Nat /\ lastUpdate <= clock
  BY DEF BeatInv, BeatTyped
<1>3. \A n \in Names : /\ FollowsRow(n) => FollowsRow(n)'
                       /\ (n \in Beat!Rows)' <=> n \in Beat!Rows
  BY <1>1 DEF FollowsRow, Beat!Rows
<1>4. CASE Beat!Tick
  <2>1. clock' = clock + 1 /\ UNCHANGED <<mode, lastTimestamp, dirty, reloads, nested, reserving, uncounted>>
    BY <1>4 DEF Beat!Tick, Beat!beatVars
  <2>2. BeatTyped' /\ BeatModes'
    BY <1>1, <1>2, <2>1 DEF BeatInv, BeatTyped, BeatModes
  <2>3. ASSUME NEW n \in Names PROVE SeenAt(n)' /\ CountedAt(n)'
    BY <1>1, <1>3, <2>1 DEF BeatInv, SeenAt, CountedAt, Reserved, Beat!ScheduleChanged, Reloads
  <2> QED BY <2>2, <2>3 DEF BeatInv
<1>5. CASE Beat!ReadSchedule
  <2>1. /\ mode \in {"starting", "idle"} /\ lastTimestamp' = lastUpdate
        /\ mode' = IF Beat!ScheduleChanged THEN "sync" ELSE "idle"
        /\ reloads' = Beat!ScheduleChanged
        /\ UNCHANGED <<clock, dirty, nested, reserving, uncounted>>
    BY <1>5 DEF Beat!ReadSchedule
  <2>2. lastTimestamp' \in 0..clock' /\ lastTimestamp' # None
    BY <1>2, <2>1
  <2>3. BeatTyped'
    BY <1>1, <1>2, <2>1, <2>2 DEF BeatInv, BeatTyped
  <2>4. BeatModes'
    BY <2>1, <2>2 DEF BeatInv, BeatModes
  <2>5. ASSUME NEW n \in Names PROVE SeenAt(n)' /\ CountedAt(n)'
    <3>1. SeenAt(n)'
      <4>1. CASE Beat!ScheduleChanged
        BY <2>1, <4>1 DEF SeenAt, Reloads
      <4>2. CASE ~Beat!ScheduleChanged
        BY <1>1, <1>3, <2>1, <4>2 DEF BeatInv, SeenAt, Reloads
      <4> QED BY <4>1, <4>2
    <3>2. CountedAt(n)'
      BY <1>1, <1>3, <2>1 DEF BeatInv, CountedAt, Reserved
    <3> QED BY <3>1, <3>2
  <2> QED BY <2>3, <2>4, <2>5 DEF BeatInv
<1>6. CASE Beat!Sync
  <2>1. /\ mode = "idle" /\ mode' = "sync"
        /\ UNCHANGED <<clock, lastTimestamp, dirty, nested, reserving, uncounted>>
        /\ reserving = None
    BY <1>6 DEF Beat!Sync, BeatInv, BeatModes
  <2>2. BeatTyped' /\ BeatModes'
    BY <1>1, <2>1 DEF BeatInv, BeatTyped, BeatModes
  <2>3. ASSUME NEW n \in Names PROVE SeenAt(n)' /\ CountedAt(n)'
    BY <1>1, <1>3, <2>1 DEF BeatInv, SeenAt, CountedAt, Reserved, Beat!ScheduleChanged, Reloads
  <2> QED BY <2>2, <2>3 DEF BeatInv
<1>7. CASE Beat!Dies
  <2>1. /\ mode' = "down" /\ dirty' = {} /\ nested' = <<>>
        /\ uncounted' = uncounted \cup dirty \cup Beat!ToSet(nested)
                            \cup {n \in Names : reserving # None /\ reserving.name = n}
        /\ reserving' = None
        /\ UNCHANGED <<clock, lastTimestamp>>
    BY <1>7 DEF Beat!Dies
  <2>2. <<>> \in Seq(Names) /\ Beat!ToSet(<<>>) = {}
    BY DEF Beat!ToSet
  <2>3. BeatTyped'
    BY <1>1, <2>1, <2>2 DEF BeatInv, BeatTyped
  <2>4. BeatModes'
    BY <2>1 DEF BeatInv, BeatModes
  <2>5. ASSUME NEW n \in Names PROVE SeenAt(n)' /\ CountedAt(n)'
    BY <1>1, <1>3, <2>1, <2>2 DEF BeatInv, SeenAt, CountedAt, Reserved
  <2> QED BY <2>3, <2>4, <2>5 DEF BeatInv
<1> QED BY <1>4, <1>5, <1>6, <1>7

\* What a reload reads
LEMMA ReloadReads ==
    ASSUME BeatTyped
    PROVE  /\ DOMAIN Beat!AllAsSchedule = {n \in Beat!Rows : schedules[n].enabled}
           /\ DOMAIN Beat!AllAsSchedule \subseteq Names
           /\ Beat!AllAsSchedule \in [DOMAIN Beat!AllAsSchedule -> Entries]
           /\ \A n \in DOMAIN Beat!AllAsSchedule :
                 /\ n \in Beat!Rows
                 /\ Beat!AllAsSchedule[n].version = schedules[n].version
                 /\ Beat!AllAsSchedule[n].count = schedules[n].count
<1>1. \A n \in Beat!Rows : n \in Names /\ schedules[n] \in Schedules
  BY DEF BeatTyped, Beat!Rows
<1>2. \A n \in Beat!Rows :
         [version |-> schedules[n].version, count |-> schedules[n].count] \in Entries
  BY <1>1 DEF Schedules, Entries
<1>3. DOMAIN Beat!AllAsSchedule = {n \in Beat!Rows : schedules[n].enabled}
  BY DEF Beat!AllAsSchedule
<1>4. \A n \in DOMAIN Beat!AllAsSchedule :
         Beat!AllAsSchedule[n] = [version |-> schedules[n].version, count |-> schedules[n].count]
  BY DEF Beat!AllAsSchedule
<1>5. Beat!AllAsSchedule \in [DOMAIN Beat!AllAsSchedule -> Entries]
  <2>1. Beat!AllAsSchedule
          = [n \in DOMAIN Beat!AllAsSchedule |->
                [version |-> schedules[n].version, count |-> schedules[n].count]]
    BY <1>3 DEF Beat!AllAsSchedule
  <2> QED BY <1>2, <1>3, <2>1
<1>6. ASSUME NEW n \in DOMAIN Beat!AllAsSchedule
      PROVE  /\ n \in Beat!Rows
             /\ Beat!AllAsSchedule[n].version = schedules[n].version
             /\ Beat!AllAsSchedule[n].count = schedules[n].count
  <2>1. n \in Beat!Rows
    BY <1>3
  <2>2. Beat!AllAsSchedule[n] = [version |-> schedules[n].version, count |-> schedules[n].count]
    BY <1>4
  <2> QED BY <2>1, <2>2
<1>7. DOMAIN Beat!AllAsSchedule \subseteq Names
  BY <1>1, <1>3
<1> QED BY <1>3, <1>5, <1>6, <1>7

\* A reload in a step that leaves the table alone, when nothing is to be
\* saved: every run is counted in the table whose count was not lost.
LEMMA ReloadKeepsTheInvariant ==
    ASSUME BeatInv, entries' = Beat!AllAsSchedule, dirty = {}, dirty' = {},
           UNCHANGED <<schedules, lastUpdate, clock, changes, fired, reserving>>,
           uncounted \subseteq uncounted', nested' \in Seq(Names),
           \A n \in Beat!ToSet(nested) : n \in Beat!ToSet(nested') \/ n \in uncounted',
           Beat!ToSet(nested') \subseteq Beat!ToSet(nested),
           mode' \in {"down", "starting", "idle", "sync"}, BeatModes',
           lastTimestamp' = None \/ lastTimestamp' \in 0..clock
    PROVE  BeatInv'
<1>1. /\ DOMAIN entries' = {n \in Beat!Rows : schedules[n].enabled}
      /\ DOMAIN entries' \subseteq Names
      /\ entries' \in [DOMAIN entries' -> Entries]
      /\ \A n \in DOMAIN entries' :
            /\ n \in Beat!Rows
            /\ entries'[n].version = schedules[n].version
            /\ entries'[n].count = schedules[n].count
  BY ReloadReads DEF BeatInv
<1>2. BeatTyped'
  BY <1>1 DEF BeatInv, BeatTyped
<1>3. ASSUME NEW n \in Names PROVE SeenAt(n)' /\ CountedAt(n)'
  <2>1. (n \in Beat!Rows)' <=> n \in Beat!Rows
    BY DEF Beat!Rows
  <2>2. FollowsRow(n)'
    BY <1>1, <2>1 DEF FollowsRow
  <2>3. CountedAt(n)'
    <3>1. ASSUME n \in Beat!Rows, n \notin uncounted'
          PROVE  IF Reserved(n) THEN reserving.entry.count = fired[n] + 1
                 ELSE n \notin Beat!ToSet(nested') => schedules[n].count = fired[n]
      BY <3>1 DEF BeatInv, CountedAt
    <3>2. n \notin Beat!Rows /\ fired[n] = 0 => ~Reserved(n)
      BY DEF BeatInv, CountedAt
    <3>3. Reserved(n)' = Reserved(n)
      BY DEF Reserved
    <3>4. CASE Reserved(n)
      BY <1>1, <2>1, <3>1, <3>2, <3>3, <3>4 DEF CountedAt
    <3>5. CASE ~Reserved(n)
      BY <1>1, <2>1, <3>1, <3>2, <3>3, <3>5 DEF CountedAt
    <3> QED BY <3>4, <3>5
  <2> QED BY <2>2, <2>3 DEF SeenAt
<1> QED BY <1>2, <1>3 DEF BeatInv

\* The process starts, and a save ends.
LEMMA EndsKeepTheInvariant ==
    ASSUME None \notin Nat, BeatInv, Beat!Start \/ Beat!EndNested \/ Beat!EndSync
    PROVE  BeatInv'
<1>1. CASE Beat!Start
  <2>1. /\ mode = "down" /\ mode' = "starting" /\ entries' = Beat!AllAsSchedule
        /\ lastTimestamp' = None /\ dirty' = {}
        /\ UNCHANGED <<schedules, lastUpdate, clock, changes, nested, reserving, fired,
                       uncounted>>
    BY <1>1 DEF Beat!Start
  <2>2. dirty = {} /\ nested = <<>> /\ nested \in Seq(Names) /\ reserving = None
    BY <2>1 DEF BeatInv, BeatModes, BeatTyped
  <2>3. BeatModes'
    BY <2>1, <2>2 DEF BeatModes
  <2>4. Beat!ToSet(nested') = Beat!ToSet(nested)
    BY <2>1
  <2> QED BY <2>1, <2>2, <2>3, <2>4, ReloadKeepsTheInvariant
<1>2. CASE Beat!EndNested
  <2>1. /\ mode = "sync" /\ mode' = "sync" /\ entries' = Beat!AllAsSchedule
        /\ dirty = {} /\ dirty' = {} /\ nested # <<>> /\ nested' = Tail(nested)
        /\ uncounted' = uncounted \cup {Head(nested)}
        /\ UNCHANGED <<schedules, lastUpdate, clock, changes, fired, lastTimestamp, reloads,
                       reserving>>
    BY <1>2 DEF Beat!EndNested
  <2>2. nested \in Seq(Names) /\ (lastTimestamp = None \/ lastTimestamp \in 0..clock)
    BY DEF BeatInv, BeatTyped
  <2>3. /\ nested' \in Seq(Names)
        /\ Beat!ToSet(nested) = {Head(nested)} \cup Beat!ToSet(nested')
    BY <2>1, <2>2, NestedSets
  <2>4. BeatModes'
    BY <2>1 DEF BeatInv, BeatModes
  <2> QED BY <2>1, <2>2, <2>3, <2>4, ReloadKeepsTheInvariant
<1>3. CASE Beat!EndSync
  <2>1. /\ mode = "sync" /\ mode' = "idle" /\ dirty = {} /\ nested = <<>>
        /\ UNCHANGED <<schedules, lastUpdate, clock, changes, fired, lastTimestamp, dirty,
                       nested, reserving, uncounted, reloads>>
        /\ reserving = None
    BY <1>3 DEF Beat!EndSync
  <2>2. nested \in Seq(Names) /\ (lastTimestamp = None \/ lastTimestamp \in 0..clock)
    BY DEF BeatInv, BeatTyped
  <2>3. BeatModes'
    BY <2>1 DEF BeatInv, BeatModes
  <2>4. Beat!ToSet(nested') = Beat!ToSet(nested)
    BY <2>1
  <2>5. CASE reloads
    <3>1. entries' = Beat!AllAsSchedule
      BY <1>3, <2>5 DEF Beat!EndSync
    <3> QED BY <2>1, <2>2, <2>3, <2>4, <3>1, ReloadKeepsTheInvariant
  <2>6. CASE ~reloads
    <3>1. UNCHANGED <<entries, unseen>>
      BY <1>3, <2>6 DEF Beat!EndSync
    <3>2. BeatTyped'
      BY <2>1, <3>1 DEF BeatInv, BeatTyped
    <3>3. ASSUME NEW n \in Names PROVE SeenAt(n)' /\ CountedAt(n)'
      BY <2>1, <2>6, <3>1 DEF BeatInv, SeenAt, CountedAt, Reserved, FollowsRow, Reloads, Beat!Rows,
                              Beat!ScheduleChanged
    <3> QED BY <2>3, <3>2, <3>3 DEF BeatInv
  <2> QED BY <2>5, <2>6
<1> QED BY <1>1, <1>2, <1>3

\* A run is counted in the entry, which is stored now or after a reload.
LEMMA ReserveKeepsTheInvariant ==
    ASSUME None \notin Nat, None \notin [name : Names, entry : Entries],
           BeatInv, NEW n \in Names, Beat!Reserve(n)
    PROVE  BeatInv'
<1>1. /\ mode = "idle" /\ n \in DOMAIN entries
      /\ entries' = [entries EXCEPT ![n].count = @ + 1]
      /\ lastTimestamp' = lastUpdate
      /\ UNCHANGED <<schedules, lastUpdate, clock, changes, nested, unseen, uncounted>>
  BY DEF Beat!Reserve
<1> DEFINE entry == [entries[n] EXCEPT !.count = @ + 1]
           tally == IF n \in Beat!Rows THEN fired[n] + 1 ELSE fired[n]
<1>2. entries[n] \in Entries /\ entries[n].count \in Nat /\ fired[n] \in Nat
  BY <1>1 DEF BeatInv, BeatTyped, Entries
<1>3. entry \in Entries /\ entry.version = entries[n].version /\ entry.count = entries[n].count + 1
  BY <1>2 DEF Entries
<1>4. tally \in Nat
  BY <1>2
<1>5. entries' = [entries EXCEPT ![n] = entry]
  BY <1>1
<1> HIDE DEF entry
<1>6. /\ DOMAIN entries' = DOMAIN entries
      /\ entries' \in [DOMAIN entries -> Entries]
      /\ entries'[n] = entry
      /\ \A k \in DOMAIN entries \ {n} : entries'[k] = entries[k]
  <2>1. entries \in [DOMAIN entries -> Entries] /\ n \in DOMAIN entries
    BY <1>1 DEF BeatInv, BeatTyped
  <2>2. entry \in Entries
    BY <1>3
  <2> QED BY <1>5, <2>1, <2>2
<1>7. /\ nested = <<>> /\ Beat!ToSet(nested) = {} /\ reserving = None
      /\ \A k \in Names : ~Reserved(k)
  BY <1>1 DEF BeatInv, BeatModes, Beat!ToSet, Reserved
<1>8. lastTimestamp' \in 0..clock /\ lastTimestamp # None
  BY <1>1 DEF BeatInv, BeatTyped, BeatModes
<1>9. \A k \in Names : (k \in Beat!Rows)' <=> k \in Beat!Rows
  BY <1>1 DEF Beat!Rows
<1>10. CASE Beat!ScheduleChanged
  <2>1. /\ reserving' = [name |-> n, entry |-> entries'[n]]
        /\ mode' = "sync" /\ reloads' = TRUE /\ UNCHANGED <<fired, dirty>>
    BY <1>10 DEF Beat!Reserve
  <2>2. reserving' \in [name : Names, entry : Entries]
    BY <1>3, <1>6, <2>1
  <2>3. BeatTyped'
    BY <1>1, <1>6, <1>8, <2>1, <2>2 DEF BeatInv, BeatTyped
  <2>4. lastTimestamp' # None
    BY <1>8 DEF BeatInv, BeatTyped
  <2>5. BeatModes'
    BY <1>1, <1>7, <2>1, <2>4 DEF BeatInv, BeatModes
  <2>6. ASSUME NEW k \in Names PROVE SeenAt(k)' /\ CountedAt(k)'
    <3>1. SeenAt(k)'
      BY <2>1 DEF SeenAt, Reloads
    <3>2. CountedAt(k) /\ ~Reserved(k)
      BY <1>7 DEF BeatInv
    <3>3. Reserved(n)' /\ reserving'.entry = entry /\ (k # n => ~Reserved(k)')
      <4>1. reserving'.name = n /\ reserving'.entry = entry
        BY <1>6, <2>1
      <4>2. reserving' # None
        BY <2>2
      <4> QED BY <4>1, <4>2 DEF Reserved
    <3>4. CASE k = n
      <4>1. k \notin Beat!Rows => fired[k] # 0
        BY <1>1, <3>2, <3>4 DEF CountedAt
      <4>2. k \in Beat!Rows \ uncounted => entry.count = fired[k] + 1
        BY <1>1, <1>3, <1>7, <3>2, <3>4 DEF CountedAt
      <4>3. Reserved(k)' /\ reserving'.entry.count = entry.count
        BY <3>3, <3>4
      <4>4. k \in Beat!Rows' \ uncounted' => reserving'.entry.count = fired'[k] + 1
        BY <1>1, <1>9, <2>1, <4>2, <4>3
      <4>5. ~(k \notin Beat!Rows' /\ fired'[k] = 0)
        BY <1>9, <2>1, <4>1
      <4> QED BY <3>1, <4>3, <4>4, <4>5 DEF CountedAt
    <3>5. CASE k # n
      <4>1. /\ fired'[k] = fired[k] /\ schedules'[k] = schedules[k] /\ uncounted' = uncounted
            /\ dirty' = dirty /\ nested' = nested /\ ~Reserved(k)'
        BY <1>1, <2>1, <3>3, <3>5
      <4>2. k \in DOMAIN entries => entries'[k] = entries[k]
        BY <1>6, <3>5
      <4> QED BY <1>6, <3>1, <1>9, <3>2, <4>1, <4>2 DEF CountedAt
    <3> QED BY <3>1, <3>4, <3>5
  <2> QED BY <2>3, <2>5, <2>6 DEF BeatInv
<1>11. CASE ~Beat!ScheduleChanged
  <2>1. /\ fired' = [fired EXCEPT ![n] = tally]
        /\ dirty' = dirty \cup {n} /\ UNCHANGED <<reserving, mode, reloads>>
    BY <1>11 DEF Beat!Reserve
  <2>2. /\ fired' \in [Names -> Nat] /\ fired'[n] = tally
        /\ \A k \in Names \ {n} : fired'[k] = fired[k]
    <3> HIDE DEF tally
    <3> QED BY <1>4, <2>1 DEF BeatInv, BeatTyped
  <2>3. BeatTyped'
    BY <1>1, <1>6, <1>8, <2>1, <2>2 DEF BeatInv, BeatTyped
  <2>4. lastTimestamp' # None
    BY <1>8 DEF BeatInv, BeatTyped
  <2>5. BeatModes'
    BY <1>1, <1>7, <2>1, <2>4 DEF BeatInv, BeatModes
  <2>6. ASSUME NEW k \in Names PROVE SeenAt(k)' /\ CountedAt(k)'
    <3>1. FollowsRow(k) => FollowsRow(k)'
      BY <1>1, <1>3, <1>6, <1>9 DEF FollowsRow
    <3>2. SeenAt(k)'
      BY <1>1, <1>11, <2>1, <3>1 DEF BeatInv, SeenAt, Reloads
    <3>3. CountedAt(k) /\ Beat!ToSet(nested') = {} /\ ~Reserved(k) /\ ~Reserved(k)'
      BY <1>1, <1>7, <2>1 DEF BeatInv, Reserved
    <3>4. CASE k = n
      <4>1. k \in Beat!Rows \ uncounted => entries'[k].count = fired'[k]
        BY <1>1, <1>2, <1>3, <1>6, <1>7, <2>2, <3>3, <3>4 DEF CountedAt
      <4>2. k \notin Beat!Rows => fired'[k] # 0
        BY <1>1, <2>2, <3>3, <3>4 DEF CountedAt
      <4>3. k \in dirty' /\ uncounted' = uncounted
        BY <1>1, <2>1, <3>4
      <4> QED BY <1>9, <3>2, <3>3, <4>1, <4>2, <4>3 DEF CountedAt
    <3>5. CASE k # n
      <4>1. fired'[k] = fired[k] /\ schedules'[k] = schedules[k] /\ uncounted' = uncounted
        BY <1>1, <2>2, <3>5
      <4>2. k \in DOMAIN entries => entries'[k] = entries[k]
        BY <1>6, <3>5
      <4>3. k \in dirty' <=> k \in dirty
        BY <2>1, <3>5
      <4> QED BY <1>6, <1>7, <1>9, <3>2, <3>3, <4>1, <4>2, <4>3 DEF CountedAt
    <3> QED BY <3>2, <3>4, <3>5
  <2> QED BY <2>3, <2>5, <2>6 DEF BeatInv
<1> QED BY <1>10, <1>11

\* The entry is stored over the one that the reload read: it counts the run that
\* is sent, and what it does not show of its row is taken for unseen.
LEMMA EndReserveKeepsTheInvariant ==
    ASSUME BeatInv, Beat!EndReserve
    PROVE  BeatInv'
<1> DEFINE n == reserving.name
           read == Beat!AllAsSchedule
           tally == IF n \in Beat!Rows THEN fired[n] + 1 ELSE fired[n]
<1>1. /\ mode = "sync" /\ mode' = "idle" /\ dirty = {} /\ nested = <<>> /\ reserving # None
      /\ entries' = [k \in DOMAIN read \cup {n} |->
                        IF k = n THEN reserving.entry ELSE read[k]]
      /\ unseen' = {k \in {n} : k \in DOMAIN read =>
                                    read[k].version # reserving.entry.version}
      /\ fired' = [fired EXCEPT ![n] = tally]
      /\ dirty' = {n} /\ reserving' = None
      /\ UNCHANGED <<schedules, lastUpdate, clock, changes, lastTimestamp, nested, uncounted>>
  BY DEF Beat!EndReserve
<1>2. n \in Names /\ reserving.entry \in Entries
  BY <1>1 DEF BeatInv, BeatTyped
<1>3. /\ DOMAIN read = {k \in Beat!Rows : schedules[k].enabled}
      /\ DOMAIN read \subseteq Names
      /\ read \in [DOMAIN read -> Entries]
      /\ \A k \in DOMAIN read :
            /\ k \in Beat!Rows
            /\ read[k].version = schedules[k].version
            /\ read[k].count = schedules[k].count
  BY ReloadReads DEF BeatInv
<1>4. fired[n] \in Nat /\ tally \in Nat
  BY <1>2 DEF BeatInv, BeatTyped
<1> HIDE DEF read, n
<1>5. /\ DOMAIN entries' = DOMAIN read \cup {n}
      /\ entries' \in [DOMAIN entries' -> Entries]
      /\ entries'[n] = reserving.entry
      /\ \A k \in DOMAIN read \ {n} : entries'[k] = read[k]
  BY <1>1, <1>2, <1>3
<1>6. /\ fired' \in [Names -> Nat] /\ fired'[n] = tally
      /\ \A k \in Names \ {n} : fired'[k] = fired[k]
  <2> HIDE DEF tally
  <2> QED BY <1>1, <1>2, <1>4 DEF BeatInv, BeatTyped
<1>7. BeatTyped'
  BY <1>1, <1>2, <1>3, <1>5, <1>6 DEF BeatInv, BeatTyped
<1>8. Beat!ToSet(nested') = {} /\ Beat!ToSet(nested) = {}
  BY <1>1 DEF Beat!ToSet
<1>9. BeatModes'
  BY <1>1, <1>8 DEF BeatInv, BeatModes
<1>10. ASSUME NEW k \in Names PROVE SeenAt(k)' /\ CountedAt(k)'
  <2>1. (k \in Beat!Rows)' <=> k \in Beat!Rows
    BY <1>1 DEF Beat!Rows
  <2>2. CountedAt(k) /\ ~Reserved(k)'
    BY <1>1 DEF BeatInv, Reserved
  <2>3. k \notin unseen' => FollowsRow(k)'
    BY <1>1, <1>3, <1>5, <2>1 DEF FollowsRow
  <2>4. SeenAt(k)'
    BY <2>3 DEF SeenAt
  <2>5. CASE k = n
    <3>1. Reserved(k)
      BY <1>1, <2>5 DEF Reserved, n
    <3>2. k \in Beat!Rows \ uncounted => entries'[k].count = fired'[k]
      BY <1>5, <1>6, <2>2, <2>5, <3>1 DEF CountedAt
    <3>3. k \notin Beat!Rows => fired'[k] # 0
      BY <1>6, <2>2, <2>5, <3>1 DEF CountedAt
    <3> QED BY <1>1, <2>1, <2>2, <2>4, <2>5, <3>2, <3>3 DEF CountedAt
  <2>6. CASE k # n
    <3>1. ~Reserved(k)
      BY <2>6 DEF Reserved, n
    <3>2. k \in Beat!Rows \ uncounted => schedules[k].count = fired[k]
      BY <1>1, <1>8, <2>2, <3>1 DEF CountedAt
    <3>3. fired'[k] = fired[k] /\ schedules'[k] = schedules[k] /\ uncounted' = uncounted
      BY <1>1, <1>6, <2>6
    <3>4. k \in DOMAIN entries' => /\ k \in Beat!Rows
                                   /\ entries'[k].count = schedules[k].count
      BY <1>3, <1>5, <2>6
    <3> QED BY <2>1, <2>2, <2>4, <3>2, <3>3, <3>4 DEF CountedAt
  <2> QED BY <2>4, <2>5, <2>6
<1> QED BY <1>7, <1>9, <1>10 DEF BeatInv

\* A name is saved, or put off by a change that is met.
LEMMA PopKeepsTheInvariant ==
    ASSUME None \notin Nat, None \notin Schedules, BeatInv, NEW n \in Names, Beat!Pop(n)
    PROVE  BeatInv'
<1>1. /\ mode = "sync" /\ n \in dirty /\ dirty' = dirty \ {n} /\ lastTimestamp' = lastUpdate
      /\ UNCHANGED <<lastUpdate, clock, changes, mode, entries, reloads, reserving, fired, unseen,
                     uncounted>>
  BY DEF Beat!Pop
<1>2. lastTimestamp' \in 0..clock' /\ lastTimestamp' # None
  BY <1>1 DEF BeatInv, BeatTyped
<1>3. nested \in Seq(Names) /\ n \notin Beat!ToSet(nested)
  BY <1>1 DEF BeatInv, BeatTyped, BeatModes
<1>4. CASE Beat!ScheduleChanged
  <2>1. nested' = <<n>> \o nested /\ UNCHANGED schedules
    BY <1>4 DEF Beat!Pop
  <2>2. /\ nested' \in Seq(Names) /\ nested' # <<>>
        /\ Beat!ToSet(nested') = {n} \cup Beat!ToSet(nested)
    BY <1>3, <2>1, NestedSets
  <2>3. BeatTyped'
    BY <1>1, <1>2, <2>1, <2>2 DEF BeatInv, BeatTyped
  <2>4. BeatModes'
    BY <1>1, <1>2, <2>2 DEF BeatInv, BeatModes
  <2>5. ASSUME NEW k \in Names PROVE SeenAt(k)' /\ CountedAt(k)'
    <3>1. SeenAt(k)'
      BY <1>1, <2>2 DEF SeenAt, Reloads
    <3>2. CountedAt(k)'
      BY <1>1, <2>1, <2>2 DEF BeatInv, CountedAt, Reserved, Beat!Rows
    <3> QED BY <3>1, <3>2
  <2> QED BY <2>3, <2>4, <2>5 DEF BeatInv
<1>5. CASE ~Beat!ScheduleChanged
  <2>1. /\ n \in Beat!Rows /\ UNCHANGED nested
        /\ schedules' = [schedules EXCEPT ![n].count = entries[n].count, ![n].noChanges = TRUE]
    BY <1>5 DEF Beat!Pop
  <2> DEFINE row == [schedules[n] EXCEPT !.count = entries[n].count, !.noChanges = TRUE]
  <2>2. schedules[n] \in Schedules
    BY <2>1 DEF BeatInv, BeatTyped, Beat!Rows
  <2>3. n \in DOMAIN entries /\ entries[n].count \in Nat
    BY <1>1 DEF BeatInv, BeatTyped, Entries
  <2>4. row \in Schedules
    BY <2>2, <2>3, RowTypes
  <2>5. /\ row.version = schedules[n].version /\ row.enabled = schedules[n].enabled
        /\ row.count = entries[n].count
    BY <2>2 DEF Schedules
  <2>6. schedules' = [schedules EXCEPT ![n] = row]
    BY <2>1, <2>2 DEF BeatInv, BeatTyped
  <2> HIDE DEF row
  <2>7. /\ schedules' \in [Names -> Schedules \cup {None}] /\ schedules'[n] = row
        /\ \A k \in Names \ {n} : schedules'[k] = schedules[k]
    BY <2>4, <2>6 DEF BeatInv, BeatTyped
  <2>8. BeatTyped' /\ BeatModes'
    BY <1>1, <1>2, <2>1, <2>7 DEF BeatInv, BeatTyped, BeatModes
  <2>9. ASSUME NEW k \in Names PROVE SeenAt(k)' /\ CountedAt(k)'
    <3>1. (k \in Beat!Rows)' <=> k \in Beat!Rows
      BY <2>1, <2>4, <2>7 DEF Beat!Rows
    <3>2. /\ schedules'[k].version = schedules[k].version
          /\ schedules'[k].enabled = schedules[k].enabled
      BY <2>5, <2>7
    <3>3. FollowsRow(k) => FollowsRow(k)'
      BY <1>1, <3>1, <3>2 DEF FollowsRow
    <3>4. SeenAt(k)'
      BY <1>1, <1>5, <2>1, <3>3 DEF BeatInv, SeenAt, Reloads
    <3>5. CountedAt(k)'
      <4>1. CASE k = n
        BY <1>1, <1>3, <2>1, <2>3, <2>5, <2>7, <3>1, <4>1 DEF BeatInv, CountedAt, Reserved
      <4>2. CASE k # n
        BY <1>1, <2>1, <2>7, <3>1, <4>2 DEF BeatInv, CountedAt, Reserved
      <4> QED BY <4>1, <4>2
    <3> QED BY <3>4, <3>5
  <2> QED BY <2>8, <2>9 DEF BeatInv
<1> QED BY <1>4, <1>5

\* The beat scheduler: what runs is what the table says, and is counted there,
\* for any number of schedules, of changes and of processes that die, but for
\* the changes and counts that BeatFollowsTheTable excepts.
THEOREM BeatRunsTheTable ==
    ASSUME None \notin Nat, None \notin Schedules,
           None \notin [name : Names, entry : Entries], MaxFires \in Nat \ {0}
    PROVE  Spec => []BeatFollowsTheTable
<1>1. Beat!Init => BeatInv
  <2> SUFFICES ASSUME Beat!Init PROVE BeatInv
    OBVIOUS
  <2>1. /\ lastUpdate = 0 /\ clock = 0 /\ changes = 0 /\ mode = "down" /\ entries = << >>
        /\ lastTimestamp = None /\ dirty = {} /\ nested = <<>> /\ reserving = None
        /\ fired = [n \in Names |-> 0]
        /\ schedules = [n \in Names |-> IF n \in First THEN Beat!Row(0) ELSE None]
    BY DEF Beat!Init
  <2>2. /\ DOMAIN <<>> = {} /\ <<>> \in [{} -> Entries] /\ <<>> \in Seq(Names) /\ 0 \in Nat
        /\ Beat!ToSet(<<>>) = {}
    BY DEF Beat!ToSet
  <2>3. Beat!Row(0) \in Schedules /\ Beat!Row(0).count = 0
    BY DEF Beat!Row, Schedules
  <2>4. schedules \in [Names -> Schedules \cup {None}]
    BY <2>1, <2>3
  <2>5. BeatTyped
    BY <2>1, <2>2, <2>4 DEF BeatTyped
  <2>6. BeatModes
    BY <2>1 DEF BeatModes
  <2>7. ASSUME NEW n \in Names PROVE SeenAt(n) /\ CountedAt(n)
    BY <2>1, <2>2, <2>3 DEF SeenAt, CountedAt, Reserved, Beat!Rows
  <2> QED BY <2>5, <2>6, <2>7 DEF BeatInv
<1>2. BeatInv /\ [Beat!Next]_Beat!bvars => BeatInv'
  <2> SUFFICES ASSUME BeatInv, [Beat!Next]_Beat!bvars PROVE BeatInv'
    OBVIOUS
  <2>1. CASE UNCHANGED Beat!bvars
    BY <2>1 DEF Beat!bvars, BeatInv, BeatTyped, BeatModes, SeenAt, CountedAt, Reserved, FollowsRow,
                Reloads, Beat!Rows, Beat!ScheduleChanged
  <2> QED BY <2>1, RequestsKeepTheInvariant, TurnsKeepTheInvariant, EndsKeepTheInvariant,
             ReserveKeepsTheInvariant, EndReserveKeepsTheInvariant, PopKeepsTheInvariant
             DEF Beat!Next
<1>3. BeatInv => BeatFollowsTheTable
  <2> SUFFICES ASSUME BeatInv, mode = "idle"
               PROVE  /\ lastTimestamp = lastUpdate => \A n \in Names \ unseen : FollowsRow(n)
                      /\ \A n \in Beat!Rows \ (dirty \cup uncounted) :
                            schedules[n].count = fired[n]
    BY DEF BeatFollowsTheTable, Beat!BeatFollowsTheTable, FollowsRow
  <2>1. nested = <<>> /\ Beat!ToSet(nested) = {} /\ reserving = None
    BY DEF BeatInv, BeatModes, Beat!ToSet
  <2>2. ASSUME lastTimestamp = lastUpdate, NEW n \in Names \ unseen PROVE FollowsRow(n)
    BY <2>2 DEF BeatInv, BeatTyped, SeenAt, Beat!ScheduleChanged, Reloads
  <2>3. ASSUME NEW n \in Beat!Rows \ (dirty \cup uncounted) PROVE schedules[n].count = fired[n]
    BY <2>1 DEF BeatInv, CountedAt, Reserved, Beat!Rows
  <2> QED BY <2>2, <2>3
<1> QED BY <1>1, <1>2, <1>3, PartsRunByThemselves, PTL DEF Beat!Spec
-----------------------------------------------------------------------------
(* ScheduledRun: a query has a status when its start left the chain, and one
   that it ended with when its run left it; the result that is handed on is
   the one of a query that ended, and as long as it is DONE, so are all that
   ended. *)

Ended == {"DONE", "ERROR", "CANCEL"}

\* The statuses of executions and of records
RunWords == Ended \cup {"RUNNING", "SUCCESS", "FAILURE"}

RunTyped ==
    /\ DOMAIN cells \subseteq Nat \ {0}
    /\ phase \in {"build", "chain", "success", "failure", "over"}
    /\ chain \subseteq {"start", "run"} \X DocRun!Queries
    /\ statuses \in [DOMAIN cells -> Ended \cup {"RUNNING", None}]

ChainIsToGo ==
    phase \in {"chain", "success"} =>
        \A i \in DocRun!Queries :
            /\ <<"start", i>> \in chain <=> statuses[i] = None
            /\ <<"run", i>> \in chain <=> statuses[i] \notin Ended

InOrder ==
    \A i \in DocRun!Queries :
        statuses[i] # None => \A j \in DocRun!Queries : j < i => statuses[j] = "DONE"

HandedOver ==
    \E m \in DocRun!Queries :
        /\ statuses[m] \in Ended
        /\ \/ handed = <<statuses[m], m>>
           \/ handed = <<None, m>> /\ (statuses[m] = "DONE" => excuses # {})

DoneSoFar ==
    handed[1] = "DONE" =>
        \A m \in DocRun!Queries : statuses[m] \in Ended => statuses[m] = "DONE"

Closed ==
    /\ excuses \cap DocRun!Unwritten = {} => record \in {"SUCCESS", "FAILURE"}
    /\ excuses = {} /\ DocRun!AllDone => record = "SUCCESS"

RunPhases ==
    /\ phase = "build" => excuses = {} /\ \A i \in DocRun!Queries : statuses[i] = None
    /\ phase = "chain" => chain # {}
    /\ phase \in {"chain", "success"} => DoneSoFar
    /\ phase = "success" => chain = {} /\ HandedOver
    /\ phase = "failure" /\ excuses = {} => ~DocRun!AllDone
    /\ record = "SUCCESS" => phase = "over" /\ DocRun!AllDone
    /\ phase = "over" => Closed

RunInv == RunTyped /\ ChainIsToGo /\ InOrder /\ RunPhases

\* What every step of a run leaves as it is.
LEMMA RunStaysTyped ==
    ASSUME RunTyped, DocRun!Next
    PROVE  RunTyped' /\ DocRun!Queries' = DocRun!Queries /\ excuses \subseteq excuses'
<1>1. cells' = cells /\ DocRun!Queries' = DocRun!Queries
  <2>1. cells' = cells
    BY DEF DocRun!Next, DocRun!Build, DocRun!RenderingFails, DocRun!BuildFails, DocRun!Archived,
           DocRun!StartQueryExecution, DocRun!StartRaises, DocRun!RunQueryRaises, DocRun!RunQuery,
           DocRun!RunBeside, DocRun!RemoveCell, DocRun!OnSuccess, DocRun!OnFailure, DocRun!Raises
  <2> QED BY <2>1 DEF DocRun!Queries
<1>2. DocRun!Queries \subseteq DOMAIN cells
  BY DEF DocRun!Queries
<1>3. ASSUME DocRun!Build \/ DocRun!RenderingFails \/ DocRun!BuildFails \/ DocRun!Archived
      PROVE  RunTyped' /\ excuses \subseteq excuses'
  <2>1. /\ UNCHANGED statuses /\ excuses \subseteq excuses'
        /\ chain' = chain \/ chain' = {"start", "run"} \X DocRun!Queries
        /\ phase' \in {"chain", "over"}
    BY <1>3 DEF DocRun!Build, DocRun!RenderingFails, DocRun!BuildFails, DocRun!Archived,
                DocRun!LeftOpen
  <2> QED BY <1>1, <2>1 DEF RunTyped
<1>4. ASSUME NEW i \in DocRun!Queries, NEW s \in Ended \cup {"RUNNING"},
             statuses' = statuses \/ statuses' = [statuses EXCEPT ![i] = s]
      PROVE  statuses' \in [DOMAIN cells' -> Ended \cup {"RUNNING", None}]
  BY <1>1, <1>2, <1>4 DEF RunTyped
<1>5. ASSUME NEW i \in DocRun!Queries,
             \/ DocRun!StartQueryExecution(i) \/ DocRun!StartRaises(i) \/ DocRun!RunBeside(i)
             \/ \E s \in Ended : \/ DocRun!RunQueryRaises(i, s)
                                 \/ \E own \in BOOLEAN : DocRun!RunQuery(i, s, own)
      PROVE  RunTyped' /\ excuses \subseteq excuses'
  <2>1. statuses' \in [DOMAIN cells' -> Ended \cup {"RUNNING", None}]
    <3>1. \E s \in Ended \cup {"RUNNING"} :
             statuses' = statuses \/ statuses' = [statuses EXCEPT ![i] = s]
      BY <1>5 DEF Ended, DocRun!StartQueryExecution, DocRun!StartRaises, DocRun!RunBeside,
                  DocRun!RunQueryRaises, DocRun!RunQuery
    <3> QED BY <1>4, <3>1
  <2>2. /\ chain' \subseteq chain /\ excuses \subseteq excuses'
        /\ phase' \in {"build", "chain", "success", "failure", "over"}
    BY <1>5 DEF RunTyped, DocRun!StartQueryExecution, DocRun!StartRaises, DocRun!RunBeside,
                DocRun!RunQueryRaises, DocRun!RunQuery, DocRun!Raises
  <2> QED BY <1>1, <2>1, <2>2 DEF RunTyped
<1>6. ASSUME \/ DocRun!OnSuccess \/ DocRun!OnFailure
             \/ \E i \in DocRun!Queries : DocRun!RemoveCell(i)
      PROVE  RunTyped' /\ excuses \subseteq excuses'
  <2>1. /\ UNCHANGED <<chain, statuses>> /\ excuses \subseteq excuses'
        /\ phase' \in {"build", "chain", "success", "failure", "over"}
    BY <1>6 DEF RunTyped, DocRun!OnSuccess, DocRun!OnFailure, DocRun!RemoveCell,
                DocRun!Completes, DocRun!LeftOpen
  <2> QED BY <1>1, <2>1 DEF RunTyped
<1> QED BY <1>1, <1>3, <1>5, <1>6 DEF DocRun!Next, Ended

\* A chain that goes on has a query that is not done.
LEMMA SomeNotDone ==
    ASSUME None \notin RunWords, RunInv, phase = "chain"
    PROVE  ~DocRun!AllDone
<1>1. PICK task \in chain : TRUE
  BY DEF RunInv, RunPhases
<1>2. PICK kind \in {"start", "run"}, i \in DocRun!Queries : task = <<kind, i>>
  BY <1>1 DEF RunInv, RunTyped
<1>3. statuses[i] = None \/ statuses[i] \notin Ended
  BY <1>1, <1>2 DEF RunInv, ChainIsToGo
<1> QED BY <1>2, <1>3 DEF DocRun!AllDone, Ended, RunWords

\* The tasks are chained, or the run ends before.
LEMMA BuildKeepsTheInvariant ==
    ASSUME None \notin RunWords, RunInv, RunTyped',
           DocRun!Build \/ DocRun!RenderingFails \/ DocRun!BuildFails \/ DocRun!Archived
    PROVE  RunInv'
<1>1. /\ phase = "build" /\ UNCHANGED <<cells, statuses>>
      /\ excuses = {} /\ \A i \in DocRun!Queries : statuses[i] = None
      /\ record # "SUCCESS"
  BY DEF RunInv, RunPhases, DocRun!Build, DocRun!RenderingFails, DocRun!BuildFails,
         DocRun!Archived
<1>2. DocRun!Queries' = DocRun!Queries
  BY <1>1 DEF DocRun!Queries
<1>3. InOrder'
  BY <1>1, <1>2 DEF InOrder
<1>4. DocRun!Queries # {} => ~DocRun!AllDone'
  BY <1>1, <1>2 DEF DocRun!AllDone, RunWords, Ended
<1>5. ASSUME phase' = "over", record' # "SUCCESS", Closed' PROVE RunInv'
  BY <1>3, <1>5 DEF RunInv, ChainIsToGo, RunPhases
<1>6. CASE DocRun!Build
  <2>1. CASE 1 \notin DocRun!Queries
    <3>1. /\ phase' = "over" /\ record' = "RUNNING"
          /\ \E why \in {"empty", "first is blank"} : why \in excuses'
      BY <1>6, <2>1 DEF DocRun!Build
    <3>2. Closed'
      BY <3>1 DEF Closed, DocRun!Unwritten
    <3> QED BY <1>5, <3>1, <3>2
  <2>2. CASE 1 \in DocRun!Queries
    <3>1. /\ phase' = "chain" /\ record' = "RUNNING" /\ UNCHANGED excuses
          /\ chain' = {"start", "run"} \X DocRun!Queries
      BY <1>6, <2>2 DEF DocRun!Build
    <3>2. chain' # {}
      <4>1. <<"start", 1>> \in chain'
        BY <2>2, <3>1
      <4> QED BY <4>1
    <3>3. None \notin Ended
      BY DEF RunWords
    <3>4. ChainIsToGo'
      BY <1>1, <1>2, <3>1, <3>3 DEF ChainIsToGo
    <3>5. RunPhases'
      BY <1>1, <1>2, <3>1, <3>2, <3>3 DEF RunPhases, DoneSoFar
    <3> QED BY <1>3, <3>4, <3>5 DEF RunInv
  <2> QED BY <2>1, <2>2
<1>7. CASE DocRun!RenderingFails
  <2>1. phase' = "over" /\ record' = "FAILURE" /\ ~DocRun!AllDone'
    BY <1>4, <1>7 DEF DocRun!RenderingFails
  <2>2. Closed'
    BY <2>1 DEF Closed
  <2> QED BY <1>5, <2>1, <2>2
<1>8. CASE DocRun!BuildFails \/ DocRun!Archived
  <2>1. /\ phase' = "over" /\ record' \in {"RUNNING", record}
        /\ \E why \in {"not queued", "archived"} : why \in excuses'
    BY <1>8 DEF DocRun!BuildFails, DocRun!Archived, DocRun!LeftOpen
  <2>2. Closed'
    BY <2>1 DEF Closed, DocRun!Unwritten
  <2> QED BY <1>1, <1>5, <2>1, <2>2
<1> QED BY <1>6, <1>7, <1>8

\* What runs next: everything above it ended.
LEMMA AllAboveEnded ==
    ASSUME None \notin RunWords, RunInv, phase = "chain", NEW i \in DocRun!Queries,
           DocRun!IsNext(<<"start", i>>) \/ DocRun!IsNext(<<"run", i>>)
    PROVE  \A j \in DocRun!Queries : /\ j < i => statuses[j] \in Ended
                                     /\ j > i => statuses[j] = None
<1>0. DocRun!Queries \subseteq Nat
  BY DEF RunInv, RunTyped, DocRun!Queries
<1>1. ASSUME NEW j \in DocRun!Queries, j < i PROVE statuses[j] \in Ended
  <2>1. /\ <<"run", j>>[2] = j /\ <<"start", i>>[2] = i /\ <<"run", i>>[2] = i
        /\ <<"run", j>> # <<"start", i>> /\ <<"run", j>> # <<"run", i>>
    BY <1>0, <1>1
  <2>2. ~(j > i)
    BY <1>0, <1>1
  <2>3. <<"run", j>> \notin chain
    BY <2>1, <2>2 DEF DocRun!IsNext
  <2> QED BY <2>3 DEF RunInv, ChainIsToGo
<1>2. ASSUME NEW j \in DocRun!Queries, j > i PROVE statuses[j] = None
  <2>1. statuses[i] = "RUNNING" \/ statuses[i] = None
    <3>1. statuses[i] = None \/ statuses[i] \notin Ended
      BY DEF DocRun!IsNext, RunInv, ChainIsToGo
    <3>2. statuses[i] \in Ended \cup {"RUNNING", None}
      BY DEF RunInv, RunTyped, DocRun!Queries
    <3> QED BY <3>1, <3>2
  <2>2. statuses[i] # "DONE"
    BY <2>1 DEF RunWords, Ended
  <2> QED BY <1>0, <1>2, <2>2 DEF RunInv, InOrder
<1> QED BY <1>1, <1>2

\* A query whose start is next begins with a result that is DONE: all above it
\* are.
LEMMA StartedInOrder ==
    ASSUME None \notin RunWords, RunInv, phase = "chain", NEW i \in DocRun!Queries,
           DocRun!IsNext(<<"start", i>>), DocRun!Starts,
           statuses' = [statuses EXCEPT ![i] = "RUNNING"],
           DocRun!Queries' = DocRun!Queries
    PROVE  /\ InOrder'
           /\ statuses[i] = None /\ statuses'[i] = "RUNNING"
           /\ \A j \in DocRun!Queries \ {i} : statuses'[j] = statuses[j]
<1>1. /\ statuses'[i] = "RUNNING"
      /\ \A j \in DocRun!Queries \ {i} : statuses'[j] = statuses[j]
  BY DEF RunInv, RunTyped, DocRun!Queries
<1>2. statuses[i] = None
  BY DEF DocRun!IsNext, RunInv, ChainIsToGo
<1>3. DoneSoFar /\ handed[1] = "DONE"
  BY DEF RunInv, RunPhases, DocRun!Starts
<1>4. ASSUME NEW k \in DocRun!Queries, statuses'[k] # None, NEW j \in DocRun!Queries, j < k
      PROVE  statuses'[j] = "DONE"
  <2>1. CASE k = i
    <3>1. statuses[j] \in Ended
      BY <1>4, <2>1, AllAboveEnded
    <3>2. statuses[j] = "DONE" /\ j # i
      BY <1>2, <1>3, <3>1 DEF DoneSoFar, Ended, RunWords
    <3> QED BY <1>1, <3>2
  <2>2. CASE k # i
    <3>1. statuses[j] = "DONE"
      BY <1>1, <1>4, <2>2 DEF RunInv, InOrder
    <3>2. j # i
      BY <1>2, <3>1 DEF Ended, RunWords
    <3> QED BY <1>1, <3>1, <3>2
  <2> QED BY <2>1, <2>2
<1>5. InOrder'
  BY <1>4 DEF InOrder
<1> QED BY <1>1, <1>2, <1>5

\* A query is started, or is not.
LEMMA QueryStartKeepsTheInvariant ==
    ASSUME None \notin RunWords, RunInv, RunTyped', DocRun!Queries' = DocRun!Queries,
           NEW i \in DocRun!Queries,
           DocRun!StartQueryExecution(i) \/ DocRun!StartRaises(i)
    PROVE  RunInv'
<1>1. phase = "chain" /\ DocRun!IsNext(<<"start", i>>) /\ UNCHANGED <<cells, handed, record, excuses>>
  BY DEF DocRun!StartQueryExecution, DocRun!StartRaises, DocRun!Raises
<1>2. record # "SUCCESS" /\ DoneSoFar /\ ~DocRun!AllDone
  BY <1>1, SomeNotDone DEF RunInv, RunPhases
<1>3. CASE DocRun!StartQueryExecution(i)
  <2>1. /\ statuses' = [statuses EXCEPT ![i] = "RUNNING"]
        /\ chain' = chain \ {<<"start", i>>} /\ phase' = "chain" /\ DocRun!Starts
    BY <1>1, <1>3 DEF DocRun!StartQueryExecution
  <2>2. /\ InOrder' /\ statuses[i] = None /\ statuses'[i] = "RUNNING"
        /\ \A j \in DocRun!Queries \ {i} : statuses'[j] = statuses[j]
    BY <1>1, <2>1, StartedInOrder
  <2>3. <<"run", i>> \in chain
    <3>1. statuses[i] \notin Ended
      BY <2>2 DEF RunWords
    <3> QED BY <1>1, <3>1 DEF RunInv, ChainIsToGo
  <2>4. ChainIsToGo'
    <3>1. ASSUME NEW j \in DocRun!Queries
          PROVE  /\ <<"start", j>> \in chain' <=> statuses'[j] = None
                 /\ <<"run", j>> \in chain' <=> statuses'[j] \notin Ended
      <4>1. CASE j = i
        BY <2>1, <2>2, <2>3, <4>1 DEF Ended, RunWords
      <4>2. CASE j # i
        BY <1>1, <2>1, <2>2, <4>2 DEF RunInv, ChainIsToGo
      <4> QED BY <4>1, <4>2
    <3> QED BY <3>1 DEF ChainIsToGo
  <2>5. RunPhases'
    <3>1. DoneSoFar'
      BY <1>1, <1>2, <2>2 DEF DoneSoFar, Ended
    <3>2. chain' # {}
      BY <2>1, <2>3
    <3> QED BY <1>1, <1>2, <2>1, <3>1, <3>2 DEF RunPhases
  <2> QED BY <2>2, <2>4, <2>5 DEF RunInv
<1>4. CASE DocRun!StartRaises(i)
  <2>1. phase' = "failure"
    BY <1>4 DEF DocRun!StartRaises, DocRun!Raises
  <2>2. InOrder' /\ ~DocRun!AllDone'
    <3>1. CASE UNCHANGED statuses
      BY <1>2, <3>1 DEF RunInv, InOrder, DocRun!AllDone
    <3>2. CASE DocRun!Starts /\ statuses' = [statuses EXCEPT ![i] = "RUNNING"]
      <4>1. InOrder' /\ statuses'[i] = "RUNNING"
        BY <1>1, <3>2, StartedInOrder
      <4> QED BY <4>1 DEF DocRun!AllDone
    <3> QED BY <1>4, <3>1, <3>2 DEF DocRun!StartRaises
  <2> QED BY <1>1, <1>2, <2>1, <2>2 DEF RunInv, ChainIsToGo, RunPhases
<1> QED BY <1>3, <1>4

\* A query ends: everything that ended before it is done.
LEMMA QueryEnds ==
    ASSUME None \notin RunWords, RunInv, phase = "chain", NEW i \in DocRun!Queries,
           NEW s \in Ended, DocRun!IsNext(<<"run", i>>),
           statuses' = [statuses EXCEPT ![i] = s], DocRun!Queries' = DocRun!Queries
    PROVE  /\ InOrder'
           /\ statuses[i] = "RUNNING" /\ <<"start", i>> \notin chain /\ statuses'[i] = s
           /\ \A j \in DocRun!Queries \ {i} : statuses'[j] = statuses[j]
           /\ \A j \in DocRun!Queries : statuses[j] \in Ended => statuses[j] = "DONE"
<1>1. /\ statuses'[i] = s
      /\ \A j \in DocRun!Queries \ {i} : statuses'[j] = statuses[j]
  BY DEF RunInv, RunTyped, DocRun!Queries
<1>2. statuses[i] = "RUNNING" /\ <<"start", i>> \notin chain
  <2>1. <<"run", i>> \in chain /\ <<"start", i>> # <<"run", i>>
    BY DEF DocRun!IsNext
  <2>2. <<"start", i>> \notin chain
    <3>1. ~(i > i) /\ <<"start", i>>[2] = i /\ <<"run", i>>[2] = i
      BY DEF RunInv, RunTyped, DocRun!Queries
    <3> QED BY <2>1, <3>1 DEF DocRun!IsNext
  <2> QED BY <2>1, <2>2 DEF RunInv, ChainIsToGo, RunTyped, DocRun!Queries
<1>3. ASSUME NEW j \in DocRun!Queries, statuses[j] \in Ended PROVE statuses[j] = "DONE"
  <2>1. statuses[j] # None
    BY <1>3 DEF RunWords
  <2>2. j \in Nat /\ i \in Nat
    BY DEF RunInv, RunTyped, DocRun!Queries
  <2>3. j # i
    BY <1>2, <1>3 DEF Ended
  <2>4. ~(j > i)
    BY <2>1, AllAboveEnded
  <2>5. j < i
    BY <2>2, <2>3, <2>4
  <2>6. statuses[i] # None
    BY <1>2 DEF RunWords
  <2> QED BY <2>5, <2>6 DEF RunInv, InOrder
<1>4. ASSUME NEW k \in DocRun!Queries, statuses'[k] # None, NEW j \in DocRun!Queries, j < k
      PROVE  statuses'[j] = "DONE"
  <2>1. statuses[k] # None
    BY <1>1, <1>2, <1>4 DEF RunWords
  <2>2. statuses[j] = "DONE"
    BY <1>4, <2>1 DEF RunInv, InOrder
  <2>3. j # i
    BY <1>2, <2>2
  <2> QED BY <1>1, <2>2, <2>3
<1>5. InOrder'
  BY <1>4 DEF InOrder
<1> QED BY <1>1, <1>2, <1>3, <1>5

\* A query ends and hands its status on, or nothing.
LEMMA RunKeepsTheInvariant ==
    ASSUME None \notin RunWords, RunInv, RunTyped', DocRun!Queries' = DocRun!Queries,
           NEW i \in DocRun!Queries, NEW s \in Ended, NEW own \in BOOLEAN,
           DocRun!RunQuery(i, s, own)
    PROVE  RunInv'
<1>1. /\ phase = "chain" /\ DocRun!IsNext(<<"run", i>>)
      /\ statuses' = [statuses EXCEPT ![i] = s]
      /\ handed' = <<IF own THEN s ELSE None, i>> /\ chain' = chain \ {<<"run", i>>}
      /\ phase' = IF chain' = {} THEN "success" ELSE "chain"
      /\ ~own /\ s = "DONE" => "delivered again" \in excuses'
      /\ UNCHANGED record
  BY DEF DocRun!RunQuery
<1>2. /\ InOrder'
      /\ statuses[i] = "RUNNING" /\ <<"start", i>> \notin chain /\ statuses'[i] = s
      /\ \A j \in DocRun!Queries \ {i} : statuses'[j] = statuses[j]
      /\ \A j \in DocRun!Queries : statuses[j] \in Ended => statuses[j] = "DONE"
  BY <1>1, QueryEnds
<1>3. ChainIsToGo'
  <2>1. ASSUME NEW j \in DocRun!Queries
        PROVE  /\ <<"start", j>> \in chain' <=> statuses'[j] = None
               /\ <<"run", j>> \in chain' <=> statuses'[j] \notin Ended
    <3>1. CASE j = i
      BY <1>1, <1>2, <3>1 DEF Ended, RunWords
    <3>2. CASE j # i
      BY <1>1, <1>2, <3>2 DEF RunInv, ChainIsToGo
    <3> QED BY <3>1, <3>2
  <2> QED BY <2>1 DEF ChainIsToGo
<1>4. RunPhases'
  <2>1. handed'[1] = "DONE" => s = "DONE"
    BY <1>1 DEF RunWords, Ended
  <2>2. DoneSoFar'
    BY <1>2, <2>1 DEF DoneSoFar
  <2>3. HandedOver'
    BY <1>1, <1>2 DEF HandedOver
  <2>4. record' # "SUCCESS"
    BY <1>1 DEF RunInv, RunPhases
  <2> QED BY <1>1, <2>2, <2>3, <2>4 DEF RunPhases
<1> QED BY <1>2, <1>3, <1>4 DEF RunInv

\* A query ends and its task raises.
LEMMA RaisingKeepsTheInvariant ==
    ASSUME None \notin RunWords, RunInv, RunTyped', DocRun!Queries' = DocRun!Queries,
           NEW i \in DocRun!Queries, NEW s \in Ended, DocRun!RunQueryRaises(i, s)
    PROVE  RunInv'
<1>1. /\ phase = "chain" /\ DocRun!IsNext(<<"run", i>>)
      /\ statuses' = [statuses EXCEPT ![i] = s]
      /\ phase' = "failure" /\ "raised" \in excuses' /\ UNCHANGED record
  BY DEF DocRun!RunQueryRaises, DocRun!Raises
<1>2. InOrder'
  BY <1>1, QueryEnds
<1>3. record' # "SUCCESS"
  BY <1>1 DEF RunInv, RunPhases
<1> QED BY <1>1, <1>2, <1>3 DEF RunInv, ChainIsToGo, RunPhases

\* The callbacks close the record.
LEMMA CallbacksKeepTheInvariant ==
    ASSUME None \notin RunWords, RunInv, RunTyped', DocRun!Queries' = DocRun!Queries,
           DocRun!OnSuccess \/ DocRun!OnFailure
    PROVE  RunInv'
<1>1. UNCHANGED statuses /\ phase' = "over" /\ record # "SUCCESS"
  BY DEF DocRun!OnSuccess, DocRun!OnFailure, DocRun!Completes, DocRun!LeftOpen, RunInv, RunPhases
<1>2. DocRun!AllDone' = DocRun!AllDone
  BY <1>1 DEF DocRun!AllDone
<1>3. InOrder'
  BY <1>1 DEF RunInv, InOrder
<1>4. excuses' = {} => excuses = {}
  BY DEF DocRun!OnSuccess, DocRun!OnFailure, DocRun!Completes, DocRun!LeftOpen
<1>5. CASE DocRun!OnSuccess
  <2>1. /\ \A m \in DocRun!Queries : statuses[m] \in Ended
        /\ DoneSoFar /\ HandedOver
    BY <1>5 DEF DocRun!OnSuccess, RunInv, RunPhases, ChainIsToGo
  <2>2. /\ handed[1] = "DONE" => DocRun!AllDone
        /\ DocRun!AllDone /\ excuses = {} => handed[1] = "DONE"
    BY <2>1 DEF DocRun!AllDone, DoneSoFar, HandedOver
  <2>3. (record' = "SUCCESS" => DocRun!AllDone) /\ Closed'
    <3>1. CASE DocRun!LeftOpen("no message") \/ DocRun!LeftOpen("not written")
      BY <1>1, <3>1 DEF DocRun!LeftOpen, Closed, DocRun!Unwritten
    <3>2. CASE record' = IF handed[1] = "DONE" THEN "SUCCESS" ELSE "FAILURE"
      BY <1>2, <1>4, <2>2, <3>2 DEF Closed
    <3>3. CASE record' = "FAILURE" /\ "raised" \in excuses'
      BY <3>3 DEF Closed
    <3>4. \/ DocRun!LeftOpen("no message") \/ DocRun!LeftOpen("not written")
          \/ record' = IF handed[1] = "DONE" THEN "SUCCESS" ELSE "FAILURE"
          \/ record' = "FAILURE" /\ "raised" \in excuses'
      BY <1>5 DEF DocRun!OnSuccess, DocRun!Completes
    <3> QED BY <3>1, <3>2, <3>3, <3>4
  <2> QED BY <1>1, <1>2, <1>3, <2>3 DEF RunInv, ChainIsToGo, RunPhases
<1>6. CASE DocRun!OnFailure
  <2>1. phase = "failure" /\ (excuses = {} => ~DocRun!AllDone)
    BY <1>6 DEF DocRun!OnFailure, RunInv, RunPhases
  <2>2. DocRun!LeftOpen("not written") \/ record' = "FAILURE"
    BY <1>6 DEF DocRun!OnFailure, DocRun!Completes
  <2>3. record' # "SUCCESS" /\ Closed'
    <3>1. CASE DocRun!LeftOpen("not written")
      BY <1>1, <3>1 DEF DocRun!LeftOpen, Closed, DocRun!Unwritten
    <3>2. CASE record' = "FAILURE"
      BY <1>2, <1>4, <2>1, <3>2 DEF Closed
    <3> QED BY <2>2, <3>1, <3>2
  <2> QED BY <1>1, <1>3, <2>3 DEF RunInv, ChainIsToGo, RunPhases
<1> QED BY <1>5, <1>6

\* A scheduled run: a query runs only after all above it are done, and the
\* record says whether all of them are, for any document and any outcome of
\* its queries, but for the exceptions that RecordTellsTheOutcome names.
THEOREM RecordIsRight ==
    ASSUME None \notin RunWords
    PROVE  Spec => []RecordTellsTheOutcome
<1> DEFINE Inv == RunTyped /\ ("run beside" \notin excuses => RunInv)
<1>1. DocRun!Init => Inv
  <2> SUFFICES ASSUME DocRun!Init PROVE RunInv
    BY DEF RunInv
  <2>1. PICK n \in 0..MaxCells : cells \in [1..n -> {"blank", "query"}]
    BY DEF DocRun!Init
  <2>2. DOMAIN cells \subseteq Nat \ {0}
    BY <2>1
  <2>3. /\ chain = {} /\ phase = "build" /\ excuses = {} /\ record = None
        /\ statuses = [i \in DOMAIN cells |-> None]
    BY DEF DocRun!Init
  <2>4. RunTyped
    BY <2>2, <2>3 DEF RunTyped
  <2>5. \A i \in DocRun!Queries : statuses[i] = None
    BY <2>3 DEF DocRun!Queries
  <2>6. record # "SUCCESS"
    BY <2>3 DEF RunWords
  <2> QED BY <2>3, <2>4, <2>5, <2>6 DEF RunInv, ChainIsToGo, InOrder, RunPhases
<1>2. Inv /\ [DocRun!Next]_DocRun!rvars => Inv'
  <2> SUFFICES ASSUME Inv, [DocRun!Next]_DocRun!rvars PROVE Inv'
    OBVIOUS
  <2>1. ASSUME RunInv, UNCHANGED <<cells, chain, handed, statuses, phase, record, excuses>>
        PROVE  RunInv'
    BY <2>1 DEF RunInv, RunTyped, ChainIsToGo, InOrder, RunPhases, DoneSoFar, HandedOver,
                Closed, DocRun!Queries, DocRun!AllDone
  <2>2. CASE UNCHANGED DocRun!rvars
    <3>1. UNCHANGED <<cells, chain, handed, statuses, phase, record, excuses>>
      BY <2>2 DEF DocRun!rvars
    <3> QED BY <2>1, <3>1 DEF RunTyped, DocRun!Queries
  <2>3. CASE DocRun!Next
    <3>1. RunTyped' /\ DocRun!Queries' = DocRun!Queries /\ excuses \subseteq excuses'
      BY <2>3, RunStaysTyped
    <3>2. ASSUME "run beside" \notin excuses' PROVE RunInv'
      <4>1. RunInv
        BY <3>1, <3>2
      <4>2. ASSUME NEW i \in DocRun!Queries, NEW s \in {"DONE", "ERROR", "CANCEL"},
                   \/ DocRun!RunQueryRaises(i, s)
                   \/ \E own \in BOOLEAN : DocRun!RunQuery(i, s, own)
            PROVE  RunInv'
        BY <3>1, <4>1, <4>2, RunKeepsTheInvariant, RaisingKeepsTheInvariant DEF Ended
      <4>3. ASSUME NEW i \in DocRun!Queries, DocRun!RemoveCell(i) PROVE RunInv'
        BY <2>1, <4>1, <4>3 DEF DocRun!RemoveCell
      <4>4. ASSUME NEW i \in DocRun!Queries, DocRun!RunBeside(i) PROVE FALSE
        BY <3>2, <4>4 DEF DocRun!RunBeside
      <4> QED BY <2>3, <3>1, <4>1, <4>2, <4>3, <4>4, BuildKeepsTheInvariant,
                 QueryStartKeepsTheInvariant, CallbacksKeepTheInvariant DEF DocRun!Next
    <3> QED BY <3>1, <3>2
  <2> QED BY <2>2, <2>3
<1>3. Inv => RecordTellsTheOutcome
  BY DEF RunInv, InOrder, RunPhases, Closed, RecordTellsTheOutcome, DocRun!RecordTellsTheOutcome
<1> QED BY <1>1, <1>2, <1>3, PartsRunByThemselves, PTL DEF DocRun!Spec
-----------------------------------------------------------------------------
(* Recurrence: the form has days in the fields of its kind alone, and as long
   as it is as it was opened, it is the one that the row's cron opens. *)

Policies == {"hourly", "daily", "weekly", "monthly", "yearly", "cron"}
DayKeys == {"dayMonth", "month", "dayWeek"}
FieldSets == (SUBSET Nat) \cup {Editor!Step}
CronType == [minute : FieldSets, hour : FieldSets, dayMonth : FieldSets, month : FieldSets,
             dayWeek : FieldSets]

Forms == {r \in [recurrence : Policies, cron : CronType, on : [DayKeys -> SUBSET Nat],
                 minute : Nat, hour : Nat] :
            \A f \in DayKeys : f \notin Editor!Keys(r.recurrence) => r.on[f] = {}}

EditorInv ==
    /\ cron \in CronType
    /\ form # None => form \in Forms /\ (~touched => form = Editor!ToRecurrence(cron))

\* The days of each kind of schedule
LEMMA KeysOfPolicies ==
    /\ Editor!Keys("yearly") = {"dayMonth", "month"}
    /\ Editor!Keys("monthly") = {"dayMonth"}
    /\ Editor!Keys("weekly") = {"dayWeek"}
    /\ Editor!Keys("hourly") = {} /\ Editor!Keys("daily") = {} /\ Editor!Keys("cron") = {}
  BY DEF Editor!Keys

\* A cron that the editor supports has one minute, at most one hour, and no
\* range; if it has no hour it has no days.
LEMMA SupportedCrons ==
    ASSUME NEW c \in CronType, Editor!Supported(c)
    PROVE  /\ c \in [minute : SUBSET Nat, hour : SUBSET Nat, dayMonth : SUBSET Nat,
                     month : SUBSET Nat, dayWeek : SUBSET Nat]
           /\ c.minute = {Editor!Number(c.minute)} /\ Editor!Number(c.minute) \in Nat
           /\ c.hour # {} =>
                 c.hour = {Editor!Number(c.hour)} /\ Editor!Number(c.hour) \in Nat
           /\ c.hour = {} => c.dayMonth = {} /\ c.month = {} /\ c.dayWeek = {}
           /\ c.dayWeek # {} => c.dayMonth = {} /\ c.month = {}
<1>1. DOMAIN c = {"minute", "hour", "dayMonth", "month", "dayWeek"}
  BY DEF CronType
<1>2. \A f \in DOMAIN c : c[f] \in SUBSET Nat
  <2>1. \A f \in DOMAIN c : c[f] # Editor!Step
    BY DEF Editor!Supported
  <2>2. \A f \in DOMAIN c : c[f] \in FieldSets
    BY <1>1 DEF CronType
  <2> QED BY <2>1, <2>2 DEF FieldSets
<1>3. c \in [minute : SUBSET Nat, hour : SUBSET Nat, dayMonth : SUBSET Nat,
             month : SUBSET Nat, dayWeek : SUBSET Nat]
  BY <1>1, <1>2 DEF CronType
<1>4. c.minute # {}
  BY DEF Editor!Supported, Editor!IsHourly, Editor!Any
<1>5. \A s \in SUBSET Nat : Editor!AtMostOne(s) /\ s # {} =>
                               s = {Editor!Number(s)} /\ Editor!Number(s) \in Nat
  <2>1. ASSUME NEW s \in SUBSET Nat, Editor!AtMostOne(s), s # {}
        PROVE  s = {Editor!Number(s)} /\ Editor!Number(s) \in Nat
    <3>1. Editor!Number(s) \in s
      BY <2>1 DEF Editor!Number
    <3> QED BY <2>1, <3>1 DEF Editor!AtMostOne
  <2> QED BY <2>1
<1>6. Editor!AtMostOne(c.minute) /\ Editor!AtMostOne(c.hour)
  BY DEF Editor!Supported
<1>7. c.hour = {} => c.dayMonth = {} /\ c.month = {} /\ c.dayWeek = {}
  BY DEF Editor!Supported, Editor!IsHourly, Editor!Any
<1>8. c.dayWeek # {} => c.dayMonth = {} /\ c.month = {}
  BY DEF Editor!Supported, Editor!Any
<1> QED BY <1>3, <1>4, <1>5, <1>6, <1>7, <1>8

\* The days that are read are those of the kind.
LEMMA DaysRead ==
    ASSUME NEW c, NEW policy
    PROVE  /\ Editor!DaysOf(c, policy) =
                 [f \in DayKeys |-> IF f \in Editor!Keys(policy) THEN c[f] ELSE {}]
           /\ Editor!DaysOf(c, policy).dayMonth =
                 IF "dayMonth" \in Editor!Keys(policy) THEN c["dayMonth"] ELSE {}
           /\ Editor!DaysOf(c, policy).month =
                 IF "month" \in Editor!Keys(policy) THEN c["month"] ELSE {}
           /\ Editor!DaysOf(c, policy).dayWeek =
                 IF "dayWeek" \in Editor!Keys(policy) THEN c["dayWeek"] ELSE {}
<1>1. DOMAIN Editor!NoDays = DayKeys
  BY DEF Editor!NoDays, DayKeys
<1>2. Editor!DaysOf(c, policy) =
        [f \in DayKeys |-> IF f \in Editor!Keys(policy) THEN c[f] ELSE {}]
  BY <1>1 DEF Editor!DaysOf, Editor!Any
<1> QED BY <1>2 DEF DayKeys

\* The kind of a cron
LEMMA PolicyOfCron ==
    ASSUME NEW c
    PROVE  /\ Editor!Policy(c) \in Policies
           /\ Editor!Policy(c) = "cron" <=> ~Editor!Supported(c)
           /\ Editor!Policy(c) = "yearly" => c.dayMonth # {} /\ c.month # {}
           /\ Editor!Policy(c) = "monthly" => c.dayMonth # {} /\ c.month = {}
           /\ Editor!Policy(c) = "weekly" => c.dayMonth = {} /\ c.dayWeek # {}
           /\ Editor!Policy(c) = "daily" => c.dayMonth = {} /\ c.dayWeek = {} /\ c.hour # {}
           /\ Editor!Policy(c) = "hourly" => c.dayMonth = {} /\ c.dayWeek = {} /\ c.hour = {}
  BY DEF Editor!Policy, Policies, Editor!Any

\* The form of a cron
LEMMA FormOfCron ==
    ASSUME NEW c \in CronType
    PROVE  Editor!ToRecurrence(c) \in Forms
<1> DEFINE policy == Editor!Policy(c)
           kept == IF policy = "cron" THEN c ELSE Editor!NoCron
           on == Editor!DaysOf(c, policy)
           minutes == IF policy = "cron" THEN 0 ELSE Editor!Number(c.minute)
           hours == IF policy \in {"cron", "hourly"} THEN 0 ELSE Editor!Number(c.hour)
<1>1. Editor!ToRecurrence(c) = [recurrence |-> policy, cron |-> kept, on |-> on,
                                minute |-> minutes, hour |-> hours]
  BY DEF Editor!ToRecurrence
<1>2. policy \in Policies
  BY PolicyOfCron
<1>3. kept \in CronType
  <2>1. {} \in FieldSets
    BY DEF FieldSets
  <2>2. Editor!NoCron \in CronType
    BY <2>1 DEF Editor!NoCron, Editor!Any, CronType
  <2> QED BY <2>2
<1>4. policy # "cron" => Editor!Supported(c)
  BY PolicyOfCron
<1>5. on \in [DayKeys -> SUBSET Nat] /\ \A f \in DayKeys : f \notin Editor!Keys(policy) => on[f] = {}
  <2>1. CASE policy = "cron"
    BY <2>1, KeysOfPolicies, DaysRead
  <2>2. CASE policy # "cron"
    <3>1. \A f \in DayKeys : c[f] \in SUBSET Nat
      BY <1>4, <2>2, SupportedCrons DEF DayKeys
    <3> QED BY <3>1, DaysRead
  <2> QED BY <2>1, <2>2
<1>6. minutes \in Nat
  BY <1>4, SupportedCrons
<1>7. hours \in Nat
  <2>1. policy \notin {"cron", "hourly"} => c.hour # {}
    <3>1. ASSUME policy \notin {"cron", "hourly"} PROVE c.hour # {}
      <4>1. policy \in {"yearly", "monthly", "weekly", "daily"}
        BY <1>2, <3>1 DEF Policies
      <4> QED BY <1>4, <4>1, PolicyOfCron, SupportedCrons
    <3> QED BY <3>1
  <2> QED BY <1>4, <2>1, SupportedCrons
<1> HIDE DEF policy, kept, on, minutes, hours
<1> QED BY <1>1, <1>2, <1>3, <1>5, <1>6, <1>7 DEF Forms

\* The cron of a form
LEMMA CronOfForm ==
    ASSUME NEW r \in Forms
    PROVE  /\ Editor!ToCron(r) \in CronType
           /\ r.recurrence # "cron" =>
                 Editor!ToCron(r) = [minute |-> {r.minute},
                                     hour |-> IF r.recurrence = "hourly" THEN {} ELSE {r.hour},
                                     dayMonth |-> r.on["dayMonth"], month |-> r.on["month"],
                                     dayWeek |-> r.on["dayWeek"]]
<1>1. /\ r.on \in [DayKeys -> SUBSET Nat] /\ r.minute \in Nat /\ r.hour \in Nat
      /\ r.cron \in CronType
      /\ \A f \in DayKeys : f \notin Editor!Keys(r.recurrence) => r.on[f] = {}
  BY DEF Forms
<1>2. ASSUME r.recurrence # "cron"
      PROVE  Editor!ToCron(r) = [minute |-> {r.minute},
                                 hour |-> IF r.recurrence = "hourly" THEN {} ELSE {r.hour},
                                 dayMonth |-> r.on["dayMonth"], month |-> r.on["month"],
                                 dayWeek |-> r.on["dayWeek"]]
  <2>1. /\ Editor!DaysOf(r.on, r.recurrence).dayMonth = r.on["dayMonth"]
        /\ Editor!DaysOf(r.on, r.recurrence).month = r.on["month"]
        /\ Editor!DaysOf(r.on, r.recurrence).dayWeek = r.on["dayWeek"]
    BY <1>1, DaysRead DEF DayKeys
  <2> QED BY <1>2, <2>1 DEF Editor!ToCron, Editor!Any
<1>3. r.recurrence = "cron" => Editor!ToCron(r) = r.cron
  BY DEF Editor!ToCron
<1>4. r.recurrence # "cron" => Editor!ToCron(r) \in CronType
  <2>1. /\ {r.minute} \in FieldSets /\ {r.hour} \in FieldSets /\ {} \in FieldSets
        /\ \A f \in DayKeys : r.on[f] \in FieldSets
    BY <1>1 DEF FieldSets
  <2> QED BY <1>2, <2>1 DEF CronType, DayKeys
<1> QED BY <1>1, <1>2, <1>3, <1>4

\* A cron that is opened and submitted stays as it was.
LEMMA OpenedStays ==
    ASSUME NEW c \in CronType, ~(c.month # {} /\ c.dayMonth = {})
    PROVE  Editor!ToCron(Editor!ToRecurrence(c)) = c
<1> DEFINE r == Editor!ToRecurrence(c)
           policy == Editor!Policy(c)
<1>1. /\ r \in Forms /\ r.recurrence = policy
      /\ policy = "cron" => r.cron = c
      /\ r.on = Editor!DaysOf(c, policy)
      /\ policy # "cron" => r.minute = Editor!Number(c.minute)
      /\ policy \notin {"cron", "hourly"} => r.hour = Editor!Number(c.hour)
  BY FormOfCron DEF Editor!ToRecurrence
<1>2. policy \in Policies
  BY PolicyOfCron
<1> HIDE DEF r
<1>3. CASE policy = "cron"
  BY <1>1, <1>3 DEF Editor!ToCron, r
<1>4. CASE policy # "cron"
  <2>1. Editor!Supported(c)
    BY <1>4, PolicyOfCron
  <2>2. Editor!ToCron(r) = [minute |-> {r.minute},
                            hour |-> IF policy = "hourly" THEN {} ELSE {r.hour},
                            dayMonth |-> r.on["dayMonth"], month |-> r.on["month"],
                            dayWeek |-> r.on["dayWeek"]]
    BY <1>1, <1>4, CronOfForm
  <2>3. c.minute = {r.minute}
    BY <1>1, <1>4, <2>1, SupportedCrons
  <2>4. c.hour = IF policy = "hourly" THEN {} ELSE {r.hour}
    <3>1. CASE policy = "hourly"
      BY <3>1, PolicyOfCron
    <3>2. CASE policy # "hourly"
      <4>1. c.hour # {}
        <5>1. policy \in {"yearly", "monthly", "weekly", "daily"}
          BY <1>2, <1>4, <3>2 DEF Policies
        <5> QED BY <2>1, <5>1, PolicyOfCron, SupportedCrons
      <4> QED BY <1>1, <1>4, <2>1, <3>2, <4>1, SupportedCrons
    <3> QED BY <3>1, <3>2
  <2>5. /\ c.dayMonth = r.on["dayMonth"] /\ c.month = r.on["month"]
        /\ c.dayWeek = r.on["dayWeek"]
    <3>1. /\ r.on["dayMonth"] = IF "dayMonth" \in Editor!Keys(policy) THEN c.dayMonth ELSE {}
          /\ r.on["month"] = IF "month" \in Editor!Keys(policy) THEN c.month ELSE {}
          /\ r.on["dayWeek"] = IF "dayWeek" \in Editor!Keys(policy) THEN c.dayWeek ELSE {}
      BY <1>1, DaysRead
    <3>2. /\ c.dayWeek # {} => c.dayMonth = {} /\ c.month = {}
          /\ c.dayMonth = {} => c.month = {}
      BY <2>1, SupportedCrons
    <3>3. CASE policy = "yearly"
      <4>1. c.dayMonth # {} /\ c.month # {}
        BY <3>3, PolicyOfCron
      <4> QED BY <3>1, <3>2, <3>3, <4>1, KeysOfPolicies
    <3>4. CASE policy = "monthly"
      <4>1. c.dayMonth # {} /\ c.month = {}
        BY <3>4, PolicyOfCron
      <4> QED BY <3>1, <3>2, <3>4, <4>1, KeysOfPolicies
    <3>5. CASE policy = "weekly"
      <4>1. c.dayMonth = {} /\ c.dayWeek # {}
        BY <3>5, PolicyOfCron
      <4> QED BY <3>1, <3>2, <3>5, <4>1, KeysOfPolicies
    <3>6. CASE policy \in {"hourly", "daily"}
      <4>1. c.dayMonth = {} /\ c.dayWeek = {}
        BY <3>6, PolicyOfCron
      <4> QED BY <3>1, <3>2, <3>6, <4>1, KeysOfPolicies
    <3> QED BY <1>2, <1>4, <3>3, <3>4, <3>5, <3>6 DEF Policies
  <2>6. c = [minute |-> c.minute, hour |-> c.hour, dayMonth |-> c.dayMonth,
             month |-> c.month, dayWeek |-> c.dayWeek]
    BY DEF CronType
  <2>7. Editor!ToCron(r) = c
    BY <2>2, <2>3, <2>4, <2>5, <2>6
  <2> QED BY <2>7 DEF r
<1> QED BY <1>3, <1>4

\* A form that is valid opens again as it was left.
LEMMA LeftOpensAgain ==
    ASSUME NEW r \in Forms, Editor!Valid(r), r.recurrence # "cron"
    PROVE  LET again == Editor!ToRecurrence(Editor!ToCron(r))
           IN  /\ again.recurrence = r.recurrence
               /\ again.on = r.on
               /\ again.minute = r.minute
               /\ again.hour = r.hour \/ r.recurrence = "hourly"
<1> DEFINE c == Editor!ToCron(r)
           policy == r.recurrence
<1>1. /\ r.on \in [DayKeys -> SUBSET Nat] /\ r.minute \in Nat /\ r.hour \in Nat
      /\ policy \in {"hourly", "daily", "weekly", "monthly", "yearly"}
      /\ \A f \in DayKeys : f \notin Editor!Keys(policy) => r.on[f] = {}
      /\ \A f \in Editor!Keys(policy) : r.on[f] # {}
  BY DEF Forms, Policies, Editor!Valid, Editor!Any
<1>2. c = [minute |-> {r.minute}, hour |-> IF policy = "hourly" THEN {} ELSE {r.hour},
           dayMonth |-> r.on["dayMonth"], month |-> r.on["month"],
           dayWeek |-> r.on["dayWeek"]]
  BY CronOfForm
<1> HIDE DEF c
<1>3. /\ c.minute = {r.minute} /\ c.hour = IF policy = "hourly" THEN {} ELSE {r.hour}
      /\ c.dayMonth = r.on["dayMonth"] /\ c.month = r.on["month"] /\ c.dayWeek = r.on["dayWeek"]
      /\ DOMAIN c = {"minute", "hour", "dayMonth", "month", "dayWeek"}
  BY <1>2
<1>4. /\ c.dayMonth # {} <=> policy \in {"yearly", "monthly"}
      /\ c.month # {} <=> policy = "yearly"
      /\ c.dayWeek # {} <=> policy = "weekly"
      /\ c.hour # {} <=> policy # "hourly"
  <2>1. /\ "dayMonth" \in Editor!Keys(policy) <=> policy \in {"yearly", "monthly"}
        /\ "month" \in Editor!Keys(policy) <=> policy = "yearly"
        /\ "dayWeek" \in Editor!Keys(policy) <=> policy = "weekly"
    BY <1>1, KeysOfPolicies
  <2>2. "dayMonth" \in DayKeys /\ "month" \in DayKeys /\ "dayWeek" \in DayKeys
    BY DEF DayKeys
  <2> QED BY <1>1, <1>3, <2>1, <2>2
<1>5. Editor!Supported(c)
  <2>1. \A f \in DOMAIN c : c[f] # Editor!Step
    <3>1. /\ c.minute \in SUBSET Nat /\ c.hour \in SUBSET Nat /\ c.dayMonth \in SUBSET Nat
          /\ c.month \in SUBSET Nat /\ c.dayWeek \in SUBSET Nat
      BY <1>1, <1>3 DEF DayKeys
    <3>2. \A s \in SUBSET Nat : s # Editor!Step
      BY DEF Editor!Step
    <3> QED BY <1>3, <3>1, <3>2
  <2>2. Editor!AtMostOne(c.minute) /\ Editor!AtMostOne(c.hour)
    BY <1>3 DEF Editor!AtMostOne
  <2>3. (c.minute # {} /\ c.hour # {}) \/ Editor!IsHourly(c)
    BY <1>1, <1>3, <1>4 DEF Editor!IsHourly, Editor!Any
  <2>4. ~((c.dayMonth # {} \/ c.month # {}) /\ c.dayWeek # {})
    BY <1>1, <1>4
  <2> QED BY <2>1, <2>2, <2>3, <2>4 DEF Editor!Supported, Editor!Any
<1>6. Editor!Policy(c) = policy
  BY <1>1, <1>4, <1>5 DEF Editor!Policy, Editor!Any
<1>7. Editor!DaysOf(c, policy) = r.on
  <2>1. c["dayMonth"] = r.on["dayMonth"] /\ c["month"] = r.on["month"]
        /\ c["dayWeek"] = r.on["dayWeek"]
    BY <1>3
  <2>2. \A f \in DayKeys : (IF f \in Editor!Keys(policy) THEN c[f] ELSE {}) = r.on[f]
    BY <1>1, <2>1 DEF DayKeys
  <2>3. r.on = [f \in DayKeys |-> r.on[f]]
    BY <1>1
  <2> QED BY <2>2, <2>3, DaysRead
<1>8. \A n \in Nat : Editor!Number({n}) = n
  BY DEF Editor!Number
<1>9. /\ Editor!ToRecurrence(c).recurrence = policy
      /\ Editor!ToRecurrence(c).on = r.on
      /\ Editor!ToRecurrence(c).minute = Editor!Number(c.minute)
      /\ policy # "hourly" => Editor!ToRecurrence(c).hour = Editor!Number(c.hour)
  BY <1>1, <1>6, <1>7 DEF Editor!ToRecurrence
<1>10. /\ Editor!ToRecurrence(c).minute = r.minute
       /\ policy # "hourly" => Editor!ToRecurrence(c).hour = r.hour
  BY <1>1, <1>3, <1>8, <1>9
<1> QED BY <1>9, <1>10 DEF c

\* The edits of a form
LEMMA EditsKeepTheInvariant ==
    ASSUME Times \subseteq Nat, Days \subseteq Nat, EditorInv, form # None,
           \/ \E p \in Policies : Editor!SelectRecurrence(p)
           \/ \E m, h \in Times : Editor!PickTime(m, h)
           \/ \E key \in DayKeys, days \in SUBSET Days : Editor!PickDays(key, days)
           \/ \E c \in Editor!TypedCrons : Editor!TypeCron(c)
    PROVE  EditorInv'
<1>1. /\ form \in Forms /\ cron \in CronType
      /\ form \in [recurrence : Policies, cron : CronType, on : [DayKeys -> SUBSET Nat],
                   minute : Nat, hour : Nat]
      /\ \A f \in DayKeys : f \notin Editor!Keys(form.recurrence) => form.on[f] = {}
  BY DEF EditorInv, Forms
<1>2. touched' = TRUE /\ UNCHANGED cron
  BY DEF Editor!SelectRecurrence, Editor!PickTime, Editor!PickDays, Editor!TypeCron, Editor!Edit
<1>3. ASSUME NEW p \in Policies, Editor!SelectRecurrence(p) PROVE form' \in Forms
  <2> DEFINE kept == IF p # "cron" THEN Editor!NoCron
                     ELSE IF Editor!Valid(form) THEN Editor!ToCron(form) ELSE Editor!Malformed
  <2>1. {} \in FieldSets /\ Editor!Step \in FieldSets
    BY DEF FieldSets
  <2>2. kept \in CronType
    <3>1. Editor!ToCron(form) \in CronType
      BY <1>1, CronOfForm
    <3>2. Editor!NoCron \in CronType /\ Editor!Malformed \in CronType
      BY <2>1 DEF Editor!NoCron, Editor!Malformed, Editor!Any, CronType
    <3> QED BY <3>1, <3>2
  <2>3. Editor!NoDays \in [DayKeys -> SUBSET Nat] /\ \A f \in DayKeys : Editor!NoDays[f] = {}
    BY DEF Editor!NoDays, Editor!Any, DayKeys
  <2>4. form' = [form EXCEPT !.recurrence = p, !.on = Editor!NoDays, !.cron = kept]
    BY <1>3 DEF Editor!SelectRecurrence, Editor!Edit
  <2> HIDE DEF kept
  <2>5. form' = [recurrence |-> p, cron |-> kept, on |-> Editor!NoDays,
                 minute |-> form.minute, hour |-> form.hour]
    BY <1>1, <2>4
  <2> QED BY <1>1, <2>2, <2>3, <2>5 DEF Forms
<1>4. ASSUME NEW m \in Times, NEW h \in Times, Editor!PickTime(m, h) PROVE form' \in Forms
  <2>1. form' = [form EXCEPT !.minute = m, !.hour = h]
    BY <1>4 DEF Editor!PickTime, Editor!Edit
  <2>2. form' = [recurrence |-> form.recurrence, cron |-> form.cron, on |-> form.on,
                 minute |-> m, hour |-> h]
    BY <1>1, <2>1
  <2> QED BY <1>1, <2>2 DEF Forms
<1>5. ASSUME NEW key \in DayKeys, NEW days \in SUBSET Days, Editor!PickDays(key, days)
      PROVE  form' \in Forms
  <2> DEFINE on == [form.on EXCEPT ![key] = days]
  <2>1. key \in Editor!Keys(form.recurrence)
    BY <1>5 DEF Editor!PickDays
  <2>2. /\ on \in [DayKeys -> SUBSET Nat]
        /\ \A f \in DayKeys : f \notin Editor!Keys(form.recurrence) => on[f] = {}
    BY <1>1, <2>1
  <2>3. form' = [form EXCEPT !.on = on]
    BY <1>1, <1>5 DEF Editor!PickDays, Editor!Edit
  <2> HIDE DEF on
  <2>4. form' = [recurrence |-> form.recurrence, cron |-> form.cron, on |-> on,
                 minute |-> form.minute, hour |-> form.hour]
    BY <1>1, <2>3
  <2> QED BY <1>1, <2>2, <2>4 DEF Forms
<1>6. ASSUME NEW c \in Editor!TypedCrons, Editor!TypeCron(c) PROVE form' \in Forms
  <2>1. form' = [form EXCEPT !.cron = c]
    BY <1>6 DEF Editor!TypeCron, Editor!Edit
  <2>2. c \in CronType
    <3>1. /\ \A n \in Times : {n} \in FieldSets
          /\ {} \in FieldSets /\ Editor!Step \in FieldSets /\ Times \in FieldSets
      BY DEF FieldSets
    <3>2. Editor!FieldOf(Times) \subseteq FieldSets
      BY <3>1 DEF Editor!FieldOf, Editor!Any
    <3> QED BY <3>1, <3>2 DEF Editor!TypedCrons, Editor!Any, CronType
  <2>3. form' = [recurrence |-> form.recurrence, cron |-> c, on |-> form.on,
                 minute |-> form.minute, hour |-> form.hour]
    BY <1>1, <2>1
  <2> QED BY <1>1, <2>2, <2>3 DEF Forms
<1>7. form' \in Forms
  BY <1>3, <1>4, <1>5, <1>6
<1> QED BY <1>1, <1>2, <1>7 DEF EditorInv

\* The recurrence editor: a schedule that is opened and submitted stays as it
\* was, and one that was edited opens again as it was left, for any times and
\* days, but for the cron that EditorKeepsTheSchedule excepts.
THEOREM ScheduleIsKept ==
    ASSUME Times \subseteq Nat, Days \subseteq Nat
    PROVE  Spec => []EditorKeepsTheSchedule
<1>1. Editor!Init => EditorInv
  <2>1. /\ \A n \in Nat : {n} \in FieldSets
        /\ {} \in FieldSets /\ Editor!Step \in FieldSets /\ Times \in FieldSets /\ Days \in FieldSets
    BY DEF FieldSets
  <2>2. Editor!FieldOf(Times) \subseteq FieldSets /\ Editor!FieldOf(Days) \subseteq FieldSets
    BY <2>1 DEF Editor!FieldOf, Editor!Any
  <2>3. Editor!Crons \subseteq CronType
    BY <2>2 DEF Editor!Crons, CronType
  <2> QED BY <2>3 DEF Editor!Init, Editor!SomeCrons, EditorInv
<1>2. EditorInv /\ [Editor!Next]_Editor!evars => EditorInv'
  <2> SUFFICES ASSUME EditorInv, [Editor!Next]_Editor!evars PROVE EditorInv'
    OBVIOUS
  <2>1. CASE Editor!Open
    <3>1. form' = Editor!ToRecurrence(cron) /\ UNCHANGED cron
      BY <2>1 DEF Editor!Open
    <3>2. cron \in CronType
      BY DEF EditorInv
    <3>3. form' \in Forms
      BY <3>1, <3>2, FormOfCron
    <3> QED BY <3>1, <3>2, <3>3 DEF EditorInv
  <2>2. CASE Editor!Submit
    <3>1. form # None /\ cron' = Editor!ToCron(form) /\ form' = None
      BY <2>2 DEF Editor!Submit
    <3>2. cron' \in CronType
      BY <3>1, CronOfForm DEF EditorInv
    <3> QED BY <3>1, <3>2 DEF EditorInv
  <2>3. CASE form # None /\
             \/ \E p \in Policies : Editor!SelectRecurrence(p)
             \/ \E m, h \in Times : Editor!PickTime(m, h)
             \/ \E key \in DayKeys, days \in SUBSET Days : Editor!PickDays(key, days)
             \/ \E c \in Editor!TypedCrons : Editor!TypeCron(c)
    BY <2>3, EditsKeepTheInvariant
  <2>4. CASE UNCHANGED Editor!evars
    BY <2>4 DEF Editor!evars, EditorInv
  <2>5. DOMAIN Editor!NoDays = DayKeys
    BY DEF Editor!NoDays, DayKeys
  <2> QED BY <2>1, <2>2, <2>3, <2>4, <2>5 DEF Editor!Next, Policies
<1>3. EditorInv => EditorKeepsTheSchedule
  <2> SUFFICES ASSUME EditorInv, form # None
               PROVE  /\ \/ touched
                         \/ cron.month # Editor!Any /\ cron.dayMonth = Editor!Any
                         \/ Editor!ToCron(form) = cron
                      /\ Editor!Valid(form) /\ form.recurrence # "cron" =>
                            LET again == Editor!ToRecurrence(Editor!ToCron(form))
                            IN  /\ again.recurrence = form.recurrence
                                /\ again.on = form.on
                                /\ again.minute = form.minute
                                /\ again.hour = form.hour \/ form.recurrence = "hourly"
    BY DEF EditorKeepsTheSchedule, Editor!EditorKeepsTheSchedule
  <2>1. ASSUME ~touched, ~(cron.month # {} /\ cron.dayMonth = {}) PROVE Editor!ToCron(form) = cron
    BY <2>1, OpenedStays DEF EditorInv
  <2>2. form \in Forms
    BY DEF EditorInv
  <2> QED BY <2>1, <2>2, LeftOpensAgain DEF Editor!Any
<1> QED BY <1>1, <1>2, <1>3, PartsRunByThemselves, PTL DEF Editor!Spec
-----------------------------------------------------------------------------
(* TableNavigator: a list that was not reset under a request has one request
   under way at most, which asks for the batch that comes next; schemas may be
   asked for twice, and then the requests ask for no batch beyond the next. *)

ShownSearches == TableSearches \cup {InitialSearch}
ShownOrders == Orders \cup {DefaultOrder}

NavTyped ==
    /\ tableSearch \in ShownSearches /\ tables \in Seq(ShownSearches \X Nat)
    /\ order \in ShownOrders /\ schemas \in Seq(ShownOrders \X Nat)
    /\ tablesSent \in Nat
    /\ \A r \in tableRequests :
          /\ r \in [id : Nat, kind : {"first", "more", "schemas"},
                    of : ShownSearches \cup ShownOrders, batch : Nat]
          /\ r.id <= tablesSent
          /\ IF r.kind = "schemas" THEN r.of \in ShownOrders ELSE r.of \in ShownSearches
    /\ \A r, s \in tableRequests : r.id = s.id => r = s

OneForTables ==
    \/ "tables" \in stray
    \/ /\ Navigator!ListOf(tables, tableSearch)
       /\ \A r \in tableRequests :
             r.kind # "schemas" =>
                /\ r.id = tableRequest /\ r.of = tableSearch
                /\ r.kind = "more" => r.batch = Len(tables) + 1

OneForSchemas ==
    \/ stray \cap {"schemas", "twice"} # {}
    \/ /\ Navigator!ListOf(schemas, order)
       /\ \A r \in tableRequests :
             r.kind = "schemas" =>
                /\ r.batch = Len(schemas) + 1
                /\ \A s \in tableRequests : s.kind = "schemas" => s = r

NoneAhead(list, x) == \A i \in DOMAIN list : list[i][1] = x /\ list[i][2] \in 1..i

SchemasNotAhead ==
    \/ "schemas" \in stray
    \/ /\ NoneAhead(schemas, order)
       /\ \A r \in tableRequests :
             r.kind = "schemas" => r.of = order /\ r.batch \in 1..Len(schemas) + 1

NavInv == NavTyped /\ OneForTables /\ OneForSchemas /\ SchemasNotAhead

\* The batch that comes next makes a longer list of the same.
LEMMA NextBatch ==
    ASSUME NEW S, NEW list \in Seq(S \X Nat), NEW x \in S, Navigator!ListOf(list, x)
    PROVE  /\ Append(list, <<x, Len(list) + 1>>) \in Seq(S \X Nat)
           /\ Navigator!ListOf(Append(list, <<x, Len(list) + 1>>), x)
<1>1. Len(list) \in Nat /\ DOMAIN list = 1..Len(list)
  OBVIOUS
<1>2. <<x, Len(list) + 1>> \in S \X Nat
  BY <1>1
<1> DEFINE longer == Append(list, <<x, Len(list) + 1>>)
<1>3. longer \in Seq(S \X Nat) /\ Len(longer) = Len(list) + 1
  BY <1>2
<1>4. \A i \in 1..Len(longer) : longer[i] = <<x, i>>
  BY <1>1, <1>2 DEF Navigator!ListOf
<1> HIDE DEF longer
<1>5. longer = [i \in DOMAIN longer |-> <<x, i>>]
  BY <1>3, <1>4
<1> QED BY <1>3, <1>5 DEF Navigator!ListOf, longer

\* An empty list is one of anything.
LEMMA NoBatches ==
    ASSUME NEW x
    PROVE  Navigator!ListOf(<<>>, x)
<1>1. <<>> = [i \in {} |-> <<x, i>>]
  OBVIOUS
<1> QED BY <1>1 DEF Navigator!ListOf

\* A batch that is not ahead of the end of the list makes a longer list in
\* which none is ahead.
LEMMA NextNotAhead ==
    ASSUME NEW S, NEW list \in Seq(S \X Nat), NEW x \in S, NoneAhead(list, x),
           NEW n \in 1..Len(list) + 1
    PROVE  NoneAhead(Append(list, <<x, n>>), x)
<1>1. Len(list) \in Nat /\ DOMAIN list = 1..Len(list) /\ n \in Nat
  OBVIOUS
<1>2. <<x, n>> \in S \X Nat
  BY <1>1
<1> DEFINE longer == Append(list, <<x, n>>)
<1>3. longer \in Seq(S \X Nat) /\ Len(longer) = Len(list) + 1
  BY <1>2
<1>4. \A i \in 1..Len(list) : longer[i] = list[i]
  BY <1>2
<1>5. longer[Len(list) + 1] = <<x, n>>
  BY <1>2
<1> HIDE DEF longer
<1>6. DOMAIN longer = 1..Len(list) + 1
  BY <1>3
<1> SUFFICES ASSUME NEW i \in 1..Len(list) + 1
             PROVE  longer[i][1] = x /\ longer[i][2] \in 1..i
  BY <1>6 DEF NoneAhead, longer
<1>7. CASE i = Len(list) + 1
  BY <1>5, <1>7
<1>8. CASE i \in 1..Len(list)
  BY <1>1, <1>4, <1>8 DEF NoneAhead
<1> QED BY <1>1, <1>7, <1>8

\* A request that is sent is a new one.
LEMMA SentIsNew ==
    ASSUME NavTyped, NEW kind \in {"first", "more", "schemas"}, NEW of, NEW offset \in Nat,
           IF kind = "schemas" THEN of \in ShownOrders ELSE of \in ShownSearches
    PROVE  LET new == Navigator!Request(kind, of, offset)
           IN  /\ new \in [id : Nat, kind : {"first", "more", "schemas"},
                           of : ShownSearches \cup ShownOrders, batch : Nat]
               /\ new.id = tablesSent + 1 /\ new.kind = kind /\ new.of = of
               /\ new.batch = offset + 1
               /\ \A r \in tableRequests : r.id # new.id
<1>1. tablesSent + 1 \in Nat /\ offset + 1 \in Nat
  BY DEF NavTyped
<1>2. \A r \in tableRequests : r.id \in Nat /\ r.id <= tablesSent
  BY DEF NavTyped
<1>3. \A r \in tableRequests : r.id # tablesSent + 1
  BY <1>2 DEF NavTyped
<1> QED BY <1>1, <1>3 DEF Navigator!Request

\* searchDataTable keeps the invariant.
LEMMA SearchDataTableKeeps ==
    ASSUME NavInv, NEW s \in TableSearches, Navigator!SearchDataTable(s)
    PROVE  NavInv'
<1> DEFINE new == Navigator!Request("first", s, 0)
<1>1. /\ tablesSent' = tablesSent + 1 /\ tableSearch' = s /\ tables' = <<>>
      /\ order' = DefaultOrder /\ schemas' = <<>> /\ tableRequest' = tablesSent + 1
      /\ tableRequests' = {r \in tableRequests : r.id # tableRequest} \cup {new}
      /\ stray' = stray \cup Navigator!SchemasUnderWay
  BY DEF Navigator!SearchDataTable
<1>2. /\ new \in [id : Nat, kind : {"first", "more", "schemas"},
                  of : ShownSearches \cup ShownOrders, batch : Nat]
      /\ new.id = tablesSent + 1 /\ new.kind = "first" /\ new.of = s
      /\ \A r \in tableRequests : r.id # new.id
  BY SentIsNew DEF NavInv, ShownSearches
<1> HIDE DEF new
<1>3. NavTyped'
  <2>1. \A r \in tableRequests : r.id <= tablesSent + 1
    BY DEF NavInv, NavTyped
  <2> QED BY <1>1, <1>2, <2>1 DEF NavInv, NavTyped, ShownSearches, ShownOrders
<1>4. OneForTables'
  BY <1>1, <1>2, NoBatches DEF NavInv, OneForTables
<1>5. OneForSchemas'
  BY <1>1, <1>2, NoBatches DEF NavInv, OneForSchemas, Navigator!SchemasUnderWay
<1>6. SchemasNotAhead'
  BY <1>1, <1>2 DEF NavInv, SchemasNotAhead, NoneAhead, Navigator!SchemasUnderWay
<1> QED BY <1>3, <1>4, <1>5, <1>6 DEF NavInv

\* getMoreDataTable keeps the invariant.
LEMMA GetMoreDataTableKeeps ==
    ASSUME NavInv, Navigator!GetMoreDataTable
    PROVE  NavInv'
<1> DEFINE new == Navigator!Request("more", tableSearch, Len(tables))
<1>1. /\ tablesSent' = tablesSent + 1 /\ tableRequest' = tablesSent + 1
      /\ tableRequests' = {r \in tableRequests : r.id # tableRequest} \cup {new}
      /\ UNCHANGED <<tableSearch, tables, order, schemas, stray>>
  BY DEF Navigator!GetMoreDataTable
<1>2. Len(tables) \in Nat /\ tableSearch \in ShownSearches
  BY DEF NavInv, NavTyped
<1>3. /\ new \in [id : Nat, kind : {"first", "more", "schemas"},
                  of : ShownSearches \cup ShownOrders, batch : Nat]
      /\ new.id = tablesSent + 1 /\ new.kind = "more" /\ new.of = tableSearch
      /\ new.batch = Len(tables) + 1
      /\ \A r \in tableRequests : r.id # new.id
  BY <1>2, SentIsNew DEF NavInv
<1> HIDE DEF new
<1>4. NavTyped'
  <2>1. \A r \in tableRequests : r.id <= tablesSent + 1
    BY DEF NavInv, NavTyped
  <2> QED BY <1>1, <1>2, <1>3, <2>1 DEF NavInv, NavTyped
<1>5. OneForTables'
  BY <1>1, <1>3 DEF NavInv, OneForTables
<1>6. OneForSchemas' /\ SchemasNotAhead'
  BY <1>1, <1>3 DEF NavInv, OneForSchemas, SchemasNotAhead, NoneAhead
<1> QED BY <1>4, <1>5, <1>6 DEF NavInv

\* resetSearch, searchSchemas and a change of the schemas' order keep the
\* invariant.
LEMMA ResetsKeep ==
    ASSUME NavInv,
           \/ Navigator!ResetSearch
           \/ Navigator!SearchSchemas
           \/ \E o \in Orders : Navigator!ChangeSchemasSort(o)
    PROVE  NavInv'
<1>1. CASE Navigator!ResetSearch
  <2>1. NavTyped'
    BY <1>1 DEF NavInv, NavTyped, Navigator!ResetSearch, ShownSearches, ShownOrders
  <2>2. OneForTables'
    BY <1>1, NoBatches DEF NavInv, OneForTables, Navigator!ResetSearch
  <2>3. OneForSchemas'
    BY <1>1, NoBatches
    DEF NavInv, OneForSchemas, Navigator!ResetSearch, Navigator!SchemasUnderWay
  <2>4. SchemasNotAhead'
    BY <1>1
    DEF NavInv, SchemasNotAhead, NoneAhead, Navigator!ResetSearch, Navigator!SchemasUnderWay
  <2> QED BY <2>1, <2>2, <2>3, <2>4 DEF NavInv
<1>2. CASE Navigator!SearchSchemas
  <2> DEFINE new == Navigator!Request("schemas", order, Len(schemas))
  <2>1. /\ tablesSent' = tablesSent + 1 /\ tableRequests' = tableRequests \cup {new}
        /\ stray' = stray \cup {"twice" : r \in Navigator!SchemasUnderWay}
        /\ UNCHANGED <<tableSearch, tables, order, schemas, tableRequest>>
    BY <1>2 DEF Navigator!SearchSchemas
  <2>2. Len(schemas) \in Nat /\ order \in ShownOrders
    BY DEF NavInv, NavTyped
  <2>3. /\ new \in [id : Nat, kind : {"first", "more", "schemas"},
                    of : ShownSearches \cup ShownOrders, batch : Nat]
        /\ new.id = tablesSent + 1 /\ new.kind = "schemas" /\ new.of = order
        /\ new.batch = Len(schemas) + 1
        /\ \A r \in tableRequests : r.id # new.id
    BY <2>2, SentIsNew DEF NavInv
  <2> HIDE DEF new
  <2>4. NavTyped'
    <3>1. \A r \in tableRequests : r.id <= tablesSent + 1
      BY DEF NavInv, NavTyped
    <3> QED BY <2>1, <2>2, <2>3, <3>1 DEF NavInv, NavTyped
  <2>5. OneForTables'
    BY <2>1, <2>3 DEF NavInv, OneForTables
  <2>6. OneForSchemas'
    BY <2>1, <2>3 DEF NavInv, OneForSchemas, Navigator!SchemasUnderWay
  <2>7. SchemasNotAhead'
    BY <2>1, <2>2, <2>3 DEF NavInv, SchemasNotAhead, NoneAhead
  <2> QED BY <2>4, <2>5, <2>6, <2>7 DEF NavInv
<1>3. ASSUME NEW o \in Orders, Navigator!ChangeSchemasSort(o) PROVE NavInv'
  <2>1. NavTyped'
    BY <1>3 DEF NavInv, NavTyped, Navigator!ChangeSchemasSort, ShownOrders
  <2>2. OneForTables'
    BY <1>3 DEF NavInv, OneForTables, Navigator!ChangeSchemasSort
  <2>3. OneForSchemas'
    BY <1>3, NoBatches
    DEF NavInv, OneForSchemas, Navigator!ChangeSchemasSort, Navigator!SchemasUnderWay
  <2>4. SchemasNotAhead'
    BY <1>3
    DEF NavInv, SchemasNotAhead, NoneAhead, Navigator!ChangeSchemasSort,
        Navigator!SchemasUnderWay
  <2> QED BY <2>1, <2>2, <2>3, <2>4 DEF NavInv
<1> QED BY <1>1, <1>2, <1>3

\* An answer keeps the invariant.
LEMMA BatchArrives ==
    ASSUME NavInv, NEW r \in tableRequests, Navigator!Done(r)
    PROVE  NavInv'
<1>1. /\ tableRequests' = tableRequests \ {r}
      /\ UNCHANGED <<tableSearch, order, tablesSent, stray>>
  BY DEF Navigator!Done
<1>2. /\ r.kind \in {"first", "more", "schemas"} /\ r.batch \in Nat
      /\ IF r.kind = "schemas" THEN r.of \in ShownOrders ELSE r.of \in ShownSearches
  BY DEF NavInv, NavTyped
<1>3. ASSUME r.kind # "schemas", "tables" \notin stray
      PROVE  /\ r.of = tableSearch
             /\ \A s \in tableRequests' : s.kind = "schemas"
  BY <1>1, <1>3 DEF NavInv, OneForTables, NavTyped
<1>4. CASE r.kind = "first"
  <2>1. tables' = <<<<r.of, 1>>>> /\ schemas' = schemas
    BY <1>4 DEF Navigator!Done
  <2>2. <<<<r.of, 1>>>> \in Seq(ShownSearches \X Nat)
    BY <1>2, <1>4
  <2>3. NavTyped'
    BY <1>1, <2>1, <2>2 DEF NavInv, NavTyped
  <2>4. Navigator!ListOf(<<<<r.of, 1>>>>, r.of)
    BY DEF Navigator!ListOf
  <2>5. OneForTables'
    BY <1>1, <1>3, <1>4, <2>1, <2>4 DEF OneForTables
  <2>6. OneForSchemas' /\ SchemasNotAhead'
    BY <1>1, <2>1 DEF NavInv, OneForSchemas, SchemasNotAhead, NoneAhead
  <2> QED BY <2>3, <2>5, <2>6 DEF NavInv
<1>5. CASE r.kind = "more"
  <2>1. tables' = Append(tables, <<r.of, r.batch>>) /\ schemas' = schemas
    BY <1>5 DEF Navigator!Done
  <2>2. NavTyped'
    BY <1>1, <1>2, <1>5, <2>1 DEF NavInv, NavTyped
  <2>3. ASSUME "tables" \notin stray PROVE Navigator!ListOf(tables', tableSearch)
    <3>1. r.of = tableSearch /\ r.batch = Len(tables) + 1 /\ Navigator!ListOf(tables, tableSearch)
      BY <1>5, <2>3 DEF NavInv, OneForTables
    <3> QED BY <2>1, <3>1, NextBatch DEF NavInv, NavTyped
  <2>4. OneForTables'
    BY <1>1, <1>3, <1>5, <2>3 DEF OneForTables
  <2>5. OneForSchemas' /\ SchemasNotAhead'
    BY <1>1, <2>1 DEF NavInv, OneForSchemas, SchemasNotAhead, NoneAhead
  <2> QED BY <2>2, <2>4, <2>5 DEF NavInv
<1>6. CASE r.kind = "schemas"
  <2>1. schemas' = Append(schemas, <<r.of, r.batch>>) /\ UNCHANGED <<tables, tableRequest>>
    BY <1>6 DEF Navigator!Done
  <2>2. NavTyped'
    BY <1>1, <1>2, <1>6, <2>1 DEF NavInv, NavTyped
  <2>3. ASSUME "schemas" \notin stray
        PROVE  r.of = order /\ r.batch \in 1..Len(schemas) + 1 /\ NoneAhead(schemas, order)
    BY <1>6, <2>3 DEF NavInv, SchemasNotAhead
  <2>4. ASSUME stray \cap {"schemas", "twice"} = {} PROVE Navigator!ListOf(schemas', order)
    <3>1. r.of = order /\ r.batch = Len(schemas) + 1 /\ Navigator!ListOf(schemas, order)
      BY <1>6, <2>3, <2>4 DEF NavInv, OneForSchemas
    <3> QED BY <2>1, <3>1, NextBatch DEF NavInv, NavTyped
  <2>5. OneForTables'
    BY <1>1, <2>1 DEF NavInv, OneForTables
  <2>6. OneForSchemas'
    <3>1. ASSUME stray \cap {"schemas", "twice"} = {}
          PROVE  \A s \in tableRequests' : s.kind # "schemas"
      BY <1>1, <1>6, <3>1 DEF NavInv, OneForSchemas
    <3> QED BY <1>1, <2>4, <3>1 DEF OneForSchemas
  <2>7. SchemasNotAhead'
    <3>1. ASSUME "schemas" \notin stray PROVE NoneAhead(schemas', order)
      BY <2>1, <2>3, <3>1, NextNotAhead DEF NavInv, NavTyped
    <3>2. Len(schemas) \in Nat /\ Len(schemas') = Len(schemas) + 1
      BY <1>2, <1>6, <2>1 DEF NavInv, NavTyped
    <3>3. ASSUME "schemas" \notin stray, NEW s \in tableRequests', s.kind = "schemas"
          PROVE  s.of = order' /\ s.batch \in 1..Len(schemas') + 1
      BY <1>1, <3>2, <3>3 DEF NavInv, SchemasNotAhead
    <3> QED BY <1>1, <3>1, <3>3 DEF SchemasNotAhead, NoneAhead
  <2> QED BY <2>2, <2>5, <2>6, <2>7 DEF NavInv
<1> QED BY <1>2, <1>4, <1>5, <1>6

\* The table navigator: the tables are listed once each and in order, and so are
\* the schemas unless some were asked for while others were on their way, for any
\* searches, orders and numbers of batches and requests.
THEOREM ListsAreInOrder == Spec => []ListsArePrefixes
<1>1. Navigator!Init => NavInv
  BY NoBatches
  DEF Navigator!Init, NavInv, NavTyped, OneForTables, OneForSchemas, SchemasNotAhead, NoneAhead,
      ShownSearches, ShownOrders
<1>2. NavInv /\ [Navigator!Next]_Navigator!tvars => NavInv'
  <2> SUFFICES ASSUME NavInv, [Navigator!Next]_Navigator!tvars PROVE NavInv'
    OBVIOUS
  <2>1. ASSUME NEW r \in tableRequests, Navigator!Fails(r) PROVE NavInv'
    BY <2>1
    DEF Navigator!Fails, NavInv, NavTyped, OneForTables, OneForSchemas, SchemasNotAhead, NoneAhead
  <2>2. CASE UNCHANGED Navigator!tvars
    BY <2>2
    DEF Navigator!tvars, NavInv, NavTyped, OneForTables, OneForSchemas, SchemasNotAhead, NoneAhead
  <2> QED BY <2>1, <2>2, SearchDataTableKeeps, GetMoreDataTableKeeps, ResetsKeep, BatchArrives
          DEF Navigator!Next
<1>3. NavInv => ListsArePrefixes
  BY DEF NavInv, OneForTables, OneForSchemas, SchemasNotAhead, NoneAhead, ListsArePrefixes,
         Navigator!ListsArePrefixes
<1> QED BY <1>1, <1>2, <1>3, PartsRunByThemselves, PTL DEF Navigator!Spec
-----------------------------------------------------------------------------
(* BoardItems: while no calls overlap and no answer is lost, the page is behind
   the server by the one call that is done, at most. *)

ThingKinds == {"data_doc", "table", "board", "query"}

BoardRows == [id : Nat, thing : Things, order : Int]

RowsTyped(rs) ==
    /\ rs \subseteq BoardRows
    /\ \A r, s \in rs : r.id = s.id => r = s
    /\ \A r \in rs : 1 <= r.id /\ r.id <= made.rows

CallsTyped ==
    /\ \A c \in calls :
          /\ c = [id |-> c.id, op |-> c.op, args |-> c.args, phase |-> c.phase,
                  order |-> c.order, added |-> c.added, board |-> c.board,
                  alone |-> c.alone]
          /\ c.id \in Nat /\ c.id <= made.calls /\ c.order \in Int
          /\ c.phase \in {"sent", "read", "done"} /\ (c.phase = "read" => c.op = "add")
          /\ c.op \in {"add", "delete"} => c.args[1] \in Things
          /\ c.op = "move" => c.args[1] # c.args[2]
    /\ \A c, d \in calls : c.id = d.id => c = d

BoardTyped ==
    /\ made \in [calls : Nat, rows : Nat]
    /\ RowsTyped(rows)
    /\ CallsTyped

\* A call that was made last, and when no other was under way, is the only one.
LastCall(c) == c.alone /\ c.id = made.calls

AloneAndFetched ==
    \A c \in calls :
       LastCall(c) =>
          /\ calls = {c}
          /\ c.op = "fetch" /\ c.phase = "done" => c.board = Board!BoardOrder(rows)

Known(rs) == \A r \in rs : r.id \in DOMAIN itemById /\ itemById[r.id] = r.thing

Adding(c) ==
    /\ c.added = made.rows
    /\ \E r \in rows :
          /\ r.id = c.added /\ r.thing = c.args[1]
          /\ \A s \in rows \ {r} : s.order < r.order
          /\ items = Board!Ids(Board!BoardOrder(rows \ {r})) /\ Known(rows \ {r})

Moving(c) ==
    /\ Board!ArrayMoved(items, c.args[1], c.args[2]) = Board!Ids(Board!BoardOrder(rows))
    /\ Known(rows)

Deleting(c) ==
    c.args[1][1] # "query" =>
       /\ Board!Without(items, {i \in DOMAIN itemById : itemById[i] = c.args[1]})
             = Board!Ids(Board!BoardOrder(rows))
       /\ Known(rows)
       /\ \A r \in rows : r.thing # c.args[1]

\* The page has the row of each of the server's, or is about to.
PageFollows ==
    astray = {} =>
       /\ Board!Plain(rows)
       /\ \A c \in calls : LastCall(c)
       /\ (\A c \in calls : c.phase # "done" \/ c.op = "fetch") =>
             items = Board!Ids(Board!BoardOrder(rows)) /\ Known(rows)
       /\ \A c \in calls :
             /\ c.phase = "read" =>
                   \A r \in rows : r.order < c.order /\ r.thing # c.args[1]
             /\ c.phase = "done" /\ c.op = "add" => Adding(c)
             /\ c.phase = "done" /\ c.op = "move" => Moving(c)
             /\ c.phase = "done" /\ c.op = "delete" => Deleting(c)

BoardInv == BoardTyped /\ AloneAndFetched /\ PageFollows

\* Rows that can be put in order: no two have the same id and order.
Orderly(rs) ==
    /\ IsFiniteSet(rs)
    /\ \A r \in rs : r.order \in Int /\ r.id \in Nat
    /\ \A r, s \in rs : r.id = s.id /\ r.order = s.order => r = s

\* The rows that come before a row
Below(rs, r) == {s \in rs : Board!Before(s, r)}

\* A list of all the rows, in order
Enumerates(list, rs) ==
    /\ list \in Seq(rs)
    /\ \A r \in rs : \E k \in 1..Len(list) : list[k] = r
    /\ \A j, k \in 1..Len(list) : j < k => Board!Before(list[j], list[k])

\* The board counts as one counts.
LEMMA BoardCounts == \A S : Board!Cardinality(S) = Cardinality(S)
  BY DEF Board!Cardinality, Cardinality

\* Rows come one before the other.
LEMMA BeforeIsAnOrder ==
    ASSUME NEW rs, Orderly(rs), NEW a \in rs, NEW b \in rs, NEW c \in rs
    PROVE  /\ ~Board!Before(a, a)
           /\ Board!Before(a, b) => ~Board!Before(b, a)
           /\ Board!Before(a, b) /\ Board!Before(b, c) => Board!Before(a, c)
           /\ a # b => Board!Before(a, b) \/ Board!Before(b, a)
<1>1. /\ a.order \in Int /\ b.order \in Int /\ c.order \in Int
      /\ a.id \in Nat /\ b.id \in Nat /\ c.id \in Nat
      /\ a # b => a.id # b.id \/ a.order # b.order
  BY DEF Orderly
<1> QED BY <1>1 DEF Board!Before

\* As many rows come before a row as its rank says; no two have the same rank,
\* and each rank below the number of rows is one's.
LEMMA Ranks ==
    ASSUME NEW rs, Orderly(rs)
    PROVE  /\ Cardinality(rs) \in Nat
           /\ \A r \in rs : Cardinality(Below(rs, r)) \in 0 .. Cardinality(rs) - 1
           /\ \A r, q \in rs : Board!Before(r, q) =>
                                  Cardinality(Below(rs, r)) < Cardinality(Below(rs, q))
           /\ \A r, q \in rs : Cardinality(Below(rs, r)) = Cardinality(Below(rs, q)) => r = q
           /\ \A k \in 0 .. Cardinality(rs) - 1 :
                 \E r \in rs : Cardinality(Below(rs, r)) = k
<1> DEFINE n == Cardinality(rs)
           rank == [r \in rs |-> Cardinality(Below(rs, r))]
<1>1. IsFiniteSet(rs) /\ n \in Nat
  BY FS_CardinalityType DEF Orderly
<1>2. \A r \in rs : /\ Below(rs, r) \in SUBSET rs /\ r \notin Below(rs, r)
                    /\ IsFiniteSet(Below(rs, r)) /\ Cardinality(Below(rs, r)) \in 0 .. n - 1
  <2> TAKE r \in rs
  <2>1. Below(rs, r) \in SUBSET rs /\ r \notin Below(rs, r)
    BY BeforeIsAnOrder DEF Below
  <2>2. /\ IsFiniteSet(Below(rs, r)) /\ Cardinality(Below(rs, r)) <= n
        /\ Cardinality(Below(rs, r)) # n
    BY <1>1, <2>1, FS_Subset
  <2>3. Cardinality(Below(rs, r)) \in Nat
    BY <2>2, FS_CardinalityType
  <2> HIDE DEF n
  <2> QED BY <1>1, <2>1, <2>2, <2>3
<1>3. ASSUME NEW r \in rs, NEW q \in rs, Board!Before(r, q)
      PROVE  Cardinality(Below(rs, r)) < Cardinality(Below(rs, q))
  <2>1. Below(rs, r) \in SUBSET Below(rs, q)
    BY <1>3, BeforeIsAnOrder DEF Below
  <2>2. r \in Below(rs, q)
    BY <1>3 DEF Below
  <2>3. /\ Cardinality(Below(rs, r)) <= Cardinality(Below(rs, q))
        /\ Cardinality(Below(rs, r)) # Cardinality(Below(rs, q))
    BY <1>2, <2>1, <2>2, FS_Subset
  <2>4. Cardinality(Below(rs, r)) \in Int /\ Cardinality(Below(rs, q)) \in Int
    BY <1>2
  <2> QED BY <2>3, <2>4
<1>4. ASSUME NEW r \in rs, NEW q \in rs, Cardinality(Below(rs, r)) = Cardinality(Below(rs, q))
      PROVE  r = q
  <2>1. Cardinality(Below(rs, r)) \in Int /\ Cardinality(Below(rs, q)) \in Int
    BY <1>2
  <2>2. ~Board!Before(r, q) /\ ~Board!Before(q, r)
    BY <1>3, <1>4, <2>1
  <2> QED BY <2>2, BeforeIsAnOrder
<1>5. rank \in Injection(rs, 0 .. n - 1)
  <2>1. rank \in [rs -> 0 .. n - 1]
    BY <1>2
  <2>2. \A r, q \in rs : rank[r] = rank[q] => r = q
    BY <1>4
  <2> HIDE DEF rank, n
  <2> QED BY <2>1, <2>2 DEF Injection, IsInjective
<1>6. IsFiniteSet(0 .. n - 1) /\ Cardinality(0 .. n - 1) = n
  <2> HIDE DEF n
  <2> QED BY <1>1, FS_Interval
<1>7. rank \in Surjection(rs, 0 .. n - 1)
  <2> HIDE DEF rank
  <2> QED BY <1>5, <1>6, FS_Injection
<1>8. \A k \in 0 .. n - 1 : \E r \in rs : rank[r] = k
  <2> HIDE DEF rank, n
  <2> QED BY <1>7 DEF Surjection
<1> QED BY <1>1, <1>2, <1>3, <1>4, <1>8

\* The order of a board is a list of all its rows, in order.
LEMMA BoardOrderEnumerates ==
    ASSUME NEW rs, Orderly(rs)
    PROVE  /\ Enumerates(Board!BoardOrder(rs), rs)
           /\ Len(Board!BoardOrder(rs)) = Cardinality(rs)
<1> DEFINE n == Cardinality(rs)
           list == Board!BoardOrder(rs)
<1>1. list = [k \in 1..n |-> CHOOSE r \in rs : Board!Cardinality(Below(rs, r)) = k - 1]
  <2>1. list = [k \in 1 .. Board!Cardinality(rs) |->
                    CHOOSE r \in rs : Board!Cardinality(Below(rs, r)) = k - 1]
    BY DEF Board!BoardOrder, Below
  <2> HIDE DEF list
  <2> QED BY <2>1, BoardCounts
<1>2. n \in Nat
  BY Ranks
<1> HIDE DEF list
<1>3. ASSUME NEW k \in 1..n PROVE list[k] \in rs /\ Cardinality(Below(rs, list[k])) = k - 1
  <2>1. k - 1 \in 0 .. n - 1
    BY <1>2
  <2>2. \E r \in rs : Cardinality(Below(rs, r)) = k - 1
    BY <2>1, Ranks
  <2>3. \E r \in rs : Board!Cardinality(Below(rs, r)) = k - 1
    BY <2>2, BoardCounts
  <2>4. list[k] \in rs /\ Board!Cardinality(Below(rs, list[k])) = k - 1
    BY <1>1, <2>3
  <2> QED BY <2>4, BoardCounts
<1>4. list \in Seq(rs) /\ Len(list) = n
  <2>1. list \in [1..n -> rs]
    BY <1>1, <1>3
  <2> HIDE DEF n
  <2> QED BY <1>2, <2>1
<1>5. ASSUME NEW r \in rs PROVE \E k \in 1..n : list[k] = r
  <2>1. Cardinality(Below(rs, r)) \in 0 .. n - 1
    BY Ranks
  <2>2. Cardinality(Below(rs, r)) + 1 \in 1..n
    BY <1>2, <2>1
  <2>3. Cardinality(Below(rs, list[Cardinality(Below(rs, r)) + 1])) = Cardinality(Below(rs, r))
    BY <1>3, <2>1, <2>2
  <2> QED BY <1>3, <2>2, <2>3, Ranks
<1>6. ASSUME NEW j \in 1..n, NEW k \in 1..n, j < k PROVE Board!Before(list[j], list[k])
  <2>1. /\ list[j] \in rs /\ Cardinality(Below(rs, list[j])) = j - 1
        /\ list[k] \in rs /\ Cardinality(Below(rs, list[k])) = k - 1
    BY <1>3
  <2>2. list[j] # list[k] /\ ~Board!Before(list[k], list[j])
    <3>1. j \in Int /\ k \in Int
      OBVIOUS
    <3>2. ~(k - 1 < j - 1) /\ j - 1 # k - 1
      BY <1>6, <3>1
    <3> QED BY <2>1, <3>2, Ranks
  <2> QED BY <2>1, <2>2, BeforeIsAnOrder
<1> QED BY <1>4, <1>5, <1>6 DEF Enumerates, list

\* There is no other one.
LEMMA OneOrder ==
    ASSUME NEW rs, Orderly(rs), NEW list, Enumerates(list, rs)
    PROVE  list = Board!BoardOrder(rs)
<1> DEFINE n == Cardinality(rs)
<1>1. n \in Nat /\ Len(list) \in Nat /\ list \in [1..Len(list) -> rs]
  BY Ranks DEF Enumerates
<1>2. \A j, k \in 1..Len(list) : list[j] = list[k] => j = k
  <2>1. \A j, k \in 1..Len(list) : j < k => list[j] # list[k]
    BY <1>1, BeforeIsAnOrder DEF Enumerates
  <2> QED BY <1>1, <2>1
<1>3. Len(list) = n
  <2>1. list \in Bijection(1..Len(list), rs)
    BY <1>1, <1>2 DEF Enumerates, Bijection, Injection, IsInjective, Surjection
  <2> QED BY <1>1, <2>1, FS_CountingElements DEF ExistsBijection
<1>4. ASSUME NEW k \in 1..n PROVE list[k] \in rs /\ Cardinality(Below(rs, list[k])) = k - 1
  <2> DEFINE first == [j \in 1 .. k - 1 |-> list[j]]
  <2>1. /\ k - 1 \in Nat /\ 1 .. k - 1 \subseteq 1 .. Len(list) /\ list[k] \in rs
        /\ \A j \in 1 .. Len(list) : j \in 1 .. k - 1 \/ j = k \/ k < j
        /\ \A j \in 1 .. k - 1 : j < k
    BY <1>1, <1>3
  <2>2. \A j \in 1 .. k - 1 : list[j] \in rs /\ Board!Before(list[j], list[k])
    BY <1>1, <1>3, <2>1 DEF Enumerates
  <2>3. ASSUME NEW r \in Below(rs, list[k]) PROVE \E j \in 1 .. k - 1 : list[j] = r
    <3>1. r \in rs /\ Board!Before(r, list[k])
      BY DEF Below
    <3>2. PICK j \in 1 .. Len(list) : list[j] = r
      BY <3>1 DEF Enumerates
    <3>3. j # k /\ ~(k < j)
      BY <1>1, <1>3, <2>1, <3>1, <3>2, BeforeIsAnOrder DEF Enumerates
    <3> QED BY <2>1, <3>2, <3>3
  <2>4. first \in Bijection(1 .. k - 1, Below(rs, list[k]))
    <3>1. first \in [1 .. k - 1 -> Below(rs, list[k])]
      BY <2>2 DEF Below
    <3>2. \A i, j \in 1 .. k - 1 : first[i] = first[j] => i = j
      BY <1>2, <2>1
    <3>3. \A r \in Below(rs, list[k]) : \E j \in 1 .. k - 1 : first[j] = r
      BY <2>3
    <3> HIDE DEF first
    <3> QED BY <3>1, <3>2, <3>3 DEF Bijection, Injection, IsInjective, Surjection
  <2> QED BY <2>1, <2>4, FS_CountingElements DEF ExistsBijection
<1> DEFINE listed == Board!BoardOrder(rs)
<1>5. listed = [k \in 1..n |-> CHOOSE r \in rs : Board!Cardinality(Below(rs, r)) = k - 1]
  <2>1. listed = [k \in 1 .. Board!Cardinality(rs) |->
                    CHOOSE r \in rs : Board!Cardinality(Below(rs, r)) = k - 1]
    BY DEF Board!BoardOrder, Below
  <2> HIDE DEF listed
  <2> QED BY <2>1, BoardCounts
<1> HIDE DEF listed
<1>6. ASSUME NEW k \in 1..n PROVE listed[k] = list[k]
  <2>1. listed[k] \in rs /\ Cardinality(Below(rs, listed[k])) = k - 1
    <3>1. list[k] \in rs /\ Board!Cardinality(Below(rs, list[k])) = k - 1
      BY <1>4, BoardCounts
    <3>2. listed[k] \in rs /\ Board!Cardinality(Below(rs, listed[k])) = k - 1
      BY <1>5, <3>1
    <3> QED BY <3>2, BoardCounts
  <2> QED BY <1>4, <2>1, Ranks
<1> QED BY <1>1, <1>3, <1>5, <1>6 DEF listed

\* The rows of a board can be put in order.
LEMMA RowsAreOrderly ==
    ASSUME NEW rs, NEW n \in Nat, rs \subseteq BoardRows,
           \A r, s \in rs : r.id = s.id => r = s,
           \A r \in rs : 1 <= r.id /\ r.id <= n
    PROVE  Orderly(rs) /\ Cardinality(rs) \in Nat /\ Cardinality(rs) <= n
<1> DEFINE ids == [r \in rs |-> r.id]
<1>1. ids \in Injection(rs, 1..n)
  <2>1. ids \in [rs -> 1..n] /\ \A r, s \in rs : ids[r] = ids[s] => r = s
    BY DEF BoardRows
  <2> HIDE DEF ids
  <2> QED BY <2>1 DEF Injection, IsInjective
<1>2. IsFiniteSet(1..n) /\ Cardinality(1..n) = n
  BY FS_Interval
<1> HIDE DEF ids
<1>3. IsFiniteSet(rs) /\ Cardinality(rs) <= n
  BY <1>1, <1>2, FS_Injection
<1> QED BY <1>3, FS_CardinalityType DEF Orderly, BoardRows

\* The rows of the board are in order.
LEMMA TypedRows ==
    ASSUME BoardTyped
    PROVE  /\ rows \subseteq BoardRows /\ Orderly(rows)
           /\ Enumerates(Board!BoardOrder(rows), rows)
<1>1. Orderly(rows) /\ rows \subseteq BoardRows
  BY RowsAreOrderly DEF BoardTyped, RowsTyped
<1> QED BY <1>1, BoardOrderEnumerates

\* Fewer rows can be put in order, too.
LEMMA FewerRows ==
    ASSUME NEW rs, Orderly(rs), NEW some \in SUBSET rs
    PROVE  Orderly(some)
  BY FS_Subset DEF Orderly

\* A row after all the others is the last of the list.
LEMMA LastRow ==
    ASSUME NEW rs, Orderly(rs), NEW r \in rs, \A s \in rs \ {r} : s.order < r.order
    PROVE  /\ Board!BoardOrder(rs) = Append(Board!BoardOrder(rs \ {r}), r)
           /\ Board!Ids(Board!BoardOrder(rs)) =
                Append(Board!Ids(Board!BoardOrder(rs \ {r})), r.id)
<1> DEFINE others == Board!BoardOrder(rs \ {r})
           n == Len(others)
           list == Append(others, r)
<1>1. Enumerates(others, rs \ {r})
  BY FewerRows, BoardOrderEnumerates
<1> HIDE DEF others
<1>2. others \in Seq(rs) /\ n \in Nat /\ \A k \in 1..n : others[k] \in rs \ {r}
  BY <1>1 DEF Enumerates
<1>3. /\ list \in Seq(rs) /\ Len(list) = n + 1
      /\ \A k \in 1..n : list[k] = others[k]
      /\ list[n + 1] = r
  BY <1>2
<1> HIDE DEF list
<1>4. ASSUME NEW j \in 1..n + 1, NEW k \in 1..n + 1, j < k
      PROVE  Board!Before(list[j], list[k])
  <2>1. CASE k \in 1..n
    <3>1. j \in 1..n
      BY <1>2, <1>4, <2>1
    <3>2. Board!Before(others[j], others[k])
      BY <1>1, <1>4, <2>1, <3>1 DEF Enumerates
    <3> QED BY <1>3, <2>1, <3>1, <3>2
  <2>2. CASE k = n + 1
    <3>1. j \in 1..n
      BY <1>2, <1>4, <2>2
    <3>2. others[j] \in rs \ {r}
      BY <1>2, <3>1
    <3> QED BY <1>3, <2>2, <3>1, <3>2 DEF Board!Before
  <2> QED BY <1>2, <2>1, <2>2
<1>5. ASSUME NEW s \in rs PROVE \E k \in 1..n + 1 : list[k] = s
  <2>1. CASE s = r
    BY <1>2, <1>3, <2>1
  <2>2. CASE s # r
    <3>1. PICK k \in 1..n : others[k] = s
      BY <1>1, <2>2 DEF Enumerates
    <3> QED BY <1>2, <1>3, <3>1
  <2> QED BY <2>1, <2>2
<1>6. list = Board!BoardOrder(rs)
  <2>1. Enumerates(list, rs)
    BY <1>3, <1>4, <1>5 DEF Enumerates
  <2> QED BY <2>1, OneOrder
<1>7. Board!Ids(list) = Append(Board!Ids(others), r.id)
  <2>1. DOMAIN list = 1..n + 1 /\ DOMAIN others = 1..n
    BY <1>2, <1>3
  <2> DEFINE ids == Board!Ids(others)
  <2>2. ids = [k \in 1..n |-> others[k].id]
    BY <2>1 DEF Board!Ids
  <2>3. Board!Ids(list) = [k \in 1..n + 1 |-> list[k].id]
    BY <2>1 DEF Board!Ids
  <2> HIDE DEF ids
  <2>4. ids \in Seq({others[k].id : k \in 1..n}) /\ Len(ids) = n
    BY <1>2, <2>2
  <2>5. Append(ids, r.id) = [k \in 1..n + 1 |-> IF k = n + 1 THEN r.id ELSE ids[k]]
    BY <1>2, <2>4
  <2>6. \A k \in 1..n + 1 : list[k].id = IF k = n + 1 THEN r.id ELSE ids[k]
    BY <1>2, <1>3, <2>2
  <2> QED BY <2>3, <2>5, <2>6 DEF ids
<1> QED BY <1>6, <1>7 DEF list, others

\* The reducer's filter leaves the rows that are kept, in their order.
LEMMA FilterOrder ==
    ASSUME NEW rs, Orderly(rs), NEW some \in SUBSET rs, NEW gone,
           \A r, s \in rs : r.id = s.id => r = s,
           \A r \in rs : r \in some <=> r.id \notin gone
    PROVE  Board!Without(Board!Ids(Board!BoardOrder(rs)), gone)
             = Board!Ids(Board!BoardOrder(some))
<1> DEFINE list == Board!BoardOrder(rs)
           left == Board!BoardOrder(some)
           n == Len(list)
           m == Len(left)
           ids == Board!Ids(list)
           at(k) == CHOOSE j \in 1..n : list[j] = left[k]
           kept == {j \in 1..n : list[j] \in some}
           places == {[id |-> list[j].id, order |-> j] : j \in kept}
           renum == [k \in 1..m |-> [id |-> left[k].id, order |-> at(k)]]
<1>1. /\ Enumerates(list, rs) /\ Enumerates(left, some)
      /\ n \in Nat /\ m \in Nat
      /\ \A j \in 1..n : list[j] \in rs
      /\ \A k \in 1..m : left[k] \in some
      /\ DOMAIN list = 1..n /\ DOMAIN left = 1..m
  <2>1. Enumerates(list, rs) /\ Enumerates(left, some)
    BY FewerRows, BoardOrderEnumerates
  <2> HIDE DEF list, left
  <2>2. list \in Seq(rs) /\ left \in Seq(some)
    BY <2>1 DEF Enumerates
  <2> QED BY <2>1, <2>2
<1> HIDE DEF list, left
<1>2. ASSUME NEW k \in 1..m PROVE at(k) \in kept /\ list[at(k)] = left[k]
  <2>1. \E j \in 1..n : list[j] = left[k]
    BY <1>1 DEF Enumerates
  <2> HIDE DEF n
  <2>2. at(k) \in 1..n /\ list[at(k)] = left[k]
    BY <2>1
  <2> QED BY <1>1, <2>2
<1>3. \A i, j \in 1..n : i < j => list[i] # list[j]
  BY <1>1, BeforeIsAnOrder DEF Enumerates
<1>4. ASSUME NEW k \in 1..m, NEW l \in 1..m, k < l PROVE at(k) < at(l)
  <2>1. Board!Before(left[k], left[l])
    BY <1>1, <1>4 DEF Enumerates
  <2>2. at(k) \in 1..n /\ at(l) \in 1..n /\ list[at(k)] = left[k] /\ list[at(l)] = left[l]
    BY <1>2
  <2> HIDE DEF at, n
  <2>3. ~Board!Before(left[l], left[k]) /\ left[l] # left[k]
    BY <1>1, <2>1, BeforeIsAnOrder
  <2>4. ~(at(l) < at(k)) /\ at(l) # at(k)
    BY <1>1, <2>2, <2>3 DEF Enumerates, n
  <2>5. n \in Nat
    BY <1>1
  <2> QED BY <2>2, <2>4, <2>5
<1>5. ASSUME NEW j \in kept PROVE \E k \in 1..m : at(k) = j
  <2>1. PICK k \in 1..m : left[k] = list[j]
    BY <1>1 DEF Enumerates
  <2>2. at(k) \in 1..n /\ list[at(k)] = list[j]
    BY <1>2, <2>1
  <2> HIDE DEF at
  <2>3. at(k) = j
    BY <1>1, <1>3, <2>2
  <2> QED BY <2>3
<1>6. Orderly(places)
  <2> DEFINE place == [j \in kept |-> [id |-> list[j].id, order |-> j]]
  <2>1. IsFiniteSet(kept)
    <3>1. IsFiniteSet(1..n) /\ kept \in SUBSET (1..n)
      BY <1>1, FS_Interval
    <3> HIDE DEF kept
    <3> QED BY <3>1, FS_Subset
  <2>2. place \in Surjection(kept, places)
    <3>1. place \in [kept -> places] /\ \A p \in places : \E j \in kept : place[j] = p
      OBVIOUS
    <3> HIDE DEF place, places, kept
    <3> QED BY <3>1 DEF Surjection
  <2>3. IsFiniteSet(places)
    <3> HIDE DEF place, places, kept
    <3> QED BY <2>1, <2>2, FS_Surjection
  <2>4. \A j \in kept : list[j].id \in Nat /\ j \in Int
    BY <1>1 DEF Orderly
  <2>5. \A i, j \in kept : list[i].id = list[j].id => i = j
    <3>1. \A i, j \in 1..n : i # j => list[i] # list[j]
      BY <1>1, <1>3
    <3> QED BY <1>1, <3>1
  <2>6. /\ \A p \in places : p.order \in Int /\ p.id \in Nat
        /\ \A p, q \in places : p.id = q.id => p = q
    <3> HIDE DEF kept
    <3> QED BY <2>4, <2>5
  <2> HIDE DEF places
  <2> QED BY <2>3, <2>6 DEF Orderly
<1>7. Enumerates(renum, places)
  <2>1. \A k \in 1..m : renum[k] \in places
    <3> TAKE k \in 1..m
    <3>1. at(k) \in kept /\ list[at(k)] = left[k]
      BY <1>2
    <3> HIDE DEF at, kept
    <3> QED BY <3>1
  <2>2. renum \in [1..m -> places]
    <3> HIDE DEF places, at
    <3> QED BY <2>1
  <2>3. renum \in Seq(places) /\ Len(renum) = m
    <3> HIDE DEF places, renum
    <3> QED BY <1>1, <2>2
  <2>4. ASSUME NEW p \in places PROVE \E k \in 1..m : renum[k] = p
    <3>1. PICK j \in kept : p = [id |-> list[j].id, order |-> j]
      OBVIOUS
    <3>2. PICK k \in 1..m : at(k) = j
      BY <1>5
    <3>3. list[j] = left[k]
      BY <1>2, <3>2
    <3> HIDE DEF at
    <3> QED BY <3>1, <3>2, <3>3
  <2>5. ASSUME NEW j \in 1..m, NEW k \in 1..m, j < k PROVE Board!Before(renum[j], renum[k])
    <3>1. at(j) < at(k)
      BY <1>4, <2>5
    <3> HIDE DEF at
    <3> QED BY <3>1 DEF Board!Before
  <2> HIDE DEF renum, places
  <2> QED BY <2>3, <2>4, <2>5 DEF Enumerates
<1>8. Board!Without(ids, gone) = Board!Ids(Board!BoardOrder(places))
  <2>1. DOMAIN ids = 1..n /\ \A j \in 1..n : ids[j] = list[j].id
    BY <1>1 DEF Board!Ids
  <2>2. {j \in DOMAIN ids : ids[j] \notin gone} = kept
    BY <1>1, <2>1
  <2>3. {[id |-> ids[k], order |-> k] : k \in kept} = places
    BY <2>1
  <2> HIDE DEF ids, kept, places
  <2> QED BY <2>2, <2>3 DEF Board!Without
<1>9. renum = Board!BoardOrder(places)
  <2> HIDE DEF renum, places
  <2> QED BY <1>6, <1>7, OneOrder
<1>10. Board!Ids(renum) = Board!Ids(left)
  <2>1. DOMAIN renum = 1..m /\ \A k \in 1..m : renum[k].id = left[k].id
    OBVIOUS
  <2> HIDE DEF renum
  <2> QED BY <1>1, <2>1 DEF Board!Ids
<1> QED BY <1>8, <1>9, <1>10 DEF ids, list, left

\* The place that the k-th is at before one goes from i to j
TakenFrom(i, j, k) == IF k = j THEN i
                      ELSE IF i <= k /\ k < j THEN k + 1
                      ELSE IF j < k /\ k <= i THEN k - 1
                      ELSE k

\* arrayMove takes what is there before to each place.
LEMMA ArrayMovedFrom ==
    ASSUME NEW S, NEW list \in Seq(S), NEW i \in 1..Len(list), NEW j \in 1..Len(list)
    PROVE  Board!ArrayMoved(list, i, j) = [k \in 1..Len(list) |-> list[TakenFrom(i, j, k)]]
<1> DEFINE n == Len(list)
           rest == [k \in 1 .. n - 1 |-> IF k < i THEN list[k] ELSE list[k + 1]]
           moved == [k \in 1..n |-> IF k < j THEN rest[k]
                                    ELSE IF k > j THEN rest[k - 1] ELSE list[i]]
<1>1. n \in Nat /\ DOMAIN list = 1..n /\ i \in 1..n /\ j \in 1..n
  OBVIOUS
<1>2. Len(rest) = n - 1
  <2>1. n - 1 \in Nat /\ DOMAIN rest = 1 .. n - 1
    BY <1>1
  <2>2. \A k \in 1 .. n - 1 : rest[k] \in S
    BY <1>1
  <2> HIDE DEF rest, n
  <2>3. rest \in Seq(S)
    <3>1. rest = [k \in 1 .. n - 1 |-> rest[k]]
      BY <2>1 DEF rest
    <3>2. rest \in [1 .. n - 1 -> S]
      BY <2>2, <3>1
    <3> QED BY <2>1, <3>2
  <2> QED BY <2>1, <2>3
<1>3. Board!ArrayMoved(list, i, j) = moved
  <2>1. i \in DOMAIN list
    BY <1>1
  <2>3. (IF j <= n - 1 THEN j ELSE n - 1 + 1) = j /\ n - 1 + 1 = n
    <3> HIDE DEF n, rest, moved
    <3>1. n \in Int /\ j \in Int /\ j <= n
      BY <1>1
    <3> QED BY <3>1
  <2>5. Board!ArrayMoved(list, i, j) =
          [k \in 1 .. Len(rest) + 1 |->
             IF k < (IF j <= Len(rest) THEN j ELSE Len(rest) + 1) THEN rest[k]
             ELSE IF k > (IF j <= Len(rest) THEN j ELSE Len(rest) + 1) THEN rest[k - 1]
             ELSE list[i]]
    BY <2>1 DEF Board!ArrayMoved
  <2> HIDE DEF rest, n
  <2> QED BY <1>2, <2>3, <2>5
<1>4. \A k \in 1..n : moved[k] = list[TakenFrom(i, j, k)]
  BY <1>1 DEF TakenFrom
<1> HIDE DEF moved
<1> QED BY <1>3, <1>4 DEF moved

\* The orders of the rows between shift by one: the list stays in order.
LEMMA ShiftedOrders ==
    ASSUME NEW n \in Nat, NEW i \in 1..n, NEW j \in 1..n, i # j,
           NEW o \in [1..n -> Int], \A k, l \in 1..n : k < l => o[k] < o[l],
           NEW v,
           \A k \in 1..n : v[k] = IF k = i THEN o[j]
                                 ELSE IF i < k /\ k <= j THEN o[k] - 1
                                 ELSE IF j <= k /\ k < i THEN o[k] + 1
                                 ELSE o[k]
    PROVE  \A k, l \in 1..n : k < l => v[TakenFrom(i, j, k)] < v[TakenFrom(i, j, l)]
<1> DEFINE w(k) == v[TakenFrom(i, j, k)]
<1> SUFFICES ASSUME NEW k \in 1..n, NEW l \in 1..n, k < l PROVE w(k) < w(l)
  OBVIOUS
<1>1. /\ i \in Int /\ j \in Int /\ k \in Int /\ l \in Int
      /\ \A a \in 1..n : a \in Int /\ o[a] \in Int
  OBVIOUS
<1>2. CASE i < j
  <2>1. \A a \in 1..n : w(a) = IF a = j THEN o[j]
                               ELSE IF i <= a /\ a < j THEN o[a + 1] - 1
                               ELSE o[a]
    BY <1>1, <1>2 DEF TakenFrom
  <2> HIDE DEF w
  <2>2. \A a \in 1..n : i <= a /\ a < j => a + 1 \in 1..n
    BY <1>1
  <2>3. CASE i <= k /\ k < j /\ i <= l /\ l < j
    <3>1. k + 1 < l + 1 /\ k + 1 \in 1..n /\ l + 1 \in 1..n
      BY <1>1, <2>2, <2>3
    <3>2. o[k + 1] < o[l + 1]
      BY <3>1
    <3>3. w(k) = o[k + 1] - 1 /\ w(l) = o[l + 1] - 1
      BY <1>1, <2>1, <2>3
    <3> QED BY <1>1, <3>1, <3>2, <3>3
  <2>4. CASE i <= k /\ k < j /\ ~(i <= l /\ l < j)
    <3>1. w(k) = o[k + 1] - 1 /\ w(l) = o[l] /\ k + 1 \in 1..n /\ k + 1 <= l
      BY <1>1, <1>2, <2>1, <2>2, <2>4
    <3>2. o[k + 1] <= o[l]
      BY <1>1, <3>1
    <3> QED BY <1>1, <3>1, <3>2
  <2>5. CASE ~(i <= k /\ k < j) /\ i <= l /\ l < j
    <3>1. w(k) = o[k] /\ w(l) = o[l + 1] - 1 /\ l + 1 \in 1..n /\ k < l
      BY <1>1, <1>2, <2>1, <2>2, <2>5
    <3>2. o[k] < o[l] /\ o[l] < o[l + 1]
      BY <1>1, <3>1
    <3> QED BY <1>1, <3>1, <3>2
  <2>6. CASE ~(i <= k /\ k < j) /\ ~(i <= l /\ l < j)
    BY <1>1, <2>1, <2>6
  <2> QED BY <2>3, <2>4, <2>5, <2>6
<1>3. CASE j < i
  <2>1. \A a \in 1..n : w(a) = IF a = j THEN o[j]
                               ELSE IF j < a /\ a <= i THEN o[a - 1] + 1
                               ELSE o[a]
    BY <1>1, <1>3 DEF TakenFrom
  <2> HIDE DEF w
  <2>2. \A a \in 1..n : j < a /\ a <= i => a - 1 \in 1..n
    BY <1>1
  <2>3. CASE j < k /\ k <= i /\ j < l /\ l <= i
    <3>1. k - 1 < l - 1 /\ k - 1 \in 1..n /\ l - 1 \in 1..n
      BY <1>1, <2>2, <2>3
    <3>2. o[k - 1] < o[l - 1]
      BY <3>1
    <3>3. w(k) = o[k - 1] + 1 /\ w(l) = o[l - 1] + 1
      BY <1>1, <2>1, <2>3
    <3> QED BY <1>1, <3>1, <3>2, <3>3
  <2>4. CASE j < k /\ k <= i /\ ~(j < l /\ l <= i)
    <3>1. w(k) = o[k - 1] + 1 /\ w(l) = o[l] /\ k - 1 \in 1..n /\ k - 1 < k
      BY <1>1, <1>3, <2>1, <2>2, <2>4
    <3>2. o[k - 1] < o[k] /\ o[k] < o[l]
      BY <1>1, <3>1
    <3> QED BY <1>1, <3>1, <3>2
  <2>5. CASE ~(j < k /\ k <= i) /\ j < l /\ l <= i
    <3>1. w(k) = o[k] /\ w(l) = o[l - 1] + 1 /\ l - 1 \in 1..n /\ k <= l - 1
      BY <1>1, <1>3, <2>1, <2>2, <2>5
    <3>2. o[k] <= o[l - 1]
      BY <1>1, <3>1
    <3> QED BY <1>1, <3>1, <3>2
  <2>6. CASE ~(j < k /\ k <= i) /\ ~(j < l /\ l <= i)
    BY <1>1, <2>1, <2>6
  <2> QED BY <2>3, <2>4, <2>5, <2>6
<1> QED BY <1>1, <1>2, <1>3

\* A row that a move from one row to another has renumbered
Renumbered(r, from, to) == [r EXCEPT !.order = Board!Shifted(r, from, to)]

\* move_item_order on the server is arrayMove on the page.
LEMMA MoveIsArrayMove ==
    ASSUME NEW rs, Orderly(rs), rs \subseteq BoardRows, \A r, s \in rs : r.order = s.order => r = s,
           NEW list, list = Board!BoardOrder(rs),
           NEW i \in DOMAIN list, NEW j \in DOMAIN list, i # j, NEW moved,
           \A r \in rs : Renumbered(r, list[i], list[j]) \in moved,
           \A m \in moved : \E r \in rs : m = Renumbered(r, list[i], list[j])
    PROVE  /\ moved \subseteq BoardRows /\ Orderly(moved)
           /\ \A r, s \in moved : r.order = s.order => r = s
           /\ Board!Ids(Board!BoardOrder(moved)) = Board!ArrayMoved(Board!Ids(list), i, j)
<1> DEFINE n == Len(list)
           o == [k \in 1..n |-> list[k].order]
           newAt(r) == Board!Shifted(r, list[i], list[j])
           new(r) == Renumbered(r, list[i], list[j])
           v == [k \in 1..n |-> IF k = i THEN o[j]
                                ELSE IF i < k /\ k <= j THEN o[k] - 1
                                ELSE IF j <= k /\ k < i THEN o[k] + 1
                                ELSE o[k]]
           from(k) == TakenFrom(i, j, k)
           next == [k \in 1..n |-> new(list[from(k)])]
<1>1. /\ Enumerates(list, rs) /\ n \in Nat /\ DOMAIN list = 1..n
      /\ i \in 1..n /\ j \in 1..n
      /\ \A k \in 1..n : list[k] \in rs /\ list[k] \in BoardRows
  <2>1. Enumerates(list, rs) /\ list \in Seq(rs) /\ i \in DOMAIN list /\ j \in DOMAIN list
    BY BoardOrderEnumerates DEF Enumerates
  <2> HIDE DEF BoardRows
  <2> QED BY <2>1
<1>2. /\ o \in [1..n -> Int]
      /\ \A k, l \in 1..n : k < l => o[k] < o[l]
  <2>1. \A k \in 1..n : list[k].order \in Int
    BY <1>1 DEF BoardRows
  <2>2. \A k, l \in 1..n : k < l => Board!Before(list[k], list[l])
    BY <1>1 DEF Enumerates
  <2>3. \A k, l \in 1..n : k < l => list[k] # list[l]
    BY <1>1, <2>2, BeforeIsAnOrder
  <2>4. \A k, l \in 1..n : k < l => list[k].order # list[l].order
    BY <1>1, <2>3
  <2>5. \A k, l \in 1..n : k < l => list[k].order < list[l].order
    BY <2>2, <2>4 DEF Board!Before
  <2> QED BY <2>1, <2>5
<1>3. \A k \in 1..n : newAt(list[k]) = v[k] /\ v[k] \in Int
  <2> TAKE k \in 1..n
  <2>1. k \in Int /\ i \in Int /\ j \in Int /\ n \in Int
    BY <1>1
  <2>2. \A a, b \in 1..n : /\ (a < b <=> o[a] < o[b]) /\ (a <= b <=> o[a] <= o[b])
                           /\ (a = b <=> o[a] = o[b])
    <3> TAKE a, b \in 1..n
    <3>1. a < b \/ a = b \/ b < a
      BY <1>1
    <3>2. o[a] \in Int /\ o[b] \in Int /\ a \in Int /\ b \in Int
      BY <1>2
    <3> HIDE DEF o
    <3> QED BY <1>2, <3>1, <3>2
  <2>3. \A a \in 1..n : list[a].order = o[a] /\ o[a] \in Int
    BY <1>2
  <2>4. list[k] = list[i] <=> k = i
    BY <1>1, <2>2, <2>3
  <2>5. newAt(list[k]) = IF k = i THEN o[j]
                         ELSE IF o[i] < o[k] /\ o[k] <= o[j] THEN o[k] - 1
                         ELSE IF o[j] <= o[k] /\ o[k] < o[i] THEN o[k] + 1
                         ELSE o[k]
    <3> HIDE DEF o
    <3> QED BY <1>1, <2>3, <2>4 DEF Board!Shifted
  <2>6. v[k] = IF k = i THEN o[j]
               ELSE IF o[i] < o[k] /\ o[k] <= o[j] THEN o[k] - 1
               ELSE IF o[j] <= o[k] /\ o[k] < o[i] THEN o[k] + 1
               ELSE o[k]
    <3> HIDE DEF o
    <3> QED BY <1>1, <2>2
  <2>7. v[k] \in Int
    <3> HIDE DEF o
    <3> QED BY <1>1, <2>1, <2>3, <2>6
  <2> QED BY <2>5, <2>6, <2>7
<1>4. /\ \A k \in 1..n : from(k) \in 1..n
      /\ \A k \in 1..n : \E l \in 1..n : from(l) = k
  <2>1. \A k \in 1..n : from(k) \in 1..n
    BY <1>1 DEF TakenFrom
  <2>2. ASSUME NEW k \in 1..n PROVE \E l \in 1..n : from(l) = k
    <3>1. from(TakenFrom(j, i, k)) = k /\ TakenFrom(j, i, k) \in 1..n
      BY <1>1 DEF TakenFrom
    <3> QED BY <3>1
  <2> QED BY <2>1, <2>2
<1>5. \A k, l \in 1..n : k < l => v[from(k)] < v[from(l)]
  <2> HIDE DEF o, n, new, next, newAt
  <2>1. n \in Nat /\ i \in 1..n /\ j \in 1..n /\ o \in [1..n -> Int]
    BY <1>1, <1>2
  <2>2. \A k \in 1..n : v[k] = IF k = i THEN o[j]
                              ELSE IF i < k /\ k <= j THEN o[k] - 1
                              ELSE IF j <= k /\ k < i THEN o[k] + 1
                              ELSE o[k]
    OBVIOUS
  <2> HIDE DEF v
  <2> QED BY <1>2, <2>1, <2>2, ShiftedOrders
<1> HIDE DEF o, v, from, newAt
<1>6. \A k \in 1..n : /\ next[k].order = v[from(k)] /\ next[k].id = list[from(k)].id
                      /\ next[k] \in BoardRows /\ next[k] \in moved
  <2> TAKE k \in 1..n
  <2>1. from(k) \in 1..n /\ list[from(k)] \in rs /\ list[from(k)] \in BoardRows
    BY <1>1, <1>4
  <2>2. newAt(list[from(k)]) = v[from(k)] /\ v[from(k)] \in Int
    BY <1>3, <2>1
  <2>3. /\ next[k] = Renumbered(list[from(k)], list[i], list[j]) /\ next[k] \in moved
        /\ next[k] = [list[from(k)] EXCEPT !.order = newAt(list[from(k)])]
    BY <2>1 DEF Renumbered, newAt
  <2> HIDE DEF next, new
  <2> QED BY <2>1, <2>2, <2>3 DEF BoardRows
<1>7. \A r \in moved : \E k \in 1..n : next[k] = r
  <2> TAKE r \in moved
  <2>1. PICK q \in rs : r = new(q)
    OBVIOUS
  <2>2. PICK a \in 1..n : list[a] = q
    BY <1>1 DEF Enumerates
  <2>3. PICK k \in 1..n : from(k) = a
    BY <1>4
  <2>4. next[k] = r
    BY <2>1, <2>2, <2>3
  <2> QED BY <2>4
<1>8. moved \subseteq BoardRows /\ next \in Seq(moved) /\ Len(next) = n
  <2>1. moved \subseteq BoardRows
    BY <1>6, <1>7
  <2>2. next \in [1..n -> moved]
    <3>1. next = [k \in 1..n |-> next[k]]
      OBVIOUS
    <3> HIDE DEF next
    <3> QED BY <1>6, <3>1
  <2> HIDE DEF next, n, BoardRows
  <2> QED BY <1>1, <2>1, <2>2
<1> HIDE DEF new
<1>9. \A k, l \in 1..n : k < l => next[k].order < next[l].order
  <2> HIDE DEF next
  <2> QED BY <1>5, <1>6
<1>10. \A r, s \in moved : r.order = s.order => r = s
  <2> HIDE DEF next
  <2>1. \A k, l \in 1..n : k # l => next[k].order # next[l].order
    <3>1. \A k \in 1..n : next[k].order \in Int
      BY <1>6 DEF BoardRows
    <3>2. \A k, l \in 1..n : k # l => k < l \/ l < k
      BY <1>1
    <3> HIDE DEF n
    <3> QED BY <1>9, <3>1, <3>2
  <2> HIDE DEF n
  <2> QED BY <1>7, <2>1
<1>11. Orderly(moved)
  <2> DEFINE f == [k \in 1..n |-> next[k]]
  <2>1. f \in Surjection(1..n, moved)
    <3>1. f \in [1..n -> moved] /\ \A r \in moved : \E k \in 1..n : f[k] = r
      <4> HIDE DEF next, n
      <4> QED BY <1>6, <1>7
    <3> HIDE DEF f, n, next
    <3> QED BY <3>1 DEF Surjection
  <2>2. IsFiniteSet(1..n)
    BY <1>1, FS_Interval
  <2> HIDE DEF f, next, n
  <2>3. IsFiniteSet(moved)
    BY <2>1, <2>2, FS_Surjection
  <2>4. \A r \in moved : r.order \in Int /\ r.id \in Nat
    BY <1>8 DEF BoardRows
  <2> QED BY <1>10, <2>3, <2>4 DEF Orderly
<1>12. Enumerates(next, moved)
  <2>1. \A k, l \in 1..n : k < l => Board!Before(next[k], next[l])
    BY <1>9 DEF Board!Before
  <2> HIDE DEF next, n
  <2> QED BY <1>7, <1>8, <2>1 DEF Enumerates
<1>13. next = Board!BoardOrder(moved)
  <2> HIDE DEF next
  <2> QED BY <1>11, <1>12, OneOrder
<1>14. Board!Ids(next) = Board!ArrayMoved(Board!Ids(list), i, j)
  <2> DEFINE ids == Board!Ids(list)
  <2>1. ids = [k \in 1..n |-> list[k].id]
    BY <1>1 DEF Board!Ids
  <2>2. \A k \in 1..n : list[k].id \in Nat
    BY <1>1 DEF BoardRows
  <2>3. ids \in Seq(Nat) /\ Len(ids) = n
    <3>1. ids \in [1..n -> Nat]
      BY <2>1, <2>2
    <3> HIDE DEF ids, n
    <3> QED BY <1>1, <3>1
  <2>4. Board!ArrayMoved(ids, i, j) = [k \in 1..n |-> ids[from(k)]]
    <3> HIDE DEF ids, n
    <3>1. i \in 1..Len(ids) /\ j \in 1..Len(ids)
      BY <1>1, <2>3
    <3>2. Board!ArrayMoved(ids, i, j) = [k \in 1..Len(ids) |-> ids[TakenFrom(i, j, k)]]
      BY <2>3, <3>1, ArrayMovedFrom
    <3> QED BY <2>3, <3>2 DEF from
  <2>5. Board!Ids(next) = [k \in 1..n |-> next[k].id]
    <3>1. DOMAIN next = 1..n
      OBVIOUS
    <3> HIDE DEF next
    <3> QED BY <3>1 DEF Board!Ids
  <2>6. \A k \in 1..n : next[k].id = ids[from(k)]
    <3> HIDE DEF next
    <3> QED BY <1>4, <1>6, <2>1
  <2> HIDE DEF next, ids
  <2> QED BY <2>4, <2>5, <2>6 DEF ids
<1> QED BY <1>8, <1>10, <1>11, <1>13, <1>14 DEF new, newAt

\* What the server does for a call leaves the other calls alone.
LEMMA AnsweredCalls ==
    ASSUME BoardTyped, AloneAndFetched, NEW c \in calls, NEW d, Board!Answered(c, d),
           d = [id |-> c.id, op |-> c.op, args |-> c.args, phase |-> d.phase,
                order |-> d.order, added |-> d.added, board |-> d.board, alone |-> c.alone],
           d.order \in Int, d.phase \in {"read", "done"}, d.phase = "read" => c.op = "add",
           made'.calls = made.calls,
           c.op = "fetch" => d.board = Board!BoardOrder(rows')
    PROVE  CallsTyped' /\ AloneAndFetched'
<1>1. calls' = (calls \ {c}) \cup {d}
  BY DEF Board!Answered
<1>2. d.id = c.id /\ d.op = c.op /\ d.args = c.args /\ d.alone = c.alone
  OBVIOUS
<1>3. ASSUME NEW e \in calls'
      PROVE  /\ e = [id |-> e.id, op |-> e.op, args |-> e.args, phase |-> e.phase,
                     order |-> e.order, added |-> e.added, board |-> e.board,
                     alone |-> e.alone]
             /\ e.id \in Nat /\ e.id <= made'.calls /\ e.order \in Int
             /\ e.phase \in {"sent", "read", "done"} /\ (e.phase = "read" => e.op = "add")
             /\ e.op \in {"add", "delete"} => e.args[1] \in Things
             /\ e.op = "move" => e.args[1] # e.args[2]
  <2>1. CASE e \in calls
    BY <2>1 DEF BoardTyped, CallsTyped
  <2>2. CASE e = d
    <3>1. /\ c.id \in Nat /\ c.id <= made.calls
          /\ c.op \in {"add", "delete"} => c.args[1] \in Things
          /\ c.op = "move" => c.args[1] # c.args[2]
      BY DEF BoardTyped, CallsTyped
    <3> QED BY <1>2, <2>2, <3>1
  <2> QED BY <1>1, <2>1, <2>2
<1>4. \A e, f \in calls' : e.id = f.id => e = f
  BY <1>1, <1>2 DEF BoardTyped, CallsTyped
<1>5. CallsTyped'
  BY <1>3, <1>4 DEF CallsTyped
<1>6. ASSUME NEW e \in calls', LastCall(e)'
      PROVE  /\ calls' = {e}
             /\ e.op = "fetch" /\ e.phase = "done" => e.board = Board!BoardOrder(rows')
  <2>1. CASE e = d
    <3>1. LastCall(c)
      BY <1>2, <1>6, <2>1 DEF LastCall
    <3>2. calls = {c}
      BY <3>1 DEF AloneAndFetched
    <3> QED BY <1>1, <1>2, <2>1, <3>2
  <2>2. CASE e # d
    <3>1. e \in calls \ {c} /\ LastCall(e)
      BY <1>1, <1>6, <2>2 DEF LastCall
    <3> QED BY <3>1 DEF AloneAndFetched
  <2> QED BY <2>1, <2>2
<1>7. AloneAndFetched'
  BY <1>6 DEF AloneAndFetched
<1> QED BY <1>5, <1>7

\* So does a call that is over.
LEMMA FewerCalls ==
    ASSUME BoardTyped, AloneAndFetched, NEW c \in calls, calls' = calls \ {c},
           made'.calls = made.calls
    PROVE  CallsTyped' /\ AloneAndFetched'
<1>1. CallsTyped'
  BY DEF BoardTyped, CallsTyped
<1>2. \A e \in calls' : ~LastCall(e)'
  BY DEF AloneAndFetched, LastCall
<1> QED BY <1>1, <1>2 DEF AloneAndFetched

\* A call that changes is the same call.
LEMMA CallChanges ==
    ASSUME NEW c, NEW p, NEW x,
           c = [id |-> c.id, op |-> c.op, args |-> c.args, phase |-> c.phase,
                order |-> c.order, added |-> c.added, board |-> c.board, alone |-> c.alone]
    PROVE  /\ [c EXCEPT !.phase = p] =
                [id |-> c.id, op |-> c.op, args |-> c.args, phase |-> p,
                 order |-> c.order, added |-> c.added, board |-> c.board, alone |-> c.alone]
           /\ [c EXCEPT !.phase = p, !.order = x] =
                [id |-> c.id, op |-> c.op, args |-> c.args, phase |-> p,
                 order |-> x, added |-> c.added, board |-> c.board, alone |-> c.alone]
           /\ [c EXCEPT !.phase = p, !.added = x] =
                [id |-> c.id, op |-> c.op, args |-> c.args, phase |-> p,
                 order |-> c.order, added |-> x, board |-> c.board, alone |-> c.alone]
           /\ [c EXCEPT !.phase = p, !.board = x] =
                [id |-> c.id, op |-> c.op, args |-> c.args, phase |-> p,
                 order |-> c.order, added |-> c.added, board |-> x, alone |-> c.alone]
<1> DEFINE i == c.id  o == c.op  a == c.args  q == c.phase
           n == c.order  m == c.added  b == c.board  l == c.alone
           moved == [c EXCEPT !.phase = p]
<1>1. c = [id |-> i, op |-> o, args |-> a, phase |-> q,
           order |-> n, added |-> m, board |-> b, alone |-> l]
  OBVIOUS
<1> SUFFICES /\ [c EXCEPT !.phase = p] =
                  [id |-> i, op |-> o, args |-> a, phase |-> p,
                   order |-> n, added |-> m, board |-> b, alone |-> l]
             /\ [c EXCEPT !.phase = p, !.order = x] =
                  [id |-> i, op |-> o, args |-> a, phase |-> p,
                   order |-> x, added |-> m, board |-> b, alone |-> l]
             /\ [c EXCEPT !.phase = p, !.added = x] =
                  [id |-> i, op |-> o, args |-> a, phase |-> p,
                   order |-> n, added |-> x, board |-> b, alone |-> l]
             /\ [c EXCEPT !.phase = p, !.board = x] =
                  [id |-> i, op |-> o, args |-> a, phase |-> p,
                   order |-> n, added |-> m, board |-> x, alone |-> l]
  OBVIOUS
<1> HIDE DEF i, o, a, q, n, m, b, l
<1>2. moved = [id |-> i, op |-> o, args |-> a, phase |-> p,
              order |-> n, added |-> m, board |-> b, alone |-> l]
  BY <1>1
<1>3. /\ [c EXCEPT !.phase = p, !.order = x] = [moved EXCEPT !.order = x]
      /\ [c EXCEPT !.phase = p, !.added = x] = [moved EXCEPT !.added = x]
      /\ [c EXCEPT !.phase = p, !.board = x] = [moved EXCEPT !.board = x]
  OBVIOUS
<1> HIDE DEF moved
<1>4. [moved EXCEPT !.order = x] =
        [id |-> i, op |-> o, args |-> a, phase |-> p,
         order |-> x, added |-> m, board |-> b, alone |-> l]
  BY <1>2
<1>5. [moved EXCEPT !.added = x] =
        [id |-> i, op |-> o, args |-> a, phase |-> p,
         order |-> n, added |-> x, board |-> b, alone |-> l]
  BY <1>2
<1>6. [moved EXCEPT !.board = x] =
        [id |-> i, op |-> o, args |-> a, phase |-> p,
         order |-> n, added |-> m, board |-> x, alone |-> l]
  BY <1>2
<1> QED BY <1>2, <1>3, <1>4, <1>5, <1>6 DEF moved

\* With nothing astray a call that is under way is the only one.
LEMMA TheOnlyCall ==
    ASSUME BoardInv, astray = {}, NEW c \in calls
    PROVE  calls = {c} /\ LastCall(c)
  BY DEF BoardInv, PageFollows, AloneAndFetched

\* What the page sends keeps the invariant.
LEMMA SendKeeps ==
    ASSUME BoardInv, NEW op \in {"add", "move", "delete", "fetch"}, NEW args,
           Board!Send(op, args),
           op \in {"add", "delete"} => args[1] \in Things,
           op = "move" => args[1] # args[2]
    PROVE  BoardInv'
<1> PICK c : c = [id |-> made.calls + 1, op |-> op, args |-> args, phase |-> "sent",
                  order |-> 0, added |-> 0, board |-> <<>>, alone |-> calls = {}]
  OBVIOUS
<1>1. /\ made' = [made EXCEPT !.calls = @ + 1] /\ calls' = calls \cup {c}
      /\ astray' = astray \cup {"overlap" : d \in calls}
      /\ UNCHANGED <<rows, items, itemById>>
  BY DEF Board!Send
<1>2. /\ made \in [calls : Nat, rows : Nat] /\ made'.calls = made.calls + 1
      /\ made'.rows = made.rows /\ made' \in [calls : Nat, rows : Nat]
  BY <1>1 DEF BoardInv, BoardTyped
<1>3. /\ c.id = made.calls + 1 /\ c.op = op /\ c.args = args /\ c.phase = "sent"
      /\ c.order = 0 /\ (c.alone <=> calls = {})
      /\ c = [id |-> c.id, op |-> c.op, args |-> c.args, phase |-> c.phase,
              order |-> c.order, added |-> c.added, board |-> c.board, alone |-> c.alone]
  OBVIOUS
<1>4. \A d \in calls : d.id \in Nat /\ d.id <= made.calls
  BY DEF BoardInv, BoardTyped, CallsTyped
<1>5. CallsTyped'
  <2>1. \A d \in calls' :
          /\ d = [id |-> d.id, op |-> d.op, args |-> d.args, phase |-> d.phase,
                  order |-> d.order, added |-> d.added, board |-> d.board,
                  alone |-> d.alone]
          /\ d.id \in Nat /\ d.id <= made'.calls /\ d.order \in Int
          /\ d.phase \in {"sent", "read", "done"} /\ (d.phase = "read" => d.op = "add")
          /\ d.op \in {"add", "delete"} => d.args[1] \in Things
          /\ d.op = "move" => d.args[1] # d.args[2]
    <3> TAKE d \in calls'
    <3>1. CASE d \in calls
      <4>1. d.id <= made.calls + 1
        BY <1>2, <1>4, <3>1
      <4> QED BY <1>2, <3>1, <4>1 DEF BoardInv, BoardTyped, CallsTyped
    <3>2. CASE d = c
      <4>1. c.id \in Nat /\ c.id <= made.calls + 1
        BY <1>2, <1>3
      <4> QED BY <1>2, <1>3, <3>2, <4>1
    <3> QED BY <1>1, <3>1, <3>2
  <2>2. \A d, e \in calls' : d.id = e.id => d = e
    <3>1. \A d \in calls : d.id # c.id
      BY <1>2, <1>3, <1>4
    <3> QED BY <1>1, <3>1 DEF BoardInv, BoardTyped, CallsTyped
  <2> QED BY <2>1, <2>2 DEF CallsTyped
<1>6. BoardTyped'
  BY <1>1, <1>2, <1>5 DEF BoardInv, BoardTyped, RowsTyped
<1>7. AloneAndFetched'
  <2>1. \A d \in calls : ~LastCall(d)'
    BY <1>2, <1>4 DEF LastCall
  <2> QED BY <1>1, <1>3, <2>1 DEF AloneAndFetched, LastCall
<1>8. PageFollows'
  <2> SUFFICES ASSUME astray' = {} PROVE PageFollows'
    BY DEF PageFollows
  <2>1. calls = {} /\ astray = {} /\ calls' = {c}
    BY <1>1
  <2>2. /\ Board!Plain(rows) /\ items = Board!Ids(Board!BoardOrder(rows)) /\ Known(rows)
    BY <2>1 DEF BoardInv, PageFollows
  <2>3. LastCall(c)'
    BY <1>2, <1>3, <2>1 DEF LastCall
  <2>4. Known(rows)'
    BY <1>1, <2>2 DEF Known
  <2> QED BY <1>1, <1>3, <2>1, <2>2, <2>3, <2>4 DEF PageFollows
<1> QED BY <1>6, <1>7, <1>8 DEF BoardInv

\* An add that reads the highest order keeps the invariant.
LEMMA AddReadsKeeps ==
    ASSUME BoardInv, NEW c \in calls, Board!AddReads(c)
    PROVE  BoardInv'
<1>1. PICK highest \in {r.order : r \in rows} \cup {0} :
         /\ \A r \in rows : r.order <= highest
         /\ Board!Answered(c, [c EXCEPT !.phase = "read", !.order = highest + 1])
  BY DEF Board!AddReads
<1>2. /\ c.op = "add" /\ \A r \in rows : r.thing # c.args[1]
      /\ UNCHANGED <<rows, items, itemById, made, astray>>
  BY DEF Board!AddReads
<1>3. highest \in Int /\ \A r \in rows : r.order \in Int /\ r.order < highest + 1
  BY <1>1 DEF BoardInv, BoardTyped, RowsTyped, BoardRows
<1> DEFINE d == [c EXCEPT !.phase = "read", !.order = highest + 1]
<1>4. /\ c = [id |-> c.id, op |-> c.op, args |-> c.args, phase |-> c.phase,
              order |-> c.order, added |-> c.added, board |-> c.board, alone |-> c.alone]
  BY DEF BoardInv, BoardTyped, CallsTyped
<1>5. d = [id |-> c.id, op |-> c.op, args |-> c.args, phase |-> "read",
           order |-> highest + 1, added |-> c.added, board |-> c.board, alone |-> c.alone]
  <2> DEFINE x == highest + 1
  <2>1. d = [c EXCEPT !.phase = "read", !.order = x]
    OBVIOUS
  <2> HIDE DEF x, d
  <2>2. d = [id |-> c.id, op |-> c.op, args |-> c.args, phase |-> "read",
             order |-> x, added |-> c.added, board |-> c.board, alone |-> c.alone]
    BY <1>4, <2>1, CallChanges
  <2> QED BY <2>2 DEF x
<1> HIDE DEF d
<1>6. /\ d = [id |-> c.id, op |-> c.op, args |-> c.args, phase |-> d.phase,
              order |-> d.order, added |-> d.added, board |-> d.board, alone |-> c.alone]
      /\ d.order = highest + 1 /\ d.phase = "read" /\ d.args = c.args /\ d.op = "add"
      /\ d.id = c.id /\ d.alone = c.alone
  BY <1>2, <1>5
<1>7. CallsTyped' /\ AloneAndFetched'
  <2>1. Board!Answered(c, d)
    BY <1>1 DEF d
  <2> QED BY <1>2, <1>3, <1>6, <2>1, AnsweredCalls DEF BoardInv
<1>8. BoardTyped'
  BY <1>2, <1>7 DEF BoardInv, BoardTyped, RowsTyped
<1>9. PageFollows'
  <2> SUFFICES ASSUME astray' = {} PROVE PageFollows'
    BY DEF PageFollows
  <2>1. calls = {c} /\ LastCall(c) /\ calls' = {d}
    BY <1>1, <1>2, TheOnlyCall DEF Board!Answered, d
  <2>2. c.phase # "done"
    BY DEF Board!AddReads
  <2>3. /\ Board!Plain(rows) /\ items = Board!Ids(Board!BoardOrder(rows)) /\ Known(rows)
    BY <1>2, <2>1, <2>2 DEF BoardInv, PageFollows
  <2>4. LastCall(d)' /\ Known(rows)'
    BY <1>2, <1>6, <2>1, <2>3 DEF LastCall, Known
  <2> QED BY <1>2, <1>3, <1>6, <2>1, <2>3, <2>4 DEF PageFollows
<1> QED BY <1>7, <1>8, <1>9 DEF BoardInv

\* An add that commits its row keeps the invariant.
LEMMA AddCommitsKeeps ==
    ASSUME BoardInv, NEW c \in calls, Board!AddCommits(c)
    PROVE  BoardInv'
<1>0. PICK d, new : /\ d = [c EXCEPT !.phase = "done", !.added = made'.rows]
                    /\ new = [id |-> made'.rows, thing |-> c.args[1], order |-> c.order]
  OBVIOUS
<1>1. /\ c.phase = "read" /\ Board!Answered(c, d)
      /\ made' = [made EXCEPT !.rows = @ + 1] /\ rows' = rows \cup {new}
      /\ UNCHANGED <<items, itemById, astray>>
  BY <1>0 DEF Board!AddCommits
<1>2. /\ made \in [calls : Nat, rows : Nat] /\ made'.rows = made.rows + 1
      /\ made'.calls = made.calls /\ made' \in [calls : Nat, rows : Nat]
  BY <1>1 DEF BoardInv, BoardTyped
<1>3. /\ c = [id |-> c.id, op |-> c.op, args |-> c.args, phase |-> c.phase,
              order |-> c.order, added |-> c.added, board |-> c.board, alone |-> c.alone]
      /\ c.op = "add" /\ c.args[1] \in Things /\ c.order \in Int
  BY <1>1 DEF BoardInv, BoardTyped, CallsTyped
<1>4. d = [id |-> c.id, op |-> c.op, args |-> c.args, phase |-> "done",
           order |-> c.order, added |-> made'.rows, board |-> c.board, alone |-> c.alone]
  BY <1>0, <1>3, CallChanges
<1>5. /\ d = [id |-> c.id, op |-> c.op, args |-> c.args, phase |-> d.phase,
              order |-> d.order, added |-> d.added, board |-> d.board, alone |-> c.alone]
      /\ d.order = c.order /\ d.phase = "done" /\ d.args = c.args /\ d.op = "add"
      /\ d.id = c.id /\ d.alone = c.alone /\ d.added = made'.rows
  BY <1>3, <1>4
<1>6. CallsTyped' /\ AloneAndFetched'
  BY <1>1, <1>2, <1>3, <1>5, AnsweredCalls DEF BoardInv
<1>7. /\ new.id = made.rows + 1 /\ new.thing = c.args[1] /\ new.order = c.order
      /\ new \in BoardRows
  BY <1>0, <1>2, <1>3 DEF BoardRows
<1>8. /\ rows \subseteq BoardRows /\ \A r, s \in rows : r.id = s.id => r = s
      /\ \A r \in rows : r.id \in Nat /\ 1 <= r.id /\ r.id <= made.rows
  BY DEF BoardInv, BoardTyped, RowsTyped, BoardRows
<1>9. new \notin rows
  BY <1>2, <1>7, <1>8
<1>10. RowsTyped(rows)'
  <2>1. \A r \in rows : r.id # new.id
    BY <1>2, <1>7, <1>8
  <2>2. \A r \in rows' : 1 <= r.id /\ r.id <= made'.rows
    BY <1>1, <1>2, <1>7, <1>8
  <2> HIDE DEF BoardRows
  <2> QED BY <1>1, <1>7, <1>8, <2>1, <2>2 DEF RowsTyped
<1>11. BoardTyped'
  BY <1>2, <1>6, <1>10 DEF BoardTyped
<1>12. PageFollows'
  <2> SUFFICES ASSUME astray' = {} PROVE PageFollows'
    BY DEF PageFollows
  <2>1. calls = {c} /\ LastCall(c) /\ calls' = {d} /\ astray = {}
    BY <1>1, TheOnlyCall DEF Board!Answered
  <2>2. /\ Board!Plain(rows) /\ items = Board!Ids(Board!BoardOrder(rows)) /\ Known(rows)
        /\ \A r \in rows : r.order < c.order /\ r.thing # c.args[1]
    BY <1>1, <2>1 DEF BoardInv, PageFollows
  <2>3. \A r \in rows : r.order < new.order /\ r.order \in Int /\ new.order \in Int
    BY <1>3, <1>7, <1>8, <2>2 DEF BoardRows
  <2>4. Board!Plain(rows)'
    <3>1. \A r \in rows : r.order # new.order /\ r.thing # new.thing
      BY <1>7, <2>2, <2>3
    <3> QED BY <1>1, <2>2, <3>1 DEF Board!Plain
  <2>5. rows' \ {new} = rows
    BY <1>1, <1>9
  <2>6. Adding(d)'
    <3>1. \A r \in rows' \ {new} : r.id \in DOMAIN itemById' /\ itemById'[r.id] = r.thing
      BY <1>1, <2>2, <2>5 DEF Known
    <3>2. items' = Board!Ids(Board!BoardOrder(rows' \ {new}))
      BY <1>1, <2>2, <2>5
    <3>3. new \in rows' /\ new.id = d.added /\ new.thing = d.args[1]
      BY <1>1, <1>2, <1>5, <1>7
    <3> QED BY <1>5, <2>3, <2>5, <3>1, <3>2, <3>3 DEF Adding, Known
  <2>7. LastCall(d)'
    BY <1>2, <1>5, <2>1 DEF LastCall
  <2> QED BY <1>5, <2>1, <2>4, <2>6, <2>7 DEF PageFollows
<1> QED BY <1>6, <1>11, <1>12 DEF BoardInv

\* A call that is done with no more to remember
LEMMA DoneCall ==
    ASSUME BoardTyped, NEW c \in calls
    PROVE  LET d == [c EXCEPT !.phase = "done"]
           IN  /\ d = [id |-> c.id, op |-> c.op, args |-> c.args, phase |-> d.phase,
                       order |-> d.order, added |-> d.added, board |-> d.board,
                       alone |-> c.alone]
               /\ d.id = c.id /\ d.op = c.op /\ d.args = c.args /\ d.phase = "done"
               /\ d.order = c.order /\ d.order \in Int /\ d.alone = c.alone
<1> DEFINE d == [c EXCEPT !.phase = "done"]
<1>1. /\ c = [id |-> c.id, op |-> c.op, args |-> c.args, phase |-> c.phase,
              order |-> c.order, added |-> c.added, board |-> c.board, alone |-> c.alone]
      /\ c.order \in Int
  BY DEF BoardTyped, CallsTyped
<1>2. d = [id |-> c.id, op |-> c.op, args |-> c.args, phase |-> "done",
           order |-> c.order, added |-> c.added, board |-> c.board, alone |-> c.alone]
  BY <1>1, CallChanges
<1> HIDE DEF d
<1>3. /\ d.id = c.id /\ d.op = c.op /\ d.args = c.args /\ d.phase = "done"
      /\ d.order = c.order /\ d.alone = c.alone /\ d.added = c.added /\ d.board = c.board
  BY <1>2
<1> QED BY <1>1, <1>2, <1>3 DEF d

\* A move on the server keeps the invariant: it is arrayMove's.
LEMMA MoveKeeps ==
    ASSUME BoardInv, NEW c \in calls, Board!Move(c)
    PROVE  BoardInv'
<1> DEFINE list == Board!BoardOrder(rows)
           i == c.args[1]
           j == c.args[2]
           new(r) == Renumbered(r, list[i], list[j])
<1>0. PICK d : d = [c EXCEPT !.phase = "done"]
  OBVIOUS
<1>1. /\ c.op = "move" /\ c.phase = "sent" /\ i \in DOMAIN list /\ j \in DOMAIN list
      /\ rows' = {new(r) : r \in rows} /\ Board!Answered(c, d)
      /\ UNCHANGED <<items, itemById, made, astray>>
  BY <1>0 DEF Board!Move, Renumbered
<1>2. /\ d = [id |-> c.id, op |-> c.op, args |-> c.args, phase |-> d.phase,
              order |-> d.order, added |-> d.added, board |-> d.board, alone |-> c.alone]
      /\ d.id = c.id /\ d.op = c.op /\ d.args = c.args /\ d.phase = "done"
      /\ d.order \in Int /\ d.alone = c.alone
  BY <1>0, DoneCall DEF BoardInv
<1>3. CallsTyped' /\ AloneAndFetched'
  BY <1>1, <1>2, AnsweredCalls DEF BoardInv
<1>4. i # j
  BY <1>1 DEF BoardInv, BoardTyped, CallsTyped
<1>5. /\ rows \subseteq BoardRows /\ Orderly(rows) /\ Enumerates(list, rows)
      /\ list[i] \in rows /\ list[j] \in rows
  <2>1. rows \subseteq BoardRows /\ Orderly(rows) /\ Enumerates(list, rows)
    BY TypedRows DEF BoardInv
  <2> HIDE DEF list
  <2> QED BY <1>1, <2>1 DEF Enumerates
<1>6. \A r \in rows : /\ new(r).id = r.id /\ new(r).thing = r.thing
                      /\ new(r).order \in Int /\ new(r) \in BoardRows
  <2> TAKE r \in rows
  <2>1. Board!Shifted(r, list[i], list[j]) \in Int
    <3>1. r.order \in Int /\ list[i].order \in Int /\ list[j].order \in Int
      BY <1>5 DEF BoardRows
    <3> HIDE DEF list
    <3> QED BY <3>1 DEF Board!Shifted
  <2> HIDE DEF list
  <2> QED BY <1>5, <2>1 DEF BoardRows, Renumbered
<1>7. BoardTyped'
  <2>1. \A r, s \in rows : r.id = s.id => r = s
    BY DEF BoardInv, BoardTyped, RowsTyped
  <2>2. \A r \in rows : 1 <= r.id /\ r.id <= made.rows
    BY DEF BoardInv, BoardTyped, RowsTyped
  <2> HIDE DEF new, BoardRows
  <2>3. RowsTyped(rows)'
    BY <1>1, <1>6, <2>1, <2>2 DEF RowsTyped
  <2> QED BY <1>1, <1>3, <2>3 DEF BoardInv, BoardTyped
<1>8. PageFollows'
  <2> SUFFICES ASSUME astray' = {} PROVE PageFollows'
    BY DEF PageFollows
  <2>1. calls = {c} /\ LastCall(c) /\ calls' = {d} /\ astray = {}
    BY <1>1, TheOnlyCall DEF Board!Answered
  <2>2. /\ Board!Plain(rows) /\ items = Board!Ids(list) /\ Known(rows)
    BY <1>1, <2>1 DEF BoardInv, PageFollows
  <2>3. /\ \A r, s \in rows' : r.order = s.order => r = s
        /\ Board!Ids(Board!BoardOrder(rows')) = Board!ArrayMoved(items, i, j)
    <3>1. \A r, s \in rows : r.order = s.order => r = s
      BY <2>2 DEF Board!Plain
    <3>2. /\ \A r \in rows : Renumbered(r, list[i], list[j]) \in rows'
          /\ \A m \in rows' : \E r \in rows : m = Renumbered(r, list[i], list[j])
      BY <1>1
    <3>3. /\ \A r, s \in rows' : r.order = s.order => r = s
          /\ Board!Ids(Board!BoardOrder(rows')) = Board!ArrayMoved(Board!Ids(list), i, j)
      <4>1. list = Board!BoardOrder(rows) /\ i \in DOMAIN list /\ j \in DOMAIN list
        BY <1>1
      <4> HIDE DEF list, i, j, new
      <4>2. PICK l, a, b : l = list /\ a = i /\ b = j
        OBVIOUS
      <4>3. PICK after : after = rows'
        OBVIOUS
      <4>4. PICK before : before = rows
        OBVIOUS
      <4>5. /\ Orderly(before) /\ before \subseteq BoardRows
            /\ \A r, s \in before : r.order = s.order => r = s
            /\ l = Board!BoardOrder(before) /\ a \in DOMAIN l /\ b \in DOMAIN l /\ a # b
        BY <1>4, <1>5, <3>1, <4>1, <4>2, <4>4
      <4>6. /\ \A r \in before : Renumbered(r, l[a], l[b]) \in after
            /\ \A m \in after : \E r \in before : m = Renumbered(r, l[a], l[b])
        BY <3>2, <4>2, <4>3, <4>4
      <4>7. /\ \A r, s \in after : r.order = s.order => r = s
            /\ Board!Ids(Board!BoardOrder(after)) = Board!ArrayMoved(Board!Ids(l), a, b)
        BY <4>5, <4>6, MoveIsArrayMove
      <4> QED BY <4>2, <4>3, <4>7
    <3> QED BY <2>2, <3>3
  <2> HIDE DEF list
  <2>4. Board!Plain(rows)'
    <3>1. \A r, s \in rows : r.thing = s.thing => r = s
      BY <2>2 DEF Board!Plain
    <3> HIDE DEF new
    <3>2. \A r, s \in rows' : r.thing = s.thing => r = s
      BY <1>1, <1>6, <3>1
    <3> QED BY <2>3, <3>2 DEF Board!Plain
  <2>5. Known(rows)'
    <3> HIDE DEF new
    <3> QED BY <1>1, <1>6, <2>2 DEF Known
  <2>6. Moving(d)'
    BY <1>1, <1>2, <2>3, <2>5 DEF Moving
  <2>7. LastCall(d)'
    BY <1>1, <1>2, <2>1 DEF LastCall
  <2> QED BY <1>1, <1>2, <2>1, <2>4, <2>6, <2>7 DEF PageFollows
<1> QED BY <1>3, <1>7, <1>8 DEF BoardInv

\* A delete on the server keeps the invariant: what it leaves is what the
\* reducer's filter leaves.
LEMMA DeleteKeeps ==
    ASSUME BoardInv, NEW c \in calls, Board!Delete(c)
    PROVE  BoardInv'
<1>0. PICK d : d = [c EXCEPT !.phase = "done"]
  OBVIOUS
<1> DEFINE t == c.args[1]
           found == {r \in rows : r.thing = t}
           first == {r \in found : \A s \in found : r.id <= s.id}
<1>1. /\ c.op = "delete" /\ c.phase = "sent" /\ rows' = rows \ first
      /\ Board!Answered(c, d) /\ UNCHANGED <<items, itemById, made, astray>>
  BY <1>0 DEF Board!Delete
<1>2. /\ d = [id |-> c.id, op |-> c.op, args |-> c.args, phase |-> d.phase,
              order |-> d.order, added |-> d.added, board |-> d.board, alone |-> c.alone]
      /\ d.id = c.id /\ d.op = c.op /\ d.args = c.args /\ d.phase = "done"
      /\ d.order \in Int /\ d.alone = c.alone
  BY <1>0, DoneCall DEF BoardInv
<1>3. CallsTyped' /\ AloneAndFetched'
  BY <1>1, <1>2, AnsweredCalls DEF BoardInv
<1>4. BoardTyped'
  BY <1>1, <1>3 DEF BoardInv, BoardTyped, RowsTyped
<1>5. PageFollows'
  <2> SUFFICES ASSUME astray' = {} PROVE PageFollows'
    BY DEF PageFollows
  <2>1. calls = {c} /\ LastCall(c) /\ calls' = {d} /\ astray = {}
    BY <1>1, TheOnlyCall DEF Board!Answered
  <2>2. Board!Plain(rows) /\ items = Board!Ids(Board!BoardOrder(rows)) /\ Known(rows)
    BY <1>1, <2>1 DEF BoardInv, PageFollows
  <2>3. /\ rows \subseteq BoardRows /\ Orderly(rows)
        /\ \A r, s \in rows : r.id = s.id => r = s
    BY TypedRows DEF BoardInv, BoardTyped, RowsTyped
  <2>4. first = found
    <3>1. \A r, s \in found : r = s
      BY <2>2 DEF Board!Plain
    <3>2. \A r \in found : r.id <= r.id
      BY <2>3 DEF BoardRows
    <3> QED BY <3>1, <3>2
  <2>5. Board!Plain(rows)' /\ Known(rows)'
    BY <1>1, <2>2 DEF Board!Plain, Known
  <2>6. Deleting(d)'
    <3> DEFINE gone == {i \in DOMAIN itemById : itemById[i] = t}
    <3>1. \A r \in rows : r \in rows' <=> r.id \notin gone
      BY <1>1, <2>2, <2>4 DEF Known
    <3>2. rows' \in SUBSET rows
      BY <1>1
    <3> HIDE DEF gone
    <3>3. Board!Without(items, gone) = Board!Ids(Board!BoardOrder(rows'))
      BY <2>2, <2>3, <3>1, <3>2, FilterOrder
    <3>4. \A r \in rows' : r.thing # t
      BY <1>1, <2>4
    <3> QED BY <1>1, <1>2, <2>5, <3>3, <3>4 DEF Deleting, gone
  <2>7. LastCall(d)'
    BY <1>1, <1>2, <2>1 DEF LastCall
  <2> QED BY <1>1, <1>2, <2>1, <2>5, <2>6, <2>7 DEF PageFollows
<1> QED BY <1>3, <1>4, <1>5 DEF BoardInv

\* A fetch that the server answers keeps the invariant.
LEMMA GetBoardKeeps ==
    ASSUME BoardInv, NEW c \in calls, Board!GetBoard(c)
    PROVE  BoardInv'
<1>0. PICK d : d = [c EXCEPT !.phase = "done", !.board = Board!BoardOrder(rows)]
  OBVIOUS
<1>1. /\ c.op = "fetch" /\ c.phase = "sent" /\ Board!Answered(c, d)
      /\ UNCHANGED <<rows, items, itemById, made, astray>>
  BY <1>0 DEF Board!GetBoard
<1>2. /\ c = [id |-> c.id, op |-> c.op, args |-> c.args, phase |-> c.phase,
              order |-> c.order, added |-> c.added, board |-> c.board, alone |-> c.alone]
      /\ c.order \in Int
  BY DEF BoardInv, BoardTyped, CallsTyped
<1>3. d = [id |-> c.id, op |-> c.op, args |-> c.args, phase |-> "done", order |-> c.order,
           added |-> c.added, board |-> Board!BoardOrder(rows), alone |-> c.alone]
  BY <1>0, <1>2, CallChanges
<1>4. /\ d = [id |-> c.id, op |-> c.op, args |-> c.args, phase |-> d.phase,
              order |-> d.order, added |-> d.added, board |-> d.board, alone |-> c.alone]
      /\ d.id = c.id /\ d.op = "fetch" /\ d.phase = "done" /\ d.order \in Int
      /\ d.alone = c.alone /\ d.board = Board!BoardOrder(rows)
  BY <1>1, <1>2, <1>3
<1>5. CallsTyped' /\ AloneAndFetched'
  BY <1>1, <1>4, AnsweredCalls DEF BoardInv
<1>6. BoardTyped'
  BY <1>1, <1>5 DEF BoardInv, BoardTyped, RowsTyped
<1>7. PageFollows'
  <2> SUFFICES ASSUME astray' = {} PROVE PageFollows'
    BY DEF PageFollows
  <2>1. calls = {c} /\ LastCall(c) /\ calls' = {d} /\ astray = {}
    BY <1>1, TheOnlyCall DEF Board!Answered
  <2>2. Board!Plain(rows) /\ items = Board!Ids(Board!BoardOrder(rows)) /\ Known(rows)
    BY <1>1, <2>1 DEF BoardInv, PageFollows
  <2>3. LastCall(d)' /\ Known(rows)'
    BY <1>1, <1>4, <2>1, <2>2 DEF LastCall, Known
  <2> QED BY <1>1, <1>4, <2>1, <2>2, <2>3 DEF PageFollows
<1> QED BY <1>5, <1>6, <1>7 DEF BoardInv

\* A call that fails and an answer that is lost keep the invariant.
LEMMA LossesKeep ==
    ASSUME BoardInv, NEW c \in calls, Board!Fails(c) \/ Board!LoseAnswer(c)
    PROVE  BoardInv'
<1>1. calls' = calls \ {c} /\ UNCHANGED <<rows, items, itemById, made>>
  BY DEF Board!Fails, Board!LoseAnswer
<1>2. CallsTyped' /\ AloneAndFetched'
  BY <1>1, FewerCalls DEF BoardInv
<1>3. BoardTyped'
  BY <1>1, <1>2 DEF BoardInv, BoardTyped, RowsTyped
<1>4. PageFollows'
  <2> SUFFICES ASSUME astray' = {} PROVE PageFollows'
    BY DEF PageFollows
  <2>1. c.phase \in {"sent", "read"} /\ astray = {}
    BY DEF Board!Fails, Board!LoseAnswer
  <2>2. calls = {c} /\ calls' = {}
    BY <1>1, <2>1, TheOnlyCall
  <2>3. Board!Plain(rows) /\ items = Board!Ids(Board!BoardOrder(rows)) /\ Known(rows)
    BY <2>1, <2>2 DEF BoardInv, PageFollows
  <2> QED BY <1>1, <2>2, <2>3 DEF PageFollows, Known
<1> QED BY <1>2, <1>3, <1>4 DEF BoardInv

\* The answers to a move and a delete keep the invariant.
LEMMA ReceivedMoveKeeps ==
    ASSUME BoardInv, NEW c \in calls, Board!MoveItem(c)
    PROVE  BoardInv'
<1>1. /\ c.op = "move" /\ c.phase = "done"
      /\ items' = Board!ArrayMoved(items, c.args[1], c.args[2])
      /\ calls' = calls \ {c} /\ UNCHANGED <<rows, itemById, made, astray>>
  BY DEF Board!MoveItem, Board!Received
<1>2. CallsTyped' /\ AloneAndFetched'
  BY <1>1, FewerCalls DEF BoardInv
<1>3. BoardTyped'
  BY <1>1, <1>2 DEF BoardInv, BoardTyped, RowsTyped
<1>4. PageFollows'
  <2> SUFFICES ASSUME astray' = {} PROVE PageFollows'
    BY DEF PageFollows
  <2>1. calls = {c} /\ calls' = {}
    BY <1>1, TheOnlyCall
  <2>2. Board!Plain(rows) /\ Moving(c)
    BY <1>1 DEF BoardInv, PageFollows
  <2> QED BY <1>1, <2>1, <2>2 DEF PageFollows, Moving, Known
<1> QED BY <1>2, <1>3, <1>4 DEF BoardInv

LEMMA ReceivedDeleteKeeps ==
    ASSUME Things \subseteq ThingKinds \X Nat,
           BoardInv, NEW c \in calls, Board!RemoveBoardItem(c)
    PROVE  BoardInv'
<1> DEFINE t == c.args[1]
           gone == {i \in DOMAIN itemById : itemById[i] = <<Board!Field(t[1]), t[2]>>}
<1>1. /\ c.op = "delete" /\ c.phase = "done"
      /\ itemById' = [i \in DOMAIN itemById \ gone |-> itemById[i]]
      /\ items' = Board!Without(items, gone)
      /\ astray' = astray \cup {k \in {"query"} : t[1] = k}
      /\ calls' = calls \ {c} /\ UNCHANGED <<rows, made>>
  BY DEF Board!RemoveBoardItem, Board!Received
<1>2. CallsTyped' /\ AloneAndFetched'
  BY <1>1, FewerCalls DEF BoardInv
<1>3. BoardTyped'
  BY <1>1, <1>2 DEF BoardInv, BoardTyped, RowsTyped
<1>4. PageFollows'
  <2> SUFFICES ASSUME astray' = {} PROVE PageFollows'
    BY DEF PageFollows
  <2>1. astray = {} /\ t[1] # "query"
    BY <1>1
  <2>2. calls = {c} /\ calls' = {}
    BY <1>1, <2>1, TheOnlyCall
  <2>3. Board!Plain(rows) /\ Deleting(c)
    BY <1>1, <2>1 DEF BoardInv, PageFollows
  <2>4. t \in Things
    BY <1>1 DEF BoardInv, BoardTyped, CallsTyped
  <2>5. <<Board!Field(t[1]), t[2]>> = t
    BY <2>1, <2>4 DEF Board!Field
  <2>6. items' = Board!Ids(Board!BoardOrder(rows)) /\ Known(rows)
    BY <1>1, <2>1, <2>3, <2>5 DEF Deleting
  <2>7. \A r \in rows : r.thing # t
    BY <2>1, <2>3 DEF Deleting
  <2>8. Known(rows)'
    BY <1>1, <2>5, <2>6, <2>7 DEF Known
  <2> QED BY <1>1, <2>2, <2>3, <2>6, <2>8 DEF PageFollows
<1> QED BY <1>2, <1>3, <1>4 DEF BoardInv

\* The answer to an add keeps the invariant: the id is no index of the list, so
\* that it is appended.
LEMMA ReceivedAddKeeps ==
    ASSUME BoardInv, NEW c \in calls, Board!ReceiveBoardItem(c)
    PROVE  BoardInv'
<1>1. /\ c.op = "add" /\ c.phase = "done"
      /\ itemById' = [i \in DOMAIN itemById \cup {c.added} |->
                        IF i = c.added THEN c.args[1] ELSE itemById[i]]
      /\ items' = IF c.added < Len(items) THEN items ELSE Append(items, c.added)
      /\ calls' = calls \ {c} /\ UNCHANGED <<rows, made, astray>>
  BY DEF Board!ReceiveBoardItem, Board!Received
<1>2. CallsTyped' /\ AloneAndFetched'
  BY <1>1, FewerCalls DEF BoardInv
<1>3. BoardTyped'
  BY <1>1, <1>2 DEF BoardInv, BoardTyped, RowsTyped
<1>4. PageFollows'
  <2> SUFFICES ASSUME astray' = {} PROVE PageFollows'
    BY DEF PageFollows
  <2>1. calls = {c} /\ calls' = {}
    BY <1>1, TheOnlyCall
  <2>2. Board!Plain(rows) /\ Adding(c)
    BY <1>1 DEF BoardInv, PageFollows
  <2>3. PICK r \in rows : /\ r.id = c.added /\ r.thing = c.args[1]
                          /\ \A s \in rows \ {r} : s.order < r.order
                          /\ items = Board!Ids(Board!BoardOrder(rows \ {r}))
                          /\ Known(rows \ {r})
    BY <2>2 DEF Adding
  <2>4. PICK others : others = rows \ {r}
    OBVIOUS
  <2>5. /\ rows \subseteq BoardRows /\ Orderly(rows) /\ c.added = made.rows
        /\ made.rows \in Nat /\ 1 <= r.id
        /\ \A s, t \in rows : s.id = t.id => s = t
        /\ \A s \in rows : 1 <= s.id /\ s.id <= made.rows /\ s.id \in Nat
    BY <2>2, TypedRows DEF BoardInv, BoardTyped, RowsTyped, BoardRows, Adding
  <2>6. /\ others \subseteq BoardRows /\ made.rows - 1 \in Nat
        /\ \A s, t \in others : s.id = t.id => s = t
        /\ \A s \in others : 1 <= s.id /\ s.id <= made.rows - 1 /\ s.id # c.added
    <3>1. \A s \in others : s.id # r.id
      BY <2>4, <2>5
    <3> QED BY <2>3, <2>4, <2>5, <3>1
  <2>7. Orderly(others) /\ Cardinality(others) <= made.rows - 1
    BY <2>6, RowsAreOrderly
  <2>8. Len(items) = Cardinality(others)
    <3>1. PICK list : list = Board!BoardOrder(others)
      OBVIOUS
    <3>2. list \in Seq(others) /\ Len(list) = Cardinality(others)
      BY <2>7, <3>1, BoardOrderEnumerates DEF Enumerates
    <3>3. items = [k \in 1..Len(list) |-> list[k].id] /\ Len(list) \in Nat
      <4>1. DOMAIN list = 1..Len(list) /\ Len(list) \in Nat
        BY <3>2
      <4> QED BY <2>3, <2>4, <3>1, <4>1 DEF Board!Ids
    <3>4. Len(items) = Len(list)
      <4>1. items \in Seq({list[k].id : k \in 1..Len(list)})
        BY <3>3
      <4>2. DOMAIN items = 1..Len(list) /\ DOMAIN items = 1..Len(items) /\ Len(items) \in Nat
        BY <3>3, <4>1
      <4> QED BY <3>3, <4>2
    <3> QED BY <3>2, <3>4
  <2>9. items' = Append(items, c.added)
    <3>1. Cardinality(others) \in Nat
      BY <2>7, Ranks
    <3>2. ~(c.added < Len(items))
      BY <2>5, <2>7, <2>8, <3>1
    <3> QED BY <1>1, <3>2
  <2>10. items' = Board!Ids(Board!BoardOrder(rows))
    <3>1. Board!Ids(Board!BoardOrder(rows)) =
            Append(Board!Ids(Board!BoardOrder(rows \ {r})), r.id)
      BY <2>3, <2>5, LastRow
    <3> QED BY <2>3, <2>9, <3>1
  <2>11. Known(rows)'
    <3>1. \A s \in others : s.id \in DOMAIN itemById /\ itemById[s.id] = s.thing
      BY <2>3, <2>4 DEF Known
    <3>2. \A s \in others : s.id \in DOMAIN itemById' /\ itemById'[s.id] = s.thing
      BY <1>1, <2>6, <3>1
    <3>3. r.id \in DOMAIN itemById' /\ itemById'[r.id] = r.thing
      BY <1>1, <2>3
    <3> QED BY <1>1, <2>4, <3>2, <3>3 DEF Known
  <2> QED BY <1>1, <2>1, <2>2, <2>10, <2>11 DEF PageFollows
<1> QED BY <1>2, <1>3, <1>4 DEF BoardInv

\* So does the board that was fetched.
LEMMA ReceivedBoardKeeps ==
    ASSUME BoardInv, NEW c \in calls, Board!ReceiveBoardWithItems(c)
    PROVE  BoardInv'
<1>0. PICK listed : listed = {c.board[k] : k \in DOMAIN c.board}
  OBVIOUS
<1>1. /\ c.op = "fetch" /\ c.phase = "done" /\ items' = Board!Ids(c.board)
      /\ itemById' = [i \in DOMAIN itemById \cup {r.id : r \in listed} |->
                        IF \E r \in listed : r.id = i
                        THEN (CHOOSE r \in listed : r.id = i).thing
                        ELSE itemById[i]]
      /\ astray' = IF c.alone /\ c.id = made.calls /\ Board!Plain(listed) THEN {} ELSE astray
      /\ calls' = calls \ {c} /\ UNCHANGED <<rows, made>>
  BY <1>0 DEF Board!ReceiveBoardWithItems, Board!Received
<1>2. CallsTyped' /\ AloneAndFetched'
  BY <1>1, FewerCalls DEF BoardInv
<1>3. BoardTyped'
  BY <1>1, <1>2 DEF BoardInv, BoardTyped, RowsTyped
<1>4. PageFollows'
  <2> SUFFICES ASSUME astray' = {} PROVE PageFollows'
    BY DEF PageFollows
  <2>1. LastCall(c)
    <3>1. CASE astray = {}
      BY <3>1, TheOnlyCall
    <3>2. CASE astray # {}
      BY <1>1, <3>2 DEF LastCall
    <3> QED BY <3>1, <3>2
  <2>2. calls' = {} /\ c.board = Board!BoardOrder(rows)
    BY <1>1, <2>1 DEF BoardInv, AloneAndFetched
  <2>3. listed = rows
    <3>1. Enumerates(c.board, rows)
      BY <2>2, TypedRows DEF BoardInv
    <3>2. c.board \in Seq(rows) /\ DOMAIN c.board = 1..Len(c.board)
      BY <3>1 DEF Enumerates
    <3>3. \A k \in DOMAIN c.board : c.board[k] \in rows
      BY <3>2
    <3>4. \A r \in rows : \E k \in DOMAIN c.board : c.board[k] = r
      BY <3>1, <3>2 DEF Enumerates
    <3> QED BY <1>0, <3>3, <3>4
  <2>4. Board!Plain(rows)
    <3>1. CASE astray = {}
      BY <3>1 DEF BoardInv, PageFollows
    <3>2. CASE astray # {}
      BY <1>1, <2>3, <3>2
    <3> QED BY <3>1, <3>2
  <2>5. Known(rows)'
    <3> SUFFICES ASSUME NEW r \in rows
                 PROVE  r.id \in DOMAIN itemById' /\ itemById'[r.id] = r.thing
      BY <1>1 DEF Known
    <3>1. \A s \in rows : s.id = r.id => s = r
      BY DEF BoardInv, BoardTyped, RowsTyped
    <3>2. (CHOOSE s \in rows : s.id = r.id) = r
      BY <3>1
    <3>3. r.id \in {s.id : s \in rows} /\ \E s \in rows : s.id = r.id
      OBVIOUS
    <3> QED BY <1>1, <2>3, <3>2, <3>3
  <2> QED BY <1>1, <2>2, <2>4, <2>5 DEF PageFollows
<1> QED BY <1>2, <1>3, <1>4 DEF BoardInv

\* The page starts with what the server lists.
LEMMA BoardStarts ==
    ASSUME Listed \in Seq(Things), \A i, j \in DOMAIN Listed : Listed[i] = Listed[j] => i = j,
           Board!Init
    PROVE  BoardInv
<1>1. /\ rows = {[id |-> i, thing |-> Listed[i], order |-> 2 * i - 1] : i \in DOMAIN Listed}
      /\ items = [i \in DOMAIN Listed |-> i] /\ itemById = Listed /\ calls = {}
      /\ made = [calls |-> 0, rows |-> Len(Listed)]
  BY DEF Board!Init
<1> DEFINE row(i) == [id |-> i, thing |-> Listed[i], order |-> 2 * i - 1]
           n == Len(Listed)
           list == [i \in 1..n |-> row(i)]
<1>2. /\ n \in Nat /\ DOMAIN Listed = 1..n
      /\ \A i \in 1..n : i \in Nat /\ 1 <= i /\ i <= n /\ Listed[i] \in Things /\ 2 * i - 1 \in Int
  OBVIOUS
<1>3. /\ \A i \in 1..n : /\ row(i) \in rows /\ row(i).id = i /\ row(i).thing = Listed[i]
                         /\ row(i).order = 2 * i - 1 /\ row(i) \in BoardRows
      /\ \A r \in rows : \E i \in 1..n : r = row(i)
  <2>1. \A i \in 1..n : row(i) \in BoardRows
    BY <1>2 DEF BoardRows
  <2> QED BY <1>1, <1>2, <2>1
<1> HIDE DEF row
<1>4. RowsTyped(rows)
  <2> HIDE DEF BoardRows
  <2>1. made.rows = n
    BY <1>1
  <2> HIDE DEF n
  <2>2. \A r \in rows : r \in BoardRows /\ 1 <= r.id /\ r.id <= made.rows
    BY <1>2, <1>3, <2>1
  <2>3. ASSUME NEW r \in rows, NEW s \in rows, r.id = s.id PROVE r = s
    <3>1. PICK i \in 1..n, j \in 1..n : r = row(i) /\ s = row(j)
      BY <1>3
    <3>2. i = j
      BY <1>3, <2>3, <3>1
    <3> QED BY <3>1, <3>2
  <2> QED BY <2>2, <2>3 DEF RowsTyped
<1>5. BoardTyped
  <2>1. made \in [calls : Nat, rows : Nat]
    BY <1>1, <1>2
  <2>2. CallsTyped
    BY <1>1 DEF CallsTyped
  <2> QED BY <1>4, <2>1, <2>2 DEF BoardTyped
<1>6. Enumerates(list, rows)
  <2>1. list \in Seq(rows) /\ Len(list) = n
    <3>1. list \in [1..n -> rows]
      BY <1>3
    <3> HIDE DEF list, n
    <3> QED BY <1>2, <3>1
  <2>2. \A j, k \in 1..n : j < k => Board!Before(list[j], list[k])
    <3> TAKE j, k \in 1..n
    <3>1. list[j].order = 2 * j - 1 /\ list[k].order = 2 * k - 1 /\ j \in Int /\ k \in Int
      BY <1>2, <1>3
    <3> HIDE DEF list, n
    <3> QED BY <3>1 DEF Board!Before
  <2>3. \A r \in rows : \E k \in 1..n : list[k] = r
    BY <1>3
  <2> HIDE DEF list, n
  <2> QED BY <2>1, <2>2, <2>3 DEF Enumerates
<1>7. items = Board!Ids(Board!BoardOrder(rows))
  <2>1. list = Board!BoardOrder(rows)
    <3> HIDE DEF list
    <3> QED BY <1>5, <1>6, TypedRows, OneOrder
  <2>2. items = [k \in 1..n |-> list[k].id]
    BY <1>1, <1>2, <1>3
  <2>3. DOMAIN list = 1..n
    OBVIOUS
  <2> HIDE DEF list, n
  <2> QED BY <2>1, <2>2, <2>3 DEF Board!Ids
<1>8. Known(rows) /\ Board!Plain(rows)
  <2>1. Known(rows)
    <3> HIDE DEF n
    <3> QED BY <1>1, <1>2, <1>3 DEF Known
  <2>2. \A i, j \in 1..n : 2 * i - 1 = 2 * j - 1 \/ Listed[i] = Listed[j] => i = j
    BY <1>2
  <2>3. Board!Plain(rows)
    <3> SUFFICES ASSUME NEW r \in rows, NEW s \in rows, r.order = s.order \/ r.thing = s.thing
                 PROVE  r = s
      BY DEF Board!Plain
    <3>1. PICK i \in 1..n, j \in 1..n : r = row(i) /\ s = row(j)
      BY <1>3
    <3>2. i = j
      BY <1>3, <2>2, <3>1
    <3> QED BY <3>1, <3>2
  <2> QED BY <2>1, <2>3
<1> QED BY <1>1, <1>5, <1>7, <1>8 DEF BoardInv, AloneAndFetched, PageFollows

\* The board: with no call under way and nothing astray the page lists the
\* server's items in the server's order, for any things of the four kinds, any
\* board listed first without one of them twice, and any number of calls.
THEOREM PageIsTheBoard ==
    ASSUME Things \subseteq ThingKinds \X Nat, Listed \in Seq(Things),
           \A i, j \in DOMAIN Listed : Listed[i] = Listed[j] => i = j
    PROVE  Spec => []PageListsTheBoard
<1>1. Board!Init => BoardInv
  BY BoardStarts
<1>2. BoardInv /\ [Board!Next]_Board!bvars => BoardInv'
  <2> SUFFICES ASSUME BoardInv, [Board!Next]_Board!bvars PROVE BoardInv'
    OBVIOUS
  <2>1. ASSUME NEW t \in Things, Board!AddBoardItem(t) PROVE BoardInv'
    <3>1. Board!Send("add", <<t>>) /\ <<t>>[1] \in Things
      BY <2>1 DEF Board!AddBoardItem
    <3> QED BY <3>1, SendKeeps
  <2>2. ASSUME NEW t \in Things, Board!DeleteBoardItem(t) PROVE BoardInv'
    <3>1. Board!Send("delete", <<t>>) /\ <<t>>[1] \in Things
      BY <2>2 DEF Board!DeleteBoardItem
    <3> QED BY <3>1, SendKeeps
  <2>3. ASSUME NEW i \in DOMAIN items, NEW j \in DOMAIN items, Board!MoveBoardItem(i, j)
        PROVE  BoardInv'
    <3>1. Board!Send("move", <<i, j>>) /\ <<i, j>>[1] # <<i, j>>[2]
      BY <2>3 DEF Board!MoveBoardItem
    <3> QED BY <3>1, SendKeeps
  <2>4. CASE Board!FetchBoard
    BY <2>4, SendKeeps DEF Board!FetchBoard
  <2>5. ASSUME NEW c \in calls,
               \/ Board!AddReads(c) \/ Board!AddCommits(c) \/ Board!Move(c)
               \/ Board!Delete(c) \/ Board!GetBoard(c)
               \/ Board!Fails(c) \/ Board!LoseAnswer(c)
               \/ Board!ReceiveBoardItem(c) \/ Board!RemoveBoardItem(c) \/ Board!MoveItem(c)
               \/ Board!ReceiveBoardWithItems(c)
        PROVE  BoardInv'
    BY <2>5, AddReadsKeeps, AddCommitsKeeps, MoveKeeps, DeleteKeeps, GetBoardKeeps, LossesKeep,
       ReceivedAddKeeps, ReceivedDeleteKeeps, ReceivedMoveKeeps, ReceivedBoardKeeps
  <2>6. CASE UNCHANGED Board!bvars
    <3> USE <2>6 DEF Board!bvars
    <3>1. BoardTyped'
      BY DEF BoardInv, BoardTyped, RowsTyped, CallsTyped
    <3>2. \A c : LastCall(c)' <=> LastCall(c)
      BY DEF LastCall
    <3>3. AloneAndFetched'
      BY <3>2 DEF BoardInv, AloneAndFetched
    <3>4. /\ Known(rows)' <=> Known(rows)
          /\ \A c : /\ Moving(c)' <=> Moving(c)
                    /\ Deleting(c)' <=> Deleting(c)
                    /\ Adding(c)' <=> Adding(c)
      BY DEF Known, Moving, Deleting, Adding
    <3>5. PageFollows'
      BY <3>2, <3>4 DEF BoardInv, PageFollows
    <3> QED BY <3>1, <3>3, <3>5 DEF BoardInv
  <2> QED BY <2>1, <2>2, <2>3, <2>4, <2>5, <2>6 DEF Board!Next
<1>3. BoardInv => PageListsTheBoard
  BY DEF BoardInv, PageFollows, PageListsTheBoard, Board!PageListsTheBoard
<1> QED BY <1>1, <1>2, <1>3, PartsRunByThemselves, PTL DEF Board!Spec
-----------------------------------------------------------------------------
(* PythonKernel: what is posted to the worker and the worker's queue are taken
   in order, so that a run comes after the variables it was called with. *)

Injections == [doc : Docs, value : Nat]

Runs == [doc : Docs, stale : BOOLEAN, wants : Nat]

\* Where the messages of the wire carry a run, and a value of d
RunsOn(w) == {i \in DOMAIN w : w[i] \in Runs}

ValuesOn(w, d) == {i \in DOMAIN w : w[i] \in Injections /\ w[i].doc = d}

KernelTyped ==
    /\ status \in {"UNINITIALIZED", "INITIALIZING", "IDLE", "BUSY"}
    /\ kernel \in {"none", "loading", "ready"}
    /\ tasks \in Int
    /\ waiting \in Docs \cup {None}
    /\ pending \in Seq(Injections)
    /\ flushing \in Seq(Injections)
    /\ wire \in Seq(Injections \cup Runs)
    /\ queue \in Seq(Runs)
    /\ namespaces \in [Docs -> Nat]
    /\ latest \in [Docs -> Nat]

\* Nothing is posted before the kernel is there, and what is to be injected
\* then is what was asked for last.
NotYet ==
    kernel # "ready" =>
       /\ wire = <<>> /\ queue = <<>> /\ flushing = <<>> /\ tasks = 0
       /\ \A i \in DOMAIN pending : pending[i].value = latest[pending[i].doc]
       /\ \A d \in Docs : \/ \E i \in DOMAIN pending : pending[i].doc = d
                          \/ namespaces[d] = latest[d] \/ d \in lost

NothingIsNewer(d) ==
    /\ namespaces[d] <= latest[d]
    /\ \A i \in DOMAIN queue : queue[i].doc = d => queue[i].wants <= latest[d]
    /\ \A i \in RunsOn(wire) : wire[i].doc = d => wire[i].wants <= latest[d]

\* The values of a document arrive in the order in which they were asked for,
\* and the last one is there or on its way.
ValuesInOrder(d) ==
    /\ \A i \in ValuesOn(wire, d) :
          /\ namespaces[d] <= wire[i].value /\ wire[i].value <= latest[d]
          /\ \A j \in ValuesOn(wire, d) : i < j => wire[i].value <= wire[j].value
    /\ \A i \in DOMAIN flushing : flushing[i].doc = d => flushing[i].value = latest[d]

OnItsWay(d) ==
    \/ \E i \in ValuesOn(wire, d) : wire[i].value = latest[d]
    \/ namespaces[d] = latest[d]
    \/ d \in lost /\ ValuesOn(wire, d) = {}

LastIsOnItsWay(d) == kernel = "ready" => Kernel!Waits(d) \/ OnItsWay(d)

\* A run comes after the value that it wants.
RunsAreServed(d) ==
    /\ \A i \in DOMAIN queue :
          queue[i].doc = d =>
             /\ queue[i].wants <= namespaces[d] \/ d \in lost
             /\ \A j \in ValuesOn(wire, d) : queue[i].wants <= wire[j].value
    /\ \A i \in RunsOn(wire) :
          wire[i].doc = d =>
             /\ \/ \E j \in ValuesOn(wire, d) : j < i /\ wire[i].wants <= wire[j].value
                \/ wire[i].wants <= namespaces[d]
                \/ d \in lost /\ \A j \in ValuesOn(wire, d) : i < j
             /\ \A j \in ValuesOn(wire, d) : i < j => wire[i].wants <= wire[j].value

Served ==
    \A d \in Docs \ overtaken :
       NothingIsNewer(d) /\ ValuesInOrder(d) /\ RunsAreServed(d) /\ LastIsOnItsWay(d)

\* The tasks are counted, and an idle kernel has stale runs only.
AllStale ==
    /\ \A i \in DOMAIN queue : queue[i].stale
    /\ \A i \in RunsOn(wire) : wire[i].stale

Counted ==
    /\ tasks = Cardinality(RunsOn(wire)) + Len(queue)
    /\ status = "IDLE" => AllStale

\* The run that started the kernel goes first, and a busy kernel has another.
RunsInTurn(state) ==
    /\ waiting # None => state = "IDLE" /\ queue = <<>> /\ RunsOn(wire) = {}
    /\ \A i, j \in DOMAIN queue : i < j => ~queue[j].stale
    /\ \A j \in RunsOn(wire) : queue # <<>> => ~wire[j].stale
    /\ \A i, j \in RunsOn(wire) : i < j => ~wire[j].stale
    /\ state # "IDLE" => \/ \E i \in DOMAIN queue : ~queue[i].stale
                         \/ \E i \in RunsOn(wire) : ~wire[i].stale

StaleFirst == kernel = "ready" /\ overtaken = {} => RunsInTurn(status)

KernelInv ==
    /\ KernelTyped /\ NotYet /\ Served /\ Counted /\ StaleFirst
    /\ Kernel!RunsSeeTheirVariables

\* A message carries a value or a run.
LEMMA MessageKinds ==
    /\ \A m \in Injections : "value" \in DOMAIN m /\ m \notin Runs
    /\ \A m \in Runs : "value" \notin DOMAIN m /\ m \notin Injections
    /\ \A d \in Docs, v \in Nat : Kernel!Injection(d, v) \in Injections
<1>1. \A m \in Injections : "value" \in DOMAIN m
  BY DEF Injections
<1>2. \A m \in Runs : "value" \notin DOMAIN m
  BY DEF Runs
<1>3. \A d \in Docs, v \in Nat : Kernel!Injection(d, v) \in Injections
  BY DEF Injections, Kernel!Injection
<1> QED BY <1>1, <1>2, <1>3

\* What is posted is the last message.
LEMMA PostedMessage ==
    ASSUME NEW w \in Seq(Injections \cup Runs), NEW m \in Injections \cup Runs
    PROVE  /\ Append(w, m) \in Seq(Injections \cup Runs)
           /\ Len(w) \in Nat /\ Len(Append(w, m)) = Len(w) + 1
           /\ \A i \in DOMAIN w : Append(w, m)[i] = w[i] /\ i < Len(w) + 1 /\ i \in Nat
           /\ Append(w, m)[Len(w) + 1] = m
           /\ m \in Runs =>
                 /\ RunsOn(Append(w, m)) = RunsOn(w) \cup {Len(w) + 1}
                 /\ \A d : ValuesOn(Append(w, m), d) = ValuesOn(w, d)
           /\ m \in Injections =>
                 /\ RunsOn(Append(w, m)) = RunsOn(w)
                 /\ \A d : ValuesOn(Append(w, m), d) =
                             IF m.doc = d THEN ValuesOn(w, d) \cup {Len(w) + 1} ELSE ValuesOn(w, d)
<1> DEFINE n == Len(w)
           x == Append(w, m)
<1>1. /\ n \in Nat /\ DOMAIN w = 1..n
      /\ x \in Seq(Injections \cup Runs) /\ Len(x) = n + 1 /\ DOMAIN x = 1 .. n + 1
      /\ \A i \in 1..n : x[i] = w[i] /\ i < n + 1 /\ i \in Nat
      /\ x[n + 1] = m
  OBVIOUS
<1> HIDE DEF n, x
<1>2. 1 .. n + 1 = (1..n) \cup {n + 1}
  BY <1>1
<1>3. ASSUME m \in Runs
      PROVE  RunsOn(x) = RunsOn(w) \cup {n + 1} /\ \A d : ValuesOn(x, d) = ValuesOn(w, d)
  BY <1>1, <1>2, <1>3, MessageKinds DEF RunsOn, ValuesOn
<1>4. ASSUME m \in Injections
      PROVE  /\ RunsOn(x) = RunsOn(w)
             /\ \A d : ValuesOn(x, d) =
                         IF m.doc = d THEN ValuesOn(w, d) \cup {n + 1} ELSE ValuesOn(w, d)
  BY <1>1, <1>2, <1>4, MessageKinds DEF RunsOn, ValuesOn
<1> QED BY <1>1, <1>3, <1>4 DEF n, x

\* What is taken is the first message.
LEMMA TakenMessage ==
    ASSUME NEW w \in Seq(Injections \cup Runs), w # <<>>
    PROVE  /\ Tail(w) \in Seq(Injections \cup Runs) /\ Head(w) = w[1]
           /\ Head(w) \in Injections \cup Runs /\ 1 \in DOMAIN w
           /\ \A i \in DOMAIN Tail(w) : i \in Nat /\ i + 1 \in DOMAIN w /\ Tail(w)[i] = w[i + 1]
           /\ \A i \in DOMAIN w : i = 1 \/ (i \in Nat /\ i > 1 /\ i - 1 \in DOMAIN Tail(w))
           /\ \A i \in RunsOn(Tail(w)) :
                 i \in Nat /\ i > 0 /\ i + 1 \in RunsOn(w) /\ Tail(w)[i] = w[i + 1]
           /\ \A d : \A i \in ValuesOn(Tail(w), d) :
                 i \in Nat /\ i > 0 /\ i + 1 \in ValuesOn(w, d) /\ Tail(w)[i] = w[i + 1]
           /\ \A d : \A i \in ValuesOn(w, d) :
                 i = 1 \/ (i \in Nat /\ i - 1 \in ValuesOn(Tail(w), d) /\ w[i] = Tail(w)[i - 1])
           /\ \A i \in RunsOn(w) :
                 i = 1 \/ (i \in Nat /\ i - 1 \in RunsOn(Tail(w)) /\ w[i] = Tail(w)[i - 1])
<1> DEFINE n == Len(w)
           x == Tail(w)
<1>1. /\ n \in Nat \ {0} /\ DOMAIN w = 1..n /\ x \in Seq(Injections \cup Runs) /\ Head(w) = w[1]
      /\ w[1] \in Injections \cup Runs
      /\ DOMAIN x = 1 .. n - 1 /\ \A i \in 1 .. n - 1 : x[i] = w[i + 1]
  OBVIOUS
<1> HIDE DEF n, x
<1>2. /\ \A i \in DOMAIN x : i \in Nat /\ i > 0 /\ i + 1 \in DOMAIN w /\ x[i] = w[i + 1]
      /\ \A i \in DOMAIN w : \/ i = 1
                             \/ i \in Nat /\ i > 1 /\ i - 1 \in DOMAIN x /\ w[i] = x[i - 1]
  BY <1>1
<1>3. 1 \in DOMAIN w
  BY <1>1
<1> QED BY <1>1, <1>2, <1>3 DEF RunsOn, ValuesOn, x

\* The runs that are posted, counted.
LEMMA RunsCounted ==
    ASSUME NEW w \in Seq(Injections \cup Runs)
    PROVE  /\ IsFiniteSet(RunsOn(w)) /\ Cardinality(RunsOn(w)) \in Nat
           /\ Cardinality(RunsOn(w)) = 0 => RunsOn(w) = {}
           /\ \A m \in Injections \cup Runs :
                 Cardinality(RunsOn(Append(w, m))) =
                   IF m \in Runs THEN Cardinality(RunsOn(w)) + 1 ELSE Cardinality(RunsOn(w))
           /\ w # <<>> =>
                 Cardinality(RunsOn(Tail(w))) =
                   IF w[1] \in Runs THEN Cardinality(RunsOn(w)) - 1 ELSE Cardinality(RunsOn(w))
<1>1. \A x \in Seq(Injections \cup Runs) : IsFiniteSet(RunsOn(x)) /\ Cardinality(RunsOn(x)) \in Nat
  <2> TAKE x \in Seq(Injections \cup Runs)
  <2>1. DOMAIN x = 1..Len(x) /\ IsFiniteSet(1..Len(x))
    BY FS_Interval
  <2>2. RunsOn(x) \in SUBSET (DOMAIN x)
    BY DEF RunsOn
  <2> QED BY <2>1, <2>2, FS_Subset, FS_CardinalityType
<1>2. Cardinality(RunsOn(w)) = 0 => RunsOn(w) = {}
  BY <1>1, FS_EmptySet
<1>3. ASSUME NEW m \in Injections \cup Runs
      PROVE  Cardinality(RunsOn(Append(w, m))) =
               IF m \in Runs THEN Cardinality(RunsOn(w)) + 1 ELSE Cardinality(RunsOn(w))
  <2>2. Len(w) + 1 \notin RunsOn(w)
    BY DEF RunsOn
  <2>3. CASE m \in Runs
    <3>1. RunsOn(Append(w, m)) = RunsOn(w) \cup {Len(w) + 1}
      BY <2>3, PostedMessage
    <3>2. Cardinality(RunsOn(w) \cup {Len(w) + 1}) = Cardinality(RunsOn(w)) + 1
      BY <1>1, <2>2, FS_AddElement
    <3> QED BY <2>3, <3>1, <3>2
  <2>4. CASE m \notin Runs
    <3>1. RunsOn(Append(w, m)) = RunsOn(w)
      BY <2>4, PostedMessage
    <3> QED BY <2>4, <3>1
  <2> QED BY <2>3, <2>4
<1>4. ASSUME w # <<>>
      PROVE  Cardinality(RunsOn(Tail(w))) =
               IF w[1] \in Runs THEN Cardinality(RunsOn(w)) - 1 ELSE Cardinality(RunsOn(w))
  <2> DEFINE x == Tail(w)
             rest == RunsOn(w) \ {1}
             up == [i \in RunsOn(x) |-> i + 1]
  <2>1. /\ x \in Seq(Injections \cup Runs) /\ 1 \in DOMAIN w
        /\ \A i \in RunsOn(x) : i \in Nat /\ i > 0 /\ i + 1 \in RunsOn(w)
        /\ \A i \in RunsOn(w) : i = 1 \/ (i \in Nat /\ i - 1 \in RunsOn(x))
    BY <1>4, TakenMessage
  <2> HIDE DEF x
  <2>2. up \in Bijection(RunsOn(x), rest)
    <3>1. up \in [RunsOn(x) -> rest]
      BY <2>1
    <3>2. \A i, j \in RunsOn(x) : up[i] = up[j] => i = j
      BY <2>1
    <3>3. \A k \in rest : \E i \in RunsOn(x) : up[i] = k
      <4> TAKE k \in rest
      <4>1. k \in Nat /\ k - 1 \in RunsOn(x) /\ (k - 1) + 1 = k
        BY <2>1
      <4> QED BY <4>1
    <3> HIDE DEF up, rest
    <3> QED BY <3>1, <3>2, <3>3 DEF Bijection, Injection, IsInjective, Surjection
  <2>3. IsFiniteSet(rest)
    BY <1>1, FS_Subset
  <2>4. Cardinality(RunsOn(x)) = Cardinality(rest)
    <3> HIDE DEF up, rest
    <3> QED BY <1>1, <2>1, <2>2, <2>3, FS_Bijection DEF ExistsBijection
  <2>5. 1 \in RunsOn(w) <=> w[1] \in Runs
    BY <2>1 DEF RunsOn
  <2>6. Cardinality(rest) = IF 1 \in RunsOn(w) THEN Cardinality(RunsOn(w)) - 1
                            ELSE Cardinality(RunsOn(w))
    BY <1>1, FS_RemoveElement
  <2> QED BY <2>4, <2>5, <2>6 DEF x
<1> QED BY <1>1, <1>2, <1>3, <1>4

\* A value that was asked for last is posted.
LEMMA ValuePosted ==
    ASSUME KernelTyped, NEW d \in Docs, NothingIsNewer(d), ValuesInOrder(d), RunsAreServed(d),
           NEW m \in Injections, wire' = Append(wire, m), UNCHANGED <<queue, namespaces, lost>>,
           latest' \in [Docs -> Nat], latest[d] <= latest'[d],
           m.doc = d => m.value = latest'[d],
           \A i \in DOMAIN flushing' : flushing'[i].doc = d => flushing'[i].value = latest'[d]
    PROVE  /\ NothingIsNewer(d)' /\ ValuesInOrder(d)' /\ RunsAreServed(d)'
           /\ m.doc = d => OnItsWay(d)'
           /\ m.doc # d /\ latest'[d] = latest[d] /\ OnItsWay(d) => OnItsWay(d)'
<1> DEFINE n == Len(wire)
<1>1. /\ n \in Nat
      /\ \A i \in DOMAIN wire : wire'[i] = wire[i] /\ i < n + 1 /\ i \in Nat
      /\ wire'[n + 1] = m
      /\ RunsOn(wire') = RunsOn(wire)
      /\ m.doc = d => ValuesOn(wire', d) = ValuesOn(wire, d) \cup {n + 1}
      /\ m.doc # d => ValuesOn(wire', d) = ValuesOn(wire, d)
  <2>1. wire \in Seq(Injections \cup Runs) /\ m \in Injections \cup Runs
    BY DEF KernelTyped
  <2> QED BY <2>1, PostedMessage
<1> HIDE DEF n
<1>2. RunsOn(wire) \subseteq DOMAIN wire /\ ValuesOn(wire, d) \subseteq DOMAIN wire
  BY DEF RunsOn, ValuesOn
<1>3. /\ latest[d] \in Nat /\ latest'[d] \in Nat /\ namespaces[d] \in Nat
      /\ \A i \in ValuesOn(wire, d) : wire[i].value \in Nat
      /\ \A i \in DOMAIN queue : queue[i].wants \in Nat
      /\ \A i \in RunsOn(wire) : wire[i].wants \in Nat
  <2>1. latest[d] \in Nat /\ latest'[d] \in Nat /\ namespaces[d] \in Nat
    BY DEF KernelTyped
  <2>2. \A i \in ValuesOn(wire, d) : wire[i].value \in Nat
    BY DEF ValuesOn, Injections
  <2>3. \A i \in RunsOn(wire) : wire[i].wants \in Nat
    BY DEF RunsOn, Runs
  <2>4. \A i \in DOMAIN queue : queue[i].wants \in Nat
    <3>1. \A i \in DOMAIN queue : queue[i] \in Runs
      BY DEF KernelTyped
    <3> QED BY <3>1 DEF Runs
  <2> QED BY <2>1, <2>2, <2>3, <2>4
<1>4. ValuesInOrder(d)'
  <2>1. namespaces[d] <= latest'[d]
    BY <1>3 DEF NothingIsNewer
  <2>2. \A i \in ValuesOn(wire, d) : wire[i].value <= latest'[d]
    BY <1>3 DEF ValuesInOrder
  <2>3. \A i, j \in ValuesOn(wire', d) : i < j => wire'[i].value <= wire'[j].value
    <3> SUFFICES ASSUME NEW i \in ValuesOn(wire', d), NEW j \in ValuesOn(wire', d), i < j
                 PROVE  wire'[i].value <= wire'[j].value
      OBVIOUS
    <3>1. CASE j \in ValuesOn(wire, d)
      <4>1. i # n + 1
        BY <1>1, <1>2, <3>1
      <4>2. i \in ValuesOn(wire, d)
        BY <1>1, <4>1
      <4> QED BY <1>1, <1>2, <3>1, <4>2 DEF ValuesInOrder
    <3>2. CASE j = n + 1 /\ m.doc = d
      <4>1. i \in ValuesOn(wire, d)
        BY <1>1, <3>2
      <4> QED BY <1>1, <1>2, <2>2, <3>2, <4>1
    <3> QED BY <1>1, <3>1, <3>2
  <2>4. \A i \in ValuesOn(wire', d) :
           namespaces'[d] <= wire'[i].value /\ wire'[i].value <= latest'[d]
    <3> TAKE i \in ValuesOn(wire', d)
    <3>1. CASE i \in ValuesOn(wire, d)
      BY <1>1, <1>2, <2>2, <3>1 DEF ValuesInOrder
    <3>2. CASE i = n + 1 /\ m.doc = d
      <4>1. wire'[i].value = latest'[d]
        BY <1>1, <3>2
      <4> QED BY <1>3, <2>1, <4>1
    <3> QED BY <1>1, <3>1, <3>2
  <2> QED BY <2>3, <2>4 DEF ValuesInOrder
<1>5. RunsAreServed(d)'
  <2>1. ASSUME NEW i \in DOMAIN queue, queue[i].doc = d, NEW j \in ValuesOn(wire', d)
        PROVE  queue[i].wants <= wire'[j].value
    <3>1. CASE j \in ValuesOn(wire, d)
      BY <1>1, <1>2, <2>1, <3>1 DEF RunsAreServed
    <3>2. CASE j = n + 1 /\ m.doc = d
      <4>1. wire'[j].value = latest'[d]
        BY <1>1, <3>2
      <4>2. queue[i].wants <= latest[d]
        BY <2>1 DEF NothingIsNewer
      <4> QED BY <1>3, <4>1, <4>2
    <3> QED BY <1>1, <3>1, <3>2
  <2>2. ASSUME NEW i \in RunsOn(wire), wire[i].doc = d, NEW j \in ValuesOn(wire', d), i < j
        PROVE  wire[i].wants <= wire'[j].value
    <3>1. CASE j \in ValuesOn(wire, d)
      BY <1>1, <1>2, <2>2, <3>1 DEF RunsAreServed
    <3>2. CASE j = n + 1 /\ m.doc = d
      <4>1. wire'[j].value = latest'[d]
        BY <1>1, <3>2
      <4>2. wire[i].wants <= latest[d]
        BY <2>2 DEF NothingIsNewer
      <4> QED BY <1>3, <4>1, <4>2
    <3> QED BY <1>1, <3>1, <3>2
  <2>3. ASSUME NEW i \in RunsOn(wire), wire[i].doc = d
        PROVE  \/ \E j \in ValuesOn(wire', d) : j < i /\ wire'[i].wants <= wire'[j].value
               \/ wire'[i].wants <= namespaces'[d]
               \/ d \in lost' /\ \A j \in ValuesOn(wire', d) : i < j
    <3>1. wire'[i] = wire[i] /\ i < n + 1
      BY <1>1, <1>2
    <3>2. CASE \E j \in ValuesOn(wire, d) : j < i /\ wire[i].wants <= wire[j].value
      BY <1>1, <1>2, <3>1, <3>2
    <3>3. CASE wire[i].wants <= namespaces[d]
      BY <3>1, <3>3
    <3>4. CASE d \in lost /\ \A j \in ValuesOn(wire, d) : i < j
      BY <1>1, <3>1, <3>4
    <3> QED BY <2>3, <3>2, <3>3, <3>4 DEF RunsAreServed
  <2>4. \A i \in RunsOn(wire) : wire'[i] = wire[i]
    BY <1>1, <1>2
  <2>5. \A i \in DOMAIN queue' :
           queue'[i].doc = d =>
              /\ queue'[i].wants <= namespaces'[d] \/ d \in lost'
              /\ \A j \in ValuesOn(wire', d) : queue'[i].wants <= wire'[j].value
    BY <2>1 DEF RunsAreServed
  <2>6. \A i \in RunsOn(wire') :
           wire'[i].doc = d =>
              /\ \/ \E j \in ValuesOn(wire', d) : j < i /\ wire'[i].wants <= wire'[j].value
                 \/ wire'[i].wants <= namespaces'[d]
                 \/ d \in lost' /\ \A j \in ValuesOn(wire', d) : i < j
              /\ \A j \in ValuesOn(wire', d) : i < j => wire'[i].wants <= wire'[j].value
    <3> SUFFICES ASSUME NEW i \in RunsOn(wire), wire[i].doc = d
                 PROVE  /\ \/ \E j \in ValuesOn(wire', d) :
                                j < i /\ wire'[i].wants <= wire'[j].value
                           \/ wire'[i].wants <= namespaces'[d]
                           \/ d \in lost' /\ \A j \in ValuesOn(wire', d) : i < j
                        /\ \A j \in ValuesOn(wire', d) :
                              i < j => wire'[i].wants <= wire'[j].value
      BY <1>1, <2>4
    <3>1. \A j \in ValuesOn(wire', d) : i < j => wire[i].wants <= wire'[j].value
      BY <2>2
    <3> QED BY <2>3, <2>4, <3>1
  <2> QED BY <2>5, <2>6 DEF RunsAreServed
<1>6. m.doc = d => OnItsWay(d)'
  BY <1>1 DEF OnItsWay
<1>7. m.doc # d /\ latest'[d] = latest[d] /\ OnItsWay(d) => OnItsWay(d)'
  BY <1>1, <1>2 DEF OnItsWay
<1>8. NothingIsNewer(d)'
  <2>1. namespaces'[d] <= latest'[d]
    BY <1>3 DEF NothingIsNewer
  <2>2. \A i \in DOMAIN queue' : queue'[i].doc = d => queue'[i].wants <= latest'[d]
    BY <1>3 DEF NothingIsNewer
  <2>3. \A i \in RunsOn(wire') : wire'[i].doc = d => wire'[i].wants <= latest'[d]
    BY <1>1, <1>2, <1>3 DEF NothingIsNewer
  <2> QED BY <2>1, <2>2, <2>3 DEF NothingIsNewer
<1> QED BY <1>4, <1>5, <1>6, <1>7, <1>8

\* A run that wants the last value is posted.
LEMMA RunPosted ==
    ASSUME KernelTyped, NEW d \in Docs, NothingIsNewer(d), ValuesInOrder(d), RunsAreServed(d),
           NEW m \in Runs, m.wants = latest[m.doc], m.doc = d => OnItsWay(d),
           wire' = Append(wire, m), UNCHANGED <<queue, namespaces, lost, latest>>,
           \A i \in DOMAIN flushing' : flushing'[i].doc = d => flushing'[i].value = latest[d]
    PROVE  /\ NothingIsNewer(d)' /\ ValuesInOrder(d)' /\ RunsAreServed(d)'
           /\ OnItsWay(d) => OnItsWay(d)'
<1> DEFINE n == Len(wire)
<1>1. /\ n \in Nat
      /\ \A i \in DOMAIN wire : wire'[i] = wire[i] /\ i < n + 1 /\ i \in Nat
      /\ wire'[n + 1] = m
      /\ RunsOn(wire') = RunsOn(wire) \cup {n + 1}
      /\ ValuesOn(wire', d) = ValuesOn(wire, d)
  <2>1. wire \in Seq(Injections \cup Runs) /\ m \in Injections \cup Runs
    BY DEF KernelTyped
  <2> QED BY <2>1, PostedMessage
<1> HIDE DEF n
<1>2. /\ \A i \in RunsOn(wire) : wire'[i] = wire[i] /\ i < n + 1 /\ i \in Nat
      /\ \A i \in ValuesOn(wire, d) : wire'[i] = wire[i] /\ i < n + 1 /\ i \in Nat
  BY <1>1 DEF RunsOn, ValuesOn
<1>3. ValuesInOrder(d)'
  <2>1. /\ \A k \in ValuesOn(wire, d) :
              /\ namespaces[d] <= wire[k].value /\ wire[k].value <= latest[d]
              /\ \A j \in ValuesOn(wire, d) : k < j => wire[k].value <= wire[j].value
    BY DEF ValuesInOrder
  <2>2. ASSUME NEW k \in ValuesOn(wire', d)
        PROVE  /\ namespaces'[d] <= wire'[k].value /\ wire'[k].value <= latest'[d]
               /\ \A j \in ValuesOn(wire', d) : k < j => wire'[k].value <= wire'[j].value
    <3>1. k \in ValuesOn(wire, d) /\ wire'[k] = wire[k]
      BY <1>1, <1>2
    <3>2. \A j \in ValuesOn(wire', d) : j \in ValuesOn(wire, d) /\ wire'[j] = wire[j]
      BY <1>1, <1>2
    <3> QED BY <2>1, <3>1, <3>2
  <2>3. \A l \in DOMAIN flushing' : flushing'[l].doc = d => flushing'[l].value = latest'[d]
    OBVIOUS
  <2> QED BY <2>2, <2>3 DEF ValuesInOrder
<1>4. ASSUME NEW i \in RunsOn(wire'), wire'[i].doc = d
      PROVE  /\ \/ \E j \in ValuesOn(wire', d) : j < i /\ wire'[i].wants <= wire'[j].value
                \/ wire'[i].wants <= namespaces'[d]
                \/ d \in lost' /\ \A j \in ValuesOn(wire', d) : i < j
             /\ \A j \in ValuesOn(wire', d) : i < j => wire'[i].wants <= wire'[j].value
  <2>1. CASE i \in RunsOn(wire)
    <3>1. wire'[i] = wire[i] /\ wire[i].doc = d
      BY <1>2, <1>4, <2>1
    <3>2. /\ \/ \E j \in ValuesOn(wire, d) : j < i /\ wire[i].wants <= wire[j].value
             \/ wire[i].wants <= namespaces[d]
             \/ d \in lost /\ \A j \in ValuesOn(wire, d) : i < j
          /\ \A j \in ValuesOn(wire, d) : i < j => wire[i].wants <= wire[j].value
      BY <2>1, <3>1 DEF RunsAreServed
    <3>3. \A j \in ValuesOn(wire, d) : wire'[j] = wire[j]
      BY <1>2
    <3> QED BY <1>1, <3>1, <3>2, <3>3
  <2>2. CASE i = n + 1
    <3>1. m.doc = d /\ wire'[i] = m /\ m.wants = latest[d] /\ latest[d] \in Nat
      BY <1>1, <1>4, <2>2 DEF KernelTyped
    <3>2. \A j \in ValuesOn(wire', d) : j < i /\ ~(i < j)
      <4>1. \A j \in ValuesOn(wire, d) : j < n + 1 /\ j \in Nat
        BY <1>2
      <4>2. \A j \in Nat : j < n + 1 => ~(n + 1 < j)
        BY <1>1
      <4> QED BY <1>1, <2>2, <4>1, <4>2
    <3>3. CASE \E j \in ValuesOn(wire, d) : wire[j].value = latest[d]
      <4>1. PICK j \in ValuesOn(wire, d) : wire[j].value = latest[d]
        BY <3>3
      <4>2. j \in ValuesOn(wire', d) /\ j < i
        BY <1>1, <3>2, <4>1
      <4>3. wire'[j] = wire[j]
        BY <1>2, <4>1
      <4>4. wire'[j].value = latest[d]
        BY <4>1, <4>3
      <4>5. wire'[i].wants <= wire'[j].value
        BY <3>1, <4>4
      <4> QED BY <3>2, <4>2, <4>5
    <3>4. CASE namespaces[d] = latest[d]
      BY <3>1, <3>2, <3>4
    <3>5. CASE d \in lost /\ ValuesOn(wire, d) = {}
      BY <1>1, <3>2, <3>5
    <3> QED BY <3>1, <3>3, <3>4, <3>5 DEF OnItsWay
  <2> QED BY <1>1, <2>1, <2>2
<1>5. RunsAreServed(d)'
  <2>1. \A i \in DOMAIN queue' :
           queue'[i].doc = d =>
              /\ queue'[i].wants <= namespaces'[d] \/ d \in lost'
              /\ \A j \in ValuesOn(wire', d) : queue'[i].wants <= wire'[j].value
    <3> TAKE i \in DOMAIN queue'
    <3>1. \A j \in ValuesOn(wire, d) : wire'[j] = wire[j]
      BY <1>2
    <3>2. /\ i \in DOMAIN queue /\ queue'[i] = queue[i]
          /\ namespaces' = namespaces /\ lost' = lost
      OBVIOUS
    <3>3. queue[i].doc = d =>
             /\ queue[i].wants <= namespaces[d] \/ d \in lost
             /\ \A j \in ValuesOn(wire, d) : queue[i].wants <= wire[j].value
      BY <3>2 DEF RunsAreServed
    <3> QED BY <1>1, <3>1, <3>2, <3>3
  <2> QED BY <1>4, <2>1 DEF RunsAreServed
<1>6. OnItsWay(d) => OnItsWay(d)'
  BY <1>1, <1>2 DEF OnItsWay
<1>7. NothingIsNewer(d)'
  <2>1. \A i \in RunsOn(wire') : wire'[i].doc = d => wire'[i].wants <= latest'[d]
    <3> TAKE i \in RunsOn(wire')
    <3>1. CASE i \in RunsOn(wire)
      BY <1>2, <3>1 DEF NothingIsNewer
    <3>2. CASE i = n + 1
      <4>1. wire'[i] = m /\ latest[d] \in Nat
        BY <1>1, <3>2 DEF KernelTyped
      <4> QED BY <4>1
    <3> QED BY <1>1, <3>1, <3>2
  <2>2. /\ namespaces'[d] <= latest'[d]
        /\ \A i \in DOMAIN queue' : queue'[i].doc = d => queue'[i].wants <= latest'[d]
    BY DEF NothingIsNewer
  <2> QED BY <2>1, <2>2 DEF NothingIsNewer
<1> QED BY <1>3, <1>5, <1>6, <1>7

\* The worker takes a value.
LEMMA ValueTaken ==
    ASSUME KernelTyped, NEW d \in Docs, NothingIsNewer(d), ValuesInOrder(d), RunsAreServed(d),
           wire # <<>>, wire[1] \in Injections, wire' = Tail(wire),
           namespaces' = [namespaces EXCEPT ![wire[1].doc] = wire[1].value],
           lost' = lost \ {wire[1].doc}, UNCHANGED <<queue, latest, flushing>>
    PROVE  /\ NothingIsNewer(d)' /\ ValuesInOrder(d)' /\ RunsAreServed(d)'
           /\ OnItsWay(d) => OnItsWay(d)'
<1> DEFINE V == ValuesOn(wire, d)
           W == ValuesOn(wire', d)
<1>1. /\ \A i \in RunsOn(wire') :
            i \in Nat /\ i > 0 /\ i + 1 \in RunsOn(wire) /\ wire'[i] = wire[i + 1]
      /\ \A i \in W : i \in Nat /\ i > 0 /\ i + 1 \in V /\ wire'[i] = wire[i + 1]
      /\ \A i \in V : i = 1 \/ (i \in Nat /\ i - 1 \in W /\ wire[i] = wire'[i - 1])
      /\ 1 \in DOMAIN wire
  <2>1. wire \in Seq(Injections \cup Runs)
    BY DEF KernelTyped
  <2> QED BY <2>1, TakenMessage
<1>2. /\ 1 \in V => namespaces'[d] = wire[1].value /\ d \notin lost'
      /\ 1 \notin V => namespaces'[d] = namespaces[d] /\ (d \in lost' <=> d \in lost)
  <2>1. 1 \in V <=> wire[1].doc = d
    BY <1>1 DEF ValuesOn
  <2> QED BY <2>1 DEF KernelTyped
<1>3. /\ latest[d] \in Nat /\ namespaces[d] \in Nat
      /\ \A i \in V : wire[i].value \in Nat
      /\ \A i \in DOMAIN queue : queue[i].wants \in Nat
      /\ \A i \in RunsOn(wire) : wire[i].wants \in Nat
  <2>1. latest[d] \in Nat /\ namespaces[d] \in Nat
    BY DEF KernelTyped
  <2>2. \A i \in V : wire[i].value \in Nat
    BY DEF ValuesOn, Injections
  <2>3. \A i \in RunsOn(wire) : wire[i].wants \in Nat
    BY DEF RunsOn, Runs
  <2>4. \A i \in DOMAIN queue : queue[i].wants \in Nat
    <3>1. \A i \in DOMAIN queue : queue[i] \in Runs
      BY DEF KernelTyped
    <3> QED BY <3>1 DEF Runs
  <2> QED BY <2>1, <2>2, <2>3, <2>4
<1>4. /\ \A i \in V : namespaces[d] <= wire[i].value /\ wire[i].value <= latest[d]
      /\ \A i, j \in V : i < j => wire[i].value <= wire[j].value
  BY DEF ValuesInOrder
<1>5. namespaces[d] <= namespaces'[d] /\ namespaces'[d] \in Nat
  BY <1>2, <1>3, <1>4
<1> HIDE DEF V, W
<1>6. \A i \in W : namespaces'[d] <= wire'[i].value
  <2> TAKE i \in W
  <2>0. i \in Nat /\ i > 0 /\ i + 1 \in V /\ wire'[i] = wire[i + 1]
    BY <1>1
  <2>1. 1 < i + 1
    <3>1. i \in Nat /\ i > 0
      BY <2>0
    <3> QED BY <3>1
  <2>2. CASE 1 \in V
    BY <1>2, <1>4, <2>0, <2>1, <2>2
  <2>3. CASE 1 \notin V
    BY <1>2, <1>4, <2>0, <2>3
  <2> QED BY <2>2, <2>3
<1>7. \A i, j \in W : i < j => wire'[i].value <= wire'[j].value
  <2> TAKE i, j \in W
  <2>1. /\ i + 1 \in V /\ wire'[i] = wire[i + 1] /\ j + 1 \in V /\ wire'[j] = wire[j + 1]
        /\ i \in Nat /\ j \in Nat
    BY <1>1
  <2>2. i < j => i + 1 < j + 1
    BY <2>1
  <2> QED BY <1>4, <2>1, <2>2
<1>8. \A i \in W : wire'[i].value <= latest[d]
  BY <1>1, <1>4
<1>9. ValuesInOrder(d)'
  BY <1>6, <1>7, <1>8 DEF ValuesInOrder, W
<1>10. ASSUME NEW i \in DOMAIN queue, queue[i].doc = d
       PROVE  /\ queue[i].wants <= namespaces'[d] \/ d \in lost'
              /\ \A j \in W : queue[i].wants <= wire'[j].value
  <2>1. /\ queue[i].wants <= namespaces[d] \/ d \in lost
        /\ \A j \in V : queue[i].wants <= wire[j].value
    BY <1>10 DEF RunsAreServed, V
  <2>2. \A j \in W : queue[i].wants <= wire'[j].value
    BY <1>1, <2>1
  <2>3. queue[i].wants <= namespaces'[d] \/ d \in lost'
    BY <1>2, <2>1
  <2> QED BY <2>2, <2>3
<1>11. ASSUME NEW i \in RunsOn(wire'), wire'[i].doc = d
       PROVE  /\ \/ \E j \in W : j < i /\ wire'[i].wants <= wire'[j].value
                 \/ wire'[i].wants <= namespaces'[d]
                 \/ d \in lost' /\ \A j \in W : i < j
              /\ \A j \in W : i < j => wire'[i].wants <= wire'[j].value
  <2> DEFINE k == i + 1
  <2>1. k \in RunsOn(wire) /\ wire'[i] = wire[k] /\ wire[k].doc = d /\ i \in Nat /\ i > 0
    BY <1>1, <1>11
  <2>2. /\ \/ \E j \in V : j < k /\ wire[k].wants <= wire[j].value
           \/ wire[k].wants <= namespaces[d]
           \/ d \in lost /\ \A j \in V : k < j
        /\ \A j \in V : k < j => wire[k].wants <= wire[j].value
    BY <2>1 DEF RunsAreServed, V
  <2>3. \A j \in W : i < j => wire'[i].wants <= wire'[j].value
    <3> TAKE j \in W
    <3>1. j + 1 \in V /\ wire'[j] = wire[j + 1] /\ j \in Nat
      BY <1>1
    <3>2. i < j => k < j + 1
      BY <2>1, <3>1
    <3> QED BY <2>1, <2>2, <3>1, <3>2
  <2>4. CASE \E j \in V : j < k /\ wire[k].wants <= wire[j].value
    <3>1. PICK j \in V : j < k /\ wire[k].wants <= wire[j].value
      BY <2>4
    <3>2. CASE j = 1
      BY <1>2, <2>1, <2>3, <3>1, <3>2
    <3>3. CASE j # 1
      <4>1. j - 1 \in W /\ wire[j] = wire'[j - 1] /\ j \in Nat
        BY <1>1, <3>3
      <4>2. j - 1 < i
        BY <2>1, <3>1, <4>1
      <4> QED BY <2>1, <2>3, <3>1, <4>1, <4>2
    <3> QED BY <3>2, <3>3
  <2>5. CASE wire[k].wants <= namespaces[d]
    <3>1. wire[k].wants \in Nat
      BY <1>3, <2>1
    <3>2. wire[k].wants <= namespaces'[d]
      BY <1>3, <1>5, <2>5, <3>1
    <3> QED BY <2>1, <2>3, <3>2
  <2>6. CASE d \in lost /\ \A j \in V : k < j
    <3>1. 1 \notin V
      BY <2>1, <2>6
    <3>2. \A j \in W : i < j
      BY <1>1, <2>1, <2>6
    <3> QED BY <1>2, <2>3, <2>6, <3>1, <3>2
  <2> QED BY <2>2, <2>4, <2>5, <2>6
<1>12. RunsAreServed(d)'
  BY <1>10, <1>11 DEF RunsAreServed, W
<1>13. ASSUME OnItsWay(d) PROVE OnItsWay(d)'
  <2>1. CASE \E i \in V : wire[i].value = latest[d]
    BY <1>1, <1>2, <2>1 DEF OnItsWay, W
  <2>2. CASE namespaces[d] = latest[d]
    BY <1>2, <1>3, <1>4, <2>2 DEF OnItsWay
  <2>3. CASE d \in lost /\ V = {}
    BY <1>1, <1>2, <2>3 DEF OnItsWay, W
  <2> QED BY <1>13, <2>1, <2>2, <2>3 DEF OnItsWay, V
<1>14. NothingIsNewer(d)'
  <2>1. namespaces'[d] <= latest'[d]
    BY <1>2, <1>4 DEF NothingIsNewer
  <2>2. \A i \in DOMAIN queue' : queue'[i].doc = d => queue'[i].wants <= latest'[d]
    BY DEF NothingIsNewer
  <2>3. \A i \in RunsOn(wire') : wire'[i].doc = d => wire'[i].wants <= latest'[d]
    <3> TAKE i \in RunsOn(wire')
    <3>1. i + 1 \in RunsOn(wire) /\ wire'[i] = wire[i + 1]
      BY <1>1
    <3>2. wire[i + 1].doc = d => wire[i + 1].wants <= latest[d]
      BY <3>1 DEF NothingIsNewer
    <3> QED BY <3>1, <3>2
  <2> QED BY <2>1, <2>2, <2>3 DEF NothingIsNewer
<1> QED BY <1>9, <1>12, <1>13, <1>14

\* The worker takes a run.
LEMMA RunTaken ==
    ASSUME KernelTyped, NEW d \in Docs, NothingIsNewer(d), ValuesInOrder(d), RunsAreServed(d),
           wire # <<>>, wire[1] \in Runs, wire' = Tail(wire), queue' = Append(queue, wire[1]),
           UNCHANGED <<namespaces, lost, latest, flushing>>
    PROVE  /\ NothingIsNewer(d)' /\ ValuesInOrder(d)' /\ RunsAreServed(d)'
           /\ OnItsWay(d) => OnItsWay(d)'
<1> DEFINE V == ValuesOn(wire, d)
           W == ValuesOn(wire', d)
<1>1. /\ \A i \in RunsOn(wire') :
            i \in Nat /\ i > 0 /\ i + 1 \in RunsOn(wire) /\ wire'[i] = wire[i + 1]
      /\ \A i \in W : i \in Nat /\ i > 0 /\ i + 1 \in V /\ wire'[i] = wire[i + 1]
      /\ \A i \in V : i = 1 \/ (i \in Nat /\ i - 1 \in W /\ wire[i] = wire'[i - 1])
      /\ 1 \in DOMAIN wire
  <2>1. wire \in Seq(Injections \cup Runs)
    BY DEF KernelTyped
  <2> QED BY <2>1, TakenMessage
<1>2. 1 \in RunsOn(wire) /\ \A i \in V : i > 1 /\ i \in Nat
  <2>1. 1 \notin V /\ 1 \in RunsOn(wire)
    BY <1>1, MessageKinds DEF RunsOn, ValuesOn
  <2>2. \A i \in W : i > 0 /\ i \in Nat
    BY <1>1
  <2> HIDE DEF V, W
  <2> QED BY <1>1, <2>1, <2>2
<1>3. /\ DOMAIN queue' = DOMAIN queue \cup {Len(queue) + 1}
      /\ \A i \in DOMAIN queue : queue'[i] = queue[i]
      /\ queue'[Len(queue) + 1] = wire[1]
  BY DEF KernelTyped
<1>4. ValuesInOrder(d)'
  <2>1. /\ \A i \in V : namespaces[d] <= wire[i].value /\ wire[i].value <= latest[d]
        /\ \A i, j \in V : i < j => wire[i].value <= wire[j].value
    BY DEF ValuesInOrder
  <2> HIDE DEF V, W
  <2>2. \A i, j \in W : i < j => wire'[i].value <= wire'[j].value
    <3> TAKE i, j \in W
    <3>1. /\ i + 1 \in V /\ wire'[i] = wire[i + 1] /\ j + 1 \in V /\ wire'[j] = wire[j + 1]
          /\ i \in Nat /\ j \in Nat
      BY <1>1
    <3>2. i < j => i + 1 < j + 1
      BY <3>1
    <3> QED BY <2>1, <3>1, <3>2
  <2>3. \A i \in W : namespaces[d] <= wire'[i].value /\ wire'[i].value <= latest[d]
    BY <1>1, <2>1
  <2> QED BY <2>2, <2>3 DEF ValuesInOrder, W
<1> HIDE DEF V, W
<1>5. ASSUME NEW k \in RunsOn(wire), wire[k].doc = d
      PROVE  /\ \/ \E j \in V : j < k /\ wire[k].wants <= wire[j].value
                \/ wire[k].wants <= namespaces[d]
                \/ d \in lost /\ \A j \in V : k < j
             /\ \A j \in V : k < j => wire[k].wants <= wire[j].value
  BY <1>5 DEF RunsAreServed, V
<1>6. ASSUME NEW i \in DOMAIN queue', queue'[i].doc = d
      PROVE  /\ queue'[i].wants <= namespaces[d] \/ d \in lost
             /\ \A j \in W : queue'[i].wants <= wire'[j].value
  <2>1. CASE i \in DOMAIN queue
    <3>1. /\ queue[i].wants <= namespaces[d] \/ d \in lost
          /\ \A j \in V : queue[i].wants <= wire[j].value
      BY <1>3, <1>6, <2>1 DEF RunsAreServed, V
    <3> QED BY <1>1, <1>3, <2>1, <3>1
  <2>2. CASE i = Len(queue) + 1
    <3>1. queue'[i] = wire[1] /\ wire[1].doc = d
      BY <1>3, <1>6, <2>2
    <3>2. ~\E j \in V : j < 1
      BY <1>2
    <3>3. wire[1].wants <= namespaces[d] \/ d \in lost
      BY <1>2, <1>5, <3>1, <3>2
    <3>4. \A j \in W : wire[1].wants <= wire'[j].value
      <4> TAKE j \in W
      <4>1. j + 1 \in V /\ wire'[j] = wire[j + 1] /\ j \in Nat /\ j > 0
        BY <1>1
      <4>2. 1 < j + 1
        BY <4>1
      <4> QED BY <1>2, <1>5, <3>1, <4>1, <4>2
    <3> QED BY <3>1, <3>3, <3>4
  <2> QED BY <1>3, <2>1, <2>2
<1>7. ASSUME NEW i \in RunsOn(wire'), wire'[i].doc = d
      PROVE  /\ \/ \E j \in W : j < i /\ wire'[i].wants <= wire'[j].value
                \/ wire'[i].wants <= namespaces[d]
                \/ d \in lost /\ \A j \in W : i < j
             /\ \A j \in W : i < j => wire'[i].wants <= wire'[j].value
  <2> DEFINE k == i + 1
  <2>1. k \in RunsOn(wire) /\ wire'[i] = wire[k] /\ wire[k].doc = d /\ i \in Nat /\ i > 0
    BY <1>1, <1>7
  <2>2. \A j \in W : i < j => wire'[i].wants <= wire'[j].value
    <3> TAKE j \in W
    <3>1. j + 1 \in V /\ wire'[j] = wire[j + 1] /\ j \in Nat
      BY <1>1
    <3>2. i < j => k < j + 1
      BY <2>1, <3>1
    <3> QED BY <1>5, <2>1, <3>1, <3>2
  <2>3. ASSUME NEW j \in V, j < k, wire[k].wants <= wire[j].value
        PROVE  \E l \in W : l < i /\ wire'[i].wants <= wire'[l].value
    <3>0. j \in Nat /\ j > 1
      BY <1>2, <2>3
    <3>1. j # 1
      BY <3>0
    <3>2. j - 1 \in W /\ wire[j] = wire'[j - 1]
      BY <1>1, <2>3, <3>1
    <3>3. j - 1 < i
      BY <2>1, <2>3, <3>0
    <3>4. wire'[i].wants <= wire'[j - 1].value
      BY <2>1, <2>3, <3>2
    <3> QED BY <3>2, <3>3, <3>4
  <2>4. (\A j \in V : k < j) => \A j \in W : i < j
    BY <1>1, <2>1
  <2> QED BY <1>5, <2>1, <2>2, <2>3, <2>4
<1>8. RunsAreServed(d)'
  BY <1>6, <1>7 DEF RunsAreServed, W
<1>9. ASSUME OnItsWay(d) PROVE OnItsWay(d)'
  <2>1. ASSUME NEW i \in V, wire[i].value = latest[d]
        PROVE  \E j \in W : wire'[j].value = latest[d]
    <3>1. i \in Nat /\ i > 1
      BY <1>2
    <3>2. i # 1
      BY <3>1
    <3>3. i - 1 \in W /\ wire[i] = wire'[i - 1]
      BY <1>1, <3>2
    <3> QED BY <2>1, <3>3
  <2>2. V = {} => W = {}
    BY <1>1
  <2> QED BY <1>9, <2>1, <2>2 DEF OnItsWay, V, W
<1>10. NothingIsNewer(d)'
  <2>1. \A i \in DOMAIN queue' : queue'[i].doc = d => queue'[i].wants <= latest'[d]
    <3> TAKE i \in DOMAIN queue'
    <3>1. CASE i \in DOMAIN queue
      BY <1>3, <3>1 DEF NothingIsNewer
    <3>2. CASE i = Len(queue) + 1
      BY <1>2, <1>3, <3>2 DEF NothingIsNewer
    <3> QED BY <1>3, <3>1, <3>2
  <2>2. \A i \in RunsOn(wire') : wire'[i].doc = d => wire'[i].wants <= latest'[d]
    <3> TAKE i \in RunsOn(wire')
    <3>1. i + 1 \in RunsOn(wire) /\ wire'[i] = wire[i + 1]
      BY <1>1
    <3>2. wire[i + 1].doc = d => wire[i + 1].wants <= latest[d]
      BY <3>1 DEF NothingIsNewer
    <3> QED BY <3>1, <3>2
  <2>3. namespaces'[d] <= latest'[d]
    BY DEF NothingIsNewer
  <2> QED BY <2>1, <2>2, <2>3 DEF NothingIsNewer
<1> QED BY <1>4, <1>8, <1>9, <1>10

\* A run is over.
LEMMA RunOver ==
    ASSUME KernelTyped, NEW d \in Docs, NothingIsNewer(d), ValuesInOrder(d), RunsAreServed(d),
           queue # <<>>, queue' = Tail(queue),
           UNCHANGED <<wire, namespaces, lost, latest, flushing>>
    PROVE  /\ NothingIsNewer(d)' /\ ValuesInOrder(d)' /\ RunsAreServed(d)'
           /\ OnItsWay(d) => OnItsWay(d)'
<1>1. \A i \in DOMAIN queue' : i + 1 \in DOMAIN queue /\ queue'[i] = queue[i + 1]
  BY DEF KernelTyped
<1>2. ValuesInOrder(d)'
  BY DEF ValuesInOrder
<1>3. RunsAreServed(d)'
  BY <1>1 DEF RunsAreServed
<1>4. OnItsWay(d) => OnItsWay(d)'
  BY DEF OnItsWay
<1>5. NothingIsNewer(d)'
  BY <1>1 DEF NothingIsNewer
<1> QED BY <1>2, <1>3, <1>4, <1>5

\* The wire's runs are the same, and so is what follows from them.
LEMMA SameRuns ==
    ASSUME RunsOn(wire') = RunsOn(wire), \A i \in RunsOn(wire) : wire'[i] = wire[i],
           UNCHANGED <<queue, waiting>>, NEW state
    PROVE  /\ AllStale => AllStale'
           /\ RunsInTurn(state) =>
                /\ waiting' # None => state = "IDLE" /\ queue' = <<>> /\ RunsOn(wire') = {}
                /\ \A i, j \in DOMAIN queue' : i < j => ~queue'[j].stale
                /\ \A j \in RunsOn(wire') : queue' # <<>> => ~wire'[j].stale
                /\ \A i, j \in RunsOn(wire') : i < j => ~wire'[j].stale
                /\ state # "IDLE" => \/ \E i \in DOMAIN queue' : ~queue'[i].stale
                                     \/ \E i \in RunsOn(wire') : ~wire'[i].stale
<1>1. AllStale => AllStale'
  BY DEF AllStale
<1>2. ASSUME RunsInTurn(state)
      PROVE  /\ waiting' # None => state = "IDLE" /\ queue' = <<>> /\ RunsOn(wire') = {}
             /\ \A i, j \in DOMAIN queue' : i < j => ~queue'[j].stale
             /\ \A j \in RunsOn(wire') : queue' # <<>> => ~wire'[j].stale
             /\ \A i, j \in RunsOn(wire') : i < j => ~wire'[j].stale
             /\ state # "IDLE" => \/ \E i \in DOMAIN queue' : ~queue'[i].stale
                                  \/ \E i \in RunsOn(wire') : ~wire'[i].stale
  BY <1>2 DEF RunsInTurn
<1> QED BY <1>1, <1>2

\* Without the kernel nothing is posted.
LEMMA StillNotThere ==
    ASSUME kernel' # "ready", wire' = <<>>, queue' = <<>>, flushing' = <<>>, tasks' = 0,
           \A d \in Docs \ overtaken' : namespaces'[d] <= latest'[d]
    PROVE  Served' /\ Counted' /\ StaleFirst'
<1>1. /\ DOMAIN wire' = {} /\ DOMAIN queue' = {} /\ DOMAIN flushing' = {} /\ Len(queue') = 0
      /\ RunsOn(wire') = {} /\ \A d : ValuesOn(wire', d) = {}
  <2>1. DOMAIN wire' = {} /\ DOMAIN queue' = {} /\ DOMAIN flushing' = {} /\ Len(queue') = 0
    OBVIOUS
  <2>2. RunsOn(wire') = {}
    BY <2>1 DEF RunsOn
  <2>3. \A d : ValuesOn(wire', d) = {}
    BY <2>1 DEF ValuesOn
  <2> QED BY <2>1, <2>2, <2>3
<1>2. Served'
  <2> SUFFICES ASSUME NEW d \in Docs \ overtaken'
               PROVE  /\ NothingIsNewer(d)' /\ ValuesInOrder(d)' /\ RunsAreServed(d)'
                      /\ LastIsOnItsWay(d)'
    BY DEF Served
  <2>1. NothingIsNewer(d)'
    BY <1>1 DEF NothingIsNewer
  <2>2. ValuesInOrder(d)'
    BY <1>1 DEF ValuesInOrder
  <2>3. RunsAreServed(d)'
    BY <1>1 DEF RunsAreServed
  <2>4. LastIsOnItsWay(d)'
    BY DEF LastIsOnItsWay
  <2> QED BY <2>1, <2>2, <2>3, <2>4
<1>3. Counted'
  BY <1>1, FS_EmptySet DEF Counted, AllStale
<1>4. StaleFirst'
  BY DEF StaleFirst
<1> QED BY <1>2, <1>3, <1>4

LEMMA KernelInjects ==
    ASSUME KernelInv, NEW d \in Docs, Kernel!Inject(d)
    PROVE  KernelInv'
<1> DEFINE m == Kernel!Injection(d, latest'[d])
<1>1. /\ latest \in [Docs -> Nat] /\ latest' \in [Docs -> Nat] /\ latest'[d] = latest[d] + 1
      /\ \A e \in Docs : latest[e] <= latest'[e] /\ (e # d => latest'[e] = latest[e])
      /\ latest' = [latest EXCEPT ![d] = latest[d] + 1]
  BY DEF KernelInv, KernelTyped, Kernel!Inject
<1>2. m \in Injections /\ m.doc = d /\ m.value = latest'[d]
  BY <1>1 DEF Injections, Kernel!Injection
<1> HIDE DEF m
<1>3. /\ status' = status /\ kernel' = kernel /\ tasks' = tasks /\ waiting' = waiting
      /\ flushing' = flushing /\ queue' = queue /\ namespaces' = namespaces
      /\ reads' = reads /\ lost' = lost
  BY DEF Kernel!Inject
<1>4. Kernel!RunsSeeTheirVariables'
  BY <1>3 DEF KernelInv, Kernel!RunsSeeTheirVariables
<1>5. CASE kernel = "ready"
  <2>1. /\ wire' = Append(wire, m) /\ pending' = pending
        /\ overtaken' = overtaken \cup {e \in {d} : Kernel!Waits(e)}
    BY <1>5 DEF Kernel!Inject, m
  <2>2. wire \in Seq(Injections \cup Runs) /\ m \in Injections \cup Runs
    BY <1>2 DEF KernelInv, KernelTyped
  <2>3. /\ wire' \in Seq(Injections \cup Runs)
        /\ RunsOn(wire') = RunsOn(wire)
        /\ \A i \in RunsOn(wire) : wire'[i] = wire[i]
    <3>1. \A i \in DOMAIN wire : wire'[i] = wire[i]
      BY <2>1, <2>2, PostedMessage
    <3> QED BY <1>2, <2>1, <2>2, <3>1, PostedMessage DEF RunsOn
  <2>4. KernelTyped'
    BY <1>1, <1>3, <2>1, <2>3 DEF KernelInv, KernelTyped
  <2>5. NotYet'
    BY <1>3, <1>5 DEF NotYet
  <2>6. Served'
    <3> SUFFICES ASSUME NEW e \in Docs \ overtaken'
                 PROVE  /\ NothingIsNewer(e)' /\ ValuesInOrder(e)' /\ RunsAreServed(e)'
                        /\ LastIsOnItsWay(e)'
      BY DEF Served
    <3>1. /\ NothingIsNewer(e) /\ ValuesInOrder(e) /\ RunsAreServed(e) /\ LastIsOnItsWay(e)
          /\ e = d => ~Kernel!Waits(e)
      BY <2>1 DEF KernelInv, Served
    <3>2. \A i \in DOMAIN flushing' : flushing'[i].doc = e => flushing'[i].value = latest'[e]
      <4>1. CASE e = d
        BY <1>3, <3>1, <4>1 DEF Kernel!Waits
      <4>2. CASE e # d
        BY <1>1, <1>3, <3>1, <4>2 DEF ValuesInOrder
      <4> QED BY <4>1, <4>2
    <3>3. /\ NothingIsNewer(e)' /\ ValuesInOrder(e)' /\ RunsAreServed(e)'
          /\ d = e => OnItsWay(e)'
          /\ d # e /\ latest'[e] = latest[e] /\ OnItsWay(e) => OnItsWay(e)'
      BY <1>1, <1>2, <1>3, <2>1, <3>1, <3>2, ValuePosted DEF KernelInv
    <3>4. Kernel!Waits(e)' <=> Kernel!Waits(e)
      BY <1>3 DEF Kernel!Waits
    <3>5. LastIsOnItsWay(e)'
      BY <1>1, <1>3, <3>1, <3>3, <3>4 DEF LastIsOnItsWay
    <3> QED BY <3>3, <3>5
  <2>7. AllStale => AllStale'
    BY <1>3, <2>3, SameRuns
  <2>8. Counted'
    BY <1>3, <2>3, <2>7 DEF KernelInv, Counted
  <2>9. StaleFirst'
    BY <1>3, <2>1, <2>3 DEF KernelInv, StaleFirst, RunsInTurn
  <2> QED BY <1>4, <2>4, <2>5, <2>6, <2>8, <2>9 DEF KernelInv
<1>6. CASE kernel # "ready"
  <2>1. pending' = Kernel!Queued(d) /\ wire' = wire /\ overtaken' = overtaken
    BY <1>6 DEF Kernel!Inject
  <2>2. pending \in Seq(Injections)
    BY DEF KernelInv, KernelTyped
  <2>3. /\ pending' \in Seq(Injections)
        /\ \A i \in DOMAIN pending' :
              \/ pending'[i] = m
              \/ i \in DOMAIN pending /\ pending'[i] = pending[i] /\ pending[i].doc # d
        /\ \E i \in DOMAIN pending' : pending'[i] = m
        /\ \A i \in DOMAIN pending : i \in DOMAIN pending' /\ pending'[i].doc = pending[i].doc
    <3>1. CASE \E i \in DOMAIN pending : pending[i].doc = d
      <4>1. pending' = [i \in DOMAIN pending |-> IF pending[i].doc = d THEN m ELSE pending[i]]
        BY <2>1, <3>1 DEF Kernel!Queued, m
      <4>2. DOMAIN pending = 1..Len(pending) /\ \A i \in DOMAIN pending : pending[i] \in Injections
        BY <2>2
      <4>3. pending' \in Seq(Injections)
        BY <1>2, <2>2, <4>1, <4>2
      <4> QED BY <1>2, <3>1, <4>1, <4>3
    <3>2. CASE \A i \in DOMAIN pending : pending[i].doc # d
      <4>1. pending' = Append(pending, m)
        BY <2>1, <3>2 DEF Kernel!Queued, m
      <4>2. /\ pending' \in Seq(Injections)
            /\ DOMAIN pending' = DOMAIN pending \cup {Len(pending) + 1}
            /\ \A i \in DOMAIN pending : pending'[i] = pending[i]
            /\ pending'[Len(pending) + 1] = m
        BY <1>2, <2>2, <4>1
      <4> QED BY <3>2, <4>2
    <3> QED BY <3>1, <3>2
  <2>4. KernelTyped'
    BY <1>1, <1>3, <2>1, <2>3 DEF KernelInv, KernelTyped
  <2>5. wire' = <<>> /\ queue' = <<>> /\ flushing' = <<>> /\ tasks' = 0 /\ kernel' # "ready"
    BY <1>3, <1>6, <2>1 DEF KernelInv, NotYet
  <2>6. NotYet'
    <3>1. \A i \in DOMAIN pending' : pending'[i].value = latest'[pending'[i].doc]
      <4> TAKE i \in DOMAIN pending'
      <4>1. CASE pending'[i] = m
        BY <1>2, <4>1
      <4>2. CASE i \in DOMAIN pending /\ pending'[i] = pending[i] /\ pending[i].doc # d
        <5>1. pending[i].doc \in Docs /\ pending[i].value = latest[pending[i].doc]
          <6>1. pending[i] \in Injections
            BY <2>2, <4>2
          <6> QED BY <1>6, <4>2, <6>1 DEF KernelInv, NotYet, Injections
        <5> QED BY <1>1, <4>2, <5>1
      <4> QED BY <2>3, <4>1, <4>2
    <3>2. \A e \in Docs : \/ \E i \in DOMAIN pending' : pending'[i].doc = e
                          \/ namespaces'[e] = latest'[e] \/ e \in lost'
      <4> TAKE e \in Docs
      <4>1. CASE e = d
        BY <1>2, <2>3, <4>1
      <4>2. CASE e # d
        <5>1. \/ \E i \in DOMAIN pending : pending[i].doc = e
              \/ namespaces[e] = latest[e] \/ e \in lost
          BY <1>6 DEF KernelInv, NotYet
        <5> QED BY <1>1, <1>3, <2>3, <4>2, <5>1
      <4> QED BY <4>1, <4>2
    <3> QED BY <2>5, <3>1, <3>2 DEF NotYet
  <2>7. \A e \in Docs \ overtaken' : namespaces'[e] <= latest'[e]
    <3> TAKE e \in Docs \ overtaken'
    <3>1. namespaces[e] <= latest[e] /\ namespaces[e] \in Nat /\ latest[e] \in Nat /\ latest'[e] \in Nat
      BY <1>1, <2>1 DEF KernelInv, Served, NothingIsNewer, KernelTyped
    <3>2. latest[e] <= latest'[e]
      BY <1>1
    <3> QED BY <1>3, <3>1, <3>2
  <2>8. Served' /\ Counted' /\ StaleFirst'
    BY <2>5, <2>7, StillNotThere
  <2> QED BY <1>4, <2>4, <2>6, <2>8 DEF KernelInv
<1> QED BY <1>5, <1>6

\* The kernel starts to load, or a run is given up.
LEMMA KernelStarts ==
    ASSUME KernelInv, NEW d \in Docs \cup {None},
           Kernel!Start(d) \/ \E e \in Docs : Kernel!RunGivenUp(e)
    PROVE  KernelInv'
<1>1. /\ kernel # "ready" /\ kernel' = "loading" /\ status' \in {status, "INITIALIZING"}
      /\ waiting' \in {waiting, d} /\ tasks' = tasks /\ pending' = pending
      /\ flushing' = flushing /\ wire' = wire /\ queue' = queue /\ namespaces' = namespaces
      /\ latest' = latest /\ reads' = reads /\ lost' = lost /\ overtaken' = overtaken
  BY DEF Kernel!Start, Kernel!RunGivenUp
<1>2. KernelTyped'
  BY <1>1 DEF KernelInv, KernelTyped
<1>3. NotYet'
  BY <1>1 DEF KernelInv, NotYet
<1>4. Served' /\ Counted' /\ StaleFirst'
  <2>1. wire' = <<>> /\ queue' = <<>> /\ flushing' = <<>> /\ tasks' = 0 /\ kernel' # "ready"
    BY <1>1 DEF KernelInv, NotYet
  <2>2. \A e \in Docs \ overtaken' : namespaces'[e] <= latest'[e]
    BY <1>1 DEF KernelInv, Served, NothingIsNewer
  <2> QED BY <2>1, <2>2, StillNotThere
<1>5. Kernel!RunsSeeTheirVariables'
  BY <1>1 DEF KernelInv, Kernel!RunsSeeTheirVariables
<1> QED BY <1>2, <1>3, <1>4, <1>5 DEF KernelInv

LEMMA KernelFails ==
    ASSUME KernelInv, Kernel!LoadFails
    PROVE  KernelInv'
<1>1. /\ kernel # "ready" /\ kernel' = "none" /\ status' = "UNINITIALIZED"
      /\ waiting' = None /\ tasks' = 0 /\ pending' = <<>>
      /\ lost' = lost \cup {pending[i].doc : i \in DOMAIN pending}
      /\ flushing' = flushing /\ wire' = wire /\ queue' = queue /\ namespaces' = namespaces
      /\ latest' = latest /\ reads' = reads /\ overtaken' = overtaken
  BY DEF Kernel!LoadFails
<1>2. wire' = <<>> /\ queue' = <<>> /\ flushing' = <<>> /\ kernel' # "ready"
  BY <1>1 DEF KernelInv, NotYet
<1>3. KernelTyped'
  <2>1. pending' \in Seq(Injections)
    BY <1>1
  <2> QED BY <1>1, <2>1 DEF KernelInv, KernelTyped
<1>4. NotYet'
  <2>1. \A e \in Docs : namespaces'[e] = latest'[e] \/ e \in lost'
    <3> TAKE e \in Docs
    <3>1. \/ \E i \in DOMAIN pending : pending[i].doc = e
          \/ namespaces[e] = latest[e] \/ e \in lost
      BY <1>1 DEF KernelInv, NotYet
    <3> QED BY <1>1, <3>1
  <2>2. DOMAIN pending' = {}
    BY <1>1
  <2> QED BY <1>1, <1>2, <2>1, <2>2 DEF NotYet
<1>5. Served' /\ Counted' /\ StaleFirst'
  <2>1. \A e \in Docs \ overtaken' : namespaces'[e] <= latest'[e]
    BY <1>1 DEF KernelInv, Served, NothingIsNewer
  <2> QED BY <1>1, <1>2, <2>1, StillNotThere
<1>6. Kernel!RunsSeeTheirVariables'
  BY <1>1 DEF KernelInv, Kernel!RunsSeeTheirVariables
<1> QED BY <1>3, <1>4, <1>5, <1>6 DEF KernelInv

\* A run is called.
LEMMA KernelRuns ==
    ASSUME KernelInv, NEW d \in Docs, Kernel!RunNow(d)
    PROVE  KernelInv'
<1> DEFINE m == Kernel!Run(d, FALSE)
           n == Len(wire)
<1>1. /\ kernel = "ready" /\ kernel' = kernel /\ tasks' = tasks + 1
      /\ status' = Kernel!Updated(tasks', FALSE) /\ wire' = Append(wire, m)
      /\ overtaken' = overtaken \cup {e \in {d} : Kernel!Waits(e)}
                                \cup {None : w \in {waiting} \ {None}}
      /\ waiting' = waiting /\ pending' = pending /\ flushing' = flushing /\ queue' = queue
      /\ namespaces' = namespaces /\ latest' = latest /\ reads' = reads /\ lost' = lost
  BY DEF Kernel!RunNow
<1>2. /\ m \in Runs /\ m.doc = d /\ m.stale = FALSE /\ m.wants = latest[d]
      /\ wire \in Seq(Injections \cup Runs)
  BY DEF KernelInv, KernelTyped, Runs, Kernel!Run
<1> HIDE DEF m
<1>3. /\ wire' \in Seq(Injections \cup Runs)
      /\ RunsOn(wire') = RunsOn(wire) \cup {n + 1}
      /\ \A i \in RunsOn(wire) : wire'[i] = wire[i] /\ i < n + 1 /\ i \in Nat
      /\ wire'[n + 1] = m /\ n \in Nat
      /\ Cardinality(RunsOn(wire')) = Cardinality(RunsOn(wire)) + 1
      /\ Cardinality(RunsOn(wire)) \in Nat
  <2>1. m \in Injections \cup Runs
    BY <1>2
  <2>2. \A i \in DOMAIN wire : wire'[i] = wire[i] /\ i < n + 1 /\ i \in Nat
    BY <1>1, <1>2, <2>1, PostedMessage
  <2>3. \A i \in RunsOn(wire) : wire'[i] = wire[i] /\ i < n + 1 /\ i \in Nat
    BY <2>2 DEF RunsOn
  <2> QED BY <1>1, <1>2, <2>1, <2>3, PostedMessage, RunsCounted
<1> HIDE DEF n
<1>4. status' = "BUSY" /\ tasks' = Cardinality(RunsOn(wire')) + Len(queue')
  <2>1. tasks = Cardinality(RunsOn(wire)) + Len(queue) /\ Len(queue) \in Nat
    BY DEF KernelInv, Counted, KernelTyped
  <2>2. tasks' > 0
    BY <1>1, <1>3, <2>1
  <2> QED BY <1>1, <1>3, <2>1, <2>2 DEF Kernel!Updated
<1>5. KernelTyped'
  <2>1. tasks' \in Int
    <3>1. tasks \in Int
      BY DEF KernelInv, KernelTyped
    <3> QED BY <1>1, <3>1
  <2>2. status' \in {"UNINITIALIZED", "INITIALIZING", "IDLE", "BUSY"}
    BY <1>4
  <2> QED BY <1>1, <1>3, <2>1, <2>2 DEF KernelInv, KernelTyped
<1>6. NotYet'
  BY <1>1 DEF NotYet
<1>7. Served'
  <2> SUFFICES ASSUME NEW e \in Docs \ overtaken'
               PROVE  /\ NothingIsNewer(e)' /\ ValuesInOrder(e)' /\ RunsAreServed(e)'
                      /\ LastIsOnItsWay(e)'
    BY DEF Served
  <2>1. /\ NothingIsNewer(e) /\ ValuesInOrder(e) /\ RunsAreServed(e) /\ LastIsOnItsWay(e)
        /\ e = d => ~Kernel!Waits(e)
    BY <1>1 DEF KernelInv, Served
  <2>2. \A i \in DOMAIN flushing' : flushing'[i].doc = e => flushing'[i].value = latest[e]
    BY <1>1, <2>1 DEF ValuesInOrder
  <2>3. m.doc = e => OnItsWay(e)
    BY <1>1, <1>2, <2>1 DEF LastIsOnItsWay
  <2>4. /\ NothingIsNewer(e)' /\ ValuesInOrder(e)' /\ RunsAreServed(e)'
        /\ OnItsWay(e) => OnItsWay(e)'
    BY <1>1, <1>2, <2>1, <2>2, <2>3, RunPosted DEF KernelInv
  <2>5. Kernel!Waits(e)' <=> Kernel!Waits(e)
    BY <1>1 DEF Kernel!Waits
  <2>6. LastIsOnItsWay(e)'
    BY <1>1, <2>1, <2>4, <2>5 DEF LastIsOnItsWay
  <2> QED BY <2>4, <2>6
<1>8. Counted'
  BY <1>4 DEF Counted
<1>9. StaleFirst'
  <2> SUFFICES ASSUME overtaken' = {} PROVE RunsInTurn("BUSY")'
    BY <1>4 DEF StaleFirst
  <2>1. overtaken = {} /\ waiting' = None
    BY <1>1
  <2>2. RunsInTurn(status)
    BY <1>1, <2>1 DEF KernelInv, StaleFirst
  <2>3. ~wire'[n + 1].stale /\ n + 1 \in RunsOn(wire')
    BY <1>2, <1>3
  <2>4. \A i, j \in RunsOn(wire') : i < j => ~wire'[j].stale
    <3> TAKE i, j \in RunsOn(wire')
    <3>1. ASSUME j \in RunsOn(wire), i < j
          PROVE  ~wire'[j].stale
      <4>1. i # n + 1
        BY <1>3, <3>1
      <4>2. i \in RunsOn(wire)
        BY <1>3, <4>1
      <4> QED BY <1>3, <2>2, <3>1, <4>2 DEF RunsInTurn
    <3> QED BY <1>3, <2>3, <3>1
  <2>5. \A j \in RunsOn(wire') : queue' # <<>> => ~wire'[j].stale
    BY <1>1, <1>3, <2>2, <2>3 DEF RunsInTurn
  <2>6. \A i, j \in DOMAIN queue' : i < j => ~queue'[j].stale
    BY <1>1, <2>2 DEF RunsInTurn
  <2> QED BY <2>1, <2>3, <2>4, <2>5, <2>6 DEF RunsInTurn
<1>10. Kernel!RunsSeeTheirVariables'
  BY <1>1 DEF KernelInv, Kernel!RunsSeeTheirVariables
<1> QED BY <1>5, <1>6, <1>7, <1>8, <1>9, <1>10 DEF KernelInv

\* The loop is over, and the run that started the kernel, if any, is posted.
LEMMA KernelResumes ==
    ASSUME KernelTyped, tasks = Cardinality(RunsOn(wire)) + Len(queue),
           \A d \in Docs \ overtaken :
              NothingIsNewer(d) /\ ValuesInOrder(d) /\ RunsAreServed(d) /\ OnItsWay(d),
           overtaken = {} => RunsInTurn(status'), status' = "IDLE" => AllStale,
           Kernel!Resume(wire), kernel' = "ready", flushing' = <<>>,
           UNCHANGED <<queue, namespaces, latest, lost, overtaken>>
    PROVE  /\ wire' \in Seq(Injections \cup Runs) /\ tasks' \in Int
           /\ waiting' \in Docs \cup {None}
           /\ Served' /\ Counted' /\ StaleFirst'
<1>1. \A d \in Docs \ overtaken :
         (NothingIsNewer(d)' /\ ValuesInOrder(d)' /\ RunsAreServed(d)' /\ OnItsWay(d)')
            => NothingIsNewer(d)' /\ ValuesInOrder(d)' /\ RunsAreServed(d)' /\ LastIsOnItsWay(d)'
  BY DEF LastIsOnItsWay
<1>2. \A d : \A i \in DOMAIN flushing' : flushing'[i].doc = d => flushing'[i].value = latest[d]
  OBVIOUS
<1>3. CASE waiting = None
  <2>1. wire' = wire /\ tasks' = tasks /\ waiting' = waiting
    BY <1>3 DEF Kernel!Resume
  <2>2. Served'
    <3> SUFFICES ASSUME NEW d \in Docs \ overtaken
                 PROVE  NothingIsNewer(d)' /\ ValuesInOrder(d)' /\ RunsAreServed(d)' /\ OnItsWay(d)'
      BY <1>1 DEF Served
    <3>1. NothingIsNewer(d) /\ ValuesInOrder(d) /\ RunsAreServed(d) /\ OnItsWay(d)
      OBVIOUS
    <3>2. NothingIsNewer(d)'
      BY <2>1, <3>1 DEF NothingIsNewer
    <3>3. ValuesInOrder(d)'
      BY <1>2, <2>1, <3>1 DEF ValuesInOrder
    <3>4. RunsAreServed(d)'
      BY <2>1, <3>1 DEF RunsAreServed
    <3>5. OnItsWay(d)'
      BY <2>1, <3>1 DEF OnItsWay
    <3> QED BY <3>2, <3>3, <3>4, <3>5
  <2>3. Counted'
    BY <2>1 DEF Counted, AllStale
  <2>4. StaleFirst'
    BY <2>1 DEF StaleFirst, RunsInTurn
  <2> QED BY <2>1, <2>2, <2>3, <2>4 DEF KernelTyped
<1>4. CASE waiting # None
  <2> DEFINE m == Kernel!Run(waiting, TRUE)
             n == Len(wire)
  <2>1. wire' = Append(wire, m) /\ tasks' = tasks + 1 /\ waiting' = None
    BY <1>4 DEF Kernel!Resume
  <2>2. /\ m \in Runs /\ m.doc = waiting /\ m.stale = TRUE /\ m.wants = latest[waiting]
        /\ wire \in Seq(Injections \cup Runs) /\ tasks \in Int
    BY <1>4 DEF KernelTyped, Runs, Kernel!Run
  <2> HIDE DEF m
  <2>3. /\ wire' \in Seq(Injections \cup Runs)
        /\ RunsOn(wire') = RunsOn(wire) \cup {n + 1}
        /\ \A i \in RunsOn(wire) : wire'[i] = wire[i]
        /\ wire'[n + 1] = m /\ n \in Nat
        /\ Cardinality(RunsOn(wire')) = Cardinality(RunsOn(wire)) + 1
        /\ Cardinality(RunsOn(wire)) \in Nat
    <3>1. m \in Injections \cup Runs
      BY <2>2
    <3>2. \A i \in DOMAIN wire : wire'[i] = wire[i]
      BY <2>1, <2>2, <3>1, PostedMessage
    <3>3. \A i \in RunsOn(wire) : wire'[i] = wire[i]
      BY <3>2 DEF RunsOn
    <3> QED BY <2>1, <2>2, <3>1, <3>3, PostedMessage, RunsCounted
  <2> HIDE DEF n
  <2>4. Served'
    <3> SUFFICES ASSUME NEW d \in Docs \ overtaken
                 PROVE  NothingIsNewer(d)' /\ ValuesInOrder(d)' /\ RunsAreServed(d)' /\ OnItsWay(d)'
      BY <1>1 DEF Served
    <3>1. NothingIsNewer(d) /\ ValuesInOrder(d) /\ RunsAreServed(d) /\ OnItsWay(d)
      OBVIOUS
    <3>2. m.wants = latest[m.doc]
      BY <2>2
    <3> QED BY <1>2, <2>1, <2>2, <3>1, <3>2, RunPosted
  <2>5. Counted'
    <3>1. tasks' = Cardinality(RunsOn(wire')) + Len(queue')
      <4>1. Len(queue) \in Nat
        BY DEF KernelTyped
      <4> QED BY <2>1, <2>3, <4>1
    <3>2. AllStale => AllStale'
      BY <2>2, <2>3 DEF AllStale
    <3> QED BY <3>1, <3>2 DEF Counted
  <2>6. StaleFirst'
    <3> SUFFICES ASSUME overtaken = {} PROVE RunsInTurn(status)'
      BY DEF StaleFirst
    <3>1. status' = "IDLE" /\ queue' = <<>> /\ RunsOn(wire) = {}
      BY <1>4 DEF RunsInTurn
    <3>2. RunsOn(wire') = {n + 1} /\ DOMAIN queue' = {}
      BY <2>3, <3>1
    <3>3. ~(n + 1 < n + 1)
      BY <2>3
    <3> QED BY <2>1, <3>1, <3>2, <3>3 DEF RunsInTurn
  <2> QED BY <2>1, <2>2, <2>3, <2>4, <2>5, <2>6
<1> QED BY <1>3, <1>4

\* The kernel is there.
LEMMA KernelLoads ==
    ASSUME KernelInv, Kernel!Loaded
    PROVE  KernelInv'
<1>1. /\ kernel # "ready" /\ kernel' = "ready" /\ status' = "IDLE" /\ pending' = pending
      /\ queue' = queue /\ namespaces' = namespaces /\ latest' = latest /\ reads' = reads
      /\ lost' = lost /\ overtaken' = overtaken
  BY DEF Kernel!Loaded
<1>2. wire = <<>> /\ queue = <<>> /\ flushing = <<>> /\ tasks = 0
  BY <1>1 DEF KernelInv, NotYet
<1>3. /\ RunsOn(wire) = {} /\ \A d : ValuesOn(wire, d) = {}
      /\ DOMAIN queue = {} /\ DOMAIN wire = {} /\ Len(queue) = 0
  <2>1. DOMAIN wire = {} /\ DOMAIN queue = {} /\ Len(queue) = 0
    BY <1>2
  <2>2. RunsOn(wire) = {}
    BY <2>1 DEF RunsOn
  <2>3. \A d : ValuesOn(wire, d) = {}
    BY <2>1 DEF ValuesOn
  <2> QED BY <2>1, <2>2, <2>3
<1>4. Kernel!RunsSeeTheirVariables'
  BY <1>1 DEF KernelInv, Kernel!RunsSeeTheirVariables
<1>5. NotYet'
  BY <1>1 DEF NotYet
<1>6. \A d \in Docs \ overtaken : NothingIsNewer(d) /\ ValuesInOrder(d) /\ RunsAreServed(d)
  BY DEF KernelInv, Served
<1>7. AllStale /\ RunsInTurn("IDLE") /\ tasks = Cardinality(RunsOn(wire)) + Len(queue)
  <2>1. AllStale
    BY <1>3 DEF AllStale
  <2>2. RunsInTurn("IDLE")
    BY <1>2, <1>3 DEF RunsInTurn
  <2>3. tasks = Cardinality(RunsOn(wire)) + Len(queue)
    BY <1>2, <1>3, FS_EmptySet
  <2> QED BY <2>1, <2>2, <2>3
<1>8. CASE pending = <<>>
  <2>1. Kernel!Resume(wire) /\ flushing' = <<>>
    BY <1>2, <1>8 DEF Kernel!Loaded
  <2>2. \A d \in Docs : OnItsWay(d)
    <3> TAKE d \in Docs
    <3>1. namespaces[d] = latest[d] \/ d \in lost
      <4>1. DOMAIN pending = {}
        BY <1>8
      <4> QED BY <1>1, <4>1 DEF KernelInv, NotYet
    <3> QED BY <1>3, <3>1 DEF OnItsWay
  <2>3. /\ wire' \in Seq(Injections \cup Runs) /\ tasks' \in Int /\ waiting' \in Docs \cup {None}
        /\ Served' /\ Counted' /\ StaleFirst'
    BY <1>1, <1>6, <1>7, <2>1, <2>2, KernelResumes DEF KernelInv
  <2>4. KernelTyped'
    <3>1. flushing' \in Seq(Injections)
      BY <2>1
    <3> QED BY <1>1, <2>3, <3>1 DEF KernelInv, KernelTyped
  <2> QED BY <1>4, <1>5, <2>3, <2>4 DEF KernelInv
<1>9. CASE pending # <<>>
  <2> DEFINE m == Head(pending)
  <2>1. flushing' = Tail(pending) /\ wire' = Append(wire, m) /\ tasks' = tasks /\ waiting' = waiting
    BY <1>9 DEF Kernel!Loaded
  <2>2. pending \in Seq(Injections) /\ wire \in Seq(Injections \cup Runs)
    BY DEF KernelInv, KernelTyped
  <2>3. /\ m \in Injections /\ m = pending[1] /\ 1 \in DOMAIN pending
        /\ flushing' \in Seq(Injections)
        /\ \A i \in DOMAIN flushing' : i + 1 \in DOMAIN pending /\ flushing'[i] = pending[i + 1]
        /\ \A i \in DOMAIN pending : i = 1 \/ (i - 1 \in DOMAIN flushing' /\ pending[i] = flushing'[i - 1])
    BY <1>9, <2>1, <2>2
  <2> HIDE DEF m
  <2>4. wire' \in Seq(Injections \cup Runs) /\ RunsOn(wire') = RunsOn(wire)
    <3>1. m \in Injections \cup Runs
      BY <2>3
    <3> QED BY <2>1, <2>2, <2>3, <3>1, PostedMessage
  <2>5. KernelTyped'
    BY <1>1, <2>1, <2>3, <2>4 DEF KernelInv, KernelTyped
  <2>6. \A i \in DOMAIN pending : pending[i].value = latest[pending[i].doc]
    BY <1>1 DEF KernelInv, NotYet
  <2>7. Served'
    <3> SUFFICES ASSUME NEW d \in Docs \ overtaken
                 PROVE  /\ NothingIsNewer(d)' /\ ValuesInOrder(d)' /\ RunsAreServed(d)'
                        /\ LastIsOnItsWay(d)'
      BY <1>1 DEF Served
    <3>1. NothingIsNewer(d) /\ ValuesInOrder(d) /\ RunsAreServed(d)
      BY <1>6
    <3>2. m.doc = d => m.value = latest'[d]
      BY <1>1, <2>3, <2>6
    <3>3. \A i \in DOMAIN flushing' : flushing'[i].doc = d => flushing'[i].value = latest'[d]
      BY <1>1, <2>3, <2>6
    <3>4. latest' \in [Docs -> Nat] /\ latest[d] <= latest'[d] /\ latest'[d] = latest[d]
      <4>1. latest \in [Docs -> Nat] /\ latest[d] \in Nat
        BY DEF KernelInv, KernelTyped
      <4> QED BY <1>1, <4>1
    <3>5. /\ NothingIsNewer(d)' /\ ValuesInOrder(d)' /\ RunsAreServed(d)'
          /\ m.doc = d => OnItsWay(d)'
          /\ m.doc # d /\ latest'[d] = latest[d] /\ OnItsWay(d) => OnItsWay(d)'
      BY <1>1, <2>1, <2>3, <3>1, <3>2, <3>3, <3>4, ValuePosted DEF KernelInv
    <3>6. Kernel!Waits(d)' \/ OnItsWay(d)'
      <4>1. CASE \E i \in DOMAIN pending : pending[i].doc = d
        <5>1. PICK i \in DOMAIN pending : pending[i].doc = d
          BY <4>1
        <5>2. CASE i = 1
          BY <2>3, <3>5, <5>1, <5>2
        <5>3. CASE i # 1
          <6>1. i - 1 \in DOMAIN flushing' /\ flushing'[i - 1].doc = d
            BY <2>3, <5>1, <5>3
          <6> QED BY <6>1 DEF Kernel!Waits
        <5> QED BY <5>2, <5>3
      <4>2. CASE ~\E i \in DOMAIN pending : pending[i].doc = d
        <5>1. namespaces[d] = latest[d] \/ d \in lost
          BY <1>1, <4>2 DEF KernelInv, NotYet
        <5>2. OnItsWay(d) /\ m.doc # d
          BY <1>3, <2>3, <4>2, <5>1 DEF OnItsWay
        <5> QED BY <3>4, <3>5, <5>2
      <4> QED BY <4>1, <4>2
    <3> QED BY <3>5, <3>6 DEF LastIsOnItsWay
  <2>8. Counted'
    BY <1>1, <1>3, <1>7, <2>1, <2>4 DEF Counted, AllStale
  <2>9. StaleFirst'
    BY <1>1, <1>2, <1>3, <2>4 DEF StaleFirst, RunsInTurn
  <2> QED BY <1>4, <1>5, <2>5, <2>7, <2>8, <2>9 DEF KernelInv
<1> QED BY <1>8, <1>9

\* The next value is posted, or the loop is over.
LEMMA KernelFlushes ==
    ASSUME KernelInv, Kernel!Flushed
    PROVE  KernelInv'
<1>1. /\ kernel = "ready" /\ kernel' = "ready" /\ status' = status /\ queue' = queue
      /\ namespaces' = namespaces /\ latest' = latest /\ reads' = reads /\ lost' = lost
      /\ overtaken' = overtaken
  BY DEF Kernel!Flushed
<1>2. Kernel!RunsSeeTheirVariables'
  BY <1>1 DEF KernelInv, Kernel!RunsSeeTheirVariables
<1>3. NotYet'
  BY <1>1 DEF NotYet
<1>4. \A d \in Docs \ overtaken :
         NothingIsNewer(d) /\ ValuesInOrder(d) /\ RunsAreServed(d) /\ LastIsOnItsWay(d)
  BY DEF KernelInv, Served
<1>5. CASE flushing = <<>>
  <2>1. pending' = <<>> /\ Kernel!Resume(wire) /\ flushing' = <<>>
    BY <1>5 DEF Kernel!Flushed
  <2>2. \A d \in Docs \ overtaken : OnItsWay(d)
    <3>1. \A d : ~Kernel!Waits(d)
      BY <1>5 DEF Kernel!Waits
    <3> QED BY <1>1, <1>4, <3>1 DEF LastIsOnItsWay
  <2>3. tasks = Cardinality(RunsOn(wire)) + Len(queue) /\ (status' = "IDLE" => AllStale)
    BY <1>1 DEF KernelInv, Counted
  <2>4. overtaken = {} => RunsInTurn(status')
    BY <1>1 DEF KernelInv, StaleFirst
  <2>5. /\ wire' \in Seq(Injections \cup Runs) /\ tasks' \in Int /\ waiting' \in Docs \cup {None}
        /\ Served' /\ Counted' /\ StaleFirst'
    BY <1>1, <1>4, <2>1, <2>2, <2>3, <2>4, KernelResumes DEF KernelInv
  <2>6. KernelTyped'
    <3>1. flushing' \in Seq(Injections) /\ pending' \in Seq(Injections)
      BY <2>1
    <3> QED BY <1>1, <2>5, <3>1 DEF KernelInv, KernelTyped
  <2> QED BY <1>2, <1>3, <2>5, <2>6 DEF KernelInv
<1>6. CASE flushing # <<>>
  <2> DEFINE m == Head(flushing)
  <2>1. /\ flushing' = Tail(flushing) /\ wire' = Append(wire, m) /\ tasks' = tasks
        /\ waiting' = waiting /\ pending' = pending
    BY <1>6 DEF Kernel!Flushed
  <2>2. flushing \in Seq(Injections) /\ wire \in Seq(Injections \cup Runs)
    BY DEF KernelInv, KernelTyped
  <2>3. /\ m \in Injections /\ m = flushing[1] /\ 1 \in DOMAIN flushing
        /\ flushing' \in Seq(Injections)
        /\ \A i \in DOMAIN flushing' : i + 1 \in DOMAIN flushing /\ flushing'[i] = flushing[i + 1]
        /\ \A i \in DOMAIN flushing :
              i = 1 \/ (i - 1 \in DOMAIN flushing' /\ flushing[i] = flushing'[i - 1])
    BY <1>6, <2>1, <2>2
  <2> HIDE DEF m
  <2>4. /\ wire' \in Seq(Injections \cup Runs) /\ RunsOn(wire') = RunsOn(wire)
        /\ \A i \in RunsOn(wire) : wire'[i] = wire[i]
    <3>1. m \in Injections \cup Runs
      BY <2>3
    <3>2. \A i \in DOMAIN wire : wire'[i] = wire[i]
      BY <2>1, <2>2, <3>1, PostedMessage
    <3>3. \A i \in RunsOn(wire) : wire'[i] = wire[i]
      BY <3>2 DEF RunsOn
    <3> QED BY <2>1, <2>2, <2>3, <3>1, <3>3, PostedMessage
  <2>5. KernelTyped'
    BY <1>1, <2>1, <2>3, <2>4 DEF KernelInv, KernelTyped
  <2>6. Served'
    <3> SUFFICES ASSUME NEW d \in Docs \ overtaken
                 PROVE  /\ NothingIsNewer(d)' /\ ValuesInOrder(d)' /\ RunsAreServed(d)'
                        /\ LastIsOnItsWay(d)'
      BY <1>1 DEF Served
    <3>1. NothingIsNewer(d) /\ ValuesInOrder(d) /\ RunsAreServed(d) /\ LastIsOnItsWay(d)
      BY <1>4
    <3>2. \A i \in DOMAIN flushing : flushing[i].doc = d => flushing[i].value = latest[d]
      BY <3>1 DEF ValuesInOrder
    <3>3. m.doc = d => m.value = latest'[d]
      BY <1>1, <2>3, <3>2
    <3>4. \A i \in DOMAIN flushing' : flushing'[i].doc = d => flushing'[i].value = latest'[d]
      BY <1>1, <2>3, <3>2
    <3>5. latest' \in [Docs -> Nat] /\ latest[d] <= latest'[d] /\ latest'[d] = latest[d]
      <4>1. latest \in [Docs -> Nat] /\ latest[d] \in Nat
        BY DEF KernelInv, KernelTyped
      <4> QED BY <1>1, <4>1
    <3>6. /\ NothingIsNewer(d)' /\ ValuesInOrder(d)' /\ RunsAreServed(d)'
          /\ m.doc = d => OnItsWay(d)'
          /\ m.doc # d /\ latest'[d] = latest[d] /\ OnItsWay(d) => OnItsWay(d)'
      BY <1>1, <2>1, <2>3, <3>1, <3>3, <3>4, <3>5, ValuePosted DEF KernelInv
    <3>7. Kernel!Waits(d)' \/ OnItsWay(d)'
      <4>1. CASE m.doc = d
        BY <3>6, <4>1
      <4>2. CASE m.doc # d /\ Kernel!Waits(d)
        <5>1. PICK i \in DOMAIN flushing : flushing[i].doc = d
          BY <4>2 DEF Kernel!Waits
        <5>2. i # 1
          BY <2>3, <4>2, <5>1
        <5>3. i - 1 \in DOMAIN flushing' /\ flushing'[i - 1].doc = d
          BY <2>3, <5>1, <5>2
        <5> QED BY <5>3 DEF Kernel!Waits
      <4>3. CASE m.doc # d /\ OnItsWay(d)
        BY <3>5, <3>6, <4>3
      <4> QED BY <1>1, <3>1, <4>1, <4>2, <4>3 DEF LastIsOnItsWay
    <3> QED BY <3>6, <3>7 DEF LastIsOnItsWay
  <2>7. Counted'
    <3>1. AllStale => AllStale'
      BY <1>1, <2>1, <2>4, SameRuns
    <3> QED BY <1>1, <2>1, <2>4, <3>1 DEF KernelInv, Counted
  <2>8. StaleFirst'
    BY <1>1, <2>1, <2>4 DEF KernelInv, StaleFirst, RunsInTurn
  <2> QED BY <1>2, <1>3, <2>5, <2>6, <2>7, <2>8 DEF KernelInv
<1> QED BY <1>5, <1>6

\* The worker takes the next message.
LEMMA KernelTakes ==
    ASSUME KernelInv, Kernel!Take
    PROVE  KernelInv'
<1> DEFINE m == wire[1]
<1>1. /\ wire # <<>> /\ wire' = Tail(wire) /\ status' = status /\ kernel' = kernel
      /\ tasks' = tasks /\ waiting' = waiting /\ pending' = pending /\ flushing' = flushing
      /\ latest' = latest /\ reads' = reads /\ overtaken' = overtaken
  BY DEF Kernel!Take
<1>2. /\ wire \in Seq(Injections \cup Runs) /\ queue \in Seq(Runs) /\ tasks \in Int
      /\ latest \in [Docs -> Nat] /\ namespaces \in [Docs -> Nat]
  BY DEF KernelInv, KernelTyped
<1>3. /\ wire' \in Seq(Injections \cup Runs) /\ Head(wire) = m /\ m \in Injections \cup Runs
      /\ 1 \in DOMAIN wire
      /\ \A i \in RunsOn(wire') : i \in Nat /\ i > 0 /\ i + 1 \in RunsOn(wire) /\ wire'[i] = wire[i + 1]
      /\ \A i \in RunsOn(wire) : i = 1 \/ (i \in Nat /\ i - 1 \in RunsOn(wire') /\ wire[i] = wire'[i - 1])
  BY <1>1, <1>2, TakenMessage
<1>4. /\ Cardinality(RunsOn(wire)) \in Nat
      /\ Cardinality(RunsOn(wire')) =
           IF m \in Runs THEN Cardinality(RunsOn(wire)) - 1 ELSE Cardinality(RunsOn(wire))
  BY <1>1, <1>2, RunsCounted
<1>5. kernel = "ready"
  BY <1>1 DEF KernelInv, NotYet
<1>6. NotYet'
  BY <1>1, <1>5 DEF NotYet
<1>7. Kernel!RunsSeeTheirVariables'
  BY <1>1 DEF KernelInv, Kernel!RunsSeeTheirVariables
<1>8. \A d \in Docs \ overtaken :
         NothingIsNewer(d) /\ ValuesInOrder(d) /\ RunsAreServed(d) /\ LastIsOnItsWay(d)
  BY DEF KernelInv, Served
<1>9. \A i, j \in RunsOn(wire') : i < j => i + 1 < j + 1
  <2> TAKE i, j \in RunsOn(wire')
  <2>1. i \in Nat /\ j \in Nat
    BY <1>3
  <2> QED BY <2>1
<1>10. \A i \in RunsOn(wire') : 1 < i + 1
  <2> TAKE i \in RunsOn(wire')
  <2>1. i \in Nat /\ i > 0
    BY <1>3
  <2> QED BY <2>1
<1> HIDE DEF m
<1>11. CASE m \in Injections
  <2>1. /\ namespaces' = [namespaces EXCEPT ![m.doc] = m.value]
        /\ lost' = lost \ {m.doc} /\ queue' = queue
    <3>1. "value" \in DOMAIN m
      BY <1>11, MessageKinds
    <3> QED BY <1>3, <3>1 DEF Kernel!Take
  <2>2. KernelTyped'
    <3>1. m.value \in Nat
      BY <1>11 DEF Injections
    <3>2. namespaces' \in [Docs -> Nat]
      BY <1>2, <2>1, <3>1
    <3> QED BY <1>1, <1>3, <2>1, <3>2 DEF KernelInv, KernelTyped
  <2>3. Served'
    <3> SUFFICES ASSUME NEW d \in Docs \ overtaken
                 PROVE  /\ NothingIsNewer(d)' /\ ValuesInOrder(d)' /\ RunsAreServed(d)'
                        /\ LastIsOnItsWay(d)'
      BY <1>1 DEF Served
    <3>1. NothingIsNewer(d) /\ ValuesInOrder(d) /\ RunsAreServed(d) /\ LastIsOnItsWay(d)
      BY <1>8
    <3>2. /\ NothingIsNewer(d)' /\ ValuesInOrder(d)' /\ RunsAreServed(d)'
          /\ OnItsWay(d) => OnItsWay(d)'
      BY <1>1, <1>11, <2>1, <3>1, ValueTaken DEF KernelInv, m
    <3>3. Kernel!Waits(d)' <=> Kernel!Waits(d)
      BY <1>1 DEF Kernel!Waits
    <3>4. LastIsOnItsWay(d)'
      BY <1>1, <3>1, <3>2, <3>3 DEF LastIsOnItsWay
    <3> QED BY <3>2, <3>4
  <2>4. m \notin Runs /\ 1 \notin RunsOn(wire)
    BY <1>11, MessageKinds DEF RunsOn, m
  <2>5. Counted'
    <3>1. AllStale => AllStale'
      BY <1>3, <2>1 DEF AllStale
    <3> QED BY <1>1, <1>4, <2>1, <2>4, <3>1 DEF KernelInv, Counted
  <2>6. StaleFirst'
    <3> SUFFICES ASSUME overtaken = {} PROVE RunsInTurn(status)'
      BY <1>1 DEF StaleFirst
    <3>1. RunsInTurn(status)
      BY <1>5 DEF KernelInv, StaleFirst
    <3>2. waiting' # None => status' = "IDLE" /\ queue' = <<>> /\ RunsOn(wire') = {}
      BY <1>1, <1>3, <2>1, <3>1 DEF RunsInTurn
    <3>3. \A i, j \in DOMAIN queue' : i < j => ~queue'[j].stale
      BY <2>1, <3>1 DEF RunsInTurn
    <3>4. \A j \in RunsOn(wire') : queue' # <<>> => ~wire'[j].stale
      BY <1>3, <2>1, <3>1 DEF RunsInTurn
    <3>5. \A i, j \in RunsOn(wire') : i < j => ~wire'[j].stale
      <4> TAKE i, j \in RunsOn(wire')
      <4>1. i + 1 \in RunsOn(wire) /\ j + 1 \in RunsOn(wire) /\ wire'[j] = wire[j + 1]
        BY <1>3
      <4> QED BY <1>9, <3>1, <4>1 DEF RunsInTurn
    <3>6. status' # "IDLE" => \/ \E i \in DOMAIN queue' : ~queue'[i].stale
                              \/ \E i \in RunsOn(wire') : ~wire'[i].stale
      <4>1. \A i \in RunsOn(wire) : i - 1 \in RunsOn(wire') /\ wire[i] = wire'[i - 1]
        BY <1>3, <2>4
      <4> QED BY <1>1, <2>1, <3>1, <4>1 DEF RunsInTurn
    <3> QED BY <3>2, <3>3, <3>4, <3>5, <3>6 DEF RunsInTurn
  <2> QED BY <1>6, <1>7, <2>2, <2>3, <2>5, <2>6 DEF KernelInv
<1>12. CASE m \in Runs
  <2> DEFINE n == Len(queue)
  <2>1. queue' = Append(queue, m) /\ namespaces' = namespaces /\ lost' = lost
    <3>1. "value" \notin DOMAIN m
      BY <1>12, MessageKinds
    <3> QED BY <1>3, <3>1 DEF Kernel!Take
  <2>2. /\ queue' \in Seq(Runs) /\ Len(queue') = n + 1 /\ n \in Nat
        /\ DOMAIN queue' = DOMAIN queue \cup {n + 1}
        /\ \A i \in DOMAIN queue : queue'[i] = queue[i] /\ i \in Nat /\ i < n + 1
        /\ queue'[n + 1] = m /\ n + 1 \in DOMAIN queue'
        /\ \A i \in DOMAIN queue : queue # <<>>
    BY <1>2, <1>12, <2>1
  <2> HIDE DEF n
  <2>3. KernelTyped'
    BY <1>1, <1>3, <2>1, <2>2 DEF KernelInv, KernelTyped
  <2>4. Served'
    <3> SUFFICES ASSUME NEW d \in Docs \ overtaken
                 PROVE  /\ NothingIsNewer(d)' /\ ValuesInOrder(d)' /\ RunsAreServed(d)'
                        /\ LastIsOnItsWay(d)'
      BY <1>1 DEF Served
    <3>1. NothingIsNewer(d) /\ ValuesInOrder(d) /\ RunsAreServed(d) /\ LastIsOnItsWay(d)
      BY <1>8
    <3>2. /\ NothingIsNewer(d)' /\ ValuesInOrder(d)' /\ RunsAreServed(d)'
          /\ OnItsWay(d) => OnItsWay(d)'
      BY <1>1, <1>12, <2>1, <3>1, RunTaken DEF KernelInv, m
    <3>3. Kernel!Waits(d)' <=> Kernel!Waits(d)
      BY <1>1 DEF Kernel!Waits
    <3>4. LastIsOnItsWay(d)'
      BY <1>1, <3>1, <3>2, <3>3 DEF LastIsOnItsWay
    <3> QED BY <3>2, <3>4
  <2>5. 1 \in RunsOn(wire)
    BY <1>3, <1>12 DEF RunsOn, m
  <2>6. Counted'
    <3>1. AllStale => AllStale'
      <4> SUFFICES ASSUME AllStale PROVE AllStale'
        OBVIOUS
      <4>1. m.stale
        BY <2>5 DEF AllStale, m
      <4>2. \A i \in DOMAIN queue' : queue'[i].stale
        BY <2>2, <4>1 DEF AllStale
      <4>3. \A i \in RunsOn(wire') : wire'[i].stale
        BY <1>3 DEF AllStale
      <4> QED BY <4>2, <4>3 DEF AllStale
    <3>2. tasks = Cardinality(RunsOn(wire)) + n
      BY DEF KernelInv, Counted, n
    <3>3. tasks' = Cardinality(RunsOn(wire')) + Len(queue')
      BY <1>1, <1>4, <1>12, <2>2, <3>2
    <3> QED BY <1>1, <3>1, <3>3 DEF KernelInv, Counted
  <2>7. StaleFirst'
    <3> SUFFICES ASSUME overtaken = {} PROVE RunsInTurn(status)'
      BY <1>1 DEF StaleFirst
    <3>1. RunsInTurn(status)
      BY <1>5 DEF KernelInv, StaleFirst
    <3>2. waiting' = None
      BY <1>1, <2>5, <3>1 DEF RunsInTurn
    <3>3. \A i, j \in DOMAIN queue' : i < j => ~queue'[j].stale
      <4> TAKE i, j \in DOMAIN queue'
      <4>1. ASSUME i < j, j \in DOMAIN queue
            PROVE  ~queue'[j].stale
        <5>1. i # n + 1
          BY <2>2, <4>1
        <5>2. i \in DOMAIN queue
          BY <2>2, <5>1
        <5> QED BY <2>2, <3>1, <4>1, <5>2 DEF RunsInTurn
      <4>2. ASSUME i < j, j = n + 1
            PROVE  ~queue'[j].stale
        <5>1. i # n + 1
          BY <2>2, <4>2
        <5>2. queue # <<>>
          BY <2>2, <5>1
        <5> QED BY <2>2, <2>5, <3>1, <4>2, <5>2 DEF RunsInTurn, m
      <4> QED BY <2>2, <4>1, <4>2
    <3>4. \A j \in RunsOn(wire') : ~wire'[j].stale
      <4> TAKE j \in RunsOn(wire')
      <4>1. j + 1 \in RunsOn(wire) /\ wire'[j] = wire[j + 1] /\ 1 < j + 1
        BY <1>3, <1>10
      <4> QED BY <2>5, <3>1, <4>1 DEF RunsInTurn
    <3>5. status' # "IDLE" => \/ \E i \in DOMAIN queue' : ~queue'[i].stale
                              \/ \E i \in RunsOn(wire') : ~wire'[i].stale
      <4> SUFFICES ASSUME status # "IDLE"
                   PROVE  \/ \E i \in DOMAIN queue' : ~queue'[i].stale
                          \/ \E i \in RunsOn(wire') : ~wire'[i].stale
        BY <1>1
      <4>1. CASE \E i \in DOMAIN queue : ~queue[i].stale
        BY <2>2, <4>1
      <4>2. ASSUME NEW i \in RunsOn(wire), ~wire[i].stale
            PROVE  \/ \E k \in DOMAIN queue' : ~queue'[k].stale
                   \/ \E k \in RunsOn(wire') : ~wire'[k].stale
        <5>1. CASE i = 1
          BY <2>2, <4>2, <5>1 DEF m
        <5>2. CASE i # 1
          BY <1>3, <4>2, <5>2
        <5> QED BY <5>1, <5>2
      <4> QED BY <3>1, <4>1, <4>2 DEF RunsInTurn
    <3> QED BY <3>2, <3>3, <3>4, <3>5 DEF RunsInTurn
  <2> QED BY <1>6, <1>7, <2>3, <2>4, <2>6, <2>7 DEF KernelInv
<1> QED BY <1>3, <1>11, <1>12

\* A run is over.
LEMMA KernelRunEnds ==
    ASSUME KernelInv, Kernel!RunEnds
    PROVE  KernelInv'
<1> DEFINE r == queue[1]
<1>1. /\ queue # <<>> /\ queue' = Tail(queue) /\ tasks' = tasks - 1 /\ Head(queue) = r
      /\ status' = Kernel!Updated(tasks', r.stale)
      /\ reads' = reads \cup {[doc |-> r.doc, wants |-> r.wants, got |-> namespaces[r.doc],
                               excused |-> r.doc \in lost \cup overtaken]}
      /\ kernel' = kernel /\ waiting' = waiting /\ pending' = pending /\ flushing' = flushing
      /\ wire' = wire /\ namespaces' = namespaces /\ latest' = latest /\ lost' = lost
      /\ overtaken' = overtaken
  BY DEF Kernel!RunEnds
<1>2. /\ wire \in Seq(Injections \cup Runs) /\ queue \in Seq(Runs) /\ tasks \in Int
      /\ namespaces \in [Docs -> Nat]
  BY DEF KernelInv, KernelTyped
<1>3. /\ queue' \in Seq(Runs) /\ Len(queue') = Len(queue) - 1 /\ 1 \in DOMAIN queue
      /\ Len(queue) \in Nat /\ Len(queue') \in Nat /\ r \in Runs
      /\ DOMAIN queue' = 1..Len(queue')
      /\ \A i \in DOMAIN queue' :
            i \in Nat /\ i + 1 \in DOMAIN queue /\ queue'[i] = queue[i + 1] /\ 1 < i + 1
      /\ \A i \in DOMAIN queue : i = 1 \/ (i - 1 \in DOMAIN queue' /\ queue[i] = queue'[i - 1])
  BY <1>1, <1>2
<1> HIDE DEF r
<1>4. kernel = "ready"
  BY <1>1 DEF KernelInv, NotYet
<1>5. NotYet'
  BY <1>1, <1>4 DEF NotYet
<1>6. Cardinality(RunsOn(wire)) \in Nat /\ (Cardinality(RunsOn(wire)) = 0 => RunsOn(wire) = {})
  BY <1>2, RunsCounted
<1>7. /\ tasks' = Cardinality(RunsOn(wire')) + Len(queue') /\ tasks' \in Nat
  <2>1. tasks = Cardinality(RunsOn(wire)) + Len(queue)
    BY DEF KernelInv, Counted
  <2> QED BY <1>1, <1>3, <1>6, <2>1
<1>8. KernelTyped'
  <2>1. status' \in {"UNINITIALIZED", "INITIALIZING", "IDLE", "BUSY"}
    BY <1>1 DEF KernelInv, KernelTyped, Kernel!Updated
  <2>2. tasks' \in Int
    BY <1>7
  <2> QED BY <1>1, <1>3, <2>1, <2>2 DEF KernelInv, KernelTyped
<1>9. \A d \in Docs \ overtaken :
         NothingIsNewer(d) /\ ValuesInOrder(d) /\ RunsAreServed(d) /\ LastIsOnItsWay(d)
  BY DEF KernelInv, Served
<1>10. Served'
  <2> SUFFICES ASSUME NEW d \in Docs \ overtaken
               PROVE  /\ NothingIsNewer(d)' /\ ValuesInOrder(d)' /\ RunsAreServed(d)'
                      /\ LastIsOnItsWay(d)'
    BY <1>1 DEF Served
  <2>1. NothingIsNewer(d) /\ ValuesInOrder(d) /\ RunsAreServed(d) /\ LastIsOnItsWay(d)
    BY <1>9
  <2>2. /\ NothingIsNewer(d)' /\ ValuesInOrder(d)' /\ RunsAreServed(d)'
        /\ OnItsWay(d) => OnItsWay(d)'
    BY <1>1, <2>1, RunOver DEF KernelInv
  <2>3. Kernel!Waits(d)' <=> Kernel!Waits(d)
    BY <1>1 DEF Kernel!Waits
  <2>4. LastIsOnItsWay(d)'
    BY <1>1, <2>1, <2>2, <2>3 DEF LastIsOnItsWay
  <2> QED BY <2>2, <2>4
<1>11. Kernel!RunsSeeTheirVariables'
  <2>1. namespaces[r.doc] >= r.wants \/ r.doc \in lost \cup overtaken
    <3> SUFFICES ASSUME r.doc \notin overtaken PROVE r.wants <= namespaces[r.doc] \/ r.doc \in lost
      <4>1. r.doc \in Docs /\ r.wants \in Nat /\ namespaces[r.doc] \in Nat
        BY <1>2, <1>3 DEF Runs
      <4> QED BY <4>1
    <3>1. r.doc \in Docs \ overtaken
      BY <1>3 DEF Runs
    <3>2. RunsAreServed(r.doc)
      BY <1>9, <3>1
    <3> QED BY <1>3, <3>2 DEF RunsAreServed, r
  <2> DEFINE read == [doc |-> r.doc, wants |-> r.wants, got |-> namespaces[r.doc],
                      excused |-> r.doc \in lost \cup overtaken]
  <2>2. read.got >= read.wants \/ read.excused
    BY <2>1
  <2>3. reads' = reads \cup {read}
    BY <1>1
  <2> HIDE DEF read
  <2> QED BY <2>2, <2>3 DEF KernelInv, Kernel!RunsSeeTheirVariables
<1>12. Counted'
  <2> SUFFICES ASSUME status' = "IDLE" PROVE AllStale'
    BY <1>7 DEF Counted
  <2>1. CASE r.stale
    <3>1. AllStale
      BY <1>1, <2>1 DEF KernelInv, Counted, Kernel!Updated
    <3> QED BY <1>1, <1>3, <3>1 DEF AllStale
  <2>2. CASE ~r.stale
    <3>1. ~(tasks' > 0)
      BY <1>1, <2>2 DEF Kernel!Updated
    <3>2. Cardinality(RunsOn(wire)) = 0 /\ Len(queue') = 0
      BY <1>1, <1>3, <1>6, <1>7, <3>1
    <3>3. DOMAIN queue' = {} /\ RunsOn(wire') = {}
      BY <1>1, <1>3, <1>6, <3>2
    <3> QED BY <3>3 DEF AllStale
  <2> QED BY <2>1, <2>2
<1>13. StaleFirst'
  <2> SUFFICES ASSUME overtaken = {} PROVE RunsInTurn(status)'
    BY <1>1 DEF StaleFirst
  <2>1. RunsInTurn(status)
    BY <1>4 DEF KernelInv, StaleFirst
  <2>2. waiting' = None
    BY <1>1, <2>1 DEF RunsInTurn
  <2>3. \A i, j \in DOMAIN queue' : i < j => ~queue'[j].stale
    <3> TAKE i, j \in DOMAIN queue'
    <3>1. j + 1 \in DOMAIN queue /\ queue'[j] = queue[j + 1] /\ 1 < j + 1
      BY <1>3
    <3> QED BY <1>3, <2>1, <3>1 DEF RunsInTurn
  <2>4. \A j \in RunsOn(wire') : ~wire'[j].stale
    BY <1>1, <2>1 DEF RunsInTurn
  <2>5. status' # "IDLE" => \/ \E i \in DOMAIN queue' : ~queue'[i].stale
                            \/ \E i \in RunsOn(wire') : ~wire'[i].stale
    <3> SUFFICES ASSUME status' # "IDLE"
                 PROVE  \/ \E i \in DOMAIN queue' : ~queue'[i].stale
                        \/ \E i \in RunsOn(wire') : ~wire'[i].stale
      OBVIOUS
    <3>1. CASE r.stale
      <4>1. status # "IDLE"
        BY <1>1, <3>1 DEF Kernel!Updated
      <4>2. CASE \E i \in DOMAIN queue : ~queue[i].stale
        <5>1. PICK i \in DOMAIN queue : ~queue[i].stale
          BY <4>2
        <5>2. i # 1
          BY <3>1, <5>1 DEF r
        <5> QED BY <1>3, <5>1, <5>2
      <4>3. CASE \E i \in RunsOn(wire) : ~wire[i].stale
        BY <1>1, <4>3
      <4> QED BY <2>1, <4>1, <4>2, <4>3 DEF RunsInTurn
    <3>2. CASE ~r.stale
      <4>1. tasks' > 0
        BY <1>1, <3>2 DEF Kernel!Updated
      <4>2. Len(queue') > 0 \/ Cardinality(RunsOn(wire)) # 0
        BY <1>1, <1>3, <1>6, <1>7, <4>1
      <4>3. CASE Len(queue') > 0
        <5>1. 1 \in DOMAIN queue'
          BY <1>3, <4>3
        <5>2. 1 + 1 \in DOMAIN queue /\ queue'[1] = queue[1 + 1] /\ 1 < 1 + 1
          BY <1>3, <5>1
        <5>3. ~queue[1 + 1].stale
          BY <1>3, <2>1, <5>2 DEF RunsInTurn
        <5> QED BY <5>1, <5>2, <5>3
      <4>4. CASE Cardinality(RunsOn(wire)) # 0
        <5>1. RunsOn(wire) # {}
          BY <4>4, FS_EmptySet
        <5> QED BY <1>1, <2>4, <5>1
      <4> QED BY <4>2, <4>3, <4>4
    <3> QED BY <3>1, <3>2
  <2> QED BY <2>2, <2>3, <2>4, <2>5 DEF RunsInTurn
<1> QED BY <1>5, <1>8, <1>10, <1>11, <1>12, <1>13 DEF KernelInv

LEMMA KernelSteps == KernelInv /\ [Kernel!Next]_(Kernel!kvars) => KernelInv'
<1> SUFFICES ASSUME KernelInv, [Kernel!Next]_(Kernel!kvars)
             PROVE  KernelInv'
  OBVIOUS
<1>1. CASE Kernel!GetNamespaceInfo
  BY <1>1, KernelStarts DEF Kernel!GetNamespaceInfo
<1>2. ASSUME NEW d \in Docs, Kernel!Inject(d)
      PROVE  KernelInv'
  BY <1>2, KernelInjects
<1>3. ASSUME NEW d \in Docs, Kernel!RunStarts(d) \/ Kernel!RunGivenUp(d)
      PROVE  KernelInv'
  BY <1>3, KernelStarts DEF Kernel!RunStarts
<1>4. ASSUME NEW d \in Docs, Kernel!RunNow(d)
      PROVE  KernelInv'
  BY <1>4, KernelRuns
<1>5. CASE Kernel!Loaded
  BY <1>5, KernelLoads
<1>6. CASE Kernel!Flushed
  BY <1>6, KernelFlushes
<1>7. CASE Kernel!LoadFails
  BY <1>7, KernelFails
<1>8. CASE Kernel!Take
  BY <1>8, KernelTakes
<1>9. CASE Kernel!RunEnds
  BY <1>9, KernelRunEnds
<1>10. CASE UNCHANGED Kernel!kvars
  <2>1. /\ status' = status /\ kernel' = kernel /\ tasks' = tasks /\ waiting' = waiting
        /\ pending' = pending /\ flushing' = flushing /\ wire' = wire /\ queue' = queue
        /\ namespaces' = namespaces /\ latest' = latest /\ reads' = reads /\ lost' = lost
        /\ overtaken' = overtaken
    BY <1>10 DEF Kernel!kvars
  <2>2. KernelTyped' /\ NotYet'
    BY <2>1 DEF KernelInv, KernelTyped, NotYet
  <2>3. Served'
    <3> SUFFICES ASSUME NEW d \in Docs \ overtaken
                 PROVE  /\ NothingIsNewer(d)' /\ ValuesInOrder(d)' /\ RunsAreServed(d)'
                        /\ LastIsOnItsWay(d)'
      BY <2>1 DEF Served
    <3>1. NothingIsNewer(d) /\ ValuesInOrder(d) /\ RunsAreServed(d) /\ LastIsOnItsWay(d)
      BY DEF KernelInv, Served
    <3>2. NothingIsNewer(d)' /\ ValuesInOrder(d)' /\ RunsAreServed(d)'
      BY <2>1, <3>1 DEF NothingIsNewer, ValuesInOrder, RunsAreServed
    <3>3. OnItsWay(d)' <=> OnItsWay(d)
      BY <2>1 DEF OnItsWay
    <3>4. LastIsOnItsWay(d)'
      BY <2>1, <3>1, <3>3 DEF LastIsOnItsWay, Kernel!Waits
    <3> QED BY <3>2, <3>4
  <2>4. Counted' /\ StaleFirst'
    BY <2>1 DEF KernelInv, Counted, AllStale, StaleFirst, RunsInTurn
  <2>5. Kernel!RunsSeeTheirVariables'
    BY <2>1 DEF KernelInv, Kernel!RunsSeeTheirVariables
  <2> QED BY <2>2, <2>3, <2>4, <2>5 DEF KernelInv
<1> QED BY <1>1, <1>2, <1>3, <1>4, <1>5, <1>6, <1>7, <1>8, <1>9, <1>10 DEF Kernel!Next

LEMMA KernelInitially == Kernel!Init => KernelInv
<1> SUFFICES ASSUME Kernel!Init PROVE KernelInv
  OBVIOUS
<1>1. /\ status = "UNINITIALIZED" /\ kernel = "none" /\ tasks = 0 /\ waiting = None
      /\ pending = <<>> /\ flushing = <<>> /\ wire = <<>> /\ queue = <<>> /\ reads = {}
      /\ namespaces = [d \in Docs |-> 0] /\ latest = [d \in Docs |-> 0]
  BY DEF Kernel!Init
<1>2. DOMAIN wire = {} /\ DOMAIN queue = {} /\ DOMAIN flushing = {} /\ DOMAIN pending = {}
      /\ Len(queue) = 0
  BY <1>1
<1>3. RunsOn(wire) = {} /\ \A d : ValuesOn(wire, d) = {}
  <2>1. RunsOn(wire) = {}
    BY <1>2 DEF RunsOn
  <2>2. \A d : ValuesOn(wire, d) = {}
    BY <1>2 DEF ValuesOn
  <2> QED BY <2>1, <2>2
<1>4. KernelTyped
  BY <1>1 DEF KernelTyped
<1>5. NotYet
  BY <1>1, <1>2 DEF NotYet
<1>6. Served
  BY <1>1, <1>2, <1>3 DEF Served, NothingIsNewer, ValuesInOrder, RunsAreServed, LastIsOnItsWay
<1>7. Counted /\ StaleFirst
  BY <1>1, <1>2, <1>3, FS_EmptySet DEF Counted, AllStale, StaleFirst
<1>8. Kernel!RunsSeeTheirVariables
  BY <1>1 DEF Kernel!RunsSeeTheirVariables
<1> QED BY <1>4, <1>5, <1>6, <1>7, <1>8 DEF KernelInv

LEMMA KernelIsServed == KernelInv => KernelServesItsRuns
<1> SUFFICES ASSUME KernelInv PROVE Kernel!StatusTellsTheTruth
  BY DEF KernelServesItsRuns, Kernel!KernelServesItsRuns, KernelInv
<1> SUFFICES ASSUME kernel = "ready"
             PROVE  /\ tasks = 0 => status = "IDLE" \/ overtaken # {}
                    /\ status = "IDLE" => \A i \in DOMAIN queue : queue[i].stale
  BY DEF Kernel!StatusTellsTheTruth
<1>1. ASSUME tasks = 0, overtaken = {}
      PROVE  status = "IDLE"
  <2>1. /\ wire \in Seq(Injections \cup Runs) /\ Len(queue) \in Nat /\ DOMAIN queue = 1..Len(queue)
    BY DEF KernelInv, KernelTyped
  <2>2. Cardinality(RunsOn(wire)) \in Nat /\ (Cardinality(RunsOn(wire)) = 0 => RunsOn(wire) = {})
    BY <2>1, RunsCounted
  <2>3. tasks = Cardinality(RunsOn(wire)) + Len(queue)
    BY DEF KernelInv, Counted
  <2>4. Cardinality(RunsOn(wire)) = 0 /\ Len(queue) = 0
    BY <1>1, <2>1, <2>2, <2>3
  <2>5. RunsOn(wire) = {} /\ DOMAIN queue = {}
    BY <2>1, <2>2, <2>4
  <2> QED BY <1>1, <2>5 DEF KernelInv, StaleFirst, RunsInTurn
<1>2. status = "IDLE" => \A i \in DOMAIN queue : queue[i].stale
  BY DEF KernelInv, Counted, AllStale
<1> QED BY <1>1, <1>2

\* A Python cell that is run reads the variables of its document as they were
\* when it was run, or newer ones, and the kernel's status tells whether it
\* works, but when the kernel failed to load in between or the run or the
\* change overtook the loop that sends what waited.
THEOREM RunsAreServedRight == Spec => []KernelServesItsRuns
<1> QED BY KernelInitially, KernelSteps, KernelIsServed, PartsRunByThemselves, PTL
        DEF Kernel!Spec

-----------------------------------------------------------------------------
(* SqlStatements: symbol by symbol, the lexer is where a reader of the query  *)
(* is, and its tokens are what there is to read.                             *)

\* Every nonempty set of numbers has a least element.
LEMMA LeastNat ==
    ASSUME NEW T, T \subseteq Nat, T # {}
    PROVE  \E n \in T : \A m \in T : n <= m
<1> DEFINE R == OpToRel(<, Nat)
<1>1. IsWellFoundedOn(R, Nat)
  BY NatLessThanWellFounded
<1>2. \A x, y \in Nat : <<x, y>> \in R <=> x < y
  BY DEF OpToRel
<1> HIDE DEF R
<1>3. PICK n \in T : \A m \in T : <<m, n>> \notin R
  BY <1>1, WFMin
<1>4. \A m \in T : n <= m
  <2> TAKE m \in T
  <2>1. m \in Nat /\ n \in Nat
    OBVIOUS
  <2>2. ~ (m < n)
    BY <1>2, <1>3, <2>1
  <2> QED
    BY <2>1, <2>2
<1> QED
  BY <1>4

\* Induction over the numbers, for the members of a set.
LEMMA NatInduct ==
    ASSUME NEW S, 0 \in S, \A n \in Nat : n \in S => n + 1 \in S
    PROVE  Nat \subseteq S
<1> DEFINE T == Nat \ S
<1>1. SUFFICES ASSUME T # {} PROVE FALSE
  OBVIOUS
<1>2. PICK n \in T : \A m \in T : n <= m
  BY <1>1, LeastNat
<1>3. n # 0 /\ n - 1 \in Nat /\ n - 1 \notin T /\ n = (n - 1) + 1
  BY <1>2
<1> QED
  BY <1>3

\* Run of a query is what its equation says.
LEMMA SqlRunEquation ==
    ASSUME NEW q \in Seq(Sql!Symbols)
    PROVE  /\ Sql!Run(q)[0] = [mode |-> "base", at |-> 0, tokens |-> <<>>]
           /\ \A i \in 1..Len(q) : Sql!Run(q)[i] = Sql!Scan(q, Sql!Run(q)[i - 1], i)
<1> DEFINE start == [mode |-> "base", at |-> 0, tokens |-> <<>>]
           IsRun(f, n) == f = [i \in 0..n |-> IF i = 0 THEN start
                                              ELSE Sql!Scan(q, f[i - 1], i)]
           S == {n \in Nat : \E f : IsRun(f, n)}
<1>1. 0 \in S
  <2>1. IsRun([i \in 0..0 |-> start], 0)
    OBVIOUS
  <2> QED
    BY <2>1
<1>2. ASSUME NEW n \in Nat, n \in S PROVE n + 1 \in S
  <2>1. PICK f : IsRun(f, n)
    BY <1>2
  <2> DEFINE g == [i \in 0..(n + 1) |-> IF i = n + 1 THEN Sql!Scan(q, f[n], n + 1) ELSE f[i]]
  <2>2. ASSUME NEW i \in 0..(n + 1)
        PROVE  g[i] = IF i = 0 THEN start ELSE Sql!Scan(q, g[i - 1], i)
    <3>1. CASE i = 0
      BY <2>1, <3>1
    <3>2. CASE i = n + 1
      BY <3>2
    <3>3. CASE i # 0 /\ i # n + 1
      <4>1. i \in 0..n /\ i - 1 \in 0..n /\ i - 1 # n + 1 /\ i - 1 \in 0..(n + 1)
        BY <3>3
      <4>2. f[i] = Sql!Scan(q, f[i - 1], i)
        BY <2>1, <3>3, <4>1
      <4>3. g[i] = f[i] /\ g[i - 1] = f[i - 1]
        BY <3>3, <4>1
      <4> QED
        BY <3>3, <4>2, <4>3
    <3> QED
      BY <3>1, <3>2, <3>3
  <2>3. IsRun(g, n + 1)
    BY <2>2
  <2> HIDE DEF g, IsRun
  <2> QED
    BY <2>3
<1>3. Len(q) \in Nat
  OBVIOUS
<1>4. PICK f : IsRun(f, Len(q))
  <2> HIDE DEF IsRun
  <2>1. Nat \subseteq S
    <3> HIDE DEF S
    <3> QED
      BY <1>1, <1>2, NatInduct
  <2> QED
    BY <1>3, <2>1
<1>5. Sql!Run(q) = CHOOSE h : IsRun(h, Len(q))
  BY DEF Sql!Run
<1>6. IsRun(Sql!Run(q), Len(q))
  <2> HIDE DEF IsRun
  <2> QED
    BY <1>4, <1>5
<1>7. ASSUME NEW r, IsRun(r, Len(q))
      PROVE  r[0] = start /\ \A i \in 1..Len(q) : r[i] = Sql!Scan(q, r[i - 1], i)
  <2>1. \A i \in 0..Len(q) : r[i] = IF i = 0 THEN start ELSE Sql!Scan(q, r[i - 1], i)
    BY <1>7
  <2>2. 0 \in 0..Len(q)
    BY <1>3
  <2>3. \A i \in 1..Len(q) : i \in 0..Len(q) /\ i # 0
    BY <1>3
  <2> QED
    BY <2>1, <2>2, <2>3
<1> HIDE DEF IsRun
<1> QED
  BY <1>6, <1>7

\* ReadIn of a query is what its equation says.
LEMMA SqlReadInEquation ==
    ASSUME NEW q \in Seq(Sql!Symbols)
    PROVE  /\ Sql!ReadIn(q)[1] = "base"
           /\ \A i \in 1..Len(q) :
                 Sql!ReadIn(q)[i + 1] =
                     IF Sql!ReadIn(q)[i] = "base"
                     THEN CASE q[i] \in {"quote", "escaped"} -> "quote"
                            [] q[i] \in {"open", "dashes"} -> q[i]
                            [] OTHER -> "base"
                     ELSE IF <<Sql!ReadIn(q)[i], q[i]>> \in
                               {<<"quote", "quote">>, <<"open", "close">>,
                                <<"dashes", "newline">>}
                     THEN "base" ELSE Sql!ReadIn(q)[i]
<1> DEFINE After(in, s) ==
               IF in = "base"
               THEN CASE s \in {"quote", "escaped"} -> "quote"
                      [] s \in {"open", "dashes"} -> s
                      [] OTHER -> "base"
               ELSE IF <<in, s>> \in {<<"quote", "quote">>, <<"open", "close">>,
                                      <<"dashes", "newline">>}
               THEN "base" ELSE in
           IsReading(f, n) == f = [i \in 1..(n + 1) |-> IF i = 1 THEN "base"
                                                         ELSE After(f[i - 1], q[i - 1])]
           S == {n \in Nat : \E f : IsReading(f, n)}
<1>1. Len(q) \in Nat
  OBVIOUS
<1>2. Sql!ReadIn(q) = CHOOSE f : IsReading(f, Len(q))
  BY DEF Sql!ReadIn
<1> HIDE DEF After
<1>3. 0 \in S
  <2>1. IsReading([i \in 1..(0 + 1) |-> "base"], 0)
    OBVIOUS
  <2> QED
    BY <2>1
<1>4. ASSUME NEW n \in Nat, n \in S PROVE n + 1 \in S
  <2>1. PICK f : IsReading(f, n)
    BY <1>4
  <2> DEFINE g == [i \in 1..((n + 1) + 1) |-> IF i = n + 2 THEN After(f[n + 1], q[n + 1])
                                                           ELSE f[i]]
  <2>2. ASSUME NEW i \in 1..((n + 1) + 1)
        PROVE  g[i] = IF i = 1 THEN "base" ELSE After(g[i - 1], q[i - 1])
    <3>1. CASE i = 1
      BY <2>1, <3>1
    <3>2. CASE i = n + 2
      <4>1. i # 1 /\ i - 1 = n + 1 /\ n + 1 # n + 2 /\ n + 1 \in 1..((n + 1) + 1)
        BY <3>2
      <4>2. g[n + 1] = f[n + 1]
        BY <4>1
      <4>3. g[i] = After(f[n + 1], q[n + 1])
        BY <3>2
      <4> HIDE DEF g
      <4> QED
        BY <4>1, <4>2, <4>3
    <3>3. CASE i # 1 /\ i # n + 2
      <4>1. i \in 1..(n + 1) /\ i - 1 \in 1..(n + 1) /\ i - 1 # n + 2 /\ i - 1 \in 1..((n + 1) + 1)
        BY <3>3
      <4>2. f[i] = After(f[i - 1], q[i - 1])
        BY <2>1, <3>3, <4>1
      <4>3. g[i] = f[i] /\ g[i - 1] = f[i - 1]
        BY <3>3, <4>1
      <4> HIDE DEF g
      <4> QED
        BY <3>3, <4>2, <4>3
    <3> QED
      BY <3>1, <3>2, <3>3
  <2>3. IsReading(g, n + 1)
    BY <2>2
  <2> HIDE DEF g, IsReading
  <2> QED
    BY <2>3
<1>5. PICK f : IsReading(f, Len(q))
  <2> HIDE DEF IsReading
  <2>1. Nat \subseteq S
    <3> HIDE DEF S
    <3> QED
      BY <1>3, <1>4, NatInduct
  <2> QED
    BY <1>1, <2>1
<1>6. IsReading(Sql!ReadIn(q), Len(q))
  <2> HIDE DEF IsReading
  <2> QED
    BY <1>2, <1>5
<1>7. ASSUME NEW r, IsReading(r, Len(q))
      PROVE  r[1] = "base" /\ \A i \in 1..Len(q) : r[i + 1] = After(r[i], q[i])
  <2>1. \A i \in 1..(Len(q) + 1) : r[i] = IF i = 1 THEN "base" ELSE After(r[i - 1], q[i - 1])
    BY <1>7
  <2>2. 1 \in 1..(Len(q) + 1)
    BY <1>1
  <2>3. \A i \in 1..Len(q) : i + 1 \in 1..(Len(q) + 1) /\ i + 1 # 1 /\ (i + 1) - 1 = i
    BY <1>1
  <2> QED
    BY <2>1, <2>2, <2>3
<1> HIDE DEF IsReading
<1>8. /\ Sql!ReadIn(q)[1] = "base"
      /\ \A i \in 1..Len(q) : Sql!ReadIn(q)[i + 1] = After(Sql!ReadIn(q)[i], q[i])
  BY <1>6, <1>7
<1> QED
  BY <1>8 DEF After

\* what tokenize returns, without the comments
SqlTokens == [type : {"string", "letter", "semi", "close"}, first : Nat, last : Nat]

\* A token is a symbol of its own or a string from its quote to the next.
SqlIsToken(q, t) ==
    /\ t \in SqlTokens
    /\ t.first \in 1..Len(q) /\ t.last \in 1..Len(q)
    /\ Sql!ReadIn(q)[t.first] = "base"
    /\ \/ /\ t.type = "string" /\ q[t.first] \in {"quote", "escaped"} /\ t.first < t.last
          /\ \A j \in (t.first + 1)..t.last : Sql!ReadIn(q)[j] = "quote"
       \/ t.type # "string" /\ q[t.first] = t.type /\ t.first = t.last

SqlInOrder(tokens) ==
    \A k, l \in 1..Len(tokens) : k < l => tokens[k].last < tokens[l].first

SqlInToken(tokens, j) ==
    \E k \in 1..Len(tokens) : tokens[k].first <= j /\ j <= tokens[k].last

\* what is neither a blank nor unknown nor in a comment
SqlIsRead(q, j) ==
    \/ Sql!ReadIn(q)[j] = "quote"
    \/ /\ Sql!ReadIn(q)[j] = "base"
       /\ q[j] \in {"letter", "quote", "escaped", "close", "semi"}

\* the string that is being read since its quote
SqlInString(q, at, i) ==
    /\ at \in 1..i
    /\ Sql!ReadIn(q)[at] = "base" /\ q[at] \in {"quote", "escaped"}
    /\ \A j \in (at + 1)..(i + 1) : Sql!ReadIn(q)[j] = "quote"

\* What the first i symbols of a query have been read to.
SqlLexed(q, state, at, tokens, i) ==
    /\ at \in Nat /\ tokens \in Seq(SqlTokens)
    /\ <<state, Sql!ReadIn(q)[i + 1]>> \in
           {<<"base", "base">>, <<"string", "quote">>, <<"comment", "open">>,
            <<"line", "dashes">>}
    /\ state = "string" => SqlInString(q, at, i)
    /\ \A k \in 1..Len(tokens) :
          /\ SqlIsToken(q, tokens[k])
          /\ tokens[k].last <= i
          /\ state = "string" => tokens[k].last < at
    /\ SqlInOrder(tokens)
    /\ \A j \in 1..i : SqlIsRead(q, j) =>
          SqlInToken(tokens, j) \/ (state = "string" /\ at <= j)

\* A token that comes after the others keeps them in order.
LEMMA SqlTokenAppended ==
    ASSUME NEW q \in Seq(Sql!Symbols), NEW tokens \in Seq(SqlTokens), NEW t \in SqlTokens,
           SqlInOrder(tokens), SqlIsToken(q, t),
           \A k \in 1..Len(tokens) : SqlIsToken(q, tokens[k]) /\ tokens[k].last < t.first
    PROVE  LET more == Append(tokens, t)
           IN  /\ more \in Seq(SqlTokens)
               /\ SqlInOrder(more)
               /\ \A k \in 1..Len(more) : SqlIsToken(q, more[k]) /\ more[k].last <= t.last
               /\ \A j \in Nat : SqlInToken(tokens, j) => SqlInToken(more, j)
               /\ \A j \in t.first..t.last : SqlInToken(more, j)
<1> DEFINE more == Append(tokens, t)
<1>1. /\ more \in Seq(SqlTokens) /\ Len(more) = Len(tokens) + 1 /\ Len(tokens) \in Nat
      /\ \A k \in 1..Len(tokens) : more[k] = tokens[k]
      /\ more[Len(tokens) + 1] = t
  OBVIOUS
<1>2. t.first \in Nat /\ t.last \in Nat /\ t.first <= t.last
  BY DEF SqlIsToken, SqlTokens
<1>3. \A k \in 1..Len(tokens) : tokens[k] \in SqlTokens
  OBVIOUS
<1>4. \A k \in 1..Len(tokens) : tokens[k].first \in Nat /\ tokens[k].last \in Nat
  BY <1>3 DEF SqlTokens
<1>5. \A k \in 1..(Len(tokens) + 1) : k \in 1..Len(tokens) \/ k = Len(tokens) + 1
  BY <1>1
<1> HIDE DEF more
<1>6. SqlInOrder(more)
  <2> SUFFICES ASSUME NEW k \in 1..Len(more), NEW l \in 1..Len(more), k < l
               PROVE  more[k].last < more[l].first
    BY DEF SqlInOrder
  <2>1. k \in 1..Len(tokens)
    BY <1>1
  <2>2. CASE l \in 1..Len(tokens)
    BY <1>1, <2>1, <2>2 DEF SqlInOrder
  <2>3. CASE l = Len(tokens) + 1
    BY <1>1, <2>1, <2>3
  <2> QED
    BY <1>1, <1>5, <2>2, <2>3
<1>7. \A k \in 1..Len(more) : SqlIsToken(q, more[k]) /\ more[k].last <= t.last
  <2> TAKE k \in 1..Len(more)
  <2>1. CASE k \in 1..Len(tokens)
    <3>1. more[k] = tokens[k] /\ SqlIsToken(q, tokens[k])
      BY <1>1, <2>1
    <3>2. tokens[k].last \in Nat /\ tokens[k].last < t.first
      BY <1>4, <2>1
    <3> QED
      BY <1>2, <3>1, <3>2
  <2>2. CASE k = Len(tokens) + 1
    BY <1>1, <1>2, <2>2
  <2> QED
    BY <1>1, <1>5, <2>1, <2>2
<1>8. ASSUME NEW j \in Nat, SqlInToken(tokens, j)
      PROVE  SqlInToken(more, j)
  <2>1. PICK k \in 1..Len(tokens) : tokens[k].first <= j /\ j <= tokens[k].last
    BY <1>8 DEF SqlInToken
  <2>2. k \in 1..Len(more) /\ more[k] = tokens[k]
    BY <1>1
  <2> QED
    BY <2>1, <2>2 DEF SqlInToken
<1>9. ASSUME NEW j \in t.first..t.last
      PROVE  SqlInToken(more, j)
  <2>1. Len(tokens) + 1 \in 1..Len(more)
    BY <1>1
  <2>2. t.first <= j /\ j <= t.last
    BY <1>2
  <2> QED
    BY <1>1, <2>1, <2>2 DEF SqlInToken
<1> QED
  BY <1>1, <1>6, <1>7, <1>8, <1>9 DEF more

\* In a query without an escaped quote that is the last on its line, a string
\* ends at a quote alone.
LEMMA SqlStringEnds ==
    ASSUME NEW q \in Seq(Sql!Symbols), ~Sql!EscapedLast(q), NEW i \in 1..Len(q), NEW at
    PROVE  Sql!EndsString(q, at, i) <=> q[i] = "quote"
<1>1. DOMAIN q = 1..Len(q)
  OBVIOUS
<1>2. q[i] = "escaped" => "quote" \in Sql!RestOfLine(q, i)
  BY <1>1 DEF Sql!EscapedLast
<1>3. q[i] = "escaped" => Sql!RestOfLine(q, i) \cap {"quote", "escaped"} # {}
  BY <1>2
<1> QED BY <1>3 DEF Sql!EndsString

\* One more symbol.
LEMMA SqlLexedStep ==
    ASSUME NEW q \in Seq(Sql!Symbols), ~Sql!EscapedLast(q),
           NEW i \in Nat, i + 1 <= Len(q),
           NEW state, NEW at, NEW tokens, SqlLexed(q, state, at, tokens, i),
           NEW acc, acc = Sql!Scan(q, [mode |-> state, at |-> at, tokens |-> tokens], i + 1)
    PROVE  /\ acc = [mode |-> acc.mode, at |-> acc.at, tokens |-> acc.tokens]
           /\ SqlLexed(q, acc.mode, acc.at, acc.tokens, i + 1)
<1> DEFINE s == q[i + 1]
           in(j) == Sql!ReadIn(q)[j]
<1>1. /\ Len(q) \in Nat /\ i + 1 \in 1..Len(q) /\ (i + 1) + 1 = i + 2
      /\ 1..(i + 1) = 1..i \cup {i + 1}
  OBVIOUS
<1>2. s \in {"letter", "unknown", "newline", "semi", "quote", "escaped", "open", "close",
             "dashes"}
  BY <1>1 DEF Sql!Symbols
<1>3. in(i + 2) = IF in(i + 1) = "base"
                  THEN CASE s \in {"quote", "escaped"} -> "quote"
                         [] s \in {"open", "dashes"} -> s
                         [] OTHER -> "base"
                  ELSE IF <<in(i + 1), s>> \in {<<"quote", "quote">>, <<"open", "close">>,
                                                <<"dashes", "newline">>}
                  THEN "base" ELSE in(i + 1)
  BY <1>1, SqlReadInEquation
<1>4. /\ at \in Nat /\ tokens \in Seq(SqlTokens) /\ Len(tokens) \in Nat
      /\ <<state, in(i + 1)>> \in {<<"base", "base">>, <<"string", "quote">>,
                                  <<"comment", "open">>, <<"line", "dashes">>}
      /\ state = "string" => SqlInString(q, at, i)
      /\ \A k \in 1..Len(tokens) :
            /\ SqlIsToken(q, tokens[k])
            /\ tokens[k].last <= i
            /\ state = "string" => tokens[k].last < at
      /\ SqlInOrder(tokens)
      /\ \A j \in 1..i : SqlIsRead(q, j) =>
            SqlInToken(tokens, j) \/ (state = "string" /\ at <= j)
  BY DEF SqlLexed
<1>5. \A k \in 1..Len(tokens) : tokens[k].first \in Nat /\ tokens[k].last \in Nat
  BY <1>4 DEF SqlIsToken, SqlTokens
<1>6. SqlIsRead(q, i + 1) <=> \/ in(i + 1) = "quote"
                              \/ /\ in(i + 1) = "base"
                                 /\ s \in {"letter", "quote", "escaped", "close", "semi"}
  BY DEF SqlIsRead
<1>17. Sql!EndsString(q, at, i + 1) <=> s = "quote"
  BY <1>1, SqlStringEnds
<1>18. ASSUME state = "string"
       PROVE  /\ Sql!EndsString(q, at, i + 1) =>
                    acc = [mode |-> "base", at |-> at,
                           tokens |-> Append(tokens, Sql!Token("string", at, i + 1))]
              /\ ~Sql!EndsString(q, at, i + 1) =>
                    acc = [mode |-> "string", at |-> at, tokens |-> tokens]
  <2> DEFINE old == [mode |-> state, at |-> at, tokens |-> tokens]
  <2>1. old.mode = "string" /\ old.at = at /\ old.tokens = tokens
    BY <1>18
  <2>2. acc = IF Sql!EndsString(q, old.at, i + 1)
              THEN [old EXCEPT !.mode = "base",
                               !.tokens = Append(@, Sql!Token("string", old.at, i + 1))]
              ELSE old
    BY <2>1, Zenon DEF Sql!Scan
  <2> QED
    BY <1>18, <2>1, <2>2
<1> HIDE DEF in, s
\* what is to be shown of a reading that leaves the tokens as they are
<1>7. ASSUME NEW m, NEW a \in Nat,
             acc = [mode |-> m, at |-> a, tokens |-> tokens],
             <<m, in(i + 2)>> \in {<<"base", "base">>, <<"string", "quote">>,
                                   <<"comment", "open">>, <<"line", "dashes">>},
             m = "string" => SqlInString(q, a, i + 1),
             m = "string" => \A k \in 1..Len(tokens) : tokens[k].last < a,
             state = "string" => m = "string" /\ a = at,
             SqlIsRead(q, i + 1) => m = "string" /\ a <= i + 1
      PROVE  /\ acc = [mode |-> acc.mode, at |-> acc.at, tokens |-> acc.tokens]
             /\ SqlLexed(q, acc.mode, acc.at, acc.tokens, i + 1)
  <2>1. acc.mode = m /\ acc.at = a /\ acc.tokens = tokens
    BY <1>7
  <2>2. \A k \in 1..Len(tokens) : tokens[k].last <= i + 1
    BY <1>4, <1>5
  <2>3. \A j \in 1..(i + 1) : SqlIsRead(q, j) =>
            SqlInToken(tokens, j) \/ (m = "string" /\ a <= j)
    BY <1>1, <1>4, <1>7
  <2>4. <<m, Sql!ReadIn(q)[(i + 1) + 1]>> \in
             {<<"base", "base">>, <<"string", "quote">>, <<"comment", "open">>,
              <<"line", "dashes">>}
    BY <1>1, <1>7 DEF in
  <2> QED
    BY <1>4, <1>7, <2>1, <2>2, <2>3, <2>4 DEF SqlLexed
\* and of one that adds a token
<1>8. ASSUME NEW t \in SqlTokens,
             acc = [mode |-> "base", at |-> at, tokens |-> Append(tokens, t)],
             in(i + 2) = "base", SqlIsToken(q, t), t.last = i + 1,
             \A k \in 1..Len(tokens) : tokens[k].last < t.first,
             state = "string" => t.first = at
      PROVE  /\ acc = [mode |-> acc.mode, at |-> acc.at, tokens |-> acc.tokens]
             /\ SqlLexed(q, acc.mode, acc.at, acc.tokens, i + 1)
  <2> DEFINE more == Append(tokens, t)
  <2>1. acc.mode = "base" /\ acc.at = at /\ acc.tokens = more
    BY <1>8
  <2>2. /\ more \in Seq(SqlTokens)
        /\ SqlInOrder(more)
        /\ \A k \in 1..Len(more) : SqlIsToken(q, more[k]) /\ more[k].last <= t.last
        /\ \A j \in Nat : SqlInToken(tokens, j) => SqlInToken(more, j)
        /\ \A j \in t.first..t.last : SqlInToken(more, j)
    BY <1>4, <1>8, SqlTokenAppended
  <2>3. t.first \in Nat /\ t.first <= i + 1
    BY <1>8 DEF SqlIsToken, SqlTokens
  <2> HIDE DEF more
  <2>4. ASSUME NEW j \in 1..(i + 1), SqlIsRead(q, j)
        PROVE  SqlInToken(more, j)
    <3>1. CASE j = i + 1
      <4>1. j \in t.first..t.last
        BY <1>8, <2>3, <3>1
      <4> QED
        BY <2>2, <4>1
    <3>2. CASE j \in 1..i /\ SqlInToken(tokens, j)
      BY <2>2, <3>2
    <3>3. CASE j \in 1..i /\ state = "string" /\ at <= j
      <4>1. j \in t.first..t.last
        BY <1>8, <2>3, <3>3
      <4> QED
        BY <2>2, <4>1
    <3> QED
      BY <1>1, <1>4, <2>4, <3>1, <3>2, <3>3
  <2>5. <<"base", Sql!ReadIn(q)[(i + 1) + 1]>> \in
             {<<"base", "base">>, <<"string", "quote">>, <<"comment", "open">>,
              <<"line", "dashes">>}
    BY <1>1, <1>8 DEF in
  <2>6. \A k \in 1..Len(more) : SqlIsToken(q, more[k]) /\ more[k].last <= i + 1
    BY <1>8, <2>2
  <2> QED
    BY <1>4, <1>8, <2>1, <2>2, <2>4, <2>5, <2>6 DEF SqlLexed
<1>9. CASE state = "string" /\ s = "quote"
  <2> DEFINE t == Sql!Token("string", at, i + 1)
  <2>1. acc = [mode |-> "base", at |-> at, tokens |-> Append(tokens, t)]
    BY <1>9, <1>17, <1>18
  <2>2. in(i + 1) = "quote" /\ in(i + 2) = "base"
    BY <1>3, <1>4, <1>9
  <2>3. SqlInString(q, at, i)
    BY <1>4, <1>9
  <2>4. t = [type |-> "string", first |-> at, last |-> i + 1]
    BY DEF Sql!Token
  <2>5. t \in SqlTokens
    BY <1>4, <2>4 DEF SqlTokens
  <2>6. t.type = "string" /\ t.first = at /\ t.last = i + 1
    BY <2>4
  <2> HIDE DEF t
  <2>7. SqlIsToken(q, t)
    BY <1>1, <2>3, <2>5, <2>6 DEF SqlIsToken, SqlInString
  <2> QED
    BY <1>4, <1>8, <1>9, <2>1, <2>2, <2>5, <2>6, <2>7
<1>10. CASE state = "string" /\ s # "quote"
  <2>1. acc = [mode |-> "string", at |-> at, tokens |-> tokens]
    <3>1. ~Sql!EndsString(q, at, i + 1)
      BY <1>10, <1>17
    <3> QED BY <1>10, <1>18, <3>1
  <2>2. in(i + 1) = "quote" /\ in(i + 2) = "quote"
    BY <1>3, <1>4, <1>10
  <2>3. SqlInString(q, at, i + 1) /\ at <= i + 1
    <3>1. /\ at \in 1..i /\ \A j \in (at + 1)..(i + 1) : Sql!ReadIn(q)[j] = "quote"
          /\ Sql!ReadIn(q)[at] = "base" /\ q[at] \in {"quote", "escaped"}
      BY <1>4, <1>10 DEF SqlInString
    <3>2. \A j \in (at + 1)..((i + 1) + 1) : j \in (at + 1)..(i + 1) \/ j = i + 2
      BY <3>1
    <3>3. at \in 1..(i + 1) /\ at <= i + 1
      BY <3>1
    <3> QED BY <2>2, <3>1, <3>2, <3>3 DEF SqlInString, in
  <2> QED
    BY <1>4, <1>7, <1>10, <2>1, <2>2, <2>3
<1>11. CASE state = "comment"
  <2>1. in(i + 1) = "open"
    BY <1>4, <1>11
  <2>2. ~SqlIsRead(q, i + 1)
    BY <1>6, <2>1
  <2>3. CASE s = "close"
    <3>1. acc = [mode |-> "base", at |-> at, tokens |-> tokens]
      BY <1>11, <2>3 DEF s, Sql!Scan
    <3>2. in(i + 2) = "base"
      BY <1>3, <2>1, <2>3
    <3> QED
      BY <1>4, <1>7, <1>11, <2>2, <3>1, <3>2
  <2>4. CASE s # "close"
    <3>1. acc = [mode |-> "comment", at |-> at, tokens |-> tokens]
      BY <1>11, <2>4 DEF s, Sql!Scan
    <3>2. in(i + 2) = "open"
      BY <1>3, <2>1, <2>4
    <3> QED
      BY <1>4, <1>7, <1>11, <2>2, <3>1, <3>2
  <2> QED
    BY <2>3, <2>4
<1>12. CASE state = "line"
  <2>1. in(i + 1) = "dashes"
    BY <1>4, <1>12
  <2>2. ~SqlIsRead(q, i + 1)
    BY <1>6, <2>1
  <2>3. CASE s = "newline"
    <3>1. acc = [mode |-> "base", at |-> at, tokens |-> tokens]
      BY <1>12, <2>3 DEF s, Sql!Scan
    <3>2. in(i + 2) = "base"
      BY <1>3, <2>1, <2>3
    <3> QED
      BY <1>4, <1>7, <1>12, <2>2, <3>1, <3>2
  <2>4. CASE s # "newline"
    <3>1. acc = [mode |-> "line", at |-> at, tokens |-> tokens]
      BY <1>12, <2>4 DEF s, Sql!Scan
    <3>2. in(i + 2) = "dashes"
      BY <1>3, <2>1, <2>4
    <3> QED
      BY <1>4, <1>7, <1>12, <2>2, <3>1, <3>2
  <2> QED
    BY <2>3, <2>4
<1>13. CASE state = "base" /\ s \in {"quote", "escaped"}
  <2>1. acc = [mode |-> "string", at |-> i + 1, tokens |-> tokens]
    BY <1>13 DEF s, Sql!Scan
  <2>2. in(i + 1) = "base" /\ in(i + 2) = "quote"
    BY <1>3, <1>4, <1>13
  <2>3. SqlInString(q, i + 1, i + 1)
    BY <1>1, <1>13, <2>2 DEF SqlInString, in, s
  <2>4. \A k \in 1..Len(tokens) : tokens[k].last < i + 1
    BY <1>4, <1>5
  <2> QED
    BY <1>7, <1>13, <2>1, <2>2, <2>3, <2>4
<1>14. CASE state = "base" /\ s \in {"open", "dashes", "newline", "unknown"}
  <2>1. in(i + 1) = "base"
    BY <1>4, <1>14
  <2>2. ~SqlIsRead(q, i + 1)
    BY <1>6, <1>14, <2>1
  <2> DEFINE m == IF s = "open" THEN "comment" ELSE IF s = "dashes" THEN "line" ELSE "base"
  <2>3. acc = [mode |-> m, at |-> at, tokens |-> tokens]
    BY <1>14 DEF s, Sql!Scan
  <2>4. <<m, in(i + 2)>> \in {<<"base", "base">>, <<"string", "quote">>,
                              <<"comment", "open">>, <<"line", "dashes">>}
    BY <1>3, <1>14, <2>1
  <2>5. m # "string"
    OBVIOUS
  <2> HIDE DEF m
  <2> QED
    BY <1>4, <1>7, <1>14, <2>2, <2>3, <2>4, <2>5
<1>15. CASE state = "base" /\ s \in {"letter", "semi", "close"}
  <2> DEFINE t == Sql!Token(s, i + 1, i + 1)
  <2>1. acc = [mode |-> "base", at |-> at, tokens |-> Append(tokens, t)]
    BY <1>15 DEF s, Sql!Scan
  <2>2. in(i + 1) = "base" /\ in(i + 2) = "base"
    BY <1>3, <1>4, <1>15
  <2>4. t = [type |-> s, first |-> i + 1, last |-> i + 1]
    BY DEF Sql!Token
  <2>5. t \in SqlTokens
    BY <1>15, <2>4 DEF SqlTokens
  <2>6. t.type = s /\ t.first = i + 1 /\ t.last = i + 1
    BY <2>4
  <2> HIDE DEF t
  <2>7. SqlIsToken(q, t)
    BY <1>1, <1>15, <2>2, <2>5, <2>6 DEF SqlIsToken, in, s
  <2>8. \A k \in 1..Len(tokens) : tokens[k].last < t.first
    BY <1>4, <1>5, <2>6
  <2> QED
    BY <1>8, <1>15, <2>1, <2>2, <2>5, <2>6, <2>7, <2>8
<1>16. state \in {"base", "string", "comment", "line"}
  BY <1>4
<1> QED
  BY <1>2, <1>9, <1>10, <1>11, <1>12, <1>13, <1>14, <1>15, <1>16

\* The tokens of a query are in order, and are all that is read of it but a
\* string that is not closed.
LEMMA SqlTokenized ==
    ASSUME NEW q \in Seq(Sql!Symbols), ~Sql!EscapedLast(q)
    PROVE  /\ Sql!Tokenize(q) \in Seq(SqlTokens)
           /\ SqlInOrder(Sql!Tokenize(q))
           /\ \A k \in 1..Len(Sql!Tokenize(q)) : SqlIsToken(q, Sql!Tokenize(q)[k])
           /\ \A j \in 1..Len(q) : SqlIsRead(q, j) =>
                 SqlInToken(Sql!Tokenize(q), j) \/ j \in Sql!Unclosed(q)
           /\ \A j \in Sql!Separators(q) : SqlInToken(Sql!Tokenize(q), j)
<1> DEFINE run(i) == Sql!Run(q)[i]
           Lexed(i) == /\ run(i) = [mode |-> run(i).mode, at |-> run(i).at,
                                    tokens |-> run(i).tokens]
                       /\ SqlLexed(q, run(i).mode, run(i).at, run(i).tokens, i)
           S == {i \in Nat : i <= Len(q) => Lexed(i)}
<1>1. Len(q) \in Nat
  OBVIOUS
<1>2. Lexed(0)
  <2>1. run(0) = [mode |-> "base", at |-> 0, tokens |-> <<>>]
    BY SqlRunEquation
  <2> HIDE DEF run
  <2>2. run(0).mode = "base" /\ run(0).at = 0 /\ run(0).tokens = <<>>
    BY <2>1
  <2>3. Sql!ReadIn(q)[0 + 1] = "base"
    BY SqlReadInEquation
  <2>4. SqlLexed(q, "base", 0, <<>>, 0)
    BY <2>3 DEF SqlLexed, SqlInOrder
  <2> QED
    BY <2>1, <2>2, <2>4
<1>3. ASSUME NEW i \in Nat, i + 1 <= Len(q), Lexed(i)
      PROVE  Lexed(i + 1)
  <2>1. i + 1 \in 1..Len(q) /\ (i + 1) - 1 = i
    BY <1>1, <1>3
  <2>2. run(i + 1) = Sql!Scan(q, run(i), i + 1)
    BY <2>1, SqlRunEquation
  <2> HIDE DEF run
  <2>3. run(i + 1) = Sql!Scan(q, [mode |-> run(i).mode, at |-> run(i).at,
                                  tokens |-> run(i).tokens], i + 1)
    BY <1>3, <2>2
  <2> QED
    BY <1>3, <2>3, SqlLexedStep
<1>4. Lexed(Len(q))
  <2> HIDE DEF Lexed
  <2>1. 0 \in S
    BY <1>2
  <2>2. ASSUME NEW i \in Nat, i \in S PROVE i + 1 \in S
    <3>1. ASSUME i + 1 <= Len(q) PROVE Lexed(i + 1)
      <4>1. i <= Len(q)
        BY <1>1, <3>1
      <4> QED
        BY <1>3, <2>2, <3>1, <4>1
    <3> QED
      BY <3>1
  <2>3. Nat \subseteq S
    <3> HIDE DEF S
    <3> QED
      BY <2>1, <2>2, NatInduct
  <2> QED
    BY <1>1, <2>3
<1> DEFINE state == run(Len(q)).mode
           at == run(Len(q)).at
           tokens == run(Len(q)).tokens
<1>5. Sql!Tokenize(q) = tokens
  BY DEF Sql!Tokenize
<1>6. SqlLexed(q, state, at, tokens, Len(q))
  BY <1>4
<1> HIDE DEF run, state, at, tokens
<1>7. ASSUME state = "string"
      PROVE  /\ at \in 1..Len(q) /\ q[at] \in {"quote", "escaped"}
             /\ \A j \in (at + 1)..(Len(q) + 1) : Sql!ReadIn(q)[j] = "quote"
  BY <1>6, <1>7 DEF SqlLexed, SqlInString
<1>8. DOMAIN q = 1..Len(q)
  OBVIOUS
<1>9. ASSUME state = "string", NEW j \in 1..Len(q), at <= j
      PROVE  j \in Sql!Unclosed(q)
  <2>1. \A k \in (j + 1)..(Len(q) + 1) : k \in (at + 1)..(Len(q) + 1)
    BY <1>1, <1>7, <1>9
  <2> QED
    BY <1>7, <1>8, <1>9, <2>1 DEF Sql!Unclosed
<1>10. ASSUME NEW j \in Sql!Separators(q)
       PROVE  SqlInToken(tokens, j)
  <2>1. j \in 1..Len(q) /\ Sql!ReadIn(q)[j] = "base" /\ q[j] = "semi"
    BY <1>8 DEF Sql!Separators
  <2>2. SqlIsRead(q, j)
    BY <2>1 DEF SqlIsRead
  <2>3. ASSUME state = "string", at <= j PROVE FALSE
    <3>1. at # j
      BY <1>7, <2>1, <2>3
    <3>2. j \in (at + 1)..(Len(q) + 1)
      BY <1>1, <1>7, <2>1, <2>3, <3>1
    <3> QED
      BY <1>7, <2>1, <2>3, <3>2
  <2> QED
    BY <1>6, <2>1, <2>2, <2>3 DEF SqlLexed
<1> QED
  BY <1>5, <1>6, <1>9, <1>10 DEF SqlLexed

\* The largest of a bounded set of numbers.
LEMMA LargestNat ==
    ASSUME NEW T, T \subseteq Nat, T # {}, NEW b \in Nat, \A m \in T : m <= b
    PROVE  \E n \in T : \A m \in T : m <= n
<1> DEFINE U == {b - m : m \in T}
<1>1. \A m \in T : m \in Nat
  OBVIOUS
<1>2. U \subseteq Nat /\ U # {}
  <2>1. ASSUME NEW m \in T PROVE b - m \in Nat
    <3>1. m \in Nat /\ m <= b
      BY <1>1
    <3> QED
      BY <3>1
  <2> QED
    BY <2>1
<1>3. PICK u \in U : \A v \in U : u <= v
  BY <1>2, LeastNat
<1>4. PICK n \in T : u = b - n
  OBVIOUS
<1>5. ASSUME NEW m \in T PROVE m <= n
  <2>1. b - m \in U
    OBVIOUS
  <2> QED
    BY <1>1, <1>3, <1>4, <2>1
<1> QED
  BY <1>5

\* Semicolons before a token: no fewer before a later one, and more of them
\* when one is in between.
LEMMA SqlSemisBetween ==
    ASSUME NEW tokens \in Seq(SqlTokens),
           NEW a \in 1..Len(tokens), NEW b \in 1..Len(tokens), a <= b
    PROVE  /\ Sql!Semis(tokens, a) \in 0..Len(tokens)
           /\ Sql!Semis(tokens, a) <= Sql!Semis(tokens, b)
           /\ \A j \in a..(b - 1) : tokens[j].type = "semi" =>
                 Sql!Semis(tokens, a) < Sql!Semis(tokens, b)
<1> DEFINE Before(i) == {j \in 1..(i - 1) : tokens[j].type = "semi"}
<1>1. Len(tokens) \in Nat
  OBVIOUS
<1>2. ASSUME NEW i \in 1..Len(tokens)
      PROVE  /\ IsFiniteSet(Before(i))
             /\ Cardinality(Before(i)) \in Nat /\ Cardinality(Before(i)) <= Len(tokens)
             /\ Sql!Semis(tokens, i) = Cardinality(Before(i))
  <2>1. i - 1 \in Int /\ i - 1 <= Len(tokens) /\ 1 \in Int /\ i - 1 >= 0
    BY <1>1
  <2>6. Sql!Semis(tokens, i) = Cardinality(Before(i))
    BY DEF Sql!Semis, Sql!Cardinality, Cardinality
  <2>7. /\ IsFiniteSet(1..(i - 1))
        /\ Cardinality(1..(i - 1)) = IF 1 > i - 1 THEN 0 ELSE (i - 1) - 1 + 1
    BY <2>1, FS_Interval
  <2>2. IsFiniteSet(1..(i - 1)) /\ Cardinality(1..(i - 1)) <= Len(tokens)
    BY <1>1, <2>1, <2>7
  <2>3. Before(i) \in SUBSET (1..(i - 1))
    OBVIOUS
  <2> HIDE DEF Before
  <2>4. IsFiniteSet(Before(i)) /\ Cardinality(Before(i)) <= Cardinality(1..(i - 1))
    BY <2>2, <2>3, FS_Subset
  <2>5. Cardinality(Before(i)) \in Nat /\ Cardinality(1..(i - 1)) \in Nat
    BY <2>2, <2>4, FS_CardinalityType
  <2> QED
    BY <1>1, <2>2, <2>4, <2>5, <2>6
<1>3. Before(a) \in SUBSET Before(b)
  BY <1>1
<1>4. ASSUME NEW j \in a..(b - 1), tokens[j].type = "semi"
      PROVE  Before(a) # Before(b)
  <2>1. j \in 1..(b - 1) /\ j \notin 1..(a - 1)
    BY <1>1
  <2> QED
    BY <1>4, <2>1
<1> HIDE DEF Before
<1>5. /\ Cardinality(Before(a)) <= Cardinality(Before(b))
      /\ Cardinality(Before(b)) = Cardinality(Before(a)) => Before(b) = Before(a)
  BY <1>2, <1>3, FS_Subset
<1>6. /\ Sql!Semis(tokens, a) = Cardinality(Before(a)) /\ Cardinality(Before(a)) \in Nat
      /\ Sql!Semis(tokens, b) = Cardinality(Before(b)) /\ Cardinality(Before(b)) \in Nat
      /\ Cardinality(Before(a)) <= Len(tokens)
  BY <1>2
<1>7. ASSUME NEW j \in a..(b - 1), tokens[j].type = "semi"
      PROVE  Sql!Semis(tokens, a) < Sql!Semis(tokens, b)
  BY <1>4, <1>5, <1>6, <1>7
<1> QED
  BY <1>1, <1>5, <1>6, <1>7

\* The line of a symbol starts before it, and not before that of an earlier one.
LEMMA SqlLineStarts ==
    ASSUME NEW q \in Seq(Sql!Symbols), NEW i \in Nat \ {0}, NEW j \in Nat, i <= j
    PROVE  /\ Sql!LineStart(q, i) \in Nat /\ Sql!LineStart(q, j) \in Nat
           /\ Sql!LineStart(q, i) <= Sql!LineStart(q, j)
<1> DEFINE Ends(n) == {0} \cup {k \in 1..(n - 1) : q[k] = "newline"}
<1>1. ASSUME NEW n \in Nat \ {0}
      PROVE  /\ Sql!LineStart(q, n) \in Ends(n)
             /\ \A m \in Ends(n) : m <= Sql!LineStart(q, n)
  <2>1. Ends(n) \subseteq Nat /\ Ends(n) # {} /\ \A m \in Ends(n) : m <= n
    OBVIOUS
  <2>2. Sql!LineStart(q, n) = CHOOSE x \in Ends(n) : \A y \in Ends(n) : x >= y
    BY DEF Sql!LineStart, Sql!Max
  <2> HIDE DEF Ends
  <2>3. PICK x \in Ends(n) : \A y \in Ends(n) : y <= x
    BY <2>1, LargestNat
  <2>4. \A y \in Ends(n) : x >= y
    BY <2>1, <2>3
  <2>5. /\ Sql!LineStart(q, n) \in Ends(n)
        /\ \A y \in Ends(n) : Sql!LineStart(q, n) >= y
    BY <2>2, <2>4
  <2> QED
    BY <2>1, <2>5
<1>2. Ends(i) \subseteq Ends(j) /\ Ends(i) \subseteq Nat /\ Ends(j) \subseteq Nat
  OBVIOUS
<1> HIDE DEF Ends
<1> QED
  BY <1>1, <1>2

\* A statement is the tokens with as many semicolons before them, from its
\* first token to its last.
LEMMA SqlStatementEnds ==
    ASSUME NEW tokens \in Seq(SqlTokens), SqlInOrder(tokens),
           \A k \in 1..Len(tokens) : tokens[k].first <= tokens[k].last,
           NEW k, Sql!Statement(tokens, k) # {}
    PROVE  LET s == Sql!Statement(tokens, k)
           IN  \E a, b \in 1..Len(tokens) :
                 /\ Sql!FirstToken(s) = tokens[a] /\ Sql!LastToken(s) = tokens[b]
                 /\ tokens[a] \in s /\ tokens[b] \in s
                 /\ tokens[a].type # "semi" /\ tokens[b].type # "semi"
                 /\ Sql!Semis(tokens, a) = k /\ Sql!Semis(tokens, b) = k
                 /\ \A c \in 1..Len(tokens) :
                       tokens[c].type # "semi" /\ Sql!Semis(tokens, c) = k =>
                           a <= c /\ c <= b
<1> DEFINE s == Sql!Statement(tokens, k)
           Own == {c \in 1..Len(tokens) : /\ tokens[c].type # "semi"
                                          /\ Sql!Semis(tokens, c) = k}
<1>1. Len(tokens) \in Nat /\ DOMAIN tokens = 1..Len(tokens)
  OBVIOUS
<1>2. s = {tokens[c] : c \in Own}
  BY <1>1 DEF Sql!Statement
<1>3. Own \subseteq Nat /\ \A c \in Own : c <= Len(tokens) /\ c \in 1..Len(tokens)
  OBVIOUS
<1> HIDE DEF s, Own
<1>4. Own # {}
  BY <1>2 DEF s
<1>5. PICK a \in Own : \A c \in Own : a <= c
  BY <1>3, <1>4, LeastNat
<1>6. PICK b \in Own : \A c \in Own : c <= b
  BY <1>1, <1>3, <1>4, LargestNat
<1>7. \A c \in 1..Len(tokens) : tokens[c].first \in Nat /\ tokens[c].last \in Nat
  <2> TAKE c \in 1..Len(tokens)
  <2>1. tokens[c] \in SqlTokens
    OBVIOUS
  <2> QED
    BY <2>1 DEF SqlTokens
<1>8. \A c, d \in 1..Len(tokens) : c < d => tokens[c].first < tokens[d].first
  BY <1>7 DEF SqlInOrder
<1>9. \A c, d \in 1..Len(tokens) : c <= d <=> tokens[c].first <= tokens[d].first
  <2> TAKE c, d \in 1..Len(tokens)
  <2>1. CASE c < d
    BY <1>7, <1>8, <2>1
  <2>2. CASE c = d
    BY <1>7, <2>2
  <2>3. CASE d < c
    BY <1>7, <1>8, <2>3
  <2> QED
    BY <1>1, <2>1, <2>2, <2>3
<1>10. Sql!FirstToken(s) = tokens[a]
  <2>1. tokens[a] \in s /\ \A u \in s : tokens[a].first <= u.first
    BY <1>2, <1>3, <1>5, <1>9
  <2>2. ASSUME NEW t \in s, \A u \in s : t.first <= u.first
        PROVE  t = tokens[a]
    <3>1. PICK c \in Own : t = tokens[c]
      BY <1>2
    <3>2. tokens[c].first <= tokens[a].first
      BY <2>1, <2>2, <3>1
    <3>3. c <= a /\ a <= c /\ c \in Nat /\ a \in Nat
      BY <1>3, <1>5, <1>9, <3>2
    <3> QED
      BY <3>1, <3>3
  <2>3. Sql!FirstToken(s) = CHOOSE t \in s : \A u \in s : t.first <= u.first
    BY DEF Sql!FirstToken
  <2> QED
    BY <2>1, <2>2, <2>3
<1>11. Sql!LastToken(s) = tokens[b]
  <2>1. tokens[b] \in s /\ \A u \in s : u.first <= tokens[b].first
    BY <1>2, <1>3, <1>6, <1>9
  <2>2. ASSUME NEW t \in s, \A u \in s : u.first <= t.first
        PROVE  t = tokens[b]
    <3>1. PICK c \in Own : t = tokens[c]
      BY <1>2
    <3>2. tokens[b].first <= tokens[c].first
      BY <2>1, <2>2, <3>1
    <3>3. c <= b /\ b <= c /\ c \in Nat /\ b \in Nat
      BY <1>3, <1>6, <1>9, <3>2
    <3> QED
      BY <3>1, <3>3
  <2>3. Sql!LastToken(s) = CHOOSE t \in s : \A u \in s : u.first <= t.first
    BY DEF Sql!LastToken
  <2> QED
    BY <2>1, <2>2, <2>3
<1>12. /\ tokens[a] \in s /\ tokens[b] \in s
       /\ tokens[a].type # "semi" /\ tokens[b].type # "semi"
       /\ Sql!Semis(tokens, a) = k /\ Sql!Semis(tokens, b) = k
       /\ \A c \in 1..Len(tokens) :
             tokens[c].type # "semi" /\ Sql!Semis(tokens, c) = k => a <= c /\ c <= b
  BY <1>2, <1>5, <1>6 DEF Own
<1> QED
  BY <1>3, <1>10, <1>11, <1>12 DEF s

\* A range goes from the first symbol of its statement's first token to the last
\* of its last token, or to one before it when that token goes over lines.
LEMMA SqlRangeEnds ==
    ASSUME NEW q \in Seq(Sql!Symbols), ~Sql!EscapedLast(q), NEW s \in Sql!TokenStatements(q)
    PROVE  LET tokens == Sql!Tokenize(q)
           IN  \E k \in Nat, a \in 1..Len(tokens), b \in 1..Len(tokens), e \in Int :
                 /\ s = Sql!Statement(tokens, k)
                 /\ Sql!Chars(q, s) = tokens[a].first .. e
                 /\ e <= tokens[b].last
                 /\ ~Sql!EndsInLines(q) => e = tokens[b].last
                 /\ tokens[a].type # "semi" /\ tokens[b].type # "semi"
                 /\ Sql!Semis(tokens, a) = k /\ Sql!Semis(tokens, b) = k
                 /\ \A c \in 1..Len(tokens) :
                       tokens[c].type # "semi" /\ Sql!Semis(tokens, c) = k =>
                           a <= c /\ c <= b
<1> DEFINE tokens == Sql!Tokenize(q)
<1>1. /\ tokens \in Seq(SqlTokens) /\ SqlInOrder(tokens)
      /\ \A k \in 1..Len(tokens) : SqlIsToken(q, tokens[k])
  BY SqlTokenized
<1>2. PICK k \in 0..Len(tokens) : s = Sql!Statement(tokens, k)
  BY DEF Sql!TokenStatements
<1>3. s # {}
  BY DEF Sql!TokenStatements
<1> HIDE DEF tokens
<1>4. Len(tokens) \in Nat /\ k \in Nat
  BY <1>1
<1>5. \A c \in 1..Len(tokens) :
          /\ tokens[c].first \in Nat \ {0} /\ tokens[c].last \in Nat
          /\ tokens[c].first <= tokens[c].last
  BY <1>1 DEF SqlIsToken, SqlTokens
<1>6. PICK a \in 1..Len(tokens), b \in 1..Len(tokens) :
          /\ Sql!FirstToken(s) = tokens[a] /\ Sql!LastToken(s) = tokens[b]
          /\ tokens[a].type # "semi" /\ tokens[b].type # "semi"
          /\ Sql!Semis(tokens, a) = k /\ Sql!Semis(tokens, b) = k
          /\ \A c \in 1..Len(tokens) :
                tokens[c].type # "semi" /\ Sql!Semis(tokens, c) = k => a <= c /\ c <= b
  BY <1>1, <1>2, <1>3, <1>5, SqlStatementEnds
<1> DEFINE e == Sql!LastCharPosition(q, tokens[b])
           from == Sql!LineStart(q, tokens[b].first)
           to == Sql!LineStart(q, tokens[b].last)
<1>7. from \in Nat /\ to \in Nat /\ from <= to
  BY <1>5, SqlLineStarts
<1>8. e = tokens[b].last - to + from
  BY DEF Sql!LastCharPosition
<1>9. Sql!Chars(q, s) = tokens[a].first .. e
  BY <1>6 DEF Sql!Chars
<1>10. ~Sql!EndsInLines(q) => from = to
  BY <1>6 DEF Sql!EndsInLines
<1> HIDE DEF e, from, to
<1>11. tokens[b].last \in Nat
  BY <1>5
<1>12. /\ e \in Int /\ e <= tokens[b].last
       /\ ~Sql!EndsInLines(q) => e = tokens[b].last
  BY <1>7, <1>8, <1>10, <1>11
<1> QED
  BY <1>2, <1>4, <1>6, <1>9, <1>12 DEF tokens

\* The statements of a query come one after the other.
LEMMA SqlRangesApart ==
    ASSUME NEW q \in Seq(Sql!Symbols), ~Sql!EscapedLast(q),
           NEW r \in Sql!StatementRanges(q), NEW t \in Sql!StatementRanges(q), r # t
    PROVE  r \cap t = {}
<1> DEFINE tokens == Sql!Tokenize(q)
<1>1. PICK s \in Sql!TokenStatements(q) : r = Sql!Chars(q, s)
  BY DEF Sql!StatementRanges
<1>2. PICK u \in Sql!TokenStatements(q) : t = Sql!Chars(q, u)
  BY DEF Sql!StatementRanges
<1>3. PICK k \in Nat, a \in 1..Len(tokens), b \in 1..Len(tokens), e \in Int :
          /\ s = Sql!Statement(tokens, k)
          /\ r = tokens[a].first .. e
          /\ e <= tokens[b].last
          /\ Sql!Semis(tokens, a) = k /\ Sql!Semis(tokens, b) = k
  BY <1>1, SqlRangeEnds
<1>4. PICK l \in Nat, c \in 1..Len(tokens), d \in 1..Len(tokens), f \in Int :
          /\ u = Sql!Statement(tokens, l)
          /\ t = tokens[c].first .. f
          /\ f <= tokens[d].last
          /\ Sql!Semis(tokens, c) = l /\ Sql!Semis(tokens, d) = l
  BY <1>2, SqlRangeEnds
<1>5. k # l
  BY <1>1, <1>2, <1>3, <1>4
<1>6. /\ tokens \in Seq(SqlTokens) /\ SqlInOrder(tokens)
      /\ \A n \in 1..Len(tokens) : SqlIsToken(q, tokens[n])
  BY SqlTokenized
<1> HIDE DEF tokens
<1>7. Len(tokens) \in Nat
  BY <1>6
<1>8. \A n \in 1..Len(tokens) : tokens[n].first \in Nat /\ tokens[n].last \in Nat
  BY <1>6 DEF SqlIsToken, SqlTokens
<1>9. ASSUME k < l PROVE r \cap t = {}
  <2>1. b < c
    <3>1. CASE c <= b
      <4>1. Sql!Semis(tokens, c) <= Sql!Semis(tokens, b)
        BY <1>6, <3>1, SqlSemisBetween
      <4> QED
        BY <1>3, <1>4, <1>9, <4>1
    <3> QED
      BY <1>7, <3>1
  <2>2. tokens[b].last < tokens[c].first
    BY <1>6, <2>1 DEF SqlInOrder
  <2> QED
    BY <1>3, <1>4, <1>8, <2>2
<1>10. ASSUME l < k PROVE r \cap t = {}
  <2>1. d < a
    <3>1. CASE a <= d
      <4>1. Sql!Semis(tokens, a) <= Sql!Semis(tokens, d)
        BY <1>6, <3>1, SqlSemisBetween
      <4> QED
        BY <1>3, <1>4, <1>10, <4>1
    <3> QED
      BY <1>7, <3>1
  <2>2. tokens[d].last < tokens[a].first
    BY <1>6, <2>1 DEF SqlInOrder
  <2> QED
    BY <1>3, <1>4, <1>8, <2>2
<1> QED
  BY <1>5, <1>9, <1>10

\* Where a token begins and ends there is text, but for the semicolons.
LEMMA SqlTokenIsText ==
    ASSUME NEW q \in Seq(Sql!Symbols), NEW t, SqlIsToken(q, t), t.type # "semi"
    PROVE  t.first \in Sql!Text(q) /\ t.last \in Sql!Text(q)
<1>1. DOMAIN q = 1..Len(q)
  OBVIOUS
<1>2. t.type \in {"string", "letter", "close"} /\ t.first \in Nat /\ t.last \in Nat
  BY DEF SqlIsToken, SqlTokens
<1>3. t.first \in Sql!Text(q)
  BY <1>1, <1>2 DEF SqlIsToken, Sql!Text
<1>4. CASE t.type = "string"
  <2>1. t.last \in (t.first + 1)..t.last
    BY <1>2, <1>4 DEF SqlIsToken
  <2>2. Sql!ReadIn(q)[t.last] = "quote"
    BY <1>4, <2>1 DEF SqlIsToken
  <2> QED
    BY <1>1, <1>3, <2>2 DEF SqlIsToken, Sql!Text
<1>5. CASE t.type # "string"
  BY <1>3, <1>5 DEF SqlIsToken
<1> QED
  BY <1>3, <1>4, <1>5

\* A token that a separator is in is that semicolon, and no text is in it.
LEMMA SqlSemiToken ==
    ASSUME NEW q \in Seq(Sql!Symbols), NEW t, SqlIsToken(q, t),
           NEW i \in 1..Len(q), t.first <= i, i <= t.last
    PROVE  /\ i \in Sql!Separators(q) => t.type = "semi" /\ t.first = i
           /\ t.type = "semi" => i \notin Sql!Text(q)
<1>1. t.type \in {"string", "letter", "semi", "close"} /\ t.first \in Nat /\ t.last \in Nat
  BY DEF SqlIsToken, SqlTokens
<1>2. CASE t.type = "string"
  <2>1. CASE i = t.first
    BY <1>2, <2>1 DEF SqlIsToken, Sql!Separators
  <2>2. CASE i # t.first
    <3>1. i \in (t.first + 1)..t.last
      BY <1>1, <2>2
    <3>2. Sql!ReadIn(q)[i] = "quote"
      BY <1>2, <3>1 DEF SqlIsToken
    <3> QED
      BY <1>2, <3>2 DEF Sql!Separators
  <2> QED
    BY <2>1, <2>2
<1>3. CASE t.type # "string"
  <2>1. i = t.first /\ q[i] = t.type /\ Sql!ReadIn(q)[i] = "base"
    BY <1>1, <1>3 DEF SqlIsToken
  <2> QED
    BY <2>1 DEF Sql!Separators, Sql!Text
<1> QED
  BY <1>2, <1>3

\* A range is of text at its ends, and no separator is in it.
LEMMA SqlRangeWithoutSeparators ==
    ASSUME NEW q \in Seq(Sql!Symbols), ~Sql!EscapedLast(q), NEW r \in Sql!StatementRanges(q)
    PROVE  /\ r \cap Sql!Separators(q) = {}
           /\ Sql!Min(r) \in Sql!Text(q)
           /\ ~Sql!EndsInLines(q) => Sql!Max(r) \in Sql!Text(q)
<1> DEFINE tokens == Sql!Tokenize(q)
<1>1. PICK s \in Sql!TokenStatements(q) : r = Sql!Chars(q, s)
  BY DEF Sql!StatementRanges
<1>2. r # {}
  BY DEF Sql!StatementRanges
<1>3. PICK k \in Nat, a \in 1..Len(tokens), b \in 1..Len(tokens), e \in Int :
          /\ r = tokens[a].first .. e
          /\ e <= tokens[b].last
          /\ ~Sql!EndsInLines(q) => e = tokens[b].last
          /\ tokens[a].type # "semi" /\ tokens[b].type # "semi"
          /\ Sql!Semis(tokens, a) = k /\ Sql!Semis(tokens, b) = k
  BY <1>1, SqlRangeEnds
<1>4. /\ tokens \in Seq(SqlTokens) /\ SqlInOrder(tokens)
      /\ \A n \in 1..Len(tokens) : SqlIsToken(q, tokens[n])
      /\ \A j \in Sql!Separators(q) : SqlInToken(tokens, j)
  BY SqlTokenized
<1> HIDE DEF tokens
<1>5. \A n \in 1..Len(tokens) : tokens[n].first \in Nat /\ tokens[n].last \in Nat
  BY <1>4 DEF SqlIsToken, SqlTokens
<1>6. tokens[a].first \in Nat /\ tokens[b].last \in Nat /\ tokens[a].first <= e
  BY <1>2, <1>3, <1>5
<1>7. r \cap Sql!Separators(q) = {}
  <2> SUFFICES ASSUME NEW i \in r, i \in Sql!Separators(q)
               PROVE  FALSE
    OBVIOUS
  <2>1. i \in 1..Len(q)
    BY DEF Sql!Separators
  <2>2. i \in Nat /\ tokens[a].first <= i /\ i <= tokens[b].last
    BY <1>3, <1>6, <2>1
  <2>3. PICK c \in 1..Len(tokens) : tokens[c].first <= i /\ i <= tokens[c].last
    BY <1>4 DEF SqlInToken
  <2>4. tokens[c].type = "semi" /\ tokens[c].first = i
    BY <1>4, <2>1, <2>3, SqlSemiToken
  <2>5. c # a /\ c # b
    BY <1>3, <2>4
  <2>6. Len(tokens) \in Nat
    BY <1>4
  <2>7. ~(c < a)
    <3>1. SUFFICES ASSUME c < a PROVE FALSE
      OBVIOUS
    <3>2. tokens[c].last < tokens[a].first
      BY <1>4, <3>1 DEF SqlInOrder
    <3> QED
      BY <1>5, <2>2, <2>3, <3>2
  <2>8. ~(b < c)
    <3>1. SUFFICES ASSUME b < c PROVE FALSE
      OBVIOUS
    <3>2. tokens[b].last < tokens[c].first
      BY <1>4, <3>1 DEF SqlInOrder
    <3> QED
      BY <1>5, <2>2, <2>3, <3>2
  <2>9. c \in a..(b - 1) /\ a <= b
    BY <2>5, <2>6, <2>7, <2>8
  <2>10. Sql!Semis(tokens, a) < Sql!Semis(tokens, b)
    BY <1>4, <2>4, <2>9, SqlSemisBetween
  <2> QED
    BY <1>3, <2>10
<1>8. Sql!Min(r) = tokens[a].first
  <2>1. tokens[a].first \in r /\ \A y \in r : tokens[a].first <= y
    BY <1>3, <1>6
  <2>2. \A x \in r : (\A y \in r : x <= y) => x = tokens[a].first
    BY <1>3, <1>6, <2>1
  <2>3. Sql!Min(r) = CHOOSE x \in r : \A y \in r : x =< y
    BY DEF Sql!Min
  <2> QED
    BY <2>1, <2>2, <2>3
<1>9. Sql!Max(r) = e
  <2>1. e \in r /\ \A y \in r : e >= y
    BY <1>3, <1>6
  <2>2. \A x \in r : (\A y \in r : x >= y) => x = e
    BY <1>3, <1>6, <2>1
  <2>3. Sql!Max(r) = CHOOSE x \in r : \A y \in r : x >= y
    BY DEF Sql!Max
  <2> QED
    BY <2>1, <2>2, <2>3
<1>10. tokens[a].first \in Sql!Text(q) /\ tokens[b].last \in Sql!Text(q)
  BY <1>3, <1>4, SqlTokenIsText
<1> QED
  BY <1>3, <1>7, <1>8, <1>9, <1>10

\* All of the text is in a statement, but for a string that is not closed.
LEMMA SqlTextInStatement ==
    ASSUME NEW q \in Seq(Sql!Symbols), ~Sql!EscapedLast(q), ~Sql!EndsInLines(q),
           NEW i \in Sql!Text(q), i \notin Sql!Unclosed(q)
    PROVE  \E r \in Sql!StatementRanges(q) : i \in r
<1> DEFINE tokens == Sql!Tokenize(q)
<1>1. /\ tokens \in Seq(SqlTokens) /\ SqlInOrder(tokens)
      /\ \A n \in 1..Len(tokens) : SqlIsToken(q, tokens[n])
      /\ \A j \in 1..Len(q) : SqlIsRead(q, j) =>
            SqlInToken(tokens, j) \/ j \in Sql!Unclosed(q)
  BY SqlTokenized
<1>2. i \in 1..Len(q)
  BY DEF Sql!Text
<1>3. SqlIsRead(q, i)
  BY DEF Sql!Text, SqlIsRead
<1> HIDE DEF tokens
<1>4. PICK c \in 1..Len(tokens) : tokens[c].first <= i /\ i <= tokens[c].last
  BY <1>1, <1>2, <1>3 DEF SqlInToken
<1>5. tokens[c].type # "semi"
  BY <1>1, <1>2, <1>4, SqlSemiToken
<1> DEFINE k == Sql!Semis(tokens, c)
           s == Sql!Statement(tokens, k)
<1>6. c <= c /\ c \in DOMAIN tokens /\ Len(tokens) \in Nat
  BY <1>1
<1>7. k \in 0..Len(tokens)
  BY <1>1, <1>6, SqlSemisBetween
<1>8. tokens[c] \in s
  BY <1>5, <1>6 DEF Sql!Statement
<1> HIDE DEF k
<1>9. s \in Sql!TokenStatements(q)
  BY <1>7, <1>8 DEF Sql!TokenStatements, tokens
<1> HIDE DEF s
<1>10. PICK l \in Nat, a \in 1..Len(tokens), b \in 1..Len(tokens), e \in Int :
          /\ s = Sql!Statement(tokens, l)
          /\ Sql!Chars(q, s) = tokens[a].first .. e
          /\ e = tokens[b].last
          /\ \A d \in 1..Len(tokens) :
                tokens[d].type # "semi" /\ Sql!Semis(tokens, d) = l => a <= d /\ d <= b
  BY <1>9, SqlRangeEnds DEF tokens
<1>11. PICK d \in 1..Len(tokens) :
          tokens[d] = tokens[c] /\ tokens[d].type # "semi" /\ Sql!Semis(tokens, d) = l
  BY <1>1, <1>8, <1>10 DEF Sql!Statement
<1>12. \A n \in 1..Len(tokens) :
          /\ tokens[n].first \in Nat /\ tokens[n].last \in Nat
          /\ tokens[n].first <= tokens[n].last
  <2> TAKE n \in 1..Len(tokens)
  <2>1. SqlIsToken(q, tokens[n])
    BY <1>1
  <2>2. tokens[n].first \in Nat /\ tokens[n].last \in Nat
    BY <2>1 DEF SqlIsToken, SqlTokens
  <2> QED
    BY <2>1, <2>2 DEF SqlIsToken
<1>13. a <= d /\ d <= b
  BY <1>10, <1>11
<1>14. tokens[a].first <= tokens[d].first
  <2>1. CASE a = d
    BY <1>12, <2>1
  <2>2. CASE a < d
    <3>1. tokens[a].last < tokens[d].first
      BY <1>1, <2>2 DEF SqlInOrder
    <3> QED
      BY <1>12, <3>1
  <2> QED
    BY <1>6, <1>13, <2>1, <2>2
<1>15. tokens[d].last <= tokens[b].last
  <2>1. CASE d = b
    BY <1>12, <2>1
  <2>2. CASE d < b
    <3>1. tokens[d].last < tokens[b].first
      BY <1>1, <2>2 DEF SqlInOrder
    <3> QED
      BY <1>12, <3>1
  <2> QED
    BY <1>6, <1>13, <2>1, <2>2
<1>16. i \in Sql!Chars(q, s)
  <2>1. tokens[d].first <= i /\ i <= tokens[d].last /\ i \in Nat
    BY <1>2, <1>4, <1>11
  <2> QED
    BY <1>10, <1>12, <1>14, <1>15, <2>1
<1> QED
  BY <1>9, <1>16 DEF Sql!StatementRanges

SqlTypeOK == query \in Seq(Sql!Symbols)

\* A query is any sequence of symbols.
LEMMA SqlTyping == Spec => []SqlTypeOK
<1>1. Init => SqlTypeOK
  BY DEF Init, SqlTypeOK, Sql!Init
<1>2. SqlTypeOK /\ [Next]_vars => SqlTypeOK'
  <2> SUFFICES ASSUME SqlTypeOK, [Next]_vars
               PROVE  SqlTypeOK'
    OBVIOUS
  <2>1. CASE UNCHANGED query
    BY <2>1 DEF SqlTypeOK
  <2>2. CASE SqlNext
    BY <2>2 DEF SqlNext, Sql!Next, Sql!Type, SqlTypeOK
  <2>3. UNCHANGED query \/ SqlNext
    BY DEF Next, vars, KernelNext, ResultsNext, SearchNext, NavigatorNext, BoardNext,
           CellNext, DebounceNext, EditorNext, BeatNext, TasksNext, DocRunNext, pageVars
  <2> QED
    BY <2>1, <2>2, <2>3
<1> QED
  BY <1>1, <1>2, PTL DEF Spec

\* However a query is typed and however long it is: its statements begin with
\* text, do not overlap and hold no separator, and all of the text is in them,
\* but for the symbols that no token is and the named strings.
THEOREM QueriesAreSplitAtTheirSeparators == Spec => []SplitsTheQuery
<1>1. SqlTypeOK => SplitsTheQuery
  <2> SUFFICES ASSUME query \in Seq(Sql!Symbols), ~Sql!EscapedLast(query)
               PROVE  Sql!SplitsTheQuery
    BY DEF SqlTypeOK, SplitsTheQuery, Sql!SplitsTheQuery
  <2>1. \A r, t \in Sql!StatementRanges(query) : r # t => r \cap t = {}
    BY SqlRangesApart
  <2>2. \A r \in Sql!StatementRanges(query) :
            /\ r \cap Sql!Separators(query) = {}
            /\ Sql!Min(r) \in Sql!Text(query)
            /\ ~Sql!EndsInLines(query) => Sql!Max(r) \in Sql!Text(query)
    BY SqlRangeWithoutSeparators
  <2>3. ~Sql!EndsInLines(query) =>
            Sql!Text(query) \ Sql!Unclosed(query) \subseteq UNION Sql!StatementRanges(query)
    BY SqlTextInStatement
  <2> QED
    BY <2>1, <2>2, <2>3 DEF Sql!SplitsTheQuery
<1> QED
  BY <1>1, SqlTyping, PTL

=============================================================================
