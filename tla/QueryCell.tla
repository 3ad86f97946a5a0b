----------------------------- MODULE QueryCell ------------------------------
(***************************************************************************)
(* A query cell on one page: what the editor shows (the state of           *)
(* DataDocQueryCell), the store, the saver of the cell and the row of the  *)
(* server, which a collaborator changes, too.  A cell has a context (the   *)
(* query) and a meta (engine, title, limits), each a version number.  A    *)
(* patch gives some of them a version.                                     *)
(***************************************************************************)
EXTENDS Naturals, Sequences

CONSTANTS
    MaxVersion,     \* bound: edits of the page and of the collaborator
    None

VARIABLES
    shown,          \* state.query and state.meta
    stored,         \* dataDocCellById of the store, the props of the cell
    timer,          \* the patch that onChangeDebounced is to hand over
    saver, saving,  \* the patch in the saver, the patch on its way
    server,
    inbox,          \* data_cell_updated of the collaborator: the whole cell
    version,
    dropped,        \* fields of edits that the next edit took the timer from
    crossed         \* a collaborator's change met one that was not saved

cvars == <<shown, stored, timer, saver, saving, server, inbox, version, dropped, crossed>>

Fields == {"context", "meta"}
NoPatch == << >>

\* {...cell, ...patch}
Spread(cell, patch) ==
    [f \in DOMAIN cell \cup DOMAIN patch |->
        IF f \in DOMAIN patch THEN patch[f] ELSE cell[f]]

Init ==
    /\ shown = [f \in Fields |-> 0]
    /\ stored = shown
    /\ timer = NoPatch
    /\ saver = NoPatch
    /\ saving = None
    /\ server = shown
    /\ inbox = <<>>
    /\ version = 0
    /\ dropped = {}
    /\ crossed = FALSE

Unsaved == timer # NoPatch \/ saver # NoPatch \/ saving # None

-----------------------------------------------------------------------------
(* The page *)

\* handleChange (context), handleMetaChange (meta), handleTranspileQuery
\* (both): one timer for all, which keeps the arguments of the last call.
Change(fs) ==
    /\ version < MaxVersion
    /\ version' = version + 1
    /\ timer' = [f \in fs |-> version']
    /\ shown' = Spread(shown, timer')
    /\ dropped' = (dropped \ fs) \cup (DOMAIN timer \ fs)
    /\ crossed' = (crossed \/ inbox # <<>>)
    /\ UNCHANGED <<stored, saver, saving, server, inbox>>

\* Broken variant: the saver keeps the last patch only.
TakeLast(patch) == saver' = patch

\* saveDataCell batches with spreadMergeFunction
Take(patch) == saver' = Spread(saver, patch)

\* updateDataDocCell: the store, and through its props the cell, and the saver
Debounced ==
    /\ timer # NoPatch
    /\ stored' = Spread(stored, timer)
    /\ shown' = Spread(shown, timer)
    /\ Take(timer)
    /\ timer' = NoPatch
    /\ UNCHANGED <<saving, server, inbox, version, dropped, crossed>>

\* forceSaveQuery, before a title is generated: the query goes to the saver
\* at once, the timer stays.
ForceSaveQuery ==
    /\ stored' = [stored EXCEPT !.context = shown.context]
    /\ Take([context |-> shown.context])
    /\ dropped' = dropped \ {"context"}
    /\ crossed' = (crossed \/ inbox # <<>>)
    /\ UNCHANGED <<shown, timer, saving, server, inbox, version>>

\* the batch's timer, or forceSaveDataCell
Save ==
    /\ saver # NoPatch
    /\ saving = None
    /\ saving' = saver
    /\ saver' = NoPatch
    /\ UNCHANGED <<shown, stored, timer, server, inbox, version, dropped,
                   crossed>>

\* The event of the page's own change is ignored (isSameOrigin).
Saved ==
    /\ saving # None
    /\ server' = Spread(server, saving)
    /\ saving' = None
    /\ UNCHANGED <<shown, stored, timer, saver, inbox, version, dropped,
                   crossed>>

-----------------------------------------------------------------------------
(* A collaborator *)

RemoteChange(f) ==
    /\ version < MaxVersion
    /\ version' = version + 1
    /\ server' = [server EXCEPT ![f] = version']
    /\ inbox' = Append(inbox, server')
    /\ crossed' = (crossed \/ Unsaved)
    /\ UNCHANGED <<shown, stored, timer, saver, saving, dropped>>

\* updateDataCell, then componentDidUpdate: the context is taken over when it
\* differs from the one before, the meta always, as it is another object.
Receive ==
    /\ inbox # <<>>
    /\ stored' = Head(inbox)
    /\ shown' = [shown EXCEPT
                   !.context = IF stored'.context = stored.context THEN @
                               ELSE stored'.context,
                   !.meta = stored'.meta]
    /\ inbox' = Tail(inbox)
    /\ UNCHANGED <<timer, saver, saving, server, version, dropped,
                   crossed>>

Next ==
    \/ \E fs \in {{"context"}, {"meta"}, Fields} : Change(fs)
    \/ Debounced \/ ForceSaveQuery \/ Save \/ Saved
    \/ \E f \in Fields : RemoteChange(f)
    \/ Receive

Spec == Init /\ [][Next]_cvars

-----------------------------------------------------------------------------

\* Once nothing waits, the page shows what the store and the server have,
\* whatever was typed, chosen, forced and received in between.  A field need
\* not be shown as it is stored when an edit of the other one took the timer
\* from its edit, and nothing need agree after a collaborator's change crossed
\* one of the page.
PageShowsTheCell ==
    ~Unsaved /\ inbox = <<>> /\ ~crossed =>
        /\ stored = server
        /\ \A f \in Fields \ dropped : shown[f] = stored[f]

=============================================================================
