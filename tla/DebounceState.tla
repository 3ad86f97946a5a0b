--------------------------- MODULE DebounceState ----------------------------
(***************************************************************************)
(* The hook useDebounceState, behind text cells, the ad hoc query and the  *)
(* search inputs: a value that is shown and edited at once and set in its  *)
(* owner (a store, a parent) once the typing pauses.  Others set the value *)
(* of the owner, too.  A render runs both effects.                         *)
(***************************************************************************)
CONSTANTS
    Values,
    None

VARIABLES
    value,          \* of the owner
    cached,         \* shown
    last,           \* lastValueUpdatedRef
    timer,          \* the value that setValueDebounced is to set, or None
    apart           \* the value that waits, or was set, is not the one shown

dvars == <<value, cached, last, timer, apart>>

Init ==
    /\ value \in Values
    /\ cached = value
    /\ last = value
    /\ timer = None
    /\ apart = FALSE

\* The second effect arms the timer, unless the owner has the value already:
\* what was typed away in time is still set.
Type(v) ==
    /\ v # cached
    /\ cached' = v
    /\ timer' = IF v # value THEN v ELSE timer
    /\ apart' = (v = value /\ timer # None)
    /\ UNCHANGED <<value, last>>

\* The first effect leaves what is shown alone: the value is the hook's own.
Fire ==
    /\ timer # None
    /\ value' = timer
    /\ last' = timer
    /\ timer' = None
    /\ UNCHANGED <<cached, apart>>

\* Broken variant: what was typed is kept over what another sets.
OwnerSetsBehind(v) ==
    /\ v # value
    /\ value' = v
    /\ last' = v
    /\ apart' = (timer # None)
    /\ UNCHANGED <<cached, timer>>

\* The first effect shows it, as it is not the last value that the hook set; a
\* value that waits is set after all.
OwnerSets(v) ==
    /\ v # value
    /\ v # last
    /\ value' = v
    /\ cached' = v
    /\ last' = v
    /\ apart' = (timer # None)
    /\ UNCHANGED timer

Next ==
    \/ \E v \in Values : Type(v) \/ OwnerSets(v)
    \/ Fire

Spec == Init /\ [][Next]_dvars

-----------------------------------------------------------------------------

\* Once the typing paused the owner has what is shown.  It has not after what
\* was typed was typed away again, or met a value set by another, while it
\* waited; until the next edit or value.
OwnerHasWhatIsShown == timer = None /\ ~apart => value = cached

=============================================================================
