--------------------------- MODULE QueryLifecycle ---------------------------
(***************************************************************************)
(* What a user of Querybook is promised about a query execution that       *)
(* nobody cancels: it is possibly reviewed, started at most once, and ends *)
(* once, in a status that never changes again.                             *)
(***************************************************************************)
EXTENDS Naturals

VARIABLES status, launches

lvars == <<status, launches>>

LInit == status = "NONE" /\ launches = 0

Receive ==
    /\ status = "NONE"
    /\ status' \in {"PENDING_REVIEW", "INITIALIZED"}
    /\ UNCHANGED launches

Decide ==
    /\ status = "PENDING_REVIEW"
    /\ status' \in {"INITIALIZED", "REJECTED"}
    /\ UNCHANGED launches

Begin ==
    /\ status = "INITIALIZED"
    /\ launches = 0
    /\ status' = "RUNNING"
    /\ launches' = 1

Complete ==
    /\ status = "RUNNING"
    /\ status' = "DONE"
    /\ UNCHANGED launches

Fail ==
    /\ status \in {"INITIALIZED", "RUNNING"}
    /\ status' = "ERROR"
    /\ UNCHANGED launches

LNext == Receive \/ Decide \/ Begin \/ Complete \/ Fail

LSpec == LInit /\ [][LNext]_lvars

=============================================================================
