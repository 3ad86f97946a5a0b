-------------------------- MODULE MCDataDocSaving --------------------------
(***************************************************************************)
(* Instances of DataDocSaving for TLC: the cfg files give the fields, the  *)
(* faults and the bounds.                                                  *)
(***************************************************************************)
EXTENDS DataDocSaving

\* The fields are interchangeable, and liveness rules out SYMMETRY: explore
\* the behaviours whose first edit sets a fixed field.
FirstField ==
    change = << >> \/ change[1] = CHOOSE f \in Fields : TRUE

\* A fourth edit is made by behaviours without a forced save only.
Bounded == FirstField /\ (Len(change) <= 3 \/ NoneForced)

=============================================================================
