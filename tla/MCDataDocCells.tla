--------------------------- MODULE MCDataDocCells ---------------------------
(***************************************************************************)
(* Instances of DataDocCells for TLC: the cfg files give the documents,    *)
(* the cells and the authors.                                              *)
(***************************************************************************)
EXTENDS DataDocCells, TLC

\* Nothing tells documents, cells or authors apart.
Symmetry == Permutations(Docs) \cup Permutations(Cells)
              \cup Permutations(Authors)

\* Positions that are torn drift apart without bound, and nothing is claimed
\* of them: TLC looks no further.
NotTorn == ~torn

=============================================================================
