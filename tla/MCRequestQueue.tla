--------------------------- MODULE MCRequestQueue ---------------------------
(***************************************************************************)
(* Instances of RequestQueue for TLC.                                      *)
(***************************************************************************)
EXTENDS RequestQueue, TLC

\* Runs are interchangeable; requests of different sources are not.
Symmetry == Permutations(Runs)

=============================================================================
