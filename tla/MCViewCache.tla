---------------------------- MODULE MCViewCache ----------------------------
(* Values of the constants of ViewCache for model checking. *)
EXTENDS ViewCache

CONSTANTS home, away

BothPositions == {home, away}

\* The defaults, or somewhere else.
TwoSaved == {<<home, 0>>, <<away, 1>>}
=============================================================================
