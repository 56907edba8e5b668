---------------------------- MODULE MCSplitMerge ----------------------------
(* Values of the constants of SplitMerge for model checking. *)
EXTENDS SplitMerge

\* From fewer values than clients to more than every split leaves over.
UpToTen   == {<<1, n>> : n \in 1 .. 10}
UpToThree == {1, 2, 3}
=============================================================================
