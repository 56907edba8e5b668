---------------------------- MODULE MCHostSystem ----------------------------
(* Values of the constants of HostSystem for model checking. *)
EXTENDS HostSystem

CONSTANTS r1, r2, t1, t2

TwoThreads == {r1, r2}
BothTasks  == {t1, t2}

\* A task of two parts and one of one part.
TwoAndOne == [t \in Tasks |-> IF t = t1 THEN 2 ELSE 1]
=============================================================================
