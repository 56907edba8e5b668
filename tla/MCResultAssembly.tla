-------------------------- MODULE MCResultAssembly --------------------------
(* Values of the constants of ResultAssembly for model checking. *)
EXTENDS ResultAssembly

CONSTANTS r1, r2, t1, t2

TwoThreads == {r1, r2}
BothTasks  == {t1, t2}

\* Two parts each.
TwoEach == [t \in Tasks |-> 2]
=============================================================================
