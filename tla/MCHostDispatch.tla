--------------------------- MODULE MCHostDispatch ---------------------------
(* Values of the constants of HostDispatch for model checking. *)
EXTENDS HostDispatch

CONSTANTS t1, t2, n1, n2

OneTask == {t1}
TwoTasks == {t1, t2}
OneNode == {n1}
TwoNodes == {n1, n2}

\* A task any node may take, and one only a client should take.
AnyTarget == [t \in Tasks |-> "Any"]
MixedTarget == [t \in Tasks |-> IF t = t1 THEN "Any" ELSE "Remote"]
AllSplit == [t \in Tasks |-> TRUE]
TwoValues == [t \in Tasks |-> 2]
=============================================================================
