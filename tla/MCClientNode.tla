---------------------------- MODULE MCClientNode ----------------------------
(* Values of the constants of ClientNode for model checking. *)
EXTENDS ClientNode

CONSTANTS t1, t2

TwoTasks == {t1, t2}
=============================================================================
