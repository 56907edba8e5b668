-------------------------- MODULE MCHostLifecycle --------------------------
(* Values of the constants of HostLifecycle for model checking. *)
EXTENDS HostLifecycle

CONSTANTS c1, c2

TwoClients == {c1, c2}
=============================================================================
