----------------------------- MODULE PartService -----------------------------
(***************************************************************************)
(* What a ClusterFrac host promises about each part of the tasks it is     *)
(* given: the part is answered at most once, a part handed to an owner is  *)
(* taken from the waiting ones, a part comes back only from its owner, and *)
(* an answered or lost part stays so.                                      *)
(***************************************************************************)
CONSTANT Parts

VARIABLE status

Status == {"none", "waiting", "owned", "answered", "lost"}

TypeOK == status \in [Parts -> Status]

Init == status = [p \in Parts |-> "none"]

\* The parts S, all in state from, go over to state to.
Move(S, from, to) ==
  /\ S # {}
  /\ \A p \in S : status[p] = from
  /\ status' = [p \in Parts |-> IF p \in S THEN to ELSE status[p]]

Create(S)  == Move(S, "none", "waiting")
Assign(p)  == Move({p}, "waiting", "owned")
Return(S)  == Move(S, "owned", "waiting")
Answer(p)  == Move({p}, "owned", "answered")
Abandon(S) == Move(S, "waiting", "lost") \/ Move(S, "owned", "lost")

Next ==
  \/ \E S \in SUBSET Parts : Create(S) \/ Return(S) \/ Abandon(S)
  \/ \E p \in Parts : Assign(p) \/ Answer(p)

Spec == Init /\ [][Next]_status
=============================================================================
