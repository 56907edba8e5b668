---------------------------- MODULE PacketChannel ----------------------------
(***************************************************************************)
(* What a connection promises to those who send whole packets over it, as  *)
(* HostDispatch and ClientNode do: the packets come in the order in which  *)
(* they were sent, each once and unchanged, up to the first one that was   *)
(* cut.  That one may still come; what comes after it is anything.         *)
(***************************************************************************)
EXTENDS Integers, Sequences

CONSTANT Payloads

VARIABLES
  sent,      \* the packets sent
  received,  \* the packets received
  whole,     \* no packet was cut
  intact     \* how many packets come as they were sent

vars == <<sent, received, whole, intact>>

Init == sent = <<>> /\ received = <<>> /\ whole = TRUE /\ intact = 0

Send(d) ==
  /\ sent' = Append(sent, d)
  /\ intact' = IF whole THEN intact + 1 ELSE intact
  /\ UNCHANGED <<received, whole>>

\* The last packet is cut, which has not been received.
Cut ==
  /\ whole /\ Len(received) < intact
  /\ whole' = FALSE /\ intact' \in {intact, intact - 1}
  /\ UNCHANGED <<sent, received>>

Deliver ==
  /\ Len(received) < intact
  /\ received' = Append(received, sent[Len(received) + 1])
  /\ UNCHANGED <<sent, whole, intact>>

\* Some packet comes that need not have been sent.
Corrupt ==
  /\ ~whole /\ Len(received) >= intact
  /\ Len(received') = Len(received) + 1
  /\ SubSeq(received', 1, Len(received)) = received
  /\ UNCHANGED <<sent, whole, intact>>

Next == (\E d \in Payloads : Send(d)) \/ Cut \/ Deliver \/ Corrupt

Spec == Init /\ [][Next]_vars
=============================================================================
