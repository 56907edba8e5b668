---------------------------- MODULE PacketStream ----------------------------
(***************************************************************************)
(* One direction of one connection: work packets through a non-blocking    *)
(* sf::TcpSocket, from the sender thread of the host to the listener of a  *)
(* node, or from the sender of a node to a receive thread of the host.     *)
(*                                                                         *)
(* WorkPacket::onSend runs at every call of send, so it appends the flag   *)
(* once more when a packet goes on after Partial.  The socket resumes at   *)
(* the position it had reached in the block it made before.                *)
(*                                                                         *)
(* Bytes are digits below Base, a size takes two of them, and packets are  *)
(* short.  The first two bytes of a payload are its type and its subtype.  *)
(* A byte of compressed data also says what it is compressed from: zlib is *)
(* external, and makes of bytes of a stream what was compressed to it, or  *)
(* not as many bytes as were announced.                                    *)
(***************************************************************************)
EXTENDS Integers, SequencesExt

CONSTANTS
  Base,         \* the number of values of a byte
  Payloads,     \* what tasks and results are serialised to
  Rooms,        \* the numbers of bytes a connection may hold
  MaxPackets,   \* bound: packets sent
  MaxPartials   \* bound: send calls that return Partial

Digit == 0 .. Base - 1

\* WorkPacket::Flag.
None    == 0
Task    == 1
Result  == 2
Invalid == 3   \* any other value

ASSUME StreamConstants ==
  /\ Base \in Nat /\ Base > Invalid
  /\ Payloads \subseteq Seq(Digit)
  /\ \A d \in Payloads : 1 < Len(d) /\ Len(d) + MaxPartials + 4 < Base * Base
  /\ Rooms \subseteq Nat \ {0}
  /\ MaxPackets \in Nat /\ MaxPartials \in Nat

VARIABLES
  compression,  \* the option, the same at both ends
  flag,         \* Task towards a node, Result towards the host
  room,         \* bytes the connection holds between the two programs
  \* the sender
  sending,      \* inside the loop that sends one packet
  data,         \* sf::Packet::m_data
  sendPos,      \* sf::Packet::m_sendPos
  open,         \* FALSE once a send was answered with an error
  \* the connection and the receiver
  wire,         \* bytes under way
  pending,      \* sf::TcpSocket::m_pendingPacket: size bytes, then data
  thrown,       \* the receiving thread ended with an exception
  \* history
  sent,         \* what was given to send, in order
  received,     \* what the receiver took for a task or a result, in order
  partials,     \* calls that returned Partial
  cut           \* which packet was the first that was cut, and where

vars == <<compression, flag, room, sending, data, sendPos, open, wire, pending,
          thrown, sent, received, partials, cut>>

Byte(v, of) == [v |-> v, of |-> of]
Bytes == [v : Nat, of : Seq(Nat)]

\* Bytes as they are, and bytes that only zlib can read.
Plain(s)    == [i \in DOMAIN s |-> Byte(s[i], <<>>)]
Deflated(s) == [i \in DOMAIN s |-> Byte(s[i], s)]
Values(b)   == [i \in DOMAIN b |-> b[i].v]

\* A size as two bytes, and the two bytes read as a size.
Size(n)   == Plain(<<n \div Base, n % Base>>)
SizeOf(b) == Base * b[1].v + b[2].v

\* onSend's result for the data d, the flag included.
Body(d) == IF compression THEN Size(Len(d)) \o Deflated(d) ELSE Plain(d)

\* What sf::TcpSocket::send makes of it.
Block(d) == Size(Len(Body(d))) \o Body(d)

\* The size bytes and as many bytes as they say have come.
Complete(p) == Len(p) >= 2 /\ Len(p) = 2 + SizeOf(p)

Unflag(s) == [flag |-> Last(s), data |-> Front(s)]

\* What the bytes behind the size of a compressed packet are compressed from.
Streams(b) == {b[i].of : i \in 3 .. Len(b)}

\* What onReceive may make of the bytes b when it does not throw: of compressed
\* ones only what has as many bytes as they announce.
Meanings(b) ==
  IF compression
  THEN {Unflag(s) : s \in {t \in Streams(b) : t # <<>> /\ Len(t) = SizeOf(b)}}
  ELSE {Unflag(Values(b))}

\* Data that begins with the type and a subtype the receiver can construct.
Typed(d) == Len(d) > 1 /\ \E e \in Payloads : d[1] = e[1] /\ d[2] = e[2]

TypeOK ==
  /\ compression \in BOOLEAN /\ flag \in {Task, Result} /\ room \in Rooms
  /\ sending \in BOOLEAN /\ open \in BOOLEAN /\ thrown \in BOOLEAN
  /\ data \in Seq(Nat) /\ sendPos \in Nat
  /\ wire \in Seq(Bytes) /\ pending \in Seq(Bytes)
  /\ sent \in Seq(Payloads) /\ received \in Seq(Seq(Nat))
  /\ partials \in 0 .. MaxPartials /\ cut \in Nat \X Nat

Init ==
  /\ compression \in BOOLEAN /\ flag \in {Task, Result} /\ room \in Rooms
  /\ sending = FALSE /\ data = <<>> /\ sendPos = 0 /\ open = TRUE
  /\ wire = <<>> /\ pending = <<>> /\ thrown = FALSE
  /\ sent = <<>> /\ received = <<>> /\ partials = 0 /\ cut = <<0, 0>>

options == <<compression, flag, room>>
senderVars   == <<sending, data, sendPos, open, sent, partials, cut>>
receiverVars == <<pending, thrown, received>>

-----------------------------------------------------------------------------
(* The sender: one packet is serialised, then send is called until it is     *)
(* Done.                                                                     *)

Serialize(d) ==
  /\ open /\ ~sending /\ Len(sent) < MaxPackets
  /\ sending' = TRUE
  /\ data' = d /\ sendPos' = 0
  /\ sent' = Append(sent, d)
  /\ UNCHANGED <<options, open, partials, cut, wire, receiverVars>>

\* Mutant: the flag is left out.
OnSendBare == data

\* Mutant: after Partial the block is sent from its start again.
RestFromStart == Block(Append(data, flag))

\* onSend appends the flag to the data at every call.
OnSend == Append(data, flag)

\* What of the block is still to be sent, and how much of it there is room for.
Rest == SubSeq(Block(OnSend), sendPos + 1, Len(Block(OnSend)))
Space == room - Len(wire)

SendDone ==
  /\ sending /\ Len(Rest) <= Space
  /\ wire' = wire \o Rest
  /\ data' = <<>> /\ sendPos' = 0
  /\ sending' = FALSE
  /\ UNCHANGED <<options, open, sent, partials, cut, receiverVars>>

SendPartial ==
  /\ sending /\ 0 < Space /\ Space < Len(Rest)
  /\ partials < MaxPartials
  /\ wire' = wire \o SubSeq(Rest, 1, Space)
  /\ data' = OnSend /\ sendPos' = sendPos + Space
  /\ partials' = partials + 1
  /\ cut' = IF partials = 0 THEN <<Len(sent), sendPos + Space>> ELSE cut
  /\ UNCHANGED <<options, sending, open, sent, receiverVars>>

\* No room at all: NotReady, which both senders take for an error.  The host
\* throws, a node gives the connection up.
SendRefused ==
  /\ sending /\ Space = 0
  /\ sending' = FALSE /\ open' = FALSE
  /\ UNCHANGED <<options, data, sendPos, sent, partials, cut, wire,
                 receiverVars>>

-----------------------------------------------------------------------------
(* The receiver: sf::TcpSocket::receive collects bytes; a packet that is     *)
(* complete goes through onReceive and to the thread that asked for it.      *)

Got == Append(pending, Head(wire))

ReadByte ==
  /\ ~thrown /\ wire # <<>>
  /\ wire' = Tail(wire)

ReceiveSome ==
  /\ ReadByte /\ ~Complete(Got)
  /\ pending' = Got
  /\ UNCHANGED <<options, senderVars, thrown, received>>

\* A packet without data does not reach onReceive.
ReceiveEmpty ==
  /\ ReadByte /\ Complete(Got) /\ Len(Got) = 2
  /\ pending' = <<>>
  /\ UNCHANGED <<options, senderVars, thrown, received>>

\* What the packet that the next byte completes may be taken for.
Packets ==
  IF wire # <<>> /\ Complete(Got) /\ Len(Got) > 2
  THEN Meanings(SubSeq(Got, 3, Len(Got)))
  ELSE {}

\* onReceive throws at a size mismatch.  As the size of its buffer is not
\* initialised, it may be too small for any compressed packet.
Mismatch ==
  /\ ReadByte /\ Complete(Got) /\ Len(Got) > 2
  /\ compression
  /\ pending' = <<>> /\ thrown' = TRUE
  /\ UNCHANGED <<options, senderVars, received>>

ReceivePacket(m) ==
  /\ ReadByte /\ m \in Packets
  /\ pending' = <<>>
  /\ UNCHANGED <<options, senderVars>>

\* A task or a result, as the receiver expects one.
Known(m) == m.flag = flag /\ Typed(m.data)

\* An unknown packet, and for a node one without data.
Unknown(m) == m.flag = None \/ (flag = Task /\ m.data = <<>>)

Accept(m) ==
  /\ ReceivePacket(m) /\ Known(m)
  /\ received' = Append(received, m.data)
  /\ UNCHANGED thrown

Ignore(m) ==
  /\ ReceivePacket(m) /\ Unknown(m)
  /\ UNCHANGED <<thrown, received>>

\* Invalid flag data, or an unknown type or subtype.
Throw(m) ==
  /\ ReceivePacket(m) /\ ~Known(m) /\ ~Unknown(m)
  /\ thrown' = TRUE
  /\ UNCHANGED received

Send == SendDone \/ SendPartial \/ SendRefused

Receive ==
  \/ ReceiveSome
  \/ ReceiveEmpty
  \/ Mismatch
  \/ \E m \in Packets : Accept(m) \/ Ignore(m) \/ Throw(m)

Next == (\E d \in Payloads : Serialize(d)) \/ Send \/ Receive

Spec == Init /\ [][Next]_vars

\* The sender calls send in a loop and the receiver polls its socket.
FairSpec == Spec /\ WF_vars(Send) /\ WF_vars(Receive)

-----------------------------------------------------------------------------
(* Properties. *)

\* How many packets are safe: all as long as none was cut; then the ones before
\* the first one cut and, if it is not compressed and its size bytes were
\* through, that one too.
Safe ==
  CASE partials = 0 -> Len(sent)
    [] partials > 0 /\ ~compression /\ cut[2] >= 2 -> cut[1]
    [] OTHER -> cut[1] - 1

\* Up to the safe packets the receiver gets what was sent: nothing is lost,
\* repeated, reordered or changed, and without compression nothing makes it
\* throw (onSend and onReceive, WorkPacket.cpp:37-138).
IntactUpToCut ==
  /\ \A k \in 1 .. Len(received) : k <= Safe => received[k] = sent[k]
  /\ partials = 0 =>
       /\ Len(received) <= Len(sent)
       /\ ~compression => ~thrown

\* Every packet arrives, unless one was cut, a send was refused or the receiver
\* threw, which without compression it does not (the send loops,
\* HostSender.cpp:57-78 and ClientSender.cpp:82-121).
AllArrive ==
  \A k \in 1 .. MaxPackets :
    (Len(sent) >= k) ~>
      \/ Len(received) >= k
      \/ partials > 0 \/ ~open
      \/ compression /\ thrown

\* The bytes of a connection implement a channel of whole packets.
Channel == INSTANCE PacketChannel WITH whole <- partials = 0, intact <- Safe

ImplementsChannel == Channel!Spec

\* SFML: after Partial, retrying with the same unmodified packet guarantees that
\* it arrives uncorrupted.  The senders go on "to continue sending", but onSend
\* modifies it.  Claimed is: without compression nothing makes the receiver throw,
\* and when all that was sent has been read it is what was received.
Uncorrupted ==
  ~compression =>
    /\ ~thrown
    /\ open /\ ~sending /\ wire = <<>> => received = sent
=============================================================================
