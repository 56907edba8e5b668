------------------------- MODULE PacketStreamProofs -------------------------
(* Packets on one connection: what the receiver makes of a packet that was    *)
(* sent in one piece (Framed, RoundTrip); what of the blocks of all packets   *)
(* is under way at any moment (Framing, StreamInv); and from both that the    *)
(* safe packets arrive as they were sent (PacketsIntact).                     *)
EXTENDS PacketStream, SequenceTheorems, TLAPS

LEMMA DivMod ==
  ASSUME NEW n \in Nat, NEW b \in Nat \ {0}
  PROVE  /\ b * (n \div b) + (n % b) = n
         /\ n \div b \in Nat /\ n % b \in Nat
  OBVIOUS

LEMMA BaseNat == Base \in Nat \ {0}
  BY StreamConstants DEF Invalid

LEMMA SizeRead ==
  ASSUME NEW n \in Nat
  PROVE  /\ Size(n) \in Seq(Bytes)
         /\ Len(Size(n)) = 2 /\ SizeOf(Size(n)) = n
<1> DEFINE q == n \div Base
           r == n % Base
<1>1. q \in Nat /\ r \in Nat /\ Base * q + r = n
  BY BaseNat, DivMod
<1> HIDE DEF q, r
<1>2. Size(n) = [i \in DOMAIN <<q, r>> |-> Byte(<<q, r>>[i], <<>>)]
  BY DEF Size, Plain, q, r
<1>3. DOMAIN <<q, r>> = 1 .. 2
  OBVIOUS
<1>4. Size(n) \in Seq(Bytes) /\ Len(Size(n)) = 2
  BY <1>1, <1>2, <1>3, <<>> \in Seq(Nat) DEF Byte, Bytes
<1>5. Size(n)[1].v = q /\ Size(n)[2].v = r
  BY <1>2, <1>3 DEF Byte
<1> QED
  BY <1>1, <1>4, <1>5 DEF SizeOf

LEMMA PlainRead ==
  ASSUME NEW s \in Seq(Nat)
  PROVE  Plain(s) \in Seq(Bytes) /\ Len(Plain(s)) = Len(s) /\ Values(Plain(s)) = s
<1>1. Plain(s) = [i \in 1 .. Len(s) |-> Byte(s[i], <<>>)]
  BY DEF Plain
<1>2. \A i \in 1 .. Len(s) : Byte(s[i], <<>>) \in Bytes /\ Byte(s[i], <<>>).v = s[i]
  BY DEF Byte, Bytes
<1>3. Plain(s) \in Seq(Bytes) /\ Len(Plain(s)) = Len(s)
  BY <1>1, <1>2
<1>4. Values(Plain(s)) = [i \in 1 .. Len(s) |-> s[i]]
  BY <1>1, <1>2 DEF Values
<1> QED
  BY <1>3, <1>4

LEMMA DeflatedRead ==
  ASSUME NEW s \in Seq(Nat)
  PROVE  /\ Deflated(s) \in Seq(Bytes) /\ Len(Deflated(s)) = Len(s)
         /\ Values(Deflated(s)) = s
<1>1. Deflated(s) = [i \in 1 .. Len(s) |-> Byte(s[i], s)]
  BY DEF Deflated
<1>2. \A i \in 1 .. Len(s) : Byte(s[i], s) \in Bytes /\ Byte(s[i], s).v = s[i]
  BY DEF Byte, Bytes
<1>3. Deflated(s) \in Seq(Bytes) /\ Len(Deflated(s)) = Len(s)
  BY <1>1, <1>2
<1>4. Values(Deflated(s)) = [i \in 1 .. Len(s) |-> s[i]]
  BY <1>1, <1>2 DEF Values
<1> QED
  BY <1>3, <1>4

\* A size in front of some bytes is read as that size, and the bytes are the rest.
LEMMA Prefixed ==
  ASSUME NEW n \in Nat, NEW b \in Seq(Bytes)
  PROVE  /\ Size(n) \o b \in Seq(Bytes)
         /\ Len(Size(n) \o b) = 2 + Len(b)
         /\ SizeOf(Size(n) \o b) = n
         /\ SubSeq(Size(n) \o b, 3, Len(Size(n) \o b)) = b
<1> DEFINE z == Size(n)
<1>1. z \in Seq(Bytes) /\ Len(z) = 2 /\ SizeOf(z) = n
  BY SizeRead
<1> HIDE DEF z
<1>2. /\ z \o b \in Seq(Bytes) /\ Len(z \o b) = Len(z) + Len(b)
       /\ \A i \in 1 .. Len(z) + Len(b) :
            (z \o b)[i] = IF i <= Len(z) THEN z[i] ELSE b[i - Len(z)]
  BY <1>1, ConcatProperties
<1>3. (z \o b)[1] = z[1] /\ (z \o b)[2] = z[2]
  BY <1>1, <1>2
<1>4. SizeOf(z \o b) = n
  BY <1>1, <1>3 DEF SizeOf
<1>5. Len(z \o b) = 2 + Len(b) /\ \A i \in 1 .. Len(b) : (z \o b)[i + 2] = b[i]
  BY <1>1, <1>2
<1>6. SubSeq(z \o b, 3, Len(z \o b)) = b
  <2> DEFINE w == z \o b
             e == 2 + Len(b)
             t == SubSeq(w, 3, e)
  <2>1. e \in Int /\ e >= 2 /\ e - 3 + 1 = Len(b) /\ Len(b) \in Nat
    OBVIOUS
  <2>2. /\ \A i \in 3 .. e : w[i] \in Bytes
        /\ \A i \in 1 .. Len(b) : w[3 + i - 1] = b[i]
    BY <1>2, <1>5, ElementOfSeq
  <2> HIDE DEF w, e
  <2>3. /\ t \in Seq(Bytes)
        /\ Len(t) = IF 3 <= e THEN e - 3 + 1 ELSE 0
        /\ \A i \in 1 .. e - 3 + 1 : t[i] = w[3 + i - 1]
    BY <2>1, <2>2, SubSeqProperties
  <2> HIDE DEF t
  <2>4. Len(t) = Len(b) /\ \A i \in 1 .. Len(b) : t[i] = b[i]
    BY <2>1, <2>2, <2>3
  <2>5. t = b
    BY <2>3, <2>4, SeqEqual
  <2> QED
    BY <1>5, <2>5 DEF t, w, e
<1> QED
  BY <1>2, <1>4, <1>5, <1>6 DEF z

LEMMA Flagged ==
  ASSUME NEW d \in Seq(Nat), NEW f \in Nat
  PROVE  /\ Append(d, f) \in Seq(Nat) /\ Len(Append(d, f)) = Len(d) + 1
         /\ Unflag(Append(d, f)) = [flag |-> f, data |-> d]
<1>1. Append(d, f) \in Seq(Nat) /\ Len(Append(d, f)) = Len(d) + 1
  OBVIOUS
<1>2. Last(Append(d, f)) = f
  BY <1>1 DEF Last
<1>3. Front(Append(d, f)) = d
  BY <1>1 DEF Front
<1> QED
  BY <1>1, <1>2, <1>3 DEF Unflag

LEMMA BodyBytes ==
  ASSUME NEW d \in Seq(Nat)
  PROVE  /\ Body(d) \in Seq(Bytes)
         /\ Len(Body(d)) = IF compression THEN 2 + Len(d) ELSE Len(d)
<1>1. CASE compression
  <2>1. Len(d) \in Nat /\ Deflated(d) \in Seq(Bytes) /\ Len(Deflated(d)) = Len(d)
    BY DeflatedRead
  <2>2. /\ Size(Len(d)) \o Deflated(d) \in Seq(Bytes)
        /\ Len(Size(Len(d)) \o Deflated(d)) = 2 + Len(d)
    BY <2>1, Prefixed
  <2> QED
    BY <1>1, <2>2 DEF Body
<1>2. CASE ~compression
  BY <1>2, PlainRead DEF Body
<1> QED
  BY <1>1, <1>2

LEMMA BlockBytes ==
  ASSUME NEW d \in Seq(Nat)
  PROVE  /\ Block(d) \in Seq(Bytes)
         /\ Len(Block(d)) = 2 + Len(Body(d))
         /\ SizeOf(Block(d)) = Len(Body(d))
         /\ SubSeq(Block(d), 3, Len(Block(d))) = Body(d)
<1>1. Body(d) \in Seq(Bytes) /\ Len(Body(d)) \in Nat
  BY BodyBytes
<1> QED
  BY <1>1, Prefixed DEF Block

\* A receiver that collects the bytes of one block takes it for complete when
\* the last of them has come and not before (sf::TcpSocket::receive with the
\* sizes that WorkPacket::onSend's result has).
THEOREM Framed ==
  ASSUME NEW d \in Seq(Nat), NEW k \in 0 .. Len(Block(d))
  PROVE  Complete(SubSeq(Block(d), 1, k)) <=> k = Len(Block(d))
<1> DEFINE b == Block(d)
           t == SubSeq(b, 1, k)
<1>1. b \in Seq(Bytes) /\ Len(b) = 2 + SizeOf(b) /\ k \in 0 .. Len(b)
  BY BlockBytes
<1> HIDE DEF b
<1>2. k \in Int /\ Len(b) \in Nat /\ \A i \in 1 .. k : b[i] \in Bytes
  BY <1>1, ElementOfSeq
<1>3. /\ Len(t) = IF 1 <= k THEN k - 1 + 1 ELSE 0
      /\ \A i \in 1 .. k - 1 + 1 : t[i] = b[1 + i - 1]
  BY <1>2, SubSeqProperties
<1> HIDE DEF t
<1>4. Len(t) = k /\ \A i \in 1 .. k : t[i] = b[i]
  BY <1>1, <1>2, <1>3
<1>5. k >= 2 => SizeOf(t) = SizeOf(b)
  BY <1>1, <1>4 DEF SizeOf
<1>6. SizeOf(b) \in Nat
  BY BlockBytes, BodyBytes DEF b
<1>7. Complete(t) <=> k = Len(b)
  BY <1>1, <1>2, <1>4, <1>5, <1>6 DEF Complete
<1> QED
  BY <1>7 DEF t, b

\* Whatever the data and the flag, all that onReceive may make of onSend's result,
\* if it does not throw, is the data and the flag (WorkPacket.cpp:37-138).
THEOREM RoundTrip ==
  ASSUME NEW d \in Seq(Nat), flag \in Nat
  PROVE  Meanings(Body(Append(d, flag))) = {[flag |-> flag, data |-> d]}
<1> DEFINE a == Append(d, flag)
<1>1. a \in Seq(Nat) /\ Len(a) = Len(d) + 1 /\ Unflag(a) = [flag |-> flag, data |-> d]
  BY Flagged
<1> HIDE DEF a
<1>2. CASE ~compression
  <2>1. Body(a) = Plain(a)
    BY <1>2 DEF Body
  <2>2. Values(Body(a)) = a
    BY <1>1, <2>1, PlainRead
  <2> QED
    BY <1>1, <1>2, <2>2 DEF Meanings, a
<1>3. CASE compression
  <2> DEFINE b == Body(a)
             z == SubSeq(b, 3, Len(b))
  <2>1. b = Size(Len(a)) \o Deflated(a)
    BY <1>3 DEF Body
  <2>2. Deflated(a) \in Seq(Bytes) /\ Len(Deflated(a)) = Len(a) /\ Len(a) \in Nat \ {0}
    BY <1>1, DeflatedRead
  <2> HIDE DEF b
  <2>3. Len(b) = 2 + Len(a) /\ SizeOf(b) = Len(a) /\ z = Deflated(a)
    <3> DEFINE t == Deflated(a)
    <3> HIDE DEF t
    <3>1. t \in Seq(Bytes) /\ Len(t) = Len(a) /\ Len(a) \in Nat /\ b = Size(Len(a)) \o t
      BY <2>1, <2>2 DEF t
    <3>2. Len(b) = 2 + Len(t) /\ SizeOf(b) = Len(a) /\ SubSeq(b, 3, Len(b)) = t
      BY <3>1, Prefixed
    <3> QED
      BY <3>1, <3>2 DEF t
  <2>4. \A i \in 3 .. Len(b) : b[i].of = a
    <3>1. \A i \in 1 .. Len(a) : Deflated(a)[i].of = a
      BY <1>1 DEF Deflated, Byte
    <3>2. b \in Seq(Bytes)
      BY <1>1, BodyBytes DEF b
    <3>3. \A i \in 3 .. Len(b) : b[i] \in Bytes
      BY <3>2, ElementOfSeq
    <3>4. \A i \in 1 .. Len(b) - 3 + 1 : z[i] = b[3 + i - 1]
      BY <2>2, <2>3, <3>3, SubSeqProperties
    <3> HIDE DEF z
    <3>5. ASSUME NEW i \in 3 .. Len(b) PROVE b[i].of = a
      <4>1. i - 2 \in 1 .. Len(a) /\ i - 2 \in 1 .. Len(b) - 3 + 1 /\ 3 + (i - 2) - 1 = i
        BY <2>2, <2>3
      <4>2. z[i - 2] = b[i]
        BY <3>4, <4>1
      <4> QED
        BY <2>3, <3>1, <4>1, <4>2
    <3> QED
      BY <3>5
  <2>5. Streams(b) = {a}
    <3>1. 3 \in 3 .. Len(b)
      BY <2>2, <2>3
    <3> QED
      BY <2>4, <3>1 DEF Streams
  <2>6. a # <<>> /\ Len(a) = SizeOf(b)
    BY <2>2, <2>3
  <2>7. Meanings(b) = {Unflag(a)}
    BY <1>3, <2>5, <2>6 DEF Meanings
  <2> QED
    BY <1>1, <2>7 DEF a, b
<1> QED
  BY <1>2, <1>3

-----------------------------------------------------------------------------
(* The bytes s under way are the blocks B[1], ..., B[n] one after the other, *)
(* as far as they have been sent: block i lies behind o[i - 1].              *)

Monotone(o, n) == \A i, j \in 0 .. n : i <= j => o[i] <= o[j]

Framing(o, n, B, s) ==
  /\ o \in [0 .. n -> Nat] /\ o[0] = 0
  /\ \A i \in 1 .. n : o[i] = o[i - 1] + Len(B[i])
  /\ Monotone(o, n)
  /\ \A i \in 1 .. n : \A j \in 1 .. Len(B[i]) :
       o[i - 1] + j <= Len(s) => s[o[i - 1] + j] = B[i][j]

LEMMA FramingEmpty ==
  ASSUME NEW B, NEW s
  PROVE  \E o : Framing(o, 0, B, s)
<1> DEFINE o == [i \in 0 .. 0 |-> 0]
<1>1. Framing(o, 0, B, s)
  BY DEF Framing, Monotone
<1> QED
  BY <1>1

Alike(f, g, first, last) == \A i \in first .. last : f[i] = g[i]

\* One more block, of which no byte was sent yet.
LEMMA FramingExtend ==
  ASSUME NEW n \in Nat, NEW B \in [1 .. n -> Seq(Bytes)],
         NEW C \in [1 .. n + 1 -> Seq(Bytes)], Alike(C, B, 1, n),
         NEW s \in Seq(Bytes), NEW o, Framing(o, n, B, s), Len(s) <= o[n]
  PROVE  \E p : Framing(p, n + 1, C, s) /\ Alike(p, o, 0, n)
<1>0. /\ o \in [0 .. n -> Nat] /\ o[0] = 0
      /\ \A i \in 1 .. n : o[i] = o[i - 1] + Len(B[i])
      /\ Monotone(o, n)
      /\ \A i \in 1 .. n : \A j \in 1 .. Len(B[i]) :
           o[i - 1] + j <= Len(s) => s[o[i - 1] + j] = B[i][j]
  BY DEF Framing
<1>f. \A i \in 1 .. n : /\ i - 1 \in 0 .. n /\ i \in 0 .. n
                        /\ o[i - 1] \in Nat /\ o[i] \in Nat
  <2>1. \A i \in 0 .. n : o[i] \in Nat
    BY <1>0
  <2>2. \A i \in 1 .. n : i - 1 \in 0 .. n /\ i \in 0 .. n
    OBVIOUS
  <2> QED
    BY <2>1, <2>2
<1> DEFINE p == [i \in 0 .. n + 1 |-> IF i = n + 1 THEN o[n] + Len(C[n + 1]) ELSE o[i]]
<1>1. o \in [0 .. n -> Nat] /\ Len(C[n + 1]) \in Nat /\ Len(s) \in Nat
  BY DEF Framing
<1>2. p \in [0 .. n + 1 -> Nat]
  BY <1>1
<1>3. p[n + 1] = o[n] + Len(C[n + 1]) /\ \A i \in 0 .. n : p[i] = o[i]
  OBVIOUS
<1> HIDE DEF p
<1>4. p[0] = 0 /\ \A i \in 1 .. n + 1 : p[i] = p[i - 1] + Len(C[i])
  <2>1. p[0] = 0
    BY <1>0, <1>3
  <2>2. ASSUME NEW i \in 1 .. n
        PROVE  p[i] = p[i - 1] + Len(C[i])
    <3>1. i - 1 \in 0 .. n /\ i \in 0 .. n /\ o[i] = o[i - 1] + Len(B[i])
      BY <1>0, <1>f
    <3> QED
      BY <1>3, <3>1 DEF Alike
  <2>3. p[n + 1] = p[n + 1 - 1] + Len(C[n + 1])
    BY <1>3
  <2>4. ASSUME NEW i \in 1 .. n + 1
        PROVE  p[i] = p[i - 1] + Len(C[i])
    <3>1. CASE i = n + 1
      BY <2>3, <3>1
    <3>2. CASE i \in 1 .. n
      BY <2>2, <3>2
    <3> QED
      BY <3>1, <3>2
  <2> QED
    BY <2>1, <2>4
<1>5. \A i, j \in 0 .. n + 1 : i <= j => p[i] <= p[j]
  <2>1. \A i \in 0 .. n : o[i] <= o[n] /\ o[i] \in Nat
    BY <1>0 DEF Monotone
  <2>2. \A i \in 0 .. n : p[i] <= p[n + 1]
    BY <1>1, <1>3, <2>1
  <2>3. \A i, j \in 0 .. n : i <= j => p[i] <= p[j]
    BY <1>0, <1>3 DEF Monotone
  <2>4. p[n + 1] <= p[n + 1]
    BY <1>2
  <2> QED
    BY <2>2, <2>3, <2>4
<1>6. ASSUME NEW i \in 1 .. n + 1, NEW j \in 1 .. Len(C[i]), p[i - 1] + j <= Len(s)
      PROVE  s[p[i - 1] + j] = C[i][j]
  <2>1. CASE i = n + 1
    <3>1. p[i - 1] = o[n] /\ o[n] \in Nat
      BY <1>1, <1>3, <2>1
    <3> QED
      BY <1>1, <1>6, <3>1
  <2>2. CASE i \in 1 .. n
    <3>1. /\ p[i - 1] = o[i - 1] /\ C[i] = B[i]
          /\ \A k \in 1 .. Len(B[i]) :
               o[i - 1] + k <= Len(s) => s[o[i - 1] + k] = B[i][k]
      BY <1>3, <2>2, <1>0, <1>f DEF Alike
    <3> QED
      BY <1>6, <3>1
  <2> QED
    BY <2>1, <2>2
<1> QED
  BY <1>2, <1>3, <1>4, <1>5, <1>6 DEF Framing, Monotone, Alike

LEMMA FramingTruncate ==
  ASSUME NEW n \in Nat, NEW m \in 0 .. n, NEW B, NEW C, Alike(C, B, 1, m),
         NEW s, NEW o, Framing(o, n, B, s)
  PROVE  \E p : Framing(p, m, C, s) /\ Alike(p, o, 0, m)
<1>0. /\ o \in [0 .. n -> Nat] /\ o[0] = 0
      /\ \A i \in 1 .. n : o[i] = o[i - 1] + Len(B[i])
      /\ Monotone(o, n)
      /\ \A i \in 1 .. n : \A j \in 1 .. Len(B[i]) :
           o[i - 1] + j <= Len(s) => s[o[i - 1] + j] = B[i][j]
  BY DEF Framing
<1>f. \A i \in 1 .. n : /\ i - 1 \in 0 .. n /\ i \in 0 .. n
                        /\ o[i - 1] \in Nat /\ o[i] \in Nat
  <2>1. \A i \in 0 .. n : o[i] \in Nat
    BY <1>0
  <2>2. \A i \in 1 .. n : i - 1 \in 0 .. n /\ i \in 0 .. n
    OBVIOUS
  <2> QED
    BY <2>1, <2>2
<1> DEFINE p == [i \in 0 .. m |-> o[i]]
<1>1. p \in [0 .. m -> Nat] /\ \A i \in 0 .. m : p[i] = o[i] /\ i \in 0 .. n
  BY DEF Framing
<1> HIDE DEF p
<1>2. \A i \in 1 .. m : i \in 1 .. n /\ p[i] = o[i] /\ p[i - 1] = o[i - 1]
  BY <1>1
<1>3. \A i \in 1 .. m : p[i] = p[i - 1] + Len(C[i])
  BY <1>2, <1>0, <1>f DEF Alike
<1>4. ASSUME NEW i \in 1 .. m, NEW j \in 1 .. Len(C[i]), p[i - 1] + j <= Len(s)
      PROVE  s[p[i - 1] + j] = C[i][j]
  <2>1. i \in 1 .. n /\ p[i - 1] = o[i - 1] /\ C[i] = B[i]
    BY <1>2 DEF Alike
  <2> QED
    BY <1>0, <1>4, <2>1
<1>5. p[0] = 0 /\ \A i, j \in 0 .. m : i <= j => p[i] <= p[j]
  BY <1>0, <1>1 DEF Monotone
<1> QED
  BY <1>1, <1>3, <1>4, <1>5 DEF Framing, Monotone, Alike

\* More bytes: of the last block, or behind it.
LEMMA FramingMore ==
  ASSUME NEW n \in Nat, NEW B \in [1 .. n -> Seq(Bytes)],
         NEW s \in Seq(Bytes), NEW t \in Seq(Bytes), NEW o, Framing(o, n, B, s),
         \/ Len(s) >= o[n]
         \/ /\ n > 0 /\ Len(s) >= o[n - 1]
            /\ \A x \in 1 .. Len(t) :
                 Len(s) - o[n - 1] + x <= Len(B[n]) => t[x] = B[n][Len(s) - o[n - 1] + x]
  PROVE  Framing(o, n, B, s \o t)
<1>0. /\ o \in [0 .. n -> Nat] /\ o[0] = 0
      /\ \A i \in 1 .. n : o[i] = o[i - 1] + Len(B[i])
      /\ Monotone(o, n)
      /\ \A i \in 1 .. n : \A j \in 1 .. Len(B[i]) :
           o[i - 1] + j <= Len(s) => s[o[i - 1] + j] = B[i][j]
  BY DEF Framing
<1>f. \A i \in 1 .. n : /\ i - 1 \in 0 .. n /\ i \in 0 .. n
                        /\ o[i - 1] \in Nat /\ o[i] \in Nat
  <2>1. \A i \in 0 .. n : o[i] \in Nat
    BY <1>0
  <2>2. \A i \in 1 .. n : i - 1 \in 0 .. n /\ i \in 0 .. n
    OBVIOUS
  <2> QED
    BY <2>1, <2>2
<1>1. /\ Len(s \o t) = Len(s) + Len(t)
      /\ \A x \in 1 .. Len(s) + Len(t) :
           (s \o t)[x] = IF x <= Len(s) THEN s[x] ELSE t[x - Len(s)]
  BY ConcatProperties
<1>2. o \in [0 .. n -> Nat] /\ Len(s) \in Nat /\ Len(t) \in Nat
  BY DEF Framing
<1>3. ASSUME NEW i \in 1 .. n, NEW j \in 1 .. Len(B[i]), o[i - 1] + j <= Len(s \o t)
      PROVE  (s \o t)[o[i - 1] + j] = B[i][j]
  <2>1. o[i - 1] \in Nat /\ j \in Nat /\ Len(B[i]) \in Nat /\ i - 1 \in 0 .. n
    BY <1>0, <1>f
  <2>2. o[i] = o[i - 1] + Len(B[i]) /\ o[i] \in Nat
    BY <1>0, <1>f
  <2>3. CASE o[i - 1] + j <= Len(s)
    <3>1. s[o[i - 1] + j] = B[i][j]
      BY <2>3, <1>0, <1>f
    <3>2. o[i - 1] + j \in 1 .. Len(s) + Len(t)
      BY <1>2, <2>1, <2>3
    <3> QED
      BY <1>1, <2>3, <3>1, <3>2
  <2>4. CASE o[i - 1] + j > Len(s)
    <3> DEFINE a == o[i - 1]
               b == o[i]
               w == o[n]
               y == o[n - 1]
               l == Len(s)
               k == Len(t)
               c == Len(B[i])
               x == a + j - l
    <3>1. /\ a \in Nat /\ b \in Nat /\ l \in Nat /\ k \in Nat /\ j \in Nat /\ c \in Nat
          /\ j <= c /\ b = a + c /\ a + j > l /\ a + j <= l + k
      BY <1>1, <1>2, <1>3, <2>1, <2>2, <2>4
    <3>2. b <= w /\ w \in Nat
      BY <1>0, <1>f DEF Monotone
    <3>3. l >= y /\ \A h \in 1 .. k : l - y + h <= Len(B[n]) => t[h] = B[n][l - y + h]
      <4>1. ~(l >= w)
        <5> HIDE DEF a, b, l, k, c, w
        <5> QED
          BY <3>1, <3>2
      <4> QED
        BY <4>1
    <3>4. i = n
      <4>1. SUFFICES ASSUME i # n PROVE FALSE
        OBVIOUS
      <4>2. i \in 0 .. n /\ n - 1 \in 0 .. n /\ i <= n - 1
        BY <4>1
      <4>3. b <= y /\ y \in Nat
        BY <1>0, <4>2 DEF Monotone
      <4>4. l >= y
        BY <3>3
      <4> HIDE DEF a, b, l, k, c, y
      <4> QED
        BY <3>1, <4>3, <4>4
    <3>5. a = y /\ B[i] = B[n]
      BY <3>4
    <3>6. x \in 1 .. k /\ l - y + x = j /\ a + j \in 1 .. l + k /\ a + j - l = x
      <4>1. a = y
        BY <3>5
      <4>2. x = a + j - l
        OBVIOUS
      <4> HIDE DEF a, b, l, k, c, y, x
      <4> QED
        BY <3>1, <4>1, <4>2
    <3>7. j <= Len(B[n])
      BY <3>1, <3>5
    <3> HIDE DEF x
    <3>8. t[x] = B[n][j]
      <4> HIDE DEF l, y, k
      <4> QED
        BY <3>3, <3>6, <3>7
    <3>9. (s \o t)[a + j] = t[x]
      <4>1. ~(a + j <= l)
        <5> HIDE DEF a, l
        <5> QED
          BY <3>1
      <4>2. \A h \in 1 .. l + k : ~(h <= l) => (s \o t)[h] = t[h - l]
        BY <1>1
      <4> DEFINE h == a + j
      <4>3. h \in 1 .. l + k /\ ~(h <= l)
        BY <3>6, <4>1
      <4> HIDE DEF l, k, h
      <4>4. (s \o t)[h] = t[h - l]
        BY <4>2, <4>3
      <4>5. h = a + j
        BY DEF h
      <4>6. (s \o t)[a + j] = t[h - l]
        BY <4>4, <4>5
      <4>7. h - l = x
        <5> HIDE DEF a
        <5> QED
          BY <3>1, <3>6, <4>5
      <4> QED
        BY <4>6, <4>7
    <3> QED
      BY <3>5, <3>6, <3>8, <3>9
  <2>5. o[i - 1] + j <= Len(s) \/ o[i - 1] + j > Len(s)
    BY <1>2, <2>1
  <2> QED
    BY <2>3, <2>4, <2>5
<1> QED
  BY <1>3 DEF Framing

LEMMA FramingRead ==
  ASSUME NEW n \in Nat, n > 0, NEW B, NEW s, NEW o, Framing(o, n, B, s)
  PROVE  /\ o[1] = Len(B[1])
         /\ \A j \in 1 .. Len(B[1]) : j <= Len(s) => s[j] = B[1][j]
<1>1. 1 \in 1 .. n /\ 1 - 1 = 0
  OBVIOUS
<1>2. o[0] = 0 /\ o[0] = o[1 - 1] /\ o[1] = o[1 - 1] + Len(B[1]) /\ o[1] \in Nat
  BY <1>1 DEF Framing
<1>3. o[1] = Len(B[1])
  BY <1>2
<1>4. \A j \in 1 .. Len(B[1]) : o[1 - 1] + j <= Len(s) => s[o[1 - 1] + j] = B[1][j]
  BY <1>1 DEF Framing
<1> QED
  BY <1>2, <1>3, <1>4

LEMMA Below ==
  \A a, j, c, l, m \in Nat :
    a + j <= l /\ m = l + c /\ j > 0 => a + j \in 1 .. l /\ a + j + c <= m
  OBVIOUS

\* The offsets that remain when the first block is taken away.
LEMMA Shifted ==
  ASSUME NEW n \in Nat, n > 0, NEW o \in [0 .. n -> Nat], Monotone(o, n)
  PROVE  \E p \in [0 .. n - 1 -> Nat] :
           /\ p[0] = 0
           /\ \A i \in 0 .. n - 1 : p[i] + o[1] = o[i + 1]
           /\ Monotone(p, n - 1)
           /\ \A i \in 1 .. n - 1, l \in Nat : o[i + 1] = o[i] + l => p[i] = p[i - 1] + l
           /\ \A i \in 1 .. n - 1, j \in Nat : p[i - 1] + j + o[1] = o[i] + j
<1> DEFINE p == [i \in 0 .. n - 1 |-> o[i + 1] - o[1]]
<1>1. /\ 1 \in 0 .. n /\ o[1] \in Nat
      /\ \A i \in 0 .. n - 1 : i + 1 \in 0 .. n /\ o[i + 1] \in Nat /\ o[1] <= o[i + 1]
  <2>1. 1 \in 0 .. n /\ \A i \in 0 .. n - 1 : i + 1 \in 0 .. n /\ 1 <= i + 1
    OBVIOUS
  <2> QED
    BY <2>1 DEF Monotone
<1>2. \A i \in 0 .. n - 1 : /\ o[i + 1] - o[1] \in Nat
                            /\ (o[i + 1] - o[1]) + o[1] = o[i + 1]
  BY <1>1
<1>3. /\ p \in [0 .. n - 1 -> Nat]
      /\ \A i \in 0 .. n - 1 : p[i] \in Nat /\ p[i] + o[1] = o[i + 1]
  BY <1>2
<1> HIDE DEF p
<1>4. p[0] = 0
  <2>1. p[0] \in Nat /\ p[0] + o[1] = o[1]
    BY <1>3
  <2> QED
    BY <1>1, <2>1
<1>5. ASSUME NEW i \in 0 .. n - 1, NEW j \in 0 .. n - 1, i <= j
      PROVE  p[i] <= p[j]
  <2>1. i + 1 \in 0 .. n /\ j + 1 \in 0 .. n /\ i + 1 <= j + 1
    BY <1>5
  <2>2. o[i + 1] <= o[j + 1]
    BY <2>1 DEF Monotone
  <2> QED
    BY <1>1, <1>3, <2>2
<1>6. ASSUME NEW i \in 1 .. n - 1
      PROVE  p[i - 1] \in Nat /\ p[i - 1] + o[1] = o[i]
  <2>1. i - 1 \in 0 .. n - 1 /\ i - 1 + 1 = i
    OBVIOUS
  <2> QED
    BY <1>3, <2>1
<1>7. ASSUME NEW i \in 1 .. n - 1, NEW l \in Nat, o[i + 1] = o[i] + l
      PROVE  p[i] = p[i - 1] + l
  <2>1. i \in 0 .. n - 1
    OBVIOUS
  <2>2. p[i] \in Nat /\ p[i] + o[1] = o[i + 1]
    BY <1>3, <2>1
  <2>3. p[i - 1] \in Nat /\ p[i - 1] + o[1] = o[i] /\ o[1] \in Nat
    BY <1>1, <1>6
  <2>4. o[i] \in Nat /\ o[i + 1] \in Nat
    BY <2>2, <2>3
  <2> DEFINE a == p[i - 1]
             b == p[i]
             c == o[1]
             x == o[i]
             y == o[i + 1]
  <2>5. /\ a \in Nat /\ b \in Nat /\ c \in Nat /\ x \in Nat /\ y \in Nat
        /\ a + c = x /\ b + c = y /\ y = x + l
    BY <1>7, <2>2, <2>3, <2>4
  <2> HIDE DEF a, b, c, x, y
  <2>6. b = a + l
    BY <2>5
  <2> QED
    BY <2>6 DEF a, b
<1>8. \A i \in 1 .. n - 1, j \in Nat : p[i - 1] + j + o[1] = o[i] + j
  BY <1>1, <1>6
<1> QED
  BY <1>3, <1>4, <1>5, <1>7, <1>8 DEF Monotone

\* t is s without its first k bytes.
Behind(t, s, k) ==
  Len(s) = Len(t) + k /\ \A x \in 1 .. Len(t) : t[x] = s[x + k]

\* So are the blocks C and the offsets p without the first of B and o.
Following(C, B, n) == \A i \in 1 .. n - 1 : C[i] = B[i + 1]
Moved(p, o, n)     == \A i \in 0 .. n - 1 : p[i] + o[1] = o[i + 1]

\* The first block is taken away.
LEMMA FramingShift ==
  ASSUME NEW n \in Nat, n > 0, NEW B \in [1 .. n -> Seq(Bytes)], NEW C, Following(C, B, n),
         NEW s \in Seq(Bytes), NEW t \in Seq(Bytes), NEW o, Framing(o, n, B, s), Behind(t, s, o[1])
  PROVE  \E p : Framing(p, n - 1, C, t) /\ Moved(p, o, n)
<1>0. /\ o \in [0 .. n -> Nat] /\ o[0] = 0
      /\ \A i \in 1 .. n : o[i] = o[i - 1] + Len(B[i])
      /\ Monotone(o, n)
      /\ \A i \in 1 .. n : \A j \in 1 .. Len(B[i]) :
           o[i - 1] + j <= Len(s) => s[o[i - 1] + j] = B[i][j]
  BY DEF Framing
<1>f. \A i \in 1 .. n : /\ i - 1 \in 0 .. n /\ i \in 0 .. n
                        /\ o[i - 1] \in Nat /\ o[i] \in Nat
  <2>1. \A i \in 0 .. n : o[i] \in Nat
    BY <1>0
  <2>2. \A i \in 1 .. n : i - 1 \in 0 .. n /\ i \in 0 .. n
    OBVIOUS
  <2> QED
    BY <2>1, <2>2
<1>1. PICK p \in [0 .. n - 1 -> Nat] :
           /\ p[0] = 0
           /\ \A i \in 0 .. n - 1 : p[i] + o[1] = o[i + 1]
           /\ Monotone(p, n - 1)
           /\ \A i \in 1 .. n - 1, l \in Nat : o[i + 1] = o[i] + l => p[i] = p[i - 1] + l
           /\ \A i \in 1 .. n - 1, j \in Nat : p[i - 1] + j + o[1] = o[i] + j
  BY <1>0, Shifted
<1>2. ASSUME NEW i \in 1 .. n - 1
      PROVE  /\ p[i] = p[i - 1] + Len(C[i])
             /\ \A j \in 1 .. Len(C[i]) :
                  p[i - 1] + j <= Len(t) => t[p[i - 1] + j] = C[i][j]
  <2>1. i + 1 \in 1 .. n /\ i + 1 - 1 = i
    OBVIOUS
  <2>2. /\ C[i] = B[i + 1] /\ Len(B[i + 1]) \in Nat
        /\ o[i + 1] = o[i] + Len(B[i + 1])
        /\ \A j \in 1 .. Len(B[i + 1]) : o[i] + j <= Len(s) => s[o[i] + j] = B[i + 1][j]
    <3>1. C[i] = B[i + 1] /\ B[i + 1] \in Seq(Bytes)
      BY <2>1 DEF Following
    <3>2. o[i + 1] = o[i + 1 - 1] + Len(B[i + 1])
      BY <1>0, <2>1
    <3>3. \A j \in 1 .. Len(B[i + 1]) :
            o[i + 1 - 1] + j <= Len(s) => s[o[i + 1 - 1] + j] = B[i + 1][j]
      BY <1>0, <2>1
    <3> QED
      BY <2>1, <3>1, <3>2, <3>3
  <2>3. p[i] = p[i - 1] + Len(C[i])
    BY <1>1, <2>2
  <2>4. ASSUME NEW j \in 1 .. Len(B[i + 1]), p[i - 1] + j <= Len(t)
        PROVE  t[p[i - 1] + j] = B[i + 1][j]
    <3>1. p[i - 1] + j + o[1] = o[i] + j /\ p[i - 1] \in Nat /\ o[1] \in Nat
      <4>1. i - 1 \in 0 .. n - 1 /\ 1 \in 1 .. n
        OBVIOUS
      <4>a. j \in Nat
        BY <2>2
      <4>2. p[i - 1] \in Nat /\ o[1] \in Nat
        BY <1>1, <1>f, <4>1
      <4> QED
        BY <1>1, <4>a, <4>2
    <3>a. j \in Nat /\ j > 0 /\ Len(t) \in Nat /\ Len(s) \in Nat /\ Len(s) = Len(t) + o[1]
      BY <2>2 DEF Behind
    <3>2. p[i - 1] + j \in 1 .. Len(t) /\ p[i - 1] + j + o[1] <= Len(s)
      BY <2>4, <3>1, <3>a, Below
    <3>3. t[p[i - 1] + j] = s[o[i] + j] /\ o[i] + j <= Len(s)
      BY <3>1, <3>2 DEF Behind
    <3> QED
      BY <2>2, <3>3
  <2> QED
    BY <2>2, <2>3, <2>4
<1>3. Framing(p, n - 1, C, t)
  BY <1>1, <1>2 DEF Framing
<1> QED
  BY <1>1, <1>3 DEF Moved

-----------------------------------------------------------------------------
(* Types. *)

LEMMA PayloadNat == Payloads \subseteq Seq(Nat)
<1>1. Digit \subseteq Nat
  BY BaseNat DEF Digit
<1>2. \A d \in Seq(Digit) : d \in Seq(Nat)
  BY <1>1, SeqMonotonic
<1> QED
  BY <1>2, StreamConstants

LEMMA FrontNat ==
  ASSUME NEW S, NEW s \in Seq(S), s # <<>>
  PROVE  Front(s) \in Seq(S)
<1>1. Len(s) - 1 \in Int /\ \A i \in 1 .. Len(s) - 1 : s[i] \in S
  BY ElementOfSeq
<1> QED
  BY <1>1, SubSeqProperties DEF Front

LEMMA ValuesNat ==
  ASSUME NEW b \in Seq(Bytes)
  PROVE  Values(b) \in Seq(Nat) /\ Len(Values(b)) = Len(b)
<1>1. Values(b) = [i \in 1 .. Len(b) |-> b[i].v]
  BY DEF Values
<1>2. \A i \in 1 .. Len(b) : b[i].v \in Nat
  <2>1. \A i \in 1 .. Len(b) : b[i] \in Bytes
    BY ElementOfSeq
  <2>2. \A x \in Bytes : x.v \in Nat
    BY DEF Bytes
  <2> QED
    BY <2>1, <2>2
<1> QED
  BY <1>1, <1>2

LEMMA CutBytes ==
  ASSUME NEW S, NEW s \in Seq(S), NEW k \in 1 .. Len(s) + 1
  PROVE  /\ SubSeq(s, k, Len(s)) \in Seq(S)
         /\ Len(SubSeq(s, k, Len(s))) = Len(s) - k + 1
         /\ \A i \in 1 .. Len(s) - k + 1 : SubSeq(s, k, Len(s))[i] = s[k + i - 1]
<1> DEFINE e == Len(s)
<1>1. k \in Int /\ e \in Int /\ e + 1 >= k /\ \A i \in k .. e : s[i] \in S
  BY ElementOfSeq
<1> HIDE DEF e
<1>2. /\ SubSeq(s, k, e) \in Seq(S)
      /\ Len(SubSeq(s, k, e)) = IF k <= e THEN e - k + 1 ELSE 0
      /\ \A i \in 1 .. e - k + 1 : SubSeq(s, k, e)[i] = s[k + i - 1]
  BY <1>1, SubSeqProperties
<1>3. (IF k <= e THEN e - k + 1 ELSE 0) = e - k + 1
  BY <1>1
<1> QED
  BY <1>2, <1>3 DEF e

LEMMA MeaningData ==
  ASSUME NEW b \in Seq(Bytes), Len(b) > 0, NEW m \in Meanings(b)
  PROVE  m.data \in Seq(Nat)
<1>2. CASE ~compression
  <2>1. Values(b) \in Seq(Nat) /\ Values(b) # <<>>
    BY ValuesNat
  <2>2. m.data = Front(Values(b))
    BY <1>2 DEF Meanings, Unflag
  <2> QED
    BY <2>1, <2>2, FrontNat
<1>3. CASE compression
  <2>1. PICK s \in Streams(b) : s # <<>> /\ m = Unflag(s)
    BY <1>3 DEF Meanings
  <2>2. PICK i \in 3 .. Len(b) : s = b[i].of
    BY <2>1 DEF Streams
  <2>3. b[i] \in Bytes
    BY <2>2, ElementOfSeq
  <2>4. s \in Seq(Nat)
    BY <2>2, <2>3 DEF Bytes
  <2>5. Front(s) \in Seq(Nat)
    BY <2>1, <2>4, FrontNat
  <2> QED
    BY <2>1, <2>5 DEF Unflag
<1> QED
  BY <1>2, <1>3

LEMMA BlockOnSend ==
  ASSUME TypeOK
  PROVE  /\ OnSend \in Seq(Nat) /\ Len(OnSend) = Len(data) + 1
         /\ Block(OnSend) \in Seq(Bytes) /\ Len(Block(OnSend)) \in Nat
         /\ Rest \in Seq(Bytes)
         /\ Len(Rest) = IF sendPos + 1 <= Len(Block(OnSend))
                        THEN Len(Block(OnSend)) - sendPos ELSE 0
         /\ \A x \in 1 .. Len(Rest) : Rest[x] = Block(OnSend)[sendPos + x]
<1> DEFINE b == Block(OnSend)
           e == Len(b)
<1>1. OnSend \in Seq(Nat) /\ Len(OnSend) = Len(data) + 1
  BY Flagged DEF OnSend, TypeOK, Task, Result
<1>2. b \in Seq(Bytes) /\ e \in Nat
  BY <1>1, BlockBytes
<1> HIDE DEF b
<1>3. sendPos \in Nat /\ sendPos + 1 \in Int /\ e \in Int
  BY <1>2 DEF TypeOK
<1>4. \A i \in sendPos + 1 .. e : b[i] \in Bytes
  BY <1>2, <1>3, ElementOfSeq
<1> HIDE DEF e
<1> DEFINE r == SubSeq(b, sendPos + 1, e)
<1>5. /\ r \in Seq(Bytes)
      /\ Len(r) = IF sendPos + 1 <= e THEN e - (sendPos + 1) + 1 ELSE 0
      /\ \A x \in 1 .. e - (sendPos + 1) + 1 : r[x] = b[sendPos + 1 + x - 1]
  BY <1>3, <1>4, SubSeqProperties
<1> HIDE DEF r
<1>6. Len(r) = IF sendPos + 1 <= e THEN e - sendPos ELSE 0
  BY <1>3, <1>5
<1>7. \A x \in 1 .. Len(r) : r[x] = b[sendPos + x]
  BY <1>3, <1>5, <1>6
<1>8. r = Rest
  BY DEF r, e, b, Rest
<1> QED
  BY <1>1, <1>2, <1>5, <1>6, <1>7, <1>8 DEF b, e

LEMMA GotBytes ==
  ASSUME TypeOK, ReadByte
  PROVE  /\ Got \in Seq(Bytes) /\ Len(Got) = Len(pending) + 1
         /\ \A i \in 1 .. Len(pending) : Got[i] = pending[i]
         /\ Got[Len(pending) + 1] = wire[1]
         /\ wire' \in Seq(Bytes) /\ Len(wire) = 1 + Len(wire')
         /\ \A i \in 1 .. Len(wire') : wire'[i] = wire[i + 1]
<1>1. wire \in Seq(Bytes) /\ wire # <<>> /\ wire' = Tail(wire) /\ pending \in Seq(Bytes)
  BY DEF TypeOK, ReadByte
<1>2. /\ wire' \in Seq(Bytes) /\ Len(wire') = Len(wire) - 1 /\ Len(wire) \in Nat
      /\ \A i \in 1 .. Len(wire') : wire'[i] = wire[i + 1]
  BY <1>1, HeadTailProperties
<1>3. Head(wire) \in Bytes /\ Head(wire) = wire[1]
  BY <1>1, HeadTailProperties
<1>4. /\ Got \in Seq(Bytes) /\ Len(Got) = Len(pending) + 1
      /\ \A i \in 1 .. Len(pending) : Got[i] = pending[i]
      /\ Got[Len(pending) + 1] = wire[1]
  BY <1>1, <1>3, AppendProperties DEF Got
<1> QED
  BY <1>2, <1>4

\* What the next call of send puts on the wire.
LEMMA SpaceBytes ==
  ASSUME TypeOK, sending, 0 < Space, Space < Len(Rest)
  PROVE  /\ Space \in Nat /\ SubSeq(Rest, 1, Space) \in Seq(Bytes)
         /\ Len(SubSeq(Rest, 1, Space)) = Space
         /\ \A x \in 1 .. Space : SubSeq(Rest, 1, Space)[x] = Rest[x]
<1> DEFINE k == Space
           r == Rest
           t == SubSeq(r, 1, k)
<1>1. r \in Seq(Bytes) /\ Len(r) \in Nat
  BY BlockOnSend
<1>2. k \in Int
  BY StreamConstants DEF Space, TypeOK
<1>3. 0 < k /\ k < Len(r)
  OBVIOUS
<1> HIDE DEF k, r
<1>4. \A i \in 1 .. k : r[i] \in Bytes
  BY <1>1, <1>2, <1>3, ElementOfSeq
<1>5. /\ t \in Seq(Bytes) /\ Len(t) = IF 1 <= k THEN k - 1 + 1 ELSE 0
      /\ \A x \in 1 .. k - 1 + 1 : t[x] = r[1 + x - 1]
  BY <1>2, <1>4, SubSeqProperties
<1> HIDE DEF t
<1>6. k \in Nat /\ Len(t) = k /\ \A x \in 1 .. k : t[x] = r[x]
  BY <1>2, <1>3, <1>5
<1> QED
  BY <1>5, <1>6 DEF k, r, t

LEMMA PacketData ==
  ASSUME TypeOK, ReadByte, NEW m \in Packets
  PROVE  m.data \in Seq(Nat)
<1> DEFINE b == SubSeq(Got, 3, Len(Got))
<1>1. Len(Got) > 2 /\ m \in Meanings(b)
  BY DEF Packets
<1>2. Got \in Seq(Bytes) /\ 3 \in 1 .. Len(Got) + 1
  BY <1>1, GotBytes
<1>3. b \in Seq(Bytes) /\ Len(b) = Len(Got) - 3 + 1
  BY <1>2, CutBytes
<1>4. Len(b) > 0
  BY <1>1, <1>2, <1>3
<1> QED
  BY <1>1, <1>3, <1>4, MeaningData

LEMMA Empties ==
  /\ <<>> \in Seq(Nat) /\ <<>> \in Seq(Bytes)
  /\ <<>> \in Seq(Payloads) /\ <<>> \in Seq(Seq(Nat))
  BY EmptySeq

LEMMA TypeInit == Init => TypeOK
<1> SUFFICES ASSUME Init PROVE TypeOK
  OBVIOUS
<1>1. partials \in 0 .. MaxPartials /\ cut \in Nat \X Nat
  BY StreamConstants DEF Init
<1> QED
  BY <1>1, Empties DEF Init, TypeOK

LEMMA TypeNext == TypeOK /\ [Next]_vars => TypeOK'
<1> SUFFICES ASSUME TypeOK, [Next]_vars PROVE TypeOK'
  OBVIOUS
<1> USE DEF TypeOK
<1>1. ASSUME NEW d \in Payloads, Serialize(d) PROVE TypeOK'
  <2>1. d \in Seq(Nat)
    BY PayloadNat
  <2> QED
    BY <1>1, <2>1 DEF Serialize, options, receiverVars
<1>2. CASE SendDone
  <2>1. wire \o Rest \in Seq(Bytes)
    BY BlockOnSend, ConcatProperties
  <2> QED
    BY <1>2, <2>1, Empties DEF SendDone, options, receiverVars
<1>3. CASE SendPartial
  <2>1. /\ Space \in Nat /\ SubSeq(Rest, 1, Space) \in Seq(Bytes) /\ OnSend \in Seq(Nat)
    BY <1>3, SpaceBytes, BlockOnSend DEF SendPartial
  <2>2. wire \o SubSeq(Rest, 1, Space) \in Seq(Bytes)
    BY <2>1, ConcatProperties
  <2>3. Len(sent) \in Nat /\ sendPos + Space \in Nat /\ partials + 1 \in 0 .. MaxPartials
    BY <1>3, <2>1, StreamConstants DEF SendPartial
  <2>4. cut' \in Nat \X Nat
    BY <1>3, <2>3 DEF SendPartial
  <2> QED
    BY <1>3, <2>1, <2>2, <2>3, <2>4 DEF SendPartial, options, receiverVars
<1>4. CASE SendRefused
  BY <1>4 DEF SendRefused, options, receiverVars
<1>5. CASE ReceiveSome
  <2>1. ReadByte
    BY <1>5 DEF ReceiveSome
  <2> QED
    BY <1>5, <2>1, GotBytes DEF ReceiveSome, options, senderVars
<1>6. CASE ReceiveEmpty
  <2>1. ReadByte
    BY <1>6 DEF ReceiveEmpty
  <2> QED
    BY <1>6, <2>1, GotBytes, Empties DEF ReceiveEmpty, options, senderVars
<1>7. ASSUME NEW m \in Packets, Accept(m) \/ Ignore(m) \/ Throw(m) PROVE TypeOK'
  <2>1. ReadByte
    BY <1>7 DEF Accept, Ignore, Throw, ReceivePacket
  <2>2. wire' \in Seq(Bytes) /\ m.data \in Seq(Nat)
    BY <2>1, GotBytes, PacketData
  <2>3. Append(received, m.data) \in Seq(Seq(Nat))
    BY <2>2, AppendProperties
  <2>4. CASE Accept(m)
    BY <2>2, <2>3, <2>4, Empties DEF Accept, ReceivePacket, options, senderVars
  <2>5. CASE Ignore(m)
    BY <2>2, <2>5, Empties DEF Ignore, ReceivePacket, options, senderVars
  <2>6. CASE Throw(m)
    BY <2>2, <2>6, Empties DEF Throw, ReceivePacket, options, senderVars
  <2> QED
    BY <1>7, <2>4, <2>5, <2>6
<1>8. CASE UNCHANGED vars
  BY <1>8 DEF vars
<1>9. CASE Mismatch
  <2>1. ReadByte
    BY <1>9 DEF Mismatch
  <2> QED
    BY <1>9, <2>1, GotBytes, Empties DEF Mismatch, options, senderVars
<1> QED
  BY <1>1, <1>2, <1>3, <1>4, <1>5, <1>6, <1>7, <1>8, <1>9 DEF Next, Send, Receive

\* Every variable of the stream keeps its type.
THEOREM StreamTypes == Spec => []TypeOK
<1> QED
  BY TypeInit, TypeNext, PTL DEF Spec

-----------------------------------------------------------------------------
(* The sender's side of the invariant. *)

\* data is the packet d with more flags behind it.
Flagging(d, f, s) ==
  /\ Len(s) >= Len(d)
  /\ \A j \in 1 .. Len(s) : s[j] = IF j <= Len(d) THEN d[j] ELSE f

SenderInv ==
  /\ sending => open
  /\ sending \/ ~open => sent # <<>>
  /\ partials = 0 => sendPos = 0
  /\ sending => /\ Flagging(sent[Len(sent)], flag, data)
                /\ partials = 0 => data = sent[Len(sent)]
  /\ partials > 0 => /\ cut[1] \in 1 .. Len(sent)
                     /\ sending /\ cut[1] = Len(sent) => sendPos >= cut[2]

LEMMA LastSent ==
  ASSUME TypeOK, sent # <<>>
  PROVE  sent[Len(sent)] \in Payloads /\ sent[Len(sent)] \in Seq(Nat) /\ Len(sent) \in Nat \ {0}
<1>1. sent \in Seq(Payloads) /\ Len(sent) \in Nat \ {0}
  BY EmptySeq DEF TypeOK
<1>2. sent[Len(sent)] \in Payloads
  BY <1>1, ElementOfSeq
<1> QED
  BY <1>1, <1>2, PayloadNat

LEMMA SenderNext ==
  ASSUME TypeOK, SenderInv, [Next]_vars
  PROVE  SenderInv'
<1>1. ASSUME NEW d \in Payloads, Serialize(d) PROVE SenderInv'
  <2>1. /\ sending' = TRUE /\ open' /\ data' = d /\ sendPos' = 0
        /\ sent' = Append(sent, d) /\ UNCHANGED <<partials, cut, flag>>
    BY <1>1 DEF Serialize, options
  <2>2. /\ Len(sent) \in Nat /\ Len(sent') = Len(sent) + 1
        /\ sent'[Len(sent')] = d /\ sent' # <<>>
    BY <2>1, AppendProperties DEF TypeOK
  <2>3. d \in Seq(Nat)
    BY PayloadNat
  <2>4. Flagging(d, flag, d)
    BY <2>3 DEF Flagging
  <2>5. partials > 0 => cut[1] \in 1 .. Len(sent') /\ cut[1] # Len(sent')
    BY <2>2 DEF SenderInv
  <2> QED
    BY <2>1, <2>2, <2>4, <2>5 DEF SenderInv
<1>2. CASE SendDone
  BY <1>2 DEF SendDone, options, SenderInv
<1>3. CASE SendPartial
  <2> DEFINE d == sent[Len(sent)]
  <2>1. /\ sending /\ 0 < Space /\ Space < Len(Rest) /\ data' = OnSend
        /\ sendPos' = sendPos + Space /\ partials' = partials + 1
        /\ cut' = IF partials = 0 THEN <<Len(sent), sendPos + Space>> ELSE cut
        /\ UNCHANGED <<flag, sending, open, sent>>
    BY <1>3 DEF SendPartial, options
  <2>2. Space \in Nat /\ sendPos \in Nat /\ partials \in Nat /\ cut \in Nat \X Nat
    BY <2>1, SpaceBytes DEF TypeOK
  <2>3. /\ sent # <<>> /\ open /\ Flagging(d, flag, data)
        /\ d \in Seq(Nat) /\ Len(sent) \in Nat \ {0}
    BY <2>1, LastSent DEF SenderInv
  <2>4. Flagging(d, flag, OnSend)
    <3>1. /\ Len(OnSend) = Len(data) + 1 /\ Len(data) \in Nat /\ Len(d) \in Nat
          /\ \A j \in 1 .. Len(data) : OnSend[j] = data[j]
          /\ OnSend[Len(data) + 1] = flag
      BY <2>3, AppendProperties DEF OnSend, TypeOK, Task, Result
    <3>2. ASSUME NEW j \in 1 .. Len(OnSend)
          PROVE  OnSend[j] = IF j <= Len(d) THEN d[j] ELSE flag
      <4>1. CASE j <= Len(data)
        BY <2>3, <3>1, <4>1 DEF Flagging
      <4>2. CASE j = Len(data) + 1
        BY <2>3, <3>1, <4>2 DEF Flagging
      <4> QED
        BY <3>1, <4>1, <4>2
    <3> QED
      BY <2>3, <3>1, <3>2 DEF Flagging
  <2>5. partials' > 0 /\ cut'[1] \in 1 .. Len(sent) /\ (cut'[1] = Len(sent) => sendPos' >= cut'[2])
    BY <2>1, <2>2, <2>3 DEF SenderInv
  <2> QED
    BY <2>1, <2>2, <2>3, <2>4, <2>5 DEF SenderInv
<1>4. CASE SendRefused
  BY <1>4 DEF SendRefused, options, SenderInv
<1>5. CASE ReceiveSome
  BY <1>5 DEF ReceiveSome, options, senderVars, SenderInv
<1>6. CASE ReceiveEmpty
  BY <1>6 DEF ReceiveEmpty, options, senderVars, SenderInv
<1>7. ASSUME NEW m \in Packets, Accept(m) \/ Ignore(m) \/ Throw(m) PROVE SenderInv'
  BY <1>7 DEF Accept, Ignore, Throw, ReceivePacket, options, senderVars, SenderInv
<1>8. CASE UNCHANGED vars
  BY <1>8 DEF vars, SenderInv
<1>9. CASE Mismatch
  BY <1>9 DEF Mismatch, options, senderVars, SenderInv
<1> QED
  BY <1>1, <1>2, <1>3, <1>4, <1>5, <1>6, <1>7, <1>8, <1>9 DEF Next, Send, Receive

-----------------------------------------------------------------------------
(* The invariant: as far as the packets are safe their blocks lie one after  *)
(* the other in the bytes that the receiver has not read, or not yet used.   *)

Frame(c, f, d) ==
  LET a == Append(d, f)
      b == IF c THEN Size(Len(a)) \o Deflated(a) ELSE Plain(a)
  IN  Size(Len(b)) \o b

Stream == pending \o wire
Left == Safe - Len(received)
Blocks(n) == [i \in 1 .. n |-> Frame(compression, flag, sent[Len(received) + i])]

\* How far the bytes reach: into the packet that is being sent, or over all.
Reaches(o, n) ==
  IF (sending \/ ~open) /\ Safe = Len(sent)
  THEN n > 0 /\ Len(Stream) = o[n - 1] + sendPos
  ELSE Len(Stream) >= o[n] /\ (partials = 0 => Len(Stream) = o[n])

Aligned(o, n) ==
  /\ Framing(o, n, Blocks(n), Stream)
  /\ n > 0 => Len(pending) < o[1]
  /\ Reaches(o, n)

Waiting == Left >= 0 /\ (Left > 0 \/ partials = 0)

ReceiverInv ==
  /\ \A k \in 1 .. Len(received) : k <= Safe => received[k] = sent[k]
  /\ partials = 0 => /\ Len(received) <= Len(sent)
                     /\ sending \/ ~open => Len(received) < Len(sent)
                     /\ ~compression => ~thrown

AlignedInv == ~thrown /\ Waiting => \E o : Aligned(o, Left)

StreamInv == TypeOK /\ SenderInv /\ ReceiverInv /\ AlignedInv

LEMMA SafeFacts ==
  ASSUME TypeOK, SenderInv
  PROVE  /\ Safe \in Nat /\ Safe <= Len(sent)
         /\ partials = 0 => Safe = Len(sent)
         /\ partials > 0 => Safe = cut[1] \/ Safe = cut[1] - 1
         /\ partials > 0 /\ Safe = cut[1] => ~compression /\ cut[2] >= 2
<1>1. Len(sent) \in Nat /\ partials \in Nat
  BY DEF TypeOK
<1>2. CASE partials = 0
  BY <1>1, <1>2 DEF Safe
<1>3. CASE partials > 0 /\ ~compression /\ cut[2] >= 2
  <2>1. Safe = cut[1] /\ cut[1] \in 1 .. Len(sent)
    BY <1>1, <1>3 DEF Safe, SenderInv
  <2> QED
    BY <1>1, <1>3, <2>1
<1>4. CASE partials > 0 /\ ~(~compression /\ cut[2] >= 2)
  <2>1. Safe = cut[1] - 1 /\ cut[1] \in 1 .. Len(sent)
    BY <1>1, <1>4 DEF Safe, SenderInv
  <2> QED
    BY <1>1, <1>4, <2>1
<1> QED
  BY <1>1, <1>2, <1>3, <1>4

LEMMA FrameIs ==
  ASSUME NEW d \in Seq(Nat), flag \in {Task, Result}
  PROVE  /\ Append(d, flag) \in Seq(Nat)
         /\ Frame(compression, flag, d) = Block(Append(d, flag))
         /\ Frame(compression, flag, d) \in Seq(Bytes)
         /\ Len(Frame(compression, flag, d)) \in Nat
         /\ Len(Frame(compression, flag, d)) > 2
<1> DEFINE a == Append(d, flag)
<1>1. a \in Seq(Nat) /\ Len(a) = Len(d) + 1 /\ Len(d) \in Nat
  BY Flagged DEF Task, Result
<1>2. Frame(compression, flag, d) = Block(a)
  BY DEF Frame, Block, Body
<1> HIDE DEF a
<1>3. /\ Block(a) \in Seq(Bytes) /\ Len(Block(a)) = 2 + Len(Body(a))
      /\ Len(Body(a)) = IF compression THEN 2 + Len(a) ELSE Len(a)
  BY <1>1, BlockBytes, BodyBytes
<1>4. Len(Block(a)) \in Nat /\ Len(Block(a)) > 2
  BY <1>1, <1>3
<1> QED
  BY <1>1, <1>2, <1>3, <1>4 DEF a

LEMMA LeftFacts ==
  ASSUME TypeOK, SenderInv
  PROVE  /\ Left \in Int /\ Len(received) \in Nat /\ Len(sent) \in Nat
         /\ Left + Len(received) = Safe
         /\ partials = 0 => Left = Len(sent) - Len(received)
<1>1. Safe \in Nat /\ Len(received) \in Nat /\ Len(sent) \in Nat
  BY SafeFacts DEF TypeOK
<1> QED
  BY <1>1, SafeFacts DEF Left

LEMMA BlocksFacts ==
  ASSUME TypeOK, NEW n \in Nat, Len(received) + n <= Len(sent)
  PROVE  /\ Blocks(n) \in [1 .. n -> Seq(Bytes)]
         /\ \A i \in 1 .. n :
              /\ sent[Len(received) + i] \in Seq(Nat)
              /\ Blocks(n)[i] = Frame(compression, flag, sent[Len(received) + i])
<1>1. ASSUME NEW i \in 1 .. n
      PROVE  /\ sent[Len(received) + i] \in Seq(Nat)
             /\ Frame(compression, flag, sent[Len(received) + i]) \in Seq(Bytes)
  <2>1. Len(received) + i \in 1 .. Len(sent)
    BY DEF TypeOK
  <2>2. sent[Len(received) + i] \in Payloads
    BY <2>1, ElementOfSeq DEF TypeOK
  <2> QED
    BY <2>2, PayloadNat, FrameIs DEF TypeOK
<1> QED
  BY <1>1 DEF Blocks

LEMMA StreamBytes ==
  ASSUME TypeOK
  PROVE  /\ Stream \in Seq(Bytes) /\ Len(pending) \in Nat /\ Len(wire) \in Nat
         /\ Len(Stream) = Len(pending) + Len(wire)
         /\ \A i \in 1 .. Len(pending) : Stream[i] = pending[i]
         /\ \A i \in 1 .. Len(wire) : Stream[Len(pending) + i] = wire[i]
<1>1. pending \in Seq(Bytes) /\ wire \in Seq(Bytes)
  BY DEF TypeOK
<1>2. /\ Stream \in Seq(Bytes) /\ Len(Stream) = Len(pending) + Len(wire)
      /\ \A i \in 1 .. Len(pending) + Len(wire) :
           Stream[i] = IF i <= Len(pending) THEN pending[i] ELSE wire[i - Len(pending)]
  BY <1>1, ConcatProperties DEF Stream
<1>3. Len(pending) \in Nat /\ Len(wire) \in Nat
  BY <1>1
<1>4. \A i \in 1 .. Len(pending) : Stream[i] = pending[i]
  BY <1>2, <1>3
<1>5. ASSUME NEW i \in 1 .. Len(wire) PROVE Stream[Len(pending) + i] = wire[i]
  <2>1. Len(pending) + i \in 1 .. Len(pending) + Len(wire)
    BY <1>3
  <2>2. ~(Len(pending) + i <= Len(pending)) /\ Len(pending) + i - Len(pending) = i
    BY <1>3
  <2> QED
    BY <1>2, <2>1, <2>2
<1> QED
  BY <1>2, <1>3, <1>4, <1>5

\* A prefix of a sequence, given by its bytes.
LEMMA Prefix ==
  ASSUME NEW b \in Seq(Bytes), NEW t \in Seq(Bytes), Len(t) <= Len(b),
         \A i \in 1 .. Len(t) : t[i] = b[i]
  PROVE  t = SubSeq(b, 1, Len(t))
<1> DEFINE k == Len(t)
           u == SubSeq(b, 1, k)
<1>1. k \in Nat /\ k <= Len(b) /\ Len(b) \in Nat
  OBVIOUS
<1> HIDE DEF k
<1>2. \A i \in 1 .. k : b[i] \in Bytes
  BY <1>1, ElementOfSeq
<1>3. /\ u \in Seq(Bytes) /\ Len(u) = IF 1 <= k THEN k - 1 + 1 ELSE 0
      /\ \A x \in 1 .. k - 1 + 1 : u[x] = b[1 + x - 1]
  BY <1>1, <1>2, SubSeqProperties
<1> HIDE DEF u
<1>4. Len(u) = k /\ \A x \in 1 .. k : u[x] = b[x]
  BY <1>1, <1>3
<1>5. t = u
  BY <1>3, <1>4, SeqEqual DEF k
<1> QED
  BY <1>5 DEF u, k

LEMMA Reading ==
  ASSUME StreamInv, ReadByte, Waiting, NEW o, Aligned(o, Left),
         NEW d, d = sent[Len(received) + 1]
  PROVE  /\ Left \in Nat /\ Left > 0 /\ Len(received) + Left <= Len(sent)
         /\ d \in Seq(Nat) /\ Append(d, flag) \in Seq(Nat)
         /\ o[1] = Len(Block(Append(d, flag)))
         /\ Len(Got) = Len(pending) + 1 /\ Len(Got) <= o[1] /\ o[1] \in Nat /\ o[1] > 2
         /\ Got = SubSeq(Block(Append(d, flag)), 1, Len(Got))
<1> DEFINE b == Block(Append(d, flag))
           n == Left
           s == Stream
<1>0. TypeOK /\ SenderInv
  BY DEF StreamInv
<1>1. /\ n \in Int /\ n >= 0 /\ Len(received) + n <= Len(sent)
      /\ Len(received) \in Nat /\ Len(sent) \in Nat
  BY <1>0, LeftFacts, SafeFacts DEF Waiting
<1>2. /\ s \in Seq(Bytes) /\ Len(pending) \in Nat /\ Len(wire) \in Nat
      /\ Len(s) = Len(pending) + Len(wire) /\ Len(wire) > 0
  BY <1>0, StreamBytes, EmptySeq DEF ReadByte, TypeOK
<1>3. Framing(o, n, Blocks(n), s) /\ Reaches(o, n)
  BY DEF Aligned
<1>4. n > 0
  <2>1. SUFFICES ASSUME n = 0 PROVE FALSE
    BY <1>1
  <2>2. partials = 0 /\ ~(n > 0)
    BY <2>1 DEF Waiting
  <2>3. o[0] = 0
    BY <1>3 DEF Framing
  <2>4. Len(s) = o[n]
    BY <1>3, <2>2 DEF Reaches
  <2>5. Len(s) = 0
    BY <2>1, <2>3, <2>4
  <2> HIDE DEF s
  <2> QED
    BY <1>2, <2>5
<1>5. /\ n \in Nat /\ 1 \in 1 .. n
      /\ d \in Seq(Nat) /\ Blocks(n)[1] = Frame(compression, flag, d)
  BY <1>0, <1>1, <1>4, BlocksFacts
<1>6. /\ Append(d, flag) \in Seq(Nat) /\ Blocks(n)[1] = b /\ b \in Seq(Bytes)
      /\ Len(b) \in Nat /\ Len(b) > 2
  BY <1>0, <1>5, FrameIs DEF TypeOK
<1> HIDE DEF b, n, s
<1>7. o[1] = Len(b) /\ \A j \in 1 .. Len(b) : j <= Len(s) => s[j] = b[j]
  BY <1>3, <1>4, <1>5, <1>6, FramingRead
<1>8. Len(pending) < o[1]
  BY <1>4 DEF Aligned, n
<1>9. /\ Got \in Seq(Bytes) /\ Len(Got) = Len(pending) + 1
      /\ \A i \in 1 .. Len(pending) : Got[i] = pending[i]
      /\ Got[Len(pending) + 1] = wire[1]
  BY <1>0, GotBytes
<1>10. Len(Got) <= Len(b) /\ Len(Got) <= Len(s)
  BY <1>2, <1>6, <1>7, <1>8, <1>9
<1>11. \A i \in 1 .. Len(Got) : Got[i] = b[i]
  <2>1. \A i \in 1 .. Len(pending) : Got[i] = s[i]
    BY <1>0, <1>9, StreamBytes DEF s
  <2>2. Got[Len(pending) + 1] = s[Len(pending) + 1]
    BY <1>0, <1>2, <1>9, StreamBytes DEF s
  <2>3. \A i \in 1 .. Len(Got) : i \in 1 .. Len(pending) \/ i = Len(pending) + 1
    BY <1>2, <1>9
  <2>4. \A i \in 1 .. Len(Got) : Got[i] = s[i]
    BY <2>1, <2>2, <2>3
  <2>5. \A i \in 1 .. Len(Got) : i \in 1 .. Len(b) /\ i <= Len(s)
    BY <1>2, <1>6, <1>9, <1>10
  <2> QED
    BY <1>7, <2>4, <2>5
<1>12. Got = SubSeq(b, 1, Len(Got))
  BY <1>6, <1>9, <1>10, <1>11, Prefix
<1> QED
  BY <1>1, <1>4, <1>5, <1>6, <1>7, <1>9, <1>10, <1>12 DEF b, n

\* The packet the receiver makes of a block is the one that was sent.
LEMMA Read ==
  ASSUME StreamInv, ReadByte, Waiting, NEW o, Aligned(o, Left),
         NEW d, d = sent[Len(received) + 1]
  PROVE  /\ Complete(Got) <=> Len(Got) = o[1]
         /\ Complete(Got) =>
              /\ Len(Got) > 2
              /\ \A m \in Packets : m = [flag |-> flag, data |-> d]
<1> DEFINE a == Append(d, flag)
           b == Block(a)
<1>1. /\ d \in Seq(Nat) /\ a \in Seq(Nat) /\ o[1] = Len(b) /\ o[1] > 2 /\ o[1] \in Nat
      /\ Len(Got) <= o[1] /\ Got = SubSeq(b, 1, Len(Got)) /\ Len(Got) = Len(pending) + 1
  BY Reading
<1>2. Len(Got) \in 0 .. Len(b) /\ b \in Seq(Bytes)
  <2>1. b \in Seq(Bytes)
    BY <1>1, BlockBytes
  <2>2. Len(pending) \in Nat
    BY DEF StreamInv, TypeOK
  <2> HIDE DEF b
  <2> QED
    BY <1>1, <2>1, <2>2
<1> HIDE DEF a
<1>3. Complete(Got) <=> Len(Got) = o[1]
  BY <1>1, <1>2, Framed
<1>4. ASSUME Complete(Got)
      PROVE  /\ Len(Got) > 2
             /\ \A m \in Packets : m = [flag |-> flag, data |-> d]
  <2>1. Len(Got) = Len(b) /\ Len(Got) > 2
    BY <1>1, <1>3, <1>4
  <2>2. Got = b
    BY <1>1, <1>2, <2>1, SubSeqFull
  <2>3. SubSeq(Got, 3, Len(Got)) = Body(a)
    BY <1>1, <2>2, BlockBytes
  <2>4. Packets \subseteq Meanings(Body(a))
    BY <2>3 DEF Packets
  <2>5. flag \in Nat
    BY DEF StreamInv, TypeOK, Task, Result
  <2>6. Meanings(Body(a)) = {[flag |-> flag, data |-> d]}
    BY <1>1, <2>5, RoundTrip DEF a
  <2> QED
    BY <2>1, <2>4, <2>6
<1> QED
  BY <1>3, <1>4

\* As long as nothing was cut the block of a packet that is being sent has not
\* begun to arrive.
LEMMA NotYet ==
  ASSUME StreamInv, ReadByte, Waiting, NEW o, Aligned(o, Left), Complete(Got),
         sending \/ ~open, Safe = Len(sent), partials = 0
  PROVE  Left > 1
<1> DEFINE d == sent[Len(received) + 1]
<1>1. /\ Left \in Nat /\ Left > 0 /\ o[1] \in Nat /\ o[1] > 2
      /\ Len(Got) = Len(pending) + 1
  BY Reading
<1>2. Len(Got) = o[1]
  BY Read
<1>3. Len(Stream) = o[Left - 1] + sendPos /\ sendPos = 0
  BY DEF Aligned, Reaches, StreamInv, SenderInv
<1>4. Len(Stream) >= Len(pending) + 1
  BY StreamBytes, EmptySeq DEF StreamInv, TypeOK, ReadByte
<1>5. o[0] = 0
  BY DEF Aligned, Framing
<1>6. Left # 1
  <2>1. SUFFICES ASSUME Left = 1 PROVE FALSE
    OBVIOUS
  <2>2. o[Left - 1] = 0
    BY <1>5, <2>1
  <2>3. Len(Stream) = 0
    BY <1>3, <2>2
  <2> QED
    BY <1>1, <1>2, <1>4, <2>3
<1> QED
  BY <1>1, <1>6

LEMMA SafeNext ==
  ASSUME StreamInv, [Next]_vars
  PROVE  /\ \A d \in Payloads :
              Serialize(d) => Safe' = IF partials = 0 THEN Len(sent') ELSE Safe
         /\ SendPartial => /\ Safe' = Safe \/ (partials = 0 /\ Safe' = Len(sent) - 1)
                           /\ partials' > 0
         /\ (~SendPartial /\ ~\E d \in Payloads : Serialize(d)) => Safe' = Safe
<1>1. ASSUME NEW d \in Payloads, Serialize(d)
      PROVE  Safe' = IF partials = 0 THEN Len(sent') ELSE Safe
  <2>1. partials' = partials /\ cut' = cut /\ compression' = compression
    BY <1>1 DEF Serialize, options
  <2>2. partials \in Nat
    BY DEF StreamInv, TypeOK
  <2> QED
    BY <2>1, <2>2 DEF Safe
<1>2. ASSUME SendPartial
      PROVE  /\ Safe' = Safe \/ (partials = 0 /\ Safe' = Len(sent) - 1)
             /\ partials' > 0
  <2>1. /\ partials \in Nat /\ partials' = partials + 1 /\ compression' = compression
        /\ cut' = IF partials = 0 THEN <<Len(sent), sendPos + Space>> ELSE cut
        /\ sent' = sent
    BY <1>2 DEF StreamInv, TypeOK, SendPartial, options
  <2>2. CASE partials = 0
    <3>1. Safe = Len(sent) /\ cut'[1] = Len(sent) /\ partials' > 0
      BY <2>1, <2>2 DEF Safe
    <3>2. Safe' = cut'[1] \/ Safe' = cut'[1] - 1
      BY <2>1, <2>2 DEF Safe
    <3> QED
      BY <2>2, <3>1, <3>2
  <2>3. CASE partials > 0
    BY <2>1, <2>3 DEF Safe
  <2> QED
    BY <2>1, <2>2, <2>3
<1>3. ASSUME ~SendPartial, ~\E d \in Payloads : Serialize(d)
      PROVE  Safe' = Safe
  <2>1. UNCHANGED <<partials, sent, compression, cut>>
    BY <1>3 DEF Next, Send, Receive, SendDone, SendRefused, ReceiveSome, ReceiveEmpty,
         Mismatch, Accept, Ignore, Throw, ReceivePacket, options, senderVars, vars
  <2> QED
    BY <2>1 DEF Safe
<1> QED
  BY <1>1, <1>2, <1>3

\* What an accepted, ignored or thrown at packet is, as long as packets are safe.
LEMMA Taken ==
  ASSUME StreamInv, NEW m, ReceivePacket(m), Waiting
  PROVE  /\ m = [flag |-> flag, data |-> sent[Len(received) + 1]]
         /\ Known(m)
         /\ Left \in Nat /\ Left > 0 /\ Len(received) + Left <= Len(sent)
         /\ partials = 0 /\ (sending \/ ~open) => Left > 1
<1>1. ReadByte /\ m \in Packets /\ Complete(Got) /\ ~thrown
  BY DEF ReceivePacket, Packets, ReadByte
<1>2. PICK o : Aligned(o, Left)
  BY <1>1 DEF StreamInv, AlignedInv
<1>3. m = [flag |-> flag, data |-> sent[Len(received) + 1]]
  BY <1>1, <1>2, Read
<1>4. Left \in Nat /\ Left > 0 /\ Len(received) + Left <= Len(sent)
  BY <1>1, <1>2, Reading
<1>5. ASSUME partials = 0, sending \/ ~open PROVE Left > 1
  <2>1. Safe = Len(sent)
    BY <1>5, SafeFacts DEF StreamInv
  <2> QED
    BY <1>1, <1>2, <1>5, <2>1, NotYet
<1>6. Known(m)
  <2>1. sent[Len(received) + 1] \in Payloads
    <3>1. sent \in Seq(Payloads) /\ Len(received) \in Nat
      BY DEF StreamInv, TypeOK
    <3>2. Len(received) + 1 \in 1 .. Len(sent)
      BY <1>4, <3>1
    <3> QED
      BY <3>1, <3>2, ElementOfSeq
  <2>2. Typed(sent[Len(received) + 1])
    BY <2>1, StreamConstants DEF Typed
  <2> QED
    BY <1>3, <2>2 DEF Known
<1> QED
  BY <1>3, <1>4, <1>5, <1>6

\* What the receiver knows it does not take for unknown.
LEMMA KnownTaken ==
  ASSUME TypeOK, NEW m, Known(m)
  PROVE  m.flag = flag /\ ~Unknown(m)
<1>1. m.flag = flag /\ Len(m.data) > 1 /\ flag \in {Task, Result}
  BY DEF Known, Typed, TypeOK
<1>2. m.data # <<>>
  BY <1>1
<1> QED
  BY <1>1, <1>2 DEF Unknown, None, Task, Result

LEMMA Uncut ==
  ASSUME StreamInv, partials = 0
  PROVE  Waiting
BY LeftFacts DEF StreamInv, ReceiverInv, Waiting

LEMMA Past ==
  ASSUME StreamInv, ~Waiting
  PROVE  partials > 0 /\ Safe <= Len(received) /\ Left \in Int /\ Left <= 0
<1>1. partials \in Nat
  BY DEF StreamInv, TypeOK
<1>2. Left \in Int /\ Len(received) \in Nat /\ Left + Len(received) = Safe
  BY LeftFacts DEF StreamInv
<1>3. partials # 0
  BY Uncut
<1>4. Left <= 0
  BY <1>2 DEF Waiting
<1> QED
  BY <1>1, <1>2, <1>3, <1>4

LEMMA ReceiverNext ==
  ASSUME StreamInv, [Next]_vars
  PROVE  ReceiverInv'
<1>0. /\ TypeOK /\ SenderInv /\ ReceiverInv
      /\ partials \in Nat /\ Len(received) \in Nat /\ Len(sent) \in Nat
      /\ Safe \in Nat /\ Safe <= Len(sent) /\ (partials = 0 => Safe = Len(sent))
  BY SafeFacts DEF StreamInv, TypeOK
<1>1. ASSUME NEW d \in Payloads, Serialize(d) PROVE ReceiverInv'
  <2>1. /\ ~sending /\ open /\ open' /\ sent' = Append(sent, d)
        /\ UNCHANGED <<partials, received, thrown, compression>>
        /\ Safe' = IF partials = 0 THEN Len(sent') ELSE Safe
    BY <1>1, SafeNext DEF Serialize, options, receiverVars
  <2>2. /\ Len(sent') = Len(sent) + 1
        /\ \A k \in 1 .. Len(sent) : sent'[k] = sent[k]
    BY <2>1, AppendProperties DEF StreamInv, TypeOK
  <2>3. \A k \in 1 .. Len(received) : k <= Safe' => k <= Safe /\ k <= Len(sent)
    BY <1>0, <2>1, <2>2 DEF ReceiverInv
  <2>4. \A k \in 1 .. Len(received) : k <= Safe' => received[k] = sent'[k]
    BY <1>0, <2>2, <2>3 DEF ReceiverInv
  <2> QED
    BY <1>0, <2>1, <2>2, <2>4 DEF ReceiverInv
<1>2. CASE SendDone
  <2>1. /\ open' /\ sending' = FALSE /\ Safe' = Safe
        /\ UNCHANGED <<sent, received, partials, thrown, compression>>
    <3>1. ~SendPartial /\ ~\E d \in Payloads : Serialize(d)
      BY <1>2 DEF SendDone, SendPartial, Serialize, TypeOK, StreamInv
    <3> QED
      BY <1>0, <1>2, <3>1, SafeNext DEF SendDone, SenderInv, options, receiverVars
  <2> QED
    BY <1>0, <2>1 DEF ReceiverInv
<1>3. CASE SendPartial
  <2>1. /\ partials' > 0 /\ Safe' <= Safe /\ UNCHANGED <<sent, received>> /\ Safe' \in Int
    BY <1>0, <1>3, SafeNext DEF SendPartial, options, receiverVars
  <2>2. \A k \in 1 .. Len(received) : k <= Safe' => k <= Safe
    BY <1>0, <2>1
  <2> QED
    BY <1>0, <2>1, <2>2 DEF ReceiverInv
<1>4. CASE SendRefused
  <2>1. /\ sending /\ Safe' = Safe
        /\ UNCHANGED <<sent, received, partials, thrown, compression>>
    <3>1. ~SendPartial /\ ~\E d \in Payloads : Serialize(d)
      BY <1>4 DEF SendRefused, SendPartial, Serialize, TypeOK, StreamInv
    <3> QED
      BY <1>4, <3>1, SafeNext DEF SendRefused, options, receiverVars
  <2> QED
    BY <1>0, <2>1 DEF ReceiverInv
<1> DEFINE Same == /\ UNCHANGED <<sending, open, sent, partials, compression>>
                   /\ Safe' = Safe
<1>5. ASSUME Same, UNCHANGED <<received, thrown>> PROVE ReceiverInv'
  BY <1>0, <1>5 DEF ReceiverInv
<1>6. ASSUME Receive \/ UNCHANGED vars PROVE Same
  <2>1. UNCHANGED <<sending, open, sent, partials, compression, cut>>
    BY <1>6 DEF Receive, ReceiveSome, ReceiveEmpty, Mismatch, Accept, Ignore, Throw,
         ReceivePacket, options, senderVars, vars
  <2>2. Safe' = Safe
    BY <2>1 DEF Safe
  <2> QED
    BY <2>1, <2>2
<1>7. ASSUME NEW m \in Packets, Accept(m) PROVE ReceiverInv'
  <2>1. Same
    BY <1>6, <1>7 DEF Receive
  <2>2. /\ ReceivePacket(m) /\ received' = Append(received, m.data)
        /\ thrown' = thrown /\ m.data \in Seq(Nat)
    BY <1>0, <1>7, PacketData DEF Accept, ReceivePacket
  <2>3. /\ Len(received') = Len(received) + 1
        /\ received'[Len(received) + 1] = m.data
        /\ \A k \in 1 .. Len(received) : received'[k] = received[k]
    BY <1>0, <2>2, AppendProperties DEF TypeOK
  <2>4. CASE Waiting
    <3>1. m.data = sent[Len(received) + 1]
      <4>1. m = [flag |-> flag, data |-> sent[Len(received) + 1]]
        BY <2>2, <2>4, Taken
      <4> QED
        BY <4>1
    <3>2. \A k \in 1 .. Len(received') :
            k \in 1 .. Len(received) \/ k = Len(received) + 1
      BY <1>0, <2>3
    <3>3. \A k \in 1 .. Len(received') : k <= Safe' => received'[k] = sent'[k]
      BY <1>0, <2>1, <2>3, <3>1, <3>2 DEF ReceiverInv
    <3>4. /\ Left \in Nat /\ Left > 0 /\ Len(received) + Left <= Len(sent)
          /\ partials = 0 /\ (sending \/ ~open) => Left > 1
      BY <2>2, <2>4, Taken
    <3>5. /\ Len(received') <= Len(sent)
          /\ partials = 0 /\ (sending \/ ~open) => Len(received') < Len(sent)
      BY <1>0, <2>3, <3>4
    <3> QED
      BY <1>0, <2>1, <2>2, <3>3, <3>5 DEF ReceiverInv
  <2>5. CASE ~Waiting
    <3>1. partials > 0 /\ Safe <= Len(received)
      BY <2>5, Past
    <3>2. \A k \in 1 .. Len(received') : k <= Safe => k \in 1 .. Len(received)
      BY <1>0, <2>3, <3>1
    <3> QED
      BY <1>0, <2>1, <2>3, <3>1, <3>2 DEF ReceiverInv
  <2> QED
    BY <2>4, <2>5
<1>8. ASSUME NEW m \in Packets, Throw(m) PROVE ReceiverInv'
  <2>1. Same
    BY <1>6, <1>8 DEF Receive
  <2>2. ReceivePacket(m) /\ ~Known(m) /\ received' = received
    BY <1>8 DEF Throw
  <2>3. partials # 0
    BY <2>2, Taken, Uncut
  <2> QED
    BY <1>0, <2>1, <2>2, <2>3 DEF ReceiverInv
<1>9. CASE ReceiveSome \/ ReceiveEmpty \/ UNCHANGED vars
  BY <1>5, <1>6, <1>9 DEF Receive, ReceiveSome, ReceiveEmpty, vars
<1>10. ASSUME NEW m \in Packets, Ignore(m) PROVE ReceiverInv'
  BY <1>5, <1>6, <1>10 DEF Receive, Ignore
<1>11. CASE Mismatch
  <2>1. Same
    BY <1>6, <1>11 DEF Receive
  <2>2. compression /\ received' = received
    BY <1>11 DEF Mismatch
  <2> QED
    BY <1>0, <2>1, <2>2 DEF ReceiverInv
<1> QED
  BY <1>1, <1>2, <1>3, <1>4, <1>7, <1>8, <1>9, <1>10, <1>11 DEF Next, Send, Receive

\* The flags behind a packet begin with the one that belongs to it.
LEMMA FlagsAgree ==
  ASSUME NEW d \in Seq(Nat), NEW s \in Seq(Nat), NEW f \in Nat, Flagging(d, f, s)
  PROVE  /\ Append(d, f) \in Seq(Nat) /\ Append(s, f) \in Seq(Nat)
         /\ Len(Append(d, f)) <= Len(Append(s, f))
         /\ \A j \in 1 .. Len(Append(d, f)) : Append(s, f)[j] = Append(d, f)[j]
<1> DEFINE a == Append(d, f)
           u == Append(s, f)
           m == Len(d)
           n == Len(s)
<1>1. /\ a \in Seq(Nat) /\ Len(a) = m + 1 /\ m \in Nat
      /\ \A j \in 1 .. m : a[j] = d[j]
      /\ a[m + 1] = f
  BY AppendProperties
<1>2. /\ u \in Seq(Nat) /\ Len(u) = n + 1 /\ n \in Nat
      /\ \A j \in 1 .. n : u[j] = s[j]
      /\ u[n + 1] = f
  BY AppendProperties
<1>3. /\ m <= n
      /\ \A j \in 1 .. n : s[j] = IF j <= m THEN d[j] ELSE f
  BY DEF Flagging
<1> HIDE DEF a, u, m, n
<1>4. ASSUME NEW j \in 1 .. m PROVE u[j] = a[j]
  <2>1. j \in 1 .. n /\ j <= m
    BY <1>1, <1>2, <1>3
  <2>2. u[j] = s[j] /\ s[j] = d[j] /\ a[j] = d[j]
    BY <1>1, <1>2, <1>3, <2>1
  <2> QED
    BY <2>2
<1>5. u[m + 1] = a[m + 1]
  <2>1. CASE m = n
    BY <1>1, <1>2, <2>1
  <2>2. CASE m # n
    <3>1. m + 1 \in 1 .. n /\ ~(m + 1 <= m)
      BY <1>1, <1>2, <1>3, <2>2
    <3>2. u[m + 1] = s[m + 1] /\ s[m + 1] = f
      BY <1>2, <1>3, <3>1
    <3> QED
      BY <1>1, <3>2
  <2> QED
    BY <2>1, <2>2
<1>6. \A j \in 1 .. m + 1 : j \in 1 .. m \/ j = m + 1
  BY <1>1
<1>7. \A j \in 1 .. Len(a) : u[j] = a[j]
  BY <1>1, <1>4, <1>5, <1>6
<1>8. Len(a) <= Len(u)
  BY <1>1, <1>2, <1>3
<1> QED
  BY <1>1, <1>2, <1>7, <1>8 DEF a, u

LEMMA PlainBlock ==
  ASSUME ~compression, NEW z \in Seq(Nat)
  PROVE  /\ Len(Block(z)) = 2 + Len(z)
         /\ \A y \in 1 .. Len(z) : Block(z)[2 + y] = Byte(z[y], <<>>)
<1> DEFINE n == Len(z)
           p == Plain(z)
           h == Size(Len(p))
<1>1. /\ p \in Seq(Bytes) /\ Len(p) = n /\ n \in Nat
      /\ \A y \in 1 .. n : p[y] = Byte(z[y], <<>>)
  BY PlainRead DEF Plain
<1>2. Block(z) = h \o p
  BY DEF Block, Body
<1> HIDE DEF p, n
<1>3. h \in Seq(Bytes) /\ Len(h) = 2
  BY <1>1, SizeRead
<1> HIDE DEF h
<1>4. /\ Len(h \o p) = Len(h) + Len(p)
      /\ \A i \in 1 .. Len(h) + Len(p) : (h \o p)[i] = IF i <= Len(h) THEN h[i] ELSE p[i - Len(h)]
  BY <1>1, <1>3, ConcatProperties
<1>5. Len(h \o p) = 2 + n
  BY <1>1, <1>3, <1>4
<1>6. ASSUME NEW y \in 1 .. n PROVE (h \o p)[2 + y] = Byte(z[y], <<>>)
  <2>1. 2 + y \in 1 .. 2 + n /\ ~(2 + y <= 2) /\ 2 + y - 2 = y
    BY <1>1
  <2>2. (h \o p)[2 + y] = p[y]
    BY <1>1, <1>3, <1>4, <2>1
  <2> QED
    BY <1>1, <2>2
<1> QED
  BY <1>2, <1>5, <1>6 DEF n

\* What a send call puts on the wire behind sendPos belongs to the block whose
\* sending it goes on with, as far as that block reaches.
LEMMA Agree ==
  ASSUME StreamInv, sending, Safe = Len(sent),
         NEW x \in Nat, x > sendPos, x <= Len(Frame(compression, flag, sent[Len(sent)]))
  PROVE  /\ x <= Len(Block(OnSend))
         /\ Block(OnSend)[x] = Frame(compression, flag, sent[Len(sent)])[x]
<1> DEFINE d == sent[Len(sent)]
           b == Frame(compression, flag, d)
           a == Append(d, flag)
           u == Append(data, flag)
<1>0. TypeOK /\ SenderInv /\ partials \in Nat /\ sent # <<>> /\ sendPos \in Nat
  BY DEF StreamInv, TypeOK, SenderInv
<1>1. d \in Seq(Nat) /\ Len(sent) \in Nat \ {0} /\ data \in Seq(Nat) /\ flag \in Nat
  BY <1>0, LastSent DEF TypeOK, Task, Result
<1>2. b = Block(a) /\ OnSend = u /\ x <= Len(b)
  BY <1>0, <1>1, FrameIs DEF TypeOK, OnSend
<1>3. CASE partials = 0
  <2>1. data = d
    BY <1>0, <1>3 DEF SenderInv
  <2> QED
    BY <1>2, <2>1
<1>4. CASE partials > 0
  <2>1. ~compression /\ cut[2] >= 2 /\ cut[1] = Len(sent)
    BY <1>0, <1>1, <1>4, SafeFacts DEF TypeOK, SenderInv
  <2>2. sendPos >= cut[2] /\ cut[2] \in Nat
    BY <1>0, <1>4, <2>1 DEF SenderInv, TypeOK
  <2>3. x > 2
    BY <1>0, <2>1, <2>2
  <2>4. Flagging(d, flag, data)
    BY <1>0 DEF SenderInv
  <2>5. /\ a \in Seq(Nat) /\ u \in Seq(Nat) /\ Len(a) <= Len(u)
        /\ \A j \in 1 .. Len(a) : u[j] = a[j]
    BY <1>1, <2>4, FlagsAgree
  <2> HIDE DEF a, u, b, d
  <2>6. /\ Len(Block(a)) = 2 + Len(a) /\ Len(Block(u)) = 2 + Len(u)
        /\ \A y \in 1 .. Len(a) : Block(a)[2 + y] = Byte(a[y], <<>>)
        /\ \A y \in 1 .. Len(u) : Block(u)[2 + y] = Byte(u[y], <<>>)
        /\ Len(a) \in Nat /\ Len(u) \in Nat
    BY <2>1, <2>5, PlainBlock
  <2>7. x <= 2 + Len(a)
    BY <1>2, <2>6
  <2> DEFINE y == x - 2
  <2>8. y \in 1 .. Len(a) /\ y \in 1 .. Len(u) /\ x = 2 + y
    BY <2>3, <2>5, <2>6, <2>7
  <2> HIDE DEF y
  <2>9. Block(u)[x] = Block(a)[x]
    BY <2>5, <2>6, <2>8
  <2>10. x <= Len(Block(u))
    BY <2>5, <2>6, <2>7
  <2> QED
    BY <1>2, <2>9, <2>10 DEF u, d, b, a
<1> QED
  BY <1>0, <1>3, <1>4

-----------------------------------------------------------------------------
(* The steps of the alignment: n is how many safe packets are left.          *)

\* The block that is being sent is the last of those that are left.
LEMMA LastBlock ==
  ASSUME StreamInv, NEW n \in Nat, n > 0, n = Left, Safe = Len(sent)
  PROVE  /\ Blocks(n) \in [1 .. n -> Seq(Bytes)] /\ Len(Blocks(n)[n]) \in Nat
         /\ Blocks(n)[n] = Frame(compression, flag, sent[Len(sent)])
<1>0. TypeOK /\ SenderInv
  BY DEF StreamInv
<1>1. Len(received) \in Nat /\ Len(sent) \in Nat /\ Len(received) + n = Len(sent)
  BY <1>0, LeftFacts
<1>2. /\ Blocks(n) \in [1 .. n -> Seq(Bytes)] /\ n \in 1 .. n
      /\ Blocks(n)[n] = Frame(compression, flag, sent[Len(received) + n])
  BY <1>0, <1>1, BlocksFacts
<1>3. Blocks(n)[n] \in Seq(Bytes)
  BY <1>2
<1>4. Len(Blocks(n)[n]) \in Nat
  BY <1>3
<1> QED
  BY <1>1, <1>2, <1>4

LEMMA Appending ==
  ASSUME StreamInv, sending, NEW n \in Nat, n = Left, NEW o, Aligned(o, n),
         NEW t \in Seq(Bytes), Len(t) <= Len(Rest), \A x \in 1 .. Len(t) : t[x] = Rest[x]
  PROVE  Framing(o, n, Blocks(n), Stream \o t)
<1>0. TypeOK /\ SenderInv /\ Stream \in Seq(Bytes)
  BY StreamBytes DEF StreamInv
<1>1. /\ Len(received) \in Nat /\ Len(sent) \in Nat
      /\ Len(received) + n = Safe /\ Safe <= Len(sent)
  BY <1>0, LeftFacts, SafeFacts
<1>2. Blocks(n) \in [1 .. n -> Seq(Bytes)]
  BY <1>0, <1>1, BlocksFacts
<1>3. Framing(o, n, Blocks(n), Stream) /\ Reaches(o, n)
  BY DEF Aligned
<1>4. CASE Safe = Len(sent)
  <2> DEFINE B == Blocks(n)
             s == Stream
             F == Frame(compression, flag, sent[Len(sent)])
  <2>1. n > 0 /\ Len(s) = o[n - 1] + sendPos
    BY <1>3, <1>4 DEF Reaches
  <2>2. B[n] = F /\ Len(F) \in Nat
    BY <1>4, <2>1, LastBlock
  <2>3. o[n - 1] \in Nat /\ sendPos \in Nat
    <3>1. n - 1 \in 0 .. n /\ o \in [0 .. n -> Nat]
      BY <1>3, <2>1 DEF Framing
    <3> QED
      BY <1>0, <3>1 DEF TypeOK
  <2>4. ASSUME NEW x \in 1 .. Len(t), sendPos + x <= Len(F)
        PROVE  t[x] = F[sendPos + x]
    <3>1. x \in Nat /\ x > 0 /\ x \in 1 .. Len(Rest)
      BY <1>0, BlockOnSend
    <3>2. sendPos + x \in Nat /\ sendPos + x > sendPos
      BY <2>3, <3>1
    <3>3. Block(OnSend)[sendPos + x] = F[sendPos + x]
      BY <1>4, <2>4, <3>2, Agree
    <3>4. Rest[x] = Block(OnSend)[sendPos + x]
      BY <1>0, <3>1, BlockOnSend
    <3> QED
      BY <3>3, <3>4
  <2> HIDE DEF s, B, F
  <2>5. Len(s) - o[n - 1] = sendPos /\ Len(s) >= o[n - 1]
    BY <2>1, <2>3
  <2>6. \A x \in 1 .. Len(t) :
          Len(s) - o[n - 1] + x <= Len(B[n]) => t[x] = B[n][Len(s) - o[n - 1] + x]
    BY <2>2, <2>4, <2>5
  <2>7. /\ B \in [1 .. n -> Seq(Bytes)] /\ s \in Seq(Bytes) /\ Framing(o, n, B, s)
    BY <1>0, <1>2, <1>3 DEF B, s
  <2>8. Framing(o, n, B, s \o t)
    BY <2>1, <2>5, <2>6, <2>7, FramingMore
  <2> QED
    BY <2>8 DEF B, s
<1>5. CASE Safe # Len(sent)
  <2>1. Len(Stream) >= o[n]
    BY <1>3, <1>5 DEF Reaches
  <2> QED
    BY <1>0, <1>2, <1>3, <2>1, FramingMore
<1> QED
  BY <1>4, <1>5

\* What a send call that is Done leaves: its block is under way, all of it.
LEMMA WholeBlock ==
  ASSUME StreamInv, sending, NEW n \in Nat, n = Left, NEW o, Aligned(o, n)
  PROVE  /\ Len(Stream \o Rest) >= o[n]
         /\ partials = 0 => Len(Stream \o Rest) = o[n]
<1>0. TypeOK /\ SenderInv /\ sendPos \in Nat /\ partials \in Nat
  BY DEF StreamInv, TypeOK
<1>1. /\ Stream \in Seq(Bytes) /\ Rest \in Seq(Bytes) /\ Len(Stream) \in Nat /\ Len(Rest) \in Nat
      /\ Len(Block(OnSend)) \in Nat
      /\ Len(Rest) = IF sendPos + 1 <= Len(Block(OnSend))
                     THEN Len(Block(OnSend)) - sendPos ELSE 0
  BY <1>0, StreamBytes, BlockOnSend
<1>2. Len(Stream \o Rest) = Len(Stream) + Len(Rest)
  BY <1>1, ConcatProperties
<1>3. Framing(o, n, Blocks(n), Stream) /\ Reaches(o, n)
  BY DEF Aligned
<1>4. CASE Safe = Len(sent)
  <2> DEFINE F == Frame(compression, flag, sent[Len(sent)])
             l == Len(F)
             e == Len(Block(OnSend))
  <2>1. n > 0 /\ Len(Stream) = o[n - 1] + sendPos
    BY <1>3, <1>4 DEF Reaches
  <2>2. Blocks(n)[n] = F /\ l \in Nat
    BY <1>4, <2>1, LastBlock
  <2>3. o[n - 1] \in Nat /\ o[n] = o[n - 1] + l
    <3>1. n - 1 \in 0 .. n /\ n \in 1 .. n /\ o \in [0 .. n -> Nat]
      BY <1>3, <2>1 DEF Framing
    <3>2. o[n] = o[n - 1] + Len(Blocks(n)[n])
      BY <1>3, <3>1 DEF Framing
    <3> QED
      BY <2>2, <3>1, <3>2
  <2>4. l > sendPos => l <= e
    BY <1>4, <2>2, Agree
  <2>5. partials = 0 => e = l /\ sendPos = 0 /\ l > 2
    <3>1. SUFFICES ASSUME partials = 0 PROVE e = l /\ sendPos = 0 /\ l > 2
      OBVIOUS
    <3>2. data = sent[Len(sent)] /\ sendPos = 0 /\ sent # <<>>
      BY <1>0, <3>1 DEF SenderInv
    <3>3. sent[Len(sent)] \in Seq(Nat)
      BY <1>0, <3>2, LastSent
    <3>4. F = Block(OnSend) /\ Len(F) > 2
      BY <1>0, <3>2, <3>3, FrameIs DEF OnSend, TypeOK
    <3> QED
      BY <3>2, <3>4
  <2> HIDE DEF l, e
  <2>6. Len(Rest) = IF sendPos + 1 <= e THEN e - sendPos ELSE 0
    BY <1>1 DEF e
  <2>7. e \in Nat /\ l \in Nat
    BY <1>1, <2>2 DEF e
  <2>8. sendPos + Len(Rest) >= l
    BY <1>0, <1>1, <2>4, <2>6, <2>7
  <2>9. partials = 0 => Len(Rest) = l /\ sendPos = 0
    BY <1>0, <1>1, <2>5, <2>6, <2>7
  <2> DEFINE q == o[n - 1]
             r == Len(Rest)
             k == Len(Stream)
             w == Len(Stream \o Rest)
             z == o[n]
  <2>10. /\ q \in Nat /\ r \in Nat /\ k = q + sendPos /\ w = k + r /\ z = q + l
         /\ sendPos + r >= l /\ (partials = 0 => r = l /\ sendPos = 0)
    BY <1>1, <1>2, <2>1, <2>3, <2>8, <2>9
  <2> HIDE DEF q, r, k, w, z
  <2>11. w >= z /\ (partials = 0 => w = z)
    BY <1>0, <2>7, <2>10
  <2> QED
    BY <2>11 DEF w, z
<1>5. CASE Safe # Len(sent)
  <2>1. Len(Stream) >= o[n]
    BY <1>3, <1>5 DEF Reaches
  <2>2. partials # 0
    BY <1>0, <1>5, SafeFacts
  <2>3. o[n] \in Nat
    BY <1>3 DEF Framing
  <2> QED
    BY <1>1, <1>2, <2>1, <2>2, <2>3
<1> QED
  BY <1>4, <1>5

\* Blocks that are the same before and after a step.
LEMMA BlocksSame ==
  ASSUME NEW n \in Nat, UNCHANGED <<compression, flag, received>>,
         \A i \in 1 .. n : sent'[Len(received) + i] = sent[Len(received) + i]
  PROVE  Blocks(n)' = Blocks(n)
BY DEF Blocks

LEMMA AlignedDone ==
  ASSUME StreamInv, SendDone, Waiting, NEW n \in Nat, n = Left, NEW o, Aligned(o, n)
  PROVE  Left' = n /\ Aligned(o, n)'
<1>0. /\ TypeOK /\ SenderInv /\ pending \in Seq(Bytes) /\ wire \in Seq(Bytes)
      /\ Rest \in Seq(Bytes)
  BY BlockOnSend DEF StreamInv, TypeOK
<1>1. /\ sending /\ open' /\ wire' = wire \o Rest /\ sending' = FALSE
      /\ UNCHANGED <<compression, flag, received, sent, partials, pending>>
  BY <1>0 DEF SendDone, options, receiverVars, SenderInv
<1>2. Safe' = Safe
  BY <1>1 DEF SendDone, Safe
<1>3. Left' = n /\ Blocks(n)' = Blocks(n)
  BY <1>1, <1>2, BlocksSame DEF Left
<1>4. Stream' = Stream \o Rest
  <2>1. pending \in Seq(Bytes) /\ wire \in Seq(Bytes) /\ Rest \in Seq(Bytes)
    BY <1>0
  <2>2. (pending \o wire) \o Rest = pending \o (wire \o Rest)
    BY <2>1, ConcatAssociative
  <2>3. wire' = wire \o Rest /\ pending' = pending
    BY <1>1
  <2> QED
    BY <2>2, <2>3 DEF Stream
<1>5. Framing(o, n, Blocks(n), Stream \o Rest)
  <2>1. Len(Rest) <= Len(Rest)
    BY <1>0
  <2> QED
    BY <1>0, <1>1, <2>1, Appending
<1>6. /\ Len(Stream \o Rest) >= o[n]
      /\ partials = 0 => Len(Stream \o Rest) = o[n]
  BY <1>1, WholeBlock
<1>7. Framing(o, n, Blocks(n)', Stream')
  BY <1>3, <1>4, <1>5
<1>8. n > 0 => Len(pending') < o[1]
  BY <1>1 DEF Aligned
<1>9. Reaches(o, n)'
  BY <1>1, <1>4, <1>6 DEF Reaches
<1> QED
  BY <1>3, <1>7, <1>8, <1>9 DEF Aligned

LEMMA AlignedPartial ==
  ASSUME StreamInv, SendPartial, Waiting, Waiting', NEW n \in Nat, n = Left,
         NEW o, Aligned(o, n)
  PROVE  \E q : Aligned(q, Left)'
<1> DEFINE more == SubSeq(Rest, 1, Space)
<1>0. /\ TypeOK /\ SenderInv /\ pending \in Seq(Bytes) /\ wire \in Seq(Bytes)
      /\ Len(received) \in Nat /\ partials \in Nat /\ sendPos \in Nat
  BY DEF StreamInv, TypeOK
<1>1. /\ sending /\ wire' = wire \o more /\ partials' > 0
      /\ sending' /\ sendPos' = sendPos + Space
      /\ UNCHANGED <<compression, flag, received, sent, pending>>
  BY <1>0 DEF SendPartial, options, receiverVars
<1>2. /\ Space \in Nat /\ more \in Seq(Bytes) /\ Len(more) = Space /\ Space <= Len(Rest)
      /\ \A x \in 1 .. Len(more) : more[x] = Rest[x]
  <2>1. 0 < Space /\ Space < Len(Rest)
    BY DEF SendPartial
  <2>2. Len(Rest) \in Nat
    BY <1>0, BlockOnSend
  <2> QED
    BY <1>0, <1>1, <2>1, <2>2, SpaceBytes
<1> HIDE DEF more
<1>3. Stream' = Stream \o more
  <2>1. wire' = wire \o more /\ pending' = pending /\ more \in Seq(Bytes)
    BY <1>1, <1>2
  <2>2. pending \in Seq(Bytes) /\ wire \in Seq(Bytes) /\ more \in Seq(Bytes)
    BY <1>0, <2>1
  <2>3. (pending \o wire) \o more = pending \o (wire \o more)
    BY <2>2, ConcatAssociative
  <2> QED
    BY <2>1, <2>3 DEF Stream
<1>4. Stream \in Seq(Bytes) /\ Len(Stream) \in Nat /\ Len(Stream') = Len(Stream) + Space
  <2>1. Stream \in Seq(Bytes) /\ more \in Seq(Bytes)
    BY <1>0, <1>2, StreamBytes
  <2>2. Len(Stream \o more) = Len(Stream) + Len(more) /\ Len(Stream) \in Nat
    BY <2>1, ConcatProperties
  <2> QED
    BY <1>2, <1>3, <2>1, <2>2
<1>5. Framing(o, n, Blocks(n), Stream') /\ Framing(o, n, Blocks(n), Stream) /\ Reaches(o, n)
  BY <1>1, <1>2, <1>3, Appending DEF Aligned
<1>6. CASE Safe' = Safe
  <2>1. Left' = n /\ Blocks(n)' = Blocks(n)
    BY <1>1, <1>6, BlocksSame DEF Left
  <2>2. Reaches(o, n)'
    <3>1. CASE Safe = Len(sent)
      <4>1. n > 0 /\ Len(Stream) = o[n - 1] + sendPos
        BY <1>1, <1>5, <3>1 DEF Reaches
      <4>2. o[n - 1] \in Nat
        BY <1>5, <4>1 DEF Framing
      <4>3. Len(Stream') = o[n - 1] + sendPos'
        BY <1>0, <1>1, <1>2, <1>4, <4>1, <4>2
      <4> QED
        BY <1>1, <1>6, <3>1, <4>1, <4>3 DEF Reaches
    <3>2. CASE Safe # Len(sent)
      <4>1. Len(Stream) >= o[n] /\ o[n] \in Nat
        BY <1>5, <3>2 DEF Reaches, Framing
      <4>2. Len(Stream') >= o[n]
        BY <1>2, <1>4, <4>1
      <4> QED
        BY <1>1, <1>6, <3>2, <4>2 DEF Reaches
    <3> QED
      BY <3>1, <3>2
  <2>3. n > 0 => Len(pending') < o[1]
    BY <1>1 DEF Aligned
  <2>4. Aligned(o, n)'
    BY <1>5, <2>1, <2>2, <2>3 DEF Aligned
  <2> QED
    BY <2>1, <2>4
<1>7. CASE partials = 0 /\ Safe' = Len(sent) - 1
  <2> DEFINE m == n - 1
  <2>1. Safe = Len(sent) /\ Len(sent) \in Nat /\ Len(received) + n = Safe /\ sent' = sent
    BY <1>0, <1>1, <1>7, SafeFacts, LeftFacts
  <2>2. Left' = m
    BY <1>0, <1>1, <1>7, <2>1 DEF Left
  <2>3. m > 0
    BY <1>1, <2>2 DEF Waiting
  <2>4. Len(Stream) = o[m] + sendPos
    BY <1>1, <1>5, <2>1 DEF Reaches
  <2>5. /\ m \in Nat /\ m \in 0 .. n /\ m \in 0 .. m /\ 1 \in 0 .. m /\ n > 0
        /\ \A i \in 1 .. m : i \in 1 .. n
    BY <2>3
  <2>6. o[m] \in Nat
    BY <1>5, <2>5 DEF Framing
  <2>7. Blocks(m)' = Blocks(m)
    BY <1>1, <2>5, BlocksSame
  <2>8. /\ Blocks(m) \in [1 .. m -> Seq(Bytes)]
        /\ Alike(Blocks(m), Blocks(n), 1, m)
    <3>1. Len(received) + m <= Len(sent) /\ Len(received) + n <= Len(sent)
      BY <1>0, <2>1
    <3>2. Blocks(m) \in [1 .. m -> Seq(Bytes)]
      BY <1>0, <2>5, <3>1, BlocksFacts
    <3>3. \A i \in 1 .. m : Blocks(m)[i] = Blocks(n)[i]
      BY <2>5 DEF Blocks
    <3> QED
      BY <3>2, <3>3 DEF Alike
  <2> HIDE DEF m
  <2>9. PICK p : Framing(p, m, Blocks(m), Stream) /\ Alike(p, o, 0, m)
    <3> DEFINE Old == Blocks(n)
               New == Blocks(m)
               str == Stream
    <3>1. Framing(o, n, Old, str) /\ Alike(New, Old, 1, m)
      BY <1>5, <2>8
    <3> HIDE DEF Old, New, str
    <3>2. m \in 0 .. n
      BY <2>5
    <3>3. \E p : Framing(p, m, New, str) /\ Alike(p, o, 0, m)
      BY <3>1, <3>2, FramingTruncate, Zenon
    <3> QED
      BY <3>3 DEF Old, New, str
  <2>10. p[m] = o[m] /\ p[1] = o[1] /\ Len(Stream) >= p[m]
    <3>1. p[m] = o[m] /\ p[1] = o[1]
      BY <2>5, <2>9 DEF Alike
    <3> QED
      BY <1>0, <1>4, <2>4, <2>6, <3>1
  <2>11. Framing(p, m, Blocks(m), Stream')
    BY <1>2, <1>3, <1>4, <2>5, <2>8, <2>9, <2>10, FramingMore
  <2>12. Len(Stream') >= p[m]
    BY <1>2, <1>4, <2>6, <2>10
  <2>13. Safe' # Len(sent')
    BY <1>7, <2>1
  <2>14. Reaches(p, m)'
    BY <1>1, <2>12, <2>13 DEF Reaches
  <2>15. Len(pending') < p[1]
    BY <1>1, <2>5, <2>10 DEF Aligned
  <2>16. Aligned(p, m)'
    BY <2>7, <2>11, <2>14, <2>15 DEF Aligned
  <2> QED
    BY <2>2, <2>16
<1>8. Safe' = Safe \/ (partials = 0 /\ Safe' = Len(sent) - 1)
  BY SafeNext DEF Next, Send
<1> QED
  BY <1>6, <1>7, <1>8

LEMMA AlignedRefused ==
  ASSUME StreamInv, SendRefused, Waiting, NEW n \in Nat, n = Left, NEW o, Aligned(o, n)
  PROVE  Left' = n /\ Aligned(o, n)'
<1>1. /\ sending /\ ~sending' /\ ~open'
      /\ UNCHANGED <<compression, flag, received, sent, pending, wire, sendPos, partials, cut>>
  BY DEF SendRefused, options, receiverVars
<1>2. Safe' = Safe
  BY <1>1 DEF Safe
<1>3. Left' = n /\ Blocks(n)' = Blocks(n) /\ Stream' = Stream
  BY <1>1, <1>2, BlocksSame DEF Left, Stream
<1>4. Reaches(o, n)'
  <2>1. Reaches(o, n)
    BY DEF Aligned
  <2> QED
    BY <1>1, <1>2, <1>3, <2>1 DEF Reaches
<1> QED
  BY <1>1, <1>3, <1>4 DEF Aligned

\* A byte that completes nothing goes from the connection to the receiver.
LEMMA AlignedSome ==
  ASSUME StreamInv, ReceiveSome, Waiting, NEW n \in Nat, n = Left, NEW o, Aligned(o, n)
  PROVE  Left' = n /\ Aligned(o, n)'
<1>0. TypeOK /\ pending \in Seq(Bytes) /\ wire \in Seq(Bytes)
  BY DEF StreamInv, TypeOK
<1>1. /\ ReadByte /\ ~Complete(Got) /\ wire # <<>> /\ wire' = Tail(wire) /\ pending' = Got
      /\ UNCHANGED <<compression, flag, received, sent, sending, open, sendPos, partials, cut>>
  BY DEF ReceiveSome, ReadByte, options, senderVars
<1>2. Safe' = Safe
  BY <1>1 DEF Safe
<1>3. Left' = n /\ Blocks(n)' = Blocks(n)
  BY <1>1, <1>2, BlocksSame DEF Left
<1>4. Stream' = Stream
  <2> DEFINE x == Head(wire)
             r == Tail(wire)
  <2>1. x \in Bytes /\ r \in Seq(Bytes) /\ wire = <<x>> \o r
    BY <1>0, <1>1, HeadTailProperties
  <2>2. pending' = pending \o <<x>> /\ <<x>> \in Seq(Bytes)
    BY <1>0, <1>1, <2>1, AppendIsConcat DEF Got
  <2> HIDE DEF x, r
  <2>3. (pending \o <<x>>) \o r = pending \o (<<x>> \o r)
    BY <1>0, <2>1, <2>2, ConcatAssociative
  <2>4. wire' = r
    BY <1>1 DEF r
  <2> QED
    BY <2>1, <2>2, <2>3, <2>4 DEF Stream
<1>5. n > 0 => Len(pending') < o[1]
  <2> DEFINE d == sent[Len(received) + 1]
  <2>1. Aligned(o, Left)
    OBVIOUS
  <2>2. Len(Got) <= o[1] /\ o[1] \in Nat /\ Len(Got) = Len(pending) + 1
    BY <1>1, <2>1, Reading
  <2>3. Len(Got) # o[1]
    BY <1>1, <2>1, Read
  <2>4. Len(pending) \in Nat
    BY <1>0
  <2> QED
    BY <1>1, <2>2, <2>3, <2>4
<1>6. Reaches(o, n)'
  <2>1. Reaches(o, n)
    BY DEF Aligned
  <2> QED
    BY <1>1, <1>2, <1>3, <1>4, <2>1 DEF Reaches
<1>7. Framing(o, n, Blocks(n)', Stream')
  BY <1>3, <1>4 DEF Aligned
<1> QED
  BY <1>3, <1>5, <1>6, <1>7 DEF Aligned

\* The packet that is accepted is taken from the front.
LEMMA AlignedAccept ==
  ASSUME StreamInv, NEW m, Accept(m), Waiting, Waiting', TypeOK', SenderInv',
         NEW n \in Nat, n = Left, NEW o, Aligned(o, n)
  PROVE  \E q : Aligned(q, Left)'
<1>0. /\ TypeOK /\ SenderInv /\ pending \in Seq(Bytes) /\ wire \in Seq(Bytes)
      /\ Len(received) \in Nat /\ Len(sent) \in Nat /\ Aligned(o, Left)
  <2>1. TypeOK /\ SenderInv
    BY DEF StreamInv
  <2>2. /\ pending \in Seq(Bytes) /\ wire \in Seq(Bytes)
        /\ received \in Seq(Seq(Nat)) /\ sent \in Seq(Payloads)
    BY <2>1 DEF TypeOK
  <2>3. Len(received) \in Nat /\ Len(sent) \in Nat
    BY <2>2
  <2> QED
    BY <2>1, <2>2, <2>3
<1>1. /\ ReadByte /\ Complete(Got) /\ ReceivePacket(m)
      /\ pending' = <<>> /\ received' = Append(received, m.data)
      /\ UNCHANGED <<compression, flag, sent, sending, open, sendPos, partials, cut>>
  BY DEF Accept, ReceivePacket, Packets, options, senderVars
<1>2. Safe' = Safe
  BY <1>1 DEF Safe
<1>3. Len(received') = Len(received) + 1 /\ Left' = n - 1
  <2>1. m.data \in Seq(Nat)
    BY <1>0, <1>1, PacketData DEF ReceivePacket
  <2>2. Len(received') = Len(received) + 1
    BY <1>0, <1>1, <2>1, AppendProperties DEF TypeOK
  <2>3. Left + Len(received) = Safe /\ Safe \in Nat
    BY <1>0, LeftFacts, SafeFacts
  <2> QED
    BY <1>0, <1>2, <2>2, <2>3 DEF Left
<1>4. n > 0 /\ Len(received) + n <= Len(sent)
  BY <1>0, <1>1, Taken
<1>5. /\ Blocks(n) \in [1 .. n -> Seq(Bytes)]
      /\ Blocks(n - 1)' \in [1 .. n - 1 -> Seq(Bytes)]
      /\ \A i \in 1 .. n - 1 : Blocks(n - 1)'[i] = Blocks(n)[i + 1]
  <2>1. Blocks(n) \in [1 .. n -> Seq(Bytes)]
    BY <1>0, <1>4, BlocksFacts
  <2>2. Blocks(n - 1)' = [i \in 1 .. n - 1 |->
            Frame(compression, flag, sent[Len(received) + 1 + i])]
    BY <1>1, <1>3 DEF Blocks
  <2>3. ASSUME NEW i \in 1 .. n - 1
        PROVE  Blocks(n - 1)'[i] = Blocks(n)[i + 1] /\ Blocks(n)[i + 1] \in Seq(Bytes)
    <3>1. i + 1 \in 1 .. n /\ Len(received) + 1 + i = Len(received) + (i + 1)
      BY <1>0
    <3>2. Blocks(n)[i + 1] = Frame(compression, flag, sent[Len(received) + (i + 1)])
      BY <3>1 DEF Blocks
    <3>3. Blocks(n)[i + 1] \in Seq(Bytes)
      BY <2>1, <3>1
    <3> QED
      BY <2>2, <3>1, <3>2, <3>3
  <2> QED
    BY <2>1, <2>2, <2>3
<1>6. /\ Stream' = wire' /\ wire' \in Seq(Bytes) /\ Len(wire) = 1 + Len(wire')
      /\ \A i \in 1 .. Len(wire') : wire'[i] = wire[i + 1]
  BY <1>0, <1>1, GotBytes, ConcatEmptySeq DEF Stream
<1>7. /\ Stream \in Seq(Bytes) /\ Len(pending) \in Nat /\ Len(wire) \in Nat
      /\ Len(Stream) = Len(pending) + Len(wire)
      /\ \A i \in 1 .. Len(wire) : Stream[Len(pending) + i] = wire[i]
  BY <1>0, StreamBytes
<1>8. o[1] = Len(pending) + 1 /\ o[1] \in Nat
  <2>1. Len(Got) = o[1]
    BY <1>0, <1>1, Read
  <2>2. Len(Got) = Len(pending) + 1
    BY <1>0, <1>1, GotBytes
  <2> QED
    BY <1>7, <2>1, <2>2
<1>9. Behind(Stream', Stream, o[1])
  <2>1. Len(Stream) = Len(Stream') + o[1]
    <3>1. Len(wire') \in Nat
      BY <1>6
    <3> QED
      BY <1>6, <1>7, <1>8, <3>1
  <2>2. ASSUME NEW x \in 1 .. Len(wire') PROVE wire'[x] = Stream[x + o[1]]
    <3>1. x + 1 \in 1 .. Len(wire) /\ Len(pending) + (x + 1) = x + o[1]
      BY <1>6, <1>7, <1>8
    <3>2. Stream[Len(pending) + (x + 1)] = wire[x + 1]
      BY <1>7, <3>1
    <3> QED
      BY <1>6, <3>1, <3>2
  <2> QED
    BY <1>6, <2>1, <2>2 DEF Behind
<1>10. PICK p : /\ Framing(p, n - 1, Blocks(n - 1)', Stream')
                /\ \A i \in 0 .. n - 1 : p[i] + o[1] = o[i + 1]
  <2> DEFINE Old == Blocks(n)
             New == Blocks(n - 1)'
             str == Stream
             left == Stream'
  <2>1. /\ Old \in [1 .. n -> Seq(Bytes)] /\ \A i \in 1 .. n - 1 : New[i] = Old[i + 1]
        /\ str \in Seq(Bytes) /\ left \in Seq(Bytes) /\ Framing(o, n, Old, str)
        /\ Behind(left, str, o[1])
    BY <1>5, <1>6, <1>7, <1>9 DEF Aligned
  <2> HIDE DEF Old, New, str, left
  <2>2. /\ n > 0 /\ Old \in [1 .. n -> Seq(Bytes)]
    BY <1>4, <2>1
  <2>3. Following(New, Old, n)
    BY <2>1 DEF Following
  <2>4. str \in Seq(Bytes) /\ left \in Seq(Bytes)
    BY <2>1
  <2>5. Framing(o, n, Old, str) /\ Behind(left, str, o[1])
    BY <2>1
  <2>6. \E p : Framing(p, n - 1, New, left) /\ Moved(p, o, n)
    BY <2>2, <2>3, <2>4, <2>5, FramingShift, Zenon
  <2> QED
    BY <2>6 DEF Old, New, str, left, Moved
<1>11. n - 1 > 0 => Len(pending') < p[1]
  <2>1. SUFFICES ASSUME n - 1 > 0 PROVE Len(pending') < p[1]
    OBVIOUS
  <2>2. p[1] = Len(Blocks(n - 1)'[1])
    BY <1>10, <2>1, FramingRead
  <2>3. Blocks(n - 1)'[1] = Blocks(n)[2] /\ 2 \in 1 .. n
    <3>1. 1 \in 1 .. n - 1 /\ 1 + 1 = 2 /\ 2 \in 1 .. n
      BY <2>1
    <3> QED
      BY <1>5, <3>1
  <2>4. Len(Blocks(n)[2]) > 2
    <3>1. /\ sent[Len(received) + 2] \in Seq(Nat)
          /\ Blocks(n)[2] = Frame(compression, flag, sent[Len(received) + 2])
      BY <1>0, <1>4, <2>3, BlocksFacts
    <3>2. flag \in {Task, Result}
      BY <1>0 DEF TypeOK
    <3> QED
      BY <3>1, <3>2, FrameIs
  <2>5. Len(pending') = 0
    BY <1>1
  <2>6. Len(Blocks(n)[2]) \in Nat
    BY <1>5, <2>3
  <2> QED
    BY <2>2, <2>3, <2>4, <2>5, <2>6
<1>12. /\ n \in Nat /\ n - 1 \in Nat /\ o[n] \in Nat /\ p[n - 1] \in Nat
       /\ p[n - 1] + o[1] = o[n]
       /\ Len(Stream) = Len(Stream') + o[1] /\ Len(Stream') \in Nat
  <2>1. n \in 0 .. n /\ n - 1 \in 0 .. n - 1 /\ n - 1 \in Nat /\ n - 1 + 1 = n
    BY <1>4
  <2>2. o \in [0 .. n -> Nat] /\ p \in [0 .. n - 1 -> Nat]
    BY <1>10 DEF Aligned, Framing
  <2>3. Len(Stream) = Len(Stream') + o[1] /\ Len(Stream') \in Nat
    BY <1>6, <1>9 DEF Behind
  <2> QED
    BY <1>10, <2>1, <2>2, <2>3
<1>13. Reaches(o, n)
  BY DEF Aligned
<1>14. Reaches(p, n - 1)'
  <2>1. CASE (sending \/ ~open) /\ Safe = Len(sent)
    <3>1. n - 1 > 0
      <4>1. CASE partials = 0
        BY <1>1, <1>0, <2>1, <4>1, Taken
      <4>2. CASE partials # 0
        BY <1>1, <1>3, <4>2 DEF Waiting
      <4> QED
        BY <4>1, <4>2
    <3>2. Len(Stream) = o[n - 1] + sendPos
      BY <1>13, <2>1 DEF Reaches
    <3>3. p[n - 2] + o[1] = o[n - 1] /\ p[n - 2] \in Nat
      <4>1. n - 2 \in 0 .. n - 1 /\ n - 2 + 1 = n - 1
        BY <3>1
      <4>2. p \in [0 .. n - 1 -> Nat]
        BY <1>10 DEF Framing
      <4> QED
        BY <1>10, <4>1, <4>2
    <3>4. Len(Stream') = p[n - 2] + sendPos
      <4>1. sendPos \in Nat
        BY <1>0 DEF TypeOK
      <4> DEFINE a == p[n - 2]
                 b == o[n - 1]
                 c == o[1]
                 k == Len(Stream)
                 l == Len(Stream')
      <4>2. /\ a \in Nat /\ c \in Nat /\ l \in Nat /\ k = b + sendPos
            /\ a + c = b /\ k = l + c
        BY <1>8, <1>12, <3>2, <3>3
      <4> HIDE DEF a, b, c, k, l
      <4>3. l = a + sendPos
        BY <4>1, <4>2
      <4> QED
        BY <4>3 DEF a, l
    <3>5. n - 1 - 1 = n - 2
      OBVIOUS
    <3> QED
      BY <1>1, <1>2, <2>1, <3>1, <3>4, <3>5 DEF Reaches
  <2>2. CASE ~((sending \/ ~open) /\ Safe = Len(sent))
    <3>1. Len(Stream) >= o[n] /\ (partials = 0 => Len(Stream) = o[n])
      BY <1>13, <2>2 DEF Reaches
    <3>2. Len(Stream') >= p[n - 1] /\ (partials = 0 => Len(Stream') = p[n - 1])
      <4> DEFINE a == p[n - 1]
                 b == o[n]
                 c == o[1]
                 k == Len(Stream)
                 l == Len(Stream')
      <4>2. /\ a \in Nat /\ c \in Nat /\ l \in Nat /\ k >= b
            /\ a + c = b /\ k = l + c /\ (partials = 0 => k = b)
        BY <1>8, <1>12, <3>1
      <4> HIDE DEF a, b, c, k, l
      <4>3. l >= a /\ (partials = 0 => l = a)
        BY <4>2
      <4> QED
        BY <4>3 DEF a, l
    <3> QED
      BY <1>1, <1>2, <2>2, <3>2 DEF Reaches
  <2> QED
    BY <2>1, <2>2
<1>15. Aligned(p, n - 1)'
  BY <1>10, <1>11, <1>14 DEF Aligned
<1> QED
  BY <1>3, <1>15

\* A packet more: nothing of its block is under way.
LEMMA AlignedSerialize ==
  ASSUME StreamInv, NEW d \in Payloads, Serialize(d), Waiting, Waiting', TypeOK', SenderInv',
         NEW n \in Nat, n = Left, NEW o, Aligned(o, n)
  PROVE  \E q : Aligned(q, Left)'
<1>0. /\ TypeOK /\ SenderInv /\ Len(received) \in Nat /\ Len(sent) \in Nat
      /\ partials \in Nat /\ sent \in Seq(Payloads)
  <2>1. TypeOK /\ SenderInv
    BY DEF StreamInv
  <2>2. sent \in Seq(Payloads) /\ received \in Seq(Seq(Nat)) /\ partials \in Nat
    BY <2>1 DEF TypeOK
  <2> QED
    BY <2>1, <2>2
<1>1. /\ open /\ ~sending /\ sending' /\ open' /\ sendPos' = 0 /\ sent' = Append(sent, d)
      /\ UNCHANGED <<compression, flag, received, pending, wire, partials, cut>>
  BY DEF Serialize, options, receiverVars
<1>2. /\ Len(sent') = Len(sent) + 1
      /\ \A i \in 1 .. Len(sent) : sent'[i] = sent[i]
  BY <1>0, <1>1, AppendProperties
<1>3. Len(received) + n = Safe /\ Safe \in Nat /\ Safe <= Len(sent)
  BY <1>0, LeftFacts, SafeFacts
<1>4. Safe' = IF partials = 0 THEN Len(sent') ELSE Safe
  BY SafeNext DEF Next
<1>5. \A i \in 1 .. n : sent'[Len(received) + i] = sent[Len(received) + i]
  <2>1. \A i \in 1 .. n : Len(received) + i \in 1 .. Len(sent)
    BY <1>0, <1>3
  <2> QED
    BY <1>2, <2>1
<1>6. Stream' = Stream /\ Stream \in Seq(Bytes) /\ Len(Stream) \in Nat
  BY <1>0, <1>1, StreamBytes DEF Stream
<1>7. Len(Stream) >= o[n] /\ (partials = 0 => Len(Stream) = o[n])
  <2>1. Reaches(o, n)
    BY DEF Aligned
  <2> QED
    BY <1>1, <2>1 DEF Reaches
<1>8. /\ Blocks(n)' = Blocks(n)
      /\ Framing(o, n, Blocks(n), Stream) /\ (n > 0 => Len(pending) < o[1])
  BY <1>1, <1>5, BlocksSame DEF Aligned
<1>9. CASE partials = 0
  <2>1. Safe = Len(sent) /\ Safe' = Len(sent') /\ Left' = n + 1
    BY <1>0, <1>1, <1>2, <1>3, <1>4, <1>9, SafeFacts DEF Left
  <2>2. /\ n + 1 \in Nat /\ Len(received') + (n + 1) <= Len(sent')
        /\ Len(received) + n <= Len(sent)
    BY <1>0, <1>1, <1>2, <1>3, <2>1
  <2>3. Blocks(n) \in [1 .. n -> Seq(Bytes)]
    BY <1>0, <2>2, BlocksFacts
  <2>4. /\ Blocks(n + 1)' \in [1 .. n + 1 -> Seq(Bytes)]
        /\ Len(Blocks(n + 1)'[n + 1]) > 2
    <3>1. /\ Blocks(n + 1)' \in [1 .. n + 1 -> Seq(Bytes)]
          /\ \A i \in 1 .. n + 1 : Blocks(n + 1)'[i] =
                Frame(compression, flag, sent'[Len(received) + i])
      <4>1. Blocks(n + 1)' = [i \in 1 .. n + 1 |->
                Frame(compression, flag, sent'[Len(received) + i])]
        BY <1>1 DEF Blocks
      <4>2. ASSUME NEW i \in 1 .. n + 1
            PROVE  Frame(compression, flag, sent'[Len(received) + i]) \in Seq(Bytes)
        <5>1. Len(received) + i \in 1 .. Len(sent')
          BY <1>0, <1>1, <2>2
        <5>2. sent' \in Seq(Payloads)
          BY <1>0, <1>1, AppendProperties
        <5>3. sent'[Len(received) + i] \in Seq(Nat)
          BY <5>1, <5>2, ElementOfSeq, PayloadNat
        <5>4. flag \in {Task, Result}
          BY <1>0 DEF TypeOK
        <5> QED
          BY <5>3, <5>4, FrameIs
      <4> QED
        BY <4>1, <4>2
    <3>2. n + 1 \in 1 .. n + 1 /\ Len(received) + (n + 1) = Len(sent) + 1
      BY <1>0, <1>3, <2>1
    <3>3. Blocks(n + 1)'[n + 1] = Frame(compression, flag, d)
      <4>1. sent'[Len(sent) + 1] = d
        BY <1>0, <1>1, AppendProperties
      <4> QED
        BY <3>1, <3>2, <4>1
    <3>4. d \in Seq(Nat) /\ flag \in {Task, Result}
      BY <1>0, PayloadNat DEF TypeOK
    <3> QED
      BY <3>1, <3>3, <3>4, FrameIs
  <2>5. \A i \in 1 .. n : Blocks(n + 1)'[i] = Blocks(n)[i]
    <3>1. Blocks(n + 1)' = [i \in 1 .. n + 1 |->
              Frame(compression, flag, sent'[Len(received) + i])]
      BY <1>1 DEF Blocks
    <3>2. ASSUME NEW i \in 1 .. n PROVE Blocks(n + 1)'[i] = Blocks(n)[i]
      <4>1. i \in 1 .. n + 1
        OBVIOUS
      <4>2. sent'[Len(received) + i] = sent[Len(received) + i]
        BY <1>5
      <4> QED
        BY <3>1, <4>1, <4>2 DEF Blocks
    <3> QED
      BY <3>2
  <2> DEFINE Old == Blocks(n)
             New == Blocks(n + 1)'
             str == Stream
  <2>6. PICK p : Framing(p, n + 1, New, str) /\ Alike(p, o, 0, n)
    <3>1. /\ Old \in [1 .. n -> Seq(Bytes)] /\ New \in [1 .. n + 1 -> Seq(Bytes)]
          /\ Alike(New, Old, 1, n)
      BY <2>3, <2>4, <2>5 DEF Alike
    <3>2. str \in Seq(Bytes) /\ Framing(o, n, Old, str)
      BY <1>6, <1>8
    <3>3. Len(str) <= o[n]
      BY <1>6, <1>7, <1>9
    <3> HIDE DEF Old, New, str
    <3> QED
      BY <3>1, <3>2, <3>3, FramingExtend, Zenon
  <2>7. p[n] = o[n] /\ p[0] = 0 /\ p[n + 1] = p[n] + Len(New[n + 1])
    <3>1. n \in 0 .. n /\ n + 1 \in 1 .. n + 1 /\ n + 1 - 1 = n
      OBVIOUS
    <3>2. p[0] = 0 /\ p[n + 1] = p[n + 1 - 1] + Len(New[n + 1])
      BY <2>6, <3>1 DEF Framing
    <3>3. p[n] = o[n]
      BY <2>6, <3>1 DEF Alike
    <3> QED
      BY <3>1, <3>2, <3>3
  <2>8. Len(pending') < p[1]
    <3>1. CASE n > 0
      <4>1. 1 \in 0 .. n
        BY <3>1
      <4>2. p[1] = o[1]
        BY <2>6, <4>1 DEF Alike
      <4> QED
        BY <1>1, <1>8, <3>1, <4>2
    <3>2. CASE n = 0
      <4>1. Len(Stream) = 0
        BY <1>7, <1>9, <2>7, <3>2
      <4>2. Len(pending) = 0
        BY <1>0, <4>1, StreamBytes
      <4>3. p[1] = 0 + Len(New[1]) /\ Len(New[1]) > 2
        BY <2>4, <2>7, <3>2
      <4>4. Len(New[1]) \in Nat
        BY <2>4, <3>2
      <4> QED
        BY <1>1, <4>2, <4>3, <4>4
    <3> QED
      BY <3>1, <3>2
  <2>9. Reaches(p, n + 1)'
    <3>1. n + 1 - 1 = n /\ n + 1 > 0 /\ o[n] = o[n] + 0
      BY <1>6, <1>7, <1>9
    <3>2. Len(Stream') = p[n] + sendPos'
      BY <1>1, <1>6, <1>7, <1>9, <2>7, <3>1
    <3> QED
      BY <1>1, <2>1, <3>1, <3>2 DEF Reaches
  <2>10. Aligned(p, n + 1)'
    BY <1>6, <2>6, <2>8, <2>9 DEF Aligned
  <2> QED
    BY <2>1, <2>10
<1>10. CASE partials # 0
  <2>1. Safe' = Safe /\ Left' = n /\ Safe' # Len(sent')
    BY <1>0, <1>1, <1>2, <1>3, <1>4, <1>10 DEF Left
  <2>2. Reaches(o, n)'
    BY <1>1, <1>6, <1>7, <1>10, <2>1 DEF Reaches
  <2>3. Aligned(o, n)'
    BY <1>1, <1>6, <1>8, <2>2 DEF Aligned
  <2> QED
    BY <2>1, <2>3
<1> QED
  BY <1>9, <1>10

LEMMA AlignedNext ==
  ASSUME StreamInv, [Next]_vars, TypeOK', SenderInv'
  PROVE  AlignedInv'
<1> SUFFICES ASSUME ~thrown', Waiting' PROVE \E q : Aligned(q, Left)'
  BY DEF AlignedInv
<1>0. TypeOK /\ SenderInv /\ Left \in Int /\ Safe \in Nat /\ partials \in Nat
  BY LeftFacts, SafeFacts DEF StreamInv, TypeOK
<1> DEFINE Before == ~thrown /\ Waiting
<1>1. ASSUME Before PROVE \E n \in Nat : n = Left /\ \E o : Aligned(o, n)
  <2>1. Left \in Nat
    BY <1>0, <1>1 DEF Waiting
  <2>2. \E o : Aligned(o, Left)
    BY <1>1 DEF StreamInv, AlignedInv
  <2> QED
    BY <2>1, <2>2
\* Nothing was due that is not due now.
<1>2. ASSUME UNCHANGED <<thrown, received, partials>>, Safe' = Safe PROVE Before
  BY <1>2 DEF Waiting, Left
<1>3. ASSUME NEW d \in Payloads, Serialize(d) PROVE \E q : Aligned(q, Left)'
  <2>1. /\ UNCHANGED <<thrown, received, partials>>
        /\ Safe' = IF partials = 0 THEN Len(sent') ELSE Safe
    BY <1>3, SafeNext DEF Serialize, receiverVars
  <2>2. Before
    <3>1. CASE partials = 0
      BY <2>1, <3>1, Uncut
    <3>2. CASE partials # 0
      BY <1>2, <2>1, <3>2
    <3> QED
      BY <3>1, <3>2
  <2>3. PICK n \in Nat : n = Left /\ \E o : Aligned(o, n)
    BY <1>1, <2>2
  <2> QED
    BY <1>3, <2>2, <2>3, AlignedSerialize
<1>4. CASE SendDone
  <2>1. UNCHANGED <<thrown, received, partials>> /\ Safe' = Safe
    <3>1. UNCHANGED <<thrown, received, partials, sent, cut, compression>>
      BY <1>4 DEF SendDone, options, receiverVars
    <3> QED
      BY <3>1 DEF Safe
  <2>2. PICK n \in Nat : n = Left /\ \E o : Aligned(o, n)
    BY <1>1, <1>2, <2>1
  <2>3. PICK o : Aligned(o, n)
    BY <2>2
  <2>4. Left' = n /\ Aligned(o, n)'
    BY <1>2, <1>4, <2>1, <2>2, <2>3, AlignedDone
  <2> QED
    BY <2>4
<1>5. CASE SendPartial
  <2>1. /\ UNCHANGED <<thrown, received>> /\ partials' > 0 /\ Safe' <= Safe
    BY <1>0, <1>5, SafeNext, SafeFacts DEF SendPartial, receiverVars
  <2>2. Before
    <3>1. Left' = Safe' - Len(received) /\ Left = Safe - Len(received)
      BY <2>1 DEF Left
    <3>2. Safe' \in Int /\ Len(received) \in Nat
      BY <1>0, <1>5, SafeNext, LeftFacts DEF Next, Send
    <3>3. Left' > 0
      BY <2>1, <3>1, <3>2 DEF Waiting
    <3>4. Left > 0
      BY <1>0, <2>1, <3>1, <3>2, <3>3
    <3> QED
      BY <1>0, <2>1, <3>4 DEF Waiting
  <2>3. PICK n \in Nat : n = Left /\ \E o : Aligned(o, n)
    BY <1>1, <2>2
  <2> QED
    BY <1>5, <2>2, <2>3, AlignedPartial
<1>6. CASE SendRefused
  <2>1. UNCHANGED <<thrown, received, partials>> /\ Safe' = Safe
    <3>1. UNCHANGED <<thrown, received, partials, sent, cut, compression>>
      BY <1>6 DEF SendRefused, options, receiverVars
    <3> QED
      BY <3>1 DEF Safe
  <2>2. PICK n \in Nat : n = Left /\ \E o : Aligned(o, n)
    BY <1>1, <1>2, <2>1
  <2>3. PICK o : Aligned(o, n)
    BY <2>2
  <2>4. Left' = n /\ Aligned(o, n)'
    BY <1>2, <1>6, <2>1, <2>2, <2>3, AlignedRefused
  <2> QED
    BY <2>4
<1>7. ASSUME Receive PROVE Safe' = Safe /\ partials' = partials
  <2>1. UNCHANGED <<partials, sent, cut, compression>>
    BY <1>7 DEF Receive, ReceiveSome, ReceiveEmpty, Mismatch, Accept, Ignore, Throw,
         ReceivePacket, options, senderVars
  <2> QED
    BY <2>1 DEF Safe
<1>8. CASE ReceiveSome
  <2>1. UNCHANGED <<thrown, received, partials>> /\ Safe' = Safe
    BY <1>7, <1>8 DEF Receive, ReceiveSome
  <2>2. PICK n \in Nat : n = Left /\ \E o : Aligned(o, n)
    BY <1>1, <1>2, <2>1
  <2>3. PICK o : Aligned(o, n)
    BY <2>2
  <2>4. Left' = n /\ Aligned(o, n)'
    BY <1>2, <1>8, <2>1, <2>2, <2>3, AlignedSome
  <2> QED
    BY <2>4
<1>9. CASE ReceiveEmpty
  <2>1. UNCHANGED <<thrown, received, partials>> /\ Safe' = Safe
    BY <1>7, <1>9 DEF Receive, ReceiveEmpty
  <2>2. PICK o : Aligned(o, Left)
    BY <1>1, <1>2, <2>1
  <2>3. ReadByte /\ Complete(Got) /\ Len(Got) = 2 /\ Waiting
    BY <1>2, <1>9, <2>1 DEF ReceiveEmpty
  <2>4. Len(Got) > 2
    BY <2>2, <2>3, Read
  <2> QED
    BY <2>3, <2>4
<1>10. ASSUME NEW m \in Packets, Accept(m) PROVE \E q : Aligned(q, Left)'
  <2>1. Safe' = Safe /\ partials' = partials
    BY <1>7, <1>10 DEF Receive
  <2>2. /\ thrown' = thrown /\ ReadByte /\ received' = Append(received, m.data)
        /\ ReceivePacket(m)
    BY <1>10 DEF Accept, ReceivePacket
  <2>3. Len(received') = Len(received) + 1 /\ Len(received) \in Nat
    <3>1. m.data \in Seq(Nat) /\ received \in Seq(Seq(Nat))
      BY <1>0, <2>2, PacketData DEF TypeOK
    <3> QED
      BY <2>2, <3>1, AppendProperties
  <2>4. Before
    <3>1. Left' = Left - 1
      BY <1>0, <2>1, <2>3 DEF Left
    <3>2. Left' >= 0
      BY DEF Waiting
    <3> QED
      BY <1>0, <2>2, <3>1, <3>2 DEF Waiting
  <2>5. PICK n \in Nat : n = Left /\ \E o : Aligned(o, n)
    BY <1>1, <2>4
  <2> QED
    BY <1>10, <2>4, <2>5, AlignedAccept
<1>11. ASSUME NEW m \in Packets, Ignore(m) PROVE \E q : Aligned(q, Left)'
  <2>1. UNCHANGED <<thrown, received, partials>> /\ Safe' = Safe
    BY <1>7, <1>11 DEF Receive, Ignore
  <2>2. ReceivePacket(m) /\ Unknown(m) /\ Waiting
    BY <1>2, <1>11, <2>1 DEF Ignore
  <2>3. Known(m)
    BY <2>2, Taken
  <2> QED
    BY <1>0, <2>2, <2>3, KnownTaken
<1>12. ASSUME NEW m \in Packets, Throw(m) PROVE \E q : Aligned(q, Left)'
  BY <1>12 DEF Throw
<1>13. CASE UNCHANGED vars
  <2>1. /\ UNCHANGED <<thrown, received, partials>> /\ Safe' = Safe /\ Left' = Left
        /\ UNCHANGED <<compression, flag, sent, sending, open, sendPos, pending, wire>>
    BY <1>13 DEF vars, Safe, Left
  <2>2. PICK n \in Nat : n = Left /\ \E o : Aligned(o, n)
    BY <1>1, <1>2, <2>1
  <2>3. PICK o : Aligned(o, n)
    BY <2>2
  <2>4. Blocks(n)' = Blocks(n) /\ Stream' = Stream
    BY <2>1, BlocksSame DEF Stream
  <2>5. Aligned(o, n)'
    BY <2>1, <2>3, <2>4 DEF Aligned, Reaches
  <2> QED
    BY <2>1, <2>2, <2>5
<1>14. CASE Mismatch
  BY <1>14 DEF Mismatch
<1> QED
  BY <1>3, <1>4, <1>5, <1>6, <1>8, <1>9, <1>10, <1>11, <1>12, <1>13, <1>14
     DEF Next, Send, Receive

LEMMA StreamInit == Init => StreamInv
<1> SUFFICES ASSUME Init PROVE StreamInv
  OBVIOUS
<1>1. TypeOK
  BY TypeInit
<1>2. SenderInv
  BY DEF Init, SenderInv
<1>3. /\ partials = 0 /\ Len(received) = 0 /\ Len(sent) = 0 /\ Safe = 0 /\ ~thrown
      /\ ~sending /\ open
  BY DEF Init, Safe
<1>4. ReceiverInv
  BY <1>3 DEF ReceiverInv
<1>5. Left = 0
  BY <1>3 DEF Left
<1>6. Stream = <<>> /\ Len(Stream) = 0
  BY ConcatEmptySeq, Empties DEF Init, Stream
<1>7. \E o : Aligned(o, 0)
  <2>1. PICK o : Framing(o, 0, Blocks(0), Stream)
    BY FramingEmpty
  <2>2. o[0] = 0
    BY <2>1 DEF Framing
  <2>3. Reaches(o, 0)
    BY <1>3, <1>6, <2>2 DEF Reaches
  <2> QED
    BY <2>1, <2>3 DEF Aligned
<1> QED
  BY <1>1, <1>2, <1>4, <1>5, <1>7 DEF StreamInv, AlignedInv

LEMMA StreamNext == StreamInv /\ [Next]_vars => StreamInv'
<1> SUFFICES ASSUME StreamInv, [Next]_vars PROVE StreamInv'
  OBVIOUS
<1>1. TypeOK'
  BY TypeNext DEF StreamInv
<1>2. SenderInv'
  BY SenderNext DEF StreamInv
<1>3. ReceiverInv'
  BY ReceiverNext
<1>4. AlignedInv'
  BY <1>1, <1>2, AlignedNext
<1> QED
  BY <1>1, <1>2, <1>3, <1>4 DEF StreamInv

\* The blocks that are under way are those of the safe packets that have not
\* arrived, in their order and without a gap, whatever the payloads, the size of
\* a byte, the room of the connection and the interleaving of the two programs.
THEOREM StreamInvariant == Spec => []StreamInv
<1> QED
  BY StreamInit, StreamNext, PTL DEF Spec

\* Up to the first packet that was cut the receiver gets what was sent, in order
\* and unchanged, and without compression nothing makes it throw before (onSend
\* and onReceive, WorkPacket.cpp:37-138).
THEOREM PacketsIntact == Spec => []IntactUpToCut
<1>1. StreamInv => IntactUpToCut
  BY DEF StreamInv, ReceiverInv, IntactUpToCut
<1> QED
  BY <1>1, StreamInvariant, PTL

-----------------------------------------------------------------------------
(* Refinement: the bytes are a channel of whole packets.                     *)

LEMMA BeginsAs ==
  ASSUME NEW T, NEW s \in Seq(T), NEW e \in T
  PROVE  Len(Append(s, e)) = Len(s) + 1 /\ SubSeq(Append(s, e), 1, Len(s)) = s
<1> DEFINE a == Append(s, e)
<1>1. /\ a \in Seq(T) /\ Len(a) = Len(s) + 1 /\ Len(s) \in Nat
      /\ \A i \in 1 .. Len(s) : a[i] = s[i]
  BY AppendProperties
<1> HIDE DEF a
<1>2. /\ SubSeq(a, 1, Len(s)) \in Seq(T) /\ Len(SubSeq(a, 1, Len(s))) = Len(s)
      /\ \A i \in 1 .. Len(s) : SubSeq(a, 1, Len(s))[i] = a[i]
  <2>1. \A i \in 1 .. Len(s) : a[i] \in T
    BY <1>1, ElementOfSeq
  <2> QED
    BY <1>1, <2>1, SubSeqProperties
<1>3. SubSeq(a, 1, Len(s)) = s
  BY <1>1, <1>2, SeqEqual
<1> QED
  BY <1>1, <1>3 DEF a

LEMMA SerializeIsSend ==
  ASSUME StreamInv, NEW d \in Payloads, Serialize(d)
  PROVE  Channel!Send(d)
<1>1. /\ sent' = Append(sent, d) /\ UNCHANGED <<received, partials>>
  BY DEF Serialize, receiverVars
<1>2. Safe' = IF partials = 0 THEN Len(sent') ELSE Safe
  BY SafeNext DEF Next
<1>3. Len(sent') = Len(sent) + 1
  BY <1>1, AppendProperties DEF StreamInv, TypeOK
<1>4. partials = 0 => Safe = Len(sent)
  BY SafeFacts DEF StreamInv
<1> QED
  BY <1>1, <1>2, <1>3, <1>4 DEF Channel!Send

LEMMA PartialIsCut ==
  ASSUME StreamInv, SendPartial
  PROVE  Channel!Cut \/ UNCHANGED Channel!vars
<1>1. UNCHANGED <<sent, received>> /\ sending
  BY DEF SendPartial, receiverVars
<1>2. /\ Safe' = Safe \/ (partials = 0 /\ Safe' = Len(sent) - 1)
      /\ partials' > 0 /\ partials' \in Nat
  <2>1. partials \in Nat /\ partials' = partials + 1
    BY DEF StreamInv, TypeOK, SendPartial
  <2> QED
    BY <2>1, SafeNext DEF Next, Send
<1>3. CASE partials = 0
  <2>1. Safe = Len(sent) /\ Len(received) < Len(sent)
    BY <1>1, <1>3, SafeFacts DEF StreamInv, ReceiverInv
  <2> QED
    BY <1>1, <1>2, <1>3, <2>1 DEF Channel!Cut
<1>4. CASE partials # 0
  BY <1>1, <1>2, <1>4 DEF Channel!vars
<1> QED
  BY <1>3, <1>4

LEMMA AcceptDelivers ==
  ASSUME StreamInv, NEW m \in Packets, Accept(m)
  PROVE  Channel!Deliver \/ Channel!Corrupt
<1>1. /\ ReceivePacket(m)
      /\ received' = Append(received, m.data)
      /\ UNCHANGED <<sent, partials>>
  BY DEF Accept, ReceivePacket, senderVars
<1>2. Safe' = Safe
  <2>1. UNCHANGED <<partials, sent, compression, cut>>
    BY DEF Accept, ReceivePacket, senderVars, options
  <2> QED
    BY <2>1 DEF Safe
<1>3. CASE Waiting
  <2>1. m.data = sent[Len(received) + 1] /\ Left > 0 /\ Left \in Nat
    BY <1>1, <1>3, Taken
  <2>2. Len(received) < Safe
    BY <2>1, LeftFacts DEF StreamInv
  <2> QED
    BY <1>1, <1>2, <2>1, <2>2 DEF Channel!Deliver
<1>4. CASE ~Waiting
  <2>1. partials > 0 /\ partials \in Nat /\ Safe <= Len(received)
    BY <1>4, Past DEF StreamInv, TypeOK
  <2>2. /\ Len(received') = Len(received) + 1
        /\ SubSeq(received', 1, Len(received)) = received
    <3>1. received \in Seq(Seq(Nat))
      BY DEF StreamInv, TypeOK
    <3>2. m.data \in Seq(Nat)
      BY <1>1, PacketData DEF ReceivePacket, StreamInv
    <3> QED
      BY <1>1, <3>1, <3>2, BeginsAs
  <2> QED
    BY <1>1, <1>2, <2>1, <2>2, LeftFacts DEF Channel!Corrupt, StreamInv, TypeOK
<1> QED
  BY <1>3, <1>4

\* onSend, send, receive and onReceive together (WorkPacket.cpp:37-138, the send
\* loops) give each connection what HostDispatch and ClientNode take it for, a
\* channel that brings whole packets in their order, up to the first that was cut.
THEOREM BytesCarryPackets == Spec => ImplementsChannel
<1>1. Init => Channel!Init
  BY DEF Init, Channel!Init, Safe
<1>2. StreamInv /\ [Next]_vars => [Channel!Next]_(Channel!vars)
  <2> SUFFICES ASSUME StreamInv, [Next]_vars PROVE [Channel!Next]_(Channel!vars)
    OBVIOUS
  <2>1. CASE \E d \in Payloads : Serialize(d)
    BY <2>1, SerializeIsSend DEF Channel!Next
  <2>2. CASE SendPartial
    BY <2>2, PartialIsCut DEF Channel!Next
  <2>3. CASE \E m \in Packets : Accept(m)
    BY <2>3, AcceptDelivers DEF Channel!Next
  <2>4. CASE \/ SendDone \/ SendRefused \/ ReceiveSome \/ ReceiveEmpty \/ Mismatch
             \/ (\E m \in Packets : Ignore(m) \/ Throw(m)) \/ UNCHANGED vars
    <3>1. UNCHANGED <<partials, sent, compression, cut, received>>
      BY <2>4 DEF SendDone, SendRefused, ReceiveSome, ReceiveEmpty, Mismatch, Ignore,
         Throw, ReceivePacket, options, senderVars, receiverVars, vars
    <3>2. Safe' = Safe
      BY <3>1 DEF Safe
    <3> QED
      BY <3>1, <3>2 DEF Channel!vars
  <2> QED
    BY <2>1, <2>2, <2>3, <2>4 DEF Next, Send, Receive
<1> QED
  BY <1>1, <1>2, StreamInvariant, PTL DEF Spec, ImplementsChannel, Channel!Spec
=============================================================================
