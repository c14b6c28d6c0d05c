------------------------- MODULE TcpReceiptsProofs -------------------------
(***************************************************************************)
(* What an acknowledgement is worth: the numbers that the two ends of a    *)
(* TcpStream have of each other.  Goes on from HonestInv of                *)
(* TcpStreamProofs, which is about the bytes that packets hold.            *)
(***************************************************************************)
EXTENDS TcpStreamProofs

(* The SYN takes a number too.                                             *)
NumbersSuffice == OpensOnce /\ MaxBytes + 1 < SeqMod

(* The number that e draws, which is that of its SYN.  All distances are   *)
(* from here.                                                              *)
Origin(e) == ISN[e][1]

Live(c) == Opening(c) \/ Opened(c)

(* c knows where the stream that it receives begins.                       *)
Heard(c) == c.state = TCP_SYN_RCVD \/ Opened(c)

(* How far c has sent, and received, the streams with the origin o.  Of a  *)
(* stream that has been closed (begun, and live no more) this is forgotten *)
(* and may be anything: it is not opened again.                            *)
SentTo(c, begun, o) ==
    IF Live(c) THEN Before(c.outSeqno, o) ELSE IF begun THEN SeqMod - 1 ELSE 0

GotTo(c, begun, o) ==
    IF Heard(c) THEN Before(c.inAckno, o)
    ELSE IF begun /\ ~Opening(c) THEN SeqMod - 1 ELSE 0

(* How far the stream of e has been sent, and how far it has been received.*)
Top(e) == SentTo(stream[e], opens[e] # <<>>, Origin(e))
Reach(e) == GotTo(stream[Peer(e)], opens[Peer(e)] # <<>>, Origin(e))

(* p belongs to the stream with the origin o, sent as far as top.          *)
Placed(p, o, top) ==
    /\ Before(p.seqno, o) + Len(p.data) <= top
    /\ p.syn => p.seqno = o /\ 1 <= top
    /\ ~p.syn => 1 <= Before(p.seqno, o)

(* p acknowledges no more than has been received.                          *)
Acks(p, o, reach) ==
    p.ack => 1 <= Before(p.ackno, o) /\ Before(p.ackno, o) <= reach

(* Whether the SYNs of e, sent or to be sent again, acknowledge.           *)
SynKinds(ps, q) ==
    {p.ack : p \in {x \in ps \cup {out.pkt : out \in Range(q)} : x.syn}}
Kinds(e) == SynKinds(net[Peer(e)], stream[e].outPkt)

(* What a stream is judged by: its origin, how far it has been received    *)
(* and the kinds of its SYNs; and the origin of what it receives, how far  *)
(* that has been sent and the kinds of the SYNs that come.                 *)
Marks == [o : SeqNum, reach : 0 .. SeqMod - 1, kinds : SUBSET BOOLEAN,
          po : SeqNum, top : 0 .. SeqMod - 1, pkinds : {{}, {TRUE}, {FALSE}}]

MarksOf(e) ==
    [o |-> Origin(e), reach |-> Reach(e), kinds |-> Kinds(e),
     po |-> Origin(Peer(e)), top |-> Top(Peer(e)), pkinds |-> Kinds(Peer(e))]

(* What c has received, before it knows of what: nothing.                  *)
Gained(c, po) == IF c.state = TCP_SYN_SENT THEN 0 ELSE Before(c.inAckno, po)

(* What c may send or send again, and what it may be sent.                 *)
OwnPackets(c, m) ==
    {p \in ShortPacket :
        /\ p.syn \/ p.ack
        /\ Placed(p, m.o, Before(c.outSeqno, m.o))
        /\ Acks(p, m.po, Gained(c, m.po))
        /\ p.syn => p.ack \in m.kinds}
OwnOut(c, m) == [pkt : OwnPackets(c, m), retrans : Nat]

PeerPackets(m) ==
    {p \in ShortPacket : Placed(p, m.po, m.top) /\ Acks(p, m.o, m.reach)}

Careful(c, m) ==
    /\ c.outPkt \in Seq(OwnOut(c, m))
    /\ c.inPkt \in Seq(PeerPackets(m))
    /\ ~Live(c) => c.outPkt = <<>>
    /\ Live(c) => c.initOur = m.o /\ Before(c.outAcked, m.o) <= m.reach
    /\ c.state = TCP_SYN_SENT \/ Opened(c) => 1 <= Before(c.outSeqno, m.o)
    /\ Heard(c) => 1 <= Before(c.inAckno, m.po) /\ Before(c.inAckno, m.po) <= m.top
    /\ c.state = TCP_SYN_RCVD => Before(c.inAckno, m.po) = 1 /\ TRUE \notin m.pkinds

ReceiptInv ==
    /\ \A e \in Ends : Careful(stream[e], MarksOf(e))
    /\ \A e \in Ends : net[e] \subseteq PeerPackets(MarksOf(e))
    /\ \A e \in Ends : Kinds(e) \in {{}, {TRUE}, {FALSE}}

(* c in the middle of a method that found it as c0: neither number has     *)
(* gone back.                                                              *)
Since(c, c0, m) ==
    /\ c \in TypedStream /\ c0 \in TypedStream
    /\ Careful(c, m)
    /\ c.tx \subseteq OwnPackets(c, m)
    /\ Live(c) => Live(c0)
    /\ Live(c0) => Before(c0.outSeqno, m.o) <= Before(c.outSeqno, m.o)
    /\ Heard(c0) => /\ Before(c0.inAckno, m.po) <= Before(c.inAckno, m.po)
                    /\ Live(c) => Heard(c)

LEMMA LiveStates ==
  ASSUME NEW c
  PROVE  /\ Opened(c) => Live(c) /\ Heard(c) /\ ~Opening(c)
         /\ c.state = TCP_SYN_SENT => Live(c) /\ Opening(c) /\ ~Heard(c) /\ ~Opened(c)
         /\ c.state = TCP_SYN_RCVD => Live(c) /\ Opening(c) /\ Heard(c) /\ ~Opened(c)
         /\ c.state = TCP_CLOSED => ~Live(c) /\ ~Heard(c) /\ ~Opening(c) /\ ~Opened(c)
         /\ Opened(c) => c.state \notin {TCP_SYN_SENT, TCP_SYN_RCVD, TCP_CLOSED}
         /\ Heard(c) => Live(c) /\ c.state # TCP_SYN_SENT
  BY States DEF Live, Heard, Opened, Opening

LEMMA NumberFacts ==
  ASSUME NEW c \in TypedStream, NEW m \in Marks
  PROVE  /\ c.outSeqno \in SeqNum /\ c.outAcked \in SeqNum /\ c.inAckno \in SeqNum
         /\ c.state \in 0 .. 10 /\ c.known \in BOOLEAN
         /\ m.o \in SeqNum /\ m.po \in SeqNum
         /\ m.reach \in Nat /\ m.reach < SeqMod /\ m.top \in Nat /\ m.top < SeqMod
         /\ Before(c.outSeqno, m.o) \in Nat /\ Before(c.outSeqno, m.o) < SeqMod
         /\ Before(c.outAcked, m.o) \in Nat
         /\ Before(c.inAckno, m.po) \in Nat /\ Before(c.inAckno, m.po) < SeqMod
         /\ Gained(c, m.po) \in Nat
<1>1. /\ c.outSeqno \in SeqNum /\ c.outAcked \in SeqNum /\ c.inAckno \in SeqNum
      /\ c.state \in 0 .. 10 /\ c.known \in BOOLEAN
  BY DEF TypedStream
<1>2. /\ m.o \in SeqNum /\ m.po \in SeqNum
      /\ m.reach \in 0 .. SeqMod - 1 /\ m.top \in 0 .. SeqMod - 1
  BY DEF Marks
<1>3. SeqMod \in Nat
  BY Sizes
<1>4. /\ Before(c.outSeqno, m.o) \in Nat /\ Before(c.outSeqno, m.o) < SeqMod
      /\ Before(c.outAcked, m.o) \in Nat
      /\ Before(c.inAckno, m.po) \in Nat /\ Before(c.inAckno, m.po) < SeqMod
  BY <1>1, <1>2, BeforeType
<1> QED BY <1>1, <1>2, <1>3, <1>4 DEF Gained

LEMMA PacketFacts ==
  ASSUME NEW p \in ShortPacket, NEW o \in SeqNum
  PROVE  /\ p.seqno \in SeqNum /\ p.ackno \in SeqNum /\ Len(p.data) \in Nat
         /\ Before(p.seqno, o) \in Nat /\ Before(p.ackno, o) \in Nat
  BY ShortPacketParts, BeforeType, Sizes

(* What has been sent or received stays so when the stream goes on.        *)
LEMMA OwnGrows ==
  ASSUME NEW m \in Marks, NEW c \in TypedStream, NEW d \in TypedStream,
         Before(c.outSeqno, m.o) <= Before(d.outSeqno, m.o),
         Gained(c, m.po) <= Gained(d, m.po)
  PROVE  /\ OwnPackets(c, m) \subseteq OwnPackets(d, m)
         /\ Seq(OwnOut(c, m)) \subseteq Seq(OwnOut(d, m))
<1>1. /\ m.o \in SeqNum /\ m.po \in SeqNum
      /\ Before(c.outSeqno, m.o) \in Nat /\ Before(d.outSeqno, m.o) \in Nat
      /\ Gained(c, m.po) \in Nat /\ Gained(d, m.po) \in Nat
  BY NumberFacts
<1>2. ASSUME NEW p \in OwnPackets(c, m) PROVE p \in OwnPackets(d, m)
  <2>1. /\ p \in ShortPacket /\ Placed(p, m.o, Before(c.outSeqno, m.o))
        /\ Acks(p, m.po, Gained(c, m.po)) /\ (p.syn => p.ack \in m.kinds)
    BY DEF OwnPackets
  <2>2. /\ Before(p.seqno, m.o) \in Nat /\ Before(p.ackno, m.po) \in Nat
        /\ Len(p.data) \in Nat
    BY <1>1, <2>1, PacketFacts
  <2>3. Placed(p, m.o, Before(d.outSeqno, m.o))
    BY <1>1, <2>1, <2>2 DEF Placed
  <2>4. Acks(p, m.po, Gained(d, m.po))
    BY <1>1, <2>1, <2>2 DEF Acks
  <2> QED BY <2>1, <2>3, <2>4 DEF OwnPackets
<1>3. OwnPackets(c, m) \subseteq OwnPackets(d, m)
  BY <1>2
<1>4. OwnOut(c, m) \subseteq OwnOut(d, m)
  BY <1>3 DEF OwnOut
<1> QED BY <1>3, <1>4, SeqMonotonic

(* The fields that the marks look at.                                      *)
Alike(c, d) ==
    /\ d.initOur = c.initOur /\ d.outSeqno = c.outSeqno
    /\ d.outAcked = c.outAcked /\ d.inAckno = c.inAckno

(* A method that leaves these alone, may let packets go, and may close the *)
(* stream or take it from one open state to another.                       *)
LEMMA AlikeSince ==
  ASSUME NEW m \in Marks, NEW c, NEW c0, Since(c, c0, m), NEW d \in TypedStream,
         Alike(c, d), d.tx \subseteq OwnPackets(c, m),
         \/ d.state = c.state
         \/ Opened(c) /\ Opened(d)
         \/ d.state = TCP_CLOSED,
         Live(d) \/ d.outPkt = <<>>,
         d.outPkt \in Seq(OwnOut(c, m)), d.inPkt \in Seq(PeerPackets(m))
  PROVE  Since(d, c0, m)
<1>1. c \in TypedStream /\ Careful(c, m)
  BY DEF Since
<1>2. /\ Live(d) => Live(c)
      /\ Opening(d) => Opening(c)
      /\ Opened(d) => Opened(c)
      /\ Heard(d) => Heard(c)
      /\ d.state = TCP_SYN_RCVD => c.state = TCP_SYN_RCVD
      /\ Live(d) /\ Heard(c) => Heard(d)
      /\ d.state = TCP_SYN_SENT => c.state = TCP_SYN_SENT
  BY LiveStates DEF Live, Heard, Opened, Opening
<1>3. Gained(c, m.po) <= Gained(d, m.po)
  <2>1. Before(c.inAckno, m.po) \in Nat /\ d.inAckno = c.inAckno
    BY <1>1, NumberFacts DEF Alike
  <2> QED BY <1>2, <2>1 DEF Gained
<1>4. Before(c.outSeqno, m.o) <= Before(d.outSeqno, m.o)
  BY <1>1, NumberFacts DEF Alike
<1>5. /\ OwnPackets(c, m) \subseteq OwnPackets(d, m)
      /\ Seq(OwnOut(c, m)) \subseteq Seq(OwnOut(d, m))
  BY <1>1, <1>3, <1>4, OwnGrows
<1>6. Careful(d, m)
  BY <1>1, <1>2, <1>5 DEF Careful, Alike
<1>7. d.tx \subseteq OwnPackets(d, m)
  BY <1>5
<1> QED BY <1>2, <1>6, <1>7 DEF Since, Alike

(* The same when the queues are as they were.                              *)
LEMMA SameSince ==
  ASSUME NEW m \in Marks, NEW c, NEW c0, Since(c, c0, m), NEW d \in TypedStream,
         Alike(c, d), d.tx = c.tx, d.outPkt = c.outPkt, d.inPkt = c.inPkt,
         \/ d.state = c.state
         \/ Opened(c) /\ Opened(d)
  PROVE  Since(d, c0, m)
<1>1. /\ d.outPkt \in Seq(OwnOut(c, m)) /\ d.inPkt \in Seq(PeerPackets(m))
      /\ d.tx \subseteq OwnPackets(c, m)
  BY DEF Since, Careful
<1>2. Live(d) \/ d.outPkt = <<>>
  BY DEF Since, Careful, Live, Opening, Opened
<1> QED BY <1>1, <1>2, AlikeSince

LEMMA CleanupSince ==
  ASSUME NEW m \in Marks, NEW c, NEW c0, Since(c, c0, m)
  PROVE  Since(Cleanup(c), c0, m)
<1>1. PICK d : d = Cleanup(c)
  OBVIOUS
<1>2. c \in TypedStream /\ d \in TypedStream /\ c = Fields(c)
  BY <1>1, CleanupType, TypedParts DEF Since
<1>3. Alike(c, d)
  BY <1>1, <1>2 DEF Cleanup, Fields, Alike
<1>4. d.state = TCP_CLOSED /\ d.tx = c.tx /\ d.outPkt = <<>> /\ d.inPkt = <<>>
  BY <1>1, <1>2, CleanupFields
<1>5. /\ d.outPkt \in Seq(OwnOut(c, m)) /\ d.inPkt \in Seq(PeerPackets(m))
      /\ d.tx \subseteq OwnPackets(c, m)
  BY <1>4 DEF Since
<1> QED BY <1>1, <1>2, <1>3, <1>4, <1>5, AlikeSince

LEMMA StateSince ==
  ASSUME NEW m \in Marks, NEW c, NEW c0, Since(c, c0, m), Opened(c),
         NEW s \in 0 .. 10, s >= TCP_ESTABLISHED
  PROVE  Since([c EXCEPT !.state = s], c0, m) /\ Opened([c EXCEPT !.state = s])
<1>1. PICK d : d = [c EXCEPT !.state = s]
  OBVIOUS
<1>2. c \in TypedStream /\ d \in TypedStream /\ c = Fields(c)
  BY <1>1, StateType, TypedParts DEF Since
<1>3. /\ d.state = s /\ Alike(c, d)
      /\ d.tx = c.tx /\ d.outPkt = c.outPkt /\ d.inPkt = c.inPkt
  BY <1>1, <1>2 DEF Fields, Alike
<1>4. Opened(d)
  BY <1>3 DEF Opened
<1> QED BY <1>1, <1>2, <1>3, <1>4, SameSince


(* An open stream goes on: neither number goes back, nor past what the     *)
(* other end has done.                                                     *)
LEMMA OpenSince ==
  ASSUME NEW m \in Marks, NEW c, NEW c0, Since(c, c0, m), NEW d \in TypedStream,
         Opened(c), Opened(d), d.initOur = c.initOur,
         Before(c.outSeqno, m.o) <= Before(d.outSeqno, m.o),
         Before(c.inAckno, m.po) <= Before(d.inAckno, m.po),
         Before(d.inAckno, m.po) <= m.top, Before(d.outAcked, m.o) <= m.reach,
         d.tx \subseteq OwnPackets(d, m), d.outPkt \in Seq(OwnOut(d, m)),
         d.inPkt \in Seq(PeerPackets(m))
  PROVE  Since(d, c0, m)
<1>1. /\ c \in TypedStream /\ Live(c) /\ Heard(c) /\ Live(d) /\ Heard(d)
      /\ d.state \notin {TCP_SYN_SENT, TCP_SYN_RCVD, TCP_CLOSED}
  BY LiveStates DEF Since
<1>2. /\ Before(c.outSeqno, m.o) \in Nat /\ Before(d.outSeqno, m.o) \in Nat
      /\ Before(c.inAckno, m.po) \in Nat /\ Before(d.inAckno, m.po) \in Nat
  BY <1>1, NumberFacts
<1>3. /\ c.initOur = m.o /\ 1 <= Before(c.outSeqno, m.o)
      /\ 1 <= Before(c.inAckno, m.po)
  BY <1>1 DEF Since, Careful
<1>4. Careful(d, m)
  <2>1. 1 <= Before(d.outSeqno, m.o) /\ 1 <= Before(d.inAckno, m.po) /\ d.initOur = m.o
    BY <1>2, <1>3
  <2> QED BY ONLY <1>1, <2>1, Before(d.inAckno, m.po) <= m.top,
                  Before(d.outAcked, m.o) <= m.reach, d.outPkt \in Seq(OwnOut(d, m)),
                  d.inPkt \in Seq(PeerPackets(m)) DEF Careful
<1>5. Live(c0) => Before(c0.outSeqno, m.o) <= Before(d.outSeqno, m.o)
  <2> SUFFICES ASSUME Live(c0) PROVE Before(c0.outSeqno, m.o) <= Before(d.outSeqno, m.o)
    OBVIOUS
  <2>1. Before(c0.outSeqno, m.o) <= Before(c.outSeqno, m.o)
    BY DEF Since
  <2>2. Before(c0.outSeqno, m.o) \in Int
    BY NumberFacts DEF Since
  <2> QED BY <1>2, <2>1, <2>2
<1>6. Heard(c0) => Before(c0.inAckno, m.po) <= Before(d.inAckno, m.po)
  <2> SUFFICES ASSUME Heard(c0) PROVE Before(c0.inAckno, m.po) <= Before(d.inAckno, m.po)
    OBVIOUS
  <2>1. Before(c0.inAckno, m.po) <= Before(c.inAckno, m.po)
    BY DEF Since
  <2>2. Before(c0.inAckno, m.po) \in Int
    BY NumberFacts DEF Since
  <2> QED BY <1>2, <2>1, <2>2
<1> QED BY <1>1, <1>4, <1>5, <1>6 DEF Since

(* A packet that is made now, to be sent once or again.                    *)
LEMMA FreshOwn ==
  ASSUME NEW m \in Marks, NEW d \in TypedStream, Heard(d),
         1 <= Before(d.inAckno, m.po), NEW p \in ShortPacket,
         ~p.syn, p.ack, p.ackno = d.inAckno, 1 <= Before(p.seqno, m.o),
         Before(p.seqno, m.o) + Len(p.data) <= Before(d.outSeqno, m.o)
  PROVE  p \in OwnPackets(d, m)
<1>1. Gained(d, m.po) = Before(d.inAckno, m.po) /\ Gained(d, m.po) \in Nat
  BY LiveStates, NumberFacts DEF Gained
<1>2. Placed(p, m.o, Before(d.outSeqno, m.o)) /\ Acks(p, m.po, Gained(d, m.po))
  BY <1>1 DEF Placed, Acks
<1> QED BY <1>2 DEF OwnPackets

LEMMA ToSendKeeps ==
  ASSUME NEW c \in TypedStream, NEW pkt, NEW retrans \in BOOLEAN
  PROVE  /\ ToSend(c, pkt, retrans).initOur = c.initOur
         /\ ToSend(c, pkt, retrans).outAcked = c.outAcked
<1> DEFINE p == Made(c, pkt)
           s == SeqAdd(c.outSeqno, IF pkt.syn THEN 1 ELSE Len(pkt.data))
           q == IF retrans THEN Append(c.outPkt, [pkt |-> p, retrans |-> 0]) ELSE c.outPkt
           tx == c.tx \cup {p}
           ack == p.ackno
           win == p.win
           on == c.timerOn \/ retrans
<1>1. PICK d : d = ToSend(c, pkt, retrans)
  OBVIOUS
<1>2. c = Fields(c)
  BY TypedParts
<1>3. CASE ~c.known
  BY <1>3 DEF ToSend
<1>4. CASE c.known
  <2>1. d = [c EXCEPT !.outSeqno = s, !.lastAck = ack, !.lastWin = win,
                      !.tx = tx, !.timerOn = on, !.outPkt = q]
    BY <1>1, <1>4 DEF ToSend, Made
  <2> HIDE DEF p, s, q, tx, ack, win, on
  <2>2. d.initOur = c.initOur /\ d.outAcked = c.outAcked
    BY <1>2, <2>1 DEF Fields
  <2> QED BY <1>1, <2>2
<1> QED BY <1>3, <1>4

(* An open stream sends a packet, with or without data.                    *)
LEMMA ToSendSince ==
  ASSUME NEW m \in Marks, NEW c, NEW c0, Since(c, c0, m), Opened(c),
         NEW pkt \in Flags, NEW retrans \in BOOLEAN, ~pkt.syn, pkt.ack,
         Len(pkt.data) <= MaxSeg,
         Before(c.outSeqno, m.o) + Len(pkt.data) < SeqMod
  PROVE  /\ Since(ToSend(c, pkt, retrans), c0, m)
         /\ ToSend(c, pkt, retrans).state = c.state
<1> DEFINE p == Made(c, pkt)
           out == [pkt |-> p, retrans |-> 0]
           L == Len(pkt.data)
<1>1. PICK d : d = ToSend(c, pkt, retrans)
  OBVIOUS
<1>2. c \in TypedStream /\ d \in TypedStream /\ SentAs(d, c, pkt, retrans)
  BY <1>1, ToSendType, ToSendFields DEF Since
<1>3. d.initOur = c.initOur /\ d.outAcked = c.outAcked
  BY <1>1, <1>2, ToSendKeeps
<1>4. CASE ~c.known
  BY <1>1, <1>2, <1>4 DEF SentAs
<1>5. CASE c.known
  <2>1. /\ d.state = c.state /\ d.inAckno = c.inAckno /\ d.inPkt = c.inPkt
        /\ d.outSeqno = SeqAdd(c.outSeqno, L)
        /\ d.tx = c.tx \cup {p}
        /\ d.outPkt = Append(c.outPkt, out) \/ d.outPkt = c.outPkt
    BY <1>2, <1>5 DEF SentAs
  <2>2. L \in Nat
    BY DEF Flags
  <2>3. /\ p \in ShortPacket /\ p.seqno = c.outSeqno /\ p.data = pkt.data
        /\ p.ack /\ ~p.syn
    BY <1>2, MadeType
  <2>4. p.ackno = c.inAckno
    BY DEF Made
  <2> HIDE DEF p, L
  <2>5. /\ c.outSeqno \in SeqNum /\ m.o \in SeqNum
        /\ Before(c.outSeqno, m.o) \in Nat /\ Before(c.inAckno, m.po) \in Nat
    BY <1>2, NumberFacts
  <2>6. Before(d.outSeqno, m.o) = Before(c.outSeqno, m.o) + L
    BY <2>1, <2>2, <2>5, BeforeSum DEF L
  <2>7. Opened(d)
    BY <2>1 DEF Opened
  <2>8. /\ 1 <= Before(c.outSeqno, m.o) /\ 1 <= Before(c.inAckno, m.po)
        /\ Before(c.inAckno, m.po) <= m.top /\ Before(c.outAcked, m.o) <= m.reach
        /\ c.outPkt \in Seq(OwnOut(c, m)) /\ c.inPkt \in Seq(PeerPackets(m))
        /\ c.tx \subseteq OwnPackets(c, m)
    BY LiveStates DEF Since, Careful
  <2>9. p \in OwnPackets(d, m)
    <3>1. Before(p.seqno, m.o) + Len(p.data) <= Before(d.outSeqno, m.o)
      BY <2>2, <2>3, <2>5, <2>6 DEF L
    <3>2. p.ackno = d.inAckno /\ 1 <= Before(d.inAckno, m.po) /\ 1 <= Before(p.seqno, m.o)
      BY <2>1, <2>3, <2>4, <2>8
    <3> QED BY <1>2, <2>3, <2>7, <3>1, <3>2, LiveStates, FreshOwn
  <2>10. /\ OwnPackets(c, m) \subseteq OwnPackets(d, m)
         /\ Seq(OwnOut(c, m)) \subseteq Seq(OwnOut(d, m))
    <3>1. Before(c.outSeqno, m.o) <= Before(d.outSeqno, m.o)
      BY <2>2, <2>5, <2>6
    <3>2. Gained(c, m.po) <= Gained(d, m.po)
      BY <1>2, <2>1, NumberFacts DEF Gained
    <3> QED BY <1>2, <3>1, <3>2, OwnGrows
  <2>11. d.outPkt \in Seq(OwnOut(d, m))
    <3>1. out \in OwnOut(d, m)
      BY <2>9 DEF OwnOut
    <3>2. c.outPkt \in Seq(OwnOut(d, m))
      BY <2>8, <2>10
    <3> HIDE DEF out
    <3> QED BY SMTT(30), <2>1, <3>1, <3>2, AppendProperties
  <2>12. d.tx \subseteq OwnPackets(d, m)
    BY <2>1, <2>8, <2>9, <2>10
  <2>13. Before(c.outSeqno, m.o) <= Before(d.outSeqno, m.o)
    BY <2>2, <2>5, <2>6
  <2>14. /\ Before(c.inAckno, m.po) <= Before(d.inAckno, m.po)
         /\ Before(d.inAckno, m.po) <= m.top /\ Before(d.outAcked, m.o) <= m.reach
         /\ d.inPkt \in Seq(PeerPackets(m))
    BY <1>3, <2>1, <2>5, <2>8
  <2>15. Since(d, c0, m)
    BY <1>2, <1>3, <2>7, <2>11, <2>12, <2>13, <2>14, OpenSince
  <2> QED BY <1>1, <2>1, <2>15
<1> QED BY <1>1, <1>2, <1>4, <1>5 DEF Since, TypedStream

LEMMA SendAckSince ==
  ASSUME NEW m \in Marks, NEW c, NEW c0, Since(c, c0, m), Opened(c)
  PROVE  Since(SendAck(c), c0, m) /\ SendAck(c).state = c.state
<1>1. AckPkt \in Flags /\ ~AckPkt.syn /\ AckPkt.ack /\ Len(AckPkt.data) = 0
  <2>1. Len(<<>>) = 0
    OBVIOUS
  <2> QED BY <2>1, FlagsOfAck DEF AckPkt
<1>2. Before(c.outSeqno, m.o) + 0 < SeqMod /\ 0 <= MaxSeg /\ FALSE \in BOOLEAN
  BY NumberFacts, Sizes DEF Since
<1> QED BY <1>1, <1>2, ToSendSince DEF SendAck

(***************************************************************************)
(* Sending                                                                 *)
(***************************************************************************)

LEMMA AcknowledgeKeeps ==
  ASSUME NEW c \in TypedStream
  PROVE  Alike(c, Acknowledge(c))
<1> DEFINE n == AckedHead(c)
           g == IF n > 0 /\ ~IsOldSequence(c.outAcked, c.congestUpdate)
                  THEN GrowCongestWin(c) ELSE c
           rest == SubSeq(g.outPkt, n + 1, Len(g.outPkt))
           on == IF n = Len(c.outPkt) THEN FALSE ELSE g.timerOn \/ n > 0
<1>1. PICK d : d = Acknowledge(c)
  OBVIOUS
<1>2. c = Fields(c)
  BY TypedParts
<1>3. g = Fields(g) /\ Alike(c, g)
  <2>1. CASE g = c
    BY <1>2, <2>1 DEF Alike
  <2>2. CASE g = GrowCongestWin(c)
    <3>1. PICK x : x = GrowCongestWin(c)
      OBVIOUS
    <3>2. x = Fields(x)
      BY <3>1, GrowCongestWinType, TypedParts
    <3>3. Alike(c, x)
      BY <1>2, <3>1 DEF GrowCongestWin, Fields, Alike
    <3> QED BY <2>2, <3>1, <3>2, <3>3
  <2> QED BY <2>1, <2>2
<1>4. d = [g EXCEPT !.outPkt = rest, !.timerOn = on]
  BY <1>1 DEF Acknowledge
<1> HIDE DEF g, n, rest, on
<1>5. Alike(g, d)
  BY <1>3, <1>4 DEF Fields, Alike
<1> QED BY <1>1, <1>3, <1>5 DEF Alike

LEMMA AcknowledgeSince ==
  ASSUME NEW m \in Marks, NEW c, NEW c0, Since(c, c0, m)
  PROVE  Since(Acknowledge(c), c0, m)
<1>1. PICK d : d = Acknowledge(c)
  OBVIOUS
<1>2. c \in TypedStream /\ d \in TypedStream
  BY <1>1, AcknowledgeType DEF Since
<1>3. Alike(c, d)
  BY <1>1, <1>2, AcknowledgeKeeps
<1>4. /\ c.outPkt \in Seq(OwnOut(c, m)) /\ c.inPkt \in Seq(PeerPackets(m))
      /\ c.tx \subseteq OwnPackets(c, m)
      /\ ~Live(c) => c.outPkt = <<>>
  BY DEF Since, Careful
<1>5. /\ d.state = c.state /\ d.inPkt = c.inPkt /\ d.tx = c.tx
      /\ d.outPkt \in Seq(OwnOut(c, m))
  BY <1>1, <1>2, <1>4, AcknowledgeFields
<1>6. Live(d) \/ d.outPkt = <<>>
  <2>1. CASE Live(c)
    BY <1>5, <2>1 DEF Live, Opening, Opened
  <2>2. CASE ~Live(c)
    <3>1. c.outPkt \in Seq({})
      BY <1>4, <2>2
    <3>2. d.outPkt \in Seq({})
      BY <1>1, <1>2, <3>1, AcknowledgeFields
    <3> QED BY <3>2
  <2> QED BY <2>1, <2>2
<1>7. Since(d, c0, m)
  BY <1>2, <1>3, <1>4, <1>5, <1>6, AlikeSince
<1> QED BY <1>1, <1>7

(* A packet that is sent again acknowledges what has been received by now, *)
(* a SYN what it did before.                                               *)
LEMMA AgainOwn ==
  ASSUME NEW m \in Marks, NEW c \in TypedStream, Careful(c, m),
         NEW x \in OwnPackets(c, m), NEW p \in ShortPacket,
         p.syn = x.syn, p.seqno = x.seqno, p.data = x.data,
         p.ack = (x.ack \/ ~x.syn),
         p.ackno = IF x.syn THEN x.ackno ELSE c.inAckno, Live(c)
  PROVE  p \in OwnPackets(c, m)
<1>1. /\ x \in ShortPacket /\ (x.syn \/ x.ack)
      /\ Placed(x, m.o, Before(c.outSeqno, m.o))
      /\ Acks(x, m.po, Gained(c, m.po)) /\ (x.syn => x.ack \in m.kinds)
  BY DEF OwnPackets
<1>2. /\ x.syn \in BOOLEAN /\ x.ack \in BOOLEAN /\ Before(x.ackno, m.po) \in Nat
  BY <1>1, ShortPacketParts, PacketFacts DEF Marks
<1>3. Placed(p, m.o, Before(c.outSeqno, m.o))
  BY <1>1 DEF Placed
<1>4. CASE x.syn
  BY <1>1, <1>2, <1>3, <1>4 DEF OwnPackets, Acks
<1>5. CASE ~x.syn
  <2>1. x.ack /\ 1 <= Gained(c, m.po)
    <3>1. Gained(c, m.po) \in Nat
      BY NumberFacts
    <3> QED BY <1>1, <1>2, <1>5, <3>1 DEF Acks
  <2>2. c.state # TCP_SYN_SENT /\ Gained(c, m.po) = Before(c.inAckno, m.po)
    BY <2>1 DEF Gained
  <2>3. Acks(p, m.po, Gained(c, m.po))
    <3>1. Before(c.inAckno, m.po) \in Nat
      BY NumberFacts
    <3> QED BY <1>5, <2>1, <2>2, <3>1 DEF Acks
  <2> QED BY <1>2, <1>3, <1>5, <2>1, <2>3 DEF OwnPackets
<1> QED BY <1>2, <1>4, <1>5

(* p is x sent again by c.                                                 *)
SentAgain(p, x, c) ==
    /\ p \in ShortPacket
    /\ p.syn = x.syn /\ p.seqno = x.seqno /\ p.data = x.data
    /\ p.ack = (x.ack \/ ~x.syn)
    /\ p.ackno = IF x.syn THEN x.ackno ELSE c.inAckno
    /\ p.win = c.inWin

(* The windows, and what waits to be read.                                 *)
SameWindows(c, d) ==
    d.outWin = c.outWin /\ d.inWin = c.inWin /\ d.outQueue = c.outQueue

(* d is what retrans() makes of c: it closes the stream, or sends the      *)
(* packet at the head of outPkt again, or has nothing to do.               *)
Retransmits(c, d) ==
    /\ d \in TypedStream /\ Alike(c, d)
    /\ \/ /\ d.state = c.state /\ d.tx = c.tx /\ SameWindows(c, d)
          /\ d.inPkt = c.inPkt /\ d.outPkt = c.outPkt
       \/ /\ d.state = TCP_CLOSED /\ d.tx = c.tx
          /\ d.inPkt = <<>> /\ d.outPkt = <<>>
       \/ /\ c.outPkt # <<>> /\ d.state = c.state /\ d.inPkt = c.inPkt
          /\ SameWindows(c, d)
          /\ \E p \in ShortPacket, n \in Nat :
               /\ SentAgain(p, c.outPkt[1].pkt, c)
               /\ d.tx = c.tx \cup {p}
               /\ d.outPkt = [c.outPkt EXCEPT ![1] = [pkt |-> p, retrans |-> n]]

LEMMA RetransIs ==
  ASSUME NEW c \in TypedStream
  PROVE  Retransmits(c, Retrans(c))
<1>fields. c = Fields(c)
  BY TypedParts
<1>d. PICK d : d = Retrans(c)
  OBVIOUS
<1>typed. d \in TypedStream
  BY <1>d, RetransType
<1>1. CASE ~c.known \/ ~c.timerOn
  <2>1. d = c
    BY <1>1, <1>d DEF Retrans
  <2> QED BY <1>d, <1>typed, <2>1 DEF Retransmits, Alike, SameWindows
<1>2. CASE c.known /\ c.timerOn /\ c.outPkt = <<>>
  <2>1. d = [c EXCEPT !.timerOn = FALSE]
    BY <1>2, <1>d DEF Retrans
  <2>2. /\ Alike(c, d) /\ d.tx = c.tx /\ d.state = c.state /\ SameWindows(c, d)
        /\ d.inPkt = c.inPkt /\ d.outPkt = c.outPkt
    BY <1>fields, <2>1 DEF Fields, Alike, SameWindows
  <2> QED BY <1>d, <1>typed, <2>2 DEF Retransmits
<1>3. CASE c.known /\ c.timerOn /\ c.outPkt # <<>>
  <2> DEFINE out == Head(c.outPkt)
             p == [out.pkt EXCEPT
                     !.ack = @ \/ ~out.pkt.syn,
                     !.ackno = IF out.pkt.syn THEN @ ELSE c.inAckno,
                     !.win = c.inWin]
             half == c.congestWin \div 2
             update == SeqAdd(c.outAcked, MaxSeg)
             last == IF out.pkt.syn THEN c.lastAck ELSE p.ackno
             win == p.win
             x == [c EXCEPT
                     !.congestThreshold = half, !.congestWin = MaxSeg,
                     !.congestUpdate = update,
                     !.lastAck = last, !.lastWin = win]
             tx == c.tx \cup {p}
             n == out.retrans + 1
             again == [pkt |-> p, retrans |-> n]
             q == [c.outPkt EXCEPT ![1] = again]
  <2>1. c.outPkt \in Seq(ShortOut) /\ c.inAckno \in SeqNum /\ c.inWin \in Nat
    BY DEF TypedStream
  <2>2. out \in ShortOut /\ out = c.outPkt[1]
    BY <1>3, <2>1
  <2>3. out.pkt \in ShortPacket /\ n \in Nat
    BY <2>2 DEF ShortOut
  <2>4. p \in ShortPacket /\ SentAgain(p, out.pkt, c)
    <3> HIDE DEF out
    <3>1. p \in ShortPacket
      BY <2>1, <2>3 DEF ShortPacket, Packet
    <3>2. /\ p.data = out.pkt.data /\ p.seqno = out.pkt.seqno /\ p.syn = out.pkt.syn
          /\ p.ack = (out.pkt.ack \/ ~out.pkt.syn)
          /\ p.ackno = IF out.pkt.syn THEN out.pkt.ackno ELSE c.inAckno
          /\ p.win = c.inWin
      BY <2>3 DEF ShortPacket, Packet
    <3> HIDE DEF p
    <3> QED BY <3>1, <3>2 DEF SentAgain
  <2>5. PICK y : y = x
    OBVIOUS
  <2>6. /\ y = Fields(y) /\ Alike(c, y) /\ y.tx = c.tx /\ y.state = c.state
        /\ y.inPkt = c.inPkt /\ y.outPkt = c.outPkt /\ SameWindows(c, y)
    <3> HIDE DEF half, update, last, win
    <3> QED BY <1>fields, <2>5 DEF Fields, Alike, SameWindows
  <2>7. d = IF GivesUp(out) THEN Cleanup(y) ELSE [y EXCEPT !.tx = tx, !.outPkt = q]
    <3>1. x.tx = c.tx /\ x.outPkt = c.outPkt
      <4> HIDE DEF x
      <4> QED BY <2>5, <2>6
    <3>2. Retrans(c) = IF GivesUp(out) THEN Cleanup(x)
                       ELSE [x EXCEPT !.tx = tx, !.outPkt = q]
      BY <1>3, <3>1 DEF Retrans
    <3> HIDE DEF x, tx, q
    <3> QED BY <1>d, <2>5, <3>2
  <2> HIDE DEF x, tx, q, p, n, out
  <2>8. CASE GivesUp(out)
    <3>1. d = Cleanup(y)
      BY <2>7, <2>8
    <3>2. /\ Alike(c, d) /\ d.tx = c.tx /\ d.state = TCP_CLOSED
          /\ d.inPkt = <<>> /\ d.outPkt = <<>>
      BY <2>6, <3>1 DEF Cleanup, Fields, Alike
    <3> QED BY <1>d, <1>typed, <3>2 DEF Retransmits
  <2>9. CASE ~GivesUp(out)
    <3>1. d = [y EXCEPT !.tx = tx, !.outPkt = q]
      BY <2>7, <2>9
    <3>2. /\ d.state = c.state /\ Alike(c, d) /\ d.inPkt = c.inPkt
          /\ d.tx = tx /\ d.outPkt = q /\ SameWindows(c, d)
      BY <2>6, <3>1 DEF Fields, Alike, SameWindows
    <3>3. \E r \in ShortPacket, k \in Nat :
            /\ SentAgain(r, c.outPkt[1].pkt, c)
            /\ d.tx = c.tx \cup {r}
            /\ d.outPkt = [c.outPkt EXCEPT ![1] = [pkt |-> r, retrans |-> k]]
      BY <2>2, <2>3, <2>4, <3>2 DEF tx, q
    <3> QED BY <1>3, <1>d, <1>typed, <3>2, <3>3 DEF Retransmits
  <2> QED BY <2>8, <2>9
<1> QED BY <1>1, <1>2, <1>3, <1>typed DEF TypedStream

LEMMA RetransSince ==
  ASSUME NEW m \in Marks, NEW c, NEW c0, Since(c, c0, m)
  PROVE  Since(Retrans(c), c0, m)
<1>1. PICK d : d = Retrans(c)
  OBVIOUS
<1>2. c \in TypedStream /\ Retransmits(c, d)
  BY <1>1, RetransIs DEF Since
<1>3. /\ Careful(c, m) /\ c.tx \subseteq OwnPackets(c, m)
      /\ c.outPkt \in Seq(OwnOut(c, m)) /\ c.inPkt \in Seq(PeerPackets(m))
      /\ ~Live(c) => c.outPkt = <<>>
  BY DEF Since, Careful
<1>4. CASE /\ d.state = c.state /\ d.tx = c.tx
           /\ d.inPkt = c.inPkt /\ d.outPkt = c.outPkt
  <2>1. Since(d, c0, m)
    BY <1>2, <1>4, SameSince DEF Retransmits
  <2> QED BY <1>1, <2>1
<1>5. CASE /\ d.state = TCP_CLOSED /\ d.tx = c.tx
           /\ d.inPkt = <<>> /\ d.outPkt = <<>>
  <2>1. d.outPkt \in Seq(OwnOut(c, m)) /\ d.inPkt \in Seq(PeerPackets(m))
    BY <1>5
  <2>2. Since(d, c0, m)
    BY <1>2, <1>3, <1>5, <2>1, AlikeSince DEF Retransmits
  <2> QED BY <1>1, <2>2
<1>6. ASSUME c.outPkt # <<>>, d.state = c.state, d.inPkt = c.inPkt,
             NEW p \in ShortPacket, NEW n \in Nat,
             SentAgain(p, c.outPkt[1].pkt, c), d.tx = c.tx \cup {p},
             d.outPkt = [c.outPkt EXCEPT ![1] = [pkt |-> p, retrans |-> n]]
      PROVE  Since(d, c0, m)
  <2>1. 1 \in 1 .. Len(c.outPkt) /\ c.outPkt[1] \in OwnOut(c, m) /\ Live(c)
    BY <1>3, <1>6
  <2>2. PICK x \in OwnPackets(c, m) : x = c.outPkt[1].pkt
    BY <2>1 DEF OwnOut
  <2>3. p \in OwnPackets(c, m)
    BY <1>2, <1>3, <1>6, <2>1, <2>2, AgainOwn DEF SentAgain
  <2>4. [pkt |-> p, retrans |-> n] \in OwnOut(c, m)
    BY <2>3 DEF OwnOut
  <2>5. d.outPkt \in Seq(OwnOut(c, m))
    BY <1>3, <1>6, <2>1, <2>4, ExceptSeq
  <2>6. d.tx \subseteq OwnPackets(c, m) /\ Live(d)
    BY <1>3, <1>6, <2>1, <2>3 DEF Live, Opening, Opened
  <2> QED BY <1>2, <1>3, <1>6, <2>5, <2>6, AlikeSince DEF Retransmits
<1>7. Since(d, c0, m)
  BY <1>1, <1>2, <1>4, <1>5, <1>6 DEF Retransmits
<1> QED BY <1>1, <1>7

(* There are sequence numbers for all that is written.                     *)
Fits(k, m) == k.b = SeqAdd(m.o, 1) /\ k.w + 1 < SeqMod

LEMMA RoomLeft ==
  ASSUME NEW m \in Marks, NEW k \in Context, Fits(k, m), NEW c, NEW c0,
         Fine(c, c0, k), Opened(c)
  PROVE  /\ c.known /\ Len(c.inQueue) \in Nat
         /\ Before(c.outSeqno, m.o) + Len(c.inQueue) < SeqMod
<1> DEFINE L == Len(c.inQueue)
<1>1. c \in TypedStream /\ k.b \in SeqNum /\ k.w \in 0 .. SeqMod - 1
  BY DEF Fine, Context
<1>2. c.known /\ L <= k.w /\ Before(c.outSeqno, k.b) = k.w - L
  BY DEF Fine, SendsHonest
<1>3. L \in Nat
  BY <1>1 DEF TypedStream
<1>4. c.outSeqno \in SeqNum /\ m.o \in SeqNum
  BY <1>1, NumberFacts
<1> HIDE DEF L
<1>5. PICK s \in SeqNum : s = c.outSeqno
  BY <1>4
<1>6. PICK o \in SeqNum : o = m.o
  BY <1>4
<1>7. PICK w \in Nat : w = k.w
  BY <1>1
<1>8. Before(s, SeqAdd(o, 1)) = w - L /\ w + 1 < SeqMod /\ L <= w
  BY <1>2, <1>5, <1>6, <1>7 DEF Fits
<1>9. Before(s, o) + L < SeqMod
  BY <1>3, <1>8, Sizes DEF Before, SeqSub, SeqAdd, SeqNum
<1> QED BY <1>2, <1>3, <1>5, <1>6, <1>9 DEF L

LEMMA SegmentOwn ==
  ASSUME NEW m \in Marks, NEW c \in TypedStream, Opened(c), Careful(c, m),
         NEW n \in Nat, n * MaxSeg <= Len(c.inQueue), n * MaxSeg <= MaxWin,
         Before(c.outSeqno, m.o) + Len(c.inQueue) < SeqMod,
         NEW d \in TypedStream, Opened(d), d.inAckno = c.inAckno,
         Before(d.outSeqno, m.o) = Before(c.outSeqno, m.o) + n * MaxSeg,
         NEW i \in 1 .. n
  PROVE  Segment(c, i) \in OwnPackets(d, m)
<1> DEFINE from == (i - 1) * MaxSeg
           total == n * MaxSeg
           p == Segment(c, i)
           sent == Before(c.outSeqno, m.o)
           L == Len(c.inQueue)
<1>1. from \in Nat /\ total \in Nat /\ from + MaxSeg <= total
  <2>1. n * MaxSeg \in Nat
    BY Sizes
  <2>2. /\ (i - 1) * MaxSeg \in Nat /\ i * MaxSeg = (i - 1) * MaxSeg + MaxSeg
        /\ i * MaxSeg <= n * MaxSeg
    BY SegmentBounds
  <2> QED BY <2>1, <2>2
<1>2. L \in Nat /\ total <= L /\ c.outSeqno \in SeqNum /\ m.o \in SeqNum
      /\ sent \in Nat /\ sent + L < SeqMod /\ Before(d.outSeqno, m.o) = sent + total
  <2>1. L \in Nat
    BY DEF TypedStream
  <2>2. c.outSeqno \in SeqNum /\ m.o \in SeqNum /\ sent \in Nat
    BY NumberFacts
  <2> QED BY <2>1, <2>2
<1>3. p \in ShortPacket /\ Len(p.data) = MaxSeg
  BY SegmentType
<1>4. p.seqno = SeqAdd(c.outSeqno, from) /\ p.ack /\ ~p.syn /\ p.ackno = c.inAckno
  BY DEF Segment
<1>5. 1 <= sent /\ 1 <= Before(c.inAckno, m.po)
  BY LiveStates DEF Careful
<1>6. MaxSeg \in Nat /\ MaxSeg > 0 /\ SeqMod \in Nat
  BY Sizes
<1> HIDE DEF from, total, p, sent, L
<1>7. sent + from < SeqMod
  BY <1>1, <1>2, <1>6
<1>8. Before(p.seqno, m.o) = sent + from
  BY <1>1, <1>2, <1>4, <1>7, BeforeSum DEF sent
<1>9. 1 <= Before(p.seqno, m.o)
      /\ Before(p.seqno, m.o) + Len(p.data) <= Before(d.outSeqno, m.o)
  BY <1>1, <1>2, <1>3, <1>5, <1>6, <1>8
<1>10. p \in OwnPackets(d, m)
  BY <1>3, <1>4, <1>5, <1>9, LiveStates, FreshOwn
<1> QED BY <1>10 DEF p

LEMMA SendSegmentsSince ==
  ASSUME NEW m \in Marks, NEW c, NEW c0, Since(c, c0, m), Opened(c), c.known,
         NEW n \in Nat, n * MaxSeg <= Len(c.inQueue), n * MaxSeg <= MaxWin,
         Before(c.outSeqno, m.o) + Len(c.inQueue) < SeqMod
  PROVE  Since(SendSegments(c, n), c0, m)
<1> DEFINE total == n * MaxSeg
           rest == SubSeq(c.inQueue, total + 1, Len(c.inQueue))
           seqno == SeqAdd(c.outSeqno, total)
           tx == c.tx \cup {Segment(c, i) : i \in 1 .. n}
           new == [i \in 1 .. n |-> [pkt |-> Segment(c, i), retrans |-> 0]]
           q == c.outPkt \o new
           on == TRUE
           ack == c.inAckno
           win == c.inWin
           sent == Before(c.outSeqno, m.o)
           L == Len(c.inQueue)
<1>1. PICK d : d = SendSegments(c, n)
  OBVIOUS
<1>2. c \in TypedStream /\ d \in TypedStream /\ c = Fields(c) /\ Careful(c, m)
  BY <1>1, SendSegmentsType, TypedParts DEF Since
<1>3. /\ c.outSeqno \in SeqNum /\ m.o \in SeqNum /\ sent \in Nat
      /\ Before(c.inAckno, m.po) \in Nat
  BY <1>2, NumberFacts
<1>4. total \in Nat /\ L \in Nat /\ total <= L
  <2>1. total \in Nat
    BY Sizes
  <2>2. L \in Nat
    BY <1>2 DEF TypedStream
  <2> QED BY <2>1, <2>2
<1>5. d = [c EXCEPT !.inQueue = rest, !.outSeqno = seqno,
                    !.lastAck = ack, !.lastWin = win,
                    !.tx = tx, !.timerOn = on, !.outPkt = q]
  BY <1>1 DEF SendSegments
<1> HIDE DEF rest, seqno, tx, q, on, ack, win
<1>6. /\ d.state = c.state /\ d.inAckno = c.inAckno /\ d.inPkt = c.inPkt
      /\ d.initOur = c.initOur /\ d.outAcked = c.outAcked
      /\ d.outSeqno = seqno /\ d.tx = tx /\ d.outPkt = q
  BY <1>2, <1>5 DEF Fields
<1>7. Opened(d)
  BY <1>6 DEF Opened
<1>8. Before(d.outSeqno, m.o) = sent + total
  <2>1. sent + total < SeqMod
    <3> HIDE DEF total
    <3> QED BY <1>3, <1>4, Sizes
  <2> HIDE DEF total
  <2> QED BY <1>3, <1>4, <1>6, <2>1, BeforeSum DEF seqno
<1>9. \A i \in 1 .. n : Segment(c, i) \in OwnPackets(d, m)
  BY <1>2, <1>6, <1>7, <1>8, SegmentOwn
<1>10. new \in Seq(OwnOut(d, m))
  <2>1. \A i \in 1 .. n : [pkt |-> Segment(c, i), retrans |-> 0] \in OwnOut(d, m)
    BY <1>9 DEF OwnOut
  <2> QED BY <2>1
<1> HIDE DEF new, total, L
<1>11. Before(c.outSeqno, m.o) <= Before(d.outSeqno, m.o)
  BY <1>3, <1>4, <1>8
<1>12. /\ OwnPackets(c, m) \subseteq OwnPackets(d, m)
       /\ Seq(OwnOut(c, m)) \subseteq Seq(OwnOut(d, m))
  <2>1. Gained(c, m.po) <= Gained(d, m.po)
    BY <1>2, <1>6, NumberFacts DEF Gained
  <2> QED BY <1>2, <1>11, <2>1, OwnGrows
<1>13. d.outPkt \in Seq(OwnOut(d, m))
  <2>1. c.outPkt \in Seq(OwnOut(d, m))
    BY <1>2, <1>12 DEF Careful
  <2> QED BY <1>6, <1>10, <2>1, ConcatProperties DEF q
<1>14. d.tx \subseteq OwnPackets(d, m)
  BY <1>6, <1>9, <1>12 DEF tx, Since
<1>15. /\ Before(c.inAckno, m.po) <= Before(d.inAckno, m.po)
       /\ Before(d.inAckno, m.po) <= m.top /\ Before(d.outAcked, m.o) <= m.reach
       /\ d.inPkt \in Seq(PeerPackets(m))
  BY <1>2, <1>3, <1>6, LiveStates DEF Careful
<1>16. Since(d, c0, m)
  BY <1>2, <1>6, <1>7, <1>11, <1>13, <1>14, <1>15, OpenSince
<1> QED BY <1>1, <1>16

LEMMA SendRestSince ==
  ASSUME NEW m \in Marks, NEW c, NEW c0, Since(c, c0, m), Opened(c),
         Len(c.inQueue) <= MaxSeg,
         Before(c.outSeqno, m.o) + Len(c.inQueue) < SeqMod
  PROVE  Since(ToSend([c EXCEPT !.inQueue = <<>>], DataPkt(c.inQueue), TRUE), c0, m)
<1> DEFINE none == <<>>
           pkt == DataPkt(c.inQueue)
<1>1. c \in TypedStream /\ c = Fields(c)
  BY TypedParts DEF Since
<1>2. PICK x : x = [c EXCEPT !.inQueue = none]
  OBVIOUS
<1>3. x \in TypedStream
  <2>1. none \in Seq(Byte)
    OBVIOUS
  <2> HIDE DEF none
  <2> QED BY <1>1, <1>2, <2>1, InQueueType
<1>4. /\ x.state = c.state /\ Alike(c, x) /\ x.tx = c.tx
      /\ x.inPkt = c.inPkt /\ x.outPkt = c.outPkt
  <2> HIDE DEF none
  <2> QED BY <1>1, <1>2 DEF Fields, Alike
<1>5. Since(x, c0, m) /\ Opened(x) /\ x.outSeqno = c.outSeqno
  <2>1. Opened(x) /\ x.outSeqno = c.outSeqno
    BY <1>4 DEF Opened, Alike
  <2> QED BY <1>3, <1>4, <2>1, SameSince
<1>6. pkt \in Flags /\ pkt.data = c.inQueue /\ ~pkt.syn /\ pkt.ack /\ TRUE \in BOOLEAN
  <2>1. c.inQueue \in Seq(Byte)
    BY <1>1 DEF TypedStream
  <2> QED BY <2>1 DEF DataPkt, AckPkt, Flags
<1> HIDE DEF pkt
<1>7. Since(ToSend(x, pkt, TRUE), c0, m)
  BY <1>5, <1>6, ToSendSince
<1> QED BY <1>2, <1>7 DEF pkt, none

LEMMA SendNothingSince ==
  ASSUME NEW m \in Marks, NEW c, NEW c0, Since(c, c0, m), Opened(c), NEW idle
  PROVE  Since(SendNothing(c, idle), c0, m)
<1> DEFINE s == IF c.state = TCP_ESTABLISHED THEN TCP_FIN_WAIT_1 ELSE TCP_LAST_ACK
<1>1. PICK x : x = ToSend(c, FinPkt, FALSE)
  OBVIOUS
<1>2. Since(x, c0, m) /\ x.state = c.state
  <2>1. FinPkt \in Flags /\ ~FinPkt.syn /\ FinPkt.ack /\ Len(FinPkt.data) = 0
    <3>1. Len(<<>>) = 0
      OBVIOUS
    <3> QED BY <3>1, FlagsOfAck DEF FinPkt, AckPkt
  <2>2. Before(c.outSeqno, m.o) + 0 < SeqMod /\ 0 <= MaxSeg /\ FALSE \in BOOLEAN
    BY NumberFacts, Sizes DEF Since
  <2> QED BY <1>1, <2>1, <2>2, ToSendSince
<1>3. s \in 0 .. 10 /\ s >= TCP_ESTABLISHED
  BY States
<1>4. Since([x EXCEPT !.state = s], c0, m)
  <2>1. Opened(x)
    BY <1>2 DEF Opened
  <2> HIDE DEF s
  <2> QED BY <1>2, <1>3, <2>1, StateSince
<1>5. Since(SendAck(c), c0, m)
  BY SendAckSince
<1>6. SendNothing(c, idle) \in {[x EXCEPT !.state = s], SendAck(c), c}
  BY <1>1 DEF SendNothing
<1> HIDE DEF s
<1> QED BY <1>4, <1>5, <1>6

LEMMA SendSince ==
  ASSUME NEW m \in Marks, NEW k \in Context, Fits(k, m), NEW c, NEW c0,
         Since(c, c0, m), Fine(c, c0, k), NEW rto, NEW idle
  PROVE  Since(Send(c, rto, idle), c0, m)
<1> DEFINE a == Acknowledge(c)
           d == IF rto THEN Retrans(a) ELSE a
           full == Len(d.inQueue) \div MaxSeg
           room == MaxSend(d) \div MaxSeg
           n == IF full < room THEN full ELSE room
           rest == ToSend([d EXCEPT !.inQueue = <<>>], DataPkt(d.inQueue), TRUE)
<1>1. Since(d, c0, m) /\ Fine(d, c0, k)
  <2>1. Since(a, c0, m) /\ Fine(a, c0, k)
    BY AcknowledgeSince, AcknowledgeFine
  <2> HIDE DEF a
  <2>2. Since(Retrans(a), c0, m) /\ Fine(Retrans(a), c0, k)
    BY <2>1, RetransSince, RetransFine
  <2> QED BY <2>1, <2>2
<1>typed. d \in TypedStream
  <2> HIDE DEF d
  <2> QED BY <1>1 DEF Since
<1> HIDE DEF d
<1>queue. Len(d.inQueue) \in Nat /\ d.state \in 0 .. 10
  BY <1>typed DEF TypedStream
<1>room. Opened(d) => d.known /\ Before(d.outSeqno, m.o) + Len(d.inQueue) < SeqMod
  BY <1>1, RoomLeft
<1>2. /\ n \in Nat
      /\ n * MaxSeg <= Len(d.inQueue) /\ n * MaxSeg <= MaxWin
  <2>1. MaxSend(d) \in Nat /\ MaxSend(d) <= MaxWin
    BY <1>typed, MaxSendBound, Sizes
  <2>2. full \in Nat /\ room \in Nat
    BY <1>queue, <2>1, QuotientType
  <2>3. n \in Nat /\ n <= full /\ n <= room
    <3> HIDE DEF full, room
    <3> QED BY <2>2
  <2>4. n * MaxSeg <= Len(d.inQueue) /\ n * MaxSeg <= MaxSend(d) /\ n * MaxSeg \in Nat
    <3> HIDE DEF n
    <3> QED BY <1>queue, <2>1, <2>3, Quotient
  <2> HIDE DEF n
  <2>5. n * MaxSeg <= MaxWin
    BY <2>1, <2>4, Sizes
  <2> QED BY <2>3, <2>4, <2>5
<1>3. full = 0 /\ Opened(d) => Since(rest, c0, m)
  <2>1. full = 0 => Len(d.inQueue) <= MaxSeg
    <3>1. full = 0 => Len(d.inQueue) < MaxSeg
      BY <1>queue, QuotientType
    <3> QED BY <1>queue, <3>1, Sizes
  <2> QED BY <1>1, <1>room, <2>1, SendRestSince
<1>4. Opened(d) => Since(SendSegments(d, n), c0, m)
  <2> HIDE DEF n
  <2> QED BY <1>1, <1>2, <1>room, SendSegmentsSince
<1>5. Opened(d) => Since(SendNothing(d, idle), c0, m)
  BY <1>1, SendNothingSince
<1>6. Send(c, rto, idle) \in
        (IF ~Opened(d) THEN {d}
         ELSE {SendSegments(d, n), SendNothing(d, idle)}
                \cup (IF full = 0 THEN {rest} ELSE {}))
  <2>1. ~Opened(d) <=> d.state < TCP_ESTABLISHED
    BY <1>queue, States DEF Opened
  <2> QED BY <2>1 DEF Send, d
<1> HIDE DEF n, full, rest
<1> QED BY <1>1, <1>3, <1>4, <1>5, <1>6

LEMMA TickStreamSince ==
  ASSUME NEW m \in Marks, NEW k \in Context, Fits(k, m), NEW c, NEW c0,
         Since(c, c0, m), Fine(c, c0, k), NEW t
  PROVE  Since(TickStream(c, t), c0, m)
<1>1. PICK d : d = RecvCheck(c, t.noPkt)
  OBVIOUS
<1>2. Since(d, c0, m) /\ Fine(d, c0, k)
  BY <1>1, CleanupSince, CleanupFine DEF RecvCheck
<1>3. Since(Send(d, t.rto, t.idle), c0, m)
  BY <1>2, SendSince
<1> QED BY <1>1, <1>3 DEF TickStream

(***************************************************************************)
(* Receiving, on a stream that is open                                     *)
(***************************************************************************)

LEMMA TakesSince ==
  ASSUME NEW m \in Marks, NEW c, NEW c0, Since(c, c0, m), NEW d \in TypedStream,
         Opened(c), d.state = c.state, d.initOur = c.initOur,
         d.outSeqno = c.outSeqno, d.tx = c.tx, d.outPkt = c.outPkt,
         Before(c.inAckno, m.po) <= Before(d.inAckno, m.po),
         Before(d.inAckno, m.po) <= m.top, Before(d.outAcked, m.o) <= m.reach,
         d.inPkt \in Seq(PeerPackets(m))
  PROVE  Since(d, c0, m)
<1>1. Opened(d) /\ c \in TypedStream /\ Before(c.outSeqno, m.o) \in Nat
  BY NumberFacts DEF Opened, Since
<1>2. Before(c.outSeqno, m.o) <= Before(d.outSeqno, m.o)
  BY <1>1
<1>3. Gained(c, m.po) <= Gained(d, m.po)
  BY <1>1, LiveStates DEF Gained
<1>4. /\ OwnPackets(c, m) \subseteq OwnPackets(d, m)
      /\ Seq(OwnOut(c, m)) \subseteq Seq(OwnOut(d, m))
  BY <1>1, <1>2, <1>3, OwnGrows
<1>5. d.tx \subseteq OwnPackets(d, m) /\ d.outPkt \in Seq(OwnOut(d, m))
  BY <1>4 DEF Since, Careful
<1> QED BY <1>1, <1>2, <1>5, OpenSince

LEMMA PeerPacketFacts ==
  ASSUME NEW m \in Marks, NEW p \in PeerPackets(m)
  PROVE  /\ p \in ShortPacket
         /\ p.ack => 1 <= Before(p.ackno, m.o) /\ Before(p.ackno, m.o) <= m.reach
         /\ Before(p.seqno, m.po) \in Nat
         /\ Before(p.seqno, m.po) <= Before(SeqAdd(p.seqno, Len(p.data)), m.po)
         /\ Before(SeqAdd(p.seqno, Len(p.data)), m.po) <= m.top
         /\ p.syn => p.seqno = m.po /\ 1 <= m.top
         /\ ~p.syn => 1 <= Before(p.seqno, m.po) /\ Before(p.seqno, m.po) <= m.top
<1>1. p \in ShortPacket /\ Placed(p, m.po, m.top) /\ Acks(p, m.o, m.reach)
  BY DEF PeerPackets
<1>2. /\ m.po \in SeqNum /\ m.top \in 0 .. SeqMod - 1 /\ p.seqno \in SeqNum
      /\ Len(p.data) \in Nat /\ Before(p.seqno, m.po) \in Nat
  BY <1>1, PacketFacts DEF Marks
<1>3. /\ Before(p.seqno, m.po) + Len(p.data) <= m.top
      /\ Before(p.seqno, m.po) + Len(p.data) < SeqMod
  BY <1>1, <1>2, Sizes DEF Placed
<1>4. Before(SeqAdd(p.seqno, Len(p.data)), m.po) = Before(p.seqno, m.po) + Len(p.data)
  BY <1>2, <1>3, BeforeSum
<1>5. /\ Before(p.seqno, m.po) <= Before(SeqAdd(p.seqno, Len(p.data)), m.po)
      /\ Before(SeqAdd(p.seqno, Len(p.data)), m.po) <= m.top
      /\ Before(p.seqno, m.po) <= m.top
  BY <1>2, <1>3, <1>4
<1> QED BY <1>1, <1>2, <1>5 DEF Placed, Acks

LEMMA UpdateInWinSizeSince ==
  ASSUME NEW m \in Marks, NEW c, NEW c0, Since(c, c0, m)
  PROVE  /\ Since(UpdateInWinSize(c), c0, m)
         /\ UpdateInWinSize(c).state = c.state /\ UpdateInWinSize(c).tx = c.tx
<1> DEFINE queued == Len(c.outQueue)
           win == IF queued < MaxWin THEN MaxWin
                  ELSE IF queued < 2 * MaxWin THEN 2 * MaxWin - queued ELSE 0
<1>1. PICK d : d = UpdateInWinSize(c)
  OBVIOUS
<1>2. c \in TypedStream /\ d \in TypedStream /\ c = Fields(c)
  BY <1>1, UpdateInWinSizeType, TypedParts DEF Since
<1>3. d = [c EXCEPT !.inWin = win]
  BY <1>1 DEF UpdateInWinSize
<1> HIDE DEF win
<1>4. /\ Alike(c, d) /\ d.tx = c.tx /\ d.state = c.state
      /\ d.inPkt = c.inPkt /\ d.outPkt = c.outPkt
  BY <1>2, <1>3 DEF Fields, Alike
<1>5. Since(d, c0, m)
  BY <1>2, <1>4, SameSince
<1> QED BY <1>1, <1>4, <1>5

(* What a method may leave: an open stream, or a closed one without any    *)
(* packets.                                                                *)
Going(c, c0, m) == Since(c, c0, m) /\ (Opened(c) \/ c.inPkt = <<>>)

LEMMA CleanupGoing ==
  ASSUME NEW m \in Marks, NEW c, NEW c0, Since(c, c0, m)
  PROVE  Going(Cleanup(c), c0, m)
  BY CleanupSince, CleanupFields DEF Going, Since

LEMMA TakeFinGoing ==
  ASSUME NEW m \in Marks, NEW c, NEW c0, Since(c, c0, m), Opened(c)
  PROVE  Going(TakeFin(c), c0, m)
<1>1. PICK a : a = SendAck(c)
  OBVIOUS
<1>2. Since(a, c0, m) /\ a \in TypedStream /\ Opened(a)
  BY <1>1, SendAckSince DEF Since, Opened
<1>3. PICK d : d = [a EXCEPT !.inActive = FALSE]
  OBVIOUS
<1>4. a = Fields(a)
  BY <1>2, TypedParts
<1>5. d \in TypedStream
  BY <1>2, <1>3, InActiveType
<1>6. /\ Alike(a, d) /\ d.tx = a.tx /\ d.state = a.state
      /\ d.inPkt = a.inPkt /\ d.outPkt = a.outPkt
  BY <1>3, <1>4 DEF Fields, Alike
<1>7. Since(d, c0, m) /\ Opened(d)
  BY <1>2, <1>5, <1>6, SameSince DEF Opened
<1>8. /\ Going([d EXCEPT !.state = TCP_CLOSE_WAIT], c0, m)
      /\ Going([d EXCEPT !.state = TCP_CLOSING], c0, m)
  <2>1. /\ TCP_CLOSE_WAIT \in 0 .. 10 /\ TCP_CLOSING \in 0 .. 10
        /\ TCP_CLOSE_WAIT >= TCP_ESTABLISHED /\ TCP_CLOSING >= TCP_ESTABLISHED
    BY States
  <2> QED BY <1>7, <2>1, StateSince DEF Going
<1>9. Going(Cleanup(d), c0, m) /\ Going(d, c0, m)
  BY <1>7, CleanupGoing DEF Going
<1>10. TakeFin(c) =
        CASE c.state = TCP_ESTABLISHED -> [d EXCEPT !.state = TCP_CLOSE_WAIT]
          [] c.state = TCP_FIN_WAIT_1  -> [d EXCEPT !.state = TCP_CLOSING]
          [] c.state = TCP_FIN_WAIT_2  -> Cleanup(d)
          [] OTHER -> d
  BY <1>1, <1>3 DEF TakeFin
<1>11. TakeFin(c) \in {d, [d EXCEPT !.state = TCP_CLOSE_WAIT],
                          [d EXCEPT !.state = TCP_CLOSING], Cleanup(d)}
  BY <1>10 DEF TCP_ESTABLISHED, TCP_FIN_WAIT_1, TCP_FIN_WAIT_2
<1> QED BY <1>8, <1>9, <1>11

LEMMA TakeAckOfFinGoing ==
  ASSUME NEW m \in Marks, NEW c, NEW c0, Going(c, c0, m)
  PROVE  Going(TakeAckOfFin(c), c0, m)
<1>1. c.state = TCP_FIN_WAIT_1 => Going([c EXCEPT !.state = TCP_FIN_WAIT_2], c0, m)
  <2>1. TCP_FIN_WAIT_2 \in 0 .. 10 /\ TCP_FIN_WAIT_2 >= TCP_ESTABLISHED
    BY States
  <2>2. c.state = TCP_FIN_WAIT_1 => Opened(c)
    BY States DEF Opened
  <2> QED BY <2>1, <2>2, StateSince DEF Going
<1>2. Going(Cleanup(c), c0, m)
  BY CleanupGoing DEF Going
<1>3. TakeAckOfFin(c) \in
        (IF c.state = TCP_FIN_WAIT_1 THEN {[c EXCEPT !.state = TCP_FIN_WAIT_2]}
         ELSE {Cleanup(c), c})
  BY DEF TakeAckOfFin, TCP_FIN_WAIT_1, TCP_LAST_ACK, TCP_CLOSING
<1> QED BY <1>1, <1>2, <1>3

LEMMA TakenSince ==
  ASSUME NEW m \in Marks, NEW c, NEW c0, Since(c, c0, m), Opened(c),
         NEW p \in PeerPackets(m), p.seqno = c.inAckno
  PROVE  Since(Taken(c, p), c0, m) /\ Taken(c, p).state = c.state
<1> DEFINE fresh == p.ack /\ IsOldSequence(c.outAcked, p.ackno)
           ackno == SeqAdd(p.seqno, Len(p.data))
           acked == IF fresh THEN p.ackno ELSE c.outAcked
           win == IF fresh THEN p.win ELSE c.outWin
           q == c.outQueue \o p.data
<1>1. PICK d : d = Taken(c, p)
  OBVIOUS
<1>2. c \in TypedStream /\ d \in TypedStream /\ c = Fields(c)
  BY <1>1, PeerPacketFacts, TakenType, TypedParts DEF Since
<1>3. d = [c EXCEPT !.inAckno = ackno, !.outAcked = acked, !.outWin = win,
                    !.outQueue = q]
  BY <1>1 DEF Taken
<1>4. Before(acked, m.o) <= m.reach
  <2>1. Before(c.outAcked, m.o) <= m.reach
    BY LiveStates DEF Since, Careful
  <2>2. fresh => Before(p.ackno, m.o) <= m.reach
    BY PeerPacketFacts
  <2> HIDE DEF fresh
  <2> QED BY <2>1, <2>2
<1>5. Before(c.inAckno, m.po) <= Before(ackno, m.po) /\ Before(ackno, m.po) <= m.top
  BY PeerPacketFacts
<1> HIDE DEF ackno, acked, win, q
<1>6. /\ d.state = c.state /\ d.initOur = c.initOur
      /\ d.outSeqno = c.outSeqno /\ d.tx = c.tx /\ d.outPkt = c.outPkt
      /\ d.inPkt = c.inPkt /\ d.inAckno = ackno /\ d.outAcked = acked
  BY <1>2, <1>3 DEF Fields
<1>7. d.inPkt \in Seq(PeerPackets(m))
  BY <1>6 DEF Since, Careful
<1>8. Since(d, c0, m)
  BY <1>2, <1>4, <1>5, <1>6, <1>7, TakesSince
<1> QED BY <1>1, <1>6, <1>8

LEMMA ConsumePktGoing ==
  ASSUME NEW m \in Marks, NEW c, NEW c0, Since(c, c0, m), Opened(c),
         NEW p \in PeerPackets(m), p.seqno = c.inAckno
  PROVE  Going(ConsumePkt(c, p), c0, m)
<1> DEFINE a == Taken(c, p)
           d == UpdateInWinSize(a)
           f == IF p.fin THEN TakeFin(d) ELSE d
<1>1. Since(a, c0, m) /\ a.state = c.state
  BY TakenSince
<1> HIDE DEF a
<1>2. Since(d, c0, m) /\ d.state = c.state
  BY <1>1, UpdateInWinSizeSince
<1> HIDE DEF d
<1>3. Opened(d)
  BY <1>2 DEF Opened
<1>4. Going(f, c0, m)
  BY <1>2, <1>3, TakeFinGoing DEF Going
<1>5. ConsumePkt(c, p) \in {f, TakeAckOfFin(f)}
  BY DEF ConsumePkt, Taken, a, d
<1> HIDE DEF f
<1> QED BY <1>4, <1>5, TakeAckOfFinGoing

LEMMA InPktSince ==
  ASSUME NEW m \in Marks, NEW c, NEW c0, Since(c, c0, m),
         NEW q, q \in Seq(PeerPackets(m))
  PROVE  /\ Since([c EXCEPT !.inPkt = q], c0, m)
         /\ [c EXCEPT !.inPkt = q].state = c.state
         /\ [c EXCEPT !.inPkt = q].inAckno = c.inAckno
         /\ [c EXCEPT !.inPkt = q].inPkt = q
<1>1. PICK d : d = [c EXCEPT !.inPkt = q]
  OBVIOUS
<1>2. q \in Seq(ShortPacket)
  <2>1. PeerPackets(m) \subseteq ShortPacket
    BY DEF PeerPackets
  <2> QED BY <2>1, SeqMonotonic
<1>3. c \in TypedStream /\ d \in TypedStream /\ c = Fields(c)
  BY <1>1, <1>2, InPktType, TypedParts DEF Since
<1>4. /\ Alike(c, d) /\ d.tx = c.tx /\ d.state = c.state
      /\ d.inPkt = q /\ d.outPkt = c.outPkt /\ d.inAckno = c.inAckno
  BY <1>1, <1>3 DEF Fields, Alike
<1>5. /\ d.tx \subseteq OwnPackets(c, m) /\ d.outPkt \in Seq(OwnOut(c, m))
      /\ Live(d) \/ d.outPkt = <<>>
  BY <1>4 DEF Since, Careful, Live, Opening, Opened
<1>6. Since(d, c0, m)
  BY <1>3, <1>4, <1>5, AlikeSince
<1> QED BY <1>1, <1>4, <1>6

LEMMA ConsumeNextGoing ==
  ASSUME NEW m \in Marks, NEW c, NEW c0, Going(c, c0, m)
  PROVE  Going(ConsumeNext(c), c0, m)
<1>1. Since(c, c0, m) /\ c \in TypedStream /\ c.inPkt \in Seq(PeerPackets(m))
  BY DEF Going, Since, Careful
<1>2. CASE ConsumeNext(c) = c
  BY <1>2
<1>3. ASSUME NEW i \in 1 .. Len(c.inPkt), Matches(c, i),
             ConsumeNext(c) =
               ConsumePkt([c EXCEPT !.inPkt = SubSeq(c.inPkt, 1, i - 1)
                                      \o SubSeq(c.inPkt, i + 1, Len(c.inPkt))],
                          c.inPkt[i])
      PROVE  Going(ConsumeNext(c), c0, m)
  <2> DEFINE q == SubSeq(c.inPkt, 1, i - 1) \o SubSeq(c.inPkt, i + 1, Len(c.inPkt))
             p == c.inPkt[i]
  <2>1. q \in Seq(PeerPackets(m)) /\ p \in PeerPackets(m)
    BY <1>1, TakenOut
  <2>2. Opened(c)
    <3>1. c.inPkt # <<>>
      BY <1>1
    <3> QED BY <3>1 DEF Going
  <2>3. p.seqno = c.inAckno
    BY <1>3 DEF Matches
  <2> HIDE DEF q
  <2>4. PICK x : x = [c EXCEPT !.inPkt = q]
    OBVIOUS
  <2>5. Since(x, c0, m) /\ x.state = c.state /\ x.inAckno = c.inAckno
    BY <1>1, <2>1, <2>4, InPktSince
  <2>6. Opened(x)
    BY <2>2, <2>5 DEF Opened
  <2>7. ConsumeNext(c) = ConsumePkt(x, p)
    BY <1>3, <2>4 DEF q
  <2> HIDE DEF p
  <2>8. Going(ConsumePkt(x, p), c0, m)
    BY <2>1, <2>3, <2>5, <2>6, ConsumePktGoing
  <2> QED BY <2>7, <2>8
<1> QED BY <1>1, <1>2, <1>3, ConsumeNextIs

LEMMA CheckInPktsSince ==
  ASSUME NEW m \in Marks, NEW c, NEW c0, Going(c, c0, m)
  PROVE  Since(CheckInPkts(c), c0, m)
<1> DEFINE S == {x \in TypedStream : Going(x, c0, m)}
           d == ConsumeAll(c)
           q == NewPkts(d)
<1>1. d \in S
  <2>1. c \in S /\ Len(c.inPkt) \in Nat
    BY DEF Going, Since, TypedStream
  <2>2. \A x \in S : ConsumeNext(x) \in S
    BY ConsumeNextGoing, ConsumeNextType
  <2> HIDE DEF S
  <2> QED BY <2>1, <2>2, ConsumeAllStays
<1>2. Since(d, c0, m)
  BY <1>1 DEF Going
<1> HIDE DEF d, S
<1>3. q \in Seq(PeerPackets(m))
  BY <1>2, NewPktsFrom DEF Since, Careful
<1>4. CheckInPkts(c) = [d EXCEPT !.inPkt = q]
  BY DEF CheckInPkts, d
<1> HIDE DEF q
<1> QED BY <1>2, <1>3, <1>4, InPktSince

LEMMA EnqueueGoing ==
  ASSUME NEW m \in Marks, NEW c, NEW c0, Since(c, c0, m), Opened(c),
         NEW p \in PeerPackets(m)
  PROVE  Going(Enqueue(c, p), c0, m)
<1> DEFINE q == IF Len(Append(c.inPkt, p)) > MaxQueue
                  THEN Tail(Append(c.inPkt, p)) ELSE Append(c.inPkt, p)
<1>1. q \in Seq(PeerPackets(m))
  BY Enqueued DEF Since, Careful
<1>2. PICK d : d = Enqueue(c, p)
  OBVIOUS
<1>3. d = [c EXCEPT !.inPkt = q]
  BY <1>2 DEF Enqueue
<1> HIDE DEF q
<1>4. Since(d, c0, m) /\ d.state = c.state
  BY <1>1, <1>3, InPktSince
<1> QED BY <1>2, <1>4 DEF Going, Opened

LEMMA AckedSince ==
  ASSUME NEW m \in Marks, NEW c, NEW c0, Since(c, c0, m), Opened(c),
         NEW a \in SeqNum, Before(a, m.o) <= m.reach, NEW w \in Nat
  PROVE  /\ Since([c EXCEPT !.outAcked = a, !.outWin = w], c0, m)
         /\ Opened([c EXCEPT !.outAcked = a, !.outWin = w])
<1>1. PICK d : d = [c EXCEPT !.outAcked = a, !.outWin = w]
  OBVIOUS
<1>2. c \in TypedStream /\ d \in TypedStream /\ c = Fields(c)
  BY <1>1, AckedType, TypedParts DEF Since
<1>3. /\ d.state = c.state /\ d.initOur = c.initOur
      /\ d.outSeqno = c.outSeqno /\ d.tx = c.tx /\ d.outPkt = c.outPkt
      /\ d.inPkt = c.inPkt /\ d.inAckno = c.inAckno /\ d.outAcked = a
  BY <1>1, <1>2 DEF Fields
<1>4. /\ d.inPkt \in Seq(PeerPackets(m)) /\ Before(d.inAckno, m.po) <= m.top
      /\ Before(d.outAcked, m.o) <= m.reach
  BY <1>3, LiveStates DEF Since, Careful
<1>5. Before(c.inAckno, m.po) <= Before(d.inAckno, m.po)
  BY <1>2, <1>3, NumberFacts
<1>6. Since(d, c0, m)
  BY <1>2, <1>3, <1>4, <1>5, TakesSince
<1> QED BY <1>1, <1>3, <1>6 DEF Opened

LEMMA IncomingEstablishedSince ==
  ASSUME NEW m \in Marks, NEW c, NEW c0, Since(c, c0, m), Opened(c),
         NEW p \in PeerPackets(m)
  PROVE  Since(IncomingEstablished(c, p), c0, m)
<1> DEFINE a == IF p.ack THEN p.ackno ELSE c.outAcked
           w == p.win
           x == [c EXCEPT !.outAcked = a, !.outWin = w]
           d == IF InWindow(c, p) THEN x ELSE SendAck(c)
<1>1. a \in SeqNum /\ w \in Nat /\ Before(a, m.o) <= m.reach
  <2>1. p \in ShortPacket /\ c \in TypedStream
    BY PeerPacketFacts DEF Since
  <2>2. a \in SeqNum /\ w \in Nat
    BY <2>1, ShortPacketParts DEF TypedStream
  <2>3. Before(c.outAcked, m.o) <= m.reach
    BY LiveStates DEF Since, Careful
  <2> QED BY <2>2, <2>3, PeerPacketFacts
<1>2. Since(x, c0, m) /\ Opened(x)
  <2> HIDE DEF a, w
  <2> QED BY <1>1, AckedSince
<1>3. Since(SendAck(c), c0, m) /\ Opened(SendAck(c))
  BY SendAckSince DEF Opened
<1>4. IncomingEstablished(c, p) = CheckInPkts(Enqueue(d, p))
  BY DEF IncomingEstablished
<1> HIDE DEF x
<1>5. Since(d, c0, m) /\ Opened(d)
  BY <1>2, <1>3
<1> HIDE DEF d
<1>6. Going(Enqueue(d, p), c0, m)
  BY <1>5, EnqueueGoing
<1> QED BY <1>4, <1>6, CheckInPktsSince

(***************************************************************************)
(* The handshake                                                           *)
(***************************************************************************)

(* A stream that opens hears of the other end, or is open.                 *)
LEMMA TurnSince ==
  ASSUME NEW m \in Marks, NEW c, NEW c0, Since(c, c0, m), NEW d \in TypedStream,
         Opening(c), Heard(d), d.initOur = c.initOur, d.outSeqno = c.outSeqno,
         Gained(c, m.po) <= Before(d.inAckno, m.po),
         1 <= Before(d.inAckno, m.po), Before(d.inAckno, m.po) <= m.top,
         1 <= Before(d.outSeqno, m.o), Before(d.outAcked, m.o) <= m.reach,
         d.state = TCP_SYN_RCVD => Before(d.inAckno, m.po) = 1 /\ TRUE \notin m.pkinds,
         d.tx \subseteq OwnPackets(d, m), d.outPkt \in Seq(OwnOut(d, m)),
         d.inPkt \in Seq(PeerPackets(m))
  PROVE  Since(d, c0, m)
<1>1. c \in TypedStream /\ c0 \in TypedStream /\ Careful(c, m)
  BY DEF Since
<1>2. Live(c) /\ Live(d) /\ c.initOur = m.o /\ Live(c0)
  BY <1>1, LiveStates DEF Live, Careful, Since
<1>3. Careful(d, m)
  BY <1>2 DEF Careful
<1>4. Live(c0) => Before(c0.outSeqno, m.o) <= Before(d.outSeqno, m.o)
  BY DEF Since
<1>5. Heard(c0) => Before(c0.inAckno, m.po) <= Before(d.inAckno, m.po)
  <2> SUFFICES ASSUME Heard(c0) PROVE Before(c0.inAckno, m.po) <= Before(d.inAckno, m.po)
    OBVIOUS
  <2>1. Heard(c) /\ Before(c0.inAckno, m.po) <= Before(c.inAckno, m.po)
    BY <1>2 DEF Since
  <2>2. Gained(c, m.po) = Before(c.inAckno, m.po)
    BY <2>1, LiveStates DEF Gained
  <2>3. /\ Before(c0.inAckno, m.po) \in Nat /\ Before(c.inAckno, m.po) \in Nat
        /\ Before(d.inAckno, m.po) \in Nat
    BY <1>1, NumberFacts
  <2> QED BY <2>1, <2>2, <2>3
<1> QED BY <1>1, <1>2, <1>3, <1>4, <1>5 DEF Since

(* a is x after it has sent a bare acknowledgement, or a FIN.              *)
AckMade(a, x) ==
    /\ a \in TypedStream /\ a.state = x.state /\ a.initOur = x.initOur
    /\ a.outSeqno = x.outSeqno /\ a.outAcked = x.outAcked
    /\ a.inAckno = x.inAckno /\ a.inPkt = x.inPkt
    /\ \E p \in ShortPacket :
         /\ ~p.syn /\ p.ack /\ p.seqno = x.outSeqno /\ p.ackno = x.inAckno
         /\ Len(p.data) = 0 /\ a.tx \subseteq x.tx \cup {p}
         /\ a.outPkt \in {x.outPkt, Append(x.outPkt, [pkt |-> p, retrans |-> 0])}

LEMMA BareIsMade ==
  ASSUME NEW x \in TypedStream, NEW retrans \in BOOLEAN,
         NEW pkt \in {AckPkt, FinPkt}
  PROVE  AckMade(ToSend(x, pkt, retrans), x)
<1>1. PICK a : a = ToSend(x, pkt, retrans)
  OBVIOUS
<1>2. /\ pkt \in Flags /\ ~pkt.syn /\ pkt.ack /\ pkt.data = <<>>
      /\ Len(pkt.data) = 0 /\ Len(pkt.data) <= MaxSeg
  <2>1. Len(<<>>) = 0 /\ 0 <= MaxSeg
    BY Sizes
  <2>2. /\ ~AckPkt.syn /\ AckPkt.ack /\ ~FinPkt.syn /\ FinPkt.ack
    BY DEF AckPkt, FinPkt
  <2>3. pkt = AckPkt \/ pkt = FinPkt
    OBVIOUS
  <2>4. pkt \in Flags /\ ~pkt.syn /\ pkt.ack /\ pkt.data = <<>>
    BY <2>2, <2>3, FlagsOfAck
  <2> QED BY ONLY <2>1, <2>4
<1>3. a \in TypedStream /\ SentAs(a, x, pkt, retrans)
      /\ a.initOur = x.initOur /\ a.outAcked = x.outAcked
  BY <1>1, <1>2, ToSendType, ToSendFields, ToSendKeeps
<1>4. PICK p : p = Made(x, pkt)
  OBVIOUS
<1>5. /\ p \in ShortPacket /\ ~p.syn /\ p.ack /\ p.seqno = x.outSeqno
      /\ Len(p.data) = 0
  BY <1>2, <1>4, MadeType
<1>6. p.ackno = x.inAckno
  BY <1>2, <1>4 DEF Made
<1>7. a.state = x.state /\ a.inAckno = x.inAckno /\ a.inPkt = x.inPkt
  BY <1>3 DEF SentAs
<1>8. /\ a.outSeqno = x.outSeqno /\ a.tx \subseteq x.tx \cup {p}
      /\ a.outPkt \in {x.outPkt, Append(x.outPkt, [pkt |-> p, retrans |-> 0])}
  <2>1. CASE ~x.known
    BY <1>3, <2>1 DEF SentAs
  <2>2. CASE x.known
    <3>1. a.outSeqno = SeqAdd(x.outSeqno, 0)
      BY <1>2, <1>3, <2>2 DEF SentAs
    <3>2. x.outSeqno \in SeqNum
      BY DEF TypedStream
    <3>3. /\ a.tx = x.tx \cup {p}
          /\ a.outPkt \in {x.outPkt, Append(x.outPkt, [pkt |-> p, retrans |-> 0])}
      BY <1>3, <1>4, <2>2 DEF SentAs
    <3> QED BY <3>1, <3>2, <3>3, AddNothing
  <2> QED BY <2>1, <2>2
<1> QED BY <1>1, <1>3, <1>5, <1>6, <1>7, <1>8 DEF AckMade

LEMMA AckIsMade ==
  ASSUME NEW x \in TypedStream, NEW retrans \in BOOLEAN
  PROVE  AckMade(ToSend(x, AckPkt, retrans), x)
  BY BareIsMade

LEMMA AckOwn ==
  ASSUME NEW m \in Marks, NEW c \in TypedStream, NEW d \in TypedStream,
         c.tx \subseteq OwnPackets(c, m), c.outPkt \in Seq(OwnOut(c, m)),
         Heard(d), d.outSeqno = c.outSeqno, 1 <= Before(c.outSeqno, m.o),
         1 <= Before(d.inAckno, m.po), Gained(c, m.po) <= Before(d.inAckno, m.po),
         NEW p \in ShortPacket, ~p.syn, p.ack, p.seqno = c.outSeqno,
         p.ackno = d.inAckno, Len(p.data) = 0, d.tx \subseteq c.tx \cup {p},
         d.outPkt \in {c.outPkt, Append(c.outPkt, [pkt |-> p, retrans |-> 0])}
  PROVE  d.tx \subseteq OwnPackets(d, m) /\ d.outPkt \in Seq(OwnOut(d, m))
<1>1. Before(c.outSeqno, m.o) \in Nat
  BY NumberFacts
<1>2. p \in OwnPackets(d, m)
  <2>1. Before(p.seqno, m.o) + Len(p.data) <= Before(d.outSeqno, m.o)
    BY <1>1
  <2> QED BY <2>1, FreshOwn
<1>3. Gained(d, m.po) = Before(d.inAckno, m.po)
  BY LiveStates DEF Gained
<1>4. /\ OwnPackets(c, m) \subseteq OwnPackets(d, m)
      /\ Seq(OwnOut(c, m)) \subseteq Seq(OwnOut(d, m))
  BY <1>1, <1>3, OwnGrows
<1>5. PICK out : out = [pkt |-> p, retrans |-> 0]
  OBVIOUS
<1>6. out \in OwnOut(d, m)
  BY <1>2, <1>5 DEF OwnOut
<1>7. Append(c.outPkt, out) \in Seq(OwnOut(d, m))
  BY <1>4, <1>6, AppendProperties
<1> QED BY <1>2, <1>4, <1>5, <1>7

LEMMA SynHeard ==
  ASSUME NEW m \in Marks, NEW p \in PeerPackets(m), p.syn
  PROVE  /\ SeqAdd(p.seqno, 1) \in SeqNum /\ Before(SeqAdd(p.seqno, 1), m.po) = 1
         /\ 1 <= m.top
<1>1. p.seqno = m.po /\ 1 <= m.top /\ m.po \in SeqNum
  BY PeerPacketFacts DEF Marks
<1>2. Before(m.po, m.po) = 0 /\ 0 + 1 < SeqMod /\ 1 \in 0 .. SeqMod
  BY <1>1, BeforeType, Sizes
<1>3. SeqAdd(p.seqno, 1) \in SeqNum
  BY <1>1, <1>2, SeqAddType
<1>4. Before(SeqAdd(m.po, 1), m.po) = 0 + 1
  BY <1>1, <1>2, BeforeSum
<1> QED BY <1>1, <1>3, <1>4

LEMMA CrossingSince ==
  ASSUME NEW m \in Marks, NEW c, NEW c0, Since(c, c0, m), c.state = TCP_SYN_SENT,
         NEW p \in PeerPackets(m), p.syn => p.ack \in m.pkinds, NEW isn
  PROVE  Since(IncomingClosed(c, p, isn), c0, m)
<1> DEFINE s == p.seqno
           a == SeqAdd(p.seqno, 1)
           w == p.win
           d == [c EXCEPT !.initPeer = s, !.inAckno = a, !.outWin = w, !.inWin = MaxWin]
           rcvd == TCP_SYN_RCVD
<1> SUFFICES ASSUME p.syn, ~p.ack PROVE Since(IncomingClosed(c, p, isn), c0, m)
  BY DEF IncomingClosed
<1>1. p \in ShortPacket /\ s \in SeqNum /\ w \in Nat /\ MaxWin \in Nat
  BY PeerPacketFacts, ShortPacketParts, Sizes
<1>2. a \in SeqNum /\ Before(a, m.po) = 1 /\ 1 <= m.top
  BY SynHeard
<1>3. c \in TypedStream /\ Careful(c, m) /\ Opening(c) /\ Live(c)
  BY LiveStates DEF Since
<1>4. PICK x : x = d
  OBVIOUS
<1>5. x \in TypedStream
  <2> HIDE DEF s, a, w
  <2> QED BY <1>1, <1>2, <1>3, <1>4, HeardType
<1> HIDE DEF s, a, w
<1>6. /\ x.state = c.state /\ x.initOur = c.initOur /\ x.outSeqno = c.outSeqno
      /\ x.outAcked = c.outAcked /\ x.inAckno = a /\ x.inPkt = c.inPkt
      /\ x.outPkt = c.outPkt /\ x.tx = c.tx
  BY <1>3, <1>4, TypedParts DEF Fields
<1>7. IncomingClosed(c, p, isn) = [ToSend(x, AckPkt, TRUE) EXCEPT !.state = rcvd]
  BY <1>4, States DEF IncomingClosed, s, a, w
<1> HIDE DEF d
<1>8. PICK y : y = ToSend(x, AckPkt, TRUE)
  OBVIOUS
<1>9. AckMade(y, x)
  BY <1>5, <1>8, AckIsMade
<1>10. PICK z : z = [y EXCEPT !.state = rcvd]
  OBVIOUS
<1>11. y \in TypedStream /\ z \in TypedStream
  <2>1. rcvd \in 0 .. 10 /\ y \in TypedStream
    BY <1>9, States DEF AckMade
  <2> HIDE DEF rcvd
  <2> QED BY <1>10, <2>1, StateType
<1> HIDE DEF rcvd
<1>12. /\ z.state = rcvd /\ z.initOur = y.initOur /\ z.outSeqno = y.outSeqno
       /\ z.outAcked = y.outAcked /\ z.inAckno = y.inAckno /\ z.inPkt = y.inPkt
       /\ z.outPkt = y.outPkt /\ z.tx = y.tx
  BY <1>10, <1>11, TypedParts DEF Fields
<1>13. /\ z.state = TCP_SYN_RCVD /\ z.initOur = c.initOur /\ z.outSeqno = c.outSeqno
       /\ z.outAcked = c.outAcked /\ z.inAckno = a /\ z.inPkt = c.inPkt
  BY <1>6, <1>9, <1>12 DEF AckMade, rcvd
<1>14. Heard(z) /\ Gained(c, m.po) = 0
  BY <1>13 DEF Heard, Gained
<1>15. /\ c.tx \subseteq OwnPackets(c, m) /\ c.outPkt \in Seq(OwnOut(c, m))
       /\ c.inPkt \in Seq(PeerPackets(m))
       /\ 1 <= Before(c.outSeqno, m.o) /\ Before(c.outAcked, m.o) <= m.reach
  BY <1>3 DEF Since, Careful
<1>16. PICK p0 \in ShortPacket :
         /\ ~p0.syn /\ p0.ack /\ p0.seqno = c.outSeqno /\ p0.ackno = z.inAckno
         /\ Len(p0.data) = 0 /\ z.tx \subseteq c.tx \cup {p0}
         /\ z.outPkt \in {c.outPkt, Append(c.outPkt, [pkt |-> p0, retrans |-> 0])}
  BY <1>6, <1>9, <1>12 DEF AckMade
<1>17. 1 <= Before(z.inAckno, m.po) /\ Gained(c, m.po) <= Before(z.inAckno, m.po)
  BY <1>2, <1>13, <1>14
<1>18. z.tx \subseteq OwnPackets(z, m) /\ z.outPkt \in Seq(OwnOut(z, m))
  BY <1>3, <1>11, <1>13, <1>14, <1>15, <1>16, <1>17, AckOwn
<1>19. TRUE \notin m.pkinds /\ Before(z.inAckno, m.po) = 1
  <2>1. p.ack = FALSE /\ p.ack \in m.pkinds
    BY <1>1, ShortPacketParts
  <2> QED BY <1>2, <1>13, <2>1 DEF Marks
<1>20. Since(z, c0, m)
  BY <1>2, <1>3, <1>11, <1>13, <1>14, <1>15, <1>17, <1>18, <1>19, TurnSince
<1> QED BY <1>7, <1>8, <1>10, <1>20

(* The answer to our SYN, which acknowledges it.                           *)
LEMMA AnsweredSince ==
  ASSUME NEW m \in Marks, NEW c, NEW c0, Since(c, c0, m), c.state = TCP_SYN_SENT,
         NEW p \in PeerPackets(m), p.syn, p.ack,
         NEW x, x = [c EXCEPT !.initPeer = p.seqno, !.inAckno = SeqAdd(p.seqno, 1)]
  PROVE  Since(Establish(SendAck(x), p), c0, m)
<1> DEFINE s == p.seqno
           a == SeqAdd(p.seqno, 1)
           w == p.win
           k == p.ackno
           est == TCP_ESTABLISHED
           on == TRUE
<1>1. p \in ShortPacket /\ s \in SeqNum /\ Before(k, m.o) <= m.reach
  BY PeerPacketFacts, ShortPacketParts
<1>2. a \in SeqNum /\ Before(a, m.po) = 1 /\ 1 <= m.top
  BY SynHeard
<1>3. c \in TypedStream /\ Careful(c, m) /\ Opening(c) /\ Live(c)
  BY LiveStates DEF Since
<1>4. x \in TypedStream
  <2> HIDE DEF s, a
  <2> QED BY <1>1, <1>2, <1>3, SynAckedType DEF s, a
<1>5. x = [c EXCEPT !.initPeer = s, !.inAckno = a]
  OBVIOUS
<1> HIDE DEF s, a, w, k
<1>6. /\ x.state = c.state /\ x.initOur = c.initOur /\ x.outSeqno = c.outSeqno
      /\ x.inAckno = a /\ x.inPkt = c.inPkt
      /\ x.outPkt = c.outPkt /\ x.tx = c.tx
  BY ONLY <1>3, <1>5, TypedParts DEF Fields
<1>7. PICK y : y = SendAck(x)
  OBVIOUS
<1>8. AckMade(y, x)
  BY <1>4, <1>7, AckIsMade DEF SendAck
<1>9. PICK z : z = Establish(y, p)
  OBVIOUS
<1>10. y \in TypedStream /\ z \in TypedStream
  BY <1>1, <1>8, <1>9, EstablishType DEF AckMade
<1>11. z = [y EXCEPT !.outWin = w, !.outAcked = k, !.state = est,
                     !.inActive = on, !.outActive = on]
  BY <1>9 DEF Establish, w, k
<1> HIDE DEF est, on
<1>12. /\ z.state = est /\ z.initOur = y.initOur /\ z.outSeqno = y.outSeqno
       /\ z.outAcked = k /\ z.inAckno = y.inAckno /\ z.inPkt = y.inPkt
       /\ z.outPkt = y.outPkt /\ z.tx = y.tx
  BY ONLY <1>10, <1>11, TypedParts DEF Fields
<1>13. /\ z.state = TCP_ESTABLISHED /\ z.initOur = c.initOur
       /\ z.outSeqno = c.outSeqno /\ z.inAckno = a /\ z.inPkt = c.inPkt
  BY <1>6, <1>8, <1>12 DEF AckMade, est
<1>14. Heard(z) /\ Gained(c, m.po) = 0 /\ z.state # TCP_SYN_RCVD
  BY <1>13, States DEF Heard, Gained, Opened
<1>15. /\ c.tx \subseteq OwnPackets(c, m) /\ c.outPkt \in Seq(OwnOut(c, m))
       /\ c.inPkt \in Seq(PeerPackets(m))
       /\ 1 <= Before(c.outSeqno, m.o)
  BY <1>3 DEF Since, Careful
<1>16. PICK p0 \in ShortPacket :
         /\ ~p0.syn /\ p0.ack /\ p0.seqno = c.outSeqno /\ p0.ackno = z.inAckno
         /\ Len(p0.data) = 0 /\ z.tx \subseteq c.tx \cup {p0}
         /\ z.outPkt \in {c.outPkt, Append(c.outPkt, [pkt |-> p0, retrans |-> 0])}
  BY <1>6, <1>8, <1>12 DEF AckMade
<1>17. /\ 1 <= Before(z.inAckno, m.po) /\ Gained(c, m.po) <= Before(z.inAckno, m.po)
       /\ Before(z.inAckno, m.po) <= m.top
  BY <1>2, <1>13, <1>14
<1>18. z.tx \subseteq OwnPackets(z, m) /\ z.outPkt \in Seq(OwnOut(z, m))
  BY <1>3, <1>10, <1>13, <1>14, <1>15, <1>16, <1>17, AckOwn
<1>19. Before(z.outAcked, m.o) <= m.reach
  BY <1>1, <1>12
<1>20. Since(z, c0, m)
  BY <1>3, <1>10, <1>13, <1>14, <1>15, <1>17, <1>18, <1>19, TurnSince
<1> QED BY <1>7, <1>9, <1>20

LEMMA IncomingSynSentSince ==
  ASSUME NEW m \in Marks, NEW c, NEW c0, Since(c, c0, m), c.state = TCP_SYN_SENT,
         NEW p \in PeerPackets(m), p.syn => p.ack \in m.pkinds, NEW isn
  PROVE  Since(IncomingSynSent(c, p, isn), c0, m)
<1>1. PICK x : x = [c EXCEPT !.initPeer = p.seqno, !.inAckno = SeqAdd(p.seqno, 1)]
  OBVIOUS
<1>2. p.syn /\ p.ack => Since(Establish(SendAck(x), p), c0, m)
  BY <1>1, AnsweredSince
<1>3. Since(IncomingClosed(c, p, isn), c0, m)
  BY CrossingSince
<1>4. IncomingSynSent(c, p, isn) \in
        (IF p.syn /\ p.ack THEN {c, Establish(SendAck(x), p)}
                           ELSE {IncomingClosed(c, p, isn)})
  BY <1>1 DEF IncomingSynSent
<1> QED BY <1>2, <1>3, <1>4

(* The end that is in SYN_RCVD waits for an end that does not answer a SYN *)
(* with a SYN, so what acknowledges its own is no SYN.                     *)
LEMMA AcceptedSince ==
  ASSUME NEW m \in Marks, NEW c, NEW c0, Since(c, c0, m), c.state = TCP_SYN_RCVD,
         NEW p \in PeerPackets(m), p.syn => p.ack \in m.pkinds,
         p.ack, p.ackno = c.outSeqno
  PROVE  /\ Since(Establish([c EXCEPT !.inAckno = p.seqno], p), c0, m)
         /\ Opened(Establish([c EXCEPT !.inAckno = p.seqno], p))
<1> DEFINE s == p.seqno
           w == p.win
           k == p.ackno
           est == TCP_ESTABLISHED
           on == TRUE
<1>1. c \in TypedStream /\ Careful(c, m) /\ Opening(c) /\ Live(c) /\ Heard(c)
  BY LiveStates DEF Since
<1>2. ~p.syn
  <2>1. p.syn => p.ack = TRUE
    BY PeerPacketFacts, ShortPacketParts
  <2> QED BY <1>1, <2>1 DEF Careful
<1>3. /\ p \in ShortPacket /\ s \in SeqNum /\ 1 <= Before(k, m.o)
      /\ Before(k, m.o) <= m.reach
      /\ 1 <= Before(s, m.po) /\ Before(s, m.po) <= m.top
  BY <1>2, PeerPacketFacts, ShortPacketParts
<1>4. PICK x : x = [c EXCEPT !.inAckno = s]
  OBVIOUS
<1>5. PICK z : z = Establish(x, p)
  OBVIOUS
<1>6. k = c.outSeqno /\ z = [x EXCEPT !.outWin = w, !.outAcked = k, !.state = est,
                                      !.inActive = on, !.outActive = on]
  BY <1>5 DEF Establish
<1> HIDE DEF s, w, k, est, on
<1>7. x \in TypedStream /\ z \in TypedStream
  BY <1>1, <1>3, <1>4, <1>5, InAcknoType, EstablishType
<1>8. /\ x.initOur = c.initOur /\ x.outSeqno = c.outSeqno /\ x.inAckno = s
      /\ x.inPkt = c.inPkt /\ x.outPkt = c.outPkt /\ x.tx = c.tx
  BY ONLY <1>1, <1>4, TypedParts DEF Fields
<1>9. /\ z.state = est /\ z.initOur = x.initOur /\ z.outSeqno = x.outSeqno
      /\ z.outAcked = k /\ z.inAckno = x.inAckno /\ z.inPkt = x.inPkt
      /\ z.outPkt = x.outPkt /\ z.tx = x.tx
  BY ONLY <1>6, <1>7, TypedParts DEF Fields
<1>10. Opened(z) /\ Heard(z) /\ z.state # TCP_SYN_RCVD /\ z.state # TCP_SYN_SENT
  BY <1>9, States DEF est, Opened, Heard
<1>11. /\ Gained(c, m.po) = 1 /\ Gained(z, m.po) = Before(z.inAckno, m.po)
       /\ z.inAckno = s /\ z.outSeqno = c.outSeqno
  BY <1>1, <1>8, <1>9, <1>10, LiveStates DEF Gained, Careful
<1>12. /\ OwnPackets(c, m) \subseteq OwnPackets(z, m)
       /\ Seq(OwnOut(c, m)) \subseteq Seq(OwnOut(z, m))
  <2>1. Before(c.outSeqno, m.o) <= Before(z.outSeqno, m.o)
    BY <1>1, <1>11, NumberFacts
  <2>2. Gained(c, m.po) <= Gained(z, m.po)
    BY <1>3, <1>11
  <2> QED BY <1>1, <1>7, <2>1, <2>2, OwnGrows
<1>13. /\ z.tx \subseteq OwnPackets(z, m) /\ z.outPkt \in Seq(OwnOut(z, m))
       /\ z.inPkt \in Seq(PeerPackets(m))
  BY <1>1, <1>8, <1>9, <1>12 DEF Since, Careful
<1>14. /\ 1 <= Before(z.outSeqno, m.o) /\ Before(z.outAcked, m.o) <= m.reach
       /\ 1 <= Before(z.inAckno, m.po) /\ Before(z.inAckno, m.po) <= m.top
       /\ Gained(c, m.po) <= Before(z.inAckno, m.po) /\ z.initOur = c.initOur
       /\ z.outSeqno = c.outSeqno
  BY <1>3, <1>6, <1>8, <1>9, <1>11
<1>15. Since(z, c0, m)
  BY <1>1, <1>7, <1>10, <1>13, <1>14, TurnSince
<1> QED BY <1>4, <1>5, <1>10, <1>15 DEF s

LEMMA IncomingSynRcvdSince ==
  ASSUME NEW m \in Marks, NEW c, NEW c0, Since(c, c0, m), c.state = TCP_SYN_RCVD,
         NEW p \in PeerPackets(m), p.syn => p.ack \in m.pkinds
  PROVE  Since(IncomingSynRcvd(c, p), c0, m)
<1>1. PICK d : d = Establish([c EXCEPT !.inAckno = p.seqno], p)
  OBVIOUS
<1>2. p.ack /\ p.ackno = c.outSeqno => Since(d, c0, m) /\ Opened(d)
  BY <1>1, AcceptedSince
<1>3. p.ack /\ p.ackno = c.outSeqno => Since(IncomingEstablished(d, p), c0, m)
  BY <1>2, IncomingEstablishedSince
<1>4. IncomingSynRcvd(c, p) \in
        (IF p.ack /\ p.ackno = c.outSeqno THEN {d, IncomingEstablished(d, p)} ELSE {c})
  BY <1>1 DEF IncomingSynRcvd
<1> QED BY <1>2, <1>3, <1>4

(* A packet for a stream that does not start with it.                      *)
LEMMA HandleIncomingSince ==
  ASSUME NEW m \in Marks, NEW c, NEW c0, Since(c, c0, m),
         c.state \notin {TCP_LISTEN, TCP_TIMED_WAIT},
         NEW p \in PeerPackets(m), p.syn => p.ack \in m.pkinds, NEW isn,
         ~TakesIsn(c, p)
  PROVE  Since(HandleIncoming(c, p, isn), c0, m)
<1>1. c.state \in 0 .. 10
  BY DEF Since, TypedStream
<1>2. CASE c.state = TCP_CLOSED
  <2>1. ~(p.syn /\ ~p.ack)
    BY <1>2 DEF TakesIsn
  <2>2. HandleIncoming(c, p, isn) = IncomingClosed(c, p, isn)
    BY <1>2, States DEF HandleIncoming
  <2>3. IncomingClosed(c, p, isn) = c
    BY <2>1 DEF IncomingClosed
  <2> QED BY <2>2, <2>3
<1>3. CASE c.state = TCP_SYN_SENT
  <2>1. HandleIncoming(c, p, isn) = IncomingSynSent(c, p, isn)
    BY <1>3, States DEF HandleIncoming
  <2> QED BY <1>3, <2>1, IncomingSynSentSince
<1>4. CASE c.state = TCP_SYN_RCVD
  <2>1. HandleIncoming(c, p, isn) = IncomingSynRcvd(c, p)
    BY <1>4, States DEF HandleIncoming
  <2> QED BY <1>4, <2>1, IncomingSynRcvdSince
<1>5. CASE Opened(c)
  <2>1. HandleIncoming(c, p, isn) = IncomingEstablished(c, p)
    BY <1>1, <1>5, States DEF HandleIncoming, Opened
  <2> QED BY <1>5, <2>1, IncomingEstablishedSince
<1> QED BY <1>1, <1>2, <1>3, <1>4, <1>5, States DEF Opened

(***************************************************************************)
(* Opening                                                                 *)
(***************************************************************************)

(* The marks m let c open its stream, with or without an acknowledgement.  *)
MayStart(c, m, ack) ==
    /\ m.kinds = {ack}
    /\ ack => Before(c.inAckno, m.po) = 1 /\ 1 <= m.top /\ TRUE \notin m.pkinds

(* d has done so.                                                          *)
Started(d, m, ack, s) ==
    /\ d.state = s /\ d.outAcked = m.o /\ d.inPkt = <<>>
    /\ d.outSeqno \in {m.o, SeqAdd(m.o, 1)}
    /\ d.tx \subseteq {p \in OwnPackets(d, m) : p.syn /\ p.ack = ack}
    /\ \A i \in 1 .. Len(d.outPkt) : d.outPkt[i].pkt.syn => d.outPkt[i].pkt.ack = ack

LEMMA OpeningCareful ==
  ASSUME NEW m \in Marks, NEW ack \in BOOLEAN,
         NEW c, Blank(c), ack \/ c.known, MayStart(c, m, ack),
         NEW isn, isn = m.o, NEW s, s = IF ack THEN TCP_SYN_RCVD ELSE TCP_SYN_SENT,
         NEW d, d = [ToSend(InitSeqnos(c, isn), SynPkt(ack), TRUE) EXCEPT !.state = s]
  PROVE  d \in TypedStream /\ Careful(d, m) /\ Started(d, m, ack, s)
<1> DEFINE o == m.o
           update == SeqAdd(m.o, MaxSeg)
<1>typed. c \in TypedStream /\ o \in SeqNum /\ c.known \in BOOLEAN
  BY DEF Blank, Marks, TypedStream
<1>hyp. /\ m \in Marks /\ m.kinds = {ack} /\ ack \in BOOLEAN /\ (ack \/ c.known)
        /\ ack => Before(c.inAckno, m.po) = 1 /\ 1 <= m.top /\ TRUE \notin m.pkinds
  BY DEF MayStart
<1>1. PICK x : x = InitSeqnos(c, o)
  OBVIOUS
<1>2. x \in TypedStream
  BY <1>1, <1>typed, InitSeqnosType
<1>3. /\ x.known = c.known /\ x.outSeqno = o /\ x.initOur = o /\ x.outAcked = o
      /\ x.inAckno = c.inAckno /\ x.tx = {}
      /\ x.inPkt = <<>> /\ x.outPkt = <<>>
  <2>1. x = [c EXCEPT !.outSeqno = o, !.initOur = o, !.outAcked = o,
                      !.inWin = MaxWin, !.congestThreshold = MaxWin,
                      !.congestWin = MaxSeg, !.congestUpdate = update]
    BY <1>1 DEF InitSeqnos
  <2> HIDE DEF update, o
  <2>2. /\ x.known = c.known /\ x.outSeqno = o /\ x.initOur = o /\ x.outAcked = o
        /\ x.inAckno = c.inAckno /\ x.tx = c.tx
        /\ x.inPkt = c.inPkt /\ x.outPkt = c.outPkt
    BY <1>typed, <2>1, TypedParts DEF Fields
  <2> QED BY <2>2 DEF Blank
<1>4. PICK pkt : pkt = SynPkt(ack)
  OBVIOUS
<1>5. pkt \in Flags /\ pkt.syn /\ pkt.ack = ack /\ pkt.data = <<>>
      /\ Len(pkt.data) = 0 /\ Len(pkt.data) <= MaxSeg /\ TRUE \in BOOLEAN
  <2>1. Len(<<>>) = 0 /\ Len(<<>>) <= MaxSeg
    BY Sizes
  <2> QED BY <1>4, <2>1, FlagsOfAck DEF SynPkt
<1>6. PICK y : y = ToSend(x, pkt, TRUE)
  OBVIOUS
<1>7. y \in TypedStream /\ SentAs(y, x, pkt, TRUE)
      /\ y.initOur = x.initOur /\ y.outAcked = x.outAcked
  BY <1>2, <1>5, <1>6, ToSendType, ToSendFields, ToSendKeeps
<1>8. PICK p : p = Made(x, pkt)
  OBVIOUS
<1>9. /\ p \in ShortPacket /\ p.syn /\ p.ack = ack /\ Len(p.data) = 0
      /\ p.seqno = o /\ (ack => p.ackno = c.inAckno)
  <2>1. /\ p \in ShortPacket /\ p.syn /\ p.ack = ack /\ Len(p.data) = 0
        /\ p.seqno = o
    BY <1>2, <1>3, <1>5, <1>8, MadeType
  <2>2. ack => p.ackno = c.inAckno
    BY <1>3, <1>5, <1>8 DEF Made
  <2> QED BY <2>1, <2>2
<1>10. s \in 0 .. 10 /\ (ack => s = TCP_SYN_RCVD) /\ (~ack => s = TCP_SYN_SENT)
  BY States
<1>11. d = [y EXCEPT !.state = s]
  BY <1>1, <1>4, <1>6
<1>12. d \in TypedStream
  <2>1. [y EXCEPT !.state = s] \in TypedStream
    BY ONLY <1>7, <1>10, StateType
  <2> QED BY <1>11, <2>1
<1>13. /\ d.state = s /\ d.initOur = y.initOur /\ d.outSeqno = y.outSeqno
       /\ d.outAcked = y.outAcked /\ d.inAckno = y.inAckno
       /\ d.tx = y.tx /\ d.inPkt = y.inPkt /\ d.outPkt = y.outPkt
  BY <1>7, <1>11, TypedParts DEF Fields
<1>14. d.initOur = o /\ d.outAcked = o /\ d.inAckno = c.inAckno /\ d.inPkt = <<>>
  BY <1>3, <1>7, <1>13 DEF SentAs
<1>15. PICK out : out = [pkt |-> p, retrans |-> 0]
  OBVIOUS
<1>16. c.known => d.outSeqno = SeqAdd(o, 1) /\ d.tx = {p} /\ d.outPkt = <<out>>
  <2> SUFFICES ASSUME c.known
               PROVE  d.outSeqno = SeqAdd(o, 1) /\ d.tx = {p} /\ d.outPkt = <<out>>
    OBVIOUS
  <2>1. y.outSeqno = SeqAdd(o, 1) /\ y.tx = {} \cup {p}
    BY <1>3, <1>5, <1>7, <1>8 DEF SentAs
  <2>2. y.outPkt = Append(<<>>, out)
    BY <1>3, <1>7, <1>8, <1>15 DEF SentAs
  <2>3. Append(<<>>, out) = <<out>>
    OBVIOUS
  <2> QED BY <1>13, <2>1, <2>2, <2>3
<1>17. ~c.known => d.tx = {} /\ d.outPkt = <<>>
  <2>1. ~c.known => y = x
    BY <1>3, <1>7 DEF SentAs
  <2> QED BY <1>3, <1>13, <2>1
<1>18. Before(o, o) = 0 /\ Before(SeqAdd(o, 1), o) = 1
  <2>1. Before(o, o) = 0 /\ 0 + 1 < SeqMod /\ 1 \in 0 .. SeqMod
    BY <1>typed, BeforeType, Sizes
  <2>2. Before(SeqAdd(o, 1), o) = 0 + 1
    BY <1>typed, <2>1, BeforeSum
  <2> QED BY <2>1, <2>2
<1>19. /\ Live(d) /\ ~Opened(d) /\ (Heard(d) => ack)
       /\ (d.state = TCP_SYN_SENT => c.known) /\ (ack => d.state # TCP_SYN_SENT)
  <2>1. d.state \in {TCP_SYN_SENT, TCP_SYN_RCVD}
        /\ (d.state = TCP_SYN_RCVD => ack) /\ (d.state = TCP_SYN_SENT => ~ack)
    BY <1>10, <1>13, States
  <2> QED BY <2>1, LiveStates
<1>20. c.known => p \in OwnPackets(d, m)
  <2> SUFFICES ASSUME c.known PROVE p \in OwnPackets(d, m)
    OBVIOUS
  <2>k. c.known
    OBVIOUS
  <2>1. Placed(p, m.o, Before(d.outSeqno, m.o))
    BY ONLY <1>9, <1>16, <1>18, <2>k DEF Placed
  <2>2. ack => 1 <= Before(p.ackno, m.po) /\ Before(p.ackno, m.po) <= Gained(d, m.po)
    <3> SUFFICES ASSUME ack
                 PROVE  1 <= Before(p.ackno, m.po) /\ Before(p.ackno, m.po) <= Gained(d, m.po)
      OBVIOUS
    <3>1. Before(c.inAckno, m.po) = 1 /\ p.ackno = c.inAckno /\ d.inAckno = c.inAckno
      BY <1>hyp, <1>9, <1>14
    <3>2. Gained(d, m.po) = Before(d.inAckno, m.po)
      BY <1>19 DEF Gained
    <3> QED BY ONLY <3>1, <3>2
  <2>3. Acks(p, m.po, Gained(d, m.po))
    <3>1. p.ack => ack
      BY <1>9
    <3> QED BY <2>2, <3>1 DEF Acks
  <2> QED BY <1>hyp, <1>9, <2>1, <2>3 DEF OwnPackets
<1>21. d.tx \subseteq {r \in OwnPackets(d, m) : r.syn /\ r.ack = ack}
  BY <1>9, <1>16, <1>17, <1>20, <1>typed
<1>22. d.outPkt \in Seq(OwnOut(d, m))
       /\ \A i \in 1 .. Len(d.outPkt) : d.outPkt[i].pkt.syn => d.outPkt[i].pkt.ack = ack
  <2>1. CASE c.known
    <3>1. out \in OwnOut(d, m) /\ out.pkt = p
      BY <1>15, <1>20, <2>1 DEF OwnOut
    <3>2. <<out>> \in Seq(OwnOut(d, m)) /\ Len(<<out>>) = 1 /\ <<out>>[1] = out
      BY <3>1
    <3>3. \A i \in 1 .. 1 : i = 1
      OBVIOUS
    <3> QED BY <1>9, <1>16, <2>1, <3>1, <3>2, <3>3
  <2>2. CASE ~c.known
    <3>1. <<>> \in Seq(OwnOut(d, m)) /\ Len(<<>>) = 0 /\ 1 .. 0 = {}
      OBVIOUS
    <3> QED BY <1>17, <2>2, <3>1
  <2> QED BY <1>typed, <2>1, <2>2
<1>23. d.inPkt \in Seq(PeerPackets(m))
  <2>1. <<>> \in Seq(PeerPackets(m))
    OBVIOUS
  <2> QED BY <1>14, <2>1
<1>24. Before(d.outAcked, m.o) <= m.reach
  BY ONLY <1>hyp, <1>14, <1>18 DEF Marks
<1>25. d.state = TCP_SYN_SENT \/ Opened(d) => 1 <= Before(d.outSeqno, m.o)
  BY ONLY <1>hyp, <1>16, <1>18, <1>19
<1>26. Heard(d) => 1 <= Before(d.inAckno, m.po) /\ Before(d.inAckno, m.po) <= m.top
  BY ONLY <1>hyp, <1>14, <1>19
<1>27. d.state = TCP_SYN_RCVD => Before(d.inAckno, m.po) = 1 /\ TRUE \notin m.pkinds
  <2>1. d.state = TCP_SYN_RCVD => ack
    BY <1>19 DEF Heard
  <2>2. d.inAckno = c.inAckno
    BY <1>14
  <2> QED BY ONLY <1>hyp, <2>1, <2>2
<1>28. Careful(d, m)
  <2>1. Live(d) => d.initOur = m.o /\ Before(d.outAcked, m.o) <= m.reach
    BY <1>14, <1>24
  <2>2. ~Live(d) => d.outPkt = <<>>
    BY <1>19
  <2> HIDE DEF o
  <2> QED BY ONLY <1>22, <1>23, <1>25, <1>26, <1>27, <2>1, <2>2 DEF Careful
<1>29. Started(d, m, ack, s)
  <2>1. d.outSeqno \in {m.o, SeqAdd(m.o, 1)}
    <3>1. ~c.known => y.outSeqno = o
      BY <1>3, <1>7 DEF SentAs
    <3> QED BY <1>13, <1>16, <3>1
  <2> QED BY ONLY <1>13, <1>14, <1>21, <1>22, <2>1 DEF Started
<1> QED BY <1>12, <1>28, <1>29

(***************************************************************************)
(* What one end does, as the other end sees it                             *)
(***************************************************************************)

LEMMA CountTypes ==
  ASSUME NEW c \in TypedStream, NEW begun \in BOOLEAN, NEW o \in SeqNum
  PROVE  /\ SentTo(c, begun, o) \in 0 .. SeqMod - 1
         /\ GotTo(c, begun, o) \in 0 .. SeqMod - 1
<1>1. c.outSeqno \in SeqNum /\ c.inAckno \in SeqNum
  BY DEF TypedStream
<1>2. SeqMod \in Nat /\ SeqMod > 1
  BY Sizes
<1>3. /\ Before(c.outSeqno, o) \in Nat /\ Before(c.outSeqno, o) < SeqMod
      /\ Before(c.inAckno, o) \in Nat /\ Before(c.inAckno, o) < SeqMod
  BY <1>1, BeforeType
<1> QED BY <1>2, <1>3 DEF SentTo, GotTo

(* d is what a method leaves of c when it has let its packets go, or when  *)
(* it has closed the stream for good.                                      *)
Leaves(c, d) ==
    /\ d \in TypedStream
    /\ d.inPkt = c.inPkt \/ d.inPkt = <<>>
    /\ \/ d.state = c.state /\ Alike(c, d) /\ d.outPkt = c.outPkt
       \/ d.state = TCP_CLOSED /\ d.outPkt = <<>>

(* Neither count goes back.                                                *)
LEMMA CountsGrow ==
  ASSUME NEW m \in Marks, NEW c, NEW c0, Since(c, c0, m), NEW d, Leaves(c, d),
         NEW begun \in BOOLEAN, begun \/ ~Live(c0)
  PROVE  /\ SentTo(c0, begun, m.o) <= SentTo(d, begun, m.o)
         /\ GotTo(c0, begun, m.po) <= GotTo(d, begun, m.po)
<1>1. /\ c \in TypedStream /\ c0 \in TypedStream /\ d \in TypedStream
      /\ m.o \in SeqNum /\ m.po \in SeqNum
  BY DEF Since, Leaves, Marks
<1>2. /\ SentTo(c0, begun, m.o) \in 0 .. SeqMod - 1
      /\ GotTo(c0, begun, m.po) \in 0 .. SeqMod - 1
      /\ SentTo(d, begun, m.o) \in 0 .. SeqMod - 1
      /\ GotTo(d, begun, m.po) \in 0 .. SeqMod - 1
      /\ SeqMod \in Nat
  BY <1>1, CountTypes, Sizes
<1>3. CASE d.state = TCP_CLOSED
  <2>1. ~Live(d) /\ ~Heard(d) /\ ~Opening(d)
    BY <1>3, LiveStates
  <2>2. SentTo(d, begun, m.o) = IF begun THEN SeqMod - 1 ELSE 0
    BY <2>1 DEF SentTo
  <2>3. GotTo(d, begun, m.po) = IF begun THEN SeqMod - 1 ELSE 0
    BY <2>1 DEF GotTo
  <2>4. ~begun => ~Live(c0) /\ ~Heard(c0)
    BY LiveStates
  <2>5. ~begun => SentTo(c0, begun, m.o) = 0 /\ GotTo(c0, begun, m.po) = 0
    BY <2>4 DEF SentTo, GotTo
  <2> QED BY ONLY <1>2, <2>2, <2>3, <2>5
<1>4. CASE d.state = c.state /\ Alike(c, d)
  <2>1. /\ Live(d) <=> Live(c)
        /\ Heard(d) <=> Heard(c)
        /\ Opening(d) <=> Opening(c)
    BY <1>4 DEF Live, Heard, Opening, Opened
  <2>2. d.outSeqno = c.outSeqno /\ d.inAckno = c.inAckno
    BY <1>4 DEF Alike
  <2>3. /\ Live(c) => Live(c0)
        /\ Live(c0) => Before(c0.outSeqno, m.o) <= Before(c.outSeqno, m.o)
        /\ Heard(c0) => Before(c0.inAckno, m.po) <= Before(c.inAckno, m.po)
        /\ Heard(c0) /\ Live(c) => Heard(c)
    BY DEF Since
  <2>4. /\ Before(c.outSeqno, m.o) \in Nat /\ Before(c.outSeqno, m.o) < SeqMod
        /\ Before(c0.outSeqno, m.o) \in Nat /\ Before(c0.outSeqno, m.o) < SeqMod
        /\ Before(c.inAckno, m.po) \in Nat /\ Before(c.inAckno, m.po) < SeqMod
        /\ Before(c0.inAckno, m.po) \in Nat /\ Before(c0.inAckno, m.po) < SeqMod
    BY <1>1, NumberFacts
  <2>5. SentTo(c0, begun, m.o) <= SentTo(d, begun, m.o)
    <3>1. begun => SentTo(c0, begun, m.o) <= SentTo(d, begun, m.o)
      BY <1>2, <2>1, <2>2, <2>3, <2>4 DEF SentTo
    <3>2. ~begun => SentTo(c0, begun, m.o) = 0
      BY DEF SentTo
    <3> QED BY <1>2, <3>1, <3>2
  <2>6. GotTo(c0, begun, m.po) <= GotTo(d, begun, m.po)
    <3>1. CASE Heard(c0) /\ Heard(d)
      BY <2>1, <2>2, <2>3, <2>4, <3>1 DEF GotTo
    <3>2. CASE Heard(c0) /\ ~Heard(d)
      <4>1. Live(c0) /\ begun
        BY <3>2, LiveStates
      <4>2. ~Live(d) /\ ~Opening(d)
        BY <2>1, <2>3, <3>2 DEF Live
      <4>3. GotTo(d, begun, m.po) = SeqMod - 1
        BY <3>2, <4>1, <4>2 DEF GotTo
      <4> QED BY <1>2, <4>3
    <3>3. CASE ~Heard(c0) /\ (~begun \/ Opening(c0))
      <4>1. GotTo(c0, begun, m.po) = 0
        BY <3>3 DEF GotTo
      <4> QED BY <1>2, <4>1
    <3>4. CASE ~Heard(c0) /\ begun /\ ~Opening(c0)
      <4>1. ~Live(c0)
        BY <3>4 DEF Live, Heard
      <4>2. ~Live(d) /\ ~Opening(d) /\ ~Heard(d)
        BY <2>1, <2>3, <4>1, LiveStates DEF Live
      <4>3. GotTo(d, begun, m.po) = SeqMod - 1
        BY <3>4, <4>2 DEF GotTo
      <4> QED BY <1>2, <4>3
    <3> QED BY <3>1, <3>2, <3>3, <3>4
  <2> QED BY <2>5, <2>6
<1> QED BY <1>3, <1>4 DEF Leaves

(* What it lets go is counted.                                             *)
LEMMA SentIsCounted ==
  ASSUME NEW m \in Marks, NEW c, NEW c0, Since(c, c0, m), NEW d, Leaves(c, d),
         NEW begun \in BOOLEAN, NEW p \in c.tx, begun
  PROVE  /\ p \in ShortPacket
         /\ p.syn => p.ack \in m.kinds
         /\ Placed(p, m.o, SentTo(d, begun, m.o))
         /\ Acks(p, m.po, GotTo(d, begun, m.po))
<1>1. c \in TypedStream /\ m.o \in SeqNum /\ m.po \in SeqNum /\ SeqMod \in Nat
  BY Sizes DEF Since, Marks
<1>2. /\ p \in ShortPacket /\ (p.syn => p.ack \in m.kinds)
      /\ Placed(p, m.o, Before(c.outSeqno, m.o))
      /\ Acks(p, m.po, Gained(c, m.po))
  BY DEF Since, OwnPackets
<1>3. /\ Before(c.outSeqno, m.o) \in Nat /\ Before(c.outSeqno, m.o) < SeqMod
      /\ Before(c.inAckno, m.po) \in Nat /\ Before(c.inAckno, m.po) < SeqMod
  BY <1>1, NumberFacts
<1>4. /\ Before(p.seqno, m.o) \in Nat /\ Before(p.ackno, m.po) \in Nat
      /\ Len(p.data) \in Nat
  BY <1>1, <1>2, PacketFacts
<1>5. /\ Live(d) => d.outSeqno = c.outSeqno /\ d.inAckno = c.inAckno /\ d.state = c.state
  BY LiveStates DEF Leaves, Alike
<1>6. Before(c.outSeqno, m.o) <= SentTo(d, begun, m.o)
  BY <1>1, <1>3, <1>5 DEF SentTo
<1>7. SentTo(d, begun, m.o) \in Int
  BY <1>1, <1>3, <1>5 DEF SentTo
<1>8. Placed(p, m.o, SentTo(d, begun, m.o))
  <2>1. PICK top : top = SentTo(d, begun, m.o)
    OBVIOUS
  <2>2. Before(c.outSeqno, m.o) <= top /\ top \in Int
    BY <1>6, <1>7, <2>1
  <2>3. Placed(p, m.o, top)
    BY ONLY <1>2, <1>3, <1>4, <2>2 DEF Placed
  <2> QED BY <2>1, <2>3
<1>9. Acks(p, m.po, GotTo(d, begun, m.po))
  <2>1. CASE Heard(d)
    <3>1. Live(d) /\ d.state # TCP_SYN_SENT
      BY <2>1, LiveStates
    <3>2. c.state # TCP_SYN_SENT /\ d.inAckno = c.inAckno
      BY <1>5, <3>1
    <3>3. GotTo(d, begun, m.po) = Gained(c, m.po)
      BY <2>1, <3>2 DEF GotTo, Gained
    <3> QED BY <1>2, <3>3
  <2>2. CASE ~Heard(d) /\ Opening(d)
    <3>1. d.state = TCP_SYN_SENT /\ Live(d)
      BY <2>2 DEF Heard, Opening, Live
    <3>2. Gained(c, m.po) = 0
      BY <1>5, <3>1 DEF Gained
    <3> QED BY <1>2, <1>4, <3>2 DEF Acks
  <2>3. CASE ~Heard(d) /\ ~Opening(d)
    <3>1. GotTo(d, begun, m.po) = SeqMod - 1
      BY <2>3 DEF GotTo
    <3>2. Gained(c, m.po) \in Nat /\ Gained(c, m.po) <= SeqMod - 1
      BY <1>1, <1>3, Sizes DEF Gained
    <3>3. PICK got : got = SeqMod - 1
      OBVIOUS
    <3>4. Acks(p, m.po, got)
      BY ONLY <1>1, <1>2, <1>4, <3>2, <3>3 DEF Acks
    <3> QED BY <3>1, <3>3, <3>4
  <2> QED BY <2>1, <2>2, <2>3
<1> QED BY <1>2, <1>8, <1>9

LEMMA SynKindsAre ==
  ASSUME NEW ps, NEW S, NEW q \in Seq(S), NEW k
  PROVE  k \in SynKinds(ps, q) <=>
           \/ \E p \in ps : p.syn /\ p.ack = k
           \/ \E i \in 1 .. Len(q) : q[i].pkt.syn /\ q[i].pkt.ack = k
<1>1. Range(q) = {q[i] : i \in 1 .. Len(q)}
  BY DEF Range
<1> QED BY <1>1 DEF SynKinds

(* When more has been received and sent, what was in its place still is.   *)
LEMMA PeerGrows ==
  ASSUME NEW m \in Marks, NEW n \in Marks, n.o = m.o, n.po = m.po,
         m.reach <= n.reach, m.top <= n.top
  PROVE  /\ PeerPackets(m) \subseteq PeerPackets(n)
         /\ Seq(PeerPackets(m)) \subseteq Seq(PeerPackets(n))
<1>1. ASSUME NEW p \in PeerPackets(m) PROVE p \in PeerPackets(n)
  <2>1. /\ p \in ShortPacket /\ Placed(p, n.po, m.top) /\ Acks(p, n.o, m.reach)
    BY DEF PeerPackets
  <2>2. /\ m.top \in Int /\ n.top \in Int /\ m.reach \in Int /\ n.reach \in Int
        /\ n.o \in SeqNum /\ n.po \in SeqNum /\ m.top <= n.top /\ m.reach <= n.reach
    BY Sizes DEF Marks
  <2>3. /\ Before(p.seqno, n.po) \in Nat /\ Before(p.ackno, n.o) \in Nat
        /\ Len(p.data) \in Nat
    BY <2>1, <2>2, PacketFacts
  <2>4. Placed(p, n.po, n.top)
    BY ONLY <2>1, <2>2, <2>3 DEF Placed
  <2>5. Acks(p, n.o, n.reach)
    BY ONLY <2>1, <2>2, <2>3 DEF Acks
  <2> QED BY <2>1, <2>4, <2>5 DEF PeerPackets
<1> QED BY <1>1, SeqMonotonic

LEMMA StillCareful ==
  ASSUME NEW m \in Marks, NEW n \in Marks, n.o = m.o, n.po = m.po,
         m.reach <= n.reach, m.top <= n.top,
         NEW c \in TypedStream, Careful(c, m),
         \A i \in 1 .. Len(c.outPkt) : c.outPkt[i].pkt.syn => c.outPkt[i].pkt.ack \in n.kinds,
         c.state = TCP_SYN_RCVD => TRUE \notin n.pkinds
  PROVE  Careful(c, n)
<1>1. c.outPkt \in Seq(OwnOut(c, m)) /\ c.inPkt \in Seq(PeerPackets(n))
  BY PeerGrows DEF Careful
<1>2. c.outPkt \in Seq(OwnOut(c, n))
  <2>1. PICK q : q = c.outPkt
    OBVIOUS
  <2>2. q \in Seq(OwnOut(c, m)) /\ Len(q) \in Nat
    BY <1>1, <2>1
  <2>3. ASSUME NEW i \in 1 .. Len(q) PROVE q[i] \in OwnOut(c, n)
    <3>1. q[i] \in OwnOut(c, m)
      BY <2>2
    <3>2. q[i].pkt.syn => q[i].pkt.ack \in n.kinds
      BY <2>1
    <3> QED BY <3>1, <3>2 DEF OwnOut, OwnPackets
  <2>4. q \in [1 .. Len(q) -> OwnOut(c, n)]
    BY <2>2, <2>3
  <2> QED BY <2>1, <2>2, <2>4
<1>3. Live(c) => Before(c.outAcked, n.o) <= n.reach
  <2>1. Live(c) => Before(c.outAcked, n.o) <= m.reach
    BY DEF Careful
  <2>2. Before(c.outAcked, n.o) \in Int /\ m.reach \in Int /\ n.reach \in Int
    BY NumberFacts
  <2> QED BY <2>1, <2>2
<1>4. Heard(c) => Before(c.inAckno, n.po) <= n.top
  <2>1. Heard(c) => Before(c.inAckno, n.po) <= m.top
    BY DEF Careful
  <2>2. Before(c.inAckno, n.po) \in Int /\ m.top \in Int /\ n.top \in Int
    BY NumberFacts
  <2> QED BY <2>1, <2>2
<1> QED BY <1>1, <1>2, <1>3, <1>4 DEF Careful

(* Careful does not look at the fields that Leaves lets change.            *)
LEMMA LeftCareful ==
  ASSUME NEW m \in Marks, NEW c \in TypedStream, Careful(c, m), NEW d, Leaves(c, d)
  PROVE  Careful(d, m)
<1>1. d.inPkt \in Seq(PeerPackets(m))
  <2>1. <<>> \in Seq(PeerPackets(m))
    OBVIOUS
  <2> QED BY <2>1 DEF Careful, Leaves
<1>2. CASE d.state = c.state /\ Alike(c, d) /\ d.outPkt = c.outPkt
  <2>1. OwnOut(d, m) = OwnOut(c, m)
    BY <1>2 DEF OwnOut, OwnPackets, Gained, Alike
  <2> QED BY <1>1, <1>2, <2>1 DEF Careful, Alike, Live, Heard, Opening, Opened
<1>3. CASE d.state = TCP_CLOSED /\ d.outPkt = <<>>
  <2>1. /\ ~Live(d) /\ ~Heard(d) /\ ~Opened(d)
        /\ d.state # TCP_SYN_SENT /\ d.state # TCP_SYN_RCVD
    BY <1>3, LiveStates, States
  <2>2. <<>> \in Seq(OwnOut(d, m))
    OBVIOUS
  <2> QED BY <1>1, <1>3, <2>1, <2>2 DEF Careful
<1> QED BY <1>2, <1>3 DEF Leaves

(***************************************************************************)
(* The steps                                                               *)
(***************************************************************************)

LEMMA MarksType ==
  ASSUME OpensOnce, Bounded, ReceiptInv, NEW e \in Ends
  PROVE  /\ MarksOf(e) \in Marks
         /\ MarksOf(e).o = Origin(e) /\ MarksOf(e).po = Origin(Peer(e))
         /\ MarksOf(e).reach = Reach(e) /\ MarksOf(e).top = Top(Peer(e))
         /\ MarksOf(e).kinds = Kinds(e) /\ MarksOf(e).pkinds = Kinds(Peer(e))
<1>1. Peer(e) \in Ends
  BY PeerIsEnd
<1>2. Origin(e) \in SeqNum /\ Origin(Peer(e)) \in SeqNum
  BY <1>1, FirstType DEF Origin
<1>3. stream[Peer(e)] \in TypedStream
  BY <1>1 DEF Bounded
<1>4. Reach(e) \in 0 .. SeqMod - 1 /\ Top(Peer(e)) \in 0 .. SeqMod - 1
  BY <1>2, <1>3, CountTypes DEF Reach, Top
<1>5. Kinds(e) \in {{}, {TRUE}, {FALSE}} /\ Kinds(Peer(e)) \in {{}, {TRUE}, {FALSE}}
  BY <1>1 DEF ReceiptInv
<1>6. Kinds(e) \in SUBSET BOOLEAN
  BY <1>5
<1> QED BY <1>2, <1>4, <1>5, <1>6 DEF MarksOf, Marks

(* What is asked of a step of e.                                           *)
LEMMA GrowStep ==
  ASSUME OpensOnce, Bounded, Bounded', ReceiptInv, NEW e \in Ends, NEW d,
         stream' = [stream EXCEPT ![e] = d],
         opens'[Peer(e)] = opens[Peer(e)],
         NEW begun \in BOOLEAN, begun <=> opens'[e] # <<>>,
         NEW n \in Marks, Careful(d, n),
         n.o = Origin(e), n.po = Origin(Peer(e)),
         n.reach = Reach(e), n.top = Top(Peer(e)), n.pkinds = Kinds(Peer(e)),
         NEW tx, \A p \in tx : /\ p \in ShortPacket
                               /\ Placed(p, Origin(e), SentTo(d, begun, Origin(e)))
                               /\ Acks(p, Origin(Peer(e)), GotTo(d, begun, Origin(Peer(e)))),
         net'[e] \subseteq net[e], net'[Peer(e)] \subseteq net[Peer(e)] \cup tx,
         Top(e) <= SentTo(d, begun, Origin(e)),
         Reach(Peer(e)) <= GotTo(d, begun, Origin(Peer(e))),
         NEW kinds \in {{}, {TRUE}, {FALSE}},
         SynKinds(net'[Peer(e)], d.outPkt) = kinds,
         kinds \subseteq Kinds(e) \/ stream[Peer(e)].state # TCP_SYN_RCVD
  PROVE  ReceiptInv'
<1>1. PICK f : f = Peer(e)
  OBVIOUS
<1>2. /\ f \in Ends /\ f # e /\ Peer(f) = e /\ Peer(e) = f
      /\ \A x \in Ends : x = e \/ x = f
  BY <1>1, PeerIsEnd
<1>3. stream'[e] = d /\ stream'[f] = stream[f] /\ d \in TypedStream /\ stream[f] \in TypedStream
  BY <1>2 DEF Bounded
<1>4. (opens'[e] # <<>>) = begun /\ opens'[f] = opens[f]
  BY <1>1
<1>5. PICK m : m = MarksOf(e)
  OBVIOUS
<1>6. PICK mf : mf = MarksOf(f)
  OBVIOUS
<1>7. /\ m \in Marks /\ m.o = Origin(e) /\ m.po = Origin(f) /\ m.reach = Reach(e)
      /\ m.top = Top(f) /\ m.kinds = Kinds(e) /\ m.pkinds = Kinds(f)
  BY <1>2, <1>5, MarksType
<1>8. /\ mf \in Marks /\ mf.o = Origin(f) /\ mf.po = Origin(e) /\ mf.reach = Reach(f)
      /\ mf.top = Top(e) /\ mf.kinds = Kinds(f) /\ mf.pkinds = Kinds(e)
  BY <1>2, <1>6, MarksType
<1>9. PICK top : top = SentTo(d, begun, Origin(e))
  OBVIOUS
<1>10. PICK got : got = GotTo(d, begun, Origin(f))
  OBVIOUS
<1>11. top \in 0 .. SeqMod - 1 /\ got \in 0 .. SeqMod - 1
  BY <1>3, <1>7, <1>9, <1>10, CountTypes DEF Marks
<1>12. Top(e)' = top /\ Top(f)' = Top(f) /\ Reach(f)' = got /\ Reach(e)' = Reach(e)
  <2>1. Top(e)' = top
    BY <1>3, <1>4, <1>9 DEF Top, Origin
  <2>2. Top(f)' = Top(f)
    BY <1>3, <1>4 DEF Top, Origin
  <2>3. Reach(f)' = got
    BY <1>2, <1>3, <1>4, <1>10 DEF Reach, Origin
  <2>4. Reach(e)' = Reach(e)
    BY <1>2, <1>3, <1>4 DEF Reach, Origin
  <2> QED BY <2>1, <2>2, <2>3, <2>4
<1>13. Kinds(e)' = kinds
  BY <1>2, <1>3 DEF Kinds
<1>14. d.outPkt \in Seq(ShortOut) /\ stream[f].outPkt \in Seq(ShortOut)
  BY <1>3 DEF TypedStream
<1>15. PICK fkinds : fkinds = Kinds(f)'
  OBVIOUS
<1>16. fkinds = SynKinds(net'[e], stream[f].outPkt)
  BY <1>2, <1>3, <1>15 DEF Kinds
<1>17. Kinds(f) = SynKinds(net[e], stream[f].outPkt)
  BY <1>2 DEF Kinds
<1>18. fkinds \subseteq Kinds(f)
  BY <1>14, <1>16, <1>17, SynKindsAre
<1>19. fkinds \in {{}, {TRUE}, {FALSE}} /\ fkinds \in SUBSET BOOLEAN
  <2>1. Kinds(f) \in {{}, {TRUE}, {FALSE}}
    BY <1>2 DEF ReceiptInv
  <2> QED BY <1>18, <2>1
<1>20. \A i \in 1 .. Len(d.outPkt) : d.outPkt[i].pkt.syn => d.outPkt[i].pkt.ack \in kinds
  BY <1>14, SynKindsAre
<1>21. \A i \in 1 .. Len(stream[f].outPkt) :
         stream[f].outPkt[i].pkt.syn => stream[f].outPkt[i].pkt.ack \in fkinds
  BY <1>14, <1>16, SynKindsAre
<1>22. PICK a : a = [o |-> Origin(e), reach |-> Reach(e), kinds |-> kinds,
                     po |-> Origin(f), top |-> Top(f), pkinds |-> fkinds]
  OBVIOUS
<1>23. PICK b : b = [o |-> Origin(f), reach |-> got, kinds |-> fkinds,
                     po |-> Origin(e), top |-> top, pkinds |-> kinds]
  OBVIOUS
<1>24. /\ a.o = Origin(e) /\ a.reach = Reach(e) /\ a.kinds = kinds
       /\ a.po = Origin(f) /\ a.top = Top(f) /\ a.pkinds = fkinds
  BY <1>22
<1>25. /\ b.o = Origin(f) /\ b.reach = got /\ b.kinds = fkinds
       /\ b.po = Origin(e) /\ b.top = top /\ b.pkinds = kinds
  BY <1>23
<1>26. MarksOf(e)' = a
  BY <1>2, <1>12, <1>13, <1>15, <1>22 DEF MarksOf, Origin
<1>27. MarksOf(f)' = b
  BY <1>2, <1>12, <1>13, <1>15, <1>23 DEF MarksOf, Origin
<1>28. /\ Origin(e) \in SeqNum /\ Origin(f) \in SeqNum
       /\ Reach(e) \in 0 .. SeqMod - 1 /\ Top(f) \in 0 .. SeqMod - 1
       /\ Reach(f) \in 0 .. SeqMod - 1 /\ Top(e) \in 0 .. SeqMod - 1
  BY <1>7, <1>8 DEF Marks
<1>29. kinds \in SUBSET BOOLEAN
  OBVIOUS
<1>30. a \in Marks
  BY <1>19, <1>22, <1>28, <1>29 DEF Marks
<1>31. b \in Marks
  BY <1>11, <1>19, <1>23, <1>28, <1>29 DEF Marks
<1>32. Top(e) <= top /\ Reach(f) <= got
  BY <1>1, <1>9, <1>10
<1>33. /\ Reach(e) \in Int /\ Top(f) \in Int /\ Reach(f) \in Int /\ Top(e) \in Int
       /\ SeqMod \in Nat
  BY <1>28, Sizes
<1>34. Careful(stream'[e], a)
  <2>1. n \in Marks /\ n.o = a.o /\ n.po = a.po /\ n.reach = a.reach /\ n.top = a.top
        /\ n.pkinds = Kinds(f)
    BY <1>1, <1>24
  <2>2. n.reach <= a.reach /\ n.top <= a.top
    BY <1>24, <1>33, <2>1
  <2>3. Careful(d, n)
    OBVIOUS
  <2>4. d.state = TCP_SYN_RCVD => TRUE \notin a.pkinds
    BY <1>18, <1>24, <2>1, <2>3 DEF Careful
  <2> QED BY <1>3, <1>20, <1>24, <1>30, <2>1, <2>2, <2>3, <2>4, StillCareful
<1>35. Careful(stream'[f], b)
  <2>1. Careful(stream[f], mf)
    BY <1>2, <1>6 DEF ReceiptInv
  <2>2. b.o = mf.o /\ b.po = mf.po /\ mf.reach <= b.reach /\ mf.top <= b.top
    BY <1>8, <1>25, <1>32
  <2>3. stream[f].state = TCP_SYN_RCVD => TRUE \notin b.pkinds
    BY <1>1, <1>8, <1>25, <2>1 DEF Careful
  <2> QED BY <1>3, <1>8, <1>21, <1>25, <1>31, <2>1, <2>2, <2>3, StillCareful
<1>36. net'[e] \subseteq PeerPackets(a)
  <2>1. net[e] \subseteq PeerPackets(m)
    BY <1>5 DEF ReceiptInv
  <2>2. a.o = m.o /\ a.po = m.po /\ m.reach <= a.reach /\ m.top <= a.top
    BY <1>7, <1>24, <1>33
  <2> QED BY <1>7, <1>30, <2>1, <2>2, PeerGrows
<1>37. net'[f] \subseteq PeerPackets(b)
  <2>1. net[f] \subseteq PeerPackets(mf)
    BY <1>2, <1>6 DEF ReceiptInv
  <2>2. b.o = mf.o /\ b.po = mf.po /\ mf.reach <= b.reach /\ mf.top <= b.top
    BY <1>8, <1>25, <1>32
  <2>3. net[f] \subseteq PeerPackets(b)
    BY <1>8, <1>31, <2>1, <2>2, PeerGrows
  <2>4. \A p \in tx : p \in ShortPacket /\ Placed(p, b.po, b.top) /\ Acks(p, b.o, b.reach)
    BY <1>1, <1>9, <1>10, <1>25
  <2>5. tx \subseteq PeerPackets(b)
    BY <2>4 DEF PeerPackets
  <2> QED BY <1>1, <2>3, <2>5
<1>38. \A x \in Ends : Careful(stream'[x], MarksOf(x)')
  BY <1>2, <1>26, <1>27, <1>34, <1>35
<1>39. \A x \in Ends : net'[x] \subseteq PeerPackets(MarksOf(x)')
  BY <1>2, <1>26, <1>27, <1>36, <1>37
<1>40. \A x \in Ends : Kinds(x)' \in {{}, {TRUE}, {FALSE}}
  BY <1>2, <1>13, <1>15, <1>19
<1> QED BY <1>38, <1>39, <1>40 DEF ReceiptInv

(* What e finds when a method starts.                                      *)
LEMMA SinceNow ==
  ASSUME OpensOnce, Bounded, HonestInv, ReceiptInv, NEW e \in Ends
  PROVE  Since(stream[e], stream[e], MarksOf(e))
<1>1. stream[e] \in TypedStream /\ stream[e].tx = {} /\ Careful(stream[e], MarksOf(e))
  BY DEF Bounded, HonestInv, ReceiptInv
<1>2. MarksOf(e) \in Marks
  BY MarksType
<1>3. PICK c : c = stream[e]
  OBVIOUS
<1>4. PICK m : m = MarksOf(e)
  OBVIOUS
<1>5. /\ Before(c.outSeqno, m.o) <= Before(c.outSeqno, m.o)
      /\ Before(c.inAckno, m.po) <= Before(c.inAckno, m.po)
  <2>1. Before(c.outSeqno, m.o) \in Nat /\ Before(c.inAckno, m.po) \in Nat
    BY <1>1, <1>2, <1>3, <1>4, NumberFacts
  <2> QED BY <2>1
<1> QED BY <1>1, <1>3, <1>4, <1>5 DEF Since

(* A method that opens nothing takes the stream to c, and leaves d.        *)
LEMMA MethodReceipt ==
  ASSUME OpensOnce, Bounded, Bounded', HonestInv, ReceiptInv, NEW e \in Ends,
         NEW c, NEW d, Since(c, stream[e], MarksOf(e)), Leaves(c, d),
         opens[e] = <<>> => c.tx = {},
         stream' = [stream EXCEPT ![e] = d], opens' = opens,
         net'[e] \subseteq net[e], net'[Peer(e)] \subseteq net[Peer(e)] \cup c.tx
  PROVE  ReceiptInv'
<1>1. PICK m : m = MarksOf(e)
  OBVIOUS
<1>2. /\ m \in Marks /\ m.o = Origin(e) /\ m.po = Origin(Peer(e)) /\ m.reach = Reach(e)
      /\ m.top = Top(Peer(e)) /\ m.kinds = Kinds(e) /\ m.pkinds = Kinds(Peer(e))
  BY <1>1, MarksType
<1>3. PICK c0 : c0 = stream[e]
  OBVIOUS
<1>4. PICK begun : begun \in BOOLEAN /\ (begun <=> opens[e] # <<>>)
  <2>1. (opens[e] # <<>>) \in BOOLEAN
    OBVIOUS
  <2> QED BY <2>1
<1>5. Since(c, c0, m) /\ c \in TypedStream
  BY <1>1, <1>3 DEF Since
<1>6. begun \/ ~Live(c0)
  <2>1. opens[e] = <<>> => stream[e].state = TCP_CLOSED
    BY MuteIs
  <2> QED BY <1>3, <1>4, <2>1, LiveStates
<1>7. begun = (opens[e] # <<>>)
  BY <1>4
<1>8. SentTo(c0, begun, m.o) = Top(e) /\ GotTo(c0, begun, m.po) = Reach(Peer(e))
  <2>1. Peer(Peer(e)) = e
    BY PeerIsEnd
  <2>2. SentTo(c0, begun, m.o) = Top(e)
    BY <1>2, <1>3, <1>7 DEF Top
  <2>3. GotTo(c0, begun, m.po) = Reach(Peer(e))
    BY <1>2, <1>3, <1>7, <2>1 DEF Reach
  <2> QED BY <2>2, <2>3
<1>9. /\ Top(e) <= SentTo(d, begun, Origin(e))
      /\ Reach(Peer(e)) <= GotTo(d, begun, Origin(Peer(e)))
  BY <1>2, <1>4, <1>5, <1>6, <1>8, CountsGrow
<1>10. PICK tx : tx = c.tx
  OBVIOUS
<1>11. \A p \in tx : /\ p \in ShortPacket
                     /\ Placed(p, Origin(e), SentTo(d, begun, Origin(e)))
                     /\ Acks(p, Origin(Peer(e)), GotTo(d, begun, Origin(Peer(e))))
                     /\ p.syn => p.ack \in Kinds(e)
  <2> TAKE p \in tx
  <2>1. p \in c.tx /\ begun
    BY <1>4, <1>10
  <2>2. /\ p \in ShortPacket
        /\ p.syn => p.ack \in m.kinds
        /\ Placed(p, m.o, SentTo(d, begun, m.o))
        /\ Acks(p, m.po, GotTo(d, begun, m.po))
    BY ONLY <1>2, <1>4, <1>5, <2>1, Leaves(c, d), SentIsCounted
  <2> QED BY <1>2, <2>2
<1>12. Careful(d, m)
  BY <1>2, <1>5, LeftCareful DEF Since
<1>13. PICK kinds : kinds = SynKinds(net'[Peer(e)], d.outPkt)
  OBVIOUS
<1>14. kinds \subseteq Kinds(e)
  <2> SUFFICES ASSUME NEW k \in kinds PROVE k \in Kinds(e)
    OBVIOUS
  <2>1. d.outPkt \in Seq(OwnOut(d, m)) /\ d.outPkt \in Seq(ShortOut)
    BY <1>12 DEF Careful, Leaves, TypedStream
  <2>2. \/ \E p \in net'[Peer(e)] : p.syn /\ p.ack = k
        \/ \E i \in 1 .. Len(d.outPkt) : d.outPkt[i].pkt.syn /\ d.outPkt[i].pkt.ack = k
    BY <1>13, <2>1, SynKindsAre
  <2>3. ASSUME NEW p \in net'[Peer(e)], p.syn, p.ack = k PROVE k \in Kinds(e)
    <3>1. CASE p \in net[Peer(e)]
      <4>1. stream[e].outPkt \in Seq(ShortOut)
        BY DEF Bounded, TypedStream
      <4> QED BY <2>3, <3>1, <4>1, SynKindsAre DEF Kinds
    <3>2. CASE p \in tx
      BY <1>11, <2>3, <3>2
    <3> QED BY <1>10, <3>1, <3>2
  <2>4. ASSUME NEW i \in 1 .. Len(d.outPkt), d.outPkt[i].pkt.syn, d.outPkt[i].pkt.ack = k
        PROVE  k \in Kinds(e)
    <3>1. d.outPkt[i] \in OwnOut(d, m)
      BY <2>1
    <3>2. k \in m.kinds
      BY <2>4, <3>1 DEF OwnOut, OwnPackets
    <3> QED BY <1>2, <3>2
  <2> QED BY <2>2, <2>3, <2>4
<1>15. kinds \in {{}, {TRUE}, {FALSE}}
  <2>1. Kinds(e) \in {{}, {TRUE}, {FALSE}}
    BY DEF ReceiptInv
  <2> QED BY <1>14, <2>1
<1>16. net'[Peer(e)] \subseteq net[Peer(e)] \cup tx
  BY <1>10
<1>17. opens'[Peer(e)] = opens[Peer(e)] /\ (begun <=> opens'[e] # <<>>)
  BY <1>4
<1>18. SynKinds(net'[Peer(e)], d.outPkt) = kinds
  BY <1>13
<1>19. kinds \subseteq Kinds(e) \/ stream[Peer(e)].state # TCP_SYN_RCVD
  BY <1>14
<1> QED BY <1>2, <1>4, <1>9, <1>11, <1>12, <1>15, <1>16, <1>17, <1>18, <1>19, GrowStep

(* The rest of a method is to let the packets go.                          *)
LEMMA TxLeaves ==
  ASSUME NEW c \in TypedStream
  PROVE  /\ Leaves(c, [c EXCEPT !.tx = {}])
         /\ Alike(c, [c EXCEPT !.tx = {}])
         /\ [c EXCEPT !.tx = {}].state = c.state /\ [c EXCEPT !.tx = {}].outPkt = c.outPkt
<1> DEFINE none == {}
<1>1. PICK d : d = [c EXCEPT !.tx = none]
  OBVIOUS
<1>2. d \in TypedStream
  BY <1>1 DEF TypedStream
<1> HIDE DEF none
<1>3. /\ d.state = c.state /\ d.initOur = c.initOur /\ d.outSeqno = c.outSeqno
      /\ d.outAcked = c.outAcked /\ d.inAckno = c.inAckno
      /\ d.inPkt = c.inPkt /\ d.outPkt = c.outPkt
  BY <1>1, TypedParts DEF Fields
<1>4. Leaves(c, d) /\ Alike(c, d)
  BY <1>2, <1>3 DEF Leaves, Alike
<1> QED BY <1>1, <1>3, <1>4 DEF none

LEMMA UpdateReceipt ==
  ASSUME OpensOnce, Bounded, Bounded', HonestInv, ReceiptInv, NEW e \in Ends,
         NEW c, Since(c, stream[e], MarksOf(e)),
         opens[e] = <<>> => c.tx = {},
         stream' = [stream EXCEPT ![e] = [c EXCEPT !.tx = {}]], opens' = opens,
         net'[e] \subseteq net[e], net'[Peer(e)] \subseteq net[Peer(e)] \cup c.tx
  PROVE  ReceiptInv'
<1>1. c \in TypedStream
  BY DEF Since
<1>2. PICK d : d = [c EXCEPT !.tx = {}]
  OBVIOUS
<1>3. Leaves(c, d)
  BY <1>1, <1>2, TxLeaves
<1>4. stream' = [stream EXCEPT ![e] = d]
  BY <1>2
<1> QED BY ONLY <1>3, <1>4, MethodReceipt, OpensOnce, Bounded, Bounded', HonestInv, ReceiptInv,
         e \in Ends, Since(c, stream[e], MarksOf(e)), opens[e] = <<>> => c.tx = {},
         opens' = opens, net'[e] \subseteq net[e],
         net'[Peer(e)] \subseteq net[Peer(e)] \cup c.tx

(* A method that sends nothing and changes none of the numbers.            *)
LEMMA SwitchReceipt ==
  ASSUME OpensOnce, Bounded, Bounded', HonestInv, ReceiptInv, NEW e \in Ends,
         NEW c, c = stream[e], NEW d \in TypedStream, d.state = c.state, Alike(c, d),
         d.inPkt = c.inPkt, d.outPkt = c.outPkt,
         stream' = [stream EXCEPT ![e] = d], opens' = opens,
         net'[e] \subseteq net[e], net'[Peer(e)] \subseteq net[Peer(e)]
  PROVE  ReceiptInv'
<1>1. Since(c, stream[e], MarksOf(e))
  BY SinceNow
<1>2. c.tx = {}
  BY DEF HonestInv
<1>3. Leaves(c, d)
  BY DEF Leaves
<1> QED BY <1>1, <1>2, <1>3, MethodReceipt

LEMMA TickSince ==
  ASSUME NumbersSuffice, Bounded, HonestInv, ReceiptInv, NEW e \in Ends, NEW t
  PROVE  Since(TickStream(stream[e], t), stream[e], MarksOf(e))
<1>1. PICK k : k = ContextOf(e)
  OBVIOUS
<1>2. PICK m : m = MarksOf(e)
  OBVIOUS
<1>3. /\ k \in Context /\ k.b = First(e) /\ k.w = written[e]
      /\ Fine(stream[e], stream[e], k)
  BY <1>1, ContextFits, FineNow DEF NumbersSuffice
<1>4. m \in Marks /\ m.o = Origin(e) /\ Since(stream[e], stream[e], m)
  BY <1>2, MarksType, SinceNow DEF NumbersSuffice
<1>5. Fits(k, m)
  <2>1. written[e] \in Nat /\ written[e] <= MaxBytes
    BY DEF Bounded, HonestInv
  <2>2. MaxBytes \in Nat /\ MaxBytes + 1 < SeqMod /\ SeqMod \in Nat
    BY BoundsAssumption, Sizes DEF NumbersSuffice
  <2>3. written[e] + 1 < SeqMod
    BY <2>1, <2>2
  <2> QED BY <1>3, <1>4, <2>3 DEF Fits, First, Origin
<1> QED BY <1>2, <1>3, <1>4, <1>5, TickStreamSince

LEMMA TickReceipt ==
  ASSUME NumbersSuffice, Bounded, Bounded', HonestInv, ReceiptInv,
         NEW e \in Ends, NEW t \in Timeouts, Tick(e, t)
  PROVE  ReceiptInv'
<1>1. PICK c : c = TickStream(stream[e], t)
  OBVIOUS
<1>2. /\ stream' = [stream EXCEPT ![e] = [c EXCEPT !.tx = {}]]
      /\ net' = [net EXCEPT ![Peer(e)] = @ \cup c.tx]
      /\ opens' = opens
  BY <1>1 DEF Tick, Update
<1>3. net'[e] \subseteq net[e] /\ net'[Peer(e)] \subseteq net[Peer(e)] \cup c.tx
  BY <1>2, NetGrows
<1>4. OpensOnce
  BY DEF NumbersSuffice
<1>5. opens[e] = <<>> => c.tx = {}
  BY <1>1, <1>4, TickParts DEF Mute
<1>6. Since(c, stream[e], MarksOf(e))
  BY <1>1, TickSince
<1> QED BY <1>2, <1>3, <1>4, <1>5, <1>6, UpdateReceipt

LEMMA CloseReceipt ==
  ASSUME NumbersSuffice, Bounded, Bounded', HonestInv, ReceiptInv,
         NEW e \in Ends, NEW t \in Timeouts, Close(e, t)
  PROVE  ReceiptInv'
<1>1. PICK c : c = TickStream(stream[e], t)
  OBVIOUS
<1>2. PICK d : d = NewStream
  OBVIOUS
<1>3. /\ stream' = [stream EXCEPT ![e] = d]
      /\ net' = [net EXCEPT ![Peer(e)] = @ \cup c.tx]
      /\ opens' = opens
  BY <1>1, <1>2 DEF Close
<1>4. net'[e] \subseteq net[e] /\ net'[Peer(e)] \subseteq net[Peer(e)] \cup c.tx
  BY <1>3, NetGrows
<1>5. OpensOnce
  BY DEF NumbersSuffice
<1>6. opens[e] = <<>> => c.tx = {}
  BY <1>1, <1>5, TickParts DEF Mute
<1>7. Since(c, stream[e], MarksOf(e))
  BY <1>1, TickSince
<1>8. d \in TypedStream
  <2>1. stream'[e] = d
    BY <1>3 DEF Bounded
  <2> QED BY <2>1 DEF Bounded
<1>9. Leaves(c, d)
  BY <1>2, <1>8, NewStreamFields DEF Leaves
<1> QED BY <1>3, <1>4, <1>5, <1>6, <1>7, <1>9, MethodReceipt

LEMMA KnownReceipt ==
  ASSUME OpensOnce, Bounded, Bounded', HonestInv, ReceiptInv, NEW e \in Ends,
         stream' = [stream EXCEPT ![e] = [stream[e] EXCEPT !.known = TRUE]],
         opens' = opens, net' = net
  PROVE  ReceiptInv'
<1> DEFINE yes == TRUE
<1>1. PICK c : c = stream[e]
  OBVIOUS
<1>2. PICK d : d = [c EXCEPT !.known = yes]
  OBVIOUS
<1>3. c \in TypedStream /\ d \in TypedStream
  BY <1>1, <1>2, KnownType DEF Bounded
<1>4. stream' = [stream EXCEPT ![e] = d]
  BY <1>1, <1>2
<1> HIDE DEF yes
<1>5. /\ d.state = c.state /\ d.initOur = c.initOur /\ d.outSeqno = c.outSeqno
      /\ d.outAcked = c.outAcked /\ d.inAckno = c.inAckno
      /\ d.inPkt = c.inPkt /\ d.outPkt = c.outPkt
  BY <1>2, <1>3, TypedParts DEF Fields
<1>6. Alike(c, d)
  BY <1>5 DEF Alike
<1>7. net'[e] \subseteq net[e] /\ net'[Peer(e)] \subseteq net[Peer(e)]
  OBVIOUS
<1> QED BY <1>1, <1>3, <1>4, <1>5, <1>6, <1>7, SwitchReceipt

LEMMA CloseWriteReceipt ==
  ASSUME OpensOnce, Bounded, Bounded', HonestInv, ReceiptInv, NEW e \in Ends, CloseWrite(e)
  PROVE  ReceiptInv'
<1> DEFINE no == FALSE
<1>1. PICK c : c = stream[e]
  OBVIOUS
<1>2. PICK d : d = [c EXCEPT !.outActive = no]
  OBVIOUS
<1>3. c \in TypedStream /\ d \in TypedStream
  BY <1>1, <1>2, OutActiveType DEF Bounded
<1>4. stream' = [stream EXCEPT ![e] = d] /\ opens' = opens /\ net' = net
  BY <1>1, <1>2 DEF CloseWrite
<1> HIDE DEF no
<1>5. /\ d.state = c.state /\ d.initOur = c.initOur /\ d.outSeqno = c.outSeqno
      /\ d.outAcked = c.outAcked /\ d.inAckno = c.inAckno
      /\ d.inPkt = c.inPkt /\ d.outPkt = c.outPkt
  BY <1>2, <1>3, TypedParts DEF Fields
<1>6. Alike(c, d)
  BY <1>5 DEF Alike
<1>7. net'[e] \subseteq net[e] /\ net'[Peer(e)] \subseteq net[Peer(e)]
  BY <1>4
<1> QED BY <1>1, <1>3, <1>4, <1>5, <1>6, <1>7, SwitchReceipt

LEMMA DropReceipt ==
  ASSUME OpensOnce, Bounded, Bounded', HonestInv, ReceiptInv, NEW e \in Ends,
         stream' = stream, opens' = opens,
         net'[e] \subseteq net[e], net'[Peer(e)] \subseteq net[Peer(e)]
  PROVE  ReceiptInv'
<1>1. PICK c : c = stream[e]
  OBVIOUS
<1>2. c \in TypedStream /\ Alike(c, c)
  BY <1>1 DEF Bounded, Alike
<1>3. stream' = [stream EXCEPT ![e] = c]
  BY <1>1 DEF Bounded
<1> QED BY <1>1, <1>2, <1>3, SwitchReceipt

LEMMA ReadReceipt ==
  ASSUME OpensOnce, Bounded, Bounded', HonestInv, ReceiptInv,
         NEW e \in Ends, NEW size \in ReadSizes, Read(e, size)
  PROVE  ReceiptInv'
<1>1. PICK c : c = stream[e]
  OBVIOUS
<1>2. c \in TypedStream /\ c.outQueue \in Seq(Byte) /\ size \in Nat
  BY <1>1, BoundsAssumption DEF Bounded, TypedStream
<1>3. PICK q : q = c.outQueue
  OBVIOUS
<1>4. PICK n : n = IF Len(q) < size THEN Len(q) ELSE size
  OBVIOUS
<1>5. q \in Seq(Byte) /\ n \in 0 .. Len(q)
  BY <1>2, <1>3, <1>4
<1> DEFINE rest == SubSeq(q, n + 1, Len(q))
           d == [c EXCEPT !.outQueue = rest]
<1>6. rest \in Seq(Byte)
  BY <1>5, Rest
<1>7. stream' = [stream EXCEPT ![e] = UpdateInWinSize(d)] /\ opens' = opens /\ net' = net
  BY <1>1, <1>3, <1>4 DEF Read
<1> HIDE DEF rest
<1>8. PICK x : x = d
  OBVIOUS
<1>9. x \in TypedStream
  BY <1>2, <1>6, <1>8, OutQueueType
<1>10. /\ x.state = c.state /\ x.initOur = c.initOur /\ x.outSeqno = c.outSeqno
       /\ x.outAcked = c.outAcked /\ x.inAckno = c.inAckno
       /\ x.inPkt = c.inPkt /\ x.outPkt = c.outPkt /\ x.tx = c.tx
  BY <1>2, <1>8, TypedParts DEF Fields
<1> HIDE DEF d
<1>11. PICK m : m = MarksOf(e)
  OBVIOUS
<1>12. m \in Marks /\ Since(c, stream[e], m)
  BY <1>1, <1>11, MarksType, SinceNow
<1>13. Since(x, stream[e], m)
  <2>1. Alike(c, x)
    BY <1>10 DEF Alike
  <2> QED BY <1>9, <1>10, <1>12, <2>1, SameSince
<1>14. PICK y : y = UpdateInWinSize(x)
  OBVIOUS
<1>15. Since(y, stream[e], m) /\ y.tx = x.tx
  BY <1>12, <1>13, <1>14, UpdateInWinSizeSince
<1>16. x.tx = {}
  BY <1>1, <1>10 DEF HonestInv
<1>17. y.tx = {} /\ y \in TypedStream
  BY <1>15, <1>16 DEF Since
<1>18. y = [y EXCEPT !.tx = {}]
  BY <1>17, NothingSent
<1>19. stream' = [stream EXCEPT ![e] = [y EXCEPT !.tx = {}]]
  BY <1>7, <1>8, <1>14, <1>18
<1>20. net'[e] \subseteq net[e] /\ net'[Peer(e)] \subseteq net[Peer(e)] \cup y.tx
  BY <1>7
<1> QED BY <1>7, <1>11, <1>15, <1>17, <1>19, <1>20, UpdateReceipt

LEMMA WriteReceipt ==
  ASSUME OpensOnce, Bounded, Bounded', HonestInv, ReceiptInv,
         NEW e \in Ends, NEW size \in WriteSizes, Write(e, size)
  PROVE  ReceiptInv'
<1>1. PICK c : c = stream[e]
  OBVIOUS
<1>2. PICK q : q = c.inQueue \o [i \in 1 .. size |-> written[e] + i]
  OBVIOUS
<1>3. PICK d : d = [c EXCEPT !.inQueue = q]
  OBVIOUS
<1>4. stream' = [stream EXCEPT ![e] = d] /\ opens' = opens /\ net' = net
  BY <1>1, <1>2, <1>3 DEF Write
<1>5. c \in TypedStream /\ d \in TypedStream
  <2>1. stream'[e] = d
    BY <1>4 DEF Bounded
  <2> QED BY <1>1, <2>1 DEF Bounded
<1>6. /\ d.state = c.state /\ d.initOur = c.initOur /\ d.outSeqno = c.outSeqno
      /\ d.outAcked = c.outAcked /\ d.inAckno = c.inAckno
      /\ d.inPkt = c.inPkt /\ d.outPkt = c.outPkt
  BY <1>3, <1>5, TypedParts DEF Fields
<1>7. Alike(c, d)
  BY <1>6 DEF Alike
<1>8. net'[e] \subseteq net[e] /\ net'[Peer(e)] \subseteq net[Peer(e)]
  BY <1>4
<1> QED BY <1>1, <1>4, <1>5, <1>6, <1>7, <1>8, SwitchReceipt

(* A stream opens: it was not open before, so the other end has heard      *)
(* nothing and cannot have answered a SYN.                                 *)
LEMMA OpenReceipt ==
  ASSUME OpensOnce, Bounded, Bounded', HonestInv, ReceiptInv, NEW e \in Ends, MayOpen(e),
         NEW ack \in BOOLEAN, NEW c, Blank(c), ack \/ c.known,
         ack => /\ Before(c.inAckno, Origin(Peer(e))) = 1
                /\ 1 <= Top(Peer(e)) /\ TRUE \notin Kinds(Peer(e)),
         NEW s, s = IF ack THEN TCP_SYN_RCVD ELSE TCP_SYN_SENT,
         NEW d, d = [ToSend(InitSeqnos(c, NextIsn(e)), SynPkt(ack), TRUE)
                       EXCEPT !.state = s],
         stream' = [stream EXCEPT ![e] = [d EXCEPT !.tx = {}]],
         opens' = [opens EXCEPT ![e] = Append(@, written[e])],
         net'[e] \subseteq net[e],
         net'[Peer(e)] \subseteq net[Peer(e)] \cup d.tx
  PROVE  ReceiptInv'
<1>1. PICK f : f = Peer(e)
  OBVIOUS
<1>2. f \in Ends /\ f # e /\ Peer(f) = e
  BY <1>1, PeerIsEnd
<1>3. opens[e] = <<>> /\ stream[e].state = TCP_CLOSED
  BY NotOpened
<1>4. NextIsn(e) = Origin(e)
  <2>1. Len(<<>>) + 1 = 1
    OBVIOUS
  <2> QED BY <1>3, <2>1 DEF NextIsn, Origin
<1>5. net[f] = {} /\ stream[f].state # TCP_SYN_RCVD
  <2>1. Unheard(e)
    BY <1>3 DEF Mute, HonestInv
  <2> QED BY <1>1, <2>1, States DEF Unheard
<1>6. PICK m : m = MarksOf(e)
  OBVIOUS
<1>7. /\ m \in Marks /\ m.o = Origin(e) /\ m.po = Origin(f) /\ m.reach = Reach(e)
      /\ m.top = Top(f) /\ m.pkinds = Kinds(f)
  BY <1>1, <1>6, MarksType
<1>8. PICK n : n = [o |-> m.o, reach |-> m.reach, kinds |-> {ack},
                    po |-> m.po, top |-> m.top, pkinds |-> m.pkinds]
  OBVIOUS
<1>9. /\ n \in Marks /\ n.o = m.o /\ n.po = m.po /\ n.reach = m.reach
      /\ n.top = m.top /\ n.pkinds = m.pkinds /\ n.kinds = {ack}
  <2>1. {ack} \in SUBSET BOOLEAN
    OBVIOUS
  <2> QED BY <1>7, <1>8, <2>1 DEF Marks
<1>10. d \in TypedStream /\ Careful(d, n) /\ Started(d, n, ack, s) /\ d.state = s
  <2>1. /\ NextIsn(e) = n.o
        /\ d = [ToSend(InitSeqnos(c, NextIsn(e)), SynPkt(ack), TRUE) EXCEPT !.state = s]
    BY <1>4, <1>7, <1>9
  <2>2. MayStart(c, n, ack)
    BY <1>1, <1>7, <1>9 DEF MayStart
  <2>3. /\ n \in Marks /\ ack \in BOOLEAN /\ Blank(c)
        /\ (ack \/ c.known) /\ s = IF ack THEN TCP_SYN_RCVD ELSE TCP_SYN_SENT
    BY <1>9
  <2>4. d \in TypedStream /\ Careful(d, n) /\ Started(d, n, ack, s)
    BY ONLY <2>1, <2>2, <2>3, OpeningCareful
  <2> QED BY ONLY <2>4 DEF Started
<1>11. PICK tx : tx = d.tx
  OBVIOUS
<1>12. PICK x : x = [d EXCEPT !.tx = {}]
  OBVIOUS
<1>13. Leaves(d, x) /\ Alike(d, x) /\ x.state = d.state /\ x.outPkt = d.outPkt
  BY <1>10, <1>12, TxLeaves
<1>14. Careful(x, n)
  BY <1>9, <1>10, <1>13, LeftCareful
<1>15. s \in {TCP_SYN_SENT, TCP_SYN_RCVD} /\ s # TCP_CLOSED
  BY States
<1>16. /\ x \in TypedStream /\ x.state = s /\ x.outPkt = d.outPkt
       /\ x.outSeqno = d.outSeqno /\ x.inAckno = d.inAckno
  BY ONLY <1>10, <1>13, <1>15 DEF Leaves, Alike
<1>17. Live(x) /\ Opening(x) /\ (Heard(x) <=> s # TCP_SYN_SENT)
  BY <1>15, <1>16, LiveStates
<1>18. PICK begun : begun = TRUE
  OBVIOUS
<1>19. SentTo(x, begun, Origin(e)) = Before(d.outSeqno, n.o)
  BY <1>7, <1>9, <1>16, <1>17 DEF SentTo
<1>20. GotTo(x, begun, Origin(f)) = Gained(d, n.po)
  <2>1. CASE s = TCP_SYN_SENT
    BY <1>10, <1>17, <2>1 DEF GotTo, Gained
  <2>2. CASE s # TCP_SYN_SENT
    BY <1>7, <1>9, <1>10, <1>16, <1>17, <2>2 DEF GotTo, Gained
  <2> QED BY <2>1, <2>2
<1>21. \A p \in tx : /\ p \in ShortPacket
                     /\ Placed(p, Origin(e), SentTo(x, begun, Origin(e)))
                     /\ Acks(p, Origin(f), GotTo(x, begun, Origin(f)))
                     /\ p.syn /\ p.ack = ack
  <2> TAKE p \in tx
  <2>1. /\ p \in ShortPacket /\ Placed(p, n.o, Before(d.outSeqno, n.o))
        /\ Acks(p, n.po, Gained(d, n.po)) /\ p.syn /\ p.ack = ack
    BY ONLY <1>10, <1>11 DEF OwnPackets, Started
  <2> QED BY <1>7, <1>9, <1>19, <1>20, <2>1
<1>22. Top(e) <= SentTo(x, begun, Origin(e)) /\ Reach(f) <= GotTo(x, begun, Origin(f))
  <2>1. ~Live(stream[e]) /\ ~Heard(stream[e])
    BY <1>3, LiveStates
  <2>2. Top(e) = 0
    BY <1>3, <2>1 DEF Top, SentTo
  <2>3. Reach(f) = 0
    BY <1>2, <1>3, <2>1 DEF Reach, GotTo
  <2>4. Before(d.outSeqno, n.o) \in Nat /\ Gained(d, n.po) \in Nat
    BY <1>9, <1>10, NumberFacts
  <2> QED BY ONLY <1>19, <1>20, <2>2, <2>3, <2>4
<1>23. PICK kinds : kinds = SynKinds(net'[f], x.outPkt)
  OBVIOUS
<1>24. kinds \subseteq {ack}
  <2> SUFFICES ASSUME NEW k \in kinds PROVE k = ack
    OBVIOUS
  <2>1. x.outPkt \in Seq(ShortOut)
    BY <1>16 DEF TypedStream
  <2>2. \/ \E p \in net'[f] : p.syn /\ p.ack = k
        \/ \E i \in 1 .. Len(x.outPkt) : x.outPkt[i].pkt.syn /\ x.outPkt[i].pkt.ack = k
    BY <1>23, <2>1, SynKindsAre
  <2>3. net'[f] \subseteq tx
    BY <1>1, <1>5, <1>11
  <2>4. ASSUME NEW p \in net'[f], p.ack = k PROVE k = ack
    BY ONLY <1>21, <2>3, <2>4
  <2>5. ASSUME NEW i \in 1 .. Len(x.outPkt), x.outPkt[i].pkt.syn, x.outPkt[i].pkt.ack = k
        PROVE  k = ack
    BY ONLY <1>10, <1>16, <2>5 DEF Started
  <2> QED BY ONLY <2>2, <2>4, <2>5
<1>25. kinds \in {{}, {TRUE}, {FALSE}}
  BY <1>24
<1>26. stream' = [stream EXCEPT ![e] = x]
  BY <1>12
<1>27. opens'[f] = opens[f] /\ opens'[e] # <<>>
  <2>1. DOMAIN opens = Ends
    BY DEF Bounded
  <2>2. opens'[e] = Append(<<>>, written[e])
    BY <1>3, <2>1
  <2>3. Append(<<>>, written[e]) # <<>>
    OBVIOUS
  <2> QED BY <1>2, <2>1, <2>2, <2>3
<1>28. net'[f] \subseteq net[f] \cup tx
  BY <1>1, <1>11
<1>29. begun \in BOOLEAN /\ (begun <=> opens'[e] # <<>>)
  BY <1>18, <1>27
<1>30. /\ n.o = Origin(e) /\ n.po = Origin(f) /\ n.reach = Reach(e)
       /\ n.top = Top(f) /\ n.pkinds = Kinds(f)
  BY <1>7, <1>9
<1>31. SynKinds(net'[f], x.outPkt) = kinds
  BY <1>23
<1>32. kinds \subseteq Kinds(e) \/ stream[f].state # TCP_SYN_RCVD
  BY <1>5
<1>33. /\ OpensOnce /\ Bounded /\ Bounded' /\ ReceiptInv /\ e \in Ends
       /\ net'[e] \subseteq net[e]
  OBVIOUS
<1> QED BY ONLY <1>1, <1>9, <1>14, <1>21, <1>22, <1>25, <1>26, <1>27, <1>28, <1>29, <1>30,
          <1>31, <1>32, <1>33, GrowStep

LEMMA ConnectReceipt ==
  ASSUME OpensOnce, Bounded, Bounded', HonestInv, ReceiptInv, NEW e \in Ends, Connect(e)
  PROVE  ReceiptInv'
<1> DEFINE yes == TRUE
<1>1. PICK c : c = [stream[e] EXCEPT !.known = yes]
  OBVIOUS
<1>2. stream[e] \in TypedStream /\ c \in TypedStream
  BY <1>1, KnownType DEF Bounded
<1>3. yes
  OBVIOUS
<1>4. /\ IF c.state = TCP_CLOSED
           THEN /\ MayOpen(e)
                /\ opens' = [opens EXCEPT ![e] = Append(@, written[e])]
                /\ Update(e, [ToSend(InitSeqnos(c, NextIsn(e)), SynPkt(FALSE), TRUE)
                                EXCEPT !.state = TCP_SYN_SENT])
           ELSE Update(e, c) /\ UNCHANGED <<opens, received>>
  BY <1>1 DEF Connect
<1> HIDE DEF yes
<1>5. /\ c.state = stream[e].state /\ c.known = yes
      /\ c.inQueue = stream[e].inQueue /\ c.outQueue = stream[e].outQueue
      /\ c.inPkt = stream[e].inPkt /\ c.outPkt = stream[e].outPkt
      /\ c.tx = stream[e].tx
  BY <1>1, <1>2, TypedParts DEF Fields
<1>6. CASE c.state = TCP_CLOSED
  <2>1. PICK d : d = [ToSend(InitSeqnos(c, NextIsn(e)), SynPkt(FALSE), TRUE)
                        EXCEPT !.state = TCP_SYN_SENT]
    OBVIOUS
  <2>2. /\ MayOpen(e)
        /\ opens' = [opens EXCEPT ![e] = Append(@, written[e])]
        /\ Update(e, d)
    BY <1>4, <1>6, <2>1
  <2>3. Blank(c)
    BY <1>2, <1>5, <2>2, NotOpened DEF Blank
  <2>4. /\ stream' = [stream EXCEPT ![e] = [d EXCEPT !.tx = {}]]
        /\ net' = [net EXCEPT ![Peer(e)] = @ \cup d.tx]
    BY <2>2 DEF Update
  <2>5. net'[e] \subseteq net[e] /\ net'[Peer(e)] \subseteq net[Peer(e)] \cup d.tx
    BY <2>4, NetGrows
  <2>6. PICK ack : ack = FALSE
    OBVIOUS
  <2>7. PICK s : s = TCP_SYN_SENT
    OBVIOUS
  <2>8. /\ ack \in BOOLEAN /\ (ack \/ c.known)
        /\ ack => /\ Before(c.inAckno, Origin(Peer(e))) = 1
                  /\ 1 <= Top(Peer(e)) /\ TRUE \notin Kinds(Peer(e))
        /\ s = IF ack THEN TCP_SYN_RCVD ELSE TCP_SYN_SENT
        /\ d = [ToSend(InitSeqnos(c, NextIsn(e)), SynPkt(ack), TRUE) EXCEPT !.state = s]
    BY <1>3, <1>5, <2>1, <2>6, <2>7
  <2>9. OpensOnce /\ Bounded /\ HonestInv /\ ReceiptInv /\ Bounded' /\ e \in Ends
    OBVIOUS
  <2> QED BY ONLY <2>2, <2>3, <2>4, <2>5, <2>8, <2>9, OpenReceipt
<1>7. CASE c.state # TCP_CLOSED
  <2>1. Update(e, c) /\ opens' = opens
    BY <1>4, <1>7
  <2>2. c.tx = {}
    BY <1>5 DEF HonestInv
  <2>3. c = [c EXCEPT !.tx = {}]
    BY <1>2, <2>2, NothingSent
  <2>4. /\ stream' = [stream EXCEPT ![e] = [c EXCEPT !.tx = {}]]
        /\ net' = [net EXCEPT ![Peer(e)] = @ \cup c.tx]
    BY <2>1 DEF Update
  <2>5. net' = net
    BY <2>2, <2>4 DEF Bounded
  <2>6. stream' = [stream EXCEPT ![e] = [stream[e] EXCEPT !.known = TRUE]]
    BY <1>1, <2>3, <2>4 DEF yes
  <2> QED BY <2>1, <2>5, <2>6, KnownReceipt
<1> QED BY <1>6, <1>7

LEMMA RecvPktReceipt ==
  ASSUME OpensOnce, Bounded, Bounded', HonestInv, ReceiptInv,
         NEW e \in Ends, NEW p \in net[e], NEW again \in BOOLEAN, RecvPkt(e, p, again)
  PROVE  ReceiptInv'
<1> DEFINE genSeq == TakesIsn(stream[e], p)
           isn == IF genSeq THEN NextIsn(e) ELSE 0
           c == HandleIncoming(stream[e], p, isn)
<1>1. /\ stream' = [stream EXCEPT ![e] = [c EXCEPT !.tx = {}]]
      /\ net' = [net EXCEPT ![Peer(e)] = @ \cup c.tx,
                            ![e] = IF again THEN @ ELSE @ \ {p}]
      /\ opens' = [opens EXCEPT ![e] = IF genSeq THEN Append(@, written[e]) ELSE @]
      /\ genSeq => MayOpen(e)
  BY DEF RecvPkt
<1> HIDE DEF c
<1>2. net'[e] \subseteq net[e] /\ net'[Peer(e)] \subseteq net[Peer(e)] \cup c.tx
  <2>1. DOMAIN net = Ends /\ Peer(e) \in Ends /\ Peer(e) # e
    BY PeerIsEnd DEF Bounded
  <2> QED BY <1>1, <2>1
<1>3. PICK m : m = MarksOf(e)
  OBVIOUS
<1>4. /\ m \in Marks /\ m.po = Origin(Peer(e)) /\ m.top = Top(Peer(e))
      /\ m.pkinds = Kinds(Peer(e))
  BY <1>3, MarksType
<1>5. p \in PeerPackets(m) /\ p \in ShortPacket
  BY <1>3 DEF ReceiptInv, Bounded
<1>6. p.syn => p.ack \in Kinds(Peer(e))
  <2>1. Peer(e) \in Ends /\ Peer(Peer(e)) = e
    BY PeerIsEnd
  <2>2. stream[Peer(e)].outPkt \in Seq(ShortOut)
    BY <2>1 DEF Bounded, TypedStream
  <2> QED BY <2>1, <2>2, SynKindsAre DEF Kinds
<1>7. CASE genSeq
  <2>1. MayOpen(e) /\ p.syn /\ ~p.ack
    BY <1>1, <1>7 DEF TakesIsn
  <2>2. stream[e].state = TCP_CLOSED /\ Blank(stream[e])
    BY <2>1, NotOpened
  <2>3. c = HandleIncoming(stream[e], p, NextIsn(e))
    BY <1>7 DEF c
  <2>4. PICK d : /\ Blank(d) /\ d.inAckno = SeqAdd(p.seqno, 1)
                 /\ c = [ToSend(InitSeqnos(d, NextIsn(e)), SynPkt(TRUE), TRUE)
                           EXCEPT !.state = TCP_SYN_RCVD]
    <3>1. PICK d : /\ Blank(d) /\ d.inAckno = SeqAdd(p.seqno, 1)
                   /\ HandleIncoming(stream[e], p, NextIsn(e)) =
                        [ToSend(InitSeqnos(d, NextIsn(e)), SynPkt(TRUE), TRUE)
                           EXCEPT !.state = TCP_SYN_RCVD]
      BY ONLY ZenonT(60), <1>5, <2>1, <2>2, AnsweredSyn
    <3> QED BY ONLY <2>3, <3>1
  <2>5. Before(d.inAckno, Origin(Peer(e))) = 1 /\ 1 <= Top(Peer(e))
    BY <1>4, <1>5, <2>1, <2>4, SynHeard
  <2>6. TRUE \notin Kinds(Peer(e))
    <3>1. p.ack \in BOOLEAN
      BY <1>5, ShortPacketParts
    <3>2. FALSE \in Kinds(Peer(e))
      BY <1>6, <2>1, <3>1
    <3>3. Kinds(Peer(e)) \in {{}, {TRUE}, {FALSE}}
      BY PeerIsEnd DEF ReceiptInv
    <3> QED BY <3>2, <3>3
  <2>7. PICK ack : ack = TRUE
    OBVIOUS
  <2>8. PICK s : s = TCP_SYN_RCVD
    OBVIOUS
  <2>9. PICK x : x = c
    OBVIOUS
  <2>10. /\ stream' = [stream EXCEPT ![e] = [x EXCEPT !.tx = {}]]
         /\ opens' = [opens EXCEPT ![e] = Append(@, written[e])]
    BY <1>1, <1>7, <2>9
  <2>11. x = [ToSend(InitSeqnos(d, NextIsn(e)), SynPkt(ack), TRUE) EXCEPT !.state = s]
    BY <2>4, <2>7, <2>8, <2>9
  <2>12. /\ ack \in BOOLEAN /\ (ack \/ d.known)
         /\ s = IF ack THEN TCP_SYN_RCVD ELSE TCP_SYN_SENT
    BY <2>7, <2>8
  <2>13. net'[e] \subseteq net[e] /\ net'[Peer(e)] \subseteq net[Peer(e)] \cup x.tx
    BY <1>2, <2>9
  <2>14. OpensOnce /\ Bounded /\ HonestInv /\ ReceiptInv /\ Bounded' /\ e \in Ends
    OBVIOUS
  <2> QED BY ONLY <2>1, <2>4, <2>5, <2>6, <2>10, <2>11, <2>12, <2>13, <2>14, OpenReceipt
<1>8. CASE ~genSeq
  <2>1. opens' = opens
    BY <1>1, <1>8 DEF Bounded
  <2>2. PICK c0 : c0 = stream[e]
    OBVIOUS
  <2>3. Since(c0, c0, m)
    BY <1>3, <2>2, SinceNow
  <2>4. c0.state \notin {TCP_LISTEN, TCP_TIMED_WAIT}
    BY <2>2 DEF HonestInv, SendsHonest
  <2>5. PICK x : x = c
    OBVIOUS
  <2>6. x = HandleIncoming(c0, p, isn) /\ ~TakesIsn(c0, p)
    BY <1>8, <2>2, <2>5 DEF c
  <2>7. p.syn => p.ack \in m.pkinds
    BY <1>4, <1>6
  <2>8. Since(x, c0, m)
    BY ONLY <1>4, <1>5, <2>3, <2>4, <2>6, <2>7, HandleIncomingSince
  <2>9. opens[e] = <<>> => x.tx = {}
    <3>1. opens[e] = <<>> => x = stream[e]
      BY <2>2, <2>6, MuteIgnores DEF Mute
    <3> QED BY <3>1 DEF HonestInv
  <2>10. /\ stream' = [stream EXCEPT ![e] = [x EXCEPT !.tx = {}]]
         /\ net'[e] \subseteq net[e] /\ net'[Peer(e)] \subseteq net[Peer(e)] \cup x.tx
    BY <1>1, <1>2, <2>5
  <2>11. /\ OpensOnce /\ Bounded /\ HonestInv /\ ReceiptInv /\ Bounded' /\ e \in Ends
         /\ Since(x, stream[e], MarksOf(e))
    BY <1>3, <2>2, <2>8
  <2> QED BY ONLY <2>1, <2>9, <2>10, <2>11, UpdateReceipt
<1> QED BY <1>7, <1>8

LEMMA InitReceipt == OpensOnce /\ Init => ReceiptInv
<1> SUFFICES ASSUME OpensOnce, Init PROVE ReceiptInv
  OBVIOUS
<1>1. \A e \in Ends : stream[e] = NewStream /\ net[e] = {} /\ opens[e] = <<>>
  BY DEF Init
<1>2. \A e \in Ends : stream[e].outPkt = <<>> /\ stream[e].inPkt = <<>>
                      /\ stream[e].state = TCP_CLOSED
  BY <1>1, NewStreamFields
<1>3. \A e \in Ends : Kinds(e) = {}
  <2> TAKE e \in Ends
  <2>1. Peer(e) \in Ends
    BY PeerIsEnd
  <2>2. <<>> \in Seq(ShortOut) /\ Len(<<>>) = 0 /\ 1 .. 0 = {}
    OBVIOUS
  <2>3. ASSUME NEW k PROVE k \notin SynKinds({}, <<>>)
    BY <2>2, SynKindsAre
  <2> QED BY <1>1, <1>2, <2>1, <2>3 DEF Kinds
<1>4. \A e \in Ends : Careful(stream[e], MarksOf(e))
  <2> TAKE e \in Ends
  <2>1. PICK c : c = stream[e]
    OBVIOUS
  <2>2. PICK m : m = MarksOf(e)
    OBVIOUS
  <2>3. c.outPkt = <<>> /\ c.inPkt = <<>> /\ c.state = TCP_CLOSED
    BY <1>2, <2>1
  <2>4. <<>> \in Seq(OwnOut(c, m)) /\ <<>> \in Seq(PeerPackets(m))
    OBVIOUS
  <2>5. /\ ~Live(c) /\ ~Heard(c) /\ ~Opened(c)
        /\ c.state # TCP_SYN_SENT /\ c.state # TCP_SYN_RCVD
    BY <2>3, LiveStates, States
  <2>6. Careful(c, m)
    BY <2>3, <2>4, <2>5 DEF Careful
  <2> QED BY <2>1, <2>2, <2>6
<1>5. \A e \in Ends : net[e] \subseteq PeerPackets(MarksOf(e))
  BY <1>1
<1> QED BY <1>3, <1>4, <1>5 DEF ReceiptInv

LEMMA NextReceipt ==
  ASSUME NumbersSuffice, Bounded, HonestInv, ReceiptInv, Bounded', [Next]_vars
  PROVE  ReceiptInv'
<1>once. OpensOnce
  BY DEF NumbersSuffice
<1>1. ASSUME NEW e \in Ends, AddUdpPeer(e) PROVE ReceiptInv'
  BY <1>once, <1>1, DropReceipt DEF AddUdpPeer
<1>2. ASSUME NEW e \in Ends, Connect(e) PROVE ReceiptInv'
  BY <1>once, <1>2, ConnectReceipt
<1>3. ASSUME NEW e \in Ends, ListenFor(e) PROVE ReceiptInv'
  <2>1. stream' = [stream EXCEPT ![e] = [stream[e] EXCEPT !.known = TRUE]]
    BY <1>3 DEF ListenFor
  <2> QED BY <1>once, <1>3, <2>1, KnownReceipt DEF ListenFor
<1>4. ASSUME NEW e \in Ends, NEW size \in WriteSizes, Write(e, size) PROVE ReceiptInv'
  BY <1>once, <1>4, WriteReceipt
<1>5. ASSUME NEW e \in Ends, NEW size \in ReadSizes, Read(e, size) PROVE ReceiptInv'
  BY <1>once, <1>5, ReadReceipt
<1>6. ASSUME NEW e \in Ends, CloseWrite(e) PROVE ReceiptInv'
  BY <1>once, <1>6, CloseWriteReceipt
<1>7. ASSUME NEW e \in Ends, NEW t \in Timeouts, Tick(e, t) PROVE ReceiptInv'
  BY <1>7, TickReceipt
<1>8. ASSUME NEW e \in Ends, NEW t \in Timeouts, Close(e, t) PROVE ReceiptInv'
  BY <1>8, CloseReceipt
<1>9. ASSUME NEW e \in Ends, NEW p \in net[e], NEW again \in BOOLEAN, RecvPkt(e, p, again)
      PROVE  ReceiptInv'
  BY <1>once, <1>9, RecvPktReceipt
<1>10. ASSUME NEW e \in Ends, NEW p, UNCHANGED <<stream, opens>>,
              net' = [net EXCEPT ![e] = @ \ {p}]
       PROVE  ReceiptInv'
  <2>1. net'[e] \subseteq net[e] /\ net'[Peer(e)] \subseteq net[Peer(e)]
    BY <1>10, PeerIsEnd DEF Bounded
  <2> QED BY <1>once, <1>10, <2>1, DropReceipt
<1>11. ASSUME NEW e \in Ends, NEW p \in net[e], Unclaimed(e, p) PROVE ReceiptInv'
  BY <1>10, <1>11 DEF Unclaimed
<1>12. ASSUME NEW e \in Ends, NEW p \in net[e], Lose(e, p) PROVE ReceiptInv'
  BY <1>10, <1>12 DEF Lose
<1>13. CASE UNCHANGED vars
  <2>1. 1 \in Ends /\ UNCHANGED <<stream, net, opens>>
    BY <1>13 DEF vars, Ends
  <2> QED BY <1>once, <2>1, DropReceipt
<1> QED BY <1>1, <1>2, <1>3, <1>4, <1>5, <1>6, <1>7, <1>8, <1>9, <1>11, <1>12, <1>13
        DEF Next

(* Both ends of a linked pair are live, so the numbers are those of the    *)
(* present stream: what has been taken as acknowledged is at most what has *)
(* been received, and that is at most what has been sent.                  *)
LEMMA ReceiptHolds ==
  OpensOnce /\ Bounded /\ ReceiptInv => AcksAreReceipts
<1> SUFFICES ASSUME OpensOnce, Bounded, ReceiptInv, NEW e \in Ends, Linked(e)
             PROVE  /\ Before(stream[e].outAcked, stream[e].initOur)
                         <= Before(stream[Peer(e)].inAckno, stream[e].initOur)
                    /\ Before(stream[Peer(e)].inAckno, stream[e].initOur)
                         <= Before(stream[e].outSeqno, stream[e].initOur)
  BY DEF AcksAreReceipts, Before
<1>1. PICK f : f = Peer(e)
  OBVIOUS
<1>2. f \in Ends /\ Peer(f) = e
  BY <1>1, PeerIsEnd
<1>3. PICK c : c = stream[e]
  OBVIOUS
<1>4. PICK d : d = stream[f]
  OBVIOUS
<1>5. Opened(c) /\ Opened(d)
  BY <1>1, <1>3, <1>4 DEF Linked, Opened
<1>6. Live(c) /\ Heard(c) /\ Live(d) /\ Heard(d)
  BY <1>5, LiveStates
<1>7. Careful(c, MarksOf(e)) /\ Careful(d, MarksOf(f))
  BY <1>2, <1>3, <1>4 DEF ReceiptInv
<1>8. /\ MarksOf(e).o = Origin(e) /\ MarksOf(e).reach = Reach(e)
      /\ MarksOf(f).po = Origin(e) /\ MarksOf(f).top = Top(e)
  BY <1>2, MarksType
<1>9. c.initOur = Origin(e) /\ Before(c.outAcked, Origin(e)) <= Reach(e)
  BY <1>6, <1>7, <1>8 DEF Careful
<1>10. Before(d.inAckno, Origin(e)) <= Top(e)
  BY <1>6, <1>7, <1>8 DEF Careful
<1>11. Reach(e) = Before(d.inAckno, Origin(e))
  BY <1>1, <1>4, <1>6 DEF Reach, GotTo
<1>12. Top(e) = Before(c.outSeqno, Origin(e))
  BY <1>3, <1>6 DEF Top, SentTo
<1> QED BY <1>1, <1>3, <1>4, <1>9, <1>10, <1>11, <1>12

(* What a TcpStream has taken as acknowledged its peer has received, and   *)
(* nothing is received that was not sent, although the ackno of any packet *)
(* inside the window is taken as it comes (incoming_Established).          *)
THEOREM StreamAcksAreReceipts == NumbersSuffice => (Spec => []AcksAreReceipts)
<1> SUFFICES ASSUME NumbersSuffice PROVE Spec => []AcksAreReceipts
  OBVIOUS
<1>once. OpensOnce
  BY DEF NumbersSuffice
<1>1. Init => Bounded /\ HonestInv /\ ReceiptInv
  BY <1>once, InitBounded, InitHonest, InitReceipt
<1>2. Bounded /\ HonestInv /\ ReceiptInv /\ [Next]_vars => Bounded' /\ HonestInv' /\ ReceiptInv'
  BY <1>once, NextBounded, NextHonest, NextReceipt
<1>3. Bounded /\ HonestInv /\ ReceiptInv => AcksAreReceipts
  BY <1>once, ReceiptHolds
<1> QED BY <1>1, <1>2, <1>3, PTL DEF Spec
=============================================================================
