--------------------------- MODULE TcpKeptProofs ---------------------------
(***************************************************************************)
(* That nothing is forgotten by a TcpStream: a byte that is written is     *)
(* kept until it is delivered, though acknowledge() drops a packet as soon *)
(* as an acknowledgement is past its first byte.  What saves the rest of   *)
(* the packet is that acknowledgements only ever fall between packets,     *)
(* for as long as the streams live; so the invariant is about the cuts     *)
(* between packets.  Goes on from ReceiptInv of TcpReceiptsProofs.         *)
(*                                                                         *)
(* And that flow control does its work: what waits to be read is bounded,  *)
(* and what is sent keeps within the windows.  That invariant, PaceInv, is *)
(* about where windows end.                                                *)
(***************************************************************************)
EXTENDS TcpReceiptsProofs

(* "Old" is a matter of half the sequence numbers: no more are used.       *)
HalfSuffices == OpensOnce /\ 2 * (MaxBytes + 1) < SeqMod

(***************************************************************************)
(* Cuts                                                                    *)
(***************************************************************************)

(* Where the data of p lie in the stream with the origin o.                *)
From(p, o) == Before(p.seqno, o)
To(p, o) == Before(p.seqno, o) + Len(p.data)

(* The places at which a stream is cut into packets.                       *)
Cuts == {own \in SUBSET Nat : {0, 1} \subseteq own}

(* p lies between two cuts of its stream, with none inside.                *)
Intact(p, o, own) ==
    /\ From(p, o) \in own /\ To(p, o) \in own /\ To(p, o) < SeqMod
    /\ \A x \in own : x <= From(p, o) \/ To(p, o) <= x

(* And it acknowledges the other stream, with the origin po, up to a cut.  *)
Neat(o, own, po, peers) ==
    {p \in ShortPacket : /\ Intact(p, o, own)
                         /\ p.ack => Before(p.ackno, po) \in peers}

NeatOwn(m, own, peers) == Neat(m.o, own, m.po, peers)
NeatPeer(m, own, peers) == Neat(m.po, peers, m.o, own)
NeatOut(m, own, peers) == [pkt : NeatOwn(m, own, peers), retrans : Nat]

(* Some packet of q holds the x-th number of the stream.                   *)
Covered(x, q, o) ==
    \E i \in 1 .. Len(q) : From(q[i].pkt, o) <= x /\ x < To(q[i].pkt, o)

(* c keeps all that it has sent and the other end has not received.        *)
Holds(c, m) ==
    \A x \in Nat : 1 <= x /\ x < Before(c.outSeqno, m.o) /\ m.reach <= x =>
                     Covered(x, c.outPkt, m.o)

(* The invariant for one end: own are the cuts in what it sends, peers     *)
(* those in what it is sent.  The last of its own cuts is where it is.     *)
Tidy(c, m, own, peers) ==
    /\ c.outPkt \in Seq(NeatOut(m, own, peers))
    /\ c.inPkt \in Seq(NeatPeer(m, own, peers))
    /\ c.tx \subseteq NeatOwn(m, own, peers)
    /\ Live(c) => /\ Before(c.outSeqno, m.o) \in own
                  /\ Before(c.outAcked, m.o) \in own
                  /\ \A x \in own : x <= 1 \/ x <= Before(c.outSeqno, m.o)
                  /\ Holds(c, m)
    /\ Opening(c) => Before(c.outSeqno, m.o) <= 1
    /\ Heard(c) => Before(c.inAckno, m.po) \in peers

LEMMA NeatFacts ==
  ASSUME NEW o \in SeqNum, NEW po \in SeqNum, NEW own \in Cuts, NEW peers \in Cuts,
         NEW p \in Neat(o, own, po, peers)
  PROVE  /\ p \in ShortPacket /\ p.seqno \in SeqNum /\ p.ackno \in SeqNum
         /\ Len(p.data) \in Nat /\ From(p, o) \in Nat /\ To(p, o) \in Nat
         /\ From(p, o) \in own /\ To(p, o) \in own
         /\ SeqAdd(p.seqno, Len(p.data)) \in SeqNum
         /\ Before(SeqAdd(p.seqno, Len(p.data)), o) \in own
         /\ p.ack => Before(p.ackno, po) \in peers
<1>1. p \in ShortPacket /\ Intact(p, o, own) /\ (p.ack => Before(p.ackno, po) \in peers)
  BY DEF Neat
<1>2. p.seqno \in SeqNum /\ p.ackno \in SeqNum /\ Len(p.data) \in Nat
      /\ From(p, o) \in Nat
  BY <1>1, PacketFacts DEF From
<1>3. /\ From(p, o) \in own /\ To(p, o) \in own /\ To(p, o) \in Nat
      /\ Before(p.seqno, o) + Len(p.data) < SeqMod
  BY <1>1, <1>2 DEF Intact, From, To
<1>4. Before(SeqAdd(p.seqno, Len(p.data)), o) = To(p, o)
  BY <1>2, <1>3, BeforeSum DEF To
<1>5. Len(p.data) \in 0 .. SeqMod
  BY <1>2, <1>3, Sizes DEF From
<1> QED BY <1>1, <1>2, <1>3, <1>4, <1>5, SeqAddType

(* The cuts that a stream gets as it goes on.                              *)
Continues(a, b) == a \subseteq b /\ \A x \in a, y \in b \ a : x <= y

LEMMA NeatWider ==
  ASSUME NEW o \in SeqNum, NEW po \in SeqNum, NEW own \in Cuts, NEW peers \in Cuts,
         NEW own2 \in Cuts, NEW peers2 \in Cuts,
         Continues(own, own2), peers \subseteq peers2
  PROVE  Neat(o, own, po, peers) \subseteq Neat(o, own2, po, peers2)
<1> SUFFICES ASSUME NEW p \in Neat(o, own, po, peers)
             PROVE  p \in Neat(o, own2, po, peers2)
  OBVIOUS
<1>1. p \in ShortPacket /\ Intact(p, o, own) /\ (p.ack => Before(p.ackno, po) \in peers)
  BY DEF Neat
<1>2. Intact(p, o, own2)
  BY <1>1 DEF Intact, Continues
<1> QED BY <1>1, <1>2 DEF Neat

(* For one end, its own cuts and the other end's.                          *)
LEMMA TidyTypes ==
  ASSUME NEW m \in Marks, NEW own \in Cuts, NEW peers \in Cuts
  PROVE  /\ m.o \in SeqNum /\ m.po \in SeqNum
         /\ own \subseteq Nat /\ 0 \in own /\ 1 \in own
         /\ peers \subseteq Nat /\ 0 \in peers /\ 1 \in peers
         /\ NeatOwn(m, own, peers) \subseteq ShortPacket
         /\ NeatPeer(m, own, peers) \subseteq ShortPacket
         /\ NeatOut(m, own, peers) \subseteq ShortOut
  BY DEF Marks, Cuts, NeatOwn, NeatPeer, NeatOut, Neat, ShortOut

LEMMA NeatAllWider ==
  ASSUME NEW m \in Marks, NEW own \in Cuts, NEW peers \in Cuts,
         NEW own2 \in Cuts, NEW peers2 \in Cuts,
         Continues(own, own2), Continues(peers, peers2)
  PROVE  /\ NeatOwn(m, own, peers) \subseteq NeatOwn(m, own2, peers2)
         /\ NeatPeer(m, own, peers) \subseteq NeatPeer(m, own2, peers2)
         /\ Seq(NeatOut(m, own, peers)) \subseteq Seq(NeatOut(m, own2, peers2))
         /\ Seq(NeatPeer(m, own, peers)) \subseteq Seq(NeatPeer(m, own2, peers2))
<1>1. own \subseteq own2 /\ peers \subseteq peers2
  BY DEF Continues
<1>2. NeatOwn(m, own, peers) \subseteq NeatOwn(m, own2, peers2)
  BY <1>1, TidyTypes, NeatWider DEF NeatOwn
<1>3. NeatPeer(m, own, peers) \subseteq NeatPeer(m, own2, peers2)
  BY <1>1, TidyTypes, NeatWider DEF NeatPeer
<1>4. NeatOut(m, own, peers) \subseteq NeatOut(m, own2, peers2)
  BY <1>2 DEF NeatOut
<1> QED BY <1>2, <1>3, <1>4, SeqMonotonic

LEMMA SameCuts ==
  ASSUME NEW own \in Cuts
  PROVE  Continues(own, own)
  BY DEF Continues

(* What the other end sends cuts its stream further.                       *)
LEMMA TidyWider ==
  ASSUME NEW m \in Marks, NEW own \in Cuts, NEW peers \in Cuts, NEW peers2 \in Cuts,
         NEW c, Tidy(c, m, own, peers), Continues(peers, peers2)
  PROVE  Tidy(c, m, own, peers2)
<1>1. /\ NeatOwn(m, own, peers) \subseteq NeatOwn(m, own, peers2)
      /\ Seq(NeatOut(m, own, peers)) \subseteq Seq(NeatOut(m, own, peers2))
      /\ Seq(NeatPeer(m, own, peers)) \subseteq Seq(NeatPeer(m, own, peers2))
  BY SameCuts, NeatAllWider
<1>2. peers \subseteq peers2
  BY DEF Continues
<1> QED BY <1>1, <1>2 DEF Tidy

(* And it receives more.                                                   *)
LEMMA TidyReached ==
  ASSUME NEW m \in Marks, NEW n \in Marks, n.o = m.o, n.po = m.po, m.reach <= n.reach,
         NEW own \in Cuts, NEW peers \in Cuts, NEW c, Tidy(c, m, own, peers)
  PROVE  Tidy(c, n, own, peers)
<1>1. m.reach \in Nat /\ n.reach \in Nat
  BY Sizes DEF Marks
<1>2. Holds(c, m) => Holds(c, n)
  BY <1>1 DEF Holds
<1>3. /\ NeatOwn(n, own, peers) = NeatOwn(m, own, peers)
      /\ NeatPeer(n, own, peers) = NeatPeer(m, own, peers)
      /\ NeatOut(n, own, peers) = NeatOut(m, own, peers)
  BY DEF NeatOwn, NeatPeer, NeatOut
<1> QED BY <1>2, <1>3 DEF Tidy

(* A step that keeps the packets which are still needed.                   *)
LEMMA TidyOn ==
  ASSUME NEW m \in Marks, NEW own \in Cuts, NEW peers \in Cuts,
         NEW c, Tidy(c, m, own, peers), Live(c), NEW d,
         d.outSeqno = c.outSeqno,
         d.outPkt \in Seq(NeatOut(m, own, peers)),
         d.inPkt \in Seq(NeatPeer(m, own, peers)),
         d.tx \subseteq NeatOwn(m, own, peers),
         Opening(d) => Opening(c),
         Live(d) => Before(d.outAcked, m.o) \in own,
         Live(d) => \A x \in Nat : m.reach <= x /\ Covered(x, c.outPkt, m.o) =>
                                     Covered(x, d.outPkt, m.o),
         Heard(d) => Before(d.inAckno, m.po) \in peers
  PROVE  Tidy(d, m, own, peers)
<1>1. Live(d) => Holds(d, m)
  BY DEF Holds, Tidy
<1> QED BY <1>1 DEF Tidy

(* A stream that is closed, or was never open.                             *)
LEMMA TidyClosed ==
  ASSUME NEW m, NEW own, NEW peers, NEW c,
         ~Live(c), c.outPkt = <<>>, c.inPkt = <<>>,
         c.tx \subseteq NeatOwn(m, own, peers)
  PROVE  Tidy(c, m, own, peers)
<1>1. /\ <<>> \in Seq(NeatOut(m, own, peers))
      /\ <<>> \in Seq(NeatPeer(m, own, peers))
  OBVIOUS
<1>2. ~Opening(c) /\ ~Heard(c)
  BY DEF Live, Heard, Opening
<1> QED BY <1>1, <1>2 DEF Tidy

(***************************************************************************)
(* What a method does between two cuts                                     *)
(***************************************************************************)

(* The bounds within which an open stream stays while it sends no data:    *)
(* what it has sent and keeps, the acknowledgements it may take and give,  *)
(* the packets it may be sent and those it may send.                       *)
Frames ==
    {k \in [sent : SeqNum, out : Seq(ShortOut), acked : SUBSET SeqNum,
            got : SUBSET SeqNum, in : SUBSET ShortPacket, tx : SUBSET ShortPacket] :
        /\ \A p \in k.in : /\ SeqAdd(p.seqno, Len(p.data)) \in k.got
                           /\ p.ack => p.ackno \in k.acked
        /\ \A p \in ShortPacket :
             ~p.syn /\ p.ack /\ Len(p.data) = 0 /\ p.seqno = k.sent /\ p.ackno \in k.got
               => p \in k.tx}

(* c stays within k, or has been closed.                                   *)
Within(c, k) ==
    /\ c \in TypedStream
    /\ c.tx \subseteq k.tx
    /\ \/ /\ Opened(c)
          /\ c.outSeqno = k.sent /\ c.outPkt = k.out
          /\ c.outAcked \in k.acked /\ c.inAckno \in k.got
          /\ c.inPkt \in Seq(k.in)
       \/ /\ c.state = TCP_CLOSED
          /\ c.outPkt = <<>> /\ c.inPkt = <<>>

LEMMA FrameTypes ==
  ASSUME NEW k \in Frames
  PROVE  /\ k.acked \subseteq SeqNum /\ k.got \subseteq SeqNum
         /\ k.in \subseteq ShortPacket /\ k.tx \subseteq ShortPacket
  BY DEF Frames

LEMMA WithinOpened ==
  ASSUME NEW k, NEW c, Within(c, k), Opened(c)
  PROVE  /\ c \in TypedStream /\ c.tx \subseteq k.tx
         /\ c.outSeqno = k.sent /\ c.outPkt = k.out
         /\ c.outAcked \in k.acked /\ c.inAckno \in k.got
         /\ c.inPkt \in Seq(k.in)
  BY LiveStates DEF Within

LEMMA WithinIs ==
  ASSUME NEW k, NEW c \in TypedStream, Opened(c), c.tx \subseteq k.tx,
         c.outSeqno = k.sent, c.outPkt = k.out,
         c.outAcked \in k.acked, c.inAckno \in k.got, c.inPkt \in Seq(k.in)
  PROVE  Within(c, k)
  BY DEF Within

(* A method that leaves these fields alone.                                *)
LEMMA AlikeWithin ==
  ASSUME NEW k, NEW c, Within(c, k), Opened(c), NEW d \in TypedStream, Opened(d),
         Alike(c, d), d.tx = c.tx, d.outPkt = c.outPkt, d.inPkt = c.inPkt
  PROVE  Within(d, k)
  BY WithinOpened, WithinIs DEF Alike

LEMMA CleanupWithin ==
  ASSUME NEW k, NEW c, Within(c, k)
  PROVE  Within(Cleanup(c), k)
  BY CleanupFields, CleanupType DEF Within

LEMMA StateWithin ==
  ASSUME NEW k, NEW c, Within(c, k), Opened(c), NEW s \in 0 .. 10, s >= TCP_ESTABLISHED
  PROVE  Within([c EXCEPT !.state = s], k) /\ Opened([c EXCEPT !.state = s])
<1>1. PICK d : d = [c EXCEPT !.state = s]
  OBVIOUS
<1>2. c \in TypedStream /\ d \in TypedStream /\ c = Fields(c)
  BY <1>1, StateType, TypedParts DEF Within
<1>3. /\ d.state = s /\ Alike(c, d)
      /\ d.tx = c.tx /\ d.outPkt = c.outPkt /\ d.inPkt = c.inPkt
  BY <1>1, <1>2 DEF Fields, Alike
<1>4. Opened(d)
  BY <1>3 DEF Opened
<1> QED BY <1>1, <1>2, <1>3, <1>4, AlikeWithin

(* A bare acknowledgement or a FIN.                                        *)
LEMMA BareWithin ==
  ASSUME NEW k \in Frames, NEW c, Within(c, k), Opened(c), NEW pkt \in {AckPkt, FinPkt}
  PROVE  /\ Within(ToSend(c, pkt, FALSE), k)
         /\ ToSend(c, pkt, FALSE).state = c.state
<1>1. PICK d : d = ToSend(c, pkt, FALSE)
  OBVIOUS
<1>2. c \in TypedStream /\ FALSE \in BOOLEAN
  BY DEF Within
<1>3. AckMade(d, c)
  BY <1>1, <1>2, BareIsMade
<1>4. PICK p \in ShortPacket :
        /\ ~p.syn /\ p.ack /\ p.seqno = c.outSeqno /\ p.ackno = c.inAckno
        /\ Len(p.data) = 0 /\ d.tx \subseteq c.tx \cup {p}
  BY <1>3 DEF AckMade
<1>5. p \in k.tx
  BY <1>4, WithinOpened DEF Frames
<1>6. d.outPkt = c.outPkt
  <2>1. SentAs(d, c, pkt, FALSE)
    BY <1>1, <1>2, ToSendFields
  <2> QED BY <1>2, <2>1 DEF SentAs, TypedStream
<1>7. /\ d \in TypedStream /\ d.state = c.state /\ d.outSeqno = c.outSeqno
      /\ d.outAcked = c.outAcked /\ d.inAckno = c.inAckno /\ d.inPkt = c.inPkt
  BY <1>3 DEF AckMade
<1>8. Opened(d)
  BY <1>7 DEF Opened
<1>9. d.tx \subseteq k.tx
  BY <1>4, <1>5, WithinOpened
<1>10. Within(d, k)
  BY <1>6, <1>7, <1>8, <1>9, WithinOpened, WithinIs
<1> QED BY <1>1, <1>7, <1>10

LEMMA SendAckWithin ==
  ASSUME NEW k \in Frames, NEW c, Within(c, k), Opened(c)
  PROVE  Within(SendAck(c), k) /\ SendAck(c).state = c.state
  BY BareWithin DEF SendAck

LEMMA SendNothingWithin ==
  ASSUME NEW k \in Frames, NEW c, Within(c, k), Opened(c), NEW idle
  PROVE  Within(SendNothing(c, idle), k)
<1> DEFINE s == IF c.state = TCP_ESTABLISHED THEN TCP_FIN_WAIT_1 ELSE TCP_LAST_ACK
<1>1. PICK x : x = ToSend(c, FinPkt, FALSE)
  OBVIOUS
<1>2. Within(x, k) /\ x.state = c.state
  BY <1>1, BareWithin
<1>3. s \in 0 .. 10 /\ s >= TCP_ESTABLISHED
  BY States
<1>4. Within([x EXCEPT !.state = s], k)
  <2>1. Opened(x)
    BY <1>2 DEF Opened
  <2> HIDE DEF s
  <2> QED BY <1>2, <1>3, <2>1, StateWithin
<1>5. Within(SendAck(c), k)
  BY SendAckWithin
<1>6. SendNothing(c, idle) \in {[x EXCEPT !.state = s], SendAck(c), c}
  BY <1>1 DEF SendNothing
<1> HIDE DEF s
<1> QED BY <1>4, <1>5, <1>6

LEMMA UpdateInWinSizeWithin ==
  ASSUME NEW k, NEW c, Within(c, k), Opened(c)
  PROVE  Within(UpdateInWinSize(c), k) /\ UpdateInWinSize(c).state = c.state
<1> DEFINE queued == Len(c.outQueue)
           win == IF queued < MaxWin THEN MaxWin
                  ELSE IF queued < 2 * MaxWin THEN 2 * MaxWin - queued ELSE 0
<1>1. PICK d : d = UpdateInWinSize(c)
  OBVIOUS
<1>2. c \in TypedStream /\ d \in TypedStream /\ c = Fields(c)
  BY <1>1, UpdateInWinSizeType, TypedParts DEF Within
<1>3. d = [c EXCEPT !.inWin = win]
  BY <1>1 DEF UpdateInWinSize
<1> HIDE DEF win
<1>4. /\ Alike(c, d) /\ d.tx = c.tx /\ d.state = c.state
      /\ d.inPkt = c.inPkt /\ d.outPkt = c.outPkt
  BY <1>2, <1>3 DEF Fields, Alike
<1>5. Opened(d)
  BY <1>4 DEF Opened
<1> QED BY <1>1, <1>2, <1>4, <1>5, AlikeWithin

LEMMA TakeFinWithin ==
  ASSUME NEW k \in Frames, NEW c, Within(c, k), Opened(c)
  PROVE  Within(TakeFin(c), k)
<1>1. PICK a : a = SendAck(c)
  OBVIOUS
<1>2. Within(a, k) /\ Opened(a) /\ a \in TypedStream
  BY <1>1, SendAckWithin DEF Opened, Within
<1>3. PICK d : d = [a EXCEPT !.inActive = FALSE]
  OBVIOUS
<1>4. a = Fields(a)
  BY <1>2, TypedParts
<1>5. d \in TypedStream
  BY <1>2, <1>3, InActiveType
<1>6. /\ Alike(a, d) /\ d.tx = a.tx /\ d.state = a.state
      /\ d.inPkt = a.inPkt /\ d.outPkt = a.outPkt
  BY <1>3, <1>4 DEF Fields, Alike
<1>7. Within(d, k) /\ Opened(d)
  BY <1>2, <1>5, <1>6, AlikeWithin DEF Opened
<1>8. /\ Within([d EXCEPT !.state = TCP_CLOSE_WAIT], k)
      /\ Within([d EXCEPT !.state = TCP_CLOSING], k)
  <2>1. /\ TCP_CLOSE_WAIT \in 0 .. 10 /\ TCP_CLOSING \in 0 .. 10
        /\ TCP_CLOSE_WAIT >= TCP_ESTABLISHED /\ TCP_CLOSING >= TCP_ESTABLISHED
    BY States
  <2> QED BY <1>7, <2>1, StateWithin
<1>9. Within(Cleanup(d), k)
  BY <1>7, CleanupWithin
<1>10. TakeFin(c) \in {d, [d EXCEPT !.state = TCP_CLOSE_WAIT],
                          [d EXCEPT !.state = TCP_CLOSING], Cleanup(d)}
  BY <1>1, <1>3 DEF TakeFin, TCP_ESTABLISHED, TCP_FIN_WAIT_1, TCP_FIN_WAIT_2
<1> QED BY <1>7, <1>8, <1>9, <1>10

LEMMA TakeAckOfFinWithin ==
  ASSUME NEW k, NEW c, Within(c, k)
  PROVE  Within(TakeAckOfFin(c), k)
<1>1. c.state = TCP_FIN_WAIT_1 => Within([c EXCEPT !.state = TCP_FIN_WAIT_2], k)
  <2>1. TCP_FIN_WAIT_2 \in 0 .. 10 /\ TCP_FIN_WAIT_2 >= TCP_ESTABLISHED
    BY States
  <2>2. c.state = TCP_FIN_WAIT_1 => Opened(c)
    BY States DEF Opened
  <2> QED BY <2>1, <2>2, StateWithin
<1>2. Within(Cleanup(c), k)
  BY CleanupWithin
<1>3. TakeAckOfFin(c) \in
        (IF c.state = TCP_FIN_WAIT_1 THEN {[c EXCEPT !.state = TCP_FIN_WAIT_2]}
         ELSE {Cleanup(c), c})
  BY DEF TakeAckOfFin, TCP_FIN_WAIT_1, TCP_LAST_ACK, TCP_CLOSING
<1> QED BY <1>1, <1>2, <1>3

LEMMA TakenWithin ==
  ASSUME NEW k \in Frames, NEW c, Within(c, k), Opened(c), NEW p \in k.in
  PROVE  Within(Taken(c, p), k) /\ Taken(c, p).state = c.state
<1> DEFINE fresh == p.ack /\ IsOldSequence(c.outAcked, p.ackno)
           ackno == SeqAdd(p.seqno, Len(p.data))
           acked == IF fresh THEN p.ackno ELSE c.outAcked
           win == IF fresh THEN p.win ELSE c.outWin
           q == c.outQueue \o p.data
<1>1. PICK d : d = Taken(c, p)
  OBVIOUS
<1>2. c \in TypedStream /\ d \in TypedStream /\ c = Fields(c)
  BY <1>1, FrameTypes, TakenType, TypedParts DEF Within
<1>3. d = [c EXCEPT !.inAckno = ackno, !.outAcked = acked, !.outWin = win,
                    !.outQueue = q]
  BY <1>1 DEF Taken
<1>4. ackno \in k.got /\ acked \in k.acked
  <2>1. ackno \in k.got /\ (p.ack => p.ackno \in k.acked)
    BY DEF Frames
  <2>2. c.outAcked \in k.acked
    BY WithinOpened
  <2> QED BY <2>1, <2>2
<1> HIDE DEF ackno, acked, win, q
<1>5. /\ d.state = c.state /\ d.outSeqno = c.outSeqno
      /\ d.tx = c.tx /\ d.outPkt = c.outPkt /\ d.inPkt = c.inPkt
      /\ d.inAckno = ackno /\ d.outAcked = acked
  BY <1>2, <1>3 DEF Fields
<1>6. Opened(d)
  BY <1>5 DEF Opened
<1>7. Within(d, k)
  BY <1>2, <1>4, <1>5, <1>6, WithinOpened, WithinIs
<1> QED BY <1>1, <1>5, <1>7

LEMMA ConsumePktWithin ==
  ASSUME NEW k \in Frames, NEW c, Within(c, k), Opened(c), NEW p \in k.in
  PROVE  Within(ConsumePkt(c, p), k)
<1> DEFINE a == Taken(c, p)
           d == UpdateInWinSize(a)
           f == IF p.fin THEN TakeFin(d) ELSE d
<1>1. Within(a, k) /\ Opened(a)
  BY TakenWithin DEF Opened
<1> HIDE DEF a
<1>2. Within(d, k) /\ Opened(d)
  BY <1>1, UpdateInWinSizeWithin DEF Opened
<1> HIDE DEF d
<1>3. Within(f, k)
  BY <1>2, TakeFinWithin
<1>4. ConsumePkt(c, p) \in {f, TakeAckOfFin(f)}
  BY DEF ConsumePkt, Taken, a, d
<1> HIDE DEF f
<1> QED BY <1>3, <1>4, TakeAckOfFinWithin

LEMMA InPktWithin ==
  ASSUME NEW k \in Frames, NEW c, Within(c, k), Opened(c), NEW q \in Seq(k.in)
  PROVE  /\ Within([c EXCEPT !.inPkt = q], k)
         /\ Opened([c EXCEPT !.inPkt = q])
<1>1. PICK d : d = [c EXCEPT !.inPkt = q]
  OBVIOUS
<1>2. q \in Seq(ShortPacket)
  BY FrameTypes, SeqMonotonic
<1>3. c \in TypedStream /\ d \in TypedStream /\ c = Fields(c)
  BY <1>1, <1>2, InPktType, TypedParts DEF Within
<1>4. /\ Alike(c, d) /\ d.tx = c.tx /\ d.state = c.state
      /\ d.inPkt = q /\ d.outPkt = c.outPkt
  BY <1>1, <1>3 DEF Fields, Alike
<1>5. Opened(d)
  BY <1>4 DEF Opened
<1>6. Within(d, k)
  BY <1>3, <1>4, <1>5, WithinOpened, WithinIs DEF Alike
<1> QED BY <1>1, <1>5, <1>6

LEMMA ConsumeNextWithin ==
  ASSUME NEW k \in Frames, NEW c, Within(c, k)
  PROVE  Within(ConsumeNext(c), k)
<1>1. CASE ConsumeNext(c) = c
  BY <1>1
<1>2. ASSUME NEW i \in 1 .. Len(c.inPkt),
             ConsumeNext(c) =
               ConsumePkt([c EXCEPT !.inPkt = SubSeq(c.inPkt, 1, i - 1)
                                      \o SubSeq(c.inPkt, i + 1, Len(c.inPkt))],
                          c.inPkt[i])
      PROVE  Within(ConsumeNext(c), k)
  <2> DEFINE q == SubSeq(c.inPkt, 1, i - 1) \o SubSeq(c.inPkt, i + 1, Len(c.inPkt))
             p == c.inPkt[i]
  <2>1. Opened(c) /\ c.inPkt \in Seq(k.in)
    BY <1>2 DEF Within
  <2>2. q \in Seq(k.in) /\ p \in k.in
    <3>1. p \in k.in
      BY <2>1
    <3>2. q \in Seq(k.in)
      BY <2>1, TakenOut
    <3> QED BY <3>1, <3>2
  <2> HIDE DEF q
  <2>3. PICK x : x = [c EXCEPT !.inPkt = q]
    OBVIOUS
  <2>4. Within(x, k) /\ Opened(x)
    BY <2>1, <2>2, <2>3, InPktWithin
  <2>5. ConsumeNext(c) = ConsumePkt(x, p)
    BY <1>2, <2>3 DEF q
  <2> HIDE DEF p
  <2>6. Within(ConsumePkt(x, p), k)
    BY <2>2, <2>4, ConsumePktWithin
  <2> QED BY <2>5, <2>6
<1> QED BY <1>1, <1>2, ConsumeNextIs DEF Within

LEMMA CheckInPktsWithin ==
  ASSUME NEW k \in Frames, NEW c, Within(c, k)
  PROVE  Within(CheckInPkts(c), k)
<1> DEFINE S == {x \in TypedStream : Within(x, k)}
<1>1. PICK d : d = ConsumeAll(c)
  OBVIOUS
<1>2. d \in S
  <2>1. c \in S /\ Len(c.inPkt) \in Nat
    BY DEF Within, TypedStream
  <2>2. \A x \in S : ConsumeNext(x) \in S
    BY ConsumeNextWithin, ConsumeNextType
  <2> HIDE DEF S
  <2> QED BY <1>1, <2>1, <2>2, ConsumeAllStays
<1>3. Within(d, k) /\ d \in TypedStream
  BY <1>2
<1>4. PICK q : q = NewPkts(d)
  OBVIOUS
<1>5. CheckInPkts(c) = [d EXCEPT !.inPkt = q]
  BY <1>1, <1>4 DEF CheckInPkts
<1> HIDE DEF S
<1>6. CASE Opened(d)
  <2>1. q \in Seq(k.in)
    BY <1>3, <1>4, <1>6, NewPktsFrom, WithinOpened
  <2> QED BY <1>3, <1>5, <1>6, <2>1, InPktWithin
<1>7. CASE ~Opened(d)
  <2>1. d.state = TCP_CLOSED /\ d.outPkt = <<>> /\ d.inPkt = <<>> /\ d.tx \subseteq k.tx
    BY <1>3, <1>7 DEF Within
  <2>2. q \in Seq({}) /\ q \in Seq(ShortPacket)
    <3>1. d.inPkt \in Seq({}) /\ d.inPkt \in Seq(ShortPacket)
      BY <2>1
    <3> QED BY <1>4, <3>1, NewPktsFrom
  <2>3. q = <<>>
    BY <2>2
  <2>4. PICK x : x = [d EXCEPT !.inPkt = q]
    OBVIOUS
  <2>5. x \in TypedStream /\ d = Fields(d)
    BY <1>3, <2>2, <2>4, InPktType, TypedParts
  <2>6. /\ x.state = d.state /\ x.outPkt = d.outPkt /\ x.inPkt = q /\ x.tx = d.tx
    BY <2>4, <2>5 DEF Fields
  <2>7. Within(x, k)
    BY <2>1, <2>3, <2>5, <2>6 DEF Within
  <2> QED BY <1>5, <2>4, <2>7
<1> QED BY <1>6, <1>7

LEMMA IncomingEstablishedWithin ==
  ASSUME NEW k \in Frames, NEW c, Within(c, k), Opened(c), NEW p \in k.in
  PROVE  Within(IncomingEstablished(c, p), k)
<1> DEFINE a == IF p.ack THEN p.ackno ELSE c.outAcked
           w == p.win
           x == [c EXCEPT !.outAcked = a, !.outWin = w]
           d == IF InWindow(c, p) THEN x ELSE SendAck(c)
           q == IF Len(Append(d.inPkt, p)) > MaxQueue
                  THEN Tail(Append(d.inPkt, p)) ELSE Append(d.inPkt, p)
<1>1. c \in TypedStream /\ c = Fields(c) /\ p \in ShortPacket
  BY FrameTypes, TypedParts DEF Within
<1>2. a \in k.acked /\ a \in SeqNum /\ w \in Nat
  <2>1. a \in k.acked
    BY WithinOpened DEF Frames
  <2> QED BY <1>1, <2>1, FrameTypes, ShortPacketParts
<1>3. Within(x, k) /\ Opened(x)
  <2>1. PICK y : y = x
    OBVIOUS
  <2> HIDE DEF a, w
  <2>2. y \in TypedStream
    BY <1>1, <1>2, <2>1, AckedType
  <2>3. /\ y.state = c.state /\ y.outSeqno = c.outSeqno /\ y.tx = c.tx
        /\ y.outPkt = c.outPkt /\ y.inPkt = c.inPkt
        /\ y.inAckno = c.inAckno /\ y.outAcked = a
    BY <1>1, <2>1 DEF Fields
  <2>4. Opened(y)
    BY <2>3 DEF Opened
  <2>5. Within(y, k)
    BY <1>2, <2>2, <2>3, <2>4, WithinOpened, WithinIs
  <2> HIDE DEF x
  <2> QED BY <2>1, <2>4, <2>5
<1>4. Within(SendAck(c), k) /\ Opened(SendAck(c))
  BY SendAckWithin DEF Opened
<1>5. IncomingEstablished(c, p) = CheckInPkts(Enqueue(d, p))
  BY DEF IncomingEstablished
<1> HIDE DEF x
<1>6. Within(d, k) /\ Opened(d)
  BY <1>3, <1>4
<1>7. Enqueue(d, p) = [d EXCEPT !.inPkt = q]
  BY DEF Enqueue
<1> HIDE DEF d
<1>8. q \in Seq(k.in)
  BY <1>6, WithinOpened, Enqueued
<1> HIDE DEF q
<1>9. Within(Enqueue(d, p), k)
  BY <1>6, <1>7, <1>8, InPktWithin
<1> QED BY <1>5, <1>9, CheckInPktsWithin

(* A packet without data fits at any cut.                                  *)
LEMMA BareNeat ==
  ASSUME NEW m \in Marks, NEW own \in Cuts, NEW peers \in Cuts,
         NEW p \in ShortPacket, Len(p.data) = 0, Before(p.seqno, m.o) \in own,
         p.ack => Before(p.ackno, m.po) \in peers
  PROVE  p \in NeatOwn(m, own, peers)
<1>1. m.o \in SeqNum /\ own \subseteq Nat
  BY TidyTypes
<1>2. /\ Before(p.seqno, m.o) \in Nat /\ Before(p.seqno, m.o) < SeqMod
      /\ SeqMod \in Nat
  BY <1>1, PacketFacts, BeforeType, Sizes
<1>3. From(p, m.o) = Before(p.seqno, m.o) /\ To(p, m.o) = Before(p.seqno, m.o)
  BY <1>2 DEF From, To
<1>4. Intact(p, m.o, own)
  BY <1>1, <1>2, <1>3 DEF Intact
<1> QED BY <1>4 DEF NeatOwn, Neat

(* The frame of an open stream between the present cuts.                   *)
FrameOf(c, m, own, peers) ==
    [sent |-> c.outSeqno, out |-> c.outPkt,
     acked |-> {a \in SeqNum : Before(a, m.o) \in own},
     got |-> {a \in SeqNum : Before(a, m.po) \in peers},
     in |-> NeatPeer(m, own, peers), tx |-> NeatOwn(m, own, peers)]

LEMMA FrameIs ==
  ASSUME NEW m \in Marks, NEW own \in Cuts, NEW peers \in Cuts,
         NEW c \in TypedStream, Tidy(c, m, own, peers), Opened(c)
  PROVE  /\ FrameOf(c, m, own, peers) \in Frames
         /\ Within(c, FrameOf(c, m, own, peers))
<1> DEFINE k == FrameOf(c, m, own, peers)
<1>1. PICK own1 : own1 = NeatOwn(m, own, peers)
  OBVIOUS
<1>2. PICK in1 : in1 = NeatPeer(m, own, peers)
  OBVIOUS
<1>3. own1 \subseteq ShortPacket /\ in1 \subseteq ShortPacket
  BY <1>1, <1>2, TidyTypes
<1>4. /\ k.sent = c.outSeqno /\ k.out = c.outPkt
      /\ k.acked = {a \in SeqNum : Before(a, m.o) \in own}
      /\ k.got = {a \in SeqNum : Before(a, m.po) \in peers}
      /\ k.in = in1 /\ k.tx = own1
  BY <1>1, <1>2 DEF FrameOf
<1>5. k \in [sent : SeqNum, out : Seq(ShortOut), acked : SUBSET SeqNum,
             got : SUBSET SeqNum, in : SUBSET ShortPacket, tx : SUBSET ShortPacket]
  <2>1. c.outSeqno \in SeqNum /\ c.outPkt \in Seq(ShortOut)
    BY DEF TypedStream
  <2>2. k = [sent |-> c.outSeqno, out |-> c.outPkt,
             acked |-> {a \in SeqNum : Before(a, m.o) \in own},
             got |-> {a \in SeqNum : Before(a, m.po) \in peers},
             in |-> in1, tx |-> own1]
    BY <1>1, <1>2 DEF FrameOf
  <2> HIDE DEF k
  <2> QED BY <1>3, <2>1, <2>2
<1> HIDE DEF k
<1>6. ASSUME NEW p \in k.in
      PROVE  /\ SeqAdd(p.seqno, Len(p.data)) \in k.got
             /\ p.ack => p.ackno \in k.acked
  <2>1. p \in Neat(m.po, peers, m.o, own)
    BY <1>2, <1>4 DEF NeatPeer
  <2>2. /\ p.ackno \in SeqNum /\ SeqAdd(p.seqno, Len(p.data)) \in SeqNum
        /\ Before(SeqAdd(p.seqno, Len(p.data)), m.po) \in peers
        /\ p.ack => Before(p.ackno, m.o) \in own
    BY <2>1, TidyTypes, NeatFacts
  <2> QED BY <1>4, <2>2
<1>7. ASSUME NEW p \in ShortPacket, p.ack, Len(p.data) = 0,
             p.seqno = k.sent, p.ackno \in k.got
      PROVE  p \in k.tx
  <2>1. Before(p.seqno, m.o) \in own
    BY <1>4, <1>7, LiveStates DEF Tidy
  <2>2. Before(p.ackno, m.po) \in peers
    BY <1>4, <1>7
  <2> QED BY <1>1, <1>4, <1>7, <2>1, <2>2, BareNeat
<1>8. k \in Frames
  BY <1>5, <1>6, <1>7 DEF Frames
<1>9. Within(c, k)
  <2>1. /\ Before(c.outAcked, m.o) \in own /\ Before(c.inAckno, m.po) \in peers
        /\ c.inPkt \in Seq(in1) /\ c.tx \subseteq own1
    BY <1>1, <1>2, LiveStates DEF Tidy
  <2>2. c.outAcked \in SeqNum /\ c.inAckno \in SeqNum
    BY NumberFacts
  <2> QED BY <1>4, <2>1, <2>2, WithinIs
<1> QED BY <1>8, <1>9 DEF k

(* What stays within the frame is tidy.                                    *)
LEMMA WithinTidy ==
  ASSUME NEW m \in Marks, NEW own \in Cuts, NEW peers \in Cuts,
         NEW c \in TypedStream, Tidy(c, m, own, peers), Opened(c),
         NEW d, Within(d, FrameOf(c, m, own, peers))
  PROVE  Tidy(d, m, own, peers)
<1>1. PICK k : k = FrameOf(c, m, own, peers)
  OBVIOUS
<1>2. /\ k.sent = c.outSeqno /\ k.out = c.outPkt
      /\ k.acked = {a \in SeqNum : Before(a, m.o) \in own}
      /\ k.got = {a \in SeqNum : Before(a, m.po) \in peers}
      /\ k.in = NeatPeer(m, own, peers) /\ k.tx = NeatOwn(m, own, peers)
  BY <1>1 DEF FrameOf
<1>3. Within(d, k) /\ d.tx \subseteq k.tx
  BY <1>1 DEF Within
<1>4. CASE Opened(d)
  <2>1. /\ d.outSeqno = c.outSeqno /\ d.outPkt = c.outPkt
        /\ Before(d.outAcked, m.o) \in own /\ Before(d.inAckno, m.po) \in peers
        /\ d.inPkt \in Seq(NeatPeer(m, own, peers))
    BY <1>2, <1>3, <1>4, WithinOpened
  <2>2. d.tx \subseteq NeatOwn(m, own, peers)
    BY <1>2, <1>3
  <2>3. d.outPkt \in Seq(NeatOut(m, own, peers))
    BY <2>1 DEF Tidy
  <2>4. Live(c) /\ ~Opening(d)
    BY <1>4, LiveStates
  <2> QED BY <2>1, <2>2, <2>3, <2>4, TidyOn
<1>5. CASE ~Opened(d)
  <2>1. d.state = TCP_CLOSED /\ d.outPkt = <<>> /\ d.inPkt = <<>>
    BY <1>3, <1>5 DEF Within
  <2>2. ~Live(d) /\ d.tx \subseteq NeatOwn(m, own, peers)
    BY <1>2, <1>3, <2>1, LiveStates
  <2> QED BY <2>1, <2>2, TidyClosed
<1> QED BY <1>4, <1>5

(* So is an open stream after it has taken a packet, or has sent no data.  *)
LEMMA IncomingEstablishedTidy ==
  ASSUME NEW m \in Marks, NEW own \in Cuts, NEW peers \in Cuts,
         NEW c \in TypedStream, Tidy(c, m, own, peers), Opened(c),
         NEW p \in NeatPeer(m, own, peers)
  PROVE  Tidy(IncomingEstablished(c, p), m, own, peers)
<1>1. PICK k : k = FrameOf(c, m, own, peers)
  OBVIOUS
<1>2. k \in Frames /\ Within(c, k) /\ p \in k.in
  BY <1>1, FrameIs DEF FrameOf
<1>3. Within(IncomingEstablished(c, p), k)
  BY <1>2, IncomingEstablishedWithin
<1> QED BY <1>1, <1>3, WithinTidy

LEMMA SendNothingTidy ==
  ASSUME NEW m \in Marks, NEW own \in Cuts, NEW peers \in Cuts,
         NEW c \in TypedStream, Tidy(c, m, own, peers), Opened(c), NEW idle
  PROVE  Tidy(SendNothing(c, idle), m, own, peers)
<1>1. PICK k : k = FrameOf(c, m, own, peers)
  OBVIOUS
<1>2. k \in Frames /\ Within(c, k)
  BY <1>1, FrameIs
<1>3. Within(SendNothing(c, idle), k)
  BY <1>2, SendNothingWithin
<1> QED BY <1>1, <1>3, WithinTidy

(***************************************************************************)
(* Sending                                                                 *)
(***************************************************************************)

(* Half of the sequence numbers are enough for all that is written.        *)
HalfFits(k, m) == k.b = SeqAdd(m.o, 1) /\ 2 * (k.w + 1) < SeqMod

LEMMA HalfRoom ==
  ASSUME NEW m \in Marks, NEW k \in Context, HalfFits(k, m),
         NEW own, NEW peers, NEW c, Tidy(c, m, own, peers), Live(c),
         NEW c0, Fine(c, c0, k)
  PROVE  2 * Before(c.outSeqno, m.o) < SeqMod /\ 2 < SeqMod
<1>1. c \in TypedStream /\ k.w \in 0 .. SeqMod - 1
  BY DEF Fine, Context
<1>2. c.outSeqno \in SeqNum /\ m.o \in SeqNum /\ Before(c.outSeqno, m.o) \in Nat
  BY <1>1, NumberFacts
<1>3. PICK w \in Nat : w = k.w
  BY <1>1
<1>4. 2 * (w + 1) < SeqMod /\ SeqMod \in Nat
  BY <1>3, Sizes DEF HalfFits
<1>5. CASE Opening(c)
  <2>1. Before(c.outSeqno, m.o) <= 1
    BY <1>5 DEF Tidy
  <2> QED BY <1>2, <1>4, <2>1
<1>6. CASE Opened(c)
  <2>1. Len(c.inQueue) \in Nat
    BY <1>1 DEF TypedStream
  <2>2. PICK L \in Nat : L = Len(c.inQueue)
    BY <2>1
  <2>3. L <= w /\ Before(c.outSeqno, k.b) = w - L
    BY <1>3, <1>6, <2>2 DEF Fine, SendsHonest
  <2>4. PICK s \in SeqNum : s = c.outSeqno
    BY <1>2
  <2>5. PICK o \in SeqNum : o = m.o
    BY <1>2
  <2>6. Before(s, SeqAdd(o, 1)) = w - L
    BY <2>3, <2>4, <2>5 DEF HalfFits
  <2>7. Before(s, o) <= w + 1
    BY <1>4, <2>3, <2>6, Sizes DEF Before, SeqSub, SeqAdd, SeqNum
  <2>8. Before(s, o) \in Nat
    BY <1>2, <2>4, <2>5
  <2> QED BY <1>4, <2>4, <2>5, <2>7, <2>8
<1> QED BY <1>5, <1>6 DEF Live

(* Within half of the numbers, old is before.                              *)
LEMMA OldIsBefore ==
  ASSUME NEW s \in SeqNum, NEW t \in SeqNum, NEW o \in SeqNum,
         2 * Before(s, o) < SeqMod, IsOldSequence(s, t)
  PROVE  Before(s, o) < Before(t, o)
  BY Sizes DEF Before, SeqSub, SeqNum, IsOldSequence

(* What is kept is neat.                                                   *)
LEMMA KeptNeat ==
  ASSUME NEW m, NEW own, NEW peers, NEW q \in Seq(NeatOut(m, own, peers)),
         NEW i \in 1 .. Len(q)
  PROVE  /\ q[i].pkt \in NeatOwn(m, own, peers)
         /\ q[i].pkt \in Neat(m.o, own, m.po, peers)
<1>1. q[i] \in NeatOut(m, own, peers)
  OBVIOUS
<1>2. q[i].pkt \in NeatOwn(m, own, peers)
  BY <1>1 DEF NeatOut
<1> QED BY <1>2 DEF NeatOwn

(* So acknowledge() drops only packets that have been received whole: the  *)
(* acknowledgement is past their first byte, and at a cut.                 *)
LEMMA AckedIsReceived ==
  ASSUME NEW m \in Marks, NEW own \in Cuts, NEW peers \in Cuts,
         NEW c \in TypedStream, Careful(c, m), Tidy(c, m, own, peers), Live(c),
         2 * Before(c.outSeqno, m.o) < SeqMod,
         NEW i \in 1 .. AckedHead(c)
  PROVE  i \in 1 .. Len(c.outPkt) /\ To(c.outPkt[i].pkt, m.o) <= m.reach
<1> DEFINE p == c.outPkt[i].pkt
           a == Before(c.outAcked, m.o)
<1>1. AckedHead(c) \in 0 .. Len(c.outPkt) /\ IsOldSequence(p.seqno, c.outAcked)
  BY AckedHeadIs
<1>2. i \in 1 .. Len(c.outPkt)
  BY <1>1
<1>3. p \in Neat(m.o, own, m.po, peers)
  BY <1>2, KeptNeat DEF Tidy
<1>4. /\ p.seqno \in SeqNum /\ c.outAcked \in SeqNum /\ m.o \in SeqNum
      /\ From(p, m.o) \in Nat /\ To(p, m.o) \in Nat /\ From(p, m.o) <= To(p, m.o)
      /\ a \in Nat /\ m.reach \in Nat /\ Before(c.outSeqno, m.o) \in Nat
  <2>1. p.seqno \in SeqNum /\ Len(p.data) \in Nat /\ From(p, m.o) \in Nat /\ To(p, m.o) \in Nat
    BY <1>3, TidyTypes, NeatFacts
  <2>2. From(p, m.o) <= To(p, m.o)
    <3> HIDE DEF p
    <3> QED BY <2>1 DEF From, To
  <2> QED BY <2>1, <2>2, NumberFacts
<1>5. a \in own /\ a <= m.reach
  BY DEF Tidy, Careful
<1>6. Intact(p, m.o, own)
  BY <1>3 DEF Neat
<1>7. From(p, m.o) <= Before(c.outSeqno, m.o)
  <2>1. c.outPkt[i] \in OwnOut(c, m)
    BY <1>2 DEF Careful
  <2>2. Placed(p, m.o, Before(c.outSeqno, m.o)) /\ Len(p.data) \in Nat
    BY <2>1, PacketFacts DEF OwnOut, OwnPackets, Marks
  <2> HIDE DEF p
  <2> QED BY <1>4, <2>2 DEF Placed, From
<1> HIDE DEF p, a
<1>8. 2 * From(p, m.o) < SeqMod
  BY <1>4, <1>7, Sizes
<1>9. From(p, m.o) < a
  BY <1>1, <1>4, <1>8, OldIsBefore DEF From, a, p
<1>10. To(p, m.o) <= a
  BY <1>4, <1>5, <1>6, <1>9 DEF Intact
<1> QED BY <1>2, <1>4, <1>5, <1>10 DEF p

(* A method that leaves the numbers and the state alone.                   *)
LEMMA EvenTidy ==
  ASSUME NEW m \in Marks, NEW own \in Cuts, NEW peers \in Cuts,
         NEW c, Tidy(c, m, own, peers), NEW d, d.state = c.state, Alike(c, d),
         d.outPkt \in Seq(NeatOut(m, own, peers)),
         d.inPkt = c.inPkt, d.tx \subseteq NeatOwn(m, own, peers),
         Live(c) => \A x \in Nat : m.reach <= x /\ Covered(x, c.outPkt, m.o) =>
                                     Covered(x, d.outPkt, m.o)
  PROVE  Tidy(d, m, own, peers)
<1>1. /\ Live(d) <=> Live(c)
      /\ Opening(d) <=> Opening(c)
      /\ Heard(d) <=> Heard(c)
  BY DEF Live, Opening, Opened, Heard
<1>2. Live(d) => Holds(d, m)
  BY <1>1 DEF Holds, Tidy, Alike
<1> QED BY <1>1, <1>2 DEF Tidy, Alike

LEMMA AcknowledgeTidy ==
  ASSUME NEW m \in Marks, NEW own \in Cuts, NEW peers \in Cuts,
         NEW c \in TypedStream, Careful(c, m), Tidy(c, m, own, peers),
         Live(c) => 2 * Before(c.outSeqno, m.o) < SeqMod
  PROVE  Tidy(Acknowledge(c), m, own, peers)
<1> DEFINE n == AckedHead(c)
<1>1. PICK d : d = Acknowledge(c)
  OBVIOUS
<1>2. n \in 0 .. Len(c.outPkt)
  BY AckedHeadIs
<1>3. c.outPkt \in Seq(NeatOut(m, own, peers)) /\ c.tx \subseteq NeatOwn(m, own, peers)
  BY DEF Tidy
<1>4. /\ d.state = c.state /\ d.inPkt = c.inPkt /\ d.tx = c.tx
      /\ d.outPkt \in Seq(NeatOut(m, own, peers))
      /\ d.outPkt = SubSeq(c.outPkt, n + 1, Len(c.outPkt)) /\ Alike(c, d)
  BY <1>1, <1>3, AcknowledgeFields, AcknowledgeKeeps
<1>5. ASSUME Live(c), NEW x \in Nat, m.reach <= x, Covered(x, c.outPkt, m.o)
      PROVE  Covered(x, d.outPkt, m.o)
  <2>1. PICK i \in 1 .. Len(c.outPkt) :
               From(c.outPkt[i].pkt, m.o) <= x /\ x < To(c.outPkt[i].pkt, m.o)
    BY <1>5 DEF Covered
  <2>2. i > n
    <3>1. SUFFICES ASSUME i \in 1 .. n
                   PROVE  FALSE
      BY <1>2
    <3>2. To(c.outPkt[i].pkt, m.o) <= m.reach
      BY <1>5, <3>1, AckedIsReceived
    <3>3. To(c.outPkt[i].pkt, m.o) \in Nat /\ m.reach \in Nat
      <4>1. c.outPkt[i].pkt \in Neat(m.o, own, m.po, peers)
        BY <1>3, KeptNeat
      <4> QED BY <4>1, TidyTypes, NeatFacts, NumberFacts
    <3> QED BY <1>5, <2>1, <3>2, <3>3
  <2> HIDE DEF n
  <2>3. i - n \in 1 .. Len(c.outPkt) - n /\ n + (i - n) = i
    BY <1>2, <2>2
  <2>4. Len(d.outPkt) = Len(c.outPkt) - n /\ d.outPkt[i - n] = c.outPkt[i]
    BY <1>2, <1>3, <1>4, <2>3, Rest
  <2>5. i - n \in 1 .. Len(d.outPkt)
    BY <2>3, <2>4
  <2> QED BY <2>1, <2>4, <2>5 DEF Covered
<1> HIDE DEF n
<1>6. Tidy(d, m, own, peers)
  BY <1>3, <1>4, <1>5, EvenTidy
<1> QED BY <1>1, <1>6

(* A packet keeps its place when it is sent again.                         *)
LEMMA AgainNeat ==
  ASSUME NEW m \in Marks, NEW own \in Cuts, NEW peers \in Cuts,
         NEW c \in TypedStream, Careful(c, m), Tidy(c, m, own, peers), Live(c),
         NEW x \in OwnPackets(c, m), x \in NeatOwn(m, own, peers),
         NEW p, SentAgain(p, x, c)
  PROVE  /\ p \in NeatOwn(m, own, peers)
         /\ From(p, m.o) = From(x, m.o) /\ To(p, m.o) = To(x, m.o)
<1>1. /\ p \in ShortPacket /\ p.syn = x.syn /\ p.seqno = x.seqno /\ p.data = x.data
      /\ p.ack = (x.ack \/ ~x.syn)
      /\ p.ackno = IF x.syn THEN x.ackno ELSE c.inAckno
  BY DEF SentAgain
<1>2. From(p, m.o) = From(x, m.o) /\ To(p, m.o) = To(x, m.o)
  BY <1>1 DEF From, To
<1>3. Intact(p, m.o, own)
  BY <1>2 DEF Intact, NeatOwn, Neat
<1>4. x \in ShortPacket /\ x.syn \in BOOLEAN /\ x.ack \in BOOLEAN
      /\ (x.ack => Before(x.ackno, m.po) \in peers)
  BY ShortPacketParts DEF NeatOwn, Neat
<1>5. p.ack => Before(p.ackno, m.po) \in peers
  <2>1. CASE x.syn
    BY <1>1, <1>4, <2>1
  <2>2. CASE ~x.syn
    <3>1. x.ack /\ Acks(x, m.po, Gained(c, m.po))
      BY <2>2 DEF OwnPackets
    <3>2. Before(x.ackno, m.po) \in Nat /\ Gained(c, m.po) \in Nat
      BY <1>4, PacketFacts, NumberFacts
    <3>3. c.state # TCP_SYN_SENT
      BY <3>1, <3>2 DEF Acks, Gained
    <3>4. Heard(c)
      BY <3>3 DEF Live, Opening, Heard
    <3> QED BY <1>1, <2>2, <3>4 DEF Tidy
  <2> QED BY <1>4, <2>1, <2>2
<1> QED BY <1>1, <1>2, <1>3, <1>5 DEF NeatOwn, Neat

LEMMA RetransTidy ==
  ASSUME NEW m \in Marks, NEW own \in Cuts, NEW peers \in Cuts,
         NEW c \in TypedStream, Careful(c, m), Tidy(c, m, own, peers)
  PROVE  Tidy(Retrans(c), m, own, peers)
<1>1. PICK d : d = Retrans(c)
  OBVIOUS
<1>2. Retransmits(c, d)
  BY <1>1, RetransIs
<1>3. /\ c.outPkt \in Seq(NeatOut(m, own, peers)) /\ c.tx \subseteq NeatOwn(m, own, peers)
      /\ c.outPkt \in Seq(OwnOut(c, m)) /\ Alike(c, d)
      /\ ~Live(c) => c.outPkt = <<>>
  BY <1>2 DEF Tidy, Careful, Retransmits
<1>4. CASE /\ d.state = c.state /\ d.tx = c.tx
           /\ d.inPkt = c.inPkt /\ d.outPkt = c.outPkt
  BY <1>1, <1>3, <1>4, EvenTidy
<1>5. CASE /\ d.state = TCP_CLOSED /\ d.tx = c.tx
           /\ d.inPkt = <<>> /\ d.outPkt = <<>>
  <2>1. ~Live(d)
    BY <1>5, LiveStates
  <2> QED BY <1>1, <1>3, <1>5, <2>1, TidyClosed
<1>6. ASSUME c.outPkt # <<>>, d.state = c.state, d.inPkt = c.inPkt,
             NEW p \in ShortPacket, NEW n \in Nat,
             SentAgain(p, c.outPkt[1].pkt, c), d.tx = c.tx \cup {p},
             d.outPkt = [c.outPkt EXCEPT ![1] = [pkt |-> p, retrans |-> n]]
      PROVE  Tidy(d, m, own, peers)
  <2>1. /\ 1 \in 1 .. Len(c.outPkt) /\ c.outPkt[1] \in OwnOut(c, m) /\ Live(c)
        /\ c.outPkt[1] \in NeatOut(m, own, peers)
    BY <1>3, <1>6
  <2>2. PICK x \in OwnPackets(c, m) : x = c.outPkt[1].pkt /\ x \in NeatOwn(m, own, peers)
    BY <2>1 DEF OwnOut, NeatOut
  <2>3. /\ p \in NeatOwn(m, own, peers)
        /\ From(p, m.o) = From(x, m.o) /\ To(p, m.o) = To(x, m.o)
    BY <1>6, <2>1, <2>2, AgainNeat
  <2>4. PICK out : out = [pkt |-> p, retrans |-> n]
    OBVIOUS
  <2>5. out \in NeatOut(m, own, peers) /\ out.pkt = p
    BY <2>3, <2>4 DEF NeatOut
  <2>6. d.outPkt \in Seq(NeatOut(m, own, peers))
    BY <1>3, <1>6, <2>1, <2>4, <2>5, ExceptSeq
  <2>7. ASSUME NEW y \in Nat, Covered(y, c.outPkt, m.o)
        PROVE  Covered(y, d.outPkt, m.o)
    <3>1. PICK i \in 1 .. Len(c.outPkt) :
                 From(c.outPkt[i].pkt, m.o) <= y /\ y < To(c.outPkt[i].pkt, m.o)
      BY <2>7 DEF Covered
    <3>2. Len(d.outPkt) = Len(c.outPkt)
          /\ d.outPkt[i] = IF i = 1 THEN out ELSE c.outPkt[i]
      BY <1>3, <1>6, <2>4
    <3>3. /\ From(d.outPkt[i].pkt, m.o) = From(c.outPkt[i].pkt, m.o)
          /\ To(d.outPkt[i].pkt, m.o) = To(c.outPkt[i].pkt, m.o)
      BY <2>2, <2>3, <2>5, <3>2
    <3> QED BY <3>1, <3>2, <3>3 DEF Covered
  <2>8. d.tx \subseteq NeatOwn(m, own, peers)
    BY <1>3, <1>6, <2>3
  <2> QED BY <1>3, <1>6, <2>6, <2>7, <2>8, EvenTidy
<1>7. Tidy(d, m, own, peers)
  BY <1>1, <1>2, <1>4, <1>5, <1>6 DEF Retransmits
<1> QED BY <1>1, <1>7

LEMMA CoveredEither ==
  ASSUME NEW S, NEW T, NEW q \in Seq(S), NEW new \in Seq(T), NEW x, NEW o,
         Covered(x, q, o) \/ Covered(x, new, o)
  PROVE  Covered(x, q \o new, o)
<1>1. /\ Len(q \o new) = Len(q) + Len(new) /\ Len(q) \in Nat /\ Len(new) \in Nat
      /\ \A i \in 1 .. Len(q) : (q \o new)[i] = q[i]
      /\ \A i \in 1 .. Len(new) : (q \o new)[Len(q) + i] = new[i]
  OBVIOUS
<1>2. CASE Covered(x, q, o)
  <2>1. PICK i \in 1 .. Len(q) : From(q[i].pkt, o) <= x /\ x < To(q[i].pkt, o)
    BY <1>2 DEF Covered
  <2>2. i \in 1 .. Len(q \o new) /\ (q \o new)[i] = q[i]
    BY <1>1
  <2> QED BY <2>1, <2>2 DEF Covered
<1>3. CASE Covered(x, new, o)
  <2>1. PICK i \in 1 .. Len(new) : From(new[i].pkt, o) <= x /\ x < To(new[i].pkt, o)
    BY <1>3 DEF Covered
  <2>2. Len(q) + i \in 1 .. Len(q \o new) /\ (q \o new)[Len(q) + i] = new[i]
    BY <1>1
  <2> QED BY <2>1, <2>2 DEF Covered
<1> QED BY <1>2, <1>3

(* d is c after it has sent new, which continues the cuts from own to own2.*)
LEMMA SentTidy ==
  ASSUME NEW m \in Marks, NEW own \in Cuts, NEW own2 \in Cuts, NEW peers \in Cuts,
         Continues(own, own2),
         NEW c \in TypedStream, Tidy(c, m, own, peers), Opened(c),
         NEW new \in Seq(NeatOut(m, own2, peers)), NEW d \in TypedStream,
         d.state = c.state, d.outAcked = c.outAcked,
         d.inAckno = c.inAckno, d.inPkt = c.inPkt,
         d.outPkt = c.outPkt \o new,
         d.tx \subseteq c.tx \cup {new[i].pkt : i \in 1 .. Len(new)},
         Before(d.outSeqno, m.o) \in own2,
         \A x \in own2 : x <= 1 \/ x <= Before(d.outSeqno, m.o),
         \A x \in Nat : Before(c.outSeqno, m.o) <= x /\ x < Before(d.outSeqno, m.o)
                          => Covered(x, new, m.o)
  PROVE  Tidy(d, m, own2, peers)
<1>1. /\ NeatOwn(m, own, peers) \subseteq NeatOwn(m, own2, peers)
      /\ NeatPeer(m, own, peers) \subseteq NeatPeer(m, own2, peers)
      /\ Seq(NeatOut(m, own, peers)) \subseteq Seq(NeatOut(m, own2, peers))
      /\ Seq(NeatPeer(m, own, peers)) \subseteq Seq(NeatPeer(m, own2, peers))
  BY SameCuts, NeatAllWider
<1>2. /\ c.outPkt \in Seq(NeatOut(m, own2, peers))
      /\ c.inPkt \in Seq(NeatPeer(m, own2, peers))
      /\ c.tx \subseteq NeatOwn(m, own2, peers)
  BY <1>1 DEF Tidy
<1>3. d.outPkt \in Seq(NeatOut(m, own2, peers))
  BY <1>2, ConcatProperties
<1>4. d.tx \subseteq NeatOwn(m, own2, peers)
  <2>1. \A i \in 1 .. Len(new) : new[i].pkt \in NeatOwn(m, own2, peers)
    BY KeptNeat
  <2> QED BY <1>2, <2>1
<1>5. Opened(d) /\ ~Opening(d) /\ Live(c) /\ Heard(c)
  BY LiveStates DEF Opened
<1>6. Holds(d, m)
  <2> SUFFICES ASSUME NEW x \in Nat, 1 <= x, x < Before(d.outSeqno, m.o), m.reach <= x
               PROVE  Covered(x, d.outPkt, m.o)
    BY DEF Holds
  <2>1. Before(c.outSeqno, m.o) \in Nat
    BY NumberFacts
  <2>2. x < Before(c.outSeqno, m.o) => Covered(x, c.outPkt, m.o)
    BY <1>5 DEF Tidy, Holds
  <2>3. Before(c.outSeqno, m.o) <= x => Covered(x, new, m.o)
    OBVIOUS
  <2> QED BY <1>2, <2>1, <2>2, <2>3, CoveredEither
<1>7. Before(d.outAcked, m.o) \in own2 /\ Before(d.inAckno, m.po) \in peers
  BY <1>5 DEF Tidy, Continues
<1> QED BY <1>2, <1>3, <1>4, <1>5, <1>6, <1>7 DEF Tidy

(* The rest of the queue goes out in one packet: one more cut.             *)
LEMMA SendRestTidy ==
  ASSUME NEW m \in Marks, NEW own \in Cuts, NEW peers \in Cuts,
         NEW c \in TypedStream, Careful(c, m), Tidy(c, m, own, peers),
         Opened(c), c.known, Len(c.inQueue) <= MaxSeg,
         Before(c.outSeqno, m.o) + Len(c.inQueue) < SeqMod
  PROVE  \E own2 \in Cuts :
           /\ Continues(own, own2)
           /\ Tidy(ToSend([c EXCEPT !.inQueue = <<>>], DataPkt(c.inQueue), TRUE),
                   m, own2, peers)
<1> DEFINE none == <<>>
           pkt == DataPkt(c.inQueue)
           sent == Before(c.outSeqno, m.o)
           L == Len(c.inQueue)
           own2 == own \cup {sent + L}
<1>1. c = Fields(c) /\ c.inQueue \in Seq(Byte) /\ L \in Nat
  BY TypedParts DEF TypedStream
<1>2. /\ sent \in Nat /\ sent \in own /\ 1 <= sent /\ sent + L < SeqMod
      /\ own \subseteq Nat /\ {0, 1} \subseteq own
      /\ \A x \in own : x <= sent
  <2>1. sent \in Nat /\ 1 <= sent
    BY NumberFacts DEF Careful
  <2>2. sent \in own /\ \A x \in own : x <= 1 \/ x <= sent
    BY LiveStates DEF Tidy
  <2> HIDE DEF sent
  <2> QED BY <2>1, <2>2 DEF Cuts, sent
<1>3. PICK x : x = [c EXCEPT !.inQueue = none]
  OBVIOUS
<1>4. x \in TypedStream
  <2>1. none \in Seq(Byte)
    OBVIOUS
  <2> HIDE DEF none
  <2> QED BY <1>3, <2>1, InQueueType
<1>5. /\ x.state = c.state /\ Alike(c, x) /\ x.tx = c.tx /\ x.known = c.known
      /\ x.inPkt = c.inPkt /\ x.outPkt = c.outPkt
  <2> HIDE DEF none
  <2> QED BY <1>1, <1>3 DEF Fields, Alike
<1>6. pkt \in Flags /\ pkt.data = c.inQueue /\ ~pkt.syn /\ pkt.ack /\ TRUE \in BOOLEAN
  BY <1>1 DEF DataPkt, AckPkt, Flags
<1>7. PICK d : d = ToSend(x, pkt, TRUE)
  OBVIOUS
<1>8. PICK p : p = Made(x, pkt)
  OBVIOUS
<1>9. /\ d \in TypedStream /\ p \in ShortPacket
      /\ p.seqno = c.outSeqno /\ p.data = c.inQueue
  BY <1>4, <1>5, <1>6, <1>7, <1>8, ToSendType, MadeType DEF Alike
<1>10. p.ackno = c.inAckno
  BY <1>5, <1>6, <1>8 DEF Made, Alike
<1>11. PICK out : out = [pkt |-> p, retrans |-> 0]
  OBVIOUS
<1>12. /\ d.state = c.state /\ d.inAckno = c.inAckno /\ d.inPkt = c.inPkt
       /\ d.outAcked = c.outAcked
       /\ d.tx = c.tx \cup {p} /\ d.outPkt = Append(c.outPkt, out)
       /\ d.outSeqno = SeqAdd(c.outSeqno, L)
  <2>1. SentAs(d, x, pkt, TRUE)
    BY <1>4, <1>6, <1>7, ToSendFields
  <2>2. d.outAcked = x.outAcked
    BY <1>4, <1>6, <1>7, ToSendKeeps
  <2> QED BY <1>5, <1>6, <1>8, <1>11, <2>1, <2>2 DEF SentAs, Alike
<1> HIDE DEF none, pkt
<1>13. From(p, m.o) = sent /\ To(p, m.o) = sent + L
  BY <1>9 DEF From, To
<1>14. Before(d.outSeqno, m.o) = sent + L
  BY <1>1, <1>2, <1>12, NumberFacts, BeforeSum
<1> HIDE DEF sent, L
<1>15. own2 \in Cuts /\ Continues(own, own2) /\ \A y \in own2 : y <= sent + L
  BY <1>1, <1>2 DEF Cuts, Continues
<1>16. p \in NeatOwn(m, own2, peers)
  <2>1. Intact(p, m.o, own2)
    BY <1>1, <1>2, <1>13 DEF Intact
  <2>2. Before(p.ackno, m.po) \in peers
    BY <1>10, LiveStates DEF Tidy
  <2> QED BY <1>9, <2>1, <2>2 DEF NeatOwn, Neat
<1>17. out \in NeatOut(m, own2, peers) /\ out.pkt = p
  BY <1>11, <1>16 DEF NeatOut
<1> HIDE DEF own2
<1>18. PICK new : new = <<out>>
  OBVIOUS
<1>19. new \in Seq(NeatOut(m, own2, peers)) /\ Len(new) = 1 /\ new[1] = out
  BY <1>17, <1>18
<1>20. d.outPkt = c.outPkt \o new
  <2>1. c.outPkt \in Seq(NeatOut(m, own2, peers))
    BY <1>2, <1>15, SameCuts, NeatAllWider DEF Tidy
  <2> QED BY <1>12, <1>17, <1>18, <2>1, AppendIsConcat
<1>21. d.tx \subseteq c.tx \cup {new[i].pkt : i \in 1 .. Len(new)}
  BY <1>12, <1>17, <1>19
<1>22. ASSUME NEW y \in Nat, sent <= y, y < sent + L
       PROVE  Covered(y, new, m.o)
  BY <1>13, <1>17, <1>19, <1>22 DEF Covered
<1>23. Before(d.outSeqno, m.o) \in own2
  BY <1>14 DEF own2
<1>24. Tidy(d, m, own2, peers)
  <2>1. \A y \in own2 : y <= 1 \/ y <= Before(d.outSeqno, m.o)
    BY <1>14, <1>15
  <2>2. \A y \in Nat : Before(c.outSeqno, m.o) <= y /\ y < Before(d.outSeqno, m.o)
                         => Covered(y, new, m.o)
    BY <1>14, <1>22 DEF sent
  <2>3. /\ own2 \in Cuts /\ Continues(own, own2)
        /\ d.state = c.state /\ d.outAcked = c.outAcked
        /\ d.inAckno = c.inAckno /\ d.inPkt = c.inPkt /\ d \in TypedStream
        /\ new \in Seq(NeatOut(m, own2, peers))
    BY <1>9, <1>12, <1>15, <1>19
  <2> QED BY <1>20, <1>21, <1>23, <2>1, <2>2, <2>3, SentTidy
<1> QED BY <1>3, <1>7, <1>15, <1>24 DEF none, pkt

(* Multiples of MaxSeg, the places where full segments are cut off.        *)
LEMMA MultiplesGrow ==
  ASSUME NEW i \in Nat, NEW j \in Nat, j <= i
  PROVE  j * MaxSeg \in Nat /\ i * MaxSeg \in Nat /\ j * MaxSeg <= i * MaxSeg
<1>1. 0 * MaxSeg = 0 /\ i * MaxSeg \in Nat
  BY Sizes
<1>2. CASE j = 0
  BY <1>1, <1>2
<1>3. CASE j # 0
  <2>1. j \in 1 .. i
    BY <1>3
  <2> QED BY <1>1, <2>1, SegmentBounds
<1> QED BY <1>2, <1>3

(* Every place before the last cut lies in one of the segments.            *)
LEMMA SegmentAt ==
  ASSUME NEW n \in Nat, NEW y \in Nat, y < n * MaxSeg
  PROVE  \E i \in 1 .. n : (i - 1) * MaxSeg <= y /\ y < i * MaxSeg
<1> DEFINE T == {i \in 1 .. n : y < i * MaxSeg}
<1>1. 0 * MaxSeg = 0
  BY Sizes
<1>2. n \in T
  BY <1>1
<1>3. PICK i \in T : \A j \in T : i <= j
  <2>1. T \subseteq Nat /\ T # {}
    BY <1>2
  <2> HIDE DEF T
  <2> QED BY <2>1, Least
<1>4. i \in 1 .. n /\ y < i * MaxSeg
  OBVIOUS
<1>5. (i - 1) * MaxSeg <= y
  <2>1. CASE i = 1
    BY <1>1, <2>1
  <2>2. CASE i # 1
    <3>1. i - 1 \in 1 .. n /\ i - 1 \notin T
      BY <1>3, <1>4, <2>2
    <3>2. (i - 1) * MaxSeg \in Nat
      BY <1>4, SegmentBounds
    <3> QED BY <3>1, <3>2
  <2> QED BY <2>1, <2>2
<1> QED BY <1>4, <1>5

(* The cuts that n full segments make of what starts at sent.              *)
SegmentCuts(sent, n) == {sent + i * MaxSeg : i \in 0 .. n}

LEMMA SegmentCutsAre ==
  ASSUME NEW own \in Cuts, NEW sent \in own, \A x \in own : x <= sent, NEW n \in Nat
  PROVE  /\ own \cup SegmentCuts(sent, n) \in Cuts
         /\ Continues(own, own \cup SegmentCuts(sent, n))
         /\ \A x \in own \cup SegmentCuts(sent, n) : x <= sent + n * MaxSeg
         /\ sent + n * MaxSeg \in SegmentCuts(sent, n)
<1>1. own \subseteq Nat /\ sent \in Nat /\ n \in 0 .. n
  BY DEF Cuts
<1>2. ASSUME NEW i \in 0 .. n
      PROVE  i * MaxSeg \in Nat /\ n * MaxSeg \in Nat /\ i * MaxSeg <= n * MaxSeg
  BY MultiplesGrow
<1>3. ASSUME NEW x \in SegmentCuts(sent, n)
      PROVE  x \in Nat /\ sent <= x /\ x <= sent + n * MaxSeg
  <2>1. PICK i \in 0 .. n : x = sent + i * MaxSeg
    BY DEF SegmentCuts
  <2> QED BY <1>1, <1>2, <2>1
<1>4. n * MaxSeg \in Nat
  BY <1>1, <1>2
<1>5. \A x \in own : x \in Nat /\ x <= sent + n * MaxSeg
  <2> SUFFICES ASSUME NEW x \in own
               PROVE  x \in Nat /\ x <= sent + n * MaxSeg
    OBVIOUS
  <2>1. x \in Nat /\ x <= sent
    BY <1>1
  <2> QED BY <1>1, <1>4, <2>1
<1>6. own \cup SegmentCuts(sent, n) \in Cuts
  BY <1>3, <1>5 DEF Cuts
<1>7. Continues(own, own \cup SegmentCuts(sent, n))
  <2> SUFFICES ASSUME NEW x \in own, NEW y \in SegmentCuts(sent, n)
               PROVE  x <= y
    BY DEF Continues
  <2>1. x \in Nat /\ x <= sent /\ y \in Nat /\ sent <= y
    BY <1>1, <1>3
  <2> QED BY <1>1, <2>1
<1>8. sent + n * MaxSeg \in SegmentCuts(sent, n)
  BY <1>1 DEF SegmentCuts
<1> QED BY <1>3, <1>5, <1>6, <1>7, <1>8

(* The place of the i-th segment, p.                                       *)
Reaches(p, o, sent, i) ==
    From(p, o) = sent + (i - 1) * MaxSeg /\ To(p, o) = sent + i * MaxSeg

LEMMA SegmentNeat ==
  ASSUME NEW m \in Marks, NEW own \in Cuts, NEW peers \in Cuts,
         NEW c \in TypedStream, Heard(c), Before(c.inAckno, m.po) \in peers,
         NEW sent \in own, sent = Before(c.outSeqno, m.o), \A x \in own : x <= sent,
         NEW n \in Nat, n * MaxSeg <= Len(c.inQueue), n * MaxSeg <= MaxWin,
         sent + Len(c.inQueue) < SeqMod
  PROVE  \A i \in 1 .. n :
           /\ Segment(c, i) \in NeatOwn(m, own \cup SegmentCuts(sent, n), peers)
           /\ Reaches(Segment(c, i), m.o, sent, i)
<1> SUFFICES ASSUME NEW i \in 1 .. n
             PROVE  /\ Segment(c, i) \in NeatOwn(m, own \cup SegmentCuts(sent, n), peers)
                    /\ Reaches(Segment(c, i), m.o, sent, i)
  OBVIOUS
<1> DEFINE p == Segment(c, i)
           from == (i - 1) * MaxSeg
           to == i * MaxSeg
           total == n * MaxSeg
           L == Len(c.inQueue)
           own2 == own \cup SegmentCuts(sent, n)
<1>1. from \in Nat /\ to \in Nat /\ to = from + MaxSeg /\ to <= total /\ total \in Nat
  BY SegmentBounds, Sizes
<1>2. /\ L \in Nat /\ total <= L /\ sent + L < SeqMod
      /\ sent \in Nat /\ c.outSeqno \in SeqNum /\ m.o \in SeqNum
  <2>1. L \in Nat
    BY DEF TypedStream
  <2>2. sent \in Nat
    BY DEF Cuts
  <2> QED BY <2>1, <2>2, NumberFacts
<1>3. p \in ShortPacket /\ Len(p.data) = MaxSeg
  BY SegmentType
<1>4. p.seqno = SeqAdd(c.outSeqno, from) /\ p.ackno = c.inAckno
  BY DEF Segment
<1>5. MaxSeg \in Nat /\ SeqMod \in Nat
  BY Sizes
<1>6. \A x \in own2 : x <= sent \/ \E j \in 0 .. n : x = sent + j * MaxSeg
  BY DEF SegmentCuts
<1>7. sent + from \in own2 /\ sent + to \in own2
  <2>1. i - 1 \in 0 .. n /\ i \in 0 .. n
    OBVIOUS
  <2> QED BY <2>1 DEF SegmentCuts
<1>8. \A j \in 0 .. n : /\ j * MaxSeg \in Nat
                        /\ j * MaxSeg <= from \/ to <= j * MaxSeg
  <2> SUFFICES ASSUME NEW j \in 0 .. n
               PROVE  /\ j * MaxSeg \in Nat
                      /\ j * MaxSeg <= from \/ to <= j * MaxSeg
    OBVIOUS
  <2>1. i \in Nat /\ i - 1 \in Nat /\ j \in Nat
    OBVIOUS
  <2>2. j <= i - 1 => j * MaxSeg \in Nat /\ j * MaxSeg <= from
    BY <2>1, MultiplesGrow
  <2>3. i <= j => j * MaxSeg \in Nat /\ to <= j * MaxSeg
    BY <2>1, MultiplesGrow
  <2>4. j <= i - 1 \/ i <= j
    BY <2>1
  <2> QED BY <2>2, <2>3, <2>4
<1> HIDE DEF p, from, to, total, L, own2
<1>9. From(p, m.o) = sent + from
  <2>1. sent + from < SeqMod
    BY <1>1, <1>2, <1>5
  <2> QED BY <1>1, <1>2, <1>4, <2>1, BeforeSum DEF From
<1>10. To(p, m.o) = sent + to
  BY <1>1, <1>2, <1>3, <1>5, <1>9 DEF From, To
<1>11. \A x \in own2 : x <= sent + from \/ sent + to <= x
  <2> SUFFICES ASSUME NEW x \in own2
               PROVE  x <= sent + from \/ sent + to <= x
    OBVIOUS
  <2>1. CASE x \in own
    <3>1. x \in Nat /\ x <= sent
      BY <2>1 DEF Cuts
    <3> QED BY <1>1, <1>2, <3>1
  <2>2. CASE x \notin own
    <3>1. PICK j \in 0 .. n : x = sent + j * MaxSeg
      BY <2>2 DEF own2, SegmentCuts
    <3>2. PICK z \in Nat : z = j * MaxSeg /\ (z <= from \/ to <= z)
      BY <1>8
    <3>3. /\ x = sent + z /\ z \in Nat /\ sent \in Nat /\ from \in Nat /\ to \in Nat
          /\ z <= from \/ to <= z
      BY <1>1, <1>2, <3>1, <3>2
    <3> QED BY ONLY <3>3
  <2> QED BY <2>1, <2>2
<1>12. Intact(p, m.o, own2)
  <2>1. sent + to < SeqMod
    BY <1>1, <1>2, <1>5
  <2> QED BY <1>7, <1>9, <1>10, <1>11, <2>1 DEF Intact
<1>13. p \in NeatOwn(m, own2, peers)
  BY <1>3, <1>4, <1>12 DEF NeatOwn, Neat
<1> QED BY <1>9, <1>10, <1>13 DEF p, from, to, own2, Reaches

LEMMA SendSegmentsTidy ==
  ASSUME NEW m \in Marks, NEW own \in Cuts, NEW peers \in Cuts,
         NEW c \in TypedStream, Careful(c, m), Tidy(c, m, own, peers),
         Opened(c), c.known,
         NEW n \in Nat, n * MaxSeg <= Len(c.inQueue), n * MaxSeg <= MaxWin,
         Before(c.outSeqno, m.o) + Len(c.inQueue) < SeqMod
  PROVE  \E own2 \in Cuts :
           Continues(own, own2) /\ Tidy(SendSegments(c, n), m, own2, peers)
<1> DEFINE total == n * MaxSeg
           rest == SubSeq(c.inQueue, total + 1, Len(c.inQueue))
           seqno == SeqAdd(c.outSeqno, total)
           tx == c.tx \cup {Segment(c, i) : i \in 1 .. n}
           new == [i \in 1 .. n |-> [pkt |-> Segment(c, i), retrans |-> 0]]
           q == c.outPkt \o new
           on == TRUE
           ack == c.inAckno
           win == c.inWin
           sent == Before(c.outSeqno, m.o)
           own2 == own \cup SegmentCuts(sent, n)
           L == Len(c.inQueue)
<1>1. PICK d : d = SendSegments(c, n)
  OBVIOUS
<1>2. d \in TypedStream /\ c = Fields(c)
  BY <1>1, SendSegmentsType, TypedParts
<1>3. total \in Nat /\ L \in Nat /\ total <= L
  <2>1. total \in Nat
    BY Sizes
  <2>2. L \in Nat
    BY DEF TypedStream
  <2> QED BY <2>1, <2>2
<1>4. d = [c EXCEPT !.inQueue = rest, !.outSeqno = seqno,
                    !.lastAck = ack, !.lastWin = win,
                    !.tx = tx, !.timerOn = on, !.outPkt = q]
  BY <1>1 DEF SendSegments
<1> HIDE DEF rest, seqno, tx, q, on, ack, win
<1>5. /\ d.state = c.state /\ d.inAckno = c.inAckno /\ d.inPkt = c.inPkt
      /\ d.outAcked = c.outAcked
      /\ d.outSeqno = seqno /\ d.tx = tx /\ d.outPkt = q
  BY <1>2, <1>4 DEF Fields
<1>6. /\ sent \in Nat /\ sent \in own /\ sent + L < SeqMod
      /\ \A x \in own : x <= sent
  <2>1. sent \in Nat /\ 1 <= sent
    BY NumberFacts DEF Careful
  <2>2. sent \in own /\ \A x \in own : x <= 1 \/ x <= sent
    BY LiveStates DEF Tidy
  <2> HIDE DEF sent
  <2>3. own \subseteq Nat
    BY DEF Cuts
  <2> QED BY <2>1, <2>2, <2>3 DEF sent
<1>7. /\ own2 \in Cuts /\ Continues(own, own2)
      /\ \A x \in own2 : x <= sent + total
      /\ sent + total \in own2
  <2> HIDE DEF sent
  <2> QED BY <1>6, SegmentCutsAre
<1>8. Heard(c) /\ Before(c.inAckno, m.po) \in peers
  BY LiveStates DEF Tidy
<1>9. \A i \in 1 .. n :
         /\ Segment(c, i) \in NeatOwn(m, own2, peers)
         /\ Reaches(Segment(c, i), m.o, sent, i)
  <2>1. PICK s \in own : s = sent
    BY <1>6
  <2>2. s = Before(c.outSeqno, m.o) /\ s + Len(c.inQueue) < SeqMod /\ \A x \in own : x <= s
    BY <1>6, <2>1
  <2>3. \A i \in 1 .. n :
          /\ Segment(c, i) \in NeatOwn(m, own \cup SegmentCuts(s, n), peers)
          /\ Reaches(Segment(c, i), m.o, s, i)
    BY <1>8, <2>2, SegmentNeat
  <2> HIDE DEF sent
  <2> QED BY <2>1, <2>3
<1>10. Before(d.outSeqno, m.o) = sent + total
  <2>1. c.outSeqno \in SeqNum /\ m.o \in SeqNum /\ SeqMod \in Nat
    BY NumberFacts, Sizes
  <2> HIDE DEF total, L
  <2>2. Before(c.outSeqno, m.o) + total < SeqMod
    BY <1>3, <1>6, <2>1
  <2> QED BY <1>3, <1>5, <2>1, <2>2, BeforeSum DEF seqno
<1> HIDE DEF own2
<1>11. new \in Seq(NeatOut(m, own2, peers)) /\ Len(new) = n
       /\ \A i \in 1 .. n : new[i].pkt = Segment(c, i)
  <2>1. \A i \in 1 .. n : [pkt |-> Segment(c, i), retrans |-> 0] \in NeatOut(m, own2, peers)
    BY <1>9 DEF NeatOut
  <2> QED BY <2>1
<1> HIDE DEF new
<1>12. d.outPkt = c.outPkt \o new
  BY <1>5 DEF q
<1>13. d.tx \subseteq c.tx \cup {new[i].pkt : i \in 1 .. Len(new)}
  BY <1>5, <1>11 DEF tx
<1> HIDE DEF sent, total
<1>14. ASSUME NEW x \in Nat, sent <= x, x < sent + total
       PROVE  Covered(x, new, m.o)
  <2>1. x - sent \in Nat /\ x - sent < total
    BY <1>3, <1>6, <1>14
  <2>2. PICK i \in 1 .. n : (i - 1) * MaxSeg <= x - sent /\ x - sent < i * MaxSeg
    BY <2>1, SegmentAt DEF total
  <2>3. (i - 1) * MaxSeg \in Nat /\ i * MaxSeg \in Nat
    BY SegmentBounds
  <2>4. /\ From(new[i].pkt, m.o) = sent + (i - 1) * MaxSeg
        /\ To(new[i].pkt, m.o) = sent + i * MaxSeg
    BY <1>9, <1>11 DEF Reaches
  <2>5. From(new[i].pkt, m.o) <= x /\ x < To(new[i].pkt, m.o)
    <3>1. PICK f \in Nat : f = (i - 1) * MaxSeg
      BY <2>3
    <3>2. PICK t \in Nat : t = i * MaxSeg
      BY <2>3
    <3> QED BY <1>6, <2>2, <2>4, <3>1, <3>2
  <2> QED BY <1>11, <2>5 DEF Covered
<1>15. Tidy(d, m, own2, peers)
  BY <1>2, <1>5, <1>7, <1>10, <1>11, <1>12, <1>13, <1>14, SentTidy DEF sent
<1> QED BY <1>1, <1>7, <1>15

LEMMA SendTidy ==
  ASSUME NEW m \in Marks, NEW k \in Context, HalfFits(k, m),
         NEW own \in Cuts, NEW peers \in Cuts, NEW c, NEW c0,
         Since(c, c0, m), Fine(c, c0, k), Tidy(c, m, own, peers), NEW rto, NEW idle
  PROVE  \E own2 \in Cuts :
           /\ Continues(own, own2) /\ (Opened(c) \/ own2 = own)
           /\ Tidy(Send(c, rto, idle), m, own2, peers)
<1> DEFINE a == Acknowledge(c)
           d == IF rto THEN Retrans(a) ELSE a
           full == Len(d.inQueue) \div MaxSeg
           room == MaxSend(d) \div MaxSeg
           n == IF full < room THEN full ELSE room
           rest == ToSend([d EXCEPT !.inQueue = <<>>], DataPkt(d.inQueue), TRUE)
           Gone(x) == \E own2 \in Cuts :
                        Continues(own, own2) /\ Tidy(x, m, own2, peers)
<1>0. Fits(k, m)
  <2>1. k.w \in 0 .. SeqMod - 1 /\ SeqMod \in Nat
    BY Sizes DEF Context
  <2> QED BY <2>1 DEF Fits, HalfFits
<1>1. /\ Since(d, c0, m) /\ Fine(d, c0, k) /\ Tidy(d, m, own, peers)
      /\ d.state \in {c.state, TCP_CLOSED}
  <2>1. Since(a, c0, m) /\ Fine(a, c0, k)
    BY AcknowledgeSince, AcknowledgeFine
  <2>2. c \in TypedStream /\ Careful(c, m)
    BY DEF Since
  <2>3. Live(c) => 2 * Before(c.outSeqno, m.o) < SeqMod
    BY HalfRoom
  <2>4. Tidy(a, m, own, peers)
    BY <2>2, <2>3, AcknowledgeTidy
  <2>5. a.state = c.state
    <3>1. c.outPkt \in Seq(ShortOut)
      BY <2>2 DEF TypedStream
    <3> QED BY <2>2, <3>1, AcknowledgeFields
  <2> HIDE DEF a
  <2>6. Since(Retrans(a), c0, m) /\ Fine(Retrans(a), c0, k)
    BY <2>1, RetransSince, RetransFine
  <2>7. Tidy(Retrans(a), m, own, peers) /\ Retransmits(a, Retrans(a))
    BY <2>1, <2>4, RetransTidy, RetransIs DEF Since
  <2>8. Retrans(a).state \in {a.state, TCP_CLOSED}
    BY <2>7 DEF Retransmits
  <2> QED BY <2>1, <2>4, <2>5, <2>6, <2>7, <2>8
<1>typed. d \in TypedStream /\ Careful(d, m)
  <2> HIDE DEF d
  <2> QED BY <1>1 DEF Since
<1> HIDE DEF d
<1>queue. Len(d.inQueue) \in Nat /\ d.state \in 0 .. 10
  BY <1>typed DEF TypedStream
<1>room. Opened(d) => d.known /\ Before(d.outSeqno, m.o) + Len(d.inQueue) < SeqMod
  BY <1>0, <1>1, RoomLeft
<1>2. /\ n \in Nat
      /\ n * MaxSeg <= Len(d.inQueue) /\ n * MaxSeg <= MaxWin
  <2>1. MaxSend(d) \in Nat /\ MaxSend(d) <= MaxWin
    BY <1>typed, MaxSendBound, Sizes
  <2>2. full \in Nat /\ room \in Nat
    BY <1>queue, <2>1, QuotientType
  <2>3. n \in Nat /\ n <= full /\ n <= room
    <3> HIDE DEF full, room
    <3> QED BY <2>2
  <2>4. n * MaxSeg <= Len(d.inQueue) /\ n * MaxSeg <= MaxSend(d) /\ n * MaxSeg \in Nat
    <3> HIDE DEF n
    <3> QED BY <1>queue, <2>1, <2>3, Quotient
  <2> HIDE DEF n
  <2>5. n * MaxSeg <= MaxWin
    BY <2>1, <2>4, Sizes
  <2> QED BY <2>3, <2>4, <2>5
<1>3. full = 0 /\ Opened(d) => Gone(rest)
  <2>1. full = 0 => Len(d.inQueue) <= MaxSeg
    <3>1. full = 0 => Len(d.inQueue) < MaxSeg
      BY <1>queue, QuotientType
    <3> QED BY <1>queue, <3>1, Sizes
  <2> QED BY <1>1, <1>typed, <1>room, <2>1, SendRestTidy
<1>4. Opened(d) => Gone(SendSegments(d, n))
  <2> HIDE DEF n
  <2> QED BY <1>1, <1>typed, <1>2, <1>room, SendSegmentsTidy
<1>5. Opened(d) => Gone(SendNothing(d, idle))
  BY <1>1, <1>typed, SendNothingTidy, SameCuts
<1>6. Send(c, rto, idle) \in
        (IF ~Opened(d) THEN {d}
         ELSE {SendSegments(d, n), SendNothing(d, idle)}
                \cup (IF full = 0 THEN {rest} ELSE {}))
  <2>1. ~Opened(d) <=> d.state < TCP_ESTABLISHED
    BY <1>queue, States DEF Opened
  <2> QED BY <2>1 DEF Send, d
<1> HIDE DEF n, full, rest
<1>7. CASE Opened(d)
  <2>1. Gone(Send(c, rto, idle))
    BY <1>3, <1>4, <1>5, <1>6, <1>7
  <2>2. Opened(c)
    BY <1>1, <1>7, LiveStates DEF Opened
  <2> QED BY <2>1, <2>2
<1>8. CASE ~Opened(d)
  BY <1>1, <1>6, <1>8, SameCuts
<1> QED BY <1>7, <1>8

LEMMA CleanupTidy ==
  ASSUME NEW m \in Marks, NEW own, NEW peers,
         NEW c \in TypedStream, Tidy(c, m, own, peers)
  PROVE  Tidy(Cleanup(c), m, own, peers)
<1>1. PICK d : d = Cleanup(c)
  OBVIOUS
<1>2. d.state = TCP_CLOSED /\ d.outPkt = <<>> /\ d.inPkt = <<>> /\ d.tx = c.tx
  BY <1>1, CleanupFields
<1>3. ~Live(d)
  BY <1>2, LiveStates
<1> QED BY <1>1, <1>2, <1>3, TidyClosed DEF Tidy

LEMMA TickTidy ==
  ASSUME NEW m \in Marks, NEW k \in Context, HalfFits(k, m),
         NEW own \in Cuts, NEW peers \in Cuts, NEW c, NEW c0,
         Since(c, c0, m), Fine(c, c0, k), Tidy(c, m, own, peers), NEW t
  PROVE  \E own2 \in Cuts :
           /\ Continues(own, own2) /\ (Opened(c) \/ own2 = own)
           /\ Tidy(TickStream(c, t), m, own2, peers)
<1>1. PICK d : d = RecvCheck(c, t.noPkt)
  OBVIOUS
<1>2. Since(d, c0, m) /\ Fine(d, c0, k)
  BY <1>1, CleanupSince, CleanupFine DEF RecvCheck
<1>3. Tidy(d, m, own, peers) /\ d.state \in {c.state, TCP_CLOSED}
  <2>1. c \in TypedStream
    BY DEF Since
  <2>2. Cleanup(c).state = TCP_CLOSED
    BY <2>1, CleanupFields
  <2> QED BY <1>1, <2>1, <2>2, CleanupTidy DEF RecvCheck
<1>4. Opened(d) => Opened(c)
  BY <1>3, LiveStates DEF Opened
<1>5. PICK own2 \in Cuts :
        /\ Continues(own, own2) /\ (Opened(d) \/ own2 = own)
        /\ Tidy(Send(d, t.rto, t.idle), m, own2, peers)
  BY <1>2, <1>3, SendTidy
<1> QED BY <1>1, <1>4, <1>5 DEF TickStream


(***************************************************************************)
(* The handshake                                                           *)
(***************************************************************************)

(* A stream that opens answers with a bare acknowledgement, which it may   *)
(* keep.                                                                   *)
LEMMA AckedTidy ==
  ASSUME NEW m \in Marks, NEW own \in Cuts, NEW peers \in Cuts,
         NEW c, Tidy(c, m, own, peers), Opening(c),
         NEW d, d.outSeqno = c.outSeqno, d.inPkt = c.inPkt,
         Before(d.outAcked, m.o) \in own, Before(d.inAckno, m.po) \in peers,
         NEW p \in ShortPacket, p.seqno = c.outSeqno,
         p.ackno = d.inAckno, Len(p.data) = 0, d.tx \subseteq c.tx \cup {p},
         d.outPkt \in {c.outPkt, Append(c.outPkt, [pkt |-> p, retrans |-> 0])}
  PROVE  Tidy(d, m, own, peers)
<1>1. Live(c)
  BY DEF Live
<1>2. /\ c.outPkt \in Seq(NeatOut(m, own, peers))
      /\ c.inPkt \in Seq(NeatPeer(m, own, peers))
      /\ c.tx \subseteq NeatOwn(m, own, peers)
  BY DEF Tidy
<1>3. p \in NeatOwn(m, own, peers)
  <2>1. Before(p.seqno, m.o) \in own /\ Before(p.ackno, m.po) \in peers
    BY <1>1 DEF Tidy
  <2> QED BY <2>1, BareNeat
<1>4. PICK out : out = [pkt |-> p, retrans |-> 0]
  OBVIOUS
<1>5. PICK new : new = <<out>>
  OBVIOUS
<1>6. out \in NeatOut(m, own, peers)
  BY <1>3, <1>4 DEF NeatOut
<1>7. new \in Seq(NeatOut(m, own, peers))
  BY <1>5, <1>6
<1>8. d.outPkt = c.outPkt \/ d.outPkt = c.outPkt \o new
  BY <1>2, <1>4, <1>5, <1>6, AppendIsConcat
<1>9. d.outPkt \in Seq(NeatOut(m, own, peers))
  BY <1>2, <1>7, <1>8, ConcatProperties
<1>10. ASSUME NEW x \in Nat, Covered(x, c.outPkt, m.o)
       PROVE  Covered(x, d.outPkt, m.o)
  BY <1>2, <1>7, <1>8, <1>10, CoveredEither
<1>11. d.tx \subseteq NeatOwn(m, own, peers)
  BY <1>2, <1>3
<1> QED BY <1>1, <1>2, <1>9, <1>10, <1>11, TidyOn

(* The packets that come: those of PeerPackets, between the cuts.          *)
NeatPeerPackets(m, own, peers) == PeerPackets(m) \cap NeatPeer(m, own, peers)

LEMMA CrossingTidy ==
  ASSUME NEW m \in Marks, NEW own \in Cuts, NEW peers \in Cuts,
         NEW c, NEW c0, Since(c, c0, m), Tidy(c, m, own, peers),
         c.state = TCP_SYN_SENT,
         NEW p \in NeatPeerPackets(m, own, peers), NEW isn
  PROVE  Tidy(IncomingClosed(c, p, isn), m, own, peers)
<1> DEFINE s == p.seqno
           a == SeqAdd(p.seqno, 1)
           w == p.win
           d == [c EXCEPT !.initPeer = s, !.inAckno = a, !.outWin = w, !.inWin = MaxWin]
           rcvd == TCP_SYN_RCVD
<1> SUFFICES ASSUME p.syn, ~p.ack PROVE Tidy(IncomingClosed(c, p, isn), m, own, peers)
  BY DEF IncomingClosed
<1>1. /\ p \in PeerPackets(m) /\ p \in ShortPacket
      /\ s \in SeqNum /\ w \in Nat /\ MaxWin \in Nat
  BY PeerPacketFacts, ShortPacketParts, Sizes DEF NeatPeerPackets
<1>2. a \in SeqNum /\ Before(a, m.po) \in peers
  BY <1>1, SynHeard, TidyTypes
<1>3. c \in TypedStream /\ Opening(c) /\ Live(c)
  BY LiveStates DEF Since
<1>4. PICK x : x = d
  OBVIOUS
<1>5. x \in TypedStream
  <2> HIDE DEF s, a, w
  <2> QED BY <1>1, <1>2, <1>3, <1>4, HeardType
<1> HIDE DEF s, a, w
<1>6. /\ x.outSeqno = c.outSeqno
      /\ x.outAcked = c.outAcked /\ x.inAckno = a /\ x.inPkt = c.inPkt
      /\ x.outPkt = c.outPkt /\ x.tx = c.tx
  BY ONLY <1>3, <1>4, TypedParts DEF Fields, d
<1>7. IncomingClosed(c, p, isn) = [ToSend(x, AckPkt, TRUE) EXCEPT !.state = rcvd]
  BY <1>4, States DEF IncomingClosed, s, a, w
<1> HIDE DEF d
<1>8. PICK y : y = ToSend(x, AckPkt, TRUE)
  OBVIOUS
<1>9. AckMade(y, x)
  BY <1>5, <1>8, AckIsMade
<1>10. PICK z : z = [y EXCEPT !.state = rcvd]
  OBVIOUS
<1>11. y \in TypedStream
  BY <1>9 DEF AckMade
<1> HIDE DEF rcvd
<1>12. /\ z.outSeqno = y.outSeqno
       /\ z.outAcked = y.outAcked /\ z.inAckno = y.inAckno /\ z.inPkt = y.inPkt
       /\ z.outPkt = y.outPkt /\ z.tx = y.tx
  BY ONLY <1>10, <1>11, TypedParts DEF Fields
<1>13. /\ z.outSeqno = c.outSeqno
       /\ z.outAcked = c.outAcked /\ z.inAckno = a /\ z.inPkt = c.inPkt
  BY <1>6, <1>9, <1>12 DEF AckMade
<1>14. PICK p0 \in ShortPacket :
         /\ ~p0.syn /\ p0.ack /\ p0.seqno = c.outSeqno /\ p0.ackno = z.inAckno
         /\ Len(p0.data) = 0 /\ z.tx \subseteq c.tx \cup {p0}
         /\ z.outPkt \in {c.outPkt, Append(c.outPkt, [pkt |-> p0, retrans |-> 0])}
  BY <1>6, <1>9, <1>12 DEF AckMade
<1>15. Before(z.outAcked, m.o) \in own /\ Before(z.inAckno, m.po) \in peers
  BY <1>2, <1>3, <1>13 DEF Tidy
<1>16. Tidy(z, m, own, peers)
  BY <1>3, <1>13, <1>14, <1>15, AckedTidy
<1> QED BY <1>7, <1>8, <1>10, <1>16

LEMMA AnsweredTidy ==
  ASSUME NEW m \in Marks, NEW own \in Cuts, NEW peers \in Cuts,
         NEW c, NEW c0, Since(c, c0, m), Tidy(c, m, own, peers),
         c.state = TCP_SYN_SENT,
         NEW p \in NeatPeerPackets(m, own, peers), p.syn, p.ack,
         NEW x, x = [c EXCEPT !.initPeer = p.seqno, !.inAckno = SeqAdd(p.seqno, 1)]
  PROVE  Tidy(Establish(SendAck(x), p), m, own, peers)
<1> DEFINE s == p.seqno
           a == SeqAdd(p.seqno, 1)
           w == p.win
           k == p.ackno
           est == TCP_ESTABLISHED
           on == TRUE
<1>1. p \in PeerPackets(m) /\ p \in ShortPacket /\ s \in SeqNum
      /\ Before(k, m.o) \in own
  BY PeerPacketFacts, ShortPacketParts DEF NeatPeerPackets, NeatPeer, Neat
<1>2. a \in SeqNum /\ Before(a, m.po) \in peers
  BY <1>1, SynHeard, TidyTypes
<1>3. c \in TypedStream /\ Opening(c) /\ Live(c)
  BY LiveStates DEF Since
<1>4. x \in TypedStream
  <2> HIDE DEF s, a
  <2> QED BY <1>1, <1>2, <1>3, SynAckedType DEF s, a
<1>5. x = [c EXCEPT !.initPeer = s, !.inAckno = a]
  OBVIOUS
<1> HIDE DEF s, a, w, k
<1>6. /\ x.outSeqno = c.outSeqno
      /\ x.inAckno = a /\ x.inPkt = c.inPkt
      /\ x.outPkt = c.outPkt /\ x.tx = c.tx
  BY ONLY <1>3, <1>5, TypedParts DEF Fields
<1>7. PICK y : y = SendAck(x)
  OBVIOUS
<1>8. AckMade(y, x)
  BY <1>4, <1>7, AckIsMade DEF SendAck
<1>9. PICK z : z = Establish(y, p)
  OBVIOUS
<1>10. y \in TypedStream
  BY <1>8 DEF AckMade
<1>11. z = [y EXCEPT !.outWin = w, !.outAcked = k, !.state = est,
                     !.inActive = on, !.outActive = on]
  BY <1>9 DEF Establish, w, k
<1> HIDE DEF est, on
<1>12. /\ z.outSeqno = y.outSeqno
       /\ z.outAcked = k /\ z.inAckno = y.inAckno /\ z.inPkt = y.inPkt
       /\ z.outPkt = y.outPkt /\ z.tx = y.tx
  BY ONLY <1>10, <1>11, TypedParts DEF Fields
<1>13. z.outSeqno = c.outSeqno /\ z.inAckno = a /\ z.inPkt = c.inPkt
  BY <1>6, <1>8, <1>12 DEF AckMade
<1>14. PICK p0 \in ShortPacket :
         /\ ~p0.syn /\ p0.ack /\ p0.seqno = c.outSeqno /\ p0.ackno = z.inAckno
         /\ Len(p0.data) = 0 /\ z.tx \subseteq c.tx \cup {p0}
         /\ z.outPkt \in {c.outPkt, Append(c.outPkt, [pkt |-> p0, retrans |-> 0])}
  BY <1>6, <1>8, <1>12 DEF AckMade
<1>15. Before(z.outAcked, m.o) \in own /\ Before(z.inAckno, m.po) \in peers
  BY <1>1, <1>2, <1>12, <1>13
<1>16. Tidy(z, m, own, peers)
  BY <1>3, <1>13, <1>14, <1>15, AckedTidy
<1> QED BY <1>7, <1>9, <1>16

LEMMA IncomingSynSentTidy ==
  ASSUME NEW m \in Marks, NEW own \in Cuts, NEW peers \in Cuts,
         NEW c, NEW c0, Since(c, c0, m), Tidy(c, m, own, peers),
         c.state = TCP_SYN_SENT,
         NEW p \in NeatPeerPackets(m, own, peers), NEW isn
  PROVE  Tidy(IncomingSynSent(c, p, isn), m, own, peers)
<1>1. PICK x : x = [c EXCEPT !.initPeer = p.seqno, !.inAckno = SeqAdd(p.seqno, 1)]
  OBVIOUS
<1>2. p.syn /\ p.ack => Tidy(Establish(SendAck(x), p), m, own, peers)
  BY <1>1, AnsweredTidy
<1>3. Tidy(IncomingClosed(c, p, isn), m, own, peers)
  BY CrossingTidy
<1>4. IncomingSynSent(c, p, isn) \in
        (IF p.syn /\ p.ack THEN {c, Establish(SendAck(x), p)}
                           ELSE {IncomingClosed(c, p, isn)})
  BY <1>1 DEF IncomingSynSent
<1> QED BY <1>2, <1>3, <1>4

(* The stream starts where the packet that opens it lies: at a cut.        *)
LEMMA AcceptedTidy ==
  ASSUME NEW m \in Marks, NEW own \in Cuts, NEW peers \in Cuts,
         NEW c, NEW c0, Since(c, c0, m), Tidy(c, m, own, peers),
         c.state = TCP_SYN_RCVD,
         NEW p \in NeatPeerPackets(m, own, peers), p.ack, p.ackno = c.outSeqno
  PROVE  Tidy(Establish([c EXCEPT !.inAckno = p.seqno], p), m, own, peers)
<1> DEFINE s == p.seqno
           w == p.win
           k == p.ackno
           est == TCP_ESTABLISHED
           on == TRUE
<1>1. c \in TypedStream /\ Opening(c) /\ Live(c)
  BY LiveStates DEF Since
<1>2. /\ p \in ShortPacket /\ s \in SeqNum
      /\ Before(s, m.po) \in peers /\ Before(k, m.o) \in own
  BY ShortPacketParts DEF NeatPeerPackets, NeatPeer, Neat, Intact, From
<1>3. PICK x : x = [c EXCEPT !.inAckno = s]
  OBVIOUS
<1>4. PICK z : z = Establish(x, p)
  OBVIOUS
<1>5. z = [x EXCEPT !.outWin = w, !.outAcked = k, !.state = est,
                    !.inActive = on, !.outActive = on]
  BY <1>4 DEF Establish
<1> HIDE DEF s, w, k, est, on
<1>6. x \in TypedStream
  BY <1>1, <1>2, <1>3, InAcknoType
<1>7. /\ x.outSeqno = c.outSeqno /\ x.inAckno = s
      /\ x.inPkt = c.inPkt /\ x.outPkt = c.outPkt /\ x.tx = c.tx
  BY ONLY <1>1, <1>3, TypedParts DEF Fields
<1>8. /\ z.outSeqno = x.outSeqno /\ z.outAcked = k /\ z.inAckno = x.inAckno
      /\ z.inPkt = x.inPkt /\ z.outPkt = x.outPkt /\ z.tx = x.tx
  BY ONLY <1>5, <1>6, TypedParts DEF Fields
<1>9. /\ z.outSeqno = c.outSeqno /\ z.outPkt = c.outPkt /\ z.inPkt = c.inPkt
      /\ z.tx = c.tx
      /\ Before(z.outAcked, m.o) \in own /\ Before(z.inAckno, m.po) \in peers
  BY <1>2, <1>7, <1>8
<1>10. /\ c.outPkt \in Seq(NeatOut(m, own, peers))
       /\ c.inPkt \in Seq(NeatPeer(m, own, peers))
       /\ c.tx \subseteq NeatOwn(m, own, peers)
  BY DEF Tidy
<1>11. Tidy(z, m, own, peers)
  BY <1>1, <1>9, <1>10, TidyOn
<1> QED BY <1>3, <1>4, <1>11 DEF s

LEMMA IncomingSynRcvdTidy ==
  ASSUME NEW m \in Marks, NEW own \in Cuts, NEW peers \in Cuts,
         NEW c, NEW c0, Since(c, c0, m), Tidy(c, m, own, peers),
         c.state = TCP_SYN_RCVD,
         NEW p \in NeatPeerPackets(m, own, peers), p.syn => p.ack \in m.pkinds
  PROVE  Tidy(IncomingSynRcvd(c, p), m, own, peers)
<1>1. PICK d : d = Establish([c EXCEPT !.inAckno = p.seqno], p)
  OBVIOUS
<1>2. p \in PeerPackets(m) /\ p \in NeatPeer(m, own, peers)
  BY DEF NeatPeerPackets
<1>3. p.ack /\ p.ackno = c.outSeqno =>
        Since(d, c0, m) /\ Opened(d) /\ Tidy(d, m, own, peers)
  BY <1>1, <1>2, AcceptedSince, AcceptedTidy
<1>4. p.ack /\ p.ackno = c.outSeqno => Tidy(IncomingEstablished(d, p), m, own, peers)
  BY <1>2, <1>3, IncomingEstablishedTidy DEF Since
<1>5. IncomingSynRcvd(c, p) \in
        (IF p.ack /\ p.ackno = c.outSeqno THEN {d, IncomingEstablished(d, p)} ELSE {c})
  BY <1>1 DEF IncomingSynRcvd
<1> QED BY <1>3, <1>4, <1>5

LEMMA HandleIncomingTidy ==
  ASSUME NEW m \in Marks, NEW own \in Cuts, NEW peers \in Cuts,
         NEW c, NEW c0, Since(c, c0, m), Tidy(c, m, own, peers),
         c.state \notin {TCP_LISTEN, TCP_TIMED_WAIT},
         NEW p \in NeatPeerPackets(m, own, peers), p.syn => p.ack \in m.pkinds,
         NEW isn, ~TakesIsn(c, p)
  PROVE  Tidy(HandleIncoming(c, p, isn), m, own, peers)
<1>1. c.state \in 0 .. 10 /\ c \in TypedStream
  BY DEF Since, TypedStream
<1>2. CASE c.state = TCP_CLOSED
  <2>1. ~(p.syn /\ ~p.ack)
    BY <1>2 DEF TakesIsn
  <2>2. HandleIncoming(c, p, isn) = IncomingClosed(c, p, isn)
    BY <1>2, States DEF HandleIncoming
  <2>3. IncomingClosed(c, p, isn) = c
    BY <2>1 DEF IncomingClosed
  <2> QED BY <2>2, <2>3
<1>3. CASE c.state = TCP_SYN_SENT
  <2>1. HandleIncoming(c, p, isn) = IncomingSynSent(c, p, isn)
    BY <1>3, States DEF HandleIncoming
  <2> QED BY <1>3, <2>1, IncomingSynSentTidy
<1>4. CASE c.state = TCP_SYN_RCVD
  <2>1. HandleIncoming(c, p, isn) = IncomingSynRcvd(c, p)
    BY <1>4, States DEF HandleIncoming
  <2> QED BY <1>4, <2>1, IncomingSynRcvdTidy
<1>5. CASE Opened(c)
  <2>1. HandleIncoming(c, p, isn) = IncomingEstablished(c, p)
    BY <1>1, <1>5, States DEF HandleIncoming, Opened
  <2>2. p \in NeatPeer(m, own, peers)
    BY DEF NeatPeerPackets
  <2> QED BY <1>1, <1>5, <2>1, <2>2, IncomingEstablishedTidy
<1> QED BY <1>1, <1>2, <1>3, <1>4, <1>5, States DEF Opened

(* A stream that has just opened has sent nothing but its SYN.             *)
LEMMA StartedTidy ==
  ASSUME NEW m \in Marks, NEW peers \in Cuts, NEW d \in TypedStream, NEW ack \in BOOLEAN,
         Careful(d, m), Started(d, m, ack, d.state), Opening(d),
         Heard(d) => Before(d.inAckno, m.po) = 1
  PROVE  Tidy(d, m, {0, 1}, peers)
<1> DEFINE own == {0, 1}
           sent == Before(d.outSeqno, m.o)
<1>1. own \in Cuts /\ {0, 1} \subseteq peers
  BY DEF Cuts
<1>2. m.o \in SeqNum /\ m.po \in SeqNum /\ sent \in Nat
  BY NumberFacts
<1>3. Before(m.o, m.o) = 0 /\ Before(SeqAdd(m.o, 1), m.o) = 1
  <2>1. Before(m.o, m.o) = 0 /\ 0 + 1 < SeqMod /\ 1 \in 0 .. SeqMod
    BY <1>2, BeforeType, Sizes
  <2>2. Before(SeqAdd(m.o, 1), m.o) = 0 + 1
    BY <1>2, <2>1, BeforeSum
  <2> QED BY <2>1, <2>2
<1>4. sent \in own /\ Before(d.outAcked, m.o) \in own /\ sent <= 1
  BY <1>3 DEF Started
<1>5. Live(d) /\ ~Opened(d)
  BY LiveStates DEF Live, Opening
<1>6. Gained(d, m.po) \in {0, 1}
  BY <1>5, LiveStates DEF Gained, Live, Heard, Opening
<1> HIDE DEF sent
<1>7. ASSUME NEW p \in OwnPackets(d, m)
      PROVE  p \in NeatOwn(m, own, peers)
  <2>1. p \in ShortPacket /\ Placed(p, m.o, sent) /\ Acks(p, m.po, Gained(d, m.po))
    BY DEF OwnPackets, sent
  <2>2. Before(p.seqno, m.o) \in Nat /\ Len(p.data) \in Nat /\ Before(p.ackno, m.po) \in Nat
    BY <1>2, <2>1, PacketFacts
  <2>3. Before(p.seqno, m.o) + Len(p.data) <= 1
    BY <1>2, <1>4, <2>1, <2>2 DEF Placed
  <2>4. Intact(p, m.o, own)
    BY <2>2, <2>3, Sizes DEF Intact, From, To
  <2>5. p.ack => Before(p.ackno, m.po) \in peers
    BY <1>1, <1>6, <2>1, <2>2 DEF Acks
  <2> QED BY <2>1, <2>4, <2>5 DEF NeatOwn, Neat
<1> HIDE DEF own
<1>8. OwnOut(d, m) \subseteq NeatOut(m, own, peers)
  BY <1>7 DEF OwnOut, NeatOut
<1>9. d.outPkt \in Seq(NeatOut(m, own, peers)) /\ d.tx \subseteq NeatOwn(m, own, peers)
  <2>1. d.outPkt \in Seq(OwnOut(d, m)) /\ d.tx \subseteq OwnPackets(d, m)
    BY DEF Careful, Started
  <2> QED BY <1>7, <1>8, <2>1, SeqMonotonic
<1>10. d.inPkt \in Seq(NeatPeer(m, own, peers))
  <2>1. <<>> \in Seq(NeatPeer(m, own, peers))
    OBVIOUS
  <2> QED BY <2>1 DEF Started
<1>11. Holds(d, m)
  BY <1>2, <1>4 DEF Holds, sent
<1>12. \A x \in own : x <= 1
  BY DEF own
<1> QED BY <1>1, <1>4, <1>9, <1>10, <1>11, <1>12 DEF Tidy, own, sent

(***************************************************************************)
(* The steps                                                               *)
(***************************************************************************)

(* End e between the cuts in what it sends and in what it is sent.         *)
EndFits(e, own, peers) ==
    /\ opens[e] = <<>> => own = {0, 1}
    /\ Tidy(stream[e], MarksOf(e), own, peers)
    /\ net[e] \subseteq NeatPeer(MarksOf(e), own, peers)

BothFit(e, own, peers) == EndFits(e, own, peers) /\ EndFits(Peer(e), peers, own)

CutInv ==
    \E cuts \in [Ends -> Cuts] : \A e \in Ends : EndFits(e, cuts[e], cuts[Peer(e)])

LEMMA CutsNow ==
  ASSUME CutInv, NEW e \in Ends
  PROVE  \E own \in Cuts, peers \in Cuts : BothFit(e, own, peers)
<1>1. PICK cuts \in [Ends -> Cuts] : \A x \in Ends : EndFits(x, cuts[x], cuts[Peer(x)])
  BY DEF CutInv
<1>2. Peer(e) \in Ends /\ Peer(Peer(e)) = e
  BY PeerIsEnd
<1>3. cuts[e] \in Cuts /\ cuts[Peer(e)] \in Cuts
  BY <1>1, <1>2
<1>4. EndFits(e, cuts[e], cuts[Peer(e)]) /\ EndFits(Peer(e), cuts[Peer(e)], cuts[e])
  BY <1>1, <1>2
<1> QED BY <1>3, <1>4 DEF BothFit

LEMMA NextMarksType ==
  ASSUME OpensOnce, Bounded', ReceiptInv', NEW e \in Ends
  PROVE  /\ MarksOf(e)' \in Marks
         /\ MarksOf(e)'.o = Origin(e) /\ MarksOf(e)'.po = Origin(Peer(e))
         /\ MarksOf(e)'.reach = Reach(e)'
<1>1. Peer(e) \in Ends
  BY PeerIsEnd
<1>2. Origin(e) \in SeqNum /\ Origin(Peer(e)) \in SeqNum
  BY <1>1, FirstType DEF Origin
<1>3. stream'[Peer(e)] \in TypedStream
  BY <1>1 DEF Bounded
<1>4. Reach(e)' \in 0 .. SeqMod - 1 /\ Top(Peer(e))' \in 0 .. SeqMod - 1
  <2>1. PICK c \in TypedStream : c = stream'[Peer(e)]
    BY <1>3
  <2>2. PICK begun \in BOOLEAN : begun = (opens'[Peer(e)] # <<>>)
    OBVIOUS
  <2>3. Reach(e)' = GotTo(c, begun, Origin(e))
    BY <2>1, <2>2 DEF Reach, Origin
  <2>4. Top(Peer(e))' = SentTo(c, begun, Origin(Peer(e)))
    BY <2>1, <2>2 DEF Top, Origin
  <2> QED BY <1>2, <2>3, <2>4, CountTypes
<1>5. /\ Kinds(e)' \in {{}, {TRUE}, {FALSE}} /\ Kinds(Peer(e))' \in {{}, {TRUE}, {FALSE}}
  BY <1>1 DEF ReceiptInv
<1>6. Kinds(e)' \in SUBSET BOOLEAN
  BY <1>5
<1>7. MarksOf(e)' = [o |-> Origin(e), reach |-> Reach(e)', kinds |-> Kinds(e)',
                     po |-> Origin(Peer(e)), top |-> Top(Peer(e))',
                     pkinds |-> Kinds(Peer(e))']
  BY DEF MarksOf, Origin
<1>8. PICK reach \in 0 .. SeqMod - 1 : reach = Reach(e)'
  BY <1>4
<1>9. PICK top \in 0 .. SeqMod - 1 : top = Top(Peer(e))'
  BY <1>4
<1>10. PICK kinds \in SUBSET BOOLEAN : kinds = Kinds(e)'
  BY <1>6
<1>11. PICK pkinds \in {{}, {TRUE}, {FALSE}} : pkinds = Kinds(Peer(e))'
  BY <1>5
<1>12. PICK n : n = MarksOf(e)'
  OBVIOUS
<1>13. n = [o |-> Origin(e), reach |-> reach, kinds |-> kinds,
            po |-> Origin(Peer(e)), top |-> top, pkinds |-> pkinds]
  BY <1>7, <1>8, <1>9, <1>10, <1>11, <1>12
<1>14. n \in Marks /\ n.o = Origin(e) /\ n.po = Origin(Peer(e)) /\ n.reach = reach
  BY <1>2, <1>13 DEF Marks
<1> QED BY <1>8, <1>12, <1>14

(* What is asked of a step of e, which may cut its stream further.         *)
LEMMA CutStep ==
  ASSUME OpensOnce, Bounded, Bounded', ReceiptInv, ReceiptInv', NEW e \in Ends,
         NEW own \in Cuts, NEW peers \in Cuts, BothFit(e, own, peers),
         NEW own2 \in Cuts, Continues(own, own2), opens'[e] = <<>> => own2 = {0, 1},
         NEW d, stream' = [stream EXCEPT ![e] = d],
         opens'[Peer(e)] = opens[Peer(e)],
         Reach(Peer(e)) <= GotTo(d, opens'[e] # <<>>, Origin(Peer(e))),
         Tidy(d, MarksOf(e), own2, peers),
         NEW tx, tx \subseteq NeatOwn(MarksOf(e), own2, peers),
         net'[e] \subseteq net[e], net'[Peer(e)] \subseteq net[Peer(e)] \cup tx
  PROVE  CutInv'
<1>1. PICK f : f = Peer(e)
  OBVIOUS
<1>2. /\ f \in Ends /\ f # e /\ Peer(f) = e /\ Peer(e) = f
      /\ \A x \in Ends : x = e \/ x = f
  BY <1>1, PeerIsEnd
<1>3. stream'[e] = d /\ stream'[f] = stream[f]
  BY <1>2 DEF Bounded
<1>4. PICK m : m = MarksOf(e)
  OBVIOUS
<1>5. PICK mf : mf = MarksOf(f)
  OBVIOUS
<1>6. /\ m \in Marks /\ m.o = Origin(e) /\ m.po = Origin(f) /\ m.reach = Reach(e)
      /\ mf \in Marks /\ mf.o = Origin(f) /\ mf.po = Origin(e) /\ mf.reach = Reach(f)
  BY <1>2, <1>4, <1>5, MarksType
<1>7. PICK n : n = MarksOf(e)'
  OBVIOUS
<1>8. PICK nf : nf = MarksOf(f)'
  OBVIOUS
<1>9. /\ n \in Marks /\ n.o = Origin(e) /\ n.po = Origin(f) /\ n.reach = Reach(e)'
      /\ nf \in Marks /\ nf.o = Origin(f) /\ nf.po = Origin(e) /\ nf.reach = Reach(f)'
  BY <1>2, <1>7, <1>8, NextMarksType
<1>10. Reach(e)' = Reach(e)
  BY <1>1, <1>2, <1>3 DEF Reach, Origin
<1>11. Reach(f)' = GotTo(d, opens'[e] # <<>>, Origin(f))
  BY <1>2, <1>3 DEF Reach, Origin
<1>12. m.reach <= n.reach /\ mf.reach <= nf.reach
  <2>1. m.reach \in Int /\ n.reach \in Int
    BY <1>6, <1>9, Sizes DEF Marks
  <2>2. m.reach = n.reach
    BY <1>6, <1>9, <1>10
  <2>3. Reach(f) <= Reach(f)'
    BY <1>1, <1>11
  <2> QED BY <1>6, <1>9, <2>1, <2>2, <2>3
<1>13. SUFFICES /\ opens'[e] = <<>> => own2 = {0, 1}
                /\ opens'[f] = <<>> => peers = {0, 1}
                /\ Tidy(d, n, own2, peers) /\ Tidy(stream[f], nf, peers, own2)
                /\ net'[e] \subseteq NeatPeer(n, own2, peers)
                /\ net'[f] \subseteq NeatPeer(nf, peers, own2)
  <2>1. PICK cuts : cuts = [x \in Ends |-> IF x = e THEN own2 ELSE peers]
    OBVIOUS
  <2>2. cuts \in [Ends -> Cuts] /\ cuts[e] = own2 /\ cuts[f] = peers
    BY <1>2, <2>1
  <2>3. EndFits(e, own2, peers)' /\ EndFits(f, peers, own2)'
    BY <1>3, <1>7, <1>8, <1>13 DEF EndFits
  <2>4. \A x \in Ends : EndFits(x, cuts[x], cuts[Peer(x)])'
    BY <1>2, <2>2, <2>3
  <2> QED BY <2>2, <2>4 DEF CutInv
<1>14. /\ EndFits(e, own, peers) /\ EndFits(f, peers, own)
  BY <1>1 DEF BothFit
<1>15. Continues(peers, peers)
  BY SameCuts
<1>16. opens'[f] = <<>> => peers = {0, 1}
  BY <1>1, <1>14 DEF EndFits
<1>17. Tidy(d, n, own2, peers)
  BY <1>4, <1>6, <1>9, <1>12, TidyReached
<1>18. Tidy(stream[f], nf, peers, own2)
  <2>1. Tidy(stream[f], mf, peers, own)
    BY <1>5, <1>14 DEF EndFits
  <2>2. Tidy(stream[f], mf, peers, own2)
    BY <1>6, <2>1, TidyWider
  <2> QED BY <1>6, <1>9, <1>12, <2>2, TidyReached
<1>19. net'[e] \subseteq NeatPeer(n, own2, peers)
  <2>1. net[e] \subseteq NeatPeer(m, own, peers)
    BY <1>4, <1>14 DEF EndFits
  <2>2. NeatPeer(m, own, peers) \subseteq NeatPeer(m, own2, peers)
    BY <1>6, <1>15, NeatAllWider
  <2>3. NeatPeer(m, own2, peers) = NeatPeer(n, own2, peers)
    BY <1>6, <1>9 DEF NeatPeer
  <2> QED BY <2>1, <2>2, <2>3
<1>20. net'[f] \subseteq NeatPeer(nf, peers, own2)
  <2>1. net[f] \subseteq NeatPeer(mf, peers, own)
    BY <1>5, <1>14 DEF EndFits
  <2>2. NeatPeer(mf, peers, own) \subseteq NeatPeer(mf, peers, own2)
    BY <1>6, <1>15, NeatAllWider
  <2>3. NeatPeer(mf, peers, own2) = NeatPeer(nf, peers, own2)
    BY <1>6, <1>9 DEF NeatPeer
  <2>4. NeatOwn(m, own2, peers) = NeatPeer(nf, peers, own2)
    BY <1>6, <1>9 DEF NeatOwn, NeatPeer
  <2> QED BY <1>1, <1>4, <2>1, <2>2, <2>3, <2>4
<1> QED BY <1>16, <1>17, <1>18, <1>19, <1>20

(* A method that opens nothing takes the stream to c, and leaves d.        *)
LEMMA MethodCuts ==
  ASSUME OpensOnce, Bounded, Bounded', HonestInv, ReceiptInv, ReceiptInv', NEW e \in Ends,
         NEW own \in Cuts, NEW peers \in Cuts, BothFit(e, own, peers),
         NEW own2 \in Cuts, Continues(own, own2), Opened(stream[e]) \/ own2 = own,
         NEW c, NEW d, Since(c, stream[e], MarksOf(e)), Leaves(c, d),
         Tidy(c, MarksOf(e), own2, peers), Tidy(d, MarksOf(e), own2, peers),
         stream' = [stream EXCEPT ![e] = d], opens' = opens,
         net'[e] \subseteq net[e], net'[Peer(e)] \subseteq net[Peer(e)] \cup c.tx
  PROVE  CutInv'
<1>1. PICK m : m = MarksOf(e)
  OBVIOUS
<1>2. m \in Marks /\ m.o = Origin(e) /\ m.po = Origin(Peer(e))
  BY <1>1, MarksType
<1>3. PICK c0 : c0 = stream[e]
  OBVIOUS
<1>4. PICK begun \in BOOLEAN : begun = (opens[e] # <<>>)
  OBVIOUS
<1>5. opens[e] = <<>> => stream[e].state = TCP_CLOSED
  BY MuteIs
<1>6. begun \/ ~Live(c0)
  BY <1>3, <1>4, <1>5, LiveStates
<1>7. GotTo(c0, begun, m.po) = Reach(Peer(e))
  BY <1>2, <1>3, <1>4, PeerIsEnd DEF Reach
<1>8. GotTo(c0, begun, m.po) <= GotTo(d, begun, m.po)
  BY <1>1, <1>2, <1>3, <1>6, CountsGrow
<1>9. Reach(Peer(e)) <= GotTo(d, opens'[e] # <<>>, Origin(Peer(e)))
  BY <1>2, <1>4, <1>7, <1>8
<1>10. opens'[e] = <<>> => own2 = {0, 1}
  <2>1. opens'[e] = <<>> => own2 = own
    BY <1>5, LiveStates
  <2> QED BY <2>1 DEF BothFit, EndFits
<1>11. c.tx \subseteq NeatOwn(MarksOf(e), own2, peers)
  BY DEF Tidy
<1> QED BY <1>9, <1>10, <1>11, CutStep

(* The rest of a method is to let the packets go.                          *)
LEMMA UpdateCuts ==
  ASSUME OpensOnce, Bounded, Bounded', HonestInv, ReceiptInv, ReceiptInv', NEW e \in Ends,
         NEW own \in Cuts, NEW peers \in Cuts, BothFit(e, own, peers),
         NEW own2 \in Cuts, Continues(own, own2), Opened(stream[e]) \/ own2 = own,
         NEW c, Since(c, stream[e], MarksOf(e)), Tidy(c, MarksOf(e), own2, peers),
         stream' = [stream EXCEPT ![e] = [c EXCEPT !.tx = {}]], opens' = opens,
         net'[e] \subseteq net[e], net'[Peer(e)] \subseteq net[Peer(e)] \cup c.tx
  PROVE  CutInv'
<1>1. c \in TypedStream
  BY DEF Since
<1>2. PICK d : d = [c EXCEPT !.tx = {}]
  OBVIOUS
<1>3. /\ Leaves(c, d) /\ Alike(c, d) /\ d.state = c.state /\ d.outPkt = c.outPkt
      /\ d.inPkt = c.inPkt /\ d.tx = {}
  <2>1. d.inPkt = c.inPkt /\ d.tx = {}
    BY <1>1, <1>2 DEF TypedStream
  <2> QED BY <1>1, <1>2, <2>1, TxLeaves
<1>4. stream' = [stream EXCEPT ![e] = d]
  BY <1>2
<1>5. PICK m : m = MarksOf(e)
  OBVIOUS
<1>6. m \in Marks /\ Tidy(c, m, own2, peers)
  BY <1>5, MarksType
<1>7. d.outPkt \in Seq(NeatOut(m, own2, peers))
  BY <1>3, <1>6 DEF Tidy
<1>8. Tidy(d, m, own2, peers)
  BY ONLY <1>3, <1>6, <1>7, EvenTidy, own2 \in Cuts, peers \in Cuts
<1>9. Tidy(d, MarksOf(e), own2, peers)
  BY <1>5, <1>8
<1> QED BY ONLY <1>3, <1>4, <1>9, MethodCuts, OpensOnce, Bounded, Bounded', HonestInv,
         ReceiptInv, ReceiptInv', e \in Ends, own \in Cuts, peers \in Cuts,
         BothFit(e, own, peers), own2 \in Cuts, Continues(own, own2),
         Opened(stream[e]) \/ own2 = own, Since(c, stream[e], MarksOf(e)),
         Tidy(c, MarksOf(e), own2, peers), opens' = opens, net'[e] \subseteq net[e],
         net'[Peer(e)] \subseteq net[Peer(e)] \cup c.tx

(* A method that sends nothing and changes none of the numbers.            *)
LEMMA SwitchCuts ==
  ASSUME OpensOnce, Bounded, Bounded', HonestInv, ReceiptInv, ReceiptInv', NEW e \in Ends,
         CutInv, NEW c, c = stream[e], NEW d \in TypedStream, d.state = c.state,
         Alike(c, d), d.inPkt = c.inPkt, d.outPkt = c.outPkt, d.tx = c.tx,
         stream' = [stream EXCEPT ![e] = d], opens' = opens,
         net'[e] \subseteq net[e], net'[Peer(e)] \subseteq net[Peer(e)]
  PROVE  CutInv'
<1>1. PICK own \in Cuts, peers \in Cuts : BothFit(e, own, peers)
  BY CutsNow
<1>2. PICK m : m = MarksOf(e)
  OBVIOUS
<1>3. m \in Marks /\ Tidy(c, m, own, peers)
  BY <1>1, <1>2, MarksType DEF BothFit, EndFits
<1>4. d.outPkt \in Seq(NeatOut(m, own, peers)) /\ d.tx \subseteq NeatOwn(m, own, peers)
  BY <1>3 DEF Tidy
<1>5. Tidy(d, m, own, peers)
  BY ONLY <1>1, <1>3, <1>4, EvenTidy, d.state = c.state, Alike(c, d), d.inPkt = c.inPkt,
          d.outPkt = c.outPkt
<1>6. Since(c, stream[e], MarksOf(e)) /\ Leaves(c, d)
  BY SinceNow DEF Leaves
<1>7. Continues(own, own)
  BY <1>1, SameCuts
<1>8. net'[Peer(e)] \subseteq net[Peer(e)] \cup c.tx
  OBVIOUS
<1>9. Tidy(c, MarksOf(e), own, peers) /\ Tidy(d, MarksOf(e), own, peers)
  BY <1>2, <1>3, <1>5
<1> QED BY ONLY <1>1, <1>6, <1>7, <1>8, <1>9, MethodCuts, OpensOnce, Bounded, Bounded',
         HonestInv, ReceiptInv, ReceiptInv', e \in Ends,
         stream' = [stream EXCEPT ![e] = d], opens' = opens, net'[e] \subseteq net[e]

(* Half of the numbers are enough for both ends.                           *)
LEMMA HalfIsEnough ==
  ASSUME HalfSuffices
  PROVE  NumbersSuffice
<1>1. MaxBytes \in Nat /\ SeqMod \in Nat /\ 2 * (MaxBytes + 1) < SeqMod
  BY BoundsAssumption, Sizes DEF HalfSuffices
<1> QED BY <1>1 DEF HalfSuffices, NumbersSuffice

(* What a tick leaves of the stream of e, and of what it sends.            *)
LEMMA TickCuts ==
  ASSUME HalfSuffices, Bounded, HonestInv, ReceiptInv, NEW e \in Ends, NEW t,
         NEW own \in Cuts, NEW peers \in Cuts, BothFit(e, own, peers)
  PROVE  \E own2 \in Cuts :
           /\ Continues(own, own2) /\ (Opened(stream[e]) \/ own2 = own)
           /\ Tidy(TickStream(stream[e], t), MarksOf(e), own2, peers)
<1>1. PICK k : k = ContextOf(e)
  OBVIOUS
<1>2. PICK m : m = MarksOf(e)
  OBVIOUS
<1>3. /\ k \in Context /\ k.b = First(e) /\ k.w = written[e]
      /\ Fine(stream[e], stream[e], k)
  BY <1>1, ContextFits, FineNow DEF HalfSuffices
<1>4. m \in Marks /\ m.o = Origin(e) /\ Since(stream[e], stream[e], m)
  BY <1>2, MarksType, SinceNow DEF HalfSuffices
<1>5. HalfFits(k, m)
  <2>1. written[e] \in Nat /\ written[e] <= MaxBytes
    BY DEF Bounded, HonestInv
  <2>2. MaxBytes \in Nat /\ 2 * (MaxBytes + 1) < SeqMod /\ SeqMod \in Nat
    BY BoundsAssumption, Sizes DEF HalfSuffices
  <2>3. 2 * (written[e] + 1) < SeqMod
    BY <2>1, <2>2
  <2> QED BY <1>3, <1>4, <2>3 DEF HalfFits, First, Origin
<1>6. Tidy(stream[e], m, own, peers)
  BY <1>2 DEF BothFit, EndFits
<1> QED BY <1>2, <1>3, <1>4, <1>5, <1>6, TickTidy

LEMMA TickCut ==
  ASSUME HalfSuffices, Bounded, Bounded', HonestInv, ReceiptInv, ReceiptInv', CutInv,
         NEW e \in Ends, NEW t \in Timeouts, Tick(e, t)
  PROVE  CutInv'
<1>1. PICK c : c = TickStream(stream[e], t)
  OBVIOUS
<1>2. PICK own \in Cuts, peers \in Cuts : BothFit(e, own, peers)
  BY CutsNow
<1>3. PICK own2 \in Cuts : /\ Continues(own, own2) /\ (Opened(stream[e]) \/ own2 = own)
                           /\ Tidy(c, MarksOf(e), own2, peers)
  BY <1>1, <1>2, TickCuts
<1>4. /\ stream' = [stream EXCEPT ![e] = [c EXCEPT !.tx = {}]]
      /\ net' = [net EXCEPT ![Peer(e)] = @ \cup c.tx]
      /\ opens' = opens
  BY <1>1 DEF Tick, Update
<1>5. net'[e] \subseteq net[e] /\ net'[Peer(e)] \subseteq net[Peer(e)] \cup c.tx
  BY <1>4, NetGrows
<1>6. Since(c, stream[e], MarksOf(e))
  BY <1>1, HalfIsEnough, TickSince
<1>7. OpensOnce
  BY DEF HalfSuffices
<1> QED BY <1>2, <1>3, <1>4, <1>5, <1>6, <1>7, UpdateCuts

LEMMA CloseCut ==
  ASSUME HalfSuffices, Bounded, Bounded', HonestInv, ReceiptInv, ReceiptInv', CutInv,
         NEW e \in Ends, NEW t \in Timeouts, Close(e, t)
  PROVE  CutInv'
<1>1. PICK c : c = TickStream(stream[e], t)
  OBVIOUS
<1>2. PICK d : d = NewStream
  OBVIOUS
<1>3. PICK own \in Cuts, peers \in Cuts : BothFit(e, own, peers)
  BY CutsNow
<1>4. PICK own2 \in Cuts : /\ Continues(own, own2) /\ (Opened(stream[e]) \/ own2 = own)
                           /\ Tidy(c, MarksOf(e), own2, peers)
  BY <1>1, <1>3, TickCuts
<1>5. /\ stream' = [stream EXCEPT ![e] = d]
      /\ net' = [net EXCEPT ![Peer(e)] = @ \cup c.tx]
      /\ opens' = opens
  BY <1>1, <1>2 DEF Close
<1>6. net'[e] \subseteq net[e] /\ net'[Peer(e)] \subseteq net[Peer(e)] \cup c.tx
  BY <1>5, NetGrows
<1>7. Since(c, stream[e], MarksOf(e))
  BY <1>1, HalfIsEnough, TickSince
<1>8. d \in TypedStream
  <2>1. stream'[e] = d
    BY <1>5 DEF Bounded
  <2> QED BY <2>1 DEF Bounded
<1>9. Leaves(c, d)
  BY <1>2, <1>8, NewStreamFields DEF Leaves
<1>10. Tidy(d, MarksOf(e), own2, peers)
  <2>1. /\ ~Live(d) /\ d.outPkt = <<>> /\ d.inPkt = <<>> /\ d.tx = {}
    BY <1>2, NewStreamFields, LiveStates
  <2> QED BY <2>1, TidyClosed
<1>11. OpensOnce
  BY DEF HalfSuffices
<1> QED BY <1>3, <1>4, <1>5, <1>6, <1>7, <1>9, <1>10, <1>11, MethodCuts

LEMMA KnownCut ==
  ASSUME OpensOnce, Bounded, Bounded', HonestInv, ReceiptInv, ReceiptInv', CutInv,
         NEW e \in Ends,
         stream' = [stream EXCEPT ![e] = [stream[e] EXCEPT !.known = TRUE]],
         opens' = opens, net' = net
  PROVE  CutInv'
<1> DEFINE yes == TRUE
<1>1. PICK c : c = stream[e]
  OBVIOUS
<1>2. PICK d : d = [c EXCEPT !.known = yes]
  OBVIOUS
<1>3. c \in TypedStream /\ d \in TypedStream
  BY <1>1, <1>2, KnownType DEF Bounded
<1>4. stream' = [stream EXCEPT ![e] = d]
  BY <1>1, <1>2
<1> HIDE DEF yes
<1>5. /\ d.state = c.state /\ d.initOur = c.initOur /\ d.outSeqno = c.outSeqno
      /\ d.outAcked = c.outAcked /\ d.inAckno = c.inAckno
      /\ d.inPkt = c.inPkt /\ d.outPkt = c.outPkt /\ d.tx = c.tx
  BY <1>2, <1>3, TypedParts DEF Fields
<1>6. Alike(c, d)
  BY <1>5 DEF Alike
<1>7. net'[e] \subseteq net[e] /\ net'[Peer(e)] \subseteq net[Peer(e)]
  OBVIOUS
<1> QED BY <1>1, <1>3, <1>4, <1>5, <1>6, <1>7, SwitchCuts

LEMMA CloseWriteCut ==
  ASSUME OpensOnce, Bounded, Bounded', HonestInv, ReceiptInv, ReceiptInv', CutInv,
         NEW e \in Ends, CloseWrite(e)
  PROVE  CutInv'
<1> DEFINE no == FALSE
<1>1. PICK c : c = stream[e]
  OBVIOUS
<1>2. PICK d : d = [c EXCEPT !.outActive = no]
  OBVIOUS
<1>3. c \in TypedStream /\ d \in TypedStream
  BY <1>1, <1>2, OutActiveType DEF Bounded
<1>4. stream' = [stream EXCEPT ![e] = d] /\ opens' = opens /\ net' = net
  BY <1>1, <1>2 DEF CloseWrite
<1> HIDE DEF no
<1>5. /\ d.state = c.state /\ d.initOur = c.initOur /\ d.outSeqno = c.outSeqno
      /\ d.outAcked = c.outAcked /\ d.inAckno = c.inAckno
      /\ d.inPkt = c.inPkt /\ d.outPkt = c.outPkt /\ d.tx = c.tx
  BY <1>2, <1>3, TypedParts DEF Fields
<1>6. Alike(c, d)
  BY <1>5 DEF Alike
<1>7. net'[e] \subseteq net[e] /\ net'[Peer(e)] \subseteq net[Peer(e)]
  BY <1>4
<1> QED BY <1>1, <1>3, <1>4, <1>5, <1>6, <1>7, SwitchCuts

LEMMA DropCut ==
  ASSUME OpensOnce, Bounded, Bounded', HonestInv, ReceiptInv, ReceiptInv', CutInv,
         NEW e \in Ends, stream' = stream, opens' = opens,
         net'[e] \subseteq net[e], net'[Peer(e)] \subseteq net[Peer(e)]
  PROVE  CutInv'
<1>1. PICK c : c = stream[e]
  OBVIOUS
<1>2. c \in TypedStream /\ Alike(c, c)
  BY <1>1 DEF Bounded, Alike
<1>3. stream' = [stream EXCEPT ![e] = c]
  BY <1>1 DEF Bounded
<1> QED BY <1>1, <1>2, <1>3, SwitchCuts

LEMMA WriteCut ==
  ASSUME OpensOnce, Bounded, Bounded', HonestInv, ReceiptInv, ReceiptInv', CutInv,
         NEW e \in Ends, NEW size \in WriteSizes, Write(e, size)
  PROVE  CutInv'
<1>1. PICK c : c = stream[e]
  OBVIOUS
<1>2. PICK q : q = c.inQueue \o [i \in 1 .. size |-> written[e] + i]
  OBVIOUS
<1>3. PICK d : d = [c EXCEPT !.inQueue = q]
  OBVIOUS
<1>4. stream' = [stream EXCEPT ![e] = d] /\ opens' = opens /\ net' = net
  BY <1>1, <1>2, <1>3 DEF Write
<1>5. c \in TypedStream /\ d \in TypedStream
  <2>1. stream'[e] = d
    BY <1>4 DEF Bounded
  <2> QED BY <1>1, <2>1 DEF Bounded
<1>6. /\ d.state = c.state /\ d.initOur = c.initOur /\ d.outSeqno = c.outSeqno
      /\ d.outAcked = c.outAcked /\ d.inAckno = c.inAckno
      /\ d.inPkt = c.inPkt /\ d.outPkt = c.outPkt /\ d.tx = c.tx
  BY <1>3, <1>5, TypedParts DEF Fields
<1>7. Alike(c, d)
  BY <1>6 DEF Alike
<1>8. net'[e] \subseteq net[e] /\ net'[Peer(e)] \subseteq net[Peer(e)]
  BY <1>4
<1> QED BY <1>1, <1>4, <1>5, <1>6, <1>7, <1>8, SwitchCuts

LEMMA ReadCut ==
  ASSUME OpensOnce, Bounded, Bounded', HonestInv, ReceiptInv, ReceiptInv', CutInv,
         NEW e \in Ends, NEW size \in ReadSizes, Read(e, size)
  PROVE  CutInv'
<1>1. PICK c : c = stream[e]
  OBVIOUS
<1>2. PICK n : n = IF Len(c.outQueue) < size THEN Len(c.outQueue) ELSE size
  OBVIOUS
<1> DEFINE rest == SubSeq(c.outQueue, n + 1, Len(c.outQueue))
<1>3. PICK x : x = [c EXCEPT !.outQueue = rest]
  OBVIOUS
<1>4. PICK d : d = UpdateInWinSize(x)
  OBVIOUS
<1>5. stream' = [stream EXCEPT ![e] = d] /\ opens' = opens /\ net' = net
  BY <1>1, <1>2, <1>3, <1>4 DEF Read
<1>6. c \in TypedStream /\ d \in TypedStream
  <2>1. stream'[e] = d
    BY <1>5 DEF Bounded
  <2> QED BY <1>1, <2>1 DEF Bounded
<1> HIDE DEF rest
<1>7. PICK w : d = [x EXCEPT !.inWin = w]
  BY <1>4 DEF UpdateInWinSize
<1>8. /\ d.state = c.state /\ d.initOur = c.initOur /\ d.outSeqno = c.outSeqno
      /\ d.outAcked = c.outAcked /\ d.inAckno = c.inAckno
      /\ d.inPkt = c.inPkt /\ d.outPkt = c.outPkt /\ d.tx = c.tx
  BY ONLY <1>3, <1>6, <1>7, TypedParts DEF Fields
<1>9. Alike(c, d)
  BY <1>8 DEF Alike
<1>10. net'[e] \subseteq net[e] /\ net'[Peer(e)] \subseteq net[Peer(e)]
  BY <1>5
<1> QED BY <1>1, <1>5, <1>6, <1>8, <1>9, <1>10, SwitchCuts

(* A stream opens: it has sent nothing yet.                                *)
LEMMA OpenCut ==
  ASSUME OpensOnce, Bounded, Bounded', HonestInv, ReceiptInv, ReceiptInv', CutInv,
         NEW e \in Ends, MayOpen(e),
         NEW ack \in BOOLEAN, NEW c, Blank(c), ack \/ c.known,
         ack => /\ Before(c.inAckno, Origin(Peer(e))) = 1
                /\ 1 <= Top(Peer(e)) /\ TRUE \notin Kinds(Peer(e)),
         NEW s, s = IF ack THEN TCP_SYN_RCVD ELSE TCP_SYN_SENT,
         NEW d, d = [ToSend(InitSeqnos(c, NextIsn(e)), SynPkt(ack), TRUE)
                       EXCEPT !.state = s],
         stream' = [stream EXCEPT ![e] = [d EXCEPT !.tx = {}]],
         opens' = [opens EXCEPT ![e] = Append(@, written[e])],
         net'[e] \subseteq net[e],
         net'[Peer(e)] \subseteq net[Peer(e)] \cup d.tx
  PROVE  CutInv'
<1>1. PICK f : f = Peer(e)
  OBVIOUS
<1>2. f \in Ends /\ f # e /\ Peer(f) = e
  BY <1>1, PeerIsEnd
<1>3. opens[e] = <<>> /\ stream[e].state = TCP_CLOSED
  BY NotOpened
<1>4. NextIsn(e) = Origin(e)
  <2>1. Len(<<>>) + 1 = 1
    OBVIOUS
  <2> QED BY <1>3, <2>1 DEF NextIsn, Origin
<1>5. PICK own \in Cuts, peers \in Cuts : BothFit(e, own, peers)
  BY CutsNow
<1>6. own = {0, 1}
  BY <1>3, <1>5 DEF BothFit, EndFits
<1>7. PICK m : m = MarksOf(e)
  OBVIOUS
<1>8. /\ m \in Marks /\ m.o = Origin(e) /\ m.po = Origin(f)
      /\ m.top = Top(f) /\ m.pkinds = Kinds(f)
  BY <1>1, <1>7, MarksType
<1>9. PICK n : n = [o |-> m.o, reach |-> m.reach, kinds |-> {ack},
                    po |-> m.po, top |-> m.top, pkinds |-> m.pkinds]
  OBVIOUS
<1>10. /\ n \in Marks /\ n.o = m.o /\ n.po = m.po /\ n.reach = m.reach
       /\ n.top = m.top /\ n.pkinds = m.pkinds /\ n.kinds = {ack}
  <2>1. {ack} \in SUBSET BOOLEAN
    OBVIOUS
  <2> QED BY <1>8, <1>9, <2>1 DEF Marks
<1>11. d \in TypedStream /\ Careful(d, n) /\ Started(d, n, ack, s) /\ d.state = s
  <2>1. /\ NextIsn(e) = n.o
        /\ d = [ToSend(InitSeqnos(c, NextIsn(e)), SynPkt(ack), TRUE) EXCEPT !.state = s]
    BY <1>4, <1>8, <1>10
  <2>2. MayStart(c, n, ack)
    BY <1>1, <1>8, <1>10 DEF MayStart
  <2>3. /\ n \in Marks /\ ack \in BOOLEAN /\ Blank(c)
        /\ (ack \/ c.known) /\ s = IF ack THEN TCP_SYN_RCVD ELSE TCP_SYN_SENT
    BY <1>10
  <2>4. d \in TypedStream /\ Careful(d, n) /\ Started(d, n, ack, s)
    BY ONLY <2>1, <2>2, <2>3, OpeningCareful
  <2> QED BY ONLY <2>4 DEF Started
<1>12. s \in {TCP_SYN_SENT, TCP_SYN_RCVD}
  OBVIOUS
<1>13. Opening(d) /\ (Heard(d) => Before(d.inAckno, n.po) = 1)
  <2>1. Opening(d) /\ (Heard(d) => d.state = TCP_SYN_RCVD)
    BY ONLY <1>11, <1>12, LiveStates
  <2>2. d.state = TCP_SYN_RCVD => Before(d.inAckno, n.po) = 1
    BY ONLY <1>11 DEF Careful
  <2> QED BY ONLY <2>1, <2>2
<1>14. Tidy(d, m, own, peers)
  <2>1. Started(d, n, ack, d.state)
    BY ONLY <1>11
  <2>2. Tidy(d, n, {0, 1}, peers)
    BY ONLY <1>5, <1>10, <1>11, <1>13, <2>1, StartedTidy, ack \in BOOLEAN
  <2>3. n.reach <= m.reach
    BY <1>10, Sizes DEF Marks
  <2> QED BY ONLY <1>5, <1>6, <1>8, <1>10, <2>2, <2>3, TidyReached
<1>15. PICK x : x = [d EXCEPT !.tx = {}]
  OBVIOUS
<1>16. /\ Alike(d, x) /\ x.state = d.state /\ x.outPkt = d.outPkt
       /\ x.inPkt = d.inPkt /\ x.tx = {} /\ x \in TypedStream
  <2>1. x.inPkt = d.inPkt /\ x.tx = {}
    BY ONLY <1>11, <1>15 DEF TypedStream
  <2> QED BY ONLY <1>11, <1>15, <2>1, TxLeaves DEF Leaves
<1>17. Tidy(x, m, own, peers)
  <2>1. x.outPkt \in Seq(NeatOut(m, own, peers)) /\ x.tx \subseteq NeatOwn(m, own, peers)
    BY ONLY <1>14, <1>16 DEF Tidy
  <2> QED BY ONLY <1>5, <1>8, <1>14, <1>16, <2>1, EvenTidy
<1>18. PICK tx : tx = d.tx
  OBVIOUS
<1>19. tx \subseteq NeatOwn(m, own, peers)
  BY ONLY <1>14, <1>18 DEF Tidy
<1>20. opens'[f] = opens[f] /\ opens'[e] # <<>>
  <2>1. DOMAIN opens = Ends
    BY DEF Bounded
  <2>2. opens'[e] = Append(<<>>, written[e])
    BY <1>3, <2>1
  <2>3. Append(<<>>, written[e]) # <<>>
    OBVIOUS
  <2> QED BY <1>2, <2>1, <2>2, <2>3
<1>21. Reach(f) <= GotTo(x, opens'[e] # <<>>, Origin(f))
  <2>1. ~Heard(stream[e])
    BY <1>3, LiveStates
  <2>2. Reach(f) = 0
    BY <1>2, <1>3, <2>1 DEF Reach, GotTo
  <2>3. Origin(f) \in SeqNum
    BY <1>8 DEF Marks
  <2>4. PICK begun \in BOOLEAN : begun = (opens'[e] # <<>>)
    OBVIOUS
  <2>5. GotTo(x, begun, Origin(f)) \in 0 .. SeqMod - 1
    BY <1>16, <2>3, CountTypes
  <2> QED BY ONLY <2>2, <2>4, <2>5, Sizes
<1>22. stream' = [stream EXCEPT ![e] = x]
  BY <1>15
<1>23. /\ OpensOnce /\ Bounded /\ Bounded' /\ ReceiptInv /\ ReceiptInv' /\ e \in Ends
       /\ net'[e] \subseteq net[e] /\ net'[f] \subseteq net[f] \cup tx
       /\ Continues(own, own)
  BY <1>1, <1>5, <1>18, SameCuts
<1> QED BY ONLY <1>1, <1>5, <1>7, <1>17, <1>19, <1>20, <1>21, <1>22, <1>23, CutStep

LEMMA ConnectCut ==
  ASSUME OpensOnce, Bounded, Bounded', HonestInv, ReceiptInv, ReceiptInv', CutInv,
         NEW e \in Ends, Connect(e)
  PROVE  CutInv'
<1> DEFINE yes == TRUE
<1>1. PICK c : c = [stream[e] EXCEPT !.known = yes]
  OBVIOUS
<1>2. stream[e] \in TypedStream /\ c \in TypedStream
  BY <1>1, KnownType DEF Bounded
<1>3. yes
  OBVIOUS
<1>4. /\ IF c.state = TCP_CLOSED
           THEN /\ MayOpen(e)
                /\ opens' = [opens EXCEPT ![e] = Append(@, written[e])]
                /\ Update(e, [ToSend(InitSeqnos(c, NextIsn(e)), SynPkt(FALSE), TRUE)
                                EXCEPT !.state = TCP_SYN_SENT])
           ELSE Update(e, c) /\ UNCHANGED <<opens, received>>
  BY <1>1 DEF Connect
<1> HIDE DEF yes
<1>5. /\ c.state = stream[e].state /\ c.known = yes
      /\ c.inQueue = stream[e].inQueue /\ c.outQueue = stream[e].outQueue
      /\ c.inPkt = stream[e].inPkt /\ c.outPkt = stream[e].outPkt
      /\ c.tx = stream[e].tx
  BY <1>1, <1>2, TypedParts DEF Fields
<1>6. CASE c.state = TCP_CLOSED
  <2>1. PICK d : d = [ToSend(InitSeqnos(c, NextIsn(e)), SynPkt(FALSE), TRUE)
                        EXCEPT !.state = TCP_SYN_SENT]
    OBVIOUS
  <2>2. /\ MayOpen(e)
        /\ opens' = [opens EXCEPT ![e] = Append(@, written[e])]
        /\ Update(e, d)
    BY <1>4, <1>6, <2>1
  <2>3. Blank(c)
    BY <1>2, <1>5, <2>2, NotOpened DEF Blank
  <2>4. /\ stream' = [stream EXCEPT ![e] = [d EXCEPT !.tx = {}]]
        /\ net' = [net EXCEPT ![Peer(e)] = @ \cup d.tx]
    BY <2>2 DEF Update
  <2>5. net'[e] \subseteq net[e] /\ net'[Peer(e)] \subseteq net[Peer(e)] \cup d.tx
    BY <2>4, NetGrows
  <2>6. PICK ack : ack = FALSE
    OBVIOUS
  <2>7. PICK s : s = TCP_SYN_SENT
    OBVIOUS
  <2>8. /\ ack \in BOOLEAN /\ (ack \/ c.known)
        /\ ack => /\ Before(c.inAckno, Origin(Peer(e))) = 1
                  /\ 1 <= Top(Peer(e)) /\ TRUE \notin Kinds(Peer(e))
        /\ s = IF ack THEN TCP_SYN_RCVD ELSE TCP_SYN_SENT
        /\ d = [ToSend(InitSeqnos(c, NextIsn(e)), SynPkt(ack), TRUE) EXCEPT !.state = s]
    BY <1>3, <1>5, <2>1, <2>6, <2>7
  <2>9. /\ OpensOnce /\ Bounded /\ HonestInv /\ ReceiptInv /\ Bounded' /\ ReceiptInv'
        /\ CutInv /\ e \in Ends
    OBVIOUS
  <2> QED BY ONLY <2>2, <2>3, <2>4, <2>5, <2>8, <2>9, OpenCut
<1>7. CASE c.state # TCP_CLOSED
  <2>1. Update(e, c) /\ opens' = opens
    BY <1>4, <1>7
  <2>2. c.tx = {}
    BY <1>5 DEF HonestInv
  <2>3. c = [c EXCEPT !.tx = {}]
    BY <1>2, <2>2, NothingSent
  <2>4. /\ stream' = [stream EXCEPT ![e] = [c EXCEPT !.tx = {}]]
        /\ net' = [net EXCEPT ![Peer(e)] = @ \cup c.tx]
    BY <2>1 DEF Update
  <2>5. net' = net
    BY <2>2, <2>4 DEF Bounded
  <2>6. stream' = [stream EXCEPT ![e] = [stream[e] EXCEPT !.known = TRUE]]
    BY <1>1, <2>3, <2>4 DEF yes
  <2> QED BY <2>1, <2>5, <2>6, KnownCut
<1> QED BY <1>6, <1>7

LEMMA RecvPktCut ==
  ASSUME OpensOnce, Bounded, Bounded', HonestInv, ReceiptInv, ReceiptInv', CutInv,
         NEW e \in Ends, NEW p \in net[e], NEW again \in BOOLEAN, RecvPkt(e, p, again)
  PROVE  CutInv'
<1> DEFINE genSeq == TakesIsn(stream[e], p)
           isn == IF genSeq THEN NextIsn(e) ELSE 0
           c == HandleIncoming(stream[e], p, isn)
<1>1. /\ stream' = [stream EXCEPT ![e] = [c EXCEPT !.tx = {}]]
      /\ net' = [net EXCEPT ![Peer(e)] = @ \cup c.tx,
                            ![e] = IF again THEN @ ELSE @ \ {p}]
      /\ opens' = [opens EXCEPT ![e] = IF genSeq THEN Append(@, written[e]) ELSE @]
      /\ genSeq => MayOpen(e)
  BY DEF RecvPkt
<1> HIDE DEF c
<1>2. net'[e] \subseteq net[e] /\ net'[Peer(e)] \subseteq net[Peer(e)] \cup c.tx
  <2>1. DOMAIN net = Ends /\ Peer(e) \in Ends /\ Peer(e) # e
    BY PeerIsEnd DEF Bounded
  <2> QED BY <1>1, <2>1
<1>3. PICK m : m = MarksOf(e)
  OBVIOUS
<1>4. /\ m \in Marks /\ m.po = Origin(Peer(e)) /\ m.top = Top(Peer(e))
      /\ m.pkinds = Kinds(Peer(e))
  BY <1>3, MarksType
<1>5. p \in PeerPackets(m) /\ p \in ShortPacket
  BY <1>3 DEF ReceiptInv, Bounded
<1>6. p.syn => p.ack \in Kinds(Peer(e))
  <2>1. Peer(e) \in Ends /\ Peer(Peer(e)) = e
    BY PeerIsEnd
  <2>2. stream[Peer(e)].outPkt \in Seq(ShortOut)
    BY <2>1 DEF Bounded, TypedStream
  <2> QED BY <2>1, <2>2, SynKindsAre DEF Kinds
<1>7. CASE genSeq
  <2>1. MayOpen(e) /\ p.syn /\ ~p.ack
    BY <1>1, <1>7 DEF TakesIsn
  <2>2. stream[e].state = TCP_CLOSED /\ Blank(stream[e])
    BY <2>1, NotOpened
  <2>3. c = HandleIncoming(stream[e], p, NextIsn(e))
    BY <1>7 DEF c
  <2>4. PICK d : /\ Blank(d) /\ d.inAckno = SeqAdd(p.seqno, 1)
                 /\ c = [ToSend(InitSeqnos(d, NextIsn(e)), SynPkt(TRUE), TRUE)
                           EXCEPT !.state = TCP_SYN_RCVD]
    <3>1. PICK d : /\ Blank(d) /\ d.inAckno = SeqAdd(p.seqno, 1)
                   /\ HandleIncoming(stream[e], p, NextIsn(e)) =
                        [ToSend(InitSeqnos(d, NextIsn(e)), SynPkt(TRUE), TRUE)
                           EXCEPT !.state = TCP_SYN_RCVD]
      BY ONLY ZenonT(60), <1>5, <2>1, <2>2, AnsweredSyn
    <3> QED BY ONLY <2>3, <3>1
  <2>5. Before(d.inAckno, Origin(Peer(e))) = 1 /\ 1 <= Top(Peer(e))
    BY <1>4, <1>5, <2>1, <2>4, SynHeard
  <2>6. TRUE \notin Kinds(Peer(e))
    <3>1. p.ack \in BOOLEAN
      BY <1>5, ShortPacketParts
    <3>2. FALSE \in Kinds(Peer(e))
      BY <1>6, <2>1, <3>1
    <3>3. Kinds(Peer(e)) \in {{}, {TRUE}, {FALSE}}
      BY PeerIsEnd DEF ReceiptInv
    <3> QED BY <3>2, <3>3
  <2>7. PICK ack : ack = TRUE
    OBVIOUS
  <2>8. PICK s : s = TCP_SYN_RCVD
    OBVIOUS
  <2>9. PICK x : x = c
    OBVIOUS
  <2>10. /\ stream' = [stream EXCEPT ![e] = [x EXCEPT !.tx = {}]]
         /\ opens' = [opens EXCEPT ![e] = Append(@, written[e])]
    BY <1>1, <1>7, <2>9
  <2>11. x = [ToSend(InitSeqnos(d, NextIsn(e)), SynPkt(ack), TRUE) EXCEPT !.state = s]
    BY <2>4, <2>7, <2>8, <2>9
  <2>12. /\ ack \in BOOLEAN /\ (ack \/ d.known)
         /\ s = IF ack THEN TCP_SYN_RCVD ELSE TCP_SYN_SENT
    BY <2>7, <2>8
  <2>13. net'[e] \subseteq net[e] /\ net'[Peer(e)] \subseteq net[Peer(e)] \cup x.tx
    BY <1>2, <2>9
  <2>14. /\ OpensOnce /\ Bounded /\ HonestInv /\ ReceiptInv /\ Bounded' /\ ReceiptInv'
         /\ CutInv /\ e \in Ends
    OBVIOUS
  <2> QED BY ONLY <2>1, <2>4, <2>5, <2>6, <2>10, <2>11, <2>12, <2>13, <2>14, OpenCut
<1>8. CASE ~genSeq
  <2>1. opens' = opens
    BY <1>1, <1>8 DEF Bounded
  <2>2. PICK c0 : c0 = stream[e]
    OBVIOUS
  <2>3. Since(c0, c0, m)
    BY <1>3, <2>2, SinceNow
  <2>4. c0.state \notin {TCP_LISTEN, TCP_TIMED_WAIT}
    BY <2>2 DEF HonestInv, SendsHonest
  <2>5. PICK x : x = c
    OBVIOUS
  <2>6. x = HandleIncoming(c0, p, isn) /\ ~TakesIsn(c0, p)
    BY <1>8, <2>2, <2>5 DEF c
  <2>7. p.syn => p.ack \in m.pkinds
    BY <1>4, <1>6
  <2>8. Since(x, c0, m)
    BY ONLY <1>4, <1>5, <2>3, <2>4, <2>6, <2>7, HandleIncomingSince
  <2>9. PICK own \in Cuts, peers \in Cuts : BothFit(e, own, peers)
    BY CutsNow
  <2>10. Tidy(c0, m, own, peers) /\ p \in NeatPeerPackets(m, own, peers)
    BY <1>3, <1>5, <2>2, <2>9 DEF BothFit, EndFits, NeatPeerPackets
  <2>11. Tidy(x, m, own, peers)
    BY ONLY <1>4, <2>3, <2>4, <2>6, <2>7, <2>9, <2>10, HandleIncomingTidy
  <2>12. /\ stream' = [stream EXCEPT ![e] = [x EXCEPT !.tx = {}]]
         /\ net'[e] \subseteq net[e] /\ net'[Peer(e)] \subseteq net[Peer(e)] \cup x.tx
    BY <1>1, <1>2, <2>5
  <2>13. /\ OpensOnce /\ Bounded /\ HonestInv /\ ReceiptInv /\ Bounded' /\ ReceiptInv'
         /\ e \in Ends
         /\ Since(x, stream[e], MarksOf(e)) /\ Tidy(x, MarksOf(e), own, peers)
         /\ Continues(own, own)
    BY <1>3, <2>2, <2>8, <2>9, <2>11, SameCuts
  <2> QED BY ONLY <2>1, <2>9, <2>12, <2>13, UpdateCuts
<1> QED BY <1>7, <1>8

LEMMA InitCut == OpensOnce /\ Init => CutInv
<1> SUFFICES ASSUME OpensOnce, Init PROVE CutInv
  OBVIOUS
<1>1. PICK own : own = {0, 1}
  OBVIOUS
<1>2. PICK cuts : cuts = [e \in Ends |-> own]
  OBVIOUS
<1>3. cuts \in [Ends -> Cuts]
  BY <1>1, <1>2 DEF Cuts
<1>4. ASSUME NEW e \in Ends PROVE EndFits(e, cuts[e], cuts[Peer(e)])
  <2>1. cuts[e] = own /\ cuts[Peer(e)] = own
    BY <1>2, PeerIsEnd
  <2>2. stream[e] = NewStream /\ net[e] = {}
    BY DEF Init
  <2>3. /\ ~Live(stream[e]) /\ stream[e].outPkt = <<>> /\ stream[e].inPkt = <<>>
        /\ stream[e].tx = {}
    BY <2>2, NewStreamFields, LiveStates
  <2>4. Tidy(stream[e], MarksOf(e), own, own)
    BY <2>3, TidyClosed
  <2> QED BY <1>1, <2>1, <2>2, <2>4 DEF EndFits
<1> QED BY <1>3, <1>4 DEF CutInv

LEMMA NextCut ==
  ASSUME HalfSuffices, Bounded, HonestInv, ReceiptInv, CutInv, Bounded', ReceiptInv',
         [Next]_vars
  PROVE  CutInv'
<1>once. OpensOnce
  BY DEF HalfSuffices
<1>1. ASSUME NEW e \in Ends, AddUdpPeer(e) PROVE CutInv'
  BY <1>once, <1>1, DropCut DEF AddUdpPeer
<1>2. ASSUME NEW e \in Ends, Connect(e) PROVE CutInv'
  BY <1>once, <1>2, ConnectCut
<1>3. ASSUME NEW e \in Ends, ListenFor(e) PROVE CutInv'
  <2>1. stream' = [stream EXCEPT ![e] = [stream[e] EXCEPT !.known = TRUE]]
    BY <1>3 DEF ListenFor
  <2> QED BY <1>once, <1>3, <2>1, KnownCut DEF ListenFor
<1>4. ASSUME NEW e \in Ends, NEW size \in WriteSizes, Write(e, size) PROVE CutInv'
  BY <1>once, <1>4, WriteCut
<1>5. ASSUME NEW e \in Ends, NEW size \in ReadSizes, Read(e, size) PROVE CutInv'
  BY <1>once, <1>5, ReadCut
<1>6. ASSUME NEW e \in Ends, CloseWrite(e) PROVE CutInv'
  BY <1>once, <1>6, CloseWriteCut
<1>7. ASSUME NEW e \in Ends, NEW t \in Timeouts, Tick(e, t) PROVE CutInv'
  BY <1>7, TickCut
<1>8. ASSUME NEW e \in Ends, NEW t \in Timeouts, Close(e, t) PROVE CutInv'
  BY <1>8, CloseCut
<1>9. ASSUME NEW e \in Ends, NEW p \in net[e], NEW again \in BOOLEAN, RecvPkt(e, p, again)
      PROVE  CutInv'
  BY <1>once, <1>9, RecvPktCut
<1>10. ASSUME NEW e \in Ends, NEW p, UNCHANGED <<stream, opens>>,
              net' = [net EXCEPT ![e] = @ \ {p}]
       PROVE  CutInv'
  <2>1. net'[e] \subseteq net[e] /\ net'[Peer(e)] \subseteq net[Peer(e)]
    BY <1>10, PeerIsEnd DEF Bounded
  <2> QED BY <1>once, <1>10, <2>1, DropCut
<1>11. ASSUME NEW e \in Ends, NEW p \in net[e], Unclaimed(e, p) PROVE CutInv'
  BY <1>10, <1>11 DEF Unclaimed
<1>12. ASSUME NEW e \in Ends, NEW p \in net[e], Lose(e, p) PROVE CutInv'
  BY <1>10, <1>12 DEF Lose
<1>13. CASE UNCHANGED vars
  <2>1. 1 \in Ends /\ UNCHANGED <<stream, net, opens>>
    BY <1>13 DEF vars, Ends
  <2> QED BY <1>once, <2>1, DropCut
<1> QED BY <1>1, <1>2, <1>3, <1>4, <1>5, <1>6, <1>7, <1>8, <1>9, <1>11, <1>12, <1>13
        DEF Next

(***************************************************************************)
(* Nothing is forgotten                                                    *)
(***************************************************************************)

(* Consecutive bytes of which the last is as many as they are.             *)
LEMMA CountsFromOne ==
  ASSUME NEW s \in Seq(Byte), Consecutive(s), s # <<>> => s[Len(s)] = Len(s)
  PROVE  \A x \in 1 .. Len(s) : x \in Range(s)
<1> DEFINE n == Len(s)
           T == {k \in Nat : k < n => s[n - k] = n - k}
<1>1. n \in Nat
  OBVIOUS
<1>2. 0 \in T
  OBVIOUS
<1>3. \A k \in Nat : k \in T => k + 1 \in T
  <2> SUFFICES ASSUME NEW k \in Nat, k \in T, k + 1 < n
               PROVE  s[n - (k + 1)] = n - (k + 1)
    OBVIOUS
  <2>1. s[n - k] = n - k
    BY <1>1
  <2>2. PICK i : i = n - (k + 1)
    OBVIOUS
  <2>3. i \in 1 .. n - 1 /\ i + 1 = n - k
    BY <1>1, <2>2
  <2>4. s[i + 1] = s[i] + 1
    BY <2>3 DEF Consecutive
  <2>5. s[i] \in Nat
    BY <2>3, ElementOfSeq DEF Byte
  <2> HIDE DEF n
  <2>6. s[i] = i
    BY <1>1, <2>1, <2>3, <2>4, <2>5
  <2> QED BY <2>2, <2>6
<1>4. T = Nat
  <2> HIDE DEF T
  <2>1. T \subseteq Nat
    BY DEF T
  <2> QED BY <1>2, <1>3, <2>1, SetInduction
<1>5. ASSUME NEW x \in 1 .. n PROVE s[x] = x
  <2>1. n - x \in Nat /\ n - x < n /\ n - (n - x) = x
    BY <1>1
  <2> HIDE DEF n
  <2> QED BY <1>4, <2>1
<1> QED BY <1>5 DEF Range

(* The first byte comes after the SYN.                                     *)
LEMMA AfterSyn ==
  ASSUME NEW s \in SeqNum, NEW o \in SeqNum
  PROVE  /\ 1 <= Before(s, o) => Before(s, SeqAdd(o, 1)) = Before(s, o) - 1
         /\ Before(s, o) = 0 => Before(s, SeqAdd(o, 1)) = SeqMod - 1
  BY Sizes DEF Before, SeqSub, SeqAdd, SeqNum

(* A packet that covers the byte x holds it.                               *)
LEMMA PacketHolds ==
  ASSUME NEW o \in SeqNum, NEW w \in Nat, w < SeqMod,
         NEW p \in HonestPackets(SeqAdd(o, 1), w), NEW x \in Nat,
         From(p, o) <= x, x < To(p, o)
  PROVE  x \in Range(p.data)
<1>1. p \in ShortPacket /\ Honest(p, SeqAdd(o, 1), w)
  BY DEF HonestPackets
<1>2. /\ p.seqno \in SeqNum /\ p.data \in Seq(Byte) /\ Len(p.data) \in Nat
      /\ From(p, o) \in Nat
  BY <1>1, ShortPacketParts, PacketFacts DEF From
<1>3. PICK b : b = Before(p.seqno, SeqAdd(o, 1))
  OBVIOUS
<1>4. p.data # <<>>
  BY <1>2 DEF From, To
<1>5. /\ b + Len(p.data) <= w
      /\ \A i \in 1 .. Len(p.data) : p.data[i] = b + i
  BY <1>1, <1>3, <1>4 DEF Honest
<1>6. 1 <= From(p, o)
  <2>1. CASE From(p, o) = 0
    <3>1. b = SeqMod - 1
      BY <1>2, <1>3, <2>1, AfterSyn DEF From
    <3>2. Len(p.data) >= 1
      BY <1>2, <1>4
    <3> QED BY <1>2, <1>5, <3>1, <3>2, Sizes
  <2> QED BY <1>2, <2>1
<1>7. b = From(p, o) - 1
  BY <1>2, <1>3, <1>6, AfterSyn DEF From
<1>8. x < From(p, o) + Len(p.data)
  BY DEF From, To
<1>9. PICK i : i = x - From(p, o) + 1
  OBVIOUS
<1>10. i \in 1 .. Len(p.data) /\ b + i = x
  <2>1. PICK a : a = From(p, o)
    OBVIOUS
  <2>2. PICK n : n = Len(p.data)
    OBVIOUS
  <2>3. /\ a \in Nat /\ n \in Nat /\ b = a - 1 /\ i = x - a + 1
        /\ a <= x /\ x < a + n
    BY <1>2, <1>7, <1>8, <1>9, <2>1, <2>2
  <2>4. i \in 1 .. n /\ b + i = x
    BY ONLY <2>3, x \in Nat
  <2> QED BY <2>2, <2>4
<1>11. p.data[i] = x /\ i \in DOMAIN p.data
  BY <1>2, <1>5, <1>10
<1> QED BY <1>11 DEF Range

(* What has not been received is in outPkt, as far as it has been sent,    *)
(* and in inQueue from there.                                              *)
LEMMA KeptHolds ==
  OpensOnce /\ Bounded /\ HonestInv /\ ReceiptInv /\ CutInv => NothingForgotten
<1> SUFFICES ASSUME OpensOnce, Bounded, HonestInv, ReceiptInv, CutInv,
                    NEW e \in Ends, Linked(e), StartedAtFirst(Peer(e)),
                    NEW x \in 1 .. written[e]
             PROVE  x \in Range(Delivered(Peer(e))) \cup Kept(e)
  BY DEF NothingForgotten
<1>1. PICK f : f = Peer(e)
  OBVIOUS
<1>2. f \in Ends /\ Peer(f) = e
  BY <1>1, PeerIsEnd
<1>3. PICK c : c = stream[e]
  OBVIOUS
<1>4. PICK d : d = stream[f]
  OBVIOUS
<1>5. PICK o : o = Origin(e)
  OBVIOUS
<1>6. PICK w : w = written[e]
  OBVIOUS
<1>7. /\ c \in TypedStream /\ d \in TypedStream /\ w \in Nat /\ w < SeqMod
      /\ received[f] \in Seq(Byte) /\ o \in SeqNum
      /\ First(e) = SeqAdd(o, 1) /\ SeqAdd(o, 1) \in SeqNum
  <2>1. w \in Nat /\ w <= MaxBytes /\ MaxBytes < SeqMod /\ MaxBytes \in Nat
    BY <1>6, BoundsAssumption DEF Bounded, HonestInv, OpensOnce
  <2> QED BY <1>2, <1>3, <1>4, <1>5, <2>1, Sizes, FirstType
          DEF Bounded, Origin, First
<1>8. Opened(c) /\ Opened(d) /\ d.initPeer = c.initOur
  BY <1>1, <1>3, <1>4 DEF Linked, Opened
<1>9. Live(c) /\ Heard(c) /\ Live(d) /\ Heard(d)
  BY <1>8, LiveStates
<1>10. PICK m : m = MarksOf(e)
  OBVIOUS
<1>11. Careful(c, m) /\ Careful(d, MarksOf(f))
  BY <1>2, <1>3, <1>4, <1>10 DEF ReceiptInv
<1>12. /\ m.o = o /\ m.reach = Reach(e) /\ MarksOf(f).po = o
  BY <1>2, <1>5, <1>10, MarksType
<1>13. /\ c.initOur = o /\ 1 <= Before(c.outSeqno, o) /\ 1 <= Before(d.inAckno, o)
  BY <1>8, <1>9, <1>11, <1>12 DEF Careful
<1>14. Reach(e) = Before(d.inAckno, o)
  BY <1>1, <1>4, <1>5, <1>9 DEF Reach, GotTo
<1>15. /\ c.outSeqno \in SeqNum /\ d.inAckno \in SeqNum
       /\ c.inQueue \in Seq(Byte) /\ d.outQueue \in Seq(Byte)
  BY <1>7 DEF TypedStream
<1>16. /\ Before(c.outSeqno, SeqAdd(o, 1)) = Before(c.outSeqno, o) - 1
       /\ Before(d.inAckno, SeqAdd(o, 1)) = Before(d.inAckno, o) - 1
       /\ Before(c.outSeqno, o) \in Nat /\ Before(d.inAckno, o) \in Nat
  BY <1>7, <1>13, <1>15, AfterSyn, BeforeType
<1>17. x \in Nat /\ 1 <= x /\ x <= w
  BY <1>6, <1>7
<1>18. SendsHonest(c, SeqAdd(o, 1), w)
  BY <1>3, <1>6, <1>7 DEF HonestInv
<1>19. ReceivesHonest(d, received[f], SeqAdd(o, 1), w)
  BY <1>2, <1>4, <1>6, <1>7 DEF HonestInv
<1>20. CASE Before(c.outSeqno, o) <= x
  <2>1. PICK l : l = Len(c.inQueue)
    OBVIOUS
  <2>2. /\ l \in Nat /\ l <= w /\ Before(c.outSeqno, o) - 1 = w - l
        /\ \A i \in 1 .. l : c.inQueue[i] = w - l + i
    <3>1. /\ Len(c.inQueue) <= w
          /\ Before(c.outSeqno, SeqAdd(o, 1)) = w - Len(c.inQueue)
          /\ \A i \in 1 .. Len(c.inQueue) : c.inQueue[i] = w - Len(c.inQueue) + i
      BY <1>8, <1>18 DEF SendsHonest
    <3>2. Len(c.inQueue) \in Nat
      BY <1>15
    <3> QED BY <1>16, <2>1, <3>1, <3>2
  <2>3. PICK i : i = x - (w - l)
    OBVIOUS
  <2>4. i \in 1 .. l /\ w - l + i = x
    <3>1. PICK a : a = Before(c.outSeqno, o)
      OBVIOUS
    <3>2. /\ a \in Nat /\ w \in Nat /\ l \in Nat /\ x \in Nat /\ x <= w
          /\ a - 1 = w - l /\ a <= x /\ i = x - (w - l)
      BY <1>7, <1>16, <1>17, <1>20, <2>2, <2>3, <3>1
    <3> QED BY ONLY <3>2
  <2>5. c.inQueue[i] = x /\ i \in DOMAIN c.inQueue
    BY <1>15, <2>1, <2>2, <2>4
  <2>6. x \in Range(c.inQueue)
    BY <2>5 DEF Range
  <2> QED BY <1>3, <2>6 DEF Kept
<1>21. CASE x < Before(d.inAckno, o)
  <2>1. PICK s : s = Delivered(f)
    OBVIOUS
  <2>2. s = received[f] \o d.outQueue
    BY <1>4, <2>1 DEF Delivered
  <2>3. s \in Seq(Byte)
    BY <1>7, <1>15, <2>2, ConcatProperties
  <2>4. Consecutive(s) /\ (s # <<>> => s[Len(s)] = Before(d.inAckno, SeqAdd(o, 1)))
    BY <1>8, <1>19, <2>2 DEF ReceivesHonest
  <2>5. Len(s) = Before(d.inAckno, SeqAdd(o, 1))
    BY <1>1, <1>4, <1>8, <1>13, <2>1 DEF StartedAtFirst, Before
  <2>6. \A y \in 1 .. Len(s) : y \in Range(s)
    BY <2>3, <2>4, <2>5, CountsFromOne
  <2>7. x \in 1 .. Len(s)
    BY <1>16, <1>17, <1>21, <2>5
  <2> QED BY <1>1, <2>1, <2>6, <2>7
<1>22. CASE Before(d.inAckno, o) <= x /\ x < Before(c.outSeqno, o)
  <2>1. PICK own \in Cuts, peers \in Cuts : BothFit(e, own, peers)
    BY CutsNow
  <2>2. Tidy(c, m, own, peers)
    BY <1>3, <1>10, <2>1 DEF BothFit, EndFits
  <2>3. Covered(x, c.outPkt, o)
    BY <1>9, <1>12, <1>14, <1>17, <1>22, <2>2 DEF Tidy, Holds
  <2>4. PICK i \in 1 .. Len(c.outPkt) :
          From(c.outPkt[i].pkt, o) <= x /\ x < To(c.outPkt[i].pkt, o)
    BY <2>3 DEF Covered
  <2>5. c.outPkt \in Seq(HonestOut(SeqAdd(o, 1), w))
    BY <1>18 DEF SendsHonest
  <2>6. c.outPkt[i] \in HonestOut(SeqAdd(o, 1), w) /\ i \in DOMAIN c.outPkt
    BY <2>4, <2>5, ElementOfSeq
  <2>7. c.outPkt[i].pkt \in HonestPackets(SeqAdd(o, 1), w)
    BY <2>6 DEF HonestOut
  <2>8. x \in Range(c.outPkt[i].pkt.data)
    BY <1>7, <1>17, <2>4, <2>7, PacketHolds
  <2>9. c.outPkt[i] \in Range(c.outPkt)
    BY <2>6 DEF Range
  <2> QED BY <1>3, <2>8, <2>9 DEF Kept
<1> QED BY <1>16, <1>17, <1>20, <1>21, <1>22

(* No byte is forgotten: every byte that the application has written is    *)
(* delivered or kept by the sender, although acknowledge() drops a packet  *)
(* as soon as an acknowledgement is past its first byte and packets are    *)
(* lost, repeated and overtaken.                                           *)
THEOREM StreamNothingForgotten == HalfSuffices => (Spec => []NothingForgotten)
<1> SUFFICES ASSUME HalfSuffices PROVE Spec => []NothingForgotten
  OBVIOUS
<1>once. OpensOnce /\ NumbersSuffice
  BY HalfIsEnough DEF HalfSuffices
<1>1. Init => Bounded /\ HonestInv /\ ReceiptInv /\ CutInv
  BY <1>once, InitBounded, InitHonest, InitReceipt, InitCut
<1>2. Bounded /\ HonestInv /\ ReceiptInv /\ CutInv /\ [Next]_vars
        => Bounded' /\ HonestInv' /\ ReceiptInv' /\ CutInv'
  <2> SUFFICES ASSUME Bounded, HonestInv, ReceiptInv, CutInv, [Next]_vars
               PROVE  Bounded' /\ HonestInv' /\ ReceiptInv' /\ CutInv'
    OBVIOUS
  <2>1. Bounded' /\ HonestInv' /\ ReceiptInv'
    BY <1>once, NextBounded, NextHonest, NextReceipt
  <2> QED BY <2>1, NextCut
<1>3. Bounded /\ HonestInv /\ ReceiptInv /\ CutInv => NothingForgotten
  BY <1>once, KeptHolds
<1> QED BY <1>1, <1>2, <1>3, PTL DEF Spec

(***************************************************************************)
(* Flow control                                                            *)
(***************************************************************************)

(* The numbers of neither stream roll over before its last byte.           *)
NeverRollsOver == \A e \in Ends : ISN[e][1] + MaxBytes + 1 < SeqMod

(* By how much send() may exceed the window it was granted: where it takes *)
(* TCP_MAX_SEQ for the modulus, one byte too few counts as in transit.     *)
Slack == IF NeverRollsOver THEN 0 ELSE 1

(* A window of w bytes, given together with the acknowledgement a, ends    *)
(* where the other end has room for it to end.                             *)
Granted(w, a, lim) == w = 0 \/ a + w <= lim

(* What the lemmas about one stream say of its surroundings: the origin of *)
(* what it sends, how far it has been sent, and up to where there is room  *)
(* for it; and the same of what it receives.                               *)
Limits == [o : SeqNum, sent : 0 .. SeqMod - 1, lim : 0 .. 3 * SeqMod,
           po : SeqNum, top : 0 .. SeqMod - 1, plim : 0 .. 3 * SeqMod]

(* The packets of a stream that is sent so far, with windows for the other.*)
Paced(o, sent, lim, po, top, plim) ==
    {p \in ShortPacket :
        /\ p.win <= MaxWin
        /\ p.syn => Before(p.seqno, o) = 0
        /\ ~p.syn => p.ack
        /\ To(p, o) <= sent /\ To(p, o) <= lim + Slack /\ 2 * To(p, o) < SeqMod
        /\ p.ack => /\ Before(p.ackno, po) <= top
                    /\ Granted(p.win, Before(p.ackno, po), plim)}
Gives(k) == Paced(k.o, k.sent, k.lim, k.po, k.top, k.plim)
Takes(k) == Paced(k.po, k.top, k.plim, k.o, k.sent, k.lim)

(* The sending half of c: what it has sent there is room for.              *)
Outgoing(c, k) ==
    /\ Before(c.outSeqno, k.o) = k.sent
    /\ k.sent <= k.lim + Slack /\ 2 * k.sent < SeqMod
    /\ Before(c.outAcked, k.o) <= k.sent
    /\ c.inWin <= MaxWin
    /\ Opening(c) => k.sent <= 1
    /\ Opened(c) => /\ c.outWin <= MaxWin
                    /\ Granted(c.outWin, Before(c.outAcked, k.o), k.lim)

(* The receiving half: the room ends two windows after what has been read, *)
(* and the window that is announced does not end later.                    *)
Incoming(c, k) ==
    /\ 1 <= Before(c.inAckno, k.po) /\ Before(c.inAckno, k.po) <= k.top
    /\ 2 * Before(c.inAckno, k.po) < SeqMod
    /\ Before(c.inAckno, k.po) + 2 * MaxWin = k.plim + Len(c.outQueue)
    /\ Len(c.outQueue) <= 2 * MaxWin + Slack
    /\ Granted(c.inWin, Before(c.inAckno, k.po), k.plim)

Measured(c, k) ==
    /\ c \in TypedStream
    /\ c.tx \subseteq Gives(k)
    /\ c.inPkt \in Seq(Takes(k))
    /\ Live(c) => Outgoing(c, k)
    /\ Heard(c) => Incoming(c, k)
    /\ c.state = TCP_SYN_SENT => k.plim = 1

LEMMA SlackIs == Slack \in 0 .. 1
  BY DEF Slack

LEMMA LimitFacts ==
  ASSUME NEW k \in Limits
  PROVE  /\ k.o \in SeqNum /\ k.po \in SeqNum
         /\ k.sent \in Nat /\ k.sent < SeqMod /\ k.top \in Nat /\ k.top < SeqMod
         /\ k.lim \in Nat /\ k.lim <= 3 * SeqMod
         /\ k.plim \in Nat /\ k.plim <= 3 * SeqMod
  BY Sizes DEF Limits

(* The fields of a stream that are about its pace, in numbers.             *)
LEMMA PaceFacts ==
  ASSUME NEW k \in Limits, NEW c \in TypedStream
  PROVE  /\ c.outSeqno \in SeqNum /\ c.outAcked \in SeqNum /\ c.inAckno \in SeqNum
         /\ Before(c.outSeqno, k.o) \in Nat /\ Before(c.outAcked, k.o) \in Nat
         /\ Before(c.inAckno, k.po) \in Nat
         /\ c.outWin \in Nat /\ c.inWin \in Nat /\ c.congestWin \in Nat
         /\ c.congestWin <= MaxWin
         /\ Len(c.outQueue) \in Nat /\ Len(c.inQueue) \in Nat
<1>1. /\ c.outSeqno \in SeqNum /\ c.outAcked \in SeqNum /\ c.inAckno \in SeqNum
      /\ c.outWin \in Nat /\ c.inWin \in Nat /\ c.congestWin \in 0 .. MaxWin
      /\ Len(c.outQueue) \in Nat /\ Len(c.inQueue) \in Nat
  BY DEF TypedStream
<1>2. k.o \in SeqNum /\ k.po \in SeqNum
  BY LimitFacts
<1>3. c.congestWin \in Nat /\ c.congestWin <= MaxWin
  BY <1>1, Sizes
<1> QED BY <1>1, <1>2, <1>3, BeforeType

LEMMA PacedFacts ==
  ASSUME NEW o \in SeqNum, NEW sent, NEW lim, NEW po \in SeqNum, NEW top, NEW plim,
         NEW p \in Paced(o, sent, lim, po, top, plim)
  PROVE  /\ p \in ShortPacket /\ p.seqno \in SeqNum /\ p.ackno \in SeqNum
         /\ p.win \in Nat /\ Len(p.data) \in Nat /\ To(p, o) \in Nat
         /\ Before(p.seqno, o) \in Nat /\ Before(p.ackno, po) \in Nat
         /\ SeqAdd(p.seqno, Len(p.data)) \in SeqNum
         /\ Before(SeqAdd(p.seqno, Len(p.data)), o) = To(p, o)
<1>1. /\ p \in ShortPacket /\ p.seqno \in SeqNum /\ p.ackno \in SeqNum
      /\ p.win \in Nat /\ Len(p.data) \in 0 .. MaxSeg /\ 2 * To(p, o) < SeqMod
  BY ShortPacketParts DEF Paced
<1>2. PICK l \in 0 .. MaxSeg : l = Len(p.data)
  BY <1>1
<1>3. Before(p.seqno, o) \in Nat /\ Before(p.ackno, po) \in Nat
  BY <1>1, BeforeType
<1>4. l \in Nat /\ l \in 0 .. SeqMod /\ SeqMod \in Nat
  BY <1>2, Sizes
<1>5. Before(p.seqno, o) + l < SeqMod
  BY <1>1, <1>2, <1>3, <1>4 DEF To
<1>6. SeqAdd(p.seqno, l) \in SeqNum /\ Before(SeqAdd(p.seqno, l), o) = Before(p.seqno, o) + l
  BY <1>1, <1>4, <1>5, SeqAddType, BeforeSum
<1> QED BY <1>1, <1>2, <1>3, <1>4, <1>6 DEF To

(* More room, and more that is sent.                                       *)
LEMMA PacedGrows ==
  ASSUME NEW o \in SeqNum, NEW po \in SeqNum,
         NEW sent \in Nat, NEW sent2 \in Nat, sent <= sent2,
         NEW lim \in Nat, NEW lim2 \in Nat, lim <= lim2,
         NEW top \in Nat, NEW top2 \in Nat, top <= top2,
         NEW plim \in Nat, NEW plim2 \in Nat, plim <= plim2
  PROVE  /\ Paced(o, sent, lim, po, top, plim) \subseteq Paced(o, sent2, lim2, po, top2, plim2)
         /\ Seq(Paced(o, sent, lim, po, top, plim))
              \subseteq Seq(Paced(o, sent2, lim2, po, top2, plim2))
<1>1. ASSUME NEW p \in Paced(o, sent, lim, po, top, plim)
      PROVE  p \in Paced(o, sent2, lim2, po, top2, plim2)
  <2>1. /\ p \in ShortPacket /\ p.win \in Nat /\ To(p, o) \in Nat
        /\ Before(p.ackno, po) \in Nat
    BY PacedFacts
  <2>2. PICK a \in Nat : a = Before(p.ackno, po)
    BY <2>1
  <2>3. To(p, o) <= sent2 /\ To(p, o) <= lim2 + Slack
    BY <2>1, SlackIs DEF Paced
  <2>4. p.ack => a <= top2 /\ Granted(p.win, a, plim2)
    BY <2>1, <2>2 DEF Paced, Granted
  <2> QED BY <2>2, <2>3, <2>4 DEF Paced
<1>2. Paced(o, sent, lim, po, top, plim) \subseteq Paced(o, sent2, lim2, po, top2, plim2)
  BY <1>1
<1> QED BY <1>2, SeqMonotonic

LEMMA GivesTypes ==
  ASSUME NEW k
  PROVE  Gives(k) \subseteq ShortPacket /\ Takes(k) \subseteq ShortPacket
  BY DEF Gives, Takes, Paced

(* The fields that Measured looks at, but for the packets.                 *)
Level(c, d) ==
    /\ d.outSeqno = c.outSeqno /\ d.outAcked = c.outAcked /\ d.outWin = c.outWin
    /\ d.inAckno = c.inAckno /\ d.inWin = c.inWin /\ d.outQueue = c.outQueue

LEMMA LevelMeasured ==
  ASSUME NEW k, NEW c, Measured(c, k), NEW d \in TypedStream, Level(c, d),
         d.state = c.state \/ (Opened(c) /\ Opened(d)),
         d.tx \subseteq Gives(k), d.inPkt \in Seq(Takes(k))
  PROVE  Measured(d, k)
<1>1. /\ Live(d) <=> Live(c)
      /\ Heard(d) <=> Heard(c)
      /\ Opened(d) <=> Opened(c)
      /\ Opening(d) <=> Opening(c)
      /\ d.state = TCP_SYN_SENT => c.state = TCP_SYN_SENT
  BY LiveStates DEF Live, Heard, Opened, Opening
<1>2. Live(d) => Outgoing(d, k)
  BY <1>1 DEF Measured, Outgoing, Level
<1>3. Heard(d) => Incoming(d, k)
  BY <1>1 DEF Measured, Incoming, Level
<1> QED BY <1>1, <1>2, <1>3 DEF Measured

LEMMA ClosedMeasured ==
  ASSUME NEW k, NEW c \in TypedStream, ~Live(c), c.inPkt = <<>>, c.tx \subseteq Gives(k)
  PROVE  Measured(c, k)
<1>1. ~Heard(c) /\ c.state # TCP_SYN_SENT
  BY LiveStates
<1> QED BY <1>1 DEF Measured

LEMMA CleanupMeasured ==
  ASSUME NEW k, NEW c, Measured(c, k)
  PROVE  Measured(Cleanup(c), k)
<1>1. PICK d : d = Cleanup(c)
  OBVIOUS
<1>2. d \in TypedStream /\ d.state = TCP_CLOSED /\ d.inPkt = <<>> /\ d.tx = c.tx
  BY <1>1, CleanupFields, CleanupType DEF Measured
<1>3. ~Live(d)
  BY <1>2, LiveStates
<1> QED BY <1>1, <1>2, <1>3, ClosedMeasured DEF Measured

LEMMA StateMeasured ==
  ASSUME NEW k, NEW c, Measured(c, k), Opened(c), NEW s \in 0 .. 10, s >= TCP_ESTABLISHED
  PROVE  Measured([c EXCEPT !.state = s], k) /\ Opened([c EXCEPT !.state = s])
<1>1. PICK d : d = [c EXCEPT !.state = s]
  OBVIOUS
<1>2. c \in TypedStream /\ d \in TypedStream /\ c = Fields(c)
  BY <1>1, StateType, TypedParts DEF Measured
<1>3. d.state = s /\ Level(c, d) /\ d.tx = c.tx /\ d.inPkt = c.inPkt
  BY <1>1, <1>2 DEF Fields, Level
<1>4. Opened(d)
  BY <1>3 DEF Opened
<1>5. Measured(d, k)
  BY <1>2, <1>3, <1>4, LevelMeasured DEF Measured
<1> QED BY <1>1, <1>4, <1>5

(* A packet that is made now.                                              *)
LEMMA FreshPaced ==
  ASSUME NEW k \in Limits, NEW c, Measured(c, k), Live(c), Heard(c),
         NEW p \in ShortPacket, ~p.syn, p.ack, p.ackno = c.inAckno, p.win = c.inWin,
         To(p, k.o) <= k.sent
  PROVE  p \in Gives(k)
<1>1. Outgoing(c, k) /\ Incoming(c, k) /\ c \in TypedStream
  BY DEF Measured
<1>2. k.sent \in Nat /\ k.lim \in Nat /\ k.o \in SeqNum /\ Slack \in 0 .. 1 /\ SeqMod \in Nat
  BY LimitFacts, SlackIs, Sizes
<1>3. To(p, k.o) \in Nat
  BY <1>2, PacketFacts DEF To
<1>4. PICK t \in Nat : t = To(p, k.o)
  BY <1>3
<1>5. t <= k.lim + Slack /\ 2 * t < SeqMod
  BY <1>1, <1>2, <1>4 DEF Outgoing
<1>6. p.win <= MaxWin
  BY <1>1 DEF Outgoing
<1>7. Before(p.ackno, k.po) <= k.top /\ Granted(p.win, Before(p.ackno, k.po), k.plim)
  BY <1>1 DEF Incoming
<1> QED BY <1>4, <1>5, <1>6, <1>7 DEF Gives, Paced

(* A bare acknowledgement or a FIN, as toSend makes it of x.               *)
BareMade(d, x) ==
    /\ d \in TypedStream /\ d.state = x.state /\ Level(x, d) /\ d.inPkt = x.inPkt
    /\ \E p \in ShortPacket :
         /\ ~p.syn /\ p.ack /\ p.seqno = x.outSeqno /\ p.ackno = x.inAckno
         /\ p.win = x.inWin /\ Len(p.data) = 0 /\ d.tx \subseteq x.tx \cup {p}

LEMMA BareIsLevel ==
  ASSUME NEW x \in TypedStream, NEW retrans \in BOOLEAN, NEW pkt \in {AckPkt, FinPkt}
  PROVE  BareMade(ToSend(x, pkt, retrans), x)
<1> DEFINE p == Made(x, pkt)
           add == IF pkt.syn THEN 1 ELSE Len(pkt.data)
           seqno == SeqAdd(x.outSeqno, add)
           ack == p.ackno
           win == p.win
           tx == x.tx \cup {p}
           on == x.timerOn \/ retrans
           out == IF retrans THEN Append(x.outPkt, [pkt |-> p, retrans |-> 0])
                             ELSE x.outPkt
<1>1. PICK d : d = ToSend(x, pkt, retrans)
  OBVIOUS
<1>2. /\ pkt \in Flags /\ pkt.data = <<>> /\ Len(pkt.data) <= MaxSeg /\ Len(pkt.data) = 0
      /\ ~pkt.syn /\ pkt.ack
  <2>1. pkt \in Flags /\ pkt.data = <<>>
    BY FlagsOfAck
  <2>2. ~pkt.syn /\ pkt.ack
    BY DEF AckPkt, FinPkt
  <2>3. Len(pkt.data) = 0
    BY <2>1
  <2> QED BY <2>1, <2>2, <2>3, Sizes
<1>3. d \in TypedStream
  BY <1>1, <1>2, ToSendType
<1>4. p \in ShortPacket /\ p.seqno = x.outSeqno /\ p.data = pkt.data /\ p.ack = pkt.ack
      /\ p.syn = pkt.syn /\ p.ackno = x.inAckno /\ p.win = x.inWin
  BY <1>2, MadeType DEF Made
<1>5. x.outSeqno \in SeqNum /\ x = Fields(x)
  BY TypedParts DEF TypedStream
<1>6. seqno = x.outSeqno
  <2>1. add = 0
    BY <1>2
  <2> HIDE DEF add
  <2> QED BY <1>5, <2>1, AddNothing
<1>7. d = IF ~x.known THEN x ELSE
          [x EXCEPT !.outSeqno = seqno, !.lastAck = ack, !.lastWin = win,
                    !.tx = tx, !.timerOn = on, !.outPkt = out]
  BY <1>1 DEF ToSend, Made
<1> HIDE DEF p, add, seqno, ack, win, on, out, tx
<1>8. /\ d.state = x.state /\ Level(x, d) /\ d.inPkt = x.inPkt
      /\ d.tx = x.tx \/ d.tx = tx
  BY <1>5, <1>6, <1>7 DEF Fields, Level
<1>9. d.tx \subseteq x.tx \cup {p}
  BY <1>8 DEF tx
<1> QED BY <1>1, <1>2, <1>3, <1>4, <1>8, <1>9 DEF BareMade

LEMMA BareMeasured ==
  ASSUME NEW k \in Limits, NEW c, Measured(c, k), Opened(c), NEW pkt \in {AckPkt, FinPkt},
         NEW retrans \in BOOLEAN
  PROVE  /\ Measured(ToSend(c, pkt, retrans), k)
         /\ ToSend(c, pkt, retrans).state = c.state
<1>1. PICK d : d = ToSend(c, pkt, retrans)
  OBVIOUS
<1>2. c \in TypedStream /\ Live(c) /\ Heard(c)
  BY LiveStates DEF Measured
<1>3. BareMade(d, c)
  BY <1>1, <1>2, BareIsLevel
<1>4. PICK p \in ShortPacket :
         /\ ~p.syn /\ p.ack /\ p.seqno = c.outSeqno /\ p.ackno = c.inAckno
         /\ p.win = c.inWin /\ Len(p.data) = 0 /\ d.tx \subseteq c.tx \cup {p}
  BY <1>3 DEF BareMade
<1>5. To(p, k.o) <= k.sent
  <2>1. Before(c.outSeqno, k.o) = k.sent /\ k.sent \in Nat
    BY <1>2, LimitFacts DEF Measured, Outgoing
  <2> QED BY <1>4, <2>1 DEF To
<1>6. p \in Gives(k)
  BY <1>2, <1>4, <1>5, FreshPaced
<1>7. d.tx \subseteq Gives(k) /\ d.inPkt \in Seq(Takes(k))
  BY <1>3, <1>4, <1>6 DEF Measured, BareMade
<1>8. Measured(d, k)
  BY <1>3, <1>7, LevelMeasured DEF BareMade
<1> QED BY <1>1, <1>3, <1>8 DEF BareMade

LEMMA SendAckMeasured ==
  ASSUME NEW k \in Limits, NEW c, Measured(c, k), Opened(c)
  PROVE  Measured(SendAck(c), k) /\ SendAck(c).state = c.state
  BY BareMeasured DEF SendAck

LEMMA SendNothingMeasured ==
  ASSUME NEW k \in Limits, NEW c, Measured(c, k), Opened(c), NEW idle
  PROVE  Measured(SendNothing(c, idle), k)
<1> DEFINE s == IF c.state = TCP_ESTABLISHED THEN TCP_FIN_WAIT_1 ELSE TCP_LAST_ACK
<1>1. PICK x : x = ToSend(c, FinPkt, FALSE)
  OBVIOUS
<1>2. Measured(x, k) /\ x.state = c.state
  BY <1>1, BareMeasured
<1>3. s \in 0 .. 10 /\ s >= TCP_ESTABLISHED
  BY States
<1>4. Measured([x EXCEPT !.state = s], k)
  <2>1. Opened(x)
    BY <1>2 DEF Opened
  <2> HIDE DEF s
  <2> QED BY <1>2, <1>3, <2>1, StateMeasured
<1>5. Measured(SendAck(c), k)
  BY SendAckMeasured
<1>6. SendNothing(c, idle) \in {[x EXCEPT !.state = s], SendAck(c), c}
  BY <1>1 DEF SendNothing
<1> HIDE DEF s
<1> QED BY <1>4, <1>5, <1>6

(* A stream that is open, or has been closed and holds no packets.         *)
Flowing(c, k) ==
    /\ Measured(c, k)
    /\ ~Opened(c) => ~Live(c) /\ c.inPkt = <<>>

LEMMA CleanupFlowing ==
  ASSUME NEW k, NEW c, Measured(c, k)
  PROVE  Flowing(Cleanup(c), k)
<1>1. c \in TypedStream
  BY DEF Measured
<1>2. Cleanup(c).state = TCP_CLOSED /\ Cleanup(c).inPkt = <<>>
  BY <1>1, CleanupFields
<1>3. ~Live(Cleanup(c))
  BY <1>2, LiveStates
<1> QED BY <1>2, <1>3, CleanupMeasured DEF Flowing

LEMMA TakeFinFlowing ==
  ASSUME NEW k \in Limits, NEW c, Measured(c, k), Opened(c)
  PROVE  Flowing(TakeFin(c), k)
<1>1. PICK a : a = SendAck(c)
  OBVIOUS
<1>2. Measured(a, k) /\ Opened(a) /\ a \in TypedStream
  BY <1>1, SendAckMeasured DEF Opened, Measured
<1>3. PICK d : d = [a EXCEPT !.inActive = FALSE]
  OBVIOUS
<1>4. a = Fields(a)
  BY <1>2, TypedParts
<1>5. d \in TypedStream
  BY <1>2, <1>3, InActiveType
<1>6. Level(a, d) /\ d.tx = a.tx /\ d.state = a.state /\ d.inPkt = a.inPkt
  BY <1>3, <1>4 DEF Fields, Level
<1>7. Measured(d, k) /\ Opened(d)
  BY <1>2, <1>5, <1>6, LevelMeasured DEF Opened, Measured
<1>8. /\ Flowing([d EXCEPT !.state = TCP_CLOSE_WAIT], k)
      /\ Flowing([d EXCEPT !.state = TCP_CLOSING], k)
  <2>1. /\ TCP_CLOSE_WAIT \in 0 .. 10 /\ TCP_CLOSING \in 0 .. 10
        /\ TCP_CLOSE_WAIT >= TCP_ESTABLISHED /\ TCP_CLOSING >= TCP_ESTABLISHED
    BY States
  <2> QED BY <1>7, <2>1, StateMeasured DEF Flowing
<1>9. Flowing(Cleanup(d), k) /\ Flowing(d, k)
  BY <1>7, CleanupFlowing DEF Flowing
<1>10. TakeFin(c) \in {d, [d EXCEPT !.state = TCP_CLOSE_WAIT],
                          [d EXCEPT !.state = TCP_CLOSING], Cleanup(d)}
  BY <1>1, <1>3 DEF TakeFin, TCP_ESTABLISHED, TCP_FIN_WAIT_1, TCP_FIN_WAIT_2
<1> QED BY <1>8, <1>9, <1>10

LEMMA TakeAckOfFinFlowing ==
  ASSUME NEW k \in Limits, NEW c, Flowing(c, k)
  PROVE  Flowing(TakeAckOfFin(c), k)
<1>1. c.state = TCP_FIN_WAIT_1 => Flowing([c EXCEPT !.state = TCP_FIN_WAIT_2], k)
  <2>1. TCP_FIN_WAIT_2 \in 0 .. 10 /\ TCP_FIN_WAIT_2 >= TCP_ESTABLISHED
    BY States
  <2>2. c.state = TCP_FIN_WAIT_1 => Opened(c)
    BY States DEF Opened
  <2> QED BY <2>1, <2>2, StateMeasured DEF Flowing
<1>2. Flowing(Cleanup(c), k)
  BY CleanupFlowing DEF Flowing
<1>3. TakeAckOfFin(c) \in
        (IF c.state = TCP_FIN_WAIT_1 THEN {[c EXCEPT !.state = TCP_FIN_WAIT_2]}
         ELSE {Cleanup(c), c})
  BY DEF TakeAckOfFin, TCP_FIN_WAIT_1, TCP_LAST_ACK, TCP_CLOSING
<1> QED BY <1>1, <1>2, <1>3

(* The window that UpdateInWinSize announces ends with the room there is.  *)
LEMMA WindowInRoom ==
  ASSUME NEW a \in Nat, NEW q \in Nat, NEW plim \in Nat, a + 2 * MaxWin = plim + q,
         NEW win, win = IF q < MaxWin THEN MaxWin
                        ELSE IF q < 2 * MaxWin THEN 2 * MaxWin - q ELSE 0
  PROVE  win \in Nat /\ win <= MaxWin /\ Granted(win, a, plim)
  BY Sizes DEF Granted

(* What comes within the room there is fits the buffer.                    *)
LEMMA TakenMeasured ==
  ASSUME NEW k \in Limits, NEW c, Measured(c, k), Opened(c),
         NEW p \in Takes(k), p.seqno = c.inAckno
  PROVE  /\ Measured(UpdateInWinSize(Taken(c, p)), k)
         /\ Opened(UpdateInWinSize(Taken(c, p)))
<1> DEFINE fresh == p.ack /\ IsOldSequence(c.outAcked, p.ackno)
           ackno == SeqAdd(p.seqno, Len(p.data))
           acked == IF fresh THEN p.ackno ELSE c.outAcked
           outwin == IF fresh THEN p.win ELSE c.outWin
           q == c.outQueue \o p.data
           win == IF Len(q) < MaxWin THEN MaxWin
                  ELSE IF Len(q) < 2 * MaxWin THEN 2 * MaxWin - Len(q) ELSE 0
<1>1. PICK x : x = Taken(c, p)
  OBVIOUS
<1>2. PICK d : d = UpdateInWinSize(x)
  OBVIOUS
<1>3. p \in ShortPacket /\ c \in TypedStream /\ c = Fields(c)
  BY GivesTypes, TypedParts DEF Measured
<1>4. x \in TypedStream /\ d \in TypedStream /\ x = Fields(x)
  BY <1>1, <1>2, <1>3, TakenType, UpdateInWinSizeType, TypedParts
<1>5. x = [c EXCEPT !.inAckno = ackno, !.outAcked = acked, !.outWin = outwin,
                    !.outQueue = q]
  BY <1>1 DEF Taken
<1> HIDE DEF ackno, acked, outwin, q
<1>6. /\ x.state = c.state /\ x.outSeqno = c.outSeqno /\ x.tx = c.tx
      /\ x.inPkt = c.inPkt /\ x.inAckno = ackno /\ x.outAcked = acked
      /\ x.outWin = outwin /\ x.outQueue = q
  BY <1>3, <1>5 DEF Fields
<1>7. d = [x EXCEPT !.inWin = win]
  BY <1>2, <1>6 DEF UpdateInWinSize
<1> HIDE DEF win
<1>8. /\ d.state = c.state /\ d.outSeqno = c.outSeqno /\ d.tx = c.tx
      /\ d.inPkt = c.inPkt /\ d.inAckno = ackno /\ d.outAcked = acked
      /\ d.outWin = outwin /\ d.outQueue = q /\ d.inWin = win
  BY <1>4, <1>6, <1>7 DEF Fields
<1>9. Live(c) /\ Heard(c) /\ Live(d) /\ Heard(d) /\ Opened(d)
      /\ ~Opening(d) /\ d.state # TCP_SYN_SENT
  BY <1>8, LiveStates DEF Opened
<1>10. Outgoing(c, k) /\ Incoming(c, k) /\ c.tx \subseteq Gives(k)
       /\ c.inPkt \in Seq(Takes(k))
  BY <1>9 DEF Measured
<1>11. /\ k.po \in SeqNum /\ k.o \in SeqNum /\ k.plim \in Nat /\ k.top \in Nat
       /\ k.lim \in Nat /\ k.sent \in Nat /\ Slack \in 0 .. 1 /\ MaxWin \in Nat
       /\ SeqMod \in Nat
  BY LimitFacts, SlackIs, Sizes
<1>12. PICK a, t, l, n \in Nat :
         /\ a = Before(c.inAckno, k.po) /\ t = To(p, k.po) /\ l = Len(p.data)
         /\ n = Len(c.outQueue)
  <2>1. Before(c.inAckno, k.po) \in Nat /\ Len(c.outQueue) \in Nat
    BY <1>3, PaceFacts
  <2>2. To(p, k.po) \in Nat /\ Len(p.data) \in Nat
    BY <1>11, PacedFacts DEF Takes
  <2> QED BY <2>1, <2>2
<1>13. t = a + l /\ 1 <= a /\ a + 2 * MaxWin = k.plim + n
  BY <1>10, <1>12 DEF To, Incoming
<1>14. /\ t <= k.top /\ t <= k.plim + Slack /\ 2 * t < SeqMod
       /\ p.win <= MaxWin
       /\ p.ack => /\ Before(p.ackno, k.o) <= k.sent
                   /\ Granted(p.win, Before(p.ackno, k.o), k.lim)
  BY <1>12 DEF Takes, Paced
<1>15. Before(ackno, k.po) = t
  BY <1>11, <1>12, PacedFacts DEF Takes, ackno
<1>16. Len(q) = n + l
  BY <1>3, <1>12, ShortPacketParts DEF q, TypedStream
<1>17. t + 2 * MaxWin = k.plim + (n + l) /\ n + l <= 2 * MaxWin + Slack
  <2>1. PICK r, w, z \in Nat : r = k.plim /\ w = MaxWin /\ z = Slack
    BY <1>11
  <2>2. t = a + l /\ a + 2 * w = r + n /\ t <= r + z
    BY <1>13, <1>14, <2>1
  <2>3. t + 2 * w = r + (n + l) /\ n + l <= 2 * w + z
    BY ONLY <2>2
  <2> QED BY <2>1, <2>3
<1>18. win \in Nat /\ win <= MaxWin /\ Granted(win, t, k.plim)
  <2>1. n + l \in Nat
    OBVIOUS
  <2> QED BY <1>11, <1>12, <1>16, <1>17, <2>1, WindowInRoom DEF win
<1>19. Incoming(d, k)
  <2>1. 1 <= t
    BY ONLY <1>12, <1>13
  <2> QED BY <1>8, <1>14, <1>15, <1>16, <1>17, <1>18, <2>1 DEF Incoming
<1>20. /\ Before(acked, k.o) <= k.sent /\ outwin <= MaxWin
       /\ Granted(outwin, Before(acked, k.o), k.lim)
  <2>1. \/ p.ack /\ acked = p.ackno /\ outwin = p.win
        \/ acked = c.outAcked /\ outwin = c.outWin
    BY DEF acked, outwin
  <2>2. /\ Before(c.outAcked, k.o) <= k.sent /\ c.outWin <= MaxWin
        /\ Granted(c.outWin, Before(c.outAcked, k.o), k.lim)
    BY <1>10 DEF Outgoing
  <2> QED BY <1>14, <2>1, <2>2
<1>21. Outgoing(d, k)
  BY <1>8, <1>9, <1>10, <1>18, <1>20 DEF Outgoing
<1>22. Measured(d, k)
  BY <1>4, <1>8, <1>9, <1>10, <1>19, <1>21 DEF Measured
<1> QED BY <1>1, <1>2, <1>9, <1>22

LEMMA ConsumePktFlowing ==
  ASSUME NEW k \in Limits, NEW c, Measured(c, k), Opened(c),
         NEW p \in Takes(k), p.seqno = c.inAckno
  PROVE  Flowing(ConsumePkt(c, p), k)
<1> DEFINE d == UpdateInWinSize(Taken(c, p))
           f == IF p.fin THEN TakeFin(d) ELSE d
<1>1. Measured(d, k) /\ Opened(d)
  BY TakenMeasured
<1>2. ConsumePkt(c, p) \in {f, TakeAckOfFin(f)}
  BY DEF ConsumePkt, Taken
<1> HIDE DEF d
<1>3. Flowing(f, k)
  BY <1>1, TakeFinFlowing DEF Flowing
<1> HIDE DEF f
<1> QED BY <1>2, <1>3, TakeAckOfFinFlowing

LEMMA InPktMeasured ==
  ASSUME NEW k, NEW c, Measured(c, k), NEW q \in Seq(Takes(k))
  PROVE  /\ Measured([c EXCEPT !.inPkt = q], k)
         /\ [c EXCEPT !.inPkt = q].state = c.state
         /\ [c EXCEPT !.inPkt = q].inPkt = q
         /\ [c EXCEPT !.inPkt = q].inAckno = c.inAckno
<1>1. PICK d : d = [c EXCEPT !.inPkt = q]
  OBVIOUS
<1>2. q \in Seq(ShortPacket)
  BY GivesTypes, SeqMonotonic
<1>3. c \in TypedStream /\ d \in TypedStream /\ c = Fields(c)
  BY <1>1, <1>2, InPktType, TypedParts DEF Measured
<1>4. Level(c, d) /\ d.tx = c.tx /\ d.state = c.state /\ d.inPkt = q
      /\ d.inAckno = c.inAckno
  BY <1>1, <1>3 DEF Fields, Level
<1>5. Measured(d, k)
  BY <1>3, <1>4, LevelMeasured DEF Measured
<1> QED BY <1>1, <1>4, <1>5

LEMMA ConsumeNextFlowing ==
  ASSUME NEW k \in Limits, NEW c, Flowing(c, k)
  PROVE  Flowing(ConsumeNext(c), k)
<1>1. CASE ConsumeNext(c) = c
  BY <1>1
<1>2. ASSUME NEW i \in 1 .. Len(c.inPkt), Matches(c, i),
             ConsumeNext(c) =
               ConsumePkt([c EXCEPT !.inPkt = SubSeq(c.inPkt, 1, i - 1)
                                      \o SubSeq(c.inPkt, i + 1, Len(c.inPkt))],
                          c.inPkt[i])
      PROVE  Flowing(ConsumeNext(c), k)
  <2> DEFINE q == SubSeq(c.inPkt, 1, i - 1) \o SubSeq(c.inPkt, i + 1, Len(c.inPkt))
             p == c.inPkt[i]
  <2>1. Measured(c, k) /\ c.inPkt \in Seq(Takes(k)) /\ Opened(c)
    <3>1. c.inPkt # <<>>
      BY <1>2
    <3> QED BY <3>1 DEF Flowing, Measured
  <2>2. p \in Takes(k)
    BY <2>1
  <2>3. q \in Seq(Takes(k))
    BY <2>1, TakenOut
  <2> HIDE DEF q
  <2>4. PICK x : x = [c EXCEPT !.inPkt = q]
    OBVIOUS
  <2>5. Measured(x, k) /\ x.state = c.state /\ x.inAckno = c.inAckno
    BY <2>1, <2>3, <2>4, InPktMeasured
  <2>6. Opened(x) /\ p.seqno = x.inAckno
    BY <1>2, <2>1, <2>5 DEF Opened, Matches
  <2>7. ConsumeNext(c) = ConsumePkt(x, p)
    BY <1>2, <2>4 DEF q
  <2> HIDE DEF p
  <2>8. Flowing(ConsumePkt(x, p), k)
    BY <2>2, <2>5, <2>6, ConsumePktFlowing
  <2> QED BY <2>7, <2>8
<1> QED BY <1>1, <1>2, ConsumeNextIs DEF Flowing, Measured

LEMMA CheckInPktsFlowing ==
  ASSUME NEW k \in Limits, NEW c, Flowing(c, k)
  PROVE  Measured(CheckInPkts(c), k)
<1> DEFINE S == {x \in TypedStream : Flowing(x, k)}
<1>1. PICK d : d = ConsumeAll(c)
  OBVIOUS
<1>2. d \in S
  <2>1. c \in S /\ Len(c.inPkt) \in Nat
    BY DEF Flowing, Measured, TypedStream
  <2>2. \A x \in S : ConsumeNext(x) \in S
    BY ConsumeNextFlowing, ConsumeNextType
  <2> HIDE DEF S
  <2> QED BY <1>1, <2>1, <2>2, ConsumeAllStays
<1>3. Measured(d, k)
  BY <1>2 DEF Flowing
<1>4. PICK q : q = NewPkts(d)
  OBVIOUS
<1>5. CheckInPkts(c) = [d EXCEPT !.inPkt = q]
  BY <1>1, <1>4 DEF CheckInPkts
<1> HIDE DEF S
<1>6. q \in Seq(Takes(k))
  BY <1>3, <1>4, NewPktsFrom DEF Measured
<1> QED BY <1>3, <1>5, <1>6, InPktMeasured

(* A SYN lies before what an open stream waits for.                        *)
LEMMA SynIsOld ==
  ASSUME NEW s \in SeqNum, NEW a \in SeqNum, NEW po \in SeqNum, Before(s, po) = 0,
         1 <= Before(a, po), 2 * Before(a, po) < SeqMod
  PROVE  IsOldSequence(s, a)
  BY SeqModAssumption DEF IsOldSequence, Before, SeqSub, SeqNum

LEMMA AckedMeasured ==
  ASSUME NEW k \in Limits, NEW c, Measured(c, k), Opened(c),
         NEW p \in Takes(k), p.ack
  PROVE  /\ Measured([c EXCEPT !.outAcked = p.ackno, !.outWin = p.win], k)
         /\ Opened([c EXCEPT !.outAcked = p.ackno, !.outWin = p.win])
<1>1. PICK d : d = [c EXCEPT !.outAcked = p.ackno, !.outWin = p.win]
  OBVIOUS
<1>2. p \in ShortPacket /\ c \in TypedStream /\ c = Fields(c)
  BY GivesTypes, TypedParts DEF Measured
<1>3. d \in TypedStream
  BY <1>1, <1>2, AckedType, ShortPacketParts
<1>4. /\ d.state = c.state /\ d.outSeqno = c.outSeqno /\ d.tx = c.tx
      /\ d.inPkt = c.inPkt /\ d.inAckno = c.inAckno /\ d.outAcked = p.ackno
      /\ d.outWin = p.win /\ d.outQueue = c.outQueue /\ d.inWin = c.inWin
  BY <1>1, <1>2 DEF Fields
<1>5. Live(c) /\ Heard(c) /\ Live(d) /\ Heard(d) /\ Opened(d)
      /\ ~Opening(d) /\ d.state # TCP_SYN_SENT
  BY <1>4, LiveStates DEF Opened
<1>6. p.win <= MaxWin
      /\ Before(p.ackno, k.o) <= k.sent /\ Granted(p.win, Before(p.ackno, k.o), k.lim)
  BY DEF Takes, Paced
<1>7. Outgoing(d, k)
  BY <1>4, <1>5, <1>6 DEF Measured, Outgoing
<1>8. Incoming(d, k)
  BY <1>4, <1>5 DEF Measured, Incoming
<1>9. Measured(d, k)
  BY <1>3, <1>4, <1>5, <1>7, <1>8 DEF Measured
<1> QED BY <1>1, <1>5, <1>9

LEMMA IncomingEstablishedMeasured ==
  ASSUME NEW k \in Limits, NEW c, Measured(c, k), Opened(c), NEW p \in Takes(k)
  PROVE  Measured(IncomingEstablished(c, p), k)
<1> DEFINE a == IF p.ack THEN p.ackno ELSE c.outAcked
           x == [c EXCEPT !.outAcked = a, !.outWin = p.win]
           d == IF InWindow(c, p) THEN x ELSE SendAck(c)
           q == IF Len(Append(d.inPkt, p)) > MaxQueue
                  THEN Tail(Append(d.inPkt, p)) ELSE Append(d.inPkt, p)
<1>1. InWindow(c, p) => p.ack
  <2>1. Heard(c)
    BY LiveStates
  <2>2. /\ c.inAckno \in SeqNum /\ k.po \in SeqNum /\ p.seqno \in SeqNum
        /\ 1 <= Before(c.inAckno, k.po) /\ 2 * Before(c.inAckno, k.po) < SeqMod
    <3>1. c \in TypedStream /\ Incoming(c, k)
      BY <2>1 DEF Measured
    <3>2. p \in ShortPacket
      BY GivesTypes
    <3> QED BY <3>1, <3>2, PaceFacts, LimitFacts, ShortPacketParts DEF Incoming
  <2>3. ~p.ack => Before(p.seqno, k.po) = 0
    BY DEF Takes, Paced
  <2> QED BY <2>2, <2>3, SynIsOld DEF InWindow
<1>2. InWindow(c, p) => Measured(x, k) /\ Opened(x)
  BY <1>1, AckedMeasured
<1>3. Measured(SendAck(c), k) /\ Opened(SendAck(c))
  BY SendAckMeasured DEF Opened
<1>4. IncomingEstablished(c, p) = CheckInPkts(Enqueue(d, p))
  BY DEF IncomingEstablished
<1> HIDE DEF x
<1>5. Measured(d, k) /\ Opened(d)
  BY <1>2, <1>3
<1>6. Enqueue(d, p) = [d EXCEPT !.inPkt = q]
  BY DEF Enqueue
<1> HIDE DEF d
<1>7. q \in Seq(Takes(k))
  BY <1>5, Enqueued DEF Measured
<1> HIDE DEF q
<1>8. Measured(Enqueue(d, p), k) /\ Enqueue(d, p).state = d.state
  BY <1>5, <1>6, <1>7, InPktMeasured
<1>9. Flowing(Enqueue(d, p), k)
  BY <1>5, <1>8 DEF Flowing, Opened
<1> QED BY <1>4, <1>9, CheckInPktsFlowing

(***************************************************************************)
(* Sending within the windows                                              *)
(***************************************************************************)

(* The limits that go with the marks of TcpReceiptsProofs.                 *)
Matching(k, m) == k.o = m.o /\ k.po = m.po /\ k.top = m.top

(* What a stream may send, with the window that it announces.              *)
LEMMA OwnPaced ==
  ASSUME NEW k \in Limits, NEW m \in Marks, Matching(k, m), NEW d \in TypedStream,
         Live(d), Outgoing(d, k), Heard(d) => Incoming(d, k),
         NEW p \in OwnPackets(d, m), p.win = d.inWin
  PROVE  p \in Gives(k)
<1>1. /\ k.sent \in Nat /\ k.lim \in Nat /\ k.o \in SeqNum /\ k.po \in SeqNum
      /\ k.top \in Nat /\ k.plim \in Nat /\ Slack \in 0 .. 1 /\ SeqMod \in Nat
      /\ k.o = m.o /\ k.po = m.po
  BY LimitFacts, SlackIs, Sizes DEF Matching
<1>2. /\ p \in ShortPacket /\ (p.syn \/ p.ack)
      /\ Placed(p, k.o, k.sent) /\ Acks(p, k.po, Gained(d, k.po))
  BY <1>1 DEF OwnPackets, Outgoing
<1>3. Before(p.seqno, k.o) \in Nat /\ Len(p.data) \in Nat /\ Before(p.ackno, k.po) \in Nat
  BY <1>1, <1>2, PacketFacts
<1>4. PICK t \in Nat : t = To(p, k.o)
  BY <1>3 DEF To
<1>5. t <= k.sent
  BY <1>2, <1>4 DEF Placed, To
<1>6. t <= k.lim + Slack /\ 2 * t < SeqMod
  BY <1>1, <1>4, <1>5 DEF Outgoing
<1>7. p.win <= MaxWin
  BY DEF Outgoing
<1>8. p.syn => Before(p.seqno, k.o) = 0
  BY <1>1, <1>2, BeforeType DEF Placed
<1>9. ASSUME p.ack
      PROVE  /\ Before(p.ackno, k.po) <= k.top
             /\ Granted(p.win, Before(p.ackno, k.po), k.plim)
  <2>1. PICK a \in Nat : a = Before(p.ackno, k.po)
    BY <1>3
  <2>2. /\ Before(d.inAckno, k.po) \in Nat /\ d.inWin \in Nat
    BY PaceFacts
  <2>3. PICK b \in Nat : b = Before(d.inAckno, k.po)
    BY <2>2
  <2>4. d.state # TCP_SYN_SENT /\ a <= b
    BY <1>2, <1>9, <2>1, <2>3 DEF Acks, Gained
  <2>5. Heard(d)
    BY <2>4 DEF Live, Opening, Heard
  <2>6. b <= k.top /\ Granted(d.inWin, b, k.plim)
    BY <2>3, <2>5 DEF Incoming
  <2>7. a <= k.top
    BY <1>1, <2>4, <2>6
  <2>8. Granted(p.win, a, k.plim)
    BY <1>1, <2>2, <2>4, <2>6 DEF Granted
  <2> QED BY <2>1, <2>7, <2>8
<1> QED BY <1>2, <1>4, <1>5, <1>6, <1>7, <1>8, <1>9 DEF Gives, Paced

LEMMA AcknowledgeWindows ==
  ASSUME NEW c \in TypedStream
  PROVE  SameWindows(c, Acknowledge(c))
<1> DEFINE n == AckedHead(c)
           g == IF n > 0 /\ ~IsOldSequence(c.outAcked, c.congestUpdate)
                  THEN GrowCongestWin(c) ELSE c
           rest == SubSeq(g.outPkt, n + 1, Len(g.outPkt))
           on == IF n = Len(c.outPkt) THEN FALSE ELSE g.timerOn \/ n > 0
<1>1. PICK d : d = Acknowledge(c)
  OBVIOUS
<1>2. c = Fields(c)
  BY TypedParts
<1>3. g = Fields(g) /\ SameWindows(c, g)
  <2>1. CASE g = c
    BY <1>2, <2>1 DEF SameWindows
  <2>2. CASE g = GrowCongestWin(c)
    <3>1. PICK x : x = GrowCongestWin(c)
      OBVIOUS
    <3>2. x = Fields(x)
      BY <3>1, GrowCongestWinType, TypedParts
    <3>3. SameWindows(c, x)
      BY <1>2, <3>1 DEF GrowCongestWin, Fields, SameWindows
    <3> QED BY <2>2, <3>1, <3>2, <3>3
  <2> QED BY <2>1, <2>2
<1>4. d = [g EXCEPT !.outPkt = rest, !.timerOn = on]
  BY <1>1 DEF Acknowledge
<1> HIDE DEF g, n, rest, on
<1>5. SameWindows(g, d)
  BY <1>3, <1>4 DEF Fields, SameWindows
<1> QED BY <1>1, <1>3, <1>5 DEF SameWindows

LEMMA AcknowledgeMeasured ==
  ASSUME NEW k \in Limits, NEW c, Measured(c, k)
  PROVE  Measured(Acknowledge(c), k)
<1>1. PICK d : d = Acknowledge(c)
  OBVIOUS
<1>2. c \in TypedStream /\ c.tx \subseteq Gives(k) /\ c.inPkt \in Seq(Takes(k))
  BY DEF Measured
<1>3. d \in TypedStream /\ Alike(c, d) /\ SameWindows(c, d)
  BY <1>1, <1>2, AcknowledgeType, AcknowledgeKeeps, AcknowledgeWindows
<1>4. d.state = c.state /\ d.inPkt = c.inPkt /\ d.tx = c.tx
  <2>1. c.outPkt \in Seq(ShortOut)
    BY <1>2 DEF TypedStream
  <2> QED BY <1>1, <1>2, <2>1, AcknowledgeFields
<1>5. Level(c, d)
  BY <1>3 DEF Alike, SameWindows, Level
<1>6. Measured(d, k)
  BY <1>2, <1>3, <1>4, <1>5, LevelMeasured
<1> QED BY <1>1, <1>6

LEMMA RetransMeasured ==
  ASSUME NEW k \in Limits, NEW m \in Marks, Matching(k, m),
         NEW c, Careful(c, m), Measured(c, k)
  PROVE  Measured(Retrans(c), k)
<1>1. PICK d : d = Retrans(c)
  OBVIOUS
<1>2. c \in TypedStream /\ c.tx \subseteq Gives(k) /\ c.inPkt \in Seq(Takes(k))
  BY DEF Measured
<1>3. Retransmits(c, d)
  BY <1>1, <1>2, RetransIs
<1>4. d \in TypedStream /\ Alike(c, d)
  BY <1>3 DEF Retransmits
<1>5. CASE d.state = c.state /\ d.tx = c.tx /\ SameWindows(c, d) /\ d.inPkt = c.inPkt
  <2>1. Level(c, d)
    BY <1>4, <1>5 DEF Alike, SameWindows, Level
  <2> QED BY <1>1, <1>2, <1>4, <1>5, <2>1, LevelMeasured
<1>6. CASE d.state = TCP_CLOSED /\ d.tx = c.tx /\ d.inPkt = <<>>
  <2>1. ~Live(d)
    BY <1>6, LiveStates
  <2> QED BY <1>1, <1>2, <1>4, <1>6, <2>1, ClosedMeasured
<1>7. ASSUME c.outPkt # <<>>, d.state = c.state, d.inPkt = c.inPkt, SameWindows(c, d),
             NEW p \in ShortPacket, SentAgain(p, c.outPkt[1].pkt, c), d.tx = c.tx \cup {p}
      PROVE  Measured(d, k)
  <2>1. c.outPkt \in Seq(OwnOut(c, m)) /\ Live(c)
    BY <1>7 DEF Careful
  <2>2. 1 \in 1 .. Len(c.outPkt) /\ c.outPkt[1] \in OwnOut(c, m)
    BY <1>7, <2>1
  <2>3. PICK x \in OwnPackets(c, m) : x = c.outPkt[1].pkt
    BY <2>2 DEF OwnOut
  <2>4. p \in OwnPackets(c, m) /\ p.win = c.inWin
    BY <1>2, <1>7, <2>1, <2>3, AgainOwn DEF SentAgain
  <2>5. p \in Gives(k)
    BY <1>2, <2>1, <2>4, OwnPaced DEF Measured
  <2>6. Level(c, d)
    BY <1>4, <1>7 DEF Alike, SameWindows, Level
  <2> QED BY <1>2, <1>4, <1>7, <2>5, <2>6, LevelMeasured
<1>8. Measured(d, k)
  BY <1>1, <1>3, <1>5, <1>6, <1>7 DEF Retransmits
<1> QED BY <1>1, <1>8

(* All that waits in inQueue has its sequence numbers.                     *)
Roomy(kc, m) == HalfFits(kc, m) /\ (NeverRollsOver => m.o + kc.w + 1 < SeqMod)

LEMMA QueueRoom ==
  ASSUME NEW m \in Marks, NEW kc \in Context, Roomy(kc, m), NEW c, NEW c0,
         Fine(c, c0, kc), Opened(c)
  PROVE  /\ Len(c.inQueue) \in Nat /\ Before(c.outSeqno, m.o) \in Nat
         /\ 2 * (Before(c.outSeqno, m.o) + Len(c.inQueue)) < SeqMod
         /\ NeverRollsOver => m.o + Before(c.outSeqno, m.o) < SeqMod
<1>1. c \in TypedStream /\ kc.w \in 0 .. SeqMod - 1
  BY DEF Fine, Context
<1>2. Len(c.inQueue) \in Nat
  BY <1>1 DEF TypedStream
<1>3. c.outSeqno \in SeqNum /\ m.o \in SeqNum
  BY <1>1, NumberFacts
<1>4. PICK s \in SeqNum : s = c.outSeqno
  BY <1>3
<1>5. PICK o \in SeqNum : o = m.o
  BY <1>3
<1>6. PICK w, l \in Nat : w = kc.w /\ l = Len(c.inQueue)
  BY <1>1, <1>2
<1>7. Before(s, SeqAdd(o, 1)) = w - l /\ 2 * (w + 1) < SeqMod /\ l <= w
  BY <1>4, <1>5, <1>6 DEF Fine, SendsHonest, Roomy, HalfFits
<1>8. Before(s, o) = w + 1 - l
  BY <1>7, Sizes DEF Before, SeqSub, SeqAdd, SeqNum
<1>9. NeverRollsOver => o + w + 1 < SeqMod
  BY <1>5, <1>6 DEF Roomy
<1>10. Before(s, o) \in Nat /\ o \in Nat /\ SeqMod \in Nat
  BY <1>7, <1>8, Sizes DEF SeqNum
<1>11. 2 * (Before(s, o) + l) < SeqMod /\ (NeverRollsOver => o + Before(s, o) < SeqMod)
  BY <1>7, <1>8, <1>9, <1>10
<1> QED BY <1>4, <1>5, <1>6, <1>10, <1>11

(* The distance between two numbers of one stream.                         *)
LEMMA SubOfBefore ==
  ASSUME NEW s \in SeqNum, NEW t \in SeqNum, NEW o \in SeqNum, Before(t, o) <= Before(s, o)
  PROVE  SeqSub(s, t) = Before(s, o) - Before(t, o)
  BY Sizes DEF Before, SeqSub, SeqNum

(* InTransit is that distance, or less by one when the numbers roll over.  *)
LEMMA TransitIs ==
  ASSUME NEW c \in TypedStream, NEW o \in SeqNum,
         Before(c.outAcked, o) <= Before(c.outSeqno, o)
  PROVE  /\ InTransit(c) \in {SeqSub(c.outSeqno, c.outAcked),
                              SeqSub(c.outSeqno, c.outAcked) - 1}
         /\ InTransit(c) \in Nat
         /\ o + Before(c.outSeqno, o) < SeqMod =>
              InTransit(c) = SeqSub(c.outSeqno, c.outAcked)
<1>1. PICK s \in SeqNum : s = c.outSeqno
  BY DEF TypedStream
<1>2. PICK a \in SeqNum : a = c.outAcked
  BY DEF TypedStream
<1>3. PICK i : i = InTransit(c)
  OBVIOUS
<1>4. i = IF s < a THEN (SeqMod - 1 - a) + s ELSE s - a
  BY <1>1, <1>2, <1>3 DEF InTransit
<1>5. Before(a, o) <= Before(s, o)
  BY <1>1, <1>2
<1>6. /\ i \in {SeqSub(s, a), SeqSub(s, a) - 1} /\ i \in Nat
      /\ o + Before(s, o) < SeqMod => i = SeqSub(s, a)
  BY <1>4, <1>5, Sizes DEF Before, SeqSub, SeqNum
<1> QED BY <1>1, <1>2, <1>3, <1>6

(* The windows c was granted are not exceeded by what it has sent.         *)
InWindows(c) ==
    LET transit == SeqSub(c.outSeqno, c.outAcked)
    IN  transit <= c.outWin /\ transit <= c.congestWin

(* What send() may still put on the wire there is room for.                *)
LEMMA WindowLeft ==
  ASSUME NEW k \in Limits, NEW c, Measured(c, k), Opened(c),
         NeverRollsOver => k.o + k.sent < SeqMod,
         NEW n \in Nat, n > 0, n <= MaxSend(c), NEW s, s = k.sent + n
  PROVE  /\ s <= k.lim + Slack
         /\ NeverRollsOver => /\ s - Before(c.outAcked, k.o) <= c.outWin
                              /\ s - Before(c.outAcked, k.o) <= c.congestWin
<1>1. c \in TypedStream /\ Outgoing(c, k)
  BY LiveStates DEF Measured
<1>2. /\ c.outSeqno \in SeqNum /\ c.outAcked \in SeqNum /\ c.outWin \in Nat
      /\ c.congestWin \in Nat /\ k.o \in SeqNum /\ k.lim \in Nat /\ k.sent \in Nat
      /\ Before(c.outAcked, k.o) \in Nat /\ Slack \in 0 .. 1
  BY <1>1, PaceFacts, LimitFacts, SlackIs
<1>3. PICK S, A, w, v, x \in Nat :
         /\ S = k.sent /\ A = Before(c.outAcked, k.o) /\ w = c.outWin
         /\ v = c.congestWin /\ x = k.lim
  BY <1>2
<1>4. Before(c.outSeqno, k.o) = S /\ A <= S /\ Granted(w, A, x)
  BY <1>1, <1>3 DEF Outgoing
<1>5. SeqSub(c.outSeqno, c.outAcked) = S - A
  BY <1>2, <1>3, <1>4, SubOfBefore
<1>6. PICK i \in Nat : /\ i = InTransit(c) /\ i \in {S - A, S - A - 1}
                       /\ k.o + S < SeqMod => i = S - A
  BY <1>1, <1>2, <1>3, <1>4, <1>5, TransitIs
<1>7. /\ n <= w - i /\ n <= v - i
  <2>1. MaxSend(c) = IF (IF w < v THEN w ELSE v) > i
                       THEN (IF w < v THEN w ELSE v) - i ELSE 0
    BY <1>3, <1>6 DEF MaxSend
  <2>2. PICK l \in Nat : l = (IF w < v THEN w ELSE v)
    OBVIOUS
  <2>3. l <= w /\ l <= v
    BY <2>2
  <2>4. n <= l - i
    BY <1>6, <2>1, <2>2
  <2> QED BY <2>2, <2>3, <2>4
<1>8. w > 0 /\ A + w <= x
  BY <1>4, <1>6, <1>7 DEF Granted
<1>9. NeverRollsOver => i = S - A /\ Slack = 0
  BY <1>3, <1>6 DEF Slack
<1>10. ~NeverRollsOver => Slack = 1
  BY DEF Slack
<1>11. NeverRollsOver => S + n - A <= w /\ S + n - A <= v /\ S + n <= x
  BY <1>6, <1>7, <1>8, <1>9
<1>12. S + n <= x + 1
  BY <1>6, <1>7, <1>8
<1>13. S + n <= x + Slack
  BY <1>2, <1>9, <1>10, <1>11, <1>12
<1>14. s = S + n
  BY <1>3
<1> QED BY <1>3, <1>11, <1>13, <1>14

SentUpTo(k, s) == [k EXCEPT !.sent = s]

LEMMA SentUpToIs ==
  ASSUME NEW k \in Limits, NEW s \in Nat, k.sent <= s, s < SeqMod
  PROVE  /\ SentUpTo(k, s) \in Limits
         /\ SentUpTo(k, s).o = k.o /\ SentUpTo(k, s).sent = s
         /\ SentUpTo(k, s).lim = k.lim /\ SentUpTo(k, s).po = k.po
         /\ SentUpTo(k, s).top = k.top /\ SentUpTo(k, s).plim = k.plim
         /\ SentUpTo(k, k.sent) = k
         /\ Gives(k) \subseteq Gives(SentUpTo(k, s))
         /\ Seq(Takes(k)) \subseteq Seq(Takes(SentUpTo(k, s)))
<1>1. PICK j : j = SentUpTo(k, s)
  OBVIOUS
<1>2. /\ j \in Limits /\ j.o = k.o /\ j.sent = s /\ j.lim = k.lim /\ j.po = k.po
      /\ j.top = k.top /\ j.plim = k.plim
  BY <1>1, Sizes DEF SentUpTo, Limits
<1>3. SentUpTo(k, k.sent) = k
  BY DEF SentUpTo, Limits
<1>4. Gives(k) \subseteq Gives(j) /\ Seq(Takes(k)) \subseteq Seq(Takes(j))
  <2>1. PICK o, po \in SeqNum : o = k.o /\ po = k.po
    BY LimitFacts
  <2>2. PICK sent, lim, top, plim \in Nat :
          sent = k.sent /\ lim = k.lim /\ top = k.top /\ plim = k.plim
    BY LimitFacts
  <2>3. sent <= s /\ lim <= lim /\ top <= top /\ plim <= plim
    BY <2>2
  <2>4. /\ Paced(o, sent, lim, po, top, plim) \subseteq Paced(o, s, lim, po, top, plim)
        /\ Seq(Paced(po, top, plim, o, sent, lim)) \subseteq Seq(Paced(po, top, plim, o, s, lim))
    BY ONLY <2>3, PacedGrows, s \in Nat, o \in SeqNum, po \in SeqNum, sent \in Nat,
            lim \in Nat, top \in Nat, plim \in Nat
  <2> QED BY <1>2, <2>1, <2>2, <2>4 DEF Gives, Takes
<1> QED BY <1>1, <1>2, <1>3, <1>4

(* d is c after it has sent up to s.                                       *)
LEMMA SentMeasured ==
  ASSUME NEW k \in Limits, NEW m \in Marks, Matching(k, m),
         NEW c, Measured(c, k), Opened(c), NEW d \in TypedStream, Opened(d),
         d.outAcked = c.outAcked, d.inAckno = c.inAckno, SameWindows(c, d),
         d.inPkt = c.inPkt,
         NEW s \in Nat, s = Before(d.outSeqno, k.o), k.sent <= s, 2 * s < SeqMod,
         s <= k.lim + Slack,
         \A p \in d.tx : p \in c.tx \/ (p \in OwnPackets(d, m) /\ p.win = d.inWin)
  PROVE  Measured(d, SentUpTo(k, s))
<1>1. PICK j : j = SentUpTo(k, s)
  OBVIOUS
<1>2. s < SeqMod
  BY Sizes
<1>3. /\ j \in Limits /\ j.o = k.o /\ j.sent = s /\ j.lim = k.lim /\ j.po = k.po
      /\ j.top = k.top /\ j.plim = k.plim
      /\ Gives(k) \subseteq Gives(j) /\ Seq(Takes(k)) \subseteq Seq(Takes(j))
  BY <1>1, <1>2, SentUpToIs
<1>4. /\ Outgoing(c, k) /\ Incoming(c, k) /\ c \in TypedStream
      /\ c.tx \subseteq Gives(k) /\ c.inPkt \in Seq(Takes(k))
  BY LiveStates DEF Measured
<1>5. Live(d) /\ Heard(d) /\ ~Opening(d) /\ d.state # TCP_SYN_SENT
  BY LiveStates
<1>6. Outgoing(d, j)
  <2>1. Before(c.outAcked, k.o) <= s
    <3>1. Before(c.outAcked, k.o) \in Nat /\ k.sent \in Nat
      BY <1>4, PaceFacts, LimitFacts
    <3> QED BY <1>4, <3>1 DEF Outgoing
  <2> QED BY <1>3, <1>4, <1>5, <2>1 DEF Outgoing, SameWindows
<1>7. Incoming(d, j)
  BY <1>3, <1>4 DEF Incoming, SameWindows
<1>8. d.tx \subseteq Gives(j)
  <2>1. Matching(j, m)
    BY <1>3 DEF Matching
  <2>2. \A p \in OwnPackets(d, m) : p.win = d.inWin => p \in Gives(j)
    BY <1>3, <1>5, <1>6, <1>7, <2>1, OwnPaced
  <2> QED BY <1>3, <1>4, <2>2
<1>9. Measured(d, j)
  BY <1>3, <1>4, <1>5, <1>6, <1>7, <1>8 DEF Measured
<1> QED BY <1>1, <1>9

(* d has been sent further than k says, and within its windows.            *)
Onward(d, k) ==
    \E s \in Nat : /\ k.sent <= s /\ s < SeqMod
                   /\ Measured(d, SentUpTo(k, s))
                   /\ NeverRollsOver => InWindows(d)

(* n more go out.                                                          *)
LEMMA SendsOnward ==
  ASSUME NEW k \in Limits, NEW m \in Marks, Matching(k, m),
         NEW c, Measured(c, k), Opened(c), NeverRollsOver => k.o + k.sent < SeqMod,
         NEW n \in Nat, n > 0, n <= MaxSend(c), 2 * (k.sent + n) < SeqMod,
         NEW d \in TypedStream, d.state = c.state, SameWindows(c, d),
         d.outAcked = c.outAcked, d.inAckno = c.inAckno, d.inPkt = c.inPkt,
         d.congestWin = c.congestWin, d.outSeqno = SeqAdd(c.outSeqno, n),
         \A p \in d.tx : p \in c.tx \/ (p \in OwnPackets(d, m) /\ p.win = d.inWin)
  PROVE  Onward(d, k)
<1>1. PICK s \in Nat : s = k.sent + n
  BY LimitFacts
<1>2. /\ k.sent \in Nat /\ k.sent <= s /\ 2 * s < SeqMod /\ s < SeqMod
      /\ c \in TypedStream /\ k.o \in SeqNum /\ c.outSeqno \in SeqNum
      /\ Before(c.outSeqno, k.o) = k.sent /\ Before(c.outAcked, k.o) <= k.sent
      /\ c.outAcked \in SeqNum /\ Before(c.outAcked, k.o) \in Nat
  <2>1. c \in TypedStream /\ Outgoing(c, k)
    BY LiveStates DEF Measured
  <2>2. /\ k.o \in SeqNum /\ c.outSeqno \in SeqNum /\ c.outAcked \in SeqNum
        /\ Before(c.outAcked, k.o) \in Nat
    BY <2>1, PaceFacts, LimitFacts
  <2>3. Before(c.outSeqno, k.o) = k.sent /\ Before(c.outAcked, k.o) <= k.sent
    BY <2>1 DEF Outgoing
  <2>4. PICK q \in Nat : q = k.sent
    BY LimitFacts
  <2>5. s = q + n /\ 2 * s < SeqMod
    BY <1>1, <2>4
  <2>6. q <= s /\ s < SeqMod
    BY ONLY <2>5, Sizes, q \in Nat, s \in Nat, n \in Nat
  <2> QED BY <2>1, <2>2, <2>3, <2>4, <2>5, <2>6
<1>3. Before(d.outSeqno, k.o) = s /\ d.outSeqno \in SeqNum
  <2>1. Before(c.outSeqno, k.o) + n < SeqMod
    BY <1>1, <1>2
  <2>2. Before(SeqAdd(c.outSeqno, n), k.o) = Before(c.outSeqno, k.o) + n
    BY <1>2, <2>1, BeforeSum
  <2> QED BY <1>1, <1>2, <2>2 DEF TypedStream
<1>4. /\ s <= k.lim + Slack
      /\ NeverRollsOver => /\ s - Before(c.outAcked, k.o) <= c.outWin
                           /\ s - Before(c.outAcked, k.o) <= c.congestWin
  BY <1>1, WindowLeft
<1>5. Measured(d, SentUpTo(k, s))
  <2>1. Opened(d)
    BY DEF Opened
  <2> QED BY <1>2, <1>3, <1>4, <2>1, SentMeasured
<1>6. SeqSub(d.outSeqno, d.outAcked) = s - Before(c.outAcked, k.o)
  BY <1>2, <1>3, SubOfBefore
<1>7. NeverRollsOver => InWindows(d)
  BY <1>4, <1>6 DEF InWindows, SameWindows
<1> QED BY <1>2, <1>5, <1>7 DEF Onward

LEMMA ToSendWindows ==
  ASSUME NEW c \in TypedStream, NEW pkt, NEW retrans \in BOOLEAN
  PROVE  /\ SameWindows(c, ToSend(c, pkt, retrans))
         /\ ToSend(c, pkt, retrans).congestWin = c.congestWin
<1> DEFINE p == Made(c, pkt)
           s == SeqAdd(c.outSeqno, IF pkt.syn THEN 1 ELSE Len(pkt.data))
           q == IF retrans THEN Append(c.outPkt, [pkt |-> p, retrans |-> 0]) ELSE c.outPkt
           tx == c.tx \cup {p}
           ack == p.ackno
           win == p.win
           on == c.timerOn \/ retrans
<1>1. PICK d : d = ToSend(c, pkt, retrans)
  OBVIOUS
<1>2. c = Fields(c)
  BY TypedParts
<1>3. CASE ~c.known
  BY <1>3 DEF ToSend, SameWindows
<1>4. CASE c.known
  <2>1. d = [c EXCEPT !.outSeqno = s, !.lastAck = ack, !.lastWin = win,
                      !.tx = tx, !.timerOn = on, !.outPkt = q]
    BY <1>1, <1>4 DEF ToSend, Made
  <2> HIDE DEF p, s, q, tx, ack, win, on
  <2>2. SameWindows(c, d) /\ d.congestWin = c.congestWin
    BY <1>2, <2>1 DEF Fields, SameWindows
  <2> QED BY <1>1, <2>2
<1> QED BY <1>3, <1>4

LEMMA SendRestMeasured ==
  ASSUME NEW k \in Limits, NEW m \in Marks, Matching(k, m), NEW c, NEW c0,
         Since(c, c0, m), Measured(c, k), Opened(c), c.known,
         NeverRollsOver => k.o + k.sent < SeqMod, Len(c.inQueue) <= MaxSeg,
         c.inQueue # <<>>, Len(c.inQueue) <= MaxSend(c),
         2 * (Before(c.outSeqno, m.o) + Len(c.inQueue)) < SeqMod
  PROVE  Onward(ToSend([c EXCEPT !.inQueue = <<>>], DataPkt(c.inQueue), TRUE), k)
<1> DEFINE none == <<>>
           pkt == DataPkt(c.inQueue)
<1>1. c \in TypedStream /\ c = Fields(c)
  BY TypedParts DEF Since
<1>2. PICK x : x = [c EXCEPT !.inQueue = none]
  OBVIOUS
<1>3. x \in TypedStream
  <2>1. none \in Seq(Byte)
    OBVIOUS
  <2> HIDE DEF none
  <2> QED BY <1>1, <1>2, <2>1, InQueueType
<1>4. /\ x.state = c.state /\ Alike(c, x) /\ SameWindows(c, x) /\ x.tx = c.tx
      /\ x.known = c.known /\ x.inPkt = c.inPkt /\ x.congestWin = c.congestWin
  <2> HIDE DEF none
  <2> QED BY <1>1, <1>2 DEF Fields, Alike, SameWindows
<1>5. /\ c.inQueue \in Seq(Byte) /\ pkt \in Flags /\ pkt.data = c.inQueue
      /\ ~pkt.syn /\ pkt.ack /\ TRUE \in BOOLEAN
  <2>1. c.inQueue \in Seq(Byte)
    BY <1>1 DEF TypedStream
  <2> QED BY <2>1 DEF DataPkt, AckPkt, Flags
<1>6. PICK n \in Nat : n = Len(c.inQueue) /\ n > 0
  BY <1>5
<1>7. PICK d : d = ToSend(x, pkt, TRUE)
  OBVIOUS
<1>8. PICK p : p = Made(x, pkt)
  OBVIOUS
<1>9. d \in TypedStream /\ p.win = x.inWin
  BY <1>3, <1>5, <1>7, <1>8, ToSendType DEF Made
<1>10. Since(d, c0, m)
  <2>1. Before(c.outSeqno, m.o) + Len(c.inQueue) < SeqMod
    <3>1. Before(c.outSeqno, m.o) \in Nat
      BY <1>1, NumberFacts
    <3> QED BY <1>6, <3>1, Sizes
  <2>2. Since(ToSend([c EXCEPT !.inQueue = <<>>], DataPkt(c.inQueue), TRUE), c0, m)
    BY <2>1, SendRestSince
  <2> QED BY <1>2, <1>7, <2>2
<1>11. /\ SameWindows(x, d) /\ d.congestWin = x.congestWin /\ d.outAcked = x.outAcked
       /\ d.state = x.state /\ d.inAckno = x.inAckno /\ d.inPkt = x.inPkt
       /\ d.outSeqno = SeqAdd(x.outSeqno, n) /\ d.tx = x.tx \cup {p}
  <2>1. SentAs(d, x, pkt, TRUE)
    BY <1>3, <1>7, ToSendFields
  <2>2. SameWindows(x, d) /\ d.congestWin = x.congestWin /\ d.outAcked = x.outAcked
    BY <1>3, <1>7, ToSendWindows, ToSendKeeps
  <2> QED BY <1>4, <1>5, <1>6, <1>8, <2>1, <2>2 DEF SentAs
<1> HIDE DEF none, pkt
<1>12. \A y \in d.tx : y \in c.tx \/ (y \in OwnPackets(d, m) /\ y.win = d.inWin)
  BY <1>4, <1>9, <1>10, <1>11 DEF Since, SameWindows
<1>13. 2 * (k.sent + n) < SeqMod
  <2>1. Before(c.outSeqno, k.o) = k.sent
    BY LiveStates DEF Measured, Outgoing
  <2> QED BY <1>6, <2>1 DEF Matching
<1>14. Onward(d, k)
  <2>1. SameWindows(c, d) /\ d.outAcked = c.outAcked /\ d.inAckno = c.inAckno
    BY <1>4, <1>11 DEF SameWindows, Alike
  <2>2. /\ d.state = c.state /\ d.inPkt = c.inPkt /\ d.congestWin = c.congestWin
        /\ d.outSeqno = SeqAdd(c.outSeqno, n) /\ n <= MaxSend(c)
    BY <1>4, <1>6, <1>11 DEF Alike
  <2> QED BY <1>6, <1>9, <1>12, <1>13, <2>1, <2>2, SendsOnward
<1> QED BY <1>2, <1>7, <1>14 DEF pkt, none

LEMMA SendSegmentsMeasured ==
  ASSUME NEW k \in Limits, NEW m \in Marks, Matching(k, m), NEW c, NEW c0,
         Since(c, c0, m), Measured(c, k), Opened(c), c.known,
         NeverRollsOver => k.o + k.sent < SeqMod,
         NEW n \in Nat, n > 0, n * MaxSeg <= Len(c.inQueue), n * MaxSeg <= MaxSend(c),
         2 * (Before(c.outSeqno, m.o) + Len(c.inQueue)) < SeqMod
  PROVE  Onward(SendSegments(c, n), k)
<1> DEFINE total == n * MaxSeg
           rest == SubSeq(c.inQueue, total + 1, Len(c.inQueue))
           seqno == SeqAdd(c.outSeqno, total)
           tx == c.tx \cup {Segment(c, i) : i \in 1 .. n}
           new == [i \in 1 .. n |-> [pkt |-> Segment(c, i), retrans |-> 0]]
           q == c.outPkt \o new
           on == TRUE
           ack == c.inAckno
           win == c.inWin
<1>1. PICK d : d = SendSegments(c, n)
  OBVIOUS
<1>2. c \in TypedStream /\ c = Fields(c)
  BY TypedParts DEF Since
<1>3. /\ total \in Nat /\ total > 0 /\ total <= MaxSend(c) /\ total <= MaxWin
      /\ Len(c.inQueue) \in Nat /\ total <= Len(c.inQueue)
  <2>1. total \in Nat /\ total > 0
    BY Sizes
  <2>2. MaxSend(c) \in Nat /\ MaxSend(c) <= MaxWin /\ MaxWin \in Nat
    BY <1>2, MaxSendBound, Sizes
  <2>3. Len(c.inQueue) \in Nat
    BY <1>2 DEF TypedStream
  <2>4. total <= MaxSend(c) /\ total <= Len(c.inQueue)
    OBVIOUS
  <2> HIDE DEF total
  <2> QED BY <2>1, <2>2, <2>3, <2>4
<1>4. Before(c.outSeqno, m.o) \in Nat /\ Before(c.outSeqno, m.o) = k.sent
  <2>1. Before(c.outSeqno, k.o) = k.sent
    BY LiveStates DEF Measured, Outgoing
  <2> QED BY <1>2, <2>1, NumberFacts DEF Matching
<1>5. d \in TypedStream /\ Since(d, c0, m)
  <2>1. Before(c.outSeqno, m.o) + Len(c.inQueue) < SeqMod
    BY <1>3, <1>4, Sizes
  <2>2. Since(SendSegments(c, n), c0, m)
    BY <1>3, <2>1, SendSegmentsSince
  <2> QED BY <1>1, <2>2 DEF Since
<1>6. d = [c EXCEPT !.inQueue = rest, !.outSeqno = seqno,
                    !.lastAck = ack, !.lastWin = win,
                    !.tx = tx, !.timerOn = on, !.outPkt = q]
  BY <1>1 DEF SendSegments
<1> HIDE DEF rest, seqno, tx, q, on, ack, win
<1>7. /\ d.state = c.state /\ d.inAckno = c.inAckno /\ d.inPkt = c.inPkt
      /\ d.outAcked = c.outAcked /\ SameWindows(c, d) /\ d.congestWin = c.congestWin
      /\ d.outSeqno = seqno /\ d.tx = tx
  BY <1>2, <1>6 DEF Fields, SameWindows
<1>8. ASSUME NEW p \in d.tx
      PROVE  p \in c.tx \/ (p \in OwnPackets(d, m) /\ p.win = d.inWin)
  <2>1. p \in OwnPackets(d, m)
    BY <1>5 DEF Since
  <2>2. p \in c.tx \/ \E i \in 1 .. n : p = Segment(c, i)
    BY <1>7 DEF tx
  <2>3. \A i \in 1 .. n : Segment(c, i).win = c.inWin
    BY DEF Segment
  <2> QED BY <1>7, <2>1, <2>2, <2>3 DEF SameWindows
<1>9. 2 * (k.sent + total) < SeqMod
  <2>1. PICK s, l, z \in Nat : s = k.sent /\ l = Len(c.inQueue) /\ z = total
    BY <1>3, <1>4
  <2>2. 2 * (s + l) < SeqMod /\ z <= l /\ SeqMod \in Nat
    BY <1>3, <1>4, <2>1, Sizes
  <2>3. 2 * (s + z) < SeqMod
    BY ONLY <2>2
  <2> QED BY <2>1, <2>3
<1>10. d.outSeqno = SeqAdd(c.outSeqno, total)
  BY <1>7 DEF seqno
<1> HIDE DEF total
<1>11. Onward(d, k)
  BY <1>3, <1>5, <1>7, <1>8, <1>9, <1>10, SendsOnward
<1> QED BY <1>1, <1>11

LEMMA SendNothingStays ==
  ASSUME NEW c \in TypedStream, NEW idle
  PROVE  SendNothing(c, idle).outSeqno = c.outSeqno
<1> DEFINE s == IF c.state = TCP_ESTABLISHED THEN TCP_FIN_WAIT_1 ELSE TCP_LAST_ACK
<1>1. PICK x : x = ToSend(c, FinPkt, FALSE)
  OBVIOUS
<1>2. x \in TypedStream /\ x.outSeqno = c.outSeqno
  BY <1>1, BareIsLevel DEF BareMade, Level
<1>3. SendAck(c).outSeqno = c.outSeqno
  BY BareIsLevel DEF SendAck, BareMade, Level
<1>4. [x EXCEPT !.state = s].outSeqno = c.outSeqno
  <2>1. x = Fields(x)
    BY <1>2, TypedParts
  <2> HIDE DEF s
  <2> QED BY <1>2, <2>1 DEF Fields
<1>5. SendNothing(c, idle) \in {[x EXCEPT !.state = s], SendAck(c), c}
  BY <1>1 DEF SendNothing
<1> HIDE DEF s
<1> QED BY <1>3, <1>4, <1>5

(* d is what a tick makes of c: it has sent no further, or within the      *)
(* windows of an open stream.                                              *)
Paces(d, c, k) ==
    \/ Measured(d, k) /\ d.outSeqno = c.outSeqno
    \/ Opened(c) /\ Onward(d, k)

LEMMA SendMeasured ==
  ASSUME NEW k \in Limits, NEW m \in Marks, Matching(k, m),
         NEW kc \in Context, Roomy(kc, m), NEW c, NEW c0,
         Since(c, c0, m), Fine(c, c0, kc), Measured(c, k), NEW rto, NEW idle
  PROVE  Paces(Send(c, rto, idle), c, k)
<1> DEFINE a == Acknowledge(c)
           d == IF rto THEN Retrans(a) ELSE a
           full == Len(d.inQueue) \div MaxSeg
           room == MaxSend(d) \div MaxSeg
           n == IF full < room THEN full ELSE room
           rest == ToSend([d EXCEPT !.inQueue = <<>>], DataPkt(d.inQueue), TRUE)
<1>1. /\ Since(d, c0, m) /\ Fine(d, c0, kc) /\ Measured(d, k)
      /\ d.state \in {c.state, TCP_CLOSED} /\ d.outSeqno = c.outSeqno
  <2>1. Since(a, c0, m) /\ Fine(a, c0, kc) /\ Measured(a, k)
    BY AcknowledgeSince, AcknowledgeFine, AcknowledgeMeasured
  <2>2. c \in TypedStream /\ c.outPkt \in Seq(ShortOut)
    BY DEF Since, TypedStream
  <2>3. a.state = c.state /\ a.outSeqno = c.outSeqno
    BY <2>2, AcknowledgeFields
  <2> HIDE DEF a
  <2>4. Since(Retrans(a), c0, m) /\ Fine(Retrans(a), c0, kc) /\ Careful(a, m)
    BY <2>1, RetransSince, RetransFine DEF Since
  <2>5. Measured(Retrans(a), k)
    BY <2>1, <2>4, RetransMeasured
  <2>6. Retransmits(a, Retrans(a))
    BY <2>1, RetransIs DEF Since
  <2>7. Retrans(a).state \in {a.state, TCP_CLOSED} /\ Retrans(a).outSeqno = a.outSeqno
    BY <2>6 DEF Retransmits, Alike
  <2> QED BY <2>1, <2>3, <2>4, <2>5, <2>7
<1>typed. d \in TypedStream
  <2> HIDE DEF d
  <2> QED BY <1>1 DEF Since
<1> HIDE DEF d
<1>queue. Len(d.inQueue) \in Nat /\ d.state \in 0 .. 10 /\ d.inQueue \in Seq(Byte)
  BY <1>typed DEF TypedStream
<1>room. Opened(d) =>
           /\ d.known
           /\ 2 * (Before(d.outSeqno, m.o) + Len(d.inQueue)) < SeqMod
           /\ NeverRollsOver => k.o + k.sent < SeqMod
  <2> SUFFICES ASSUME Opened(d)
               PROVE  /\ d.known
                      /\ 2 * (Before(d.outSeqno, m.o) + Len(d.inQueue)) < SeqMod
                      /\ NeverRollsOver => k.o + k.sent < SeqMod
    OBVIOUS
  <2>1. d.known
    BY <1>1 DEF Fine, SendsHonest
  <2>2. /\ 2 * (Before(d.outSeqno, m.o) + Len(d.inQueue)) < SeqMod
        /\ NeverRollsOver => m.o + Before(d.outSeqno, m.o) < SeqMod
    BY <1>1, QueueRoom
  <2>3. Before(d.outSeqno, m.o) = k.sent /\ k.o = m.o
    BY <1>1, LiveStates DEF Measured, Outgoing, Matching
  <2> QED BY <2>1, <2>2, <2>3
<1>2. /\ n \in Nat
      /\ n * MaxSeg <= Len(d.inQueue) /\ n * MaxSeg <= MaxSend(d)
  <2>1. MaxSend(d) \in Nat
    BY <1>typed, MaxSendBound, Sizes
  <2>2. full \in Nat /\ room \in Nat
    BY <1>queue, <2>1, QuotientType
  <2>3. n \in Nat /\ n <= full /\ n <= room
    <3> HIDE DEF full, room
    <3> QED BY <2>2
  <2>4. n * MaxSeg <= Len(d.inQueue) /\ n * MaxSeg <= MaxSend(d)
    <3> HIDE DEF n
    <3> QED BY <1>queue, <2>1, <2>3, Quotient
  <2> QED BY <2>3, <2>4
<1>3. ASSUME full = 0, Opened(d), d.inQueue # <<>>, Len(d.inQueue) <= MaxSend(d)
      PROVE  Onward(rest, k)
  <2>1. Len(d.inQueue) <= MaxSeg
    <3>1. Len(d.inQueue) < MaxSeg
      BY <1>queue, <1>3, QuotientType
    <3> QED BY <1>queue, <3>1, Sizes
  <2> QED BY <1>1, <1>3, <1>room, <2>1, SendRestMeasured
<1>4. ASSUME Opened(d), n > 0
      PROVE  Onward(SendSegments(d, n), k)
  <2> HIDE DEF n
  <2> QED BY <1>1, <1>2, <1>4, <1>room, SendSegmentsMeasured
<1>5. ASSUME Opened(d)
      PROVE  Measured(SendNothing(d, idle), k) /\ SendNothing(d, idle).outSeqno = d.outSeqno
  BY <1>1, <1>typed, <1>5, SendNothingMeasured, SendNothingStays
<1>6. Send(c, rto, idle) =
        IF ~Opened(d) THEN d
        ELSE IF n > 0 THEN SendSegments(d, n)
        ELSE IF full = 0 /\ d.inQueue # <<>> /\ MaxSend(d) >= Len(d.inQueue) THEN rest
        ELSE SendNothing(d, idle)
  <2>1. ~Opened(d) <=> d.state < TCP_ESTABLISHED
    BY <1>queue, States DEF Opened
  <2> QED BY <2>1 DEF Send, d
<1>7. MaxSend(d) \in Nat
  BY <1>typed, MaxSendBound, Sizes
<1> HIDE DEF n, full, rest
<1>8. CASE Opened(d)
  <2>1. Opened(c)
    BY <1>1, <1>8, LiveStates DEF Opened
  <2>2. \/ Send(c, rto, idle) = SendSegments(d, n) /\ n > 0
        \/ /\ Send(c, rto, idle) = rest /\ full = 0 /\ d.inQueue # <<>>
           /\ Len(d.inQueue) <= MaxSend(d)
        \/ Send(c, rto, idle) = SendNothing(d, idle)
    BY <1>6, <1>7, <1>8, <1>queue
  <2>3. \/ Onward(Send(c, rto, idle), k)
        \/ Measured(Send(c, rto, idle), k) /\ Send(c, rto, idle).outSeqno = d.outSeqno
    BY <1>3, <1>4, <1>5, <1>8, <2>2
  <2> QED BY <1>1, <2>1, <2>3 DEF Paces
<1>9. CASE ~Opened(d)
  BY <1>1, <1>6, <1>9 DEF Paces
<1> QED BY <1>8, <1>9

LEMMA TickMeasured ==
  ASSUME NEW k \in Limits, NEW m \in Marks, Matching(k, m),
         NEW kc \in Context, Roomy(kc, m), NEW c, NEW c0,
         Since(c, c0, m), Fine(c, c0, kc), Measured(c, k), NEW t
  PROVE  Paces(TickStream(c, t), c, k)
<1>1. PICK d : d = RecvCheck(c, t.noPkt)
  OBVIOUS
<1>2. Since(d, c0, m) /\ Fine(d, c0, kc) /\ Measured(d, k)
  BY <1>1, CleanupSince, CleanupFine, CleanupMeasured DEF RecvCheck
<1>3. d.state \in {c.state, TCP_CLOSED} /\ d.outSeqno = c.outSeqno
  <2>1. c \in TypedStream /\ c = Fields(c)
    BY TypedParts DEF Since
  <2>2. Cleanup(c).state = TCP_CLOSED
    BY <2>1, CleanupFields
  <2>3. Cleanup(c).outSeqno = c.outSeqno
    BY <2>1 DEF Cleanup, Fields
  <2> QED BY <1>1, <2>2, <2>3 DEF RecvCheck
<1>4. Opened(d) => Opened(c)
  BY <1>3, LiveStates DEF Opened
<1>5. Paces(Send(d, t.rto, t.idle), d, k)
  BY <1>2, SendMeasured
<1> QED BY <1>1, <1>3, <1>4, <1>5 DEF TickStream, Paces

(***************************************************************************)
(* The handshake                                                           *)
(***************************************************************************)

(* The limits move on: more is sent, and there is more room.               *)
Onto(k, j) ==
    /\ j \in Limits
    /\ j.o = k.o /\ j.lim = k.lim /\ j.po = k.po /\ j.top = k.top
    /\ k.sent <= j.sent /\ k.plim <= j.plim

Turned(d, k) == \E j \in Limits : Onto(k, j) /\ Measured(d, j)

LEMMA OntoGrows ==
  ASSUME NEW k \in Limits, NEW j, Onto(k, j)
  PROVE  /\ j \in Limits /\ Gives(k) \subseteq Gives(j)
         /\ Takes(k) \subseteq Takes(j) /\ Seq(Takes(k)) \subseteq Seq(Takes(j))
<1>1. j \in Limits
  BY DEF Onto
<1>2. PICK o, po \in SeqNum : o = k.o /\ po = k.po
  BY LimitFacts
<1>3. PICK sent, lim, top, plim \in Nat :
         sent = k.sent /\ lim = k.lim /\ top = k.top /\ plim = k.plim
  BY LimitFacts
<1>4. PICK sent2, plim2 \in Nat : sent2 = j.sent /\ plim2 = j.plim
  BY <1>1, LimitFacts
<1>5. j.o = o /\ j.po = po /\ j.lim = lim /\ j.top = top /\ sent <= sent2 /\ plim <= plim2
  BY <1>2, <1>3, <1>4 DEF Onto
<1>6. /\ lim <= lim /\ top <= top /\ o \in SeqNum /\ po \in SeqNum
      /\ sent \in Nat /\ lim \in Nat /\ top \in Nat /\ plim \in Nat
      /\ sent2 \in Nat /\ plim2 \in Nat
  OBVIOUS
<1>7. Paced(o, sent, lim, po, top, plim) \subseteq Paced(o, sent2, lim, po, top, plim2)
  BY ONLY <1>5, <1>6, PacedGrows
<1>8. /\ Paced(po, top, plim, o, sent, lim) \subseteq Paced(po, top, plim2, o, sent2, lim)
      /\ Seq(Paced(po, top, plim, o, sent, lim))
           \subseteq Seq(Paced(po, top, plim2, o, sent2, lim))
  BY ONLY <1>5, <1>6, PacedGrows
<1> QED BY ONLY <1>1, <1>2, <1>3, <1>4, <1>5, <1>7, <1>8 DEF Gives, Takes

LEMMA StaysTurned ==
  ASSUME NEW k \in Limits, NEW d, Measured(d, k)
  PROVE  Turned(d, k)
  BY LimitFacts DEF Turned, Onto

(* c has heard its peer at last: it waits for a bytes of it.               *)
LEMMA TurnMeasured ==
  ASSUME NEW k \in Limits, NEW m \in Marks, Matching(k, m),
         NEW c, Measured(c, k), Opening(c), NEW d, NEW c0, Since(d, c0, m),
         Heard(d), d.outSeqno = c.outSeqno, d.inPkt = c.inPkt, d.outQueue = <<>>,
         \A p \in d.tx : p \in Gives(k) \/ p.win = d.inWin,
         NEW a \in Nat, a = Before(d.inAckno, k.po), 2 * a < SeqMod,
         k.plim <= a + 2 * MaxWin,
         d.inWin <= MaxWin, Before(d.outAcked, k.o) <= k.sent,
         Opened(d) => /\ d.outWin <= MaxWin
                      /\ Granted(d.outWin, Before(d.outAcked, k.o), k.lim)
  PROVE  \E j \in Limits : /\ Onto(k, j) /\ j.plim = a + 2 * MaxWin
                           /\ Measured(d, j)
<1> DEFINE to == a + 2 * MaxWin
           j == [k EXCEPT !.plim = to]
<1>1. /\ MaxWin \in Nat /\ SeqMod \in Nat /\ MaxWin < SeqMod
      /\ k.plim \in Nat /\ k.lim \in Nat /\ k.sent \in Nat
      /\ k.po \in SeqNum /\ k.o \in SeqNum
  BY Sizes, LimitFacts
<1>2. to \in 0 .. 3 * SeqMod
  BY <1>1
<1>3. /\ j \in Limits /\ j.o = k.o /\ j.sent = k.sent /\ j.lim = k.lim
      /\ j.po = k.po /\ j.top = k.top /\ j.plim = to
  <2> HIDE DEF to
  <2> QED BY <1>2 DEF Limits
<1> HIDE DEF j
<1>4. Onto(k, j)
  BY <1>1, <1>3 DEF Onto
<1> HIDE DEF to
<1>5. /\ Gives(k) \subseteq Gives(j) /\ Seq(Takes(k)) \subseteq Seq(Takes(j))
  BY <1>4, OntoGrows
<1>6. d \in TypedStream /\ Live(d) /\ Careful(d, m) /\ d.state # TCP_SYN_SENT
  BY LiveStates DEF Since
<1>7. 1 <= a /\ a <= k.top
  BY <1>6 DEF Careful, Matching
<1>8. d.inWin \in Nat /\ Slack \in 0 .. 1 /\ Len(<<>>) = 0
  BY <1>3, <1>6, PaceFacts, SlackIs
<1>9. Incoming(d, j)
  <2>1. to = a + 2 * MaxWin
    BY DEF to
  <2>2. a + d.inWin <= to /\ a + 2 * MaxWin = to + 0 /\ 0 <= 2 * MaxWin + Slack
    BY <1>1, <1>8, <2>1
  <2> QED BY ONLY <1>3, <1>7, <1>8, <2>2, Heard(d), a = Before(d.inAckno, k.po),
             2 * a < SeqMod, d.outQueue = <<>> DEF Incoming, Granted
<1>10. Outgoing(d, j)
  <2>1. Outgoing(c, k)
    BY LiveStates DEF Measured, Live
  <2> QED BY <1>3, <2>1 DEF Outgoing
<1>11. Matching(j, m)
  BY <1>3 DEF Matching
<1>12. d.tx \subseteq Gives(j)
  <2> SUFFICES ASSUME NEW p \in d.tx PROVE p \in Gives(j)
    OBVIOUS
  <2>1. p \in OwnPackets(d, m)
    BY DEF Since
  <2>2. CASE p \in Gives(k)
    BY <1>5, <2>2
  <2>3. CASE p.win = d.inWin
    BY <1>3, <1>6, <1>9, <1>10, <1>11, <2>1, <2>3, OwnPaced
  <2> QED BY <2>2, <2>3
<1>13. d.inPkt \in Seq(Takes(j))
  BY <1>5 DEF Measured
<1>14. Measured(d, j)
  BY <1>6, <1>9, <1>10, <1>12, <1>13 DEF Measured
<1> QED BY <1>3, <1>4, <1>14 DEF to

(* What an acknowledgement that is made of x adds is given x's window.     *)
LEMMA AckAdds ==
  ASSUME NEW k, NEW x \in TypedStream, x.tx \subseteq Gives(k), NEW retrans \in BOOLEAN,
         NEW y, y = ToSend(x, AckPkt, retrans)
  PROVE  /\ y \in TypedStream /\ y.state = x.state /\ Level(x, y) /\ y.inPkt = x.inPkt
         /\ \A p \in y.tx : p \in Gives(k) \/ p.win = y.inWin
<1>1. BareMade(y, x)
  BY BareIsLevel
<1>2. PICK p \in ShortPacket : p.win = x.inWin /\ y.tx \subseteq x.tx \cup {p}
  BY <1>1 DEF BareMade
<1>3. y \in TypedStream /\ y.state = x.state /\ Level(x, y) /\ y.inPkt = x.inPkt
  BY <1>1 DEF BareMade
<1>4. y.inWin = x.inWin
  BY <1>3 DEF Level
<1> QED BY <1>2, <1>3, <1>4

LEMMA CrossingMeasured ==
  ASSUME NEW k \in Limits, NEW m \in Marks, Matching(k, m), 2 < SeqMod,
         NEW c, NEW c0, Since(c, c0, m), c.state = TCP_SYN_SENT, c.outQueue = <<>>,
         Measured(c, k), NEW p \in PeerPackets(m), p \in Takes(k),
         p.syn => p.ack \in m.pkinds, NEW isn
  PROVE  Turned(IncomingClosed(c, p, isn), k)
<1> DEFINE s == p.seqno
           a == SeqAdd(p.seqno, 1)
           w == p.win
           d == [c EXCEPT !.initPeer = s, !.inAckno = a, !.outWin = w, !.inWin = MaxWin]
           rcvd == TCP_SYN_RCVD
<1>0. CASE ~(p.syn /\ ~p.ack)
  BY <1>0, StaysTurned DEF IncomingClosed
<1> SUFFICES ASSUME p.syn, ~p.ack PROVE Turned(IncomingClosed(c, p, isn), k)
  BY <1>0
<1>1. p \in ShortPacket /\ s \in SeqNum /\ w \in Nat /\ MaxWin \in Nat
  BY PeerPacketFacts, ShortPacketParts, Sizes
<1>2. a \in SeqNum /\ Before(a, m.po) = 1
  BY SynHeard
<1>3. c \in TypedStream /\ Opening(c) /\ Live(c) /\ k.plim = 1
  BY LiveStates DEF Measured
<1>4. PICK x : x = d
  OBVIOUS
<1>5. x \in TypedStream
  <2> HIDE DEF s, a, w
  <2> QED BY <1>1, <1>2, <1>3, <1>4, HeardType
<1> HIDE DEF s, a, w
<1>6. /\ x.state = c.state /\ x.outSeqno = c.outSeqno
      /\ x.outAcked = c.outAcked /\ x.inAckno = a /\ x.inPkt = c.inPkt
      /\ x.inWin = MaxWin /\ x.outQueue = c.outQueue /\ x.tx = c.tx
  BY <1>3, <1>4, TypedParts DEF Fields
<1>7. IncomingClosed(c, p, isn) = [ToSend(x, AckPkt, TRUE) EXCEPT !.state = rcvd]
  BY <1>4, States DEF IncomingClosed, s, a, w
<1> HIDE DEF d
<1>8. PICK y : y = ToSend(x, AckPkt, TRUE)
  OBVIOUS
<1>9. /\ y \in TypedStream /\ Level(x, y) /\ y.inPkt = x.inPkt
      /\ \A q \in y.tx : q \in Gives(k) \/ q.win = y.inWin
  <2>1. x.tx \subseteq Gives(k)
    BY <1>6 DEF Measured
  <2> QED BY <1>5, <1>8, <2>1, AckAdds
<1>10. PICK z : z = [y EXCEPT !.state = rcvd]
  OBVIOUS
<1> HIDE DEF rcvd
<1>11. /\ z.state = rcvd /\ z.outSeqno = y.outSeqno
       /\ z.outAcked = y.outAcked /\ z.inAckno = y.inAckno /\ z.inPkt = y.inPkt
       /\ z.inWin = y.inWin /\ z.outQueue = y.outQueue /\ z.tx = y.tx
  BY <1>9, <1>10, TypedParts DEF Fields
<1>12. /\ z.state = TCP_SYN_RCVD /\ z.outSeqno = c.outSeqno
       /\ z.outAcked = c.outAcked /\ z.inAckno = a /\ z.inPkt = c.inPkt
       /\ z.inWin = MaxWin /\ z.outQueue = <<>>
       /\ \A q \in z.tx : q \in Gives(k) \/ q.win = z.inWin
  BY <1>6, <1>9, <1>11 DEF Level, rcvd
<1>13. Since(z, c0, m) /\ Heard(z) /\ ~Opened(z)
  <2>1. Since(IncomingClosed(c, p, isn), c0, m)
    BY CrossingSince
  <2>2. IncomingClosed(c, p, isn) = z
    BY <1>7, <1>8, <1>10
  <2> QED BY ONLY <1>12, <2>1, <2>2, LiveStates
<1>14. /\ 1 = Before(z.inAckno, k.po) /\ 1 \in Nat /\ 2 * 1 < SeqMod
       /\ k.plim <= 1 + 2 * MaxWin /\ z.inWin <= MaxWin
  BY <1>1, <1>2, <1>3, <1>12 DEF Matching
<1>15. Before(z.outAcked, k.o) <= k.sent
  BY <1>3, <1>12 DEF Measured, Outgoing
<1>16. \E j \in Limits : /\ Onto(k, j) /\ j.plim = 1 + 2 * MaxWin
                         /\ Measured(z, j)
  BY <1>3, <1>12, <1>13, <1>14, <1>15, TurnMeasured
<1> QED BY <1>7, <1>8, <1>10, <1>16 DEF Turned

LEMMA AnsweredMeasured ==
  ASSUME NEW k \in Limits, NEW m \in Marks, Matching(k, m), 2 < SeqMod,
         NEW c, NEW c0, Since(c, c0, m), c.state = TCP_SYN_SENT, c.outQueue = <<>>,
         Measured(c, k), NEW p \in PeerPackets(m), p \in Takes(k), p.syn, p.ack,
         NEW x, x = [c EXCEPT !.initPeer = p.seqno, !.inAckno = SeqAdd(p.seqno, 1)]
  PROVE  Turned(Establish(SendAck(x), p), k)
<1> DEFINE s == p.seqno
           a == SeqAdd(p.seqno, 1)
           w == p.win
           n == p.ackno
           est == TCP_ESTABLISHED
           on == TRUE
<1>1. p \in ShortPacket /\ s \in SeqNum /\ w \in Nat /\ MaxWin \in Nat
  BY PeerPacketFacts, ShortPacketParts, Sizes
<1>2. a \in SeqNum /\ Before(a, m.po) = 1
  BY SynHeard
<1>3. c \in TypedStream /\ Opening(c) /\ Live(c) /\ k.plim = 1 /\ c.inWin <= MaxWin
  BY LiveStates DEF Measured, Outgoing
<1>4. x \in TypedStream
  <2> HIDE DEF s, a
  <2> QED BY <1>1, <1>2, <1>3, SynAckedType DEF s, a
<1>5. x = [c EXCEPT !.initPeer = s, !.inAckno = a]
  OBVIOUS
<1>p. w <= MaxWin /\ Before(n, k.o) <= k.sent /\ Granted(w, Before(n, k.o), k.lim)
  BY DEF Takes, Paced
<1> HIDE DEF s, a, w, n
<1>6. /\ x.state = c.state /\ x.outSeqno = c.outSeqno
      /\ x.inAckno = a /\ x.inPkt = c.inPkt
      /\ x.inWin = c.inWin /\ x.outQueue = c.outQueue /\ x.tx = c.tx
  BY ONLY <1>3, <1>5, TypedParts DEF Fields
<1>7. PICK y : y = SendAck(x)
  OBVIOUS
<1>8. /\ y \in TypedStream /\ Level(x, y) /\ y.inPkt = x.inPkt
      /\ \A q \in y.tx : q \in Gives(k) \/ q.win = y.inWin
  <2>1. x.tx \subseteq Gives(k)
    BY <1>6 DEF Measured
  <2>2. y = ToSend(x, AckPkt, FALSE) /\ FALSE \in BOOLEAN
    BY <1>7 DEF SendAck
  <2> QED BY ONLY <1>4, <2>1, <2>2, AckAdds
<1>9. PICK z : z = Establish(y, p)
  OBVIOUS
<1>10. z = [y EXCEPT !.outWin = w, !.outAcked = n, !.state = est,
                     !.inActive = on, !.outActive = on]
  BY <1>9 DEF Establish, w, n
<1> HIDE DEF est, on
<1>11. /\ z.state = est /\ z.outSeqno = y.outSeqno /\ z.outWin = w
       /\ z.outAcked = n /\ z.inAckno = y.inAckno /\ z.inPkt = y.inPkt
       /\ z.inWin = y.inWin /\ z.outQueue = y.outQueue /\ z.tx = y.tx
  BY ONLY <1>8, <1>10, TypedParts DEF Fields
<1>12. /\ z.state = TCP_ESTABLISHED /\ z.outSeqno = c.outSeqno
       /\ z.inAckno = a /\ z.inPkt = c.inPkt
       /\ z.inWin = c.inWin /\ z.outQueue = <<>>
       /\ \A q \in z.tx : q \in Gives(k) \/ q.win = z.inWin
  BY <1>6, <1>8, <1>11 DEF Level, est
<1>13. Since(z, c0, m) /\ Heard(z)
  <2>1. Since(Establish(SendAck(x), p), c0, m)
    BY AnsweredSince
  <2>2. z = Establish(SendAck(x), p)
    BY <1>7, <1>9
  <2>3. Heard(z)
    BY <1>12, States DEF Heard, Opened
  <2> QED BY ONLY <2>1, <2>2, <2>3
<1>14. /\ 1 = Before(z.inAckno, k.po) /\ 1 \in Nat /\ 2 * 1 < SeqMod
       /\ k.plim <= 1 + 2 * MaxWin /\ z.inWin <= MaxWin
  BY <1>1, <1>2, <1>3, <1>12 DEF Matching
<1>15. /\ Before(z.outAcked, k.o) <= k.sent
       /\ z.outWin <= MaxWin /\ Granted(z.outWin, Before(z.outAcked, k.o), k.lim)
  BY <1>p, <1>11
<1>16. \E j \in Limits : /\ Onto(k, j) /\ j.plim = 1 + 2 * MaxWin
                         /\ Measured(z, j)
  BY <1>3, <1>12, <1>13, <1>14, <1>15, TurnMeasured
<1> QED BY <1>7, <1>9, <1>16 DEF Turned

LEMMA IncomingSynSentMeasured ==
  ASSUME NEW k \in Limits, NEW m \in Marks, Matching(k, m), 2 < SeqMod,
         NEW c, NEW c0, Since(c, c0, m), c.state = TCP_SYN_SENT, c.outQueue = <<>>,
         Measured(c, k), NEW p \in PeerPackets(m), p \in Takes(k),
         p.syn => p.ack \in m.pkinds, NEW isn
  PROVE  Turned(IncomingSynSent(c, p, isn), k)
<1>1. PICK x : x = [c EXCEPT !.initPeer = p.seqno, !.inAckno = SeqAdd(p.seqno, 1)]
  OBVIOUS
<1>2. p.syn /\ p.ack => Turned(Establish(SendAck(x), p), k)
  BY <1>1, AnsweredMeasured
<1>3. Turned(IncomingClosed(c, p, isn), k)
  BY CrossingMeasured
<1>4. Turned(c, k)
  BY StaysTurned
<1>5. IncomingSynSent(c, p, isn) \in
        (IF p.syn /\ p.ack THEN {c, Establish(SendAck(x), p)}
                           ELSE {IncomingClosed(c, p, isn)})
  BY <1>1 DEF IncomingSynSent
<1> QED BY <1>2, <1>3, <1>4, <1>5

(* The end in SYN_RCVD takes the stream to start at the packet that        *)
(* acknowledges its SYN, wherever that lies.                               *)
LEMMA AcceptedMeasured ==
  ASSUME NEW k \in Limits, NEW m \in Marks, Matching(k, m),
         NEW c, NEW c0, Since(c, c0, m), c.state = TCP_SYN_RCVD, c.outQueue = <<>>,
         Measured(c, k), NEW p \in PeerPackets(m), p \in Takes(k),
         p.syn => p.ack \in m.pkinds, p.ack, p.ackno = c.outSeqno
  PROVE  \E j \in Limits :
            /\ Onto(k, j)
            /\ Measured(Establish([c EXCEPT !.inAckno = p.seqno], p), j)
<1> DEFINE s == p.seqno
           w == p.win
           n == p.ackno
           est == TCP_ESTABLISHED
           on == TRUE
<1>1. c \in TypedStream /\ Careful(c, m) /\ Opening(c) /\ Live(c) /\ Heard(c)
  BY LiveStates DEF Since
<1>2. ~p.syn
  <2>1. p.syn => p.ack = TRUE
    BY PeerPacketFacts, ShortPacketParts
  <2> QED BY <1>1, <2>1 DEF Careful
<1>3. p \in ShortPacket /\ s \in SeqNum /\ 1 <= Before(s, m.po) /\ Before(s, m.po) \in Nat
  <2>1. p \in ShortPacket /\ s \in SeqNum /\ 1 <= Before(s, m.po)
    BY <1>2, PeerPacketFacts, ShortPacketParts
  <2> QED BY <2>1, BeforeType DEF Marks
<1>4. PICK x : x = [c EXCEPT !.inAckno = s]
  OBVIOUS
<1>5. PICK z : z = Establish(x, p)
  OBVIOUS
<1>6. z = [x EXCEPT !.outWin = w, !.outAcked = n, !.state = est,
                    !.inActive = on, !.outActive = on]
  BY <1>5 DEF Establish
<1>p. w <= MaxWin /\ Before(n, k.o) <= k.sent /\ Granted(w, Before(n, k.o), k.lim)
  BY DEF Takes, Paced
<1>l. Len(p.data) \in Nat /\ 2 * To(p, k.po) < SeqMod
  BY PacedFacts, LimitFacts DEF Takes, Paced
<1> HIDE DEF s, w, n, est, on
<1>7. x \in TypedStream /\ z \in TypedStream
  BY <1>1, <1>3, <1>4, <1>5, InAcknoType, EstablishType
<1>8. /\ x.outSeqno = c.outSeqno /\ x.inAckno = s /\ x.inPkt = c.inPkt
      /\ x.inWin = c.inWin /\ x.outQueue = c.outQueue /\ x.tx = c.tx
  BY ONLY <1>1, <1>4, TypedParts DEF Fields
<1>9. /\ z.state = est /\ z.outSeqno = x.outSeqno /\ z.outWin = w
      /\ z.outAcked = n /\ z.inAckno = x.inAckno /\ z.inPkt = x.inPkt
      /\ z.inWin = x.inWin /\ z.outQueue = x.outQueue /\ z.tx = x.tx
  BY ONLY <1>6, <1>7, TypedParts DEF Fields
<1>10. Since(z, c0, m) /\ Heard(z)
  <2>1. Since(Establish([c EXCEPT !.inAckno = p.seqno], p), c0, m)
    BY AcceptedSince
  <2>2. z = Establish([c EXCEPT !.inAckno = p.seqno], p)
    BY <1>4, <1>5 DEF s
  <2>3. Heard(z)
    BY <1>9, States DEF est, Heard, Opened
  <2> QED BY ONLY <2>1, <2>2, <2>3
<1>11. PICK a \in Nat : a = Before(s, m.po)
  BY <1>3
<1>12. 2 * a < SeqMod
  <2>1. PICK l \in Nat : l = Len(p.data)
    BY <1>l
  <2>2. 2 * (a + l) < SeqMod /\ SeqMod \in Nat
    BY <1>l, <1>11, <2>1, Sizes DEF To, Matching, s
  <2> QED BY <2>2
<1>13. k.plim = 1 + 2 * MaxWin
  <2>1. Incoming(c, k) /\ Before(c.inAckno, k.po) = 1
    BY <1>1 DEF Measured, Careful, Matching
  <2>2. Len(c.outQueue) = 0 /\ k.plim \in Nat /\ MaxWin \in Nat
    BY LimitFacts, Sizes
  <2> QED BY <2>1, <2>2 DEF Incoming
<1>14. 1 <= a /\ k.plim <= a + 2 * MaxWin
  BY <1>3, <1>11, <1>13, Sizes
<1>15. /\ a = Before(z.inAckno, k.po) /\ z.inPkt = c.inPkt /\ z.outQueue = <<>>
       /\ z.outSeqno = c.outSeqno
  BY <1>8, <1>9, <1>11 DEF Matching
<1>16. z.inWin <= MaxWin
  BY <1>1, <1>8, <1>9 DEF Measured, Outgoing
<1>17. \A q \in z.tx : q \in Gives(k) \/ q.win = z.inWin
  BY <1>8, <1>9 DEF Measured
<1>18. /\ Before(z.outAcked, k.o) <= k.sent
       /\ z.outWin <= MaxWin /\ Granted(z.outWin, Before(z.outAcked, k.o), k.lim)
  BY <1>p, <1>9
<1>19. \E j \in Limits : /\ Onto(k, j) /\ j.plim = a + 2 * MaxWin
                         /\ Measured(z, j)
  BY <1>1, <1>10, <1>12, <1>14, <1>15, <1>16, <1>17, <1>18, TurnMeasured
<1> QED BY <1>4, <1>5, <1>19 DEF s

LEMMA IncomingSynRcvdMeasured ==
  ASSUME NEW k \in Limits, NEW m \in Marks, Matching(k, m),
         NEW c, NEW c0, Since(c, c0, m), c.state = TCP_SYN_RCVD, c.outQueue = <<>>,
         Measured(c, k), NEW p \in PeerPackets(m), p \in Takes(k),
         p.syn => p.ack \in m.pkinds
  PROVE  Turned(IncomingSynRcvd(c, p), k)
<1>1. PICK d : d = Establish([c EXCEPT !.inAckno = p.seqno], p)
  OBVIOUS
<1>2. CASE p.ack /\ p.ackno = c.outSeqno
  <2>1. PICK j \in Limits : Onto(k, j) /\ Measured(d, j)
    BY <1>1, <1>2, AcceptedMeasured
  <2>2. Opened(d)
    BY <1>1, <1>2, AcceptedSince
  <2>3. p \in Takes(j)
    BY <2>1, OntoGrows
  <2>4. Measured(IncomingEstablished(d, p), j)
    BY <2>1, <2>2, <2>3, IncomingEstablishedMeasured
  <2>5. IncomingSynRcvd(c, p) \in {d, IncomingEstablished(d, p)}
    BY <1>1, <1>2 DEF IncomingSynRcvd
  <2> QED BY ONLY <2>1, <2>4, <2>5 DEF Turned
<1>3. CASE ~(p.ack /\ p.ackno = c.outSeqno)
  <2>1. IncomingSynRcvd(c, p) = c
    BY <1>3 DEF IncomingSynRcvd
  <2> QED BY <2>1, StaysTurned
<1> QED BY <1>2, <1>3

(* A packet for a stream that does not start with it.                      *)
LEMMA HandleIncomingMeasured ==
  ASSUME NEW k \in Limits, NEW m \in Marks, Matching(k, m), 2 < SeqMod,
         NEW c, NEW c0, Since(c, c0, m), ~Opened(c) => c.outQueue = <<>>,
         c.state \notin {TCP_LISTEN, TCP_TIMED_WAIT},
         Measured(c, k), NEW p \in PeerPackets(m), p \in Takes(k),
         p.syn => p.ack \in m.pkinds, NEW isn, ~TakesIsn(c, p)
  PROVE  Turned(HandleIncoming(c, p, isn), k)
<1>1. c.state \in 0 .. 10
  BY DEF Since, TypedStream
<1>2. CASE c.state = TCP_CLOSED
  <2>1. ~(p.syn /\ ~p.ack)
    BY <1>2 DEF TakesIsn
  <2>2. HandleIncoming(c, p, isn) = IncomingClosed(c, p, isn)
    BY <1>2, States DEF HandleIncoming
  <2>3. IncomingClosed(c, p, isn) = c
    BY <2>1 DEF IncomingClosed
  <2> QED BY <2>2, <2>3, StaysTurned
<1>3. CASE c.state = TCP_SYN_SENT
  <2>1. HandleIncoming(c, p, isn) = IncomingSynSent(c, p, isn)
    BY <1>3, States DEF HandleIncoming
  <2>2. c.outQueue = <<>>
    BY <1>3, LiveStates
  <2> QED BY <1>3, <2>1, <2>2, IncomingSynSentMeasured
<1>4. CASE c.state = TCP_SYN_RCVD
  <2>1. HandleIncoming(c, p, isn) = IncomingSynRcvd(c, p)
    BY <1>4, States DEF HandleIncoming
  <2>2. c.outQueue = <<>>
    BY <1>4, LiveStates
  <2> QED BY <1>4, <2>1, <2>2, IncomingSynRcvdMeasured
<1>5. CASE Opened(c)
  <2>1. HandleIncoming(c, p, isn) = IncomingEstablished(c, p)
    BY <1>1, <1>5, States DEF HandleIncoming, Opened
  <2>2. Measured(IncomingEstablished(c, p), k)
    BY <1>5, IncomingEstablishedMeasured
  <2> QED BY <2>1, <2>2, StaysTurned
<1> QED BY <1>1, <1>2, <1>3, <1>4, <1>5, States DEF Opened

(***************************************************************************)
(* Opening                                                                 *)
(***************************************************************************)

(* A stream that has just opened has sent its SYN at most, with a window   *)
(* that is fully open; there is always room for a SYN.                     *)
LEMMA SynWindow ==
  ASSUME NEW ack \in BOOLEAN, NEW c, Blank(c), ack \/ c.known, NEW isn \in SeqNum,
         NEW y, y = ToSend(InitSeqnos(c, isn), SynPkt(ack), TRUE)
  PROVE  /\ y \in TypedStream /\ y.inWin = MaxWin /\ y.outQueue = <<>>
         /\ \A p \in y.tx : p.win = y.inWin
<1> DEFINE update == SeqAdd(isn, MaxSeg)
<1>1. PICK x : x = InitSeqnos(c, isn)
  OBVIOUS
<1>2. c \in TypedStream /\ x \in TypedStream
  BY <1>1, InitSeqnosType DEF Blank
<1>3. x.inWin = MaxWin /\ x.outQueue = <<>> /\ x.tx = {}
  <2>1. x = [c EXCEPT !.outSeqno = isn, !.initOur = isn, !.outAcked = isn,
                      !.inWin = MaxWin, !.congestThreshold = MaxWin,
                      !.congestWin = MaxSeg, !.congestUpdate = update]
    BY <1>1 DEF InitSeqnos
  <2> HIDE DEF update
  <2>2. x.inWin = MaxWin /\ x.outQueue = c.outQueue /\ x.tx = c.tx
    BY <1>2, <2>1, TypedParts DEF Fields
  <2> QED BY <2>2 DEF Blank
<1>4. PICK pkt : pkt = SynPkt(ack)
  OBVIOUS
<1>5. pkt \in Flags /\ Len(pkt.data) <= MaxSeg /\ TRUE \in BOOLEAN
  <2>1. Len(<<>>) <= MaxSeg
    BY Sizes
  <2> QED BY <1>4, <2>1, FlagsOfAck DEF SynPkt
<1>6. y = ToSend(x, pkt, TRUE)
  BY <1>1, <1>4
<1>7. y \in TypedStream /\ SentAs(y, x, pkt, TRUE) /\ SameWindows(x, y)
  BY <1>2, <1>5, <1>6, ToSendType, ToSendFields, ToSendWindows
<1>8. PICK p : p = Made(x, pkt)
  OBVIOUS
<1>9. p.win = MaxWin
  BY <1>3, <1>8 DEF Made
<1>10. y.tx \subseteq {p}
  <2>1. CASE x.known
    BY <1>3, <1>7, <1>8, <2>1 DEF SentAs
  <2>2. CASE ~x.known
    BY <1>3, <1>7, <2>2 DEF SentAs
  <2> QED BY <2>1, <2>2
<1>11. y.inWin = MaxWin /\ y.outQueue = <<>>
  BY <1>3, <1>7 DEF SameWindows
<1> QED BY <1>7, <1>9, <1>10, <1>11

LEMMA OpeningMeasured ==
  ASSUME NEW k \in Limits, NEW m \in Marks, Matching(k, m), 2 < SeqMod,
         k.sent = 0, k.plim = 1, 1 <= k.lim + Slack,
         NEW ack \in BOOLEAN, NEW c, Blank(c), ack \/ c.known, MayStart(c, m, ack),
         NEW isn, isn = m.o, NEW s, s = IF ack THEN TCP_SYN_RCVD ELSE TCP_SYN_SENT,
         NEW d, d = [ToSend(InitSeqnos(c, isn), SynPkt(ack), TRUE) EXCEPT !.state = s]
  PROVE  Turned(d, k)
<1> DEFINE sent == Before(d.outSeqno, m.o)
           plim == IF ack THEN 1 + 2 * MaxWin ELSE 1
           j == [k EXCEPT !.sent = sent, !.plim = plim]
<1>1. d \in TypedStream /\ Careful(d, m) /\ Started(d, m, ack, s)
  BY OpeningCareful
<1>2. s \in 0 .. 10 /\ isn \in SeqNum
  BY States DEF Marks
<1>y. PICK y : y = ToSend(InitSeqnos(c, isn), SynPkt(ack), TRUE)
  OBVIOUS
<1>3. /\ d.inWin = MaxWin /\ d.outQueue = <<>>
      /\ \A p \in d.tx : p.win = d.inWin
  <2>1. /\ y \in TypedStream /\ y.inWin = MaxWin /\ y.outQueue = <<>>
        /\ \A p \in y.tx : p.win = y.inWin
    BY ONLY <1>2, <1>y, SynWindow, Blank(c), ack \/ c.known, ack \in BOOLEAN
  <2>2. d = [y EXCEPT !.state = s]
    BY <1>y
  <2>3. d.inWin = y.inWin /\ d.outQueue = y.outQueue /\ d.tx = y.tx
    BY ONLY <2>1, <2>2, TypedParts DEF Fields
  <2> QED BY ONLY <2>1, <2>3
<1>4. /\ k.o = m.o /\ k.po = m.po /\ k.top = m.top
      /\ k.o \in SeqNum /\ k.lim \in Nat /\ Slack \in 0 .. 1
      /\ MaxWin \in Nat /\ MaxWin > 0 /\ SeqMod \in Nat /\ MaxWin < SeqMod
  BY LimitFacts, SlackIs, Sizes DEF Matching
<1>5. Before(m.o, m.o) = 0 /\ Before(SeqAdd(m.o, 1), m.o) = 1
  <2>1. Before(m.o, m.o) = 0 /\ 0 + 1 < SeqMod /\ 1 \in 0 .. SeqMod
    BY <1>4, BeforeType, Sizes
  <2>2. Before(SeqAdd(m.o, 1), m.o) = 0 + 1
    BY <1>4, <2>1, BeforeSum
  <2> QED BY <2>1, <2>2
<1>6. sent \in {0, 1} /\ Before(d.outAcked, m.o) = 0
  BY <1>1, <1>5 DEF Started
<1>7. plim \in 0 .. 3 * SeqMod /\ 1 <= plim
  BY <1>4
<1>8. sent \in 0 .. SeqMod - 1
  <2> HIDE DEF sent
  <2> QED BY ONLY <1>6, Sizes
<1>9. /\ j \in Limits /\ j.o = k.o /\ j.sent = sent /\ j.lim = k.lim
      /\ j.po = k.po /\ j.top = k.top /\ j.plim = plim
  <2> HIDE DEF sent, plim
  <2> QED BY <1>7, <1>8 DEF Limits
<1> HIDE DEF j
<1>10. Onto(k, j)
  <2> HIDE DEF plim, sent
  <2> QED BY <1>7, <1>8, <1>9 DEF Onto
<1>11. /\ d.state = s /\ (ack => d.state = TCP_SYN_RCVD) /\ (~ack => d.state = TCP_SYN_SENT)
  BY <1>1 DEF Started
<1>12. /\ Live(d) /\ Opening(d) /\ ~Opened(d) /\ (Heard(d) <=> ack)
       /\ (d.state = TCP_SYN_SENT => ~ack)
  BY <1>11, LiveStates
<1>13. Outgoing(d, j)
  <2>1. sent <= k.lim + Slack /\ 2 * sent < SeqMod /\ Before(d.outAcked, m.o) <= sent
        /\ sent <= 1 /\ MaxWin <= MaxWin
    <3>1. 2 < SeqMod /\ 1 <= k.lim + Slack
      OBVIOUS
    <3> HIDE DEF sent
    <3> QED BY ONLY <1>4, <1>6, <3>1
  <2> QED BY <1>3, <1>4, <1>9, <1>12, <2>1 DEF Outgoing
<1>14. Heard(d) => Incoming(d, j)
  <2> SUFFICES ASSUME Heard(d) PROVE Incoming(d, j)
    OBVIOUS
  <2>1. ack /\ d.state = TCP_SYN_RCVD /\ plim = 1 + 2 * MaxWin
    BY <1>11, <1>12
  <2>2. Before(d.inAckno, k.po) = 1 /\ 1 <= k.top
    BY <1>1, <1>4, <1>12, <2>1 DEF Careful
  <2>3. Len(<<>>) = 0 /\ 1 + 2 * MaxWin = plim + 0 /\ 0 <= 2 * MaxWin + Slack
        /\ 1 + MaxWin <= plim
    BY <1>4, <2>1
  <2>4. 2 * 1 < SeqMod
    OBVIOUS
  <2> HIDE DEF plim, sent
  <2> QED BY ONLY <1>3, <1>9, <2>2, <2>3, <2>4 DEF Incoming, Granted
<1>15. Matching(j, m)
  BY <1>4, <1>9 DEF Matching
<1>16. d.tx \subseteq Gives(j)
  <2> SUFFICES ASSUME NEW p \in d.tx PROVE p \in Gives(j)
    OBVIOUS
  <2>1. p \in OwnPackets(d, m) /\ p.win = d.inWin
    BY <1>1, <1>3 DEF Started
  <2> QED BY <1>1, <1>9, <1>12, <1>13, <1>14, <1>15, <2>1, OwnPaced
<1>17. d.inPkt \in Seq(Takes(j))
  <2>1. <<>> \in Seq(Takes(j))
    OBVIOUS
  <2> QED BY <1>1, <2>1 DEF Started
<1>18. d.state = TCP_SYN_SENT => j.plim = 1
  BY <1>9, <1>12
<1>19. Measured(d, j)
  BY <1>1, <1>13, <1>14, <1>16, <1>17, <1>18 DEF Measured
<1> QED BY <1>10, <1>19, OntoGrows DEF Turned

(***************************************************************************)
(* What one end does, as the other end sees it                             *)
(***************************************************************************)

(* Up to where c has room for what it receives: two windows after what has *)
(* been read, for a SYN only while it has heard nothing, and without an    *)
(* end when its stream is closed for good.                                 *)
LimitOf(c, begun, po) ==
    IF Heard(c) THEN Before(c.inAckno, po) + 2 * MaxWin - Len(c.outQueue)
    ELSE IF begun /\ ~Opening(c) THEN 3 * SeqMod ELSE 1

(* Up to where there is room for what end e sends.                         *)
Room(e) == LimitOf(stream[Peer(e)], opens[Peer(e)] # <<>>, Origin(e))

LimitsOf(e) == [o |-> Origin(e), sent |-> Top(e), lim |-> Room(e),
                po |-> Origin(Peer(e)), top |-> Top(Peer(e)), plim |-> Room(Peer(e))]

PaceInv ==
    \A e \in Ends : /\ Measured(stream[e], LimitsOf(e))
                    /\ net[e] \subseteq Takes(LimitsOf(e))

(* The same limits seen from the other end.                                *)
Mirror(k) == [o |-> k.po, sent |-> k.top, lim |-> k.plim,
              po |-> k.o, top |-> k.sent, plim |-> k.lim]

LEMMA MirrorTakes ==
  ASSUME NEW k
  PROVE  Takes(Mirror(k)) = Gives(k) /\ Gives(Mirror(k)) = Takes(k)
  BY DEF Takes, Gives, Mirror

(* What the limits say of a stream that is open, or opens.                 *)
LEMMA LiveLimits ==
  ASSUME NEW k \in Limits, NEW c, Measured(c, k), Live(c), NEW begun \in BOOLEAN
  PROVE  SentTo(c, begun, k.o) = k.sent /\ LimitOf(c, begun, k.po) = k.plim
<1>1. c \in TypedStream
  BY DEF Measured
<1>2. SentTo(c, begun, k.o) = k.sent
  BY DEF SentTo, Measured, Outgoing
<1>3. CASE Heard(c)
  <2>1. /\ Before(c.inAckno, k.po) \in Nat /\ Len(c.outQueue) \in Nat
        /\ k.plim \in Nat /\ MaxWin \in Nat
    BY <1>1, PaceFacts, LimitFacts, Sizes
  <2>2. Before(c.inAckno, k.po) + 2 * MaxWin = k.plim + Len(c.outQueue)
    BY <1>3 DEF Measured, Incoming
  <2>3. Before(c.inAckno, k.po) + 2 * MaxWin - Len(c.outQueue) = k.plim
    <3>1. PICK a, q, lim, w \in Nat :
            /\ a = Before(c.inAckno, k.po) /\ q = Len(c.outQueue)
            /\ lim = k.plim /\ w = MaxWin
      BY <2>1
    <3>2. a + 2 * w = lim + q
      BY <2>2, <3>1
    <3>3. a + 2 * w - q = lim
      BY ONLY <3>2, a \in Nat, q \in Nat, lim \in Nat, w \in Nat
    <3> QED BY <3>1, <3>3
  <2> QED BY <1>2, <1>3, <2>3 DEF LimitOf
<1>4. CASE ~Heard(c)
  <2>1. c.state = TCP_SYN_SENT /\ Opening(c)
    BY <1>4 DEF Live, Heard, Opening
  <2>2. k.plim = 1
    BY <2>1 DEF Measured
  <2> QED BY <1>2, <1>4, <2>1, <2>2 DEF LimitOf
<1> QED BY <1>3, <1>4

LEMMA ClosedLimits ==
  ASSUME NEW c, ~Live(c), NEW begun \in BOOLEAN, NEW o, NEW po
  PROVE  /\ SentTo(c, begun, o) = IF begun THEN SeqMod - 1 ELSE 0
         /\ LimitOf(c, begun, po) = IF begun THEN 3 * SeqMod ELSE 1
<1>1. ~Heard(c) /\ ~Opening(c)
  BY LiveStates DEF Live
<1> QED BY <1>1 DEF SentTo, LimitOf

(* The limits after a step that leaves d.                                  *)
LEMMA NextLimits ==
  ASSUME NEW k \in Limits, NEW j, Onto(k, j), NEW d, Measured(d, j),
         NEW begun \in BOOLEAN, ~begun => j = k /\ k.sent = 0 /\ k.plim = 1,
         NEW J, J = [o |-> k.o, sent |-> SentTo(d, begun, k.o), lim |-> k.lim,
                     po |-> k.po, top |-> k.top, plim |-> LimitOf(d, begun, k.po)]
  PROVE  Onto(k, J) /\ Gives(j) \subseteq Gives(J) /\ Measured(d, J)
<1>1. /\ j \in Limits /\ j.o = k.o /\ j.po = k.po /\ j.lim = k.lim /\ j.top = k.top
  BY DEF Onto
<1>2. CASE Live(d)
  <2>1. SentTo(d, begun, k.o) = j.sent /\ LimitOf(d, begun, k.po) = j.plim
    BY <1>1, <1>2, LiveLimits
  <2>2. J = j
    <3>1. J = [o |-> j.o, sent |-> j.sent, lim |-> j.lim,
               po |-> j.po, top |-> j.top, plim |-> j.plim]
      BY <1>1, <2>1
    <3> QED BY ONLY <1>1, <3>1 DEF Limits
  <2> QED BY <2>2
<1>3. CASE ~Live(d)
  <2>1. /\ SentTo(d, begun, k.o) = IF begun THEN SeqMod - 1 ELSE 0
        /\ LimitOf(d, begun, k.po) = IF begun THEN 3 * SeqMod ELSE 1
    BY <1>3, ClosedLimits
  <2>2. /\ J.o = k.o /\ J.sent = SentTo(d, begun, k.o) /\ J.lim = k.lim
        /\ J.po = k.po /\ J.top = k.top /\ J.plim = LimitOf(d, begun, k.po)
    OBVIOUS
  <2>3. SeqMod \in Nat /\ SeqMod > 1
    BY Sizes
  <2>4. J \in Limits
    <3>1. /\ k.o \in SeqNum /\ k.po \in SeqNum
          /\ k.lim \in 0 .. 3 * SeqMod /\ k.top \in 0 .. SeqMod - 1
      BY DEF Limits
    <3>2. SentTo(d, begun, k.o) \in 0 .. SeqMod - 1
      BY <2>1, <2>3
    <3>3. LimitOf(d, begun, k.po) \in 0 .. 3 * SeqMod
      BY <2>1, <2>3
    <3> QED BY <3>1, <3>2, <3>3 DEF Limits
  <2>5. j.sent <= J.sent /\ j.plim <= J.plim
    <3>1. /\ j.sent \in Nat /\ j.sent < SeqMod /\ j.plim \in Nat /\ j.plim <= 3 * SeqMod
      BY <1>1, LimitFacts
    <3>2. ~begun => j.sent = 0 /\ j.plim = 1
      OBVIOUS
    <3> QED BY <2>1, <2>2, <2>3, <3>1, <3>2
  <2>6. Onto(j, J)
    BY <1>1, <2>2, <2>4, <2>5 DEF Onto
  <2>7. Onto(k, J)
    <3>1. k.sent <= j.sent /\ k.plim <= j.plim
      BY DEF Onto
    <3>2. /\ j.sent \in Nat /\ j.plim \in Nat /\ k.sent \in Nat /\ k.plim \in Nat
          /\ J.sent \in Nat /\ J.plim \in Nat
      BY <1>1, <2>4, LimitFacts
    <3> QED BY <2>2, <2>4, <2>5, <3>1, <3>2 DEF Onto
  <2>8. Gives(j) \subseteq Gives(J) /\ Seq(Takes(j)) \subseteq Seq(Takes(J))
    BY <1>1, <2>6, OntoGrows
  <2>9. ~Heard(d) /\ d.state # TCP_SYN_SENT
    BY <1>3, LiveStates
  <2>10. d.tx \subseteq Gives(J) /\ d.inPkt \in Seq(Takes(J)) /\ d \in TypedStream
    BY <2>8 DEF Measured
  <2>11. Measured(d, J)
    BY <1>3, <2>9, <2>10 DEF Measured
  <2> QED BY <2>7, <2>8, <2>11
<1> QED BY <1>2, <1>3

(* The other end, whose limits these are as well.                          *)
LEMMA MirrorMeasured ==
  ASSUME NEW k \in Limits, NEW j, Onto(k, j), NEW c, Measured(c, Mirror(k))
  PROVE  Measured(c, Mirror(j))
<1>1. /\ j \in Limits /\ j.o = k.o /\ j.po = k.po /\ j.lim = k.lim /\ j.top = k.top
      /\ k.sent <= j.sent /\ k.plim <= j.plim
  BY DEF Onto
<1>2. /\ Gives(Mirror(k)) \subseteq Gives(Mirror(j))
      /\ Seq(Takes(Mirror(k))) \subseteq Seq(Takes(Mirror(j)))
  <2>1. Gives(k) \subseteq Gives(j) /\ Takes(k) \subseteq Takes(j)
    BY OntoGrows
  <2> QED BY <2>1, MirrorTakes, SeqMonotonic
<1>3. PICK a : a = Mirror(k)
  OBVIOUS
<1>4. PICK b : b = Mirror(j)
  OBVIOUS
<1>5. /\ a.o = k.po /\ a.sent = k.top /\ a.lim = k.plim
      /\ a.po = k.o /\ a.top = k.sent /\ a.plim = k.lim
      /\ b.o = k.po /\ b.sent = k.top /\ b.lim = j.plim
      /\ b.po = k.o /\ b.top = j.sent /\ b.plim = k.lim
  BY <1>1, <1>3, <1>4 DEF Mirror
<1>6. /\ k.sent \in Nat /\ k.plim \in Nat /\ j.sent \in Nat /\ j.plim \in Nat
      /\ k.top \in Nat /\ k.lim \in Nat /\ k.o \in SeqNum /\ k.po \in SeqNum
      /\ Slack \in 0 .. 1
  BY <1>1, LimitFacts, SlackIs
<1>7. c \in TypedStream /\ c.tx \subseteq Gives(b) /\ c.inPkt \in Seq(Takes(b))
  BY <1>2, <1>3, <1>4 DEF Measured
<1>8. Live(c) => Outgoing(c, b)
  <2> SUFFICES ASSUME Live(c) PROVE Outgoing(c, b)
    OBVIOUS
  <2>1. Outgoing(c, a)
    BY <1>3 DEF Measured
  <2>2. c.outAcked \in SeqNum /\ Before(c.outAcked, k.po) \in Nat /\ c.outWin \in Nat
    BY <1>6, <1>7, BeforeType DEF TypedStream
  <2>3. PICK x \in Nat : x = Before(c.outAcked, k.po)
    BY <2>2
  <2>4. k.top <= j.plim + Slack
    <3>1. k.top <= k.plim + Slack
      BY <1>5, <2>1 DEF Outgoing
    <3> QED BY ONLY <1>1, <1>6, <3>1
  <2>5. Opened(c) => c.outWin <= MaxWin /\ Granted(c.outWin, x, j.plim)
    <3>1. Opened(c) => c.outWin <= MaxWin /\ Granted(c.outWin, x, k.plim)
      BY <1>5, <2>1, <2>3 DEF Outgoing
    <3> QED BY ONLY <1>1, <1>6, <2>2, <3>1 DEF Granted
  <2> QED BY ONLY <1>5, <2>1, <2>3, <2>4, <2>5 DEF Outgoing
<1>9. Heard(c) => Incoming(c, b)
  <2> SUFFICES ASSUME Heard(c) PROVE Incoming(c, b)
    OBVIOUS
  <2>1. Incoming(c, a)
    BY <1>3 DEF Measured
  <2>2. c.inAckno \in SeqNum /\ Before(c.inAckno, k.o) \in Nat
    BY <1>6, <1>7, BeforeType DEF TypedStream
  <2>3. Before(c.inAckno, k.o) <= j.sent
    BY <1>1, <1>5, <1>6, <2>1, <2>2 DEF Incoming
  <2> QED BY ONLY <1>5, <2>1, <2>3 DEF Incoming
<1>10. c.state = TCP_SYN_SENT => b.plim = 1
  BY <1>3, <1>5 DEF Measured
<1> QED BY <1>4, <1>7, <1>8, <1>9, <1>10 DEF Measured

LEMMA RoomType ==
  ASSUME NEW k, NEW c, Measured(c, k), NEW begun \in BOOLEAN, k.po \in SeqNum
  PROVE  LimitOf(c, begun, k.po) \in 0 .. 3 * SeqMod /\ 1 <= LimitOf(c, begun, k.po) + Slack
<1>1. /\ SeqMod \in Nat /\ SeqMod > 1 /\ MaxWin \in Nat /\ MaxWin < SeqMod
      /\ Slack \in 0 .. 1
  BY Sizes, SlackIs
<1>2. CASE Heard(c)
  <2>1. c.inAckno \in SeqNum /\ Len(c.outQueue) \in Nat
    BY DEF Measured, TypedStream
  <2>2. Before(c.inAckno, k.po) \in Nat /\ Before(c.inAckno, k.po) < SeqMod
    BY <2>1, BeforeType
  <2>3. PICK a, q \in Nat : a = Before(c.inAckno, k.po) /\ q = Len(c.outQueue)
    BY <2>1, <2>2
  <2>4. 1 <= a /\ a < SeqMod /\ q <= 2 * MaxWin + Slack
    BY <1>2, <2>2, <2>3 DEF Measured, Incoming
  <2>5. a + 2 * MaxWin - q \in 0 .. 3 * SeqMod /\ 1 <= a + 2 * MaxWin - q + Slack
    BY ONLY <1>1, <2>4, a \in Nat, q \in Nat
  <2> QED BY <1>2, <2>3, <2>5 DEF LimitOf
<1>3. CASE ~Heard(c)
  <2>1. LimitOf(c, begun, k.po) \in {3 * SeqMod, 1}
    BY <1>3 DEF LimitOf
  <2> QED BY <1>1, <2>1
<1> QED BY <1>2, <1>3

LEMMA LimitsType ==
  ASSUME OpensOnce, Bounded, PaceInv, NEW e \in Ends
  PROVE  /\ LimitsOf(e) \in Limits
         /\ LimitsOf(e).o = Origin(e) /\ LimitsOf(e).sent = Top(e) /\ LimitsOf(e).lim = Room(e)
         /\ LimitsOf(e).po = Origin(Peer(e)) /\ LimitsOf(e).top = Top(Peer(e))
         /\ LimitsOf(e).plim = Room(Peer(e))
         /\ 1 <= Room(e) + Slack
         /\ Measured(stream[e], LimitsOf(e))
<1>1. PICK f : f = Peer(e)
  OBVIOUS
<1>2. f \in Ends /\ Peer(f) = e /\ Peer(e) = f
  BY <1>1, PeerIsEnd
<1>3. Origin(e) \in SeqNum /\ Origin(f) \in SeqNum
  BY <1>2, FirstType DEF Origin
<1>4. ASSUME NEW x \in Ends
      PROVE  /\ Top(x) \in 0 .. SeqMod - 1
             /\ Room(Peer(x)) \in 0 .. 3 * SeqMod /\ 1 <= Room(Peer(x)) + Slack
  <2>1. PICK c \in TypedStream : c = stream[x]
    BY DEF Bounded
  <2>2. PICK begun \in BOOLEAN : begun = (opens[x] # <<>>)
    OBVIOUS
  <2>3. Peer(x) \in Ends /\ Peer(Peer(x)) = x
    BY PeerIsEnd
  <2>4. Origin(x) \in SeqNum /\ Origin(Peer(x)) \in SeqNum
    BY <2>3, FirstType DEF Origin
  <2>5. Top(x) = SentTo(c, begun, Origin(x))
    BY <2>1, <2>2 DEF Top
  <2>6. Room(Peer(x)) = LimitOf(c, begun, Origin(Peer(x)))
    BY <2>1, <2>2, <2>3 DEF Room
  <2>7. PICK k : k = LimitsOf(x)
    OBVIOUS
  <2>8. Measured(c, k) /\ k.po = Origin(Peer(x))
    BY <2>1, <2>7 DEF PaceInv, LimitsOf
  <2> QED BY <2>4, <2>5, <2>6, <2>8, CountTypes, RoomType
<1>5. /\ Top(e) \in 0 .. SeqMod - 1 /\ Top(f) \in 0 .. SeqMod - 1
      /\ Room(e) \in 0 .. 3 * SeqMod /\ Room(f) \in 0 .. 3 * SeqMod
      /\ 1 <= Room(e) + Slack
  BY <1>2, <1>4
<1>6. LimitsOf(e) \in Limits
  BY <1>2, <1>3, <1>5 DEF LimitsOf, Limits
<1> QED BY <1>5, <1>6 DEF LimitsOf, PaceInv

(* The limits and the marks are of the same streams.                       *)
LEMMA LimitsMatch ==
  ASSUME OpensOnce, Bounded, ReceiptInv, PaceInv, NEW e \in Ends
  PROVE  Matching(LimitsOf(e), MarksOf(e))
  BY LimitsType, MarksType DEF Matching

(* What is asked of a step of e: that its limits move on to some j, which  *)
(* its stream keeps to, and what it sends.                                 *)
LEMMA PaceStep ==
  ASSUME OpensOnce, Bounded, HonestInv, PaceInv, NEW e \in Ends,
         NEW d, stream' = [stream EXCEPT ![e] = d],
         opens'[Peer(e)] = opens[Peer(e)],
         NEW j, Onto(LimitsOf(e), j), Measured(d, j),
         opens'[e] = <<>> => opens[e] = <<>> /\ j = LimitsOf(e),
         NEW tx, tx \subseteq Gives(j),
         net'[e] \subseteq net[e], net'[Peer(e)] \subseteq net[Peer(e)] \cup tx
  PROVE  PaceInv'
<1>1. PICK f : f = Peer(e)
  OBVIOUS
<1>2. /\ f \in Ends /\ f # e /\ Peer(f) = e /\ Peer(e) = f
      /\ \A x \in Ends : x = e \/ x = f
  BY <1>1, PeerIsEnd
<1>3. stream'[e] = d /\ stream'[f] = stream[f]
  BY <1>2 DEF Bounded
<1>4. PICK k : k = LimitsOf(e)
  OBVIOUS
<1>5. /\ k \in Limits /\ k.o = Origin(e) /\ k.sent = Top(e) /\ k.lim = Room(e)
      /\ k.po = Origin(f) /\ k.top = Top(f) /\ k.plim = Room(f)
  BY <1>2, <1>4, LimitsType
<1>6. PICK begun \in BOOLEAN : begun = (opens'[e] # <<>>)
  OBVIOUS
<1>7. ~begun => j = k /\ k.sent = 0 /\ k.plim = 1
  <2> SUFFICES ASSUME ~begun PROVE j = k /\ k.sent = 0 /\ k.plim = 1
    OBVIOUS
  <2>1. opens[e] = <<>> /\ j = k
    BY <1>4, <1>6
  <2>2. ~Live(stream[e])
    BY <2>1, MuteIs, LiveStates
  <2>3. PICK old \in BOOLEAN : old = (opens[e] # <<>>)
    OBVIOUS
  <2>4. SentTo(stream[e], old, Origin(e)) = 0 /\ LimitOf(stream[e], old, Origin(f)) = 1
    BY <2>1, <2>2, <2>3, ClosedLimits
  <2>5. Top(e) = 0 /\ Room(f) = 1
    BY <1>2, <2>3, <2>4 DEF Top, Room
  <2> QED BY <1>5, <2>1, <2>5
<1>8. PICK J : J = [o |-> k.o, sent |-> SentTo(d, begun, k.o), lim |-> k.lim,
                    po |-> k.po, top |-> k.top, plim |-> LimitOf(d, begun, k.po)]
  OBVIOUS
<1>9. Onto(k, J) /\ Gives(j) \subseteq Gives(J) /\ Measured(d, J)
  BY <1>4, <1>5, <1>7, <1>8, NextLimits
<1>10. /\ Top(e)' = SentTo(d, begun, k.o) /\ Top(f)' = k.top
       /\ Room(e)' = k.lim /\ Room(f)' = LimitOf(d, begun, k.po)
  <2>1. Top(e)' = SentTo(d, begun, k.o)
    BY <1>3, <1>5, <1>6 DEF Top, Origin
  <2>2. Top(f)' = Top(f)
    BY <1>1, <1>3 DEF Top, Origin
  <2>3. Room(e)' = Room(e)
    BY <1>1, <1>2, <1>3 DEF Room, Origin
  <2>4. Room(f)' = LimitOf(d, begun, k.po)
    BY <1>2, <1>3, <1>5, <1>6 DEF Room, Origin
  <2> QED BY <1>5, <2>1, <2>2, <2>3, <2>4
<1>11. LimitsOf(e)' = J
  <2>1. LimitsOf(e)' = [o |-> Origin(e), sent |-> Top(e)', lim |-> Room(e)',
                        po |-> Origin(f), top |-> Top(f)', plim |-> Room(f)']
    BY <1>2 DEF LimitsOf, Origin
  <2> QED BY ONLY <1>5, <1>8, <1>10, <2>1
<1>12. LimitsOf(f)' = Mirror(J)
  <2>1. LimitsOf(f)' = [o |-> Origin(f), sent |-> Top(f)', lim |-> Room(f)',
                        po |-> Origin(e), top |-> Top(e)', plim |-> Room(e)']
    BY <1>2 DEF LimitsOf, Origin
  <2>2. Mirror(J) = [o |-> k.po, sent |-> k.top, lim |-> LimitOf(d, begun, k.po),
                     po |-> k.o, top |-> SentTo(d, begun, k.o), plim |-> k.lim]
    BY ONLY <1>8 DEF Mirror
  <2> QED BY ONLY <1>5, <1>10, <2>1, <2>2
<1>13. LimitsOf(f) = Mirror(k)
  <2>1. LimitsOf(f) = [o |-> Origin(f), sent |-> Top(f), lim |-> Room(f),
                       po |-> Origin(e), top |-> Top(e), plim |-> Room(e)]
    BY <1>2 DEF LimitsOf
  <2> QED BY ONLY <1>5, <2>1 DEF Mirror
<1>14. Measured(stream[f], Mirror(J))
  <2>1. Measured(stream[f], Mirror(k))
    BY <1>2, <1>13 DEF PaceInv
  <2> QED BY ONLY <1>5, <1>9, <2>1, MirrorMeasured
<1>15. net'[e] \subseteq Takes(J)
  <2>1. net[e] \subseteq Takes(k)
    BY <1>4 DEF PaceInv
  <2>2. Takes(k) \subseteq Takes(J)
    BY <1>5, <1>9, OntoGrows
  <2> QED BY <2>1, <2>2
<1>16. net'[f] \subseteq Takes(Mirror(J))
  <2>1. net[f] \subseteq Gives(k)
    BY <1>2, <1>13, MirrorTakes DEF PaceInv
  <2>2. Gives(k) \subseteq Gives(J)
    BY <1>5, <1>9, OntoGrows
  <2> QED BY <1>1, <1>9, <2>1, <2>2, MirrorTakes
<1>17. ASSUME NEW x \in Ends
       PROVE  (Measured(stream[x], LimitsOf(x)) /\ net[x] \subseteq Takes(LimitsOf(x)))'
  <2>1. CASE x = e
    BY <1>3, <1>9, <1>11, <1>15, <2>1
  <2>2. CASE x = f
    BY <1>3, <1>12, <1>14, <1>16, <2>2
  <2> QED BY <1>2, <2>1, <2>2
<1> QED BY <1>17 DEF PaceInv

(***************************************************************************)
(* Every step keeps the pace                                               *)
(***************************************************************************)

(* What c had to send goes out.                                            *)
LEMMA TxMeasured ==
  ASSUME NEW k, NEW c, Measured(c, k)
  PROVE  Measured([c EXCEPT !.tx = {}], k)
<1> DEFINE none == {}
<1>1. PICK d : d = [c EXCEPT !.tx = none]
  OBVIOUS
<1>2. c \in TypedStream /\ c.inPkt \in Seq(Takes(k))
  BY DEF Measured
<1>3. d \in TypedStream
  BY <1>1, <1>2, TxLeaves DEF Leaves
<1>4. none \subseteq Gives(k)
  OBVIOUS
<1> HIDE DEF none
<1>5. Level(c, d) /\ d.state = c.state /\ d.tx = none /\ d.inPkt = c.inPkt
  BY <1>1, <1>2, TypedParts DEF Fields, Level
<1>6. Measured(d, k)
  BY <1>2, <1>3, <1>4, <1>5, LevelMeasured
<1> QED BY <1>1, <1>6 DEF none

LEMMA OntoItself ==
  ASSUME NEW k \in Limits
  PROVE  Onto(k, k)
  BY LimitFacts DEF Onto

(* A step of e that does not open its stream, and leaves c to be sent.     *)
LEMMA UpdatePace ==
  ASSUME OpensOnce, Bounded, HonestInv, PaceInv, NEW e \in Ends, NEW c,
         NEW j, Onto(LimitsOf(e), j), Measured(c, j),
         opens[e] = <<>> => j = LimitsOf(e),
         stream' = [stream EXCEPT ![e] = [c EXCEPT !.tx = {}]], opens' = opens,
         net'[e] \subseteq net[e], net'[Peer(e)] \subseteq net[Peer(e)] \cup c.tx
  PROVE  PaceInv'
<1>1. PICK d : d = [c EXCEPT !.tx = {}]
  OBVIOUS
<1>2. Measured(d, j)
  BY <1>1, TxMeasured
<1>3. c.tx \subseteq Gives(j)
  BY DEF Measured
<1>4. /\ stream' = [stream EXCEPT ![e] = d]
      /\ opens'[Peer(e)] = opens[Peer(e)]
      /\ opens'[e] = <<>> => opens[e] = <<>> /\ j = LimitsOf(e)
  BY <1>1
<1> QED BY ONLY <1>2, <1>3, <1>4, PaceStep, OpensOnce, Bounded, HonestInv, PaceInv,
         e \in Ends, Onto(LimitsOf(e), j), net'[e] \subseteq net[e],
         net'[Peer(e)] \subseteq net[Peer(e)] \cup c.tx

(* A method that sends nothing and changes none of the numbers.            *)
LEMMA LevelPace ==
  ASSUME OpensOnce, Bounded, Bounded', HonestInv, PaceInv, NEW e \in Ends,
         NEW c, c = stream[e], NEW d \in TypedStream, d.state = c.state,
         Level(c, d), d.inPkt = c.inPkt, d.tx = c.tx,
         stream' = [stream EXCEPT ![e] = d], opens' = opens,
         net'[e] \subseteq net[e], net'[Peer(e)] \subseteq net[Peer(e)]
  PROVE  PaceInv'
<1>1. PICK k : k = LimitsOf(e)
  OBVIOUS
<1>2. k \in Limits /\ Measured(c, k)
  BY <1>1, LimitsType
<1>3. c.tx \subseteq Gives(k) /\ c.inPkt \in Seq(Takes(k))
  BY <1>2 DEF Measured
<1>4. Measured(d, k)
  BY <1>2, <1>3, LevelMeasured
<1>5. Onto(k, k)
  BY <1>2, OntoItself
<1>6. /\ opens'[Peer(e)] = opens[Peer(e)]
      /\ opens'[e] = <<>> => opens[e] = <<>> /\ k = LimitsOf(e)
      /\ net'[Peer(e)] \subseteq net[Peer(e)] \cup c.tx
  BY <1>1
<1> QED BY ONLY <1>1, <1>3, <1>4, <1>5, <1>6, PaceStep, OpensOnce, Bounded, HonestInv, PaceInv,
         e \in Ends, stream' = [stream EXCEPT ![e] = d], net'[e] \subseteq net[e]

(* All that the application writes has its sequence numbers.               *)
LEMMA WrittenRoom ==
  ASSUME HalfSuffices, Bounded, HonestInv, ReceiptInv, NEW e \in Ends
  PROVE  Roomy(ContextOf(e), MarksOf(e))
<1>1. /\ ContextOf(e).b = First(e) /\ ContextOf(e).w = written[e]
      /\ MarksOf(e).o = Origin(e)
  BY ContextFits, MarksType DEF HalfSuffices
<1>2. PICK w \in Nat : w = written[e]
  BY DEF Bounded
<1>3. PICK o \in Nat : o = Origin(e)
  BY FirstType DEF HalfSuffices, Origin, SeqNum
<1>4. w <= MaxBytes /\ MaxBytes \in Nat /\ SeqMod \in Nat
  BY <1>2, BoundsAssumption, Sizes DEF HonestInv
<1>5. 2 * (w + 1) < SeqMod
  BY ONLY <1>4, HalfSuffices, w \in Nat DEF HalfSuffices
<1>6. ASSUME NeverRollsOver PROVE o + w + 1 < SeqMod
  <2>1. o + MaxBytes + 1 < SeqMod
    BY <1>3, <1>6 DEF NeverRollsOver, Origin
  <2> QED BY ONLY <1>4, <2>1, w \in Nat, o \in Nat
<1> QED BY <1>1, <1>2, <1>3, <1>5, <1>6 DEF Roomy, HalfFits, First, Origin

(* What a tick makes of the stream of e.                                   *)
LEMMA TickPaces ==
  ASSUME HalfSuffices, Bounded, HonestInv, ReceiptInv, PaceInv, NEW e \in Ends, NEW t
  PROVE  Paces(TickStream(stream[e], t), stream[e], LimitsOf(e))
<1>once. OpensOnce
  BY DEF HalfSuffices
<1>1. PICK k : k = LimitsOf(e)
  OBVIOUS
<1>2. PICK m : m = MarksOf(e)
  OBVIOUS
<1>3. PICK kc : kc = ContextOf(e)
  OBVIOUS
<1>4. PICK c : c = stream[e]
  OBVIOUS
<1>5. k \in Limits /\ m \in Marks /\ kc \in Context /\ Matching(k, m)
  BY <1>once, <1>1, <1>2, <1>3, LimitsType, MarksType, ContextFits, LimitsMatch
<1>6. Roomy(kc, m) /\ Since(c, c, m) /\ Fine(c, c, kc) /\ Measured(c, k)
  BY <1>once, <1>1, <1>2, <1>3, <1>4, WrittenRoom, SinceNow, FineNow, LimitsType
<1>7. Paces(TickStream(c, t), c, k)
  BY ONLY <1>5, <1>6, TickMeasured
<1> QED BY <1>1, <1>4, <1>7

(* The limits that a tick moves on to.                                     *)
LEMMA TickLimits ==
  ASSUME HalfSuffices, Bounded, HonestInv, ReceiptInv, PaceInv, NEW e \in Ends, NEW t
  PROVE  \E j \in Limits :
           /\ Onto(LimitsOf(e), j) /\ Measured(TickStream(stream[e], t), j)
           /\ opens[e] = <<>> => j = LimitsOf(e)
<1>1. PICK k : k = LimitsOf(e)
  OBVIOUS
<1>2. PICK d : d = TickStream(stream[e], t)
  OBVIOUS
<1>3. k \in Limits
  BY <1>1, LimitsType DEF HalfSuffices
<1>4. Paces(d, stream[e], k)
  BY <1>1, <1>2, TickPaces
<1>5. CASE Measured(d, k)
  BY <1>1, <1>2, <1>3, <1>5, OntoItself
<1>6. CASE Opened(stream[e]) /\ Onward(d, k)
  <2>1. PICK s \in Nat : /\ k.sent <= s /\ s < SeqMod /\ Measured(d, SentUpTo(k, s))
    BY <1>6 DEF Onward
  <2>2. PICK j : j = SentUpTo(k, s)
    OBVIOUS
  <2>3. /\ j \in Limits /\ j.o = k.o /\ j.sent = s
        /\ j.lim = k.lim /\ j.po = k.po /\ j.top = k.top /\ j.plim = k.plim
    BY <1>3, <2>1, <2>2, SentUpToIs
  <2>4. Onto(k, j)
    BY <1>3, <2>1, <2>3, LimitFacts DEF Onto
  <2>5. opens[e] # <<>>
    <3>1. stream[e].state # TCP_CLOSED
      BY <1>6, LiveStates
    <3> QED BY <3>1, MuteIs
  <2> QED BY <1>1, <1>2, <2>1, <2>2, <2>3, <2>4, <2>5
<1> QED BY <1>4, <1>5, <1>6 DEF Paces

LEMMA TickPace ==
  ASSUME HalfSuffices, Bounded, HonestInv, ReceiptInv, PaceInv,
         NEW e \in Ends, NEW t \in Timeouts, Tick(e, t)
  PROVE  PaceInv'
<1>1. PICK c : c = TickStream(stream[e], t)
  OBVIOUS
<1>2. PICK j \in Limits : /\ Onto(LimitsOf(e), j) /\ Measured(c, j)
                          /\ opens[e] = <<>> => j = LimitsOf(e)
  BY <1>1, TickLimits
<1>3. /\ stream' = [stream EXCEPT ![e] = [c EXCEPT !.tx = {}]]
      /\ net' = [net EXCEPT ![Peer(e)] = @ \cup c.tx]
      /\ opens' = opens
  BY <1>1 DEF Tick, Update
<1>4. net'[e] \subseteq net[e] /\ net'[Peer(e)] \subseteq net[Peer(e)] \cup c.tx
  BY <1>3, NetGrows
<1>5. OpensOnce
  BY DEF HalfSuffices
<1> QED BY <1>2, <1>3, <1>4, <1>5, UpdatePace

LEMMA ClosePace ==
  ASSUME HalfSuffices, Bounded, Bounded', HonestInv, ReceiptInv, PaceInv,
         NEW e \in Ends, NEW t \in Timeouts, Close(e, t)
  PROVE  PaceInv'
<1>1. PICK c : c = TickStream(stream[e], t)
  OBVIOUS
<1>2. PICK d : d = NewStream
  OBVIOUS
<1>3. PICK j \in Limits : /\ Onto(LimitsOf(e), j) /\ Measured(c, j)
                          /\ opens[e] = <<>> => j = LimitsOf(e)
  BY <1>1, TickLimits
<1>4. /\ stream' = [stream EXCEPT ![e] = d]
      /\ net' = [net EXCEPT ![Peer(e)] = @ \cup c.tx]
      /\ opens' = opens
  BY <1>1, <1>2 DEF Close
<1>5. net'[e] \subseteq net[e] /\ net'[Peer(e)] \subseteq net[Peer(e)] \cup c.tx
  BY <1>4, NetGrows
<1>6. d \in TypedStream
  <2>1. stream'[e] = d
    BY <1>4 DEF Bounded
  <2> QED BY <2>1 DEF Bounded
<1>7. Measured(d, j)
  <2>1. ~Live(d) /\ d.inPkt = <<>> /\ d.tx = {}
    BY <1>2, NewStreamFields, LiveStates
  <2>2. d.tx \subseteq Gives(j)
    BY <2>1
  <2> QED BY <1>6, <2>1, <2>2, ClosedMeasured
<1>8. OpensOnce /\ c.tx \subseteq Gives(j)
  BY <1>3 DEF HalfSuffices, Measured
<1>9. /\ opens'[Peer(e)] = opens[Peer(e)]
      /\ opens'[e] = <<>> => opens[e] = <<>> /\ j = LimitsOf(e)
  BY <1>3, <1>4
<1> QED BY ONLY <1>3, <1>4, <1>5, <1>7, <1>8, <1>9, PaceStep, Bounded, HonestInv, PaceInv,
         e \in Ends

LEMMA KnownPace ==
  ASSUME OpensOnce, Bounded, Bounded', HonestInv, PaceInv, NEW e \in Ends,
         stream' = [stream EXCEPT ![e] = [stream[e] EXCEPT !.known = TRUE]],
         opens' = opens, net' = net
  PROVE  PaceInv'
<1> DEFINE yes == TRUE
<1>1. PICK c : c = stream[e]
  OBVIOUS
<1>2. PICK d : d = [c EXCEPT !.known = yes]
  OBVIOUS
<1>3. c \in TypedStream /\ d \in TypedStream
  BY <1>1, <1>2, KnownType DEF Bounded
<1>4. stream' = [stream EXCEPT ![e] = d]
  BY <1>1, <1>2
<1> HIDE DEF yes
<1>5. Level(c, d) /\ d.state = c.state /\ d.inPkt = c.inPkt /\ d.tx = c.tx
  BY <1>2, <1>3, TypedParts DEF Fields, Level
<1>6. net'[e] \subseteq net[e] /\ net'[Peer(e)] \subseteq net[Peer(e)]
  OBVIOUS
<1> QED BY <1>1, <1>3, <1>4, <1>5, <1>6, LevelPace

LEMMA CloseWritePace ==
  ASSUME OpensOnce, Bounded, Bounded', HonestInv, PaceInv, NEW e \in Ends, CloseWrite(e)
  PROVE  PaceInv'
<1> DEFINE no == FALSE
<1>1. PICK c : c = stream[e]
  OBVIOUS
<1>2. PICK d : d = [c EXCEPT !.outActive = no]
  OBVIOUS
<1>3. c \in TypedStream /\ d \in TypedStream
  BY <1>1, <1>2, OutActiveType DEF Bounded
<1>4. stream' = [stream EXCEPT ![e] = d] /\ opens' = opens /\ net' = net
  BY <1>1, <1>2 DEF CloseWrite
<1> HIDE DEF no
<1>5. Level(c, d) /\ d.state = c.state /\ d.inPkt = c.inPkt /\ d.tx = c.tx
  BY <1>2, <1>3, TypedParts DEF Fields, Level
<1>6. net'[e] \subseteq net[e] /\ net'[Peer(e)] \subseteq net[Peer(e)]
  BY <1>4
<1> QED BY <1>1, <1>3, <1>4, <1>5, <1>6, LevelPace

LEMMA DropPace ==
  ASSUME OpensOnce, Bounded, Bounded', HonestInv, PaceInv, NEW e \in Ends,
         stream' = stream, opens' = opens,
         net'[e] \subseteq net[e], net'[Peer(e)] \subseteq net[Peer(e)]
  PROVE  PaceInv'
<1>1. PICK c : c = stream[e]
  OBVIOUS
<1>2. c \in TypedStream /\ Level(c, c)
  BY <1>1 DEF Bounded, Level
<1>3. stream' = [stream EXCEPT ![e] = c]
  BY <1>1 DEF Bounded
<1> QED BY <1>1, <1>2, <1>3, LevelPace

LEMMA WritePace ==
  ASSUME OpensOnce, Bounded, Bounded', HonestInv, PaceInv,
         NEW e \in Ends, NEW size \in WriteSizes, Write(e, size)
  PROVE  PaceInv'
<1>1. PICK c : c = stream[e]
  OBVIOUS
<1>2. PICK q : q = c.inQueue \o [i \in 1 .. size |-> written[e] + i]
  OBVIOUS
<1>3. PICK d : d = [c EXCEPT !.inQueue = q]
  OBVIOUS
<1>4. stream' = [stream EXCEPT ![e] = d] /\ opens' = opens /\ net' = net
  BY <1>1, <1>2, <1>3 DEF Write
<1>5. c \in TypedStream /\ d \in TypedStream
  <2>1. stream'[e] = d
    BY <1>4 DEF Bounded
  <2> QED BY <1>1, <2>1 DEF Bounded
<1>6. Level(c, d) /\ d.state = c.state /\ d.inPkt = c.inPkt /\ d.tx = c.tx
  BY <1>3, <1>5, TypedParts DEF Fields, Level
<1>7. net'[e] \subseteq net[e] /\ net'[Peer(e)] \subseteq net[Peer(e)]
  BY <1>4
<1> QED BY <1>1, <1>4, <1>5, <1>6, <1>7, LevelPace

(* n bytes are read of c: there is room for n more.                        *)
LEMMA ReadMeasured ==
  ASSUME NEW k \in Limits, NEW c, Measured(c, k), Opened(c),
         NEW n \in 1 .. Len(c.outQueue),
         NEW x, x = [c EXCEPT !.outQueue = SubSeq(c.outQueue, n + 1, Len(c.outQueue))],
         NEW d \in TypedStream, d = UpdateInWinSize(x)
  PROVE  Turned(d, k)
<1> DEFINE rest == SubSeq(c.outQueue, n + 1, Len(c.outQueue))
           win == IF Len(rest) < MaxWin THEN MaxWin
                  ELSE IF Len(rest) < 2 * MaxWin THEN 2 * MaxWin - Len(rest) ELSE 0
<1>1. c \in TypedStream /\ c.outQueue \in Seq(Byte)
  BY DEF Measured, TypedStream
<1>2. Len(c.outQueue) \in Nat /\ Len(rest) = Len(c.outQueue) - n
  BY <1>1, SubSeqProperties
<1>3. x = [c EXCEPT !.outQueue = rest]
  OBVIOUS
<1> HIDE DEF rest
<1>4. x.outQueue = rest
  BY <1>1, <1>3, TypedParts DEF Fields
<1>5. d = [x EXCEPT !.inWin = win]
  BY ONLY <1>4, d = UpdateInWinSize(x) DEF UpdateInWinSize
<1> HIDE DEF win
<1>6. /\ d.state = c.state /\ d.outSeqno = c.outSeqno /\ d.outAcked = c.outAcked
      /\ d.outWin = c.outWin /\ d.inAckno = c.inAckno
      /\ d.inPkt = c.inPkt /\ d.tx = c.tx
      /\ d.outQueue = rest /\ d.inWin = win
  BY ONLY <1>1, <1>3, <1>5, TypedParts DEF Fields
<1>7. /\ Live(c) /\ Heard(c) /\ Live(d) /\ Heard(d) /\ Opened(d)
      /\ ~Opening(d) /\ d.state # TCP_SYN_SENT
  BY <1>6, LiveStates DEF Opened
<1>8. Outgoing(c, k) /\ Incoming(c, k) /\ c.tx \subseteq Gives(k) /\ c.inPkt \in Seq(Takes(k))
  BY <1>7 DEF Measured
<1>9. PICK a, q, w, pl, S \in Nat :
        /\ a = Before(c.inAckno, k.po) /\ q = Len(c.outQueue) /\ w = MaxWin
        /\ pl = k.plim /\ S = SeqMod
  BY <1>1, <1>2, PaceFacts, LimitFacts, Sizes
<1>10. a < S /\ w < S
  <2>1. c.inAckno \in SeqNum /\ k.po \in SeqNum
    BY <1>1, PaceFacts, LimitFacts
  <2>2. Before(c.inAckno, k.po) < SeqMod
    BY <2>1, BeforeType
  <2> QED BY <1>9, <2>2, Sizes
<1>11. 1 <= a /\ a + 2 * w = pl + q /\ q <= 2 * w + Slack
  BY <1>8, <1>9 DEF Incoming
<1>12. Slack \in 0 .. 1 /\ n \in Nat /\ n <= q
  BY <1>2, <1>9, SlackIs
<1>13. /\ pl + n \in Nat /\ pl <= pl + n /\ pl + n <= 3 * S
       /\ q - n \in Nat /\ q - n <= 2 * w + Slack
       /\ a + 2 * w = (pl + n) + (q - n)
  BY ONLY <1>10, <1>11, <1>12, a \in Nat, q \in Nat, w \in Nat, pl \in Nat, S \in Nat
<1>14. PICK j : j = [o |-> k.o, sent |-> k.sent, lim |-> k.lim,
                     po |-> k.po, top |-> k.top, plim |-> pl + n]
  OBVIOUS
<1>15. /\ j \in Limits /\ j.o = k.o /\ j.sent = k.sent /\ j.lim = k.lim
       /\ j.po = k.po /\ j.top = k.top /\ j.plim = pl + n
  <2>1. pl + n \in 0 .. 3 * SeqMod
    BY <1>9, <1>13
  <2> QED BY ONLY <1>14, <2>1, k \in Limits DEF Limits
<1>16. Onto(k, j)
  BY <1>9, <1>13, <1>15, LimitFacts DEF Onto
<1>17. d.tx \subseteq Gives(j) /\ d.inPkt \in Seq(Takes(j))
  BY <1>6, <1>8, <1>16, OntoGrows
<1>18. win \in Nat /\ win <= MaxWin /\ Granted(win, a, pl + n)
  <2>1. win = IF q - n < MaxWin THEN MaxWin
              ELSE IF q - n < 2 * MaxWin THEN 2 * MaxWin - (q - n) ELSE 0
    BY <1>2, <1>9 DEF win
  <2>2. a + 2 * MaxWin = (pl + n) + (q - n)
    BY <1>9, <1>13
  <2>3. pl + n \in Nat /\ q - n \in Nat
    BY <1>13
  <2> QED BY ONLY <1>9, <2>1, <2>2, <2>3, WindowInRoom
<1>19. Incoming(d, j)
  <2>1. Len(d.outQueue) = q - n
    BY <1>2, <1>6, <1>9
  <2> QED BY <1>6, <1>8, <1>9, <1>13, <1>15, <1>18, <2>1 DEF Incoming
<1>20. Outgoing(d, j)
  BY <1>6, <1>7, <1>8, <1>15, <1>18 DEF Outgoing, Opened
<1>21. Measured(d, j)
  BY <1>7, <1>17, <1>19, <1>20 DEF Measured
<1> QED BY <1>15, <1>16, <1>21 DEF Turned

LEMMA ReadPace ==
  ASSUME OpensOnce, Bounded, Bounded', HonestInv, PaceInv,
         NEW e \in Ends, NEW size \in ReadSizes, Read(e, size)
  PROVE  PaceInv'
<1>1. PICK c : c = stream[e]
  OBVIOUS
<1>2. PICK n : n = IF Len(c.outQueue) < size THEN Len(c.outQueue) ELSE size
  OBVIOUS
<1>3. PICK x : x = [c EXCEPT !.outQueue = SubSeq(c.outQueue, n + 1, Len(c.outQueue))]
  OBVIOUS
<1>4. PICK d : d = UpdateInWinSize(x)
  OBVIOUS
<1>5. stream' = [stream EXCEPT ![e] = d] /\ opens' = opens /\ net' = net
  BY <1>1, <1>2, <1>3, <1>4 DEF Read
<1>6. c \in TypedStream /\ d \in TypedStream
  <2>1. stream'[e] = d
    BY <1>5 DEF Bounded
  <2> QED BY <1>1, <2>1 DEF Bounded
<1>7. Opened(c) /\ n > 0
  BY <1>1, <1>2 DEF Read, Opened
<1>8. n \in 1 .. Len(c.outQueue)
  <2>1. size \in Nat /\ Len(c.outQueue) \in Nat
    BY <1>6, BoundsAssumption DEF TypedStream
  <2> QED BY <1>2, <1>7, <2>1
<1>9. PICK k : k = LimitsOf(e)
  OBVIOUS
<1>10. k \in Limits /\ Measured(c, k)
  BY <1>1, <1>9, LimitsType
<1>11. Turned(d, k)
  BY ONLY <1>3, <1>4, <1>6, <1>7, <1>8, <1>10, ReadMeasured
<1>12. PICK j \in Limits : Onto(k, j) /\ Measured(d, j)
  BY <1>11 DEF Turned
<1>13. opens[e] # <<>>
  <2>1. stream[e].state # TCP_CLOSED
    BY <1>1, <1>7, LiveStates
  <2> QED BY <2>1, MuteIs
<1>14. d.tx \subseteq Gives(j)
  BY <1>12 DEF Measured
<1>15. /\ net'[e] \subseteq net[e] /\ net'[Peer(e)] \subseteq net[Peer(e)] \cup d.tx
       /\ opens'[Peer(e)] = opens[Peer(e)]
       /\ opens'[e] = <<>> => opens[e] = <<>> /\ j = LimitsOf(e)
  BY <1>5, <1>13
<1> QED BY ONLY <1>5, <1>9, <1>12, <1>14, <1>15, PaceStep, OpensOnce, Bounded, HonestInv,
         PaceInv, e \in Ends

(* A stream opens: it has sent nothing yet.                                *)
LEMMA OpenPace ==
  ASSUME HalfSuffices, Bounded, HonestInv, ReceiptInv, PaceInv,
         NEW e \in Ends, MayOpen(e),
         NEW ack \in BOOLEAN, NEW c, Blank(c), ack \/ c.known,
         ack => /\ Before(c.inAckno, Origin(Peer(e))) = 1
                /\ 1 <= Top(Peer(e)) /\ TRUE \notin Kinds(Peer(e)),
         NEW s, s = IF ack THEN TCP_SYN_RCVD ELSE TCP_SYN_SENT,
         NEW d, d = [ToSend(InitSeqnos(c, NextIsn(e)), SynPkt(ack), TRUE)
                       EXCEPT !.state = s],
         stream' = [stream EXCEPT ![e] = [d EXCEPT !.tx = {}]],
         opens' = [opens EXCEPT ![e] = Append(@, written[e])],
         net'[e] \subseteq net[e],
         net'[Peer(e)] \subseteq net[Peer(e)] \cup d.tx
  PROVE  PaceInv'
<1>once. OpensOnce
  BY DEF HalfSuffices
<1>1. PICK f : f = Peer(e)
  OBVIOUS
<1>2. f \in Ends /\ f # e /\ Peer(f) = e
  BY <1>1, PeerIsEnd
<1>3. opens[e] = <<>> /\ stream[e].state = TCP_CLOSED
  BY <1>once, NotOpened
<1>4. NextIsn(e) = Origin(e)
  <2>1. Len(<<>>) + 1 = 1
    OBVIOUS
  <2> QED BY <1>3, <2>1 DEF NextIsn, Origin
<1>5. PICK k : k = LimitsOf(e)
  OBVIOUS
<1>6. k \in Limits /\ k.sent = Top(e) /\ k.plim = Room(f) /\ 1 <= k.lim + Slack
  BY <1>once, <1>1, <1>5, LimitsType
<1>7. k.sent = 0 /\ k.plim = 1
  <2>1. ~Live(stream[e])
    BY <1>3, LiveStates
  <2>2. PICK begun \in BOOLEAN : begun = (opens[e] # <<>>)
    OBVIOUS
  <2>3. SentTo(stream[e], begun, Origin(e)) = 0 /\ LimitOf(stream[e], begun, Origin(f)) = 1
    BY <1>3, <2>1, <2>2, ClosedLimits
  <2>4. Top(e) = 0 /\ Room(f) = 1
    BY <1>2, <2>2, <2>3 DEF Top, Room
  <2> QED BY <1>6, <2>4
<1>8. PICK m : m = MarksOf(e)
  OBVIOUS
<1>9. /\ m \in Marks /\ m.o = Origin(e) /\ m.po = Origin(f)
      /\ m.top = Top(f) /\ m.pkinds = Kinds(f) /\ Matching(k, m)
  BY <1>once, <1>1, <1>5, <1>8, MarksType, LimitsMatch
<1>10. PICK n : n = [o |-> m.o, reach |-> m.reach, kinds |-> {ack},
                     po |-> m.po, top |-> m.top, pkinds |-> m.pkinds]
  OBVIOUS
<1>11. /\ n \in Marks /\ n.o = m.o /\ n.po = m.po
       /\ n.top = m.top /\ n.pkinds = m.pkinds /\ n.kinds = {ack}
  <2>1. {ack} \in SUBSET BOOLEAN
    OBVIOUS
  <2> QED BY <1>9, <1>10, <2>1 DEF Marks
<1>12. Matching(k, n)
  BY <1>9, <1>11 DEF Matching
<1>13. MayStart(c, n, ack)
  BY <1>1, <1>9, <1>11 DEF MayStart
<1>14. 2 < SeqMod
  <2>1. MaxBytes \in Nat /\ SeqMod \in Nat /\ 2 * (MaxBytes + 1) < SeqMod
    BY BoundsAssumption, Sizes DEF HalfSuffices
  <2> QED BY ONLY <2>1
<1>15. Turned(d, k)
  <2>1. /\ NextIsn(e) = n.o /\ n.o = Origin(e)
        /\ d = [ToSend(InitSeqnos(c, NextIsn(e)), SynPkt(ack), TRUE) EXCEPT !.state = s]
    BY <1>4, <1>9, <1>11
  <2>2. /\ ack \in BOOLEAN /\ Blank(c) /\ (ack \/ c.known)
        /\ s = IF ack THEN TCP_SYN_RCVD ELSE TCP_SYN_SENT
    OBVIOUS
  <2> QED BY ONLY <1>6, <1>7, <1>11, <1>12, <1>13, <1>14, <2>1, <2>2, OpeningMeasured
<1>16. PICK j \in Limits : Onto(k, j) /\ Measured(d, j)
  BY ONLY <1>15 DEF Turned
<1>17. PICK x : x = [d EXCEPT !.tx = {}]
  OBVIOUS
<1>18. Measured(x, j)
  BY ONLY <1>16, <1>17, TxMeasured
<1>19. PICK tx : tx = d.tx
  OBVIOUS
<1>20. tx \subseteq Gives(j)
  BY ONLY <1>16, <1>19 DEF Measured
<1>21. opens'[f] = opens[f] /\ opens'[e] # <<>>
  <2>1. DOMAIN opens = Ends
    BY DEF Bounded
  <2>2. opens'[e] = Append(<<>>, written[e])
    BY <1>3, <2>1
  <2>3. Append(<<>>, written[e]) # <<>>
    OBVIOUS
  <2> QED BY <1>2, <2>1, <2>2, <2>3
<1>22. stream' = [stream EXCEPT ![e] = x]
  BY <1>17
<1>23. /\ OpensOnce /\ Bounded /\ HonestInv /\ PaceInv /\ e \in Ends
       /\ net'[e] \subseteq net[e] /\ net'[f] \subseteq net[f] \cup tx
  BY <1>once, <1>1, <1>19
<1> QED BY ONLY <1>1, <1>5, <1>16, <1>18, <1>20, <1>21, <1>22, <1>23, PaceStep

LEMMA ConnectPace ==
  ASSUME HalfSuffices, Bounded, Bounded', HonestInv, ReceiptInv, PaceInv,
         NEW e \in Ends, Connect(e)
  PROVE  PaceInv'
<1> DEFINE yes == TRUE
<1>1. PICK c : c = [stream[e] EXCEPT !.known = yes]
  OBVIOUS
<1>2. stream[e] \in TypedStream /\ c \in TypedStream
  BY <1>1, KnownType DEF Bounded
<1>3. yes
  OBVIOUS
<1>4. /\ IF c.state = TCP_CLOSED
           THEN /\ MayOpen(e)
                /\ opens' = [opens EXCEPT ![e] = Append(@, written[e])]
                /\ Update(e, [ToSend(InitSeqnos(c, NextIsn(e)), SynPkt(FALSE), TRUE)
                                EXCEPT !.state = TCP_SYN_SENT])
           ELSE Update(e, c) /\ UNCHANGED <<opens, received>>
  BY <1>1 DEF Connect
<1> HIDE DEF yes
<1>5. /\ c.state = stream[e].state /\ c.known = yes
      /\ c.inQueue = stream[e].inQueue /\ c.outQueue = stream[e].outQueue
      /\ c.inPkt = stream[e].inPkt /\ c.outPkt = stream[e].outPkt
      /\ c.tx = stream[e].tx
  BY <1>1, <1>2, TypedParts DEF Fields
<1>once. OpensOnce
  BY DEF HalfSuffices
<1>6. CASE c.state = TCP_CLOSED
  <2>1. PICK d : d = [ToSend(InitSeqnos(c, NextIsn(e)), SynPkt(FALSE), TRUE)
                        EXCEPT !.state = TCP_SYN_SENT]
    OBVIOUS
  <2>2. /\ MayOpen(e)
        /\ opens' = [opens EXCEPT ![e] = Append(@, written[e])]
        /\ Update(e, d)
    BY <1>4, <1>6, <2>1
  <2>3. Blank(c)
    BY <1>once, <1>2, <1>5, <2>2, NotOpened DEF Blank
  <2>4. /\ stream' = [stream EXCEPT ![e] = [d EXCEPT !.tx = {}]]
        /\ net' = [net EXCEPT ![Peer(e)] = @ \cup d.tx]
    BY <2>2 DEF Update
  <2>5. net'[e] \subseteq net[e] /\ net'[Peer(e)] \subseteq net[Peer(e)] \cup d.tx
    BY <2>4, NetGrows
  <2>6. PICK ack : ack = FALSE
    OBVIOUS
  <2>7. PICK s : s = TCP_SYN_SENT
    OBVIOUS
  <2>8. /\ ack \in BOOLEAN /\ (ack \/ c.known)
        /\ ack => /\ Before(c.inAckno, Origin(Peer(e))) = 1
                  /\ 1 <= Top(Peer(e)) /\ TRUE \notin Kinds(Peer(e))
        /\ s = IF ack THEN TCP_SYN_RCVD ELSE TCP_SYN_SENT
        /\ d = [ToSend(InitSeqnos(c, NextIsn(e)), SynPkt(ack), TRUE) EXCEPT !.state = s]
    BY <1>3, <1>5, <2>1, <2>6, <2>7
  <2>9. /\ HalfSuffices /\ Bounded /\ HonestInv /\ ReceiptInv /\ PaceInv /\ e \in Ends
    OBVIOUS
  <2> QED BY ONLY <2>2, <2>3, <2>4, <2>5, <2>8, <2>9, OpenPace
<1>7. CASE c.state # TCP_CLOSED
  <2>1. Update(e, c) /\ opens' = opens
    BY <1>4, <1>7
  <2>2. c.tx = {}
    BY <1>5 DEF HonestInv
  <2>3. c = [c EXCEPT !.tx = {}]
    BY <1>2, <2>2, NothingSent
  <2>4. /\ stream' = [stream EXCEPT ![e] = [c EXCEPT !.tx = {}]]
        /\ net' = [net EXCEPT ![Peer(e)] = @ \cup c.tx]
    BY <2>1 DEF Update
  <2>5. net' = net
    BY <2>2, <2>4 DEF Bounded
  <2>6. stream' = [stream EXCEPT ![e] = [stream[e] EXCEPT !.known = TRUE]]
    BY <1>1, <2>3, <2>4 DEF yes
  <2> QED BY <1>once, <2>1, <2>5, <2>6, KnownPace
<1> QED BY <1>6, <1>7

(* A packet that finds a closed stream, and does not open it, changes      *)
(* nothing.                                                                *)
LEMMA ClosedIgnores ==
  ASSUME NEW c, c.state = TCP_CLOSED, NEW p, ~TakesIsn(c, p), NEW isn
  PROVE  HandleIncoming(c, p, isn) = c
<1>1. ~(p.syn /\ ~p.ack)
  BY DEF TakesIsn
<1>2. IncomingClosed(c, p, isn) = c
  BY ONLY <1>1 DEF IncomingClosed
<1>3. c.state \in {TCP_CLOSED, TCP_LISTEN}
  OBVIOUS
<1>4. HandleIncoming(c, p, isn) = IncomingClosed(c, p, isn)
  BY ONLY <1>3, States DEF HandleIncoming
<1> QED BY <1>2, <1>4

LEMMA RecvPktPace ==
  ASSUME HalfSuffices, Bounded, HonestInv, ReceiptInv, PaceInv,
         NEW e \in Ends, NEW p \in net[e], NEW again \in BOOLEAN, RecvPkt(e, p, again)
  PROVE  PaceInv'
<1> DEFINE genSeq == TakesIsn(stream[e], p)
           isn == IF genSeq THEN NextIsn(e) ELSE 0
           c == HandleIncoming(stream[e], p, isn)
<1>1. /\ stream' = [stream EXCEPT ![e] = [c EXCEPT !.tx = {}]]
      /\ net' = [net EXCEPT ![Peer(e)] = @ \cup c.tx,
                            ![e] = IF again THEN @ ELSE @ \ {p}]
      /\ opens' = [opens EXCEPT ![e] = IF genSeq THEN Append(@, written[e]) ELSE @]
      /\ genSeq => MayOpen(e)
  BY DEF RecvPkt
<1> HIDE DEF c
<1>2. net'[e] \subseteq net[e] /\ net'[Peer(e)] \subseteq net[Peer(e)] \cup c.tx
  <2>1. DOMAIN net = Ends /\ Peer(e) \in Ends /\ Peer(e) # e
    BY PeerIsEnd DEF Bounded
  <2> QED BY <1>1, <2>1
<1>once. OpensOnce
  BY DEF HalfSuffices
<1>3. PICK m : m = MarksOf(e)
  OBVIOUS
<1>4. /\ m \in Marks /\ m.po = Origin(Peer(e)) /\ m.top = Top(Peer(e))
      /\ m.pkinds = Kinds(Peer(e))
  BY <1>once, <1>3, MarksType
<1>5. p \in PeerPackets(m) /\ p \in ShortPacket
  BY <1>3 DEF ReceiptInv, Bounded
<1>6. p.syn => p.ack \in Kinds(Peer(e))
  <2>1. Peer(e) \in Ends /\ Peer(Peer(e)) = e
    BY PeerIsEnd
  <2>2. stream[Peer(e)].outPkt \in Seq(ShortOut)
    BY <2>1 DEF Bounded, TypedStream
  <2> QED BY <2>1, <2>2, SynKindsAre DEF Kinds
<1>7. CASE genSeq
  <2>1. MayOpen(e) /\ p.syn /\ ~p.ack
    BY <1>1, <1>7 DEF TakesIsn
  <2>2. stream[e].state = TCP_CLOSED /\ Blank(stream[e])
    BY <1>once, <2>1, NotOpened
  <2>3. c = HandleIncoming(stream[e], p, NextIsn(e))
    BY <1>7 DEF c
  <2>4. PICK d : /\ Blank(d) /\ d.inAckno = SeqAdd(p.seqno, 1)
                 /\ c = [ToSend(InitSeqnos(d, NextIsn(e)), SynPkt(TRUE), TRUE)
                           EXCEPT !.state = TCP_SYN_RCVD]
    <3>1. PICK d : /\ Blank(d) /\ d.inAckno = SeqAdd(p.seqno, 1)
                   /\ HandleIncoming(stream[e], p, NextIsn(e)) =
                        [ToSend(InitSeqnos(d, NextIsn(e)), SynPkt(TRUE), TRUE)
                           EXCEPT !.state = TCP_SYN_RCVD]
      BY ONLY ZenonT(60), <1>5, <2>1, <2>2, AnsweredSyn
    <3> QED BY ONLY <2>3, <3>1
  <2>5. Before(d.inAckno, Origin(Peer(e))) = 1 /\ 1 <= Top(Peer(e))
    BY <1>4, <1>5, <2>1, <2>4, SynHeard
  <2>6. TRUE \notin Kinds(Peer(e))
    <3>1. p.ack \in BOOLEAN
      BY <1>5, ShortPacketParts
    <3>2. FALSE \in Kinds(Peer(e))
      BY <1>6, <2>1, <3>1
    <3>3. Kinds(Peer(e)) \in {{}, {TRUE}, {FALSE}}
      BY PeerIsEnd DEF ReceiptInv
    <3> QED BY <3>2, <3>3
  <2>7. PICK ack : ack = TRUE
    OBVIOUS
  <2>8. PICK s : s = TCP_SYN_RCVD
    OBVIOUS
  <2>9. PICK x : x = c
    OBVIOUS
  <2>10. /\ stream' = [stream EXCEPT ![e] = [x EXCEPT !.tx = {}]]
         /\ opens' = [opens EXCEPT ![e] = Append(@, written[e])]
    BY <1>1, <1>7, <2>9
  <2>11. x = [ToSend(InitSeqnos(d, NextIsn(e)), SynPkt(ack), TRUE) EXCEPT !.state = s]
    BY <2>4, <2>7, <2>8, <2>9
  <2>12. /\ ack \in BOOLEAN /\ (ack \/ d.known)
         /\ s = IF ack THEN TCP_SYN_RCVD ELSE TCP_SYN_SENT
    BY <2>7, <2>8
  <2>13. net'[e] \subseteq net[e] /\ net'[Peer(e)] \subseteq net[Peer(e)] \cup x.tx
    BY <1>2, <2>9
  <2>14. /\ HalfSuffices /\ Bounded /\ HonestInv /\ ReceiptInv /\ PaceInv /\ e \in Ends
    OBVIOUS
  <2> QED BY ONLY <2>1, <2>4, <2>5, <2>6, <2>10, <2>11, <2>12, <2>13, <2>14, OpenPace
<1>8. CASE ~genSeq
  <2>1. opens' = opens
    BY <1>1, <1>8 DEF Bounded
  <2>2. PICK c0 : c0 = stream[e]
    OBVIOUS
  <2>3. PICK k : k = LimitsOf(e)
    OBVIOUS
  <2>4. PICK x : x = c
    OBVIOUS
  <2>5. x = HandleIncoming(c0, p, isn) /\ ~TakesIsn(c0, p)
    BY <1>8, <2>2, <2>4 DEF c
  <2>6. k \in Limits /\ Matching(k, m) /\ Measured(c0, k) /\ p \in Takes(k)
    <3>1. p \in Takes(k)
      BY <2>3 DEF PaceInv
    <3> QED BY <1>once, <1>3, <2>2, <2>3, <3>1, LimitsType, LimitsMatch
  <2>7. PICK j \in Limits : /\ Onto(k, j) /\ Measured(x, j)
                            /\ opens[e] = <<>> => j = k
    <3>1. CASE c0.state = TCP_CLOSED
      <4>1. x = c0
        BY ONLY <2>5, <3>1, ClosedIgnores
      <4> QED BY <2>6, <4>1, OntoItself
    <3>2. CASE c0.state # TCP_CLOSED
      <4>1. opens[e] # <<>>
        BY <2>2, <3>2, MuteIs
      <4>2. Since(c0, c0, m)
        BY <1>once, <1>3, <2>2, SinceNow
      <4>3. /\ c0.state \notin {TCP_LISTEN, TCP_TIMED_WAIT}
            /\ ~Opened(c0) => c0.outQueue = <<>>
        BY <2>2 DEF HonestInv, SendsHonest, ReceivesHonest
      <4>4. p.syn => p.ack \in m.pkinds
        BY <1>4, <1>6
      <4>5. 2 < SeqMod
        <5>1. MaxBytes \in Nat /\ SeqMod \in Nat /\ 2 * (MaxBytes + 1) < SeqMod
          BY BoundsAssumption, Sizes DEF HalfSuffices
        <5> QED BY ONLY <5>1
      <4>6. Turned(x, k)
        BY ONLY <1>4, <1>5, <2>5, <2>6, <4>2, <4>3, <4>4, <4>5, HandleIncomingMeasured
      <4> QED BY <4>1, <4>6 DEF Turned
    <3> QED BY <3>1, <3>2
  <2>8. /\ stream' = [stream EXCEPT ![e] = [x EXCEPT !.tx = {}]]
        /\ net'[e] \subseteq net[e] /\ net'[Peer(e)] \subseteq net[Peer(e)] \cup x.tx
    BY <1>1, <1>2, <2>4
  <2>9. /\ OpensOnce /\ Bounded /\ HonestInv /\ PaceInv /\ e \in Ends
        /\ Onto(LimitsOf(e), j) /\ Measured(x, j)
        /\ opens[e] = <<>> => j = LimitsOf(e)
    BY <1>once, <2>3, <2>7
  <2> QED BY ONLY <2>1, <2>8, <2>9, UpdatePace
<1> QED BY <1>7, <1>8

LEMMA InitPace == OpensOnce /\ Init => PaceInv
<1> SUFFICES ASSUME OpensOnce, Init PROVE PaceInv
  OBVIOUS
<1>1. ASSUME NEW e \in Ends
      PROVE  Measured(stream[e], LimitsOf(e)) /\ net[e] \subseteq Takes(LimitsOf(e))
  <2>1. stream[e] = NewStream /\ net[e] = {}
    BY DEF Init
  <2>2. stream[e] \in TypedStream
    BY InitBounded DEF Bounded
  <2>3. /\ ~Live(stream[e]) /\ stream[e].inPkt = <<>> /\ stream[e].tx = {}
    BY <2>1, NewStreamFields, LiveStates
  <2>4. stream[e].tx \subseteq Gives(LimitsOf(e))
    BY <2>3
  <2>5. Measured(stream[e], LimitsOf(e))
    BY <2>2, <2>3, <2>4, ClosedMeasured
  <2> QED BY <2>1, <2>5
<1> QED BY <1>1 DEF PaceInv

LEMMA NextPace ==
  ASSUME HalfSuffices, Bounded, Bounded', HonestInv, ReceiptInv, PaceInv, [Next]_vars
  PROVE  PaceInv'
<1>once. OpensOnce
  BY DEF HalfSuffices
<1>1. ASSUME NEW e \in Ends, AddUdpPeer(e) PROVE PaceInv'
  BY <1>once, <1>1, DropPace DEF AddUdpPeer
<1>2. ASSUME NEW e \in Ends, Connect(e) PROVE PaceInv'
  BY <1>2, ConnectPace
<1>3. ASSUME NEW e \in Ends, ListenFor(e) PROVE PaceInv'
  <2>1. stream' = [stream EXCEPT ![e] = [stream[e] EXCEPT !.known = TRUE]]
    BY <1>3 DEF ListenFor
  <2> QED BY <1>once, <1>3, <2>1, KnownPace DEF ListenFor
<1>4. ASSUME NEW e \in Ends, NEW size \in WriteSizes, Write(e, size) PROVE PaceInv'
  BY <1>once, <1>4, WritePace
<1>5. ASSUME NEW e \in Ends, NEW size \in ReadSizes, Read(e, size) PROVE PaceInv'
  BY <1>once, <1>5, ReadPace
<1>6. ASSUME NEW e \in Ends, CloseWrite(e) PROVE PaceInv'
  BY <1>once, <1>6, CloseWritePace
<1>7. ASSUME NEW e \in Ends, NEW t \in Timeouts, Tick(e, t) PROVE PaceInv'
  BY <1>7, TickPace
<1>8. ASSUME NEW e \in Ends, NEW t \in Timeouts, Close(e, t) PROVE PaceInv'
  BY <1>8, ClosePace
<1>9. ASSUME NEW e \in Ends, NEW p \in net[e], NEW again \in BOOLEAN, RecvPkt(e, p, again)
      PROVE  PaceInv'
  BY <1>9, RecvPktPace
<1>10. ASSUME NEW e \in Ends, NEW p, UNCHANGED <<stream, opens>>,
              net' = [net EXCEPT ![e] = @ \ {p}]
       PROVE  PaceInv'
  <2>1. net'[e] \subseteq net[e] /\ net'[Peer(e)] \subseteq net[Peer(e)]
    BY <1>10, PeerIsEnd DEF Bounded
  <2> QED BY <1>once, <1>10, <2>1, DropPace
<1>11. ASSUME NEW e \in Ends, NEW p \in net[e], Unclaimed(e, p) PROVE PaceInv'
  BY <1>10, <1>11 DEF Unclaimed
<1>12. ASSUME NEW e \in Ends, NEW p \in net[e], Lose(e, p) PROVE PaceInv'
  BY <1>10, <1>12 DEF Lose
<1>13. CASE UNCHANGED vars
  <2>1. 1 \in Ends /\ UNCHANGED <<stream, net, opens>>
    BY <1>13 DEF vars, Ends
  <2> QED BY <1>once, <2>1, DropPace
<1> QED BY <1>1, <1>2, <1>3, <1>4, <1>5, <1>6, <1>7, <1>8, <1>9, <1>11, <1>12, <1>13
        DEF Next

(***************************************************************************)
(* The buffer is bounded, and the windows are kept                         *)
(***************************************************************************)

(* All that waits to be read came within the room there was.               *)
LEMMA QueueBounded ==
  ASSUME HonestInv, PaceInv, NEW e \in Ends
  PROVE  Len(stream[e].outQueue) <= 2 * MaxWin + Slack
<1>1. CASE Heard(stream[e])
  BY <1>1 DEF PaceInv, Measured, Incoming
<1>2. CASE ~Heard(stream[e])
  <2>1. ~Opened(stream[e])
    BY <1>2, LiveStates
  <2>2. stream[e].outQueue = <<>>
    BY <2>1 DEF HonestInv, ReceivesHonest
  <2> QED BY <2>2, SlackIs, Sizes
<1> QED BY <1>1, <1>2

(* A tick that sends new data does so within both windows.                 *)
LEMMA TickWithin ==
  ASSUME HalfSuffices, NeverRollsOver, Bounded, HonestInv, ReceiptInv, PaceInv,
         NEW e \in Ends, NEW t, Tick(e, t), stream'[e].outSeqno # stream[e].outSeqno
  PROVE  InWindows(stream'[e])
<1> DEFINE none == {}
<1>1. PICK c : c = TickStream(stream[e], t)
  OBVIOUS
<1>2. PICK k : k = LimitsOf(e)
  OBVIOUS
<1>3. Paces(c, stream[e], k)
  BY <1>1, <1>2, TickPaces
<1>4. c \in TypedStream
  BY <1>3 DEF Paces, Onward, Measured
<1>5. PICK d : d = [c EXCEPT !.tx = none]
  OBVIOUS
<1>6. stream'[e] = d
  BY <1>1, <1>5 DEF Tick, Update, Bounded
<1> HIDE DEF none
<1>7. /\ d.outSeqno = c.outSeqno /\ d.outAcked = c.outAcked
      /\ d.outWin = c.outWin /\ d.congestWin = c.congestWin
  BY ONLY <1>4, <1>5, TypedParts DEF Fields
<1>8. Onward(c, k)
  BY <1>3, <1>6, <1>7 DEF Paces
<1>9. InWindows(c)
  BY <1>8 DEF Onward
<1> QED BY ONLY <1>6, <1>7, <1>9 DEF InWindows

LEMMA PaceKept ==
  ASSUME HalfSuffices
  PROVE  /\ Init => Bounded /\ HonestInv /\ ReceiptInv /\ PaceInv
         /\ Bounded /\ HonestInv /\ ReceiptInv /\ PaceInv /\ [Next]_vars
              => Bounded' /\ HonestInv' /\ ReceiptInv' /\ PaceInv'
<1>once. OpensOnce /\ NumbersSuffice
  BY HalfIsEnough DEF HalfSuffices
<1>1. Init => Bounded /\ HonestInv /\ ReceiptInv /\ PaceInv
  BY <1>once, InitBounded, InitHonest, InitReceipt, InitPace
<1>2. ASSUME Bounded, HonestInv, ReceiptInv, PaceInv, [Next]_vars
      PROVE  Bounded' /\ HonestInv' /\ ReceiptInv' /\ PaceInv'
  <2>1. Bounded' /\ HonestInv' /\ ReceiptInv'
    BY <1>once, <1>2, NextBounded, NextHonest, NextReceipt
  <2> QED BY <1>2, <2>1, NextPace
<1> QED BY <1>1, <1>2

(* Flow control: the windows that UpdateInWinSize announces keep what      *)
(* waits to be read to two of them, although they are announced again and  *)
(* again, in packets that overtake one another and are repeated, as long   *)
(* as no stream's numbers roll over.                                       *)
THEOREM StreamBufferBounded ==
  HalfSuffices /\ NeverRollsOver => (Spec => []BufferBounded)
<1> SUFFICES ASSUME HalfSuffices, NeverRollsOver PROVE Spec => []BufferBounded
  OBVIOUS
<1>1. /\ Init => Bounded /\ HonestInv /\ ReceiptInv /\ PaceInv
      /\ Bounded /\ HonestInv /\ ReceiptInv /\ PaceInv /\ [Next]_vars
           => Bounded' /\ HonestInv' /\ ReceiptInv' /\ PaceInv'
  BY PaceKept
<1>2. HonestInv /\ PaceInv => BufferBounded
  <2> SUFFICES ASSUME HonestInv, PaceInv, NEW e \in Ends
               PROVE  Len(stream[e].outQueue) <= 2 * MaxWin
    BY DEF BufferBounded
  <2>1. Slack = 0 /\ 2 * MaxWin + 0 = 2 * MaxWin
    BY Sizes DEF Slack
  <2> QED BY <2>1, QueueBounded
<1> QED BY <1>1, <1>2, PTL DEF Spec

(* Where numbers do roll over, InTransit takes TCP_MAX_SEQ for their       *)
(* modulus, and one byte more than that may wait.                          *)
THEOREM StreamBufferBoundedByOneMore ==
  HalfSuffices => (Spec => [](\A e \in Ends : Len(stream[e].outQueue) <= 2 * MaxWin + 1))
<1> SUFFICES ASSUME HalfSuffices
             PROVE  Spec => [](\A e \in Ends : Len(stream[e].outQueue) <= 2 * MaxWin + 1)
  OBVIOUS
<1>1. /\ Init => Bounded /\ HonestInv /\ ReceiptInv /\ PaceInv
      /\ Bounded /\ HonestInv /\ ReceiptInv /\ PaceInv /\ [Next]_vars
           => Bounded' /\ HonestInv' /\ ReceiptInv' /\ PaceInv'
  BY PaceKept
<1>2. Bounded /\ HonestInv /\ PaceInv
        => \A e \in Ends : Len(stream[e].outQueue) <= 2 * MaxWin + 1
  <2> SUFFICES ASSUME Bounded, HonestInv, PaceInv, NEW e \in Ends
               PROVE  Len(stream[e].outQueue) <= 2 * MaxWin + 1
    OBVIOUS
  <2>1. PICK q \in Nat : q = Len(stream[e].outQueue)
    BY DEF Bounded, TypedStream
  <2>2. q <= 2 * MaxWin + Slack
    BY <2>1, QueueBounded
  <2>3. q <= 2 * MaxWin + 1
    BY ONLY <2>2, SlackIs, Sizes, q \in Nat
  <2> QED BY <2>1, <2>3
<1> QED BY <1>1, <1>2, PTL DEF Spec

(* A tick that sends new data leaves no more in transit than the receiver  *)
(* granted and the congestion window allows, whatever acknowledgements and *)
(* windows have been taken from packets out of order, as long as no        *)
(* stream's numbers roll over.                                             *)
THEOREM StreamSendsWithinWindows ==
  HalfSuffices /\ NeverRollsOver => (Spec => SendsWithinWindows)
<1> SUFFICES ASSUME HalfSuffices, NeverRollsOver PROVE Spec => SendsWithinWindows
  OBVIOUS
<1> DEFINE SentWithin == \A e \in Ends :
             LET d == stream'[e]
                 transit == SeqSub(d.outSeqno, d.outAcked)
             IN  /\ \E t \in Timeouts : Tick(e, t)
                 /\ d.outSeqno # stream[e].outSeqno
                 => transit <= d.outWin /\ transit <= d.congestWin
<1>1. /\ Init => Bounded /\ HonestInv /\ ReceiptInv /\ PaceInv
      /\ Bounded /\ HonestInv /\ ReceiptInv /\ PaceInv /\ [Next]_vars
           => Bounded' /\ HonestInv' /\ ReceiptInv' /\ PaceInv'
  BY PaceKept
<1>2. Bounded /\ HonestInv /\ ReceiptInv /\ PaceInv /\ [Next]_vars => [SentWithin]_vars
  <2> SUFFICES ASSUME Bounded, HonestInv, ReceiptInv, PaceInv, NEW e \in Ends,
                      NEW t \in Timeouts, Tick(e, t),
                      stream'[e].outSeqno # stream[e].outSeqno
               PROVE  /\ SeqSub(stream'[e].outSeqno, stream'[e].outAcked)
                           <= stream'[e].outWin
                      /\ SeqSub(stream'[e].outSeqno, stream'[e].outAcked)
                           <= stream'[e].congestWin
    OBVIOUS
  <2>1. InWindows(stream'[e])
    BY TickWithin
  <2> QED BY <2>1 DEF InWindows
<1>3. Spec => [][SentWithin]_vars
  <2> HIDE DEF SentWithin
  <2> QED BY <1>1, <1>2, PTL DEF Spec
<1> QED BY <1>3 DEF SendsWithinWindows

=============================================================================
