--------------------------- MODULE TcpStreamProofs ---------------------------
(***************************************************************************)
(* Theorems about TcpStream: its types, that what is delivered has no gaps,*)
(* and that the end of the stream is its last byte.                        *)
(*                                                                         *)
(* The first part bounds the values of one stream through every operator   *)
(* of the model (invariant Bounded).  The second follows the bytes: an     *)
(* operator maps a stream that is Fine in its surroundings to one that is  *)
(* Fine, and so a step keeps HonestInv, the invariant that ties the two    *)
(* streams and the packets between them together.                          *)
(***************************************************************************)
EXTENDS TcpStream, SequenceTheorems, WellFoundedInduction, TLAPS

(***************************************************************************)
(* Loops                                                                   *)
(***************************************************************************)

(* A set of numbers that 0 and every successor belong to.                  *)
LEMMA SetInduction ==
  ASSUME NEW T, T \subseteq Nat, 0 \in T, \A n \in Nat : n \in T => n + 1 \in T
  PROVE  T = Nat
<1> DEFINE U == {n \in Nat : n \notin T}
<1>1. SUFFICES ASSUME U # {} PROVE FALSE
  OBVIOUS
<1>2. PICK x \in U : \A y \in U : ~ (<<y, x>> \in OpToRel(<, Nat))
  <2>1. U \subseteq Nat
    OBVIOUS
  <2> QED BY <1>1, <2>1, NatLessThanWellFounded, WFMin
<1>3. x # 0 /\ x \in Nat
  OBVIOUS
<1>4. x - 1 \in Nat /\ x - 1 < x
  BY <1>3
<1>5. x - 1 \notin T
  BY <1>3, <1>4
<1>6. <<x - 1, x>> \in OpToRel(<, Nat)
  BY <1>3, <1>4 DEF OpToRel
<1> QED BY <1>2, <1>4, <1>5, <1>6

(* f holds what comes of a when the L steps are taken one after the other. *)
Iterates(f, L, a, step) ==
    f[0] = a /\ \A i \in 1 .. L : f[i] = step[i][f[i - 1]]

(* Repeating a step L times, starting from a: there is a function that     *)
(* holds the results.                                                      *)
LEMMA Iteration ==
  ASSUME NEW S, NEW L \in Nat, NEW a \in S, NEW step \in [1 .. L -> [S -> S]]
  PROVE  \E f \in [0 .. L -> S] : Iterates(f, L, a, step)
<1> DEFINE Does(n, f) == f[0] = a /\ \A i \in 1 .. n : f[i] = step[i][f[i - 1]]
           T == {n \in Nat : n <= L => \E f \in [0 .. n -> S] : Does(n, f)}
<1>1. 0 \in T
  <2>1. [i \in 0 .. 0 |-> a] \in [0 .. 0 -> S] /\ Does(0, [i \in 0 .. 0 |-> a])
    OBVIOUS
  <2> QED BY <2>1
<1>2. \A n \in Nat : n \in T => n + 1 \in T
  <2> SUFFICES ASSUME NEW n \in Nat, n \in T, n + 1 <= L
               PROVE  \E f \in [0 .. n + 1 -> S] : Does(n + 1, f)
    <3> HIDE DEF Does
    <3> QED OBVIOUS
  <2>1. n <= L
    OBVIOUS
  <2>2. PICK f \in [0 .. n -> S] : Does(n, f)
    BY <2>1
  <2> DEFINE g == [i \in 0 .. n + 1 |-> IF i <= n THEN f[i] ELSE step[i][f[n]]]
  <2>3. f[n] \in S /\ n + 1 \in 1 .. L
    BY <2>2
  <2>4. step[n + 1][f[n]] \in S
    BY <2>3
  <2>5. g \in [0 .. n + 1 -> S]
    BY <2>2, <2>4
  <2>6. \A i \in 1 .. n : g[i] = step[i][g[i - 1]]
    BY <2>2
  <2>7. g[n + 1] = step[n + 1][g[n]]
    OBVIOUS
  <2>8. g[0] = a
    BY <2>2
  <2>9. Does(n + 1, g)
    <3>1. \A i \in 1 .. n + 1 : i \in 1 .. n \/ i = n + 1
      OBVIOUS
    <3>2. n + 1 - 1 = n
      OBVIOUS
    <3>3. \A i \in 1 .. n + 1 : g[i] = step[i][g[i - 1]]
      <4> HIDE DEF g
      <4> TAKE i \in 1 .. n + 1
      <4>1. CASE i \in 1 .. n
        BY <2>6, <4>1
      <4>2. CASE i = n + 1
        <5>1. i - 1 = n
          BY <4>2
        <5> QED BY <2>7, <4>2, <5>1
      <4> QED BY <3>1, <4>1, <4>2
    <3> QED BY <2>8, <3>3
  <2> QED BY <2>5, <2>9
<1>3. T = Nat
  <2> HIDE DEF T
  <2>1. T \subseteq Nat
    BY DEF T
  <2> QED BY <1>1, <1>2, <2>1, SetInduction
<1> QED BY <1>3 DEF Iterates

(* Such a function stays in every set it starts in and each step stays in. *)
LEMMA IterationStays ==
  ASSUME NEW S, NEW L \in Nat, NEW f, f[0] \in S,
         \A i \in 1 .. L : f[i - 1] \in S => f[i] \in S
  PROVE  f[L] \in S
<1> DEFINE T == {n \in Nat : n <= L => f[n] \in S}
<1>1. 0 \in T
  OBVIOUS
<1>2. \A n \in Nat : n \in T => n + 1 \in T
  <2> SUFFICES ASSUME NEW n \in Nat, n \in T, n + 1 <= L PROVE f[n + 1] \in S
    OBVIOUS
  <2>1. n <= L /\ n + 1 \in 1 .. L /\ (n + 1) - 1 = n
    OBVIOUS
  <2> QED BY <2>1
<1>3. T = Nat
  <2> HIDE DEF T
  <2>1. T \subseteq Nat
    BY DEF T
  <2> QED BY <1>1, <1>2, <2>1, SetInduction
<1> QED BY <1>3

(* The loop of check_InPkts: what every turn preserves, the loop preserves.*)
LEMMA ConsumeAllStays ==
  ASSUME NEW S, NEW c \in S, Len(c.inPkt) \in Nat, 
         \A x \in S : ConsumeNext(x) \in S
  PROVE  ConsumeAll(c) \in S
<1> DEFINE L == Len(c.inPkt)
           Loop(f) == [i \in 0 .. L |-> IF i = 0 THEN c ELSE ConsumeNext(f[i - 1])]
           step == [i \in 1 .. L |-> [x \in S |-> ConsumeNext(x)]]
           loop == CHOOSE f : f = Loop(f)
<1>0. L \in Nat
  OBVIOUS
<1>1. step \in [1 .. L -> [S -> S]]
  OBVIOUS
<1>2. PICK f \in [0 .. L -> S] : Iterates(f, L, c, step)
  <2> HIDE DEF step, L
  <2> QED BY <1>0, <1>1, Iteration
<1>3. f = Loop(f)
  <2>0. \A i \in 1 .. L : i - 1 \in 0 .. L
    BY <1>0
  <2>1. \A i \in 1 .. L : f[i] = ConsumeNext(f[i - 1])
    BY <1>2, <2>0 DEF Iterates
  <2>2. \A i \in 0 .. L : f[i] = Loop(f)[i]
    BY <1>2, <2>1 DEF Iterates
  <2> QED BY <2>2
<1>4. loop = Loop(loop)
  <2> HIDE DEF Loop
  <2> QED BY <1>3
<1>5. ConsumeAll(c) = loop[L]
  BY DEF ConsumeAll
<1>6. loop[0] \in S /\ \A i \in 1 .. L : loop[i - 1] \in S => loop[i] \in S
  <2> HIDE DEF loop
  <2>1. loop[0] = c /\ \A i \in 1 .. L : loop[i] = ConsumeNext(loop[i - 1])
    BY SMTT(30), <1>4
  <2> QED BY <2>1
<1> QED
  <2> HIDE DEF loop
  <2> QED BY <1>5, <1>6, IterationStays

(***************************************************************************)
(* Types                                                                   *)
(***************************************************************************)

(* What is known of a stream besides its type: no packet carries more than *)
(* a full segment, and the congestion window is never more than maxWinSize.*)
ShortPacket == {p \in Packet : Len(p.data) <= MaxSeg}
ShortOut == [pkt : ShortPacket, retrans : Nat]

TypedStream ==
    [state : 0 .. 10, known : BOOLEAN,
     inActive : BOOLEAN, outActive : BOOLEAN,
     outSeqno : SeqNum, outAcked : SeqNum, outWin : Nat,
     inAckno : SeqNum, inWin : Nat,
     initOur : SeqNum, initPeer : SeqNum,
     timerOn : BOOLEAN, lastAck : SeqNum, lastWin : Nat,
     congestThreshold : Nat, congestWin : 0 .. MaxWin, congestUpdate : SeqNum,
     inQueue : Seq(Byte), outQueue : Seq(Byte),
     inPkt : Seq(ShortPacket), outPkt : Seq(ShortOut),
     tx : SUBSET ShortPacket]

(* A stream is the record of its fields.                                   *)
Fields(c) ==
    [state |-> c.state, known |-> c.known,
     inActive |-> c.inActive, outActive |-> c.outActive,
     outSeqno |-> c.outSeqno, outAcked |-> c.outAcked, outWin |-> c.outWin,
     inAckno |-> c.inAckno, inWin |-> c.inWin,
     initOur |-> c.initOur, initPeer |-> c.initPeer,
     timerOn |-> c.timerOn, lastAck |-> c.lastAck, lastWin |-> c.lastWin,
     congestThreshold |-> c.congestThreshold, congestWin |-> c.congestWin,
     congestUpdate |-> c.congestUpdate,
     inQueue |-> c.inQueue, outQueue |-> c.outQueue,
     inPkt |-> c.inPkt, outPkt |-> c.outPkt, tx |-> c.tx]

(* The type of a stream in four parts.                                     *)
Switches(c) ==
    /\ c.state \in 0 .. 10
    /\ c.known \in BOOLEAN /\ c.timerOn \in BOOLEAN
    /\ c.inActive \in BOOLEAN /\ c.outActive \in BOOLEAN

Numbers(c) ==
    /\ c.outSeqno \in SeqNum /\ c.outAcked \in SeqNum /\ c.inAckno \in SeqNum
    /\ c.initOur \in SeqNum /\ c.initPeer \in SeqNum
    /\ c.lastAck \in SeqNum /\ c.congestUpdate \in SeqNum

Windows(c) ==
    /\ c.outWin \in Nat /\ c.inWin \in Nat /\ c.lastWin \in Nat
    /\ c.congestThreshold \in Nat /\ c.congestWin \in 0 .. MaxWin

Buffers(c) ==
    /\ c.inQueue \in Seq(Byte) /\ c.outQueue \in Seq(Byte)
    /\ c.inPkt \in Seq(ShortPacket) /\ c.outPkt \in Seq(ShortOut)
    /\ c.tx \in SUBSET ShortPacket

LEMMA TypedParts ==
  ASSUME NEW c \in TypedStream
  PROVE  c = Fields(c) /\ Switches(c) /\ Numbers(c) /\ Windows(c) /\ Buffers(c)
  BY DEF TypedStream, Fields, Switches, Numbers, Windows, Buffers

LEMMA PartsTyped ==
  ASSUME NEW c, c = Fields(c), Switches(c), Numbers(c), Windows(c), Buffers(c)
  PROVE  c \in TypedStream
  BY DEF TypedStream, Fields, Switches, Numbers, Windows, Buffers

LEMMA TypedIsStream == TypedStream \subseteq Stream
<1>1. Seq(ShortPacket) \subseteq Seq(Packet)
  BY SeqMonotonic DEF ShortPacket
<1>2. ShortOut \subseteq OutPacket
  BY DEF ShortOut, ShortPacket, OutPacket
<1>3. Seq(ShortOut) \subseteq Seq(OutPacket)
  BY <1>2, SeqMonotonic
<1>4. SUBSET ShortPacket \subseteq SUBSET Packet
  BY DEF ShortPacket
<1>5. 0 .. MaxWin \subseteq Nat
  OBVIOUS
<1> QED BY <1>1, <1>3, <1>4, <1>5 DEF TypedStream, Stream

LEMMA Sizes ==
  /\ SeqMod \in Nat /\ SeqMod > 1
  /\ MaxSeg \in Nat /\ MaxSeg > 0 /\ MaxWin \in Nat /\ MaxWin > 0
  /\ MaxSeg <= MaxWin /\ MaxWin + MaxSeg < SeqMod
  BY SeqModAssumption, SizesAssumption

LEMMA SeqAddType ==
  ASSUME NEW s \in SeqNum, NEW n \in 0 .. SeqMod
  PROVE  SeqAdd(s, n) \in SeqNum
  BY Sizes DEF SeqNum, SeqAdd

LEMMA SeqSubType ==
  ASSUME NEW s \in SeqNum, NEW t \in SeqNum
  PROVE  SeqSub(s, t) \in SeqNum
  BY Sizes DEF SeqNum, SeqSub

LEMMA NewStreamType == NewStream \in TypedStream
<1>1. 0 \in SeqNum
  BY Sizes DEF SeqNum
<1>2. MaxSeg \in 0 .. MaxWin /\ MaxWin \in Nat
  BY Sizes
<1>3. <<>> \in Seq(Byte) /\ <<>> \in Seq(ShortPacket) /\ <<>> \in Seq(ShortOut)
  OBVIOUS
<1> QED BY <1>1, <1>2, <1>3 DEF NewStream, TypedStream, TCP_CLOSED

LEMMA CleanupType ==
  ASSUME NEW c \in TypedStream
  PROVE  Cleanup(c) \in TypedStream
<1>1. PICK d : d = Cleanup(c)
  OBVIOUS
<1>2. c = Fields(c) /\ Switches(c) /\ Numbers(c) /\ Windows(c) /\ Buffers(c)
  BY TypedParts
<1>3. d = Fields(d)
  BY <1>1, <1>2 DEF Cleanup, Fields
<1>4. Switches(d)
  BY <1>1, <1>2 DEF Cleanup, Fields, Switches, TCP_CLOSED
<1>5. Numbers(d)
  BY <1>1, <1>2 DEF Cleanup, Fields, Numbers
<1>6. Windows(d)
  BY <1>1, <1>2 DEF Cleanup, Fields, Windows
<1>7. Buffers(d)
  BY <1>1, <1>2 DEF Cleanup, Fields, Buffers
<1> QED BY <1>1, <1>3, <1>4, <1>5, <1>6, <1>7, PartsTyped

(* What toSend is given: a SYN or a FIN carries no data.                   *)
Flags == [syn : BOOLEAN, fin : BOOLEAN, ack : BOOLEAN, data : Seq(Byte)]

LEMMA ToSendType ==
  ASSUME NEW c \in TypedStream, NEW pkt \in Flags, NEW retrans \in BOOLEAN,
         Len(pkt.data) <= MaxSeg
  PROVE  ToSend(c, pkt, retrans) \in TypedStream
<1> DEFINE p == [syn |-> pkt.syn, fin |-> pkt.fin, ack |-> pkt.ack,
                 seqno |-> c.outSeqno,
                 ackno |-> IF pkt.ack THEN c.inAckno ELSE 0,
                 win |-> c.inWin, data |-> pkt.data]
           out == [pkt |-> p, retrans |-> 0]
           q == IF retrans THEN Append(c.outPkt, out) ELSE c.outPkt
           s == SeqAdd(c.outSeqno, IF pkt.syn THEN 1 ELSE Len(pkt.data))
<1>1. CASE ~c.known
  BY <1>1 DEF ToSend
<1>2. CASE c.known
  <2>1. 0 \in SeqNum
    BY Sizes DEF SeqNum
  <2>2. p \in ShortPacket /\ p.ackno \in SeqNum /\ p.win \in Nat
    BY <2>1 DEF ShortPacket, Packet, Flags, TypedStream
  <2>3. out \in ShortOut
    <3> HIDE DEF p
    <3> QED BY <2>2 DEF ShortOut
  <2>4. q \in Seq(ShortOut)
    <3> HIDE DEF out
    <3>1. c.outPkt \in Seq(ShortOut)
      BY DEF TypedStream
    <3> QED BY <2>3, <3>1, AppendProperties
  <2>5. s \in SeqNum
    <3>1. Len(pkt.data) \in 0 .. SeqMod /\ 1 \in 0 .. SeqMod
      BY Sizes DEF Flags
    <3>2. c.outSeqno \in SeqNum
      BY DEF TypedStream
    <3> QED BY <3>1, <3>2, SeqAddType
  <2> DEFINE ack == p.ackno
             win == p.win
             tx == c.tx \cup {p}
             on == c.timerOn \/ retrans
  <2>6. ToSend(c, pkt, retrans) =
          [c EXCEPT !.outSeqno = s, !.lastAck = ack, !.lastWin = win,
                    !.tx = tx, !.timerOn = on, !.outPkt = q]
    BY <1>2 DEF ToSend
  <2>7. on \in BOOLEAN /\ tx \in SUBSET ShortPacket
    <3> HIDE DEF p
    <3> QED BY <2>2 DEF TypedStream
  <2>8. ack \in SeqNum /\ win \in Nat
    BY <2>2
  <2>9. c = Fields(c) /\ Switches(c) /\ Numbers(c) /\ Windows(c) /\ Buffers(c)
    BY TypedParts
  <2> HIDE DEF p, out, q, s, ack, win, tx, on
  <2>10. PICK d : d = ToSend(c, pkt, retrans)
    OBVIOUS
  <2>11. d = Fields(d)
    BY <2>6, <2>9, <2>10 DEF Fields
  <2>12. Switches(d)
    BY <2>6, <2>7, <2>9, <2>10 DEF Fields, Switches
  <2>13. Numbers(d)
    BY <2>5, <2>6, <2>8, <2>9, <2>10 DEF Fields, Numbers
  <2>14. Windows(d)
    BY <2>6, <2>8, <2>9, <2>10 DEF Fields, Windows
  <2>15. Buffers(d)
    BY <2>4, <2>6, <2>7, <2>9, <2>10 DEF Fields, Buffers
  <2> QED BY <2>10, <2>11, <2>12, <2>13, <2>14, <2>15, PartsTyped
<1> QED BY <1>1, <1>2 DEF TypedStream

LEMMA FlagsOfAck == AckPkt \in Flags /\ FinPkt \in Flags /\ SynPkt(TRUE) \in Flags
                    /\ SynPkt(FALSE) \in Flags
                    /\ AckPkt.data = <<>> /\ FinPkt.data = <<>>
                    /\ SynPkt(TRUE).data = <<>> /\ SynPkt(FALSE).data = <<>>
<1>1. <<>> \in Seq(Byte)
  OBVIOUS
<1> QED BY <1>1 DEF Flags, AckPkt, FinPkt, SynPkt

LEMMA SendAckType ==
  ASSUME NEW c \in TypedStream
  PROVE  SendAck(c) \in TypedStream
<1>1. AckPkt \in Flags /\ Len(AckPkt.data) <= MaxSeg /\ FALSE \in BOOLEAN
  BY FlagsOfAck, Sizes
<1> QED BY <1>1, ToSendType DEF SendAck

LEMMA InitSeqnosType ==
  ASSUME NEW c \in TypedStream, NEW isn \in SeqNum
  PROVE  InitSeqnos(c, isn) \in TypedStream
<1> DEFINE update == SeqAdd(isn, MaxSeg)
<1>1. PICK d : d = InitSeqnos(c, isn)
  OBVIOUS
<1>2. c = Fields(c) /\ Switches(c) /\ Numbers(c) /\ Windows(c) /\ Buffers(c)
  BY TypedParts
<1>3. update \in SeqNum /\ MaxWin \in Nat /\ MaxSeg \in 0 .. MaxWin
  BY Sizes, SeqAddType
<1>4. d = [c EXCEPT !.outSeqno = isn, !.initOur = isn, !.outAcked = isn,
                    !.inWin = MaxWin, !.congestThreshold = MaxWin,
                    !.congestWin = MaxSeg, !.congestUpdate = update]
  BY <1>1 DEF InitSeqnos
<1> HIDE DEF update
<1>5. d = Fields(d)
  BY <1>2, <1>4 DEF Fields
<1>6. Switches(d)
  BY <1>2, <1>4 DEF Fields, Switches
<1>7. Numbers(d)
  BY <1>2, <1>3, <1>4 DEF Fields, Numbers
<1>8. Windows(d)
  BY <1>2, <1>3, <1>4 DEF Fields, Windows
<1>9. Buffers(d)
  BY <1>2, <1>4 DEF Fields, Buffers
<1> QED BY <1>1, <1>5, <1>6, <1>7, <1>8, <1>9, PartsTyped

(* Every set of natural numbers that is not empty has a least element.     *)
LEMMA Least ==
  ASSUME NEW T, T \subseteq Nat, T # {}
  PROVE  \E x \in T : \A y \in T : x <= y
<1>1. PICK x \in T : \A y \in T : ~ (<<y, x>> \in OpToRel(<, Nat))
  BY NatLessThanWellFounded, WFMin
<1>2. \A y \in T : y < x => <<y, x>> \in OpToRel(<, Nat)
  BY DEF OpToRel
<1>3. \A y \in T : x <= y
  <2> TAKE y \in T
  <2>1. x \in Nat /\ y \in Nat /\ ~ (y < x)
    BY <1>1, <1>2
  <2> QED BY <2>1
<1> QED BY <1>3

(* acknowledge() drops a head of outPkt, of which every number is old.     *)
LEMMA AckedHeadIs ==
  ASSUME NEW c \in TypedStream
  PROVE  /\ AckedHead(c) \in 0 .. Len(c.outPkt)
         /\ \A i \in 1 .. AckedHead(c) :
                IsOldSequence(c.outPkt[i].pkt.seqno, c.outAcked)
<1> DEFINE Old(i) == IsOldSequence(c.outPkt[i].pkt.seqno, c.outAcked)
           L == Len(c.outPkt)
           young == {i \in 1 .. L : ~Old(i)}
<1>1. L \in Nat
  BY DEF TypedStream
<1>2. \E k \in 0 .. L : (\A i \in 1 .. k : Old(i)) /\ (k < L => ~Old(k + 1))
  <2> HIDE DEF L, Old
  <2>1. CASE young = {}
    <3>1. L \in 0 .. L /\ \A i \in 1 .. L : Old(i)
      BY <1>1, <2>1
    <3> QED BY <1>1, <3>1
  <2>2. CASE young # {}
    <3>1. young \subseteq Nat
      BY <1>1
    <3>2. PICK x \in young : \A y \in young : x <= y
      <4> HIDE DEF young
      <4> QED BY <2>2, <3>1, Least
    <3>3. x - 1 \in 0 .. L /\ (x - 1) + 1 = x /\ ~Old(x)
      BY <1>1, <3>2
    <3>4. \A i \in 1 .. x - 1 : Old(i)
      BY <1>1, <3>2
    <3> QED BY <3>3, <3>4
  <2> QED BY <2>1, <2>2
<1> QED BY <1>2 DEF AckedHead

LEMMA GrowCongestWinType ==
  ASSUME NEW c \in TypedStream
  PROVE  GrowCongestWin(c) \in TypedStream
<1> DEFINE grown == IF c.congestWin < c.congestThreshold
                      THEN c.congestWin + c.congestWin
                      ELSE c.congestWin + MaxSeg
           win == IF grown > MaxWin THEN MaxWin ELSE grown
           update == SeqAdd(c.outAcked, win)
<1>1. PICK d : d = GrowCongestWin(c)
  OBVIOUS
<1>2. c = Fields(c) /\ Switches(c) /\ Numbers(c) /\ Windows(c) /\ Buffers(c)
  BY TypedParts
<1>3. win \in 0 .. MaxWin
  BY <1>2, Sizes DEF Windows
<1>4. d = [c EXCEPT !.congestWin = win, !.congestUpdate = update]
  BY <1>1 DEF GrowCongestWin
<1>5. update \in SeqNum
  <2> HIDE DEF win
  <2>1. win \in 0 .. SeqMod
    BY <1>3, Sizes
  <2> QED BY <1>2, <2>1, SeqAddType DEF Numbers
<1> HIDE DEF win, grown, update
<1>6. d = Fields(d)
  BY <1>2, <1>4 DEF Fields
<1>7. Switches(d)
  BY <1>2, <1>4 DEF Fields, Switches
<1>8. Numbers(d)
  BY <1>2, <1>4, <1>5 DEF Fields, Numbers
<1>9. Windows(d)
  BY <1>2, <1>3, <1>4 DEF Fields, Windows
<1>10. Buffers(d)
  BY <1>2, <1>4 DEF Fields, Buffers
<1> QED BY <1>1, <1>6, <1>7, <1>8, <1>9, <1>10, PartsTyped

(* What is left of a sequence when its first k elements are dropped.       *)
LEMMA Rest ==
  ASSUME NEW T, NEW s \in Seq(T), NEW k \in 0 .. Len(s)
  PROVE  /\ SubSeq(s, k + 1, Len(s)) \in Seq(T)
         /\ Len(SubSeq(s, k + 1, Len(s))) = Len(s) - k
         /\ \A i \in 1 .. Len(s) - k : SubSeq(s, k + 1, Len(s))[i] = s[k + i]
<1> DEFINE m == k + 1
           n == Len(s)
<1>1. m \in Int /\ n \in Int /\ \A i \in m .. n : s[i] \in T
  OBVIOUS
<1>2. /\ SubSeq(s, m, n) \in Seq(T)
      /\ Len(SubSeq(s, m, n)) = IF m <= n THEN n - m + 1 ELSE 0
      /\ \A i \in 1 .. n - m + 1 : SubSeq(s, m, n)[i] = s[m + i - 1]
  <2> HIDE DEF m, n
  <2> QED BY <1>1, SubSeqProperties
<1>3. n - m + 1 = Len(s) - k /\ (IF m <= n THEN n - m + 1 ELSE 0) = Len(s) - k
  OBVIOUS
<1>4. \A i \in 1 .. Len(s) - k : m + i - 1 = k + i
  OBVIOUS
<1> QED BY <1>2, <1>3, <1>4

LEMMA AcknowledgeType ==
  ASSUME NEW c \in TypedStream
  PROVE  Acknowledge(c) \in TypedStream
<1> DEFINE k == AckedHead(c)
           b == IF k > 0 /\ ~IsOldSequence(c.outAcked, c.congestUpdate)
                  THEN GrowCongestWin(c) ELSE c
           rest == SubSeq(b.outPkt, k + 1, Len(b.outPkt))
           on == IF k = Len(c.outPkt) THEN FALSE ELSE b.timerOn \/ k > 0
<1>1. PICK d : d = Acknowledge(c)
  OBVIOUS
<1>2. b \in TypedStream
  BY GrowCongestWinType
<1>3. b.outPkt = c.outPkt /\ c.outPkt \in Seq(ShortOut)
  <2>1. c = Fields(c)
    BY TypedParts
  <2> QED BY <2>1 DEF GrowCongestWin, TypedStream, Fields
<1>4. k \in 0 .. Len(c.outPkt)
  BY AckedHeadIs
<1>5. d = [b EXCEPT !.outPkt = rest, !.timerOn = on]
  BY <1>1 DEF Acknowledge
<1>6. b = Fields(b) /\ Switches(b) /\ Numbers(b) /\ Windows(b) /\ Buffers(b)
  <2> HIDE DEF b
  <2> QED BY <1>2, TypedParts
<1>7. rest \in Seq(ShortOut)
  <2> HIDE DEF k, b
  <2> QED BY <1>3, <1>4, Rest
<1>8. on \in BOOLEAN
  <2> HIDE DEF k, b
  <2> QED BY <1>6 DEF Switches
<1> HIDE DEF k, b, rest, on
<1>9. d = Fields(d)
  BY <1>5, <1>6 DEF Fields
<1>10. Switches(d)
  BY <1>5, <1>6, <1>8 DEF Fields, Switches
<1>11. Numbers(d)
  BY <1>5, <1>6 DEF Fields, Numbers
<1>12. Windows(d)
  BY <1>5, <1>6 DEF Fields, Windows
<1>13. Buffers(d)
  BY <1>5, <1>6, <1>7 DEF Fields, Buffers
<1> QED BY <1>1, <1>9, <1>10, <1>11, <1>12, <1>13, PartsTyped

LEMMA RetransType ==
  ASSUME NEW c \in TypedStream
  PROVE  Retrans(c) \in TypedStream
<1>1. CASE ~c.known \/ ~c.timerOn \/ c.outPkt = <<>>
  <2>1. CASE ~c.known \/ ~c.timerOn
    BY <2>1 DEF Retrans
  <2>2. CASE c.known /\ c.timerOn /\ c.outPkt = <<>>
    <3>1. PICK d : d = Retrans(c)
      OBVIOUS
    <3>2. c = Fields(c) /\ Switches(c) /\ Numbers(c) /\ Windows(c) /\ Buffers(c)
      BY TypedParts
    <3>3. d = [c EXCEPT !.timerOn = FALSE]
      BY <2>2, <3>1 DEF Retrans
    <3>4. d = Fields(d)
      BY <3>2, <3>3 DEF Fields
    <3>5. Switches(d)
      BY <3>2, <3>3 DEF Fields, Switches
    <3>6. Numbers(d)
      BY <3>2, <3>3 DEF Fields, Numbers
    <3>7. Windows(d)
      BY <3>2, <3>3 DEF Fields, Windows
    <3>8. Buffers(d)
      BY <3>2, <3>3 DEF Fields, Buffers
    <3> QED BY <3>1, <3>4, <3>5, <3>6, <3>7, <3>8, PartsTyped
  <2> QED BY <1>1, <2>1, <2>2 DEF TypedStream
<1>2. CASE c.known /\ c.timerOn /\ c.outPkt # <<>>
  <2> DEFINE out == Head(c.outPkt)
             p == [out.pkt EXCEPT
                     !.ack = @ \/ ~out.pkt.syn,
                     !.ackno = IF out.pkt.syn THEN @ ELSE c.inAckno,
                     !.win = c.inWin]
             half == c.congestWin \div 2
             update == SeqAdd(c.outAcked, MaxSeg)
             last == IF out.pkt.syn THEN c.lastAck ELSE p.ackno
             win == p.win
             d == [c EXCEPT
                     !.congestThreshold = half, !.congestWin = MaxSeg,
                     !.congestUpdate = update,
                     !.lastAck = last, !.lastWin = win]
             tx == c.tx \cup {p}
             again == [pkt |-> p, retrans |-> out.retrans + 1]
             q == [c.outPkt EXCEPT ![1] = again]
  <2>1. c = Fields(c) /\ Switches(c) /\ Numbers(c) /\ Windows(c) /\ Buffers(c)
    BY TypedParts
  <2>2. out \in ShortOut
    BY <1>2, <2>1, HeadTailProperties DEF Buffers
  <2>3. p \in ShortPacket /\ p.ackno \in SeqNum /\ p.win \in Nat
    <3>1. out.pkt \in ShortPacket
      BY <2>2 DEF ShortOut
    <3>2. c.inAckno \in SeqNum /\ c.inWin \in Nat
      BY <2>1 DEF Numbers, Windows
    <3> HIDE DEF out
    <3> QED BY <3>1, <3>2 DEF ShortPacket, Packet
  <2>4. half \in Nat /\ MaxSeg \in 0 .. MaxWin
    BY <2>1, Sizes DEF Windows
  <2>5. update \in SeqNum
    <3>1. MaxSeg \in 0 .. SeqMod /\ c.outAcked \in SeqNum
      BY <2>1, Sizes DEF Numbers
    <3> QED BY <3>1, SeqAddType
  <2>6. last \in SeqNum /\ win \in Nat
    <3> HIDE DEF p
    <3> QED BY <2>1, <2>3 DEF Numbers
  <2>7. d \in TypedStream
    <3>1. PICK x : x = d
      OBVIOUS
    <3> HIDE DEF half, update, last, win
    <3>2. x = Fields(x)
      BY <2>1, <3>1 DEF Fields
    <3>3. Switches(x)
      BY <2>1, <3>1 DEF Fields, Switches
    <3>4. Numbers(x)
      BY <2>1, <2>5, <2>6, <3>1 DEF Fields, Numbers
    <3>5. Windows(x)
      BY <2>1, <2>4, <2>6, <3>1 DEF Fields, Windows
    <3>6. Buffers(x)
      BY <2>1, <3>1 DEF Fields, Buffers
    <3> HIDE DEF d
    <3> QED BY <3>1, <3>2, <3>3, <3>4, <3>5, <3>6, PartsTyped
  <2>8. d.tx = c.tx /\ d.outPkt = c.outPkt
    <3> HIDE DEF half, update, last, win
    <3> QED BY <2>1 DEF Fields
  <2>9. again \in ShortOut
    <3> HIDE DEF p, out
    <3> QED BY <2>2, <2>3 DEF ShortOut
  <2>10. tx \in SUBSET ShortPacket
    <3> HIDE DEF p
    <3> QED BY <2>1, <2>3 DEF Buffers
  <2>11. q \in Seq(ShortOut)
    <3> HIDE DEF again
    <3>1. c.outPkt \in Seq(ShortOut) /\ 1 \in 1 .. Len(c.outPkt)
      BY <1>2, <2>1 DEF Buffers
    <3> QED BY <2>9, <3>1, ExceptSeq
  <2>12. Retrans(c) = IF GivesUp(out) THEN Cleanup(d)
                      ELSE [d EXCEPT !.tx = tx, !.outPkt = q]
    BY <1>2, <2>8 DEF Retrans
  <2> HIDE DEF d, tx, q
  <2>13. [d EXCEPT !.tx = tx, !.outPkt = q] \in TypedStream
    <3>1. PICK x : x = [d EXCEPT !.tx = tx, !.outPkt = q]
      OBVIOUS
    <3>2. d = Fields(d) /\ Switches(d) /\ Numbers(d) /\ Windows(d) /\ Buffers(d)
      BY <2>7, TypedParts
    <3>3. x = Fields(x)
      BY <3>1, <3>2 DEF Fields
    <3>4. Switches(x)
      BY <3>1, <3>2 DEF Fields, Switches
    <3>5. Numbers(x)
      BY <3>1, <3>2 DEF Fields, Numbers
    <3>6. Windows(x)
      BY <3>1, <3>2 DEF Fields, Windows
    <3>7. Buffers(x)
      BY <2>10, <2>11, <3>1, <3>2 DEF Fields, Buffers
    <3> QED BY <3>1, <3>3, <3>4, <3>5, <3>6, <3>7, PartsTyped
  <2> QED BY <2>7, <2>12, <2>13, CleanupType
<1> QED BY <1>1, <1>2 DEF TypedStream

(* Of the division by MaxSeg only this is used.                            *)
LEMMA Quotient ==
  ASSUME NEW a \in Nat, NEW n \in Nat, n <= a \div MaxSeg
  PROVE  n * MaxSeg <= a /\ n * MaxSeg \in Nat
<1>1. MaxSeg \in Nat /\ MaxSeg > 0
  BY Sizes
<1>2. (a \div MaxSeg) * MaxSeg <= a /\ a \div MaxSeg \in Nat
  BY <1>1
<1>3. \A x \in Nat : n <= x => n * MaxSeg <= x * MaxSeg
  BY <1>1
<1> QED BY <1>1, <1>2, <1>3

LEMMA QuotientType ==
  ASSUME NEW a \in Nat
  PROVE  a \div MaxSeg \in Nat /\ (a \div MaxSeg = 0 => a < MaxSeg)
<1>1. MaxSeg \in Nat /\ MaxSeg > 0
  BY Sizes
<1> QED BY <1>1

LEMMA SegmentBounds ==
  ASSUME NEW n \in Nat, NEW i \in 1 .. n
  PROVE  /\ (i - 1) * MaxSeg \in Nat /\ i * MaxSeg \in Nat
         /\ i * MaxSeg = (i - 1) * MaxSeg + MaxSeg
         /\ i * MaxSeg <= n * MaxSeg
<1>1. MaxSeg \in Nat /\ MaxSeg > 0
  BY Sizes
<1> QED BY <1>1

LEMMA MaxSendBound ==
  ASSUME NEW c \in TypedStream
  PROVE  MaxSend(c) \in 0 .. MaxWin
<1>1. Numbers(c) /\ Windows(c)
  BY TypedParts
<1>2. InTransit(c) \in Nat
  BY <1>1, Sizes DEF InTransit, Numbers, SeqNum
<1>3. c.outWin \in Nat /\ c.congestWin \in 0 .. MaxWin
  BY <1>1 DEF Windows
<1> QED BY <1>2, <1>3, Sizes DEF MaxSend

LEMMA SegmentType ==
  ASSUME NEW c \in TypedStream, NEW n \in Nat, NEW i \in 1 .. n,
         n * MaxSeg <= Len(c.inQueue), n * MaxSeg <= MaxWin
  PROVE  /\ Segment(c, i) \in ShortPacket
         /\ Len(Segment(c, i).data) = MaxSeg
         /\ \A j \in 1 .. MaxSeg :
                Segment(c, i).data[j] = c.inQueue[(i - 1) * MaxSeg + j]
<1> DEFINE from == (i - 1) * MaxSeg
           m == from + 1
           k == i * MaxSeg
           data == SubSeq(c.inQueue, m, k)
           seqno == SeqAdd(c.outSeqno, from)
<1>1. /\ from \in Nat /\ k \in Nat /\ k = from + MaxSeg /\ k <= Len(c.inQueue)
      /\ from <= MaxWin
  <2>1. n * MaxSeg \in Nat
    BY Sizes
  <2>2. c.inQueue \in Seq(Byte) /\ Len(c.inQueue) \in Nat
    BY DEF TypedStream
  <2>3. from \in Nat /\ k \in Nat /\ k = from + MaxSeg /\ k <= n * MaxSeg
    BY SegmentBounds
  <2> HIDE DEF from, k
  <2> QED BY <2>1, <2>2, <2>3, Sizes
<1> HIDE DEF from, k
<1>2. /\ data \in Seq(Byte) /\ Len(data) = MaxSeg
      /\ \A j \in 1 .. MaxSeg : data[j] = c.inQueue[from + j]
  <2>1. c.inQueue \in Seq(Byte) /\ Len(c.inQueue) \in Nat
    BY DEF TypedStream
  <2>2. m \in Int /\ k \in Int /\ \A j \in m .. k : c.inQueue[j] \in Byte
    BY <1>1, <2>1, ElementOfSeq
  <2>3. /\ SubSeq(c.inQueue, m, k) \in Seq(Byte)
        /\ Len(SubSeq(c.inQueue, m, k)) = IF m <= k THEN k - m + 1 ELSE 0
        /\ \A j \in 1 .. k - m + 1 : SubSeq(c.inQueue, m, k)[j] = c.inQueue[m + j - 1]
    <3> HIDE DEF m
    <3> QED BY <2>2, SubSeqProperties
  <2>4. k - m + 1 = MaxSeg /\ m <= k
    BY <1>1, Sizes
  <2>5. \A j \in 1 .. MaxSeg : m + j - 1 = from + j
    BY <1>1, Sizes
  <2> HIDE DEF m
  <2> QED BY <2>3, <2>4, <2>5
<1>3. seqno \in SeqNum
  <2>1. from \in 0 .. SeqMod /\ c.outSeqno \in SeqNum
    BY <1>1, Sizes DEF TypedStream
  <2> QED BY <2>1, SeqAddType
<1>4. c.inAckno \in SeqNum /\ c.inWin \in Nat
  BY DEF TypedStream
<1>5. Segment(c, i) = [syn |-> FALSE, fin |-> FALSE, ack |-> TRUE,
                       seqno |-> seqno, ackno |-> c.inAckno, win |-> c.inWin,
                       data |-> data]
  BY DEF Segment, from, k
<1> HIDE DEF seqno, data
<1>6. Segment(c, i) \in ShortPacket
  <2>1. Len(data) <= MaxSeg
    BY <1>2, Sizes
  <2> QED BY <1>2, <1>3, <1>4, <1>5, <2>1 DEF ShortPacket, Packet
<1>7. Segment(c, i).data = data
  BY <1>5
<1> QED BY <1>2, <1>6, <1>7 DEF from

LEMMA SendSegmentsType ==
  ASSUME NEW c \in TypedStream, NEW n \in Nat,
         n * MaxSeg <= Len(c.inQueue), n * MaxSeg <= MaxWin
  PROVE  SendSegments(c, n) \in TypedStream
<1> DEFINE total == n * MaxSeg
           rest == SubSeq(c.inQueue, total + 1, Len(c.inQueue))
           seqno == SeqAdd(c.outSeqno, total)
           tx == c.tx \cup {Segment(c, i) : i \in 1 .. n}
           new == [i \in 1 .. n |-> [pkt |-> Segment(c, i), retrans |-> 0]]
           q == c.outPkt \o new
           on == TRUE
           ack == c.inAckno
           win == c.inWin
<1>1. PICK d : d = SendSegments(c, n)
  OBVIOUS
<1>2. c = Fields(c) /\ Switches(c) /\ Numbers(c) /\ Windows(c) /\ Buffers(c)
  BY TypedParts
<1>3. total \in Nat /\ total \in 0 .. Len(c.inQueue) /\ total \in 0 .. SeqMod
  <2>1. total \in Nat
    BY Sizes
  <2> HIDE DEF total
  <2>2. total <= Len(c.inQueue) /\ total <= MaxWin
    BY DEF total
  <2> QED BY <1>2, <2>1, <2>2, Sizes DEF Buffers
<1> HIDE DEF total
<1>4. rest \in Seq(Byte)
  BY <1>2, <1>3, Rest DEF Buffers
<1>5. seqno \in SeqNum
  BY <1>2, <1>3, SeqAddType DEF Numbers
<1>6. \A i \in 1 .. n : Segment(c, i) \in ShortPacket
  BY SegmentType
<1>7. tx \in SUBSET ShortPacket
  BY <1>2, <1>6 DEF Buffers
<1>8. new \in Seq(ShortOut)
  <2>1. \A i \in 1 .. n : [pkt |-> Segment(c, i), retrans |-> 0] \in ShortOut
    BY <1>6 DEF ShortOut
  <2> QED BY <2>1
<1>9. q \in Seq(ShortOut)
  <2> HIDE DEF new
  <2> QED BY <1>2, <1>8, ConcatProperties DEF Buffers
<1>10. d = IF ~c.known THEN [c EXCEPT !.inQueue = rest]
           ELSE [c EXCEPT !.inQueue = rest, !.outSeqno = seqno,
                          !.lastAck = ack, !.lastWin = win,
                          !.tx = tx, !.timerOn = on, !.outPkt = q]
  BY <1>1 DEF SendSegments, total
<1>11. on \in BOOLEAN /\ ack \in SeqNum /\ win \in Nat
  BY <1>2 DEF Numbers, Windows
<1> HIDE DEF rest, seqno, tx, q, on, ack, win
<1>12. d = Fields(d)
  BY <1>2, <1>10 DEF Fields
<1>13. Switches(d)
  BY <1>2, <1>10, <1>11 DEF Fields, Switches
<1>14. Numbers(d)
  BY <1>2, <1>5, <1>10, <1>11 DEF Fields, Numbers
<1>15. Windows(d)
  BY <1>2, <1>10, <1>11 DEF Fields, Windows
<1>16. Buffers(d)
  BY <1>2, <1>4, <1>7, <1>9, <1>10 DEF Fields, Buffers
<1> QED BY <1>1, <1>12, <1>13, <1>14, <1>15, <1>16, PartsTyped

LEMMA StateType ==
  ASSUME NEW c \in TypedStream, NEW s \in 0 .. 10
  PROVE  [c EXCEPT !.state = s] \in TypedStream
<1>1. PICK d : d = [c EXCEPT !.state = s]
  OBVIOUS
<1>2. c = Fields(c) /\ Switches(c) /\ Numbers(c) /\ Windows(c) /\ Buffers(c)
  BY TypedParts
<1>3. d = Fields(d)
  BY <1>1, <1>2 DEF Fields
<1>4. Switches(d)
  BY <1>1, <1>2 DEF Fields, Switches
<1>5. Numbers(d)
  BY <1>1, <1>2 DEF Fields, Numbers
<1>6. Windows(d)
  BY <1>1, <1>2 DEF Fields, Windows
<1>7. Buffers(d)
  BY <1>1, <1>2 DEF Fields, Buffers
<1> QED BY <1>1, <1>3, <1>4, <1>5, <1>6, <1>7, PartsTyped

LEMMA InQueueType ==
  ASSUME NEW c \in TypedStream, NEW q \in Seq(Byte)
  PROVE  [c EXCEPT !.inQueue = q] \in TypedStream
<1>1. PICK d : d = [c EXCEPT !.inQueue = q]
  OBVIOUS
<1>2. c = Fields(c) /\ Switches(c) /\ Numbers(c) /\ Windows(c) /\ Buffers(c)
  BY TypedParts
<1>3. d = Fields(d)
  BY <1>1, <1>2 DEF Fields
<1>4. Switches(d)
  BY <1>1, <1>2 DEF Fields, Switches
<1>5. Numbers(d)
  BY <1>1, <1>2 DEF Fields, Numbers
<1>6. Windows(d)
  BY <1>1, <1>2 DEF Fields, Windows
<1>7. Buffers(d)
  BY <1>1, <1>2 DEF Fields, Buffers
<1> QED BY <1>1, <1>3, <1>4, <1>5, <1>6, <1>7, PartsTyped

LEMMA SendNothingType ==
  ASSUME NEW c \in TypedStream, NEW idle
  PROVE  SendNothing(c, idle) \in TypedStream
<1> DEFINE s == IF c.state = TCP_ESTABLISHED THEN TCP_FIN_WAIT_1 ELSE TCP_LAST_ACK
           d == ToSend(c, FinPkt, FALSE)
<1>1. s \in 0 .. 10
  BY DEF TCP_FIN_WAIT_1, TCP_LAST_ACK
<1>2. d \in TypedStream
  <2>1. FinPkt \in Flags /\ Len(FinPkt.data) <= MaxSeg /\ FALSE \in BOOLEAN
    BY FlagsOfAck, Sizes
  <2> QED BY <2>1, ToSendType
<1>3. [d EXCEPT !.state = s] \in TypedStream
  <2> HIDE DEF d, s
  <2> QED BY <1>1, <1>2, StateType
<1> QED BY <1>3, SendAckType DEF SendNothing

LEMMA SendType ==
  ASSUME NEW c \in TypedStream, NEW rto, NEW idle
  PROVE  Send(c, rto, idle) \in TypedStream
<1> DEFINE a == Acknowledge(c)
           d == IF rto THEN Retrans(a) ELSE a
           full == Len(d.inQueue) \div MaxSeg
           room == MaxSend(d) \div MaxSeg
           n == IF full < room THEN full ELSE room
<1>1. d \in TypedStream
  BY AcknowledgeType, RetransType
<1>2. /\ n \in Nat
      /\ n * MaxSeg <= Len(d.inQueue) /\ n * MaxSeg <= MaxWin
  <2> HIDE DEF d
  <2>1. Len(d.inQueue) \in Nat /\ MaxSend(d) \in Nat /\ MaxSend(d) <= MaxWin
    <3>1. Len(d.inQueue) \in Nat
      BY <1>1 DEF TypedStream
    <3>2. MaxSend(d) \in Nat /\ MaxSend(d) <= MaxWin
      BY <1>1, MaxSendBound, Sizes
    <3> QED BY <3>1, <3>2
  <2>2. full \in Nat /\ room \in Nat
    BY <2>1, QuotientType
  <2>3. n \in Nat /\ n <= full /\ n <= room
    <3> HIDE DEF full, room
    <3> QED BY <2>2
  <2>4. n * MaxSeg <= Len(d.inQueue) /\ n * MaxSeg <= MaxSend(d) /\ n * MaxSeg \in Nat
    <3> HIDE DEF n
    <3> QED BY <2>1, <2>3, Quotient
  <2> HIDE DEF n
  <2>5. n * MaxSeg <= MaxWin
    BY <2>1, <2>4, Sizes
  <2> QED BY <2>3, <2>4, <2>5
<1>3. full = 0 /\ d.inQueue # <<>> =>
        ToSend([d EXCEPT !.inQueue = <<>>], DataPkt(d.inQueue), TRUE) \in TypedStream
  <2> HIDE DEF d
  <2> SUFFICES ASSUME full = 0
               PROVE  ToSend([d EXCEPT !.inQueue = <<>>], DataPkt(d.inQueue), TRUE)
                        \in TypedStream
    OBVIOUS
  <2>1. d.inQueue \in Seq(Byte) /\ Len(d.inQueue) \in Nat
    BY <1>1 DEF TypedStream
  <2>2. Len(d.inQueue) <= MaxSeg
    <3>1. Len(d.inQueue) < MaxSeg
      BY <2>1, QuotientType
    <3> QED BY <2>1, <3>1, Sizes
  <2>3. DataPkt(d.inQueue) \in Flags /\ DataPkt(d.inQueue).data = d.inQueue
    BY <2>1 DEF DataPkt, AckPkt, Flags
  <2>4. [d EXCEPT !.inQueue = <<>>] \in TypedStream
    <3> DEFINE q == <<>>
    <3>1. q \in Seq(Byte)
      OBVIOUS
    <3>2. [d EXCEPT !.inQueue = q] \in TypedStream
      <4> HIDE DEF q
      <4> QED BY <1>1, <3>1, InQueueType
    <3> QED BY <3>2
  <2>5. TRUE \in BOOLEAN /\ Len(DataPkt(d.inQueue).data) <= MaxSeg
    BY <2>2, <2>3
  <2> QED BY <2>3, <2>4, <2>5, ToSendType
<1>4. SendSegments(d, n) \in TypedStream
  <2> HIDE DEF d, n
  <2> QED BY <1>1, <1>2, SendSegmentsType
<1>5. SendNothing(d, idle) \in TypedStream
  <2> HIDE DEF d
  <2> QED BY <1>1, SendNothingType
<1>6. Send(c, rto, idle) \in
        {d, SendSegments(d, n), SendNothing(d, idle)}
          \cup (IF full = 0 /\ d.inQueue # <<>>
                THEN {ToSend([d EXCEPT !.inQueue = <<>>], DataPkt(d.inQueue), TRUE)}
                ELSE {})
  BY DEF Send
<1> HIDE DEF d, n, full
<1> QED BY <1>1, <1>3, <1>4, <1>5, <1>6

LEMMA TickStreamType ==
  ASSUME NEW c \in TypedStream, NEW t
  PROVE  TickStream(c, t) \in TypedStream
<1>1. RecvCheck(c, t.noPkt) \in TypedStream
  BY CleanupType DEF RecvCheck
<1> QED BY <1>1, SendType DEF TickStream

LEMMA UpdateInWinSizeType ==
  ASSUME NEW c \in TypedStream
  PROVE  UpdateInWinSize(c) \in TypedStream
<1> DEFINE queued == Len(c.outQueue)
           win == IF queued < MaxWin THEN MaxWin
                  ELSE IF queued < 2 * MaxWin THEN 2 * MaxWin - queued ELSE 0
<1>1. PICK d : d = UpdateInWinSize(c)
  OBVIOUS
<1>2. c = Fields(c) /\ Switches(c) /\ Numbers(c) /\ Windows(c) /\ Buffers(c)
  BY TypedParts
<1>3. win \in Nat
  <2>1. queued \in Nat
    BY <1>2 DEF Buffers
  <2> HIDE DEF queued
  <2> QED BY <2>1, Sizes
<1>4. d = [c EXCEPT !.inWin = win]
  BY <1>1 DEF UpdateInWinSize
<1> HIDE DEF win
<1>5. d = Fields(d)
  BY <1>2, <1>4 DEF Fields
<1>6. Switches(d)
  BY <1>2, <1>4 DEF Fields, Switches
<1>7. Numbers(d)
  BY <1>2, <1>4 DEF Fields, Numbers
<1>8. Windows(d)
  BY <1>2, <1>3, <1>4 DEF Fields, Windows
<1>9. Buffers(d)
  BY <1>2, <1>4 DEF Fields, Buffers
<1> QED BY <1>1, <1>5, <1>6, <1>7, <1>8, <1>9, PartsTyped

LEMMA InActiveType ==
  ASSUME NEW c \in TypedStream
  PROVE  [c EXCEPT !.inActive = FALSE] \in TypedStream
<1>1. PICK d : d = [c EXCEPT !.inActive = FALSE]
  OBVIOUS
<1>2. c = Fields(c) /\ Switches(c) /\ Numbers(c) /\ Windows(c) /\ Buffers(c)
  BY TypedParts
<1>3. d = Fields(d)
  BY <1>1, <1>2 DEF Fields
<1>4. Switches(d)
  BY <1>1, <1>2 DEF Fields, Switches
<1>5. Numbers(d)
  BY <1>1, <1>2 DEF Fields, Numbers
<1>6. Windows(d)
  BY <1>1, <1>2 DEF Fields, Windows
<1>7. Buffers(d)
  BY <1>1, <1>2 DEF Fields, Buffers
<1> QED BY <1>1, <1>3, <1>4, <1>5, <1>6, <1>7, PartsTyped

LEMMA TakeFinType ==
  ASSUME NEW c \in TypedStream
  PROVE  TakeFin(c) \in TypedStream
<1> DEFINE a == SendAck(c)
           d == [a EXCEPT !.inActive = FALSE]
<1>1. d \in TypedStream
  <2>1. a \in TypedStream
    BY SendAckType
  <2> HIDE DEF a
  <2> QED BY <2>1, InActiveType
<1> HIDE DEF d
<1>2. TCP_CLOSE_WAIT \in 0 .. 10 /\ TCP_CLOSING \in 0 .. 10
  BY DEF TCP_CLOSE_WAIT, TCP_CLOSING
<1>3. TakeFin(c) =
        CASE c.state = TCP_ESTABLISHED -> [d EXCEPT !.state = TCP_CLOSE_WAIT]
          [] c.state = TCP_FIN_WAIT_1  -> [d EXCEPT !.state = TCP_CLOSING]
          [] c.state = TCP_FIN_WAIT_2  -> Cleanup(d)
          [] OTHER -> d
  BY DEF TakeFin, d
<1>4. TakeFin(c) \in {d, [d EXCEPT !.state = TCP_CLOSE_WAIT],
                         [d EXCEPT !.state = TCP_CLOSING], Cleanup(d)}
  BY <1>3 DEF TCP_ESTABLISHED, TCP_FIN_WAIT_1, TCP_FIN_WAIT_2
<1>5. /\ [d EXCEPT !.state = TCP_CLOSE_WAIT] \in TypedStream
      /\ [d EXCEPT !.state = TCP_CLOSING] \in TypedStream
  BY <1>1, <1>2, StateType
<1> QED BY <1>1, <1>4, <1>5, CleanupType

LEMMA TakeAckOfFinType ==
  ASSUME NEW c \in TypedStream
  PROVE  TakeAckOfFin(c) \in TypedStream
<1>1. TCP_FIN_WAIT_2 \in 0 .. 10
  BY DEF TCP_FIN_WAIT_2
<1>2. TakeAckOfFin(c) \in {c, [c EXCEPT !.state = TCP_FIN_WAIT_2], Cleanup(c)}
  BY DEF TakeAckOfFin, TCP_FIN_WAIT_1, TCP_LAST_ACK, TCP_CLOSING
<1>3. [c EXCEPT !.state = TCP_FIN_WAIT_2] \in TypedStream
  BY <1>1, StateType
<1> QED BY <1>2, <1>3, CleanupType

(* The stream that ConsumePkt makes before it looks at the flags.          *)
Taken(c, p) ==
    LET fresh == p.ack /\ IsOldSequence(c.outAcked, p.ackno)
    IN  [c EXCEPT !.inAckno = SeqAdd(p.seqno, Len(p.data)),
                  !.outAcked = IF fresh THEN p.ackno ELSE @,
                  !.outWin = IF fresh THEN p.win ELSE @,
                  !.outQueue = @ \o p.data]

LEMMA ShortPacketParts ==
  ASSUME NEW p \in ShortPacket
  PROVE  /\ p.seqno \in SeqNum /\ p.ackno \in SeqNum /\ p.win \in Nat
         /\ p.data \in Seq(Byte) /\ Len(p.data) \in 0 .. MaxSeg
         /\ p.syn \in BOOLEAN /\ p.ack \in BOOLEAN /\ p.fin \in BOOLEAN
  BY Sizes DEF ShortPacket, Packet

LEMMA TakenType ==
  ASSUME NEW c \in TypedStream, NEW p \in ShortPacket
  PROVE  Taken(c, p) \in TypedStream
<1> DEFINE fresh == p.ack /\ IsOldSequence(c.outAcked, p.ackno)
           ackno == SeqAdd(p.seqno, Len(p.data))
           acked == IF fresh THEN p.ackno ELSE c.outAcked
           win == IF fresh THEN p.win ELSE c.outWin
           q == c.outQueue \o p.data
<1>1. PICK d : d = Taken(c, p)
  OBVIOUS
<1>2. c = Fields(c) /\ Switches(c) /\ Numbers(c) /\ Windows(c) /\ Buffers(c)
  BY TypedParts
<1>3. ackno \in SeqNum
  <2>1. p.seqno \in SeqNum /\ Len(p.data) \in 0 .. SeqMod
    BY ShortPacketParts, Sizes
  <2> QED BY <2>1, SeqAddType
<1>4. acked \in SeqNum /\ win \in Nat
  <2> HIDE DEF fresh
  <2> QED BY <1>2, ShortPacketParts DEF Numbers, Windows
<1>5. q \in Seq(Byte)
  BY <1>2, ShortPacketParts, ConcatProperties DEF Buffers
<1>6. d = [c EXCEPT !.inAckno = ackno, !.outAcked = acked, !.outWin = win,
                    !.outQueue = q]
  BY <1>1 DEF Taken
<1> HIDE DEF ackno, acked, win, q
<1>7. d = Fields(d)
  BY <1>2, <1>6 DEF Fields
<1>8. Switches(d)
  BY <1>2, <1>6 DEF Fields, Switches
<1>9. Numbers(d)
  BY <1>2, <1>3, <1>4, <1>6 DEF Fields, Numbers
<1>10. Windows(d)
  BY <1>2, <1>4, <1>6 DEF Fields, Windows
<1>11. Buffers(d)
  BY <1>2, <1>5, <1>6 DEF Fields, Buffers
<1> QED BY <1>1, <1>7, <1>8, <1>9, <1>10, <1>11, PartsTyped

LEMMA ConsumePktType ==
  ASSUME NEW c \in TypedStream, NEW p \in ShortPacket
  PROVE  ConsumePkt(c, p) \in TypedStream
<1> DEFINE d == UpdateInWinSize(Taken(c, p))
           f == IF p.fin THEN TakeFin(d) ELSE d
<1>1. d \in TypedStream
  BY TakenType, UpdateInWinSizeType
<1>2. f \in TypedStream
  <2> HIDE DEF d
  <2> QED BY <1>1, TakeFinType
<1>3. ConsumePkt(c, p) \in {f, TakeAckOfFin(f)}
  BY DEF ConsumePkt, Taken
<1> HIDE DEF f
<1> QED BY <1>2, <1>3, TakeAckOfFinType

(* A sequence without its i-th element.                                    *)
LEMMA TakenOut ==
  ASSUME NEW T, NEW s \in Seq(T), NEW i \in 1 .. Len(s)
  PROVE  SubSeq(s, 1, i - 1) \o SubSeq(s, i + 1, Len(s)) \in Seq(T)
<1> DEFINE j == i - 1
<1>1. j \in Int /\ 1 \in Int /\ \A k \in 1 .. j : s[k] \in T
  OBVIOUS
<1>2. SubSeq(s, 1, j) \in Seq(T)
  <2> HIDE DEF j
  <2> QED BY <1>1, SubSeqProperties
<1>3. i \in 0 .. Len(s)
  OBVIOUS
<1>4. SubSeq(s, i + 1, Len(s)) \in Seq(T)
  BY <1>3, Rest
<1> QED BY <1>2, <1>4, ConcatProperties

(* What ConsumeNext consumes: the packet at some place of inPkt, which it  *)
(* takes out first.                                                        *)
LEMMA ConsumeNextIs ==
  ASSUME NEW c \in TypedStream
  PROVE  \/ ConsumeNext(c) = c
         \/ \E i \in 1 .. Len(c.inPkt) :
                /\ Matches(c, i)
                /\ ConsumeNext(c) =
                     ConsumePkt([c EXCEPT !.inPkt = SubSeq(c.inPkt, 1, i - 1)
                                            \o SubSeq(c.inPkt, i + 1, Len(c.inPkt))],
                                c.inPkt[i])
<1> DEFINE places == {k \in DOMAIN c.inPkt : Matches(c, k)}
           First(i) == /\ Matches(c, i)
                       /\ \A j \in DOMAIN c.inPkt : Matches(c, j) => i <= j
<1>1. DOMAIN c.inPkt = 1 .. Len(c.inPkt) /\ Len(c.inPkt) \in Nat
  BY DEF TypedStream
<1>2. CASE \E i \in DOMAIN c.inPkt : Matches(c, i)
  <2>1. places \subseteq Nat /\ places # {}
    BY <1>1, <1>2
  <2>2. PICK x \in places : \A y \in places : x <= y
    <3> HIDE DEF places
    <3> QED BY <2>1, Least
  <2>3. x \in DOMAIN c.inPkt /\ First(x)
    BY <2>2
  <2> DEFINE i == CHOOSE k \in DOMAIN c.inPkt : First(k)
  <2>4. i \in DOMAIN c.inPkt /\ First(i)
    <3> HIDE DEF First
    <3> QED BY <2>3
  <2>5. ConsumeNext(c) =
          ConsumePkt([c EXCEPT !.inPkt = SubSeq(c.inPkt, 1, i - 1)
                                 \o SubSeq(c.inPkt, i + 1, Len(c.inPkt))],
                     c.inPkt[i])
    BY <1>2 DEF ConsumeNext
  <2> HIDE DEF i
  <2> QED BY <1>1, <2>4, <2>5
<1>3. CASE ~ \E i \in DOMAIN c.inPkt : Matches(c, i)
  BY <1>3 DEF ConsumeNext
<1> QED BY <1>2, <1>3

LEMMA InPktType ==
  ASSUME NEW c \in TypedStream, NEW q \in Seq(ShortPacket)
  PROVE  [c EXCEPT !.inPkt = q] \in TypedStream
<1>1. PICK d : d = [c EXCEPT !.inPkt = q]
  OBVIOUS
<1>2. c = Fields(c) /\ Switches(c) /\ Numbers(c) /\ Windows(c) /\ Buffers(c)
  BY TypedParts
<1>3. d = Fields(d)
  BY <1>1, <1>2 DEF Fields
<1>4. Switches(d)
  BY <1>1, <1>2 DEF Fields, Switches
<1>5. Numbers(d)
  BY <1>1, <1>2 DEF Fields, Numbers
<1>6. Windows(d)
  BY <1>1, <1>2 DEF Fields, Windows
<1>7. Buffers(d)
  BY <1>1, <1>2 DEF Fields, Buffers
<1> QED BY <1>1, <1>3, <1>4, <1>5, <1>6, <1>7, PartsTyped

LEMMA ConsumeNextType ==
  ASSUME NEW c \in TypedStream
  PROVE  ConsumeNext(c) \in TypedStream
<1>1. CASE ConsumeNext(c) = c
  BY <1>1
<1>2. ASSUME NEW i \in 1 .. Len(c.inPkt),
             ConsumeNext(c) =
               ConsumePkt([c EXCEPT !.inPkt = SubSeq(c.inPkt, 1, i - 1)
                                      \o SubSeq(c.inPkt, i + 1, Len(c.inPkt))],
                          c.inPkt[i])
      PROVE  ConsumeNext(c) \in TypedStream
  <2> DEFINE q == SubSeq(c.inPkt, 1, i - 1) \o SubSeq(c.inPkt, i + 1, Len(c.inPkt))
  <2>1. c.inPkt \in Seq(ShortPacket)
    BY DEF TypedStream
  <2>2. q \in Seq(ShortPacket)
    BY <2>1, TakenOut
  <2>3. c.inPkt[i] \in ShortPacket
    BY <2>1, ElementOfSeq
  <2>4. [c EXCEPT !.inPkt = q] \in TypedStream
    <3> HIDE DEF q
    <3> QED BY <2>2, InPktType
  <2> HIDE DEF q
  <2> QED BY <1>2, <2>3, <2>4, ConsumePktType DEF q
<1> QED BY <1>1, <1>2, ConsumeNextIs

(* What is kept of inPkt was in inPkt.                                     *)
LEMMA NewPktsFrom ==
  ASSUME NEW T, NEW c, c.inPkt \in Seq(T)
  PROVE  NewPkts(c) \in Seq(T)
<1> DEFINE L == Len(c.inPkt)
           S == Seq(T)
           empty == <<>>
           Old(i) == IsOldSequence(c.inPkt[i].seqno, c.inAckno)
           Add(q, i) == IF Old(i) THEN q ELSE Append(q, c.inPkt[i])
           Kept1(f) == [i \in 0 .. L |-> IF i = 0 THEN empty ELSE Add(f[i - 1], i)]
           step == [i \in 1 .. L |-> [q \in S |-> Add(q, i)]]
           kept == CHOOSE f : f = Kept1(f)
<1>1. L \in Nat /\ empty \in S
  OBVIOUS
<1>2. \A i \in 1 .. L : \A q \in S : Add(q, i) \in S
  <2> SUFFICES ASSUME NEW i \in 1 .. L, NEW q \in Seq(T)
               PROVE  Append(q, c.inPkt[i]) \in Seq(T)
    OBVIOUS
  <2>1. c.inPkt[i] \in T
    BY ElementOfSeq
  <2> QED BY <2>1, AppendProperties
<1>3. step \in [1 .. L -> [S -> S]]
  <2> HIDE DEF Add, L, S
  <2> QED BY <1>2
<1>4. PICK f \in [0 .. L -> S] : Iterates(f, L, empty, step)
  <2> HIDE DEF step, L, S, empty
  <2> QED BY <1>1, <1>3, Iteration
<1>5. f = Kept1(f)
  <2> HIDE DEF Add, S, L, empty
  <2>1. \A i \in 1 .. L : i - 1 \in 0 .. L
    BY <1>1
  <2>2. \A i \in 1 .. L : f[i] = Add(f[i - 1], i)
    BY <1>4, <2>1 DEF Iterates
  <2>3. \A i \in 0 .. L : f[i] = Kept1(f)[i]
    BY <1>4, <2>2 DEF Iterates
  <2> QED BY <2>3
<1>6. kept = Kept1(kept)
  <2> HIDE DEF Kept1
  <2> QED BY <1>5
<1>7. NewPkts(c) = kept[L]
  BY DEF NewPkts
<1>8. kept[0] \in S /\ \A i \in 1 .. L : kept[i - 1] \in S => kept[i] \in S
  <2> HIDE DEF kept, Add, S, L, empty
  <2>1. kept[0] = empty /\ \A i \in 1 .. L : kept[i] = Add(kept[i - 1], i)
    BY <1>1, <1>6
  <2> QED BY <1>1, <1>2, <2>1
<1>9. kept[L] \in S
  <2> HIDE DEF kept, L, S
  <2> QED BY <1>1, <1>8, IterationStays
<1> HIDE DEF kept
<1> QED BY <1>7, <1>9

LEMMA CheckInPktsType ==
  ASSUME NEW c \in TypedStream
  PROVE  CheckInPkts(c) \in TypedStream
<1> DEFINE d == ConsumeAll(c)
           q == NewPkts(d)
<1>1. d \in TypedStream
  <2>1. Len(c.inPkt) \in Nat
    BY DEF TypedStream
  <2> QED BY <2>1, ConsumeNextType, ConsumeAllStays
<1> HIDE DEF d
<1>2. q \in Seq(ShortPacket)
  <2>1. d.inPkt \in Seq(ShortPacket)
    BY <1>1 DEF TypedStream
  <2> QED BY <2>1, NewPktsFrom
<1>3. [d EXCEPT !.inPkt = q] \in TypedStream
  <2> HIDE DEF q
  <2> QED BY <1>1, <1>2, InPktType
<1> QED BY <1>3 DEF CheckInPkts, d

(* What a stream's buffer becomes when a packet joins it, full or not.     *)
LEMMA Enqueued ==
  ASSUME NEW T, NEW s \in Seq(T), NEW p \in T
  PROVE  (IF Len(Append(s, p)) > MaxQueue THEN Tail(Append(s, p)) ELSE Append(s, p))
           \in Seq(T)
<1>1. Append(s, p) \in Seq(T) /\ Append(s, p) # <<>>
  BY AppendProperties
<1> QED BY <1>1, HeadTailProperties

LEMMA EnqueueType ==
  ASSUME NEW c \in TypedStream, NEW p \in ShortPacket
  PROVE  Enqueue(c, p) \in TypedStream
<1> DEFINE q == IF Len(Append(c.inPkt, p)) > MaxQueue
                  THEN Tail(Append(c.inPkt, p)) ELSE Append(c.inPkt, p)
<1>1. q \in Seq(ShortPacket)
  <2>1. c.inPkt \in Seq(ShortPacket)
    BY DEF TypedStream
  <2> QED BY <2>1, Enqueued
<1>2. Enqueue(c, p) = [c EXCEPT !.inPkt = q]
  BY DEF Enqueue
<1> HIDE DEF q
<1> QED BY <1>1, <1>2, InPktType

LEMMA AckedType ==
  ASSUME NEW c \in TypedStream, NEW a \in SeqNum, NEW w \in Nat
  PROVE  [c EXCEPT !.outAcked = a, !.outWin = w] \in TypedStream
<1>1. PICK d : d = [c EXCEPT !.outAcked = a, !.outWin = w]
  OBVIOUS
<1>2. c = Fields(c) /\ Switches(c) /\ Numbers(c) /\ Windows(c) /\ Buffers(c)
  BY TypedParts
<1>3. d = Fields(d)
  BY <1>1, <1>2 DEF Fields
<1>4. Switches(d)
  BY <1>1, <1>2 DEF Fields, Switches
<1>5. Numbers(d)
  BY <1>1, <1>2 DEF Fields, Numbers
<1>6. Windows(d)
  BY <1>1, <1>2 DEF Fields, Windows
<1>7. Buffers(d)
  BY <1>1, <1>2 DEF Fields, Buffers
<1> QED BY <1>1, <1>3, <1>4, <1>5, <1>6, <1>7, PartsTyped

LEMMA IncomingEstablishedType ==
  ASSUME NEW c \in TypedStream, NEW p \in ShortPacket
  PROVE  IncomingEstablished(c, p) \in TypedStream
<1> DEFINE a == IF p.ack THEN p.ackno ELSE c.outAcked
           w == p.win
           d == IF InWindow(c, p) THEN [c EXCEPT !.outAcked = a, !.outWin = w]
                ELSE SendAck(c)
<1>1. a \in SeqNum /\ w \in Nat
  BY ShortPacketParts DEF TypedStream
<1>2. [c EXCEPT !.outAcked = a, !.outWin = w] \in TypedStream
  <2> HIDE DEF a, w
  <2> QED BY <1>1, AckedType
<1>3. d \in TypedStream
  BY <1>2, SendAckType
<1>4. IncomingEstablished(c, p) = CheckInPkts(Enqueue(d, p))
  BY DEF IncomingEstablished
<1> HIDE DEF d
<1> QED BY <1>3, <1>4, EnqueueType, CheckInPktsType

LEMMA HeardType ==
  ASSUME NEW c \in TypedStream, NEW s \in SeqNum, NEW a \in SeqNum,
         NEW w \in Nat, NEW v \in Nat
  PROVE  [c EXCEPT !.initPeer = s, !.inAckno = a, !.outWin = w, !.inWin = v]
           \in TypedStream
<1>1. PICK d : d = [c EXCEPT !.initPeer = s, !.inAckno = a, !.outWin = w, !.inWin = v]
  OBVIOUS
<1>2. c = Fields(c) /\ Switches(c) /\ Numbers(c) /\ Windows(c) /\ Buffers(c)
  BY TypedParts
<1>3. d = Fields(d)
  BY <1>1, <1>2 DEF Fields
<1>4. Switches(d)
  BY <1>1, <1>2 DEF Fields, Switches
<1>5. Numbers(d)
  BY <1>1, <1>2 DEF Fields, Numbers
<1>6. Windows(d)
  BY <1>1, <1>2 DEF Fields, Windows
<1>7. Buffers(d)
  BY <1>1, <1>2 DEF Fields, Buffers
<1> QED BY <1>1, <1>3, <1>4, <1>5, <1>6, <1>7, PartsTyped

LEMMA IncomingClosedType ==
  ASSUME NEW c \in TypedStream, NEW p \in ShortPacket, NEW isn \in SeqNum
  PROVE  IncomingClosed(c, p, isn) \in TypedStream
<1> DEFINE s == p.seqno
           a == SeqAdd(p.seqno, 1)
           w == p.win
           d == [c EXCEPT !.initPeer = s, !.inAckno = a, !.outWin = w, !.inWin = MaxWin]
           e == IF c.state = TCP_CLOSED
                  THEN ToSend(InitSeqnos(d, isn), SynPkt(TRUE), TRUE)
                  ELSE ToSend(d, AckPkt, TRUE)
<1>1. s \in SeqNum /\ w \in Nat /\ MaxWin \in Nat
  BY ShortPacketParts, Sizes
<1>2. a \in SeqNum
  <2>1. p.seqno \in SeqNum /\ 1 \in 0 .. SeqMod
    BY ShortPacketParts, Sizes
  <2> QED BY <2>1, SeqAddType
<1>3. d \in TypedStream
  <2> HIDE DEF s, a, w
  <2> QED BY <1>1, <1>2, HeardType
<1> HIDE DEF d
<1>4. e \in TypedStream
  <2>1. /\ SynPkt(TRUE) \in Flags /\ Len(SynPkt(TRUE).data) <= MaxSeg
        /\ AckPkt \in Flags /\ Len(AckPkt.data) <= MaxSeg /\ TRUE \in BOOLEAN
    <3>1. Len(<<>>) <= MaxSeg
      BY Sizes
    <3> QED BY <3>1, FlagsOfAck
  <2>2. InitSeqnos(d, isn) \in TypedStream
    BY <1>3, InitSeqnosType
  <2> QED BY <1>3, <2>1, <2>2, ToSendType
<1>5. IncomingClosed(c, p, isn) \in {c, [e EXCEPT !.state = TCP_SYN_RCVD]}
  BY DEF IncomingClosed, d
<1>6. [e EXCEPT !.state = TCP_SYN_RCVD] \in TypedStream
  <2>1. TCP_SYN_RCVD \in 0 .. 10
    BY DEF TCP_SYN_RCVD
  <2> HIDE DEF e
  <2> QED BY <1>4, <2>1, StateType
<1> QED BY <1>5, <1>6

LEMMA EstablishType ==
  ASSUME NEW c \in TypedStream, NEW p \in ShortPacket
  PROVE  Establish(c, p) \in TypedStream
<1> DEFINE w == p.win
           a == p.ackno
<1>1. PICK d : d = Establish(c, p)
  OBVIOUS
<1>2. c = Fields(c) /\ Switches(c) /\ Numbers(c) /\ Windows(c) /\ Buffers(c)
  BY TypedParts
<1>3. w \in Nat /\ a \in SeqNum
  BY ShortPacketParts
<1>4. d = [c EXCEPT !.outWin = w, !.outAcked = a, !.state = TCP_ESTABLISHED,
                    !.inActive = TRUE, !.outActive = TRUE]
  BY <1>1 DEF Establish
<1> HIDE DEF w, a
<1>5. d = Fields(d)
  BY <1>2, <1>4 DEF Fields
<1>6. Switches(d)
  BY <1>2, <1>4 DEF Fields, Switches, TCP_ESTABLISHED
<1>7. Numbers(d)
  BY <1>2, <1>3, <1>4 DEF Fields, Numbers
<1>8. Windows(d)
  BY <1>2, <1>3, <1>4 DEF Fields, Windows
<1>9. Buffers(d)
  BY <1>2, <1>4 DEF Fields, Buffers
<1> QED BY <1>1, <1>5, <1>6, <1>7, <1>8, <1>9, PartsTyped

LEMMA InAcknoType ==
  ASSUME NEW c \in TypedStream, NEW a \in SeqNum
  PROVE  [c EXCEPT !.inAckno = a] \in TypedStream
<1>1. PICK d : d = [c EXCEPT !.inAckno = a]
  OBVIOUS
<1>2. c = Fields(c) /\ Switches(c) /\ Numbers(c) /\ Windows(c) /\ Buffers(c)
  BY TypedParts
<1>3. d = Fields(d)
  BY <1>1, <1>2 DEF Fields
<1>4. Switches(d)
  BY <1>1, <1>2 DEF Fields, Switches
<1>5. Numbers(d)
  BY <1>1, <1>2 DEF Fields, Numbers
<1>6. Windows(d)
  BY <1>1, <1>2 DEF Fields, Windows
<1>7. Buffers(d)
  BY <1>1, <1>2 DEF Fields, Buffers
<1> QED BY <1>1, <1>3, <1>4, <1>5, <1>6, <1>7, PartsTyped

LEMMA SynAckedType ==
  ASSUME NEW c \in TypedStream, NEW s \in SeqNum, NEW a \in SeqNum
  PROVE  [c EXCEPT !.initPeer = s, !.inAckno = a] \in TypedStream
<1>1. PICK d : d = [c EXCEPT !.initPeer = s, !.inAckno = a]
  OBVIOUS
<1>2. c = Fields(c) /\ Switches(c) /\ Numbers(c) /\ Windows(c) /\ Buffers(c)
  BY TypedParts
<1>3. d = Fields(d)
  BY <1>1, <1>2 DEF Fields
<1>4. Switches(d)
  BY <1>1, <1>2 DEF Fields, Switches
<1>5. Numbers(d)
  BY <1>1, <1>2 DEF Fields, Numbers
<1>6. Windows(d)
  BY <1>1, <1>2 DEF Fields, Windows
<1>7. Buffers(d)
  BY <1>1, <1>2 DEF Fields, Buffers
<1> QED BY <1>1, <1>3, <1>4, <1>5, <1>6, <1>7, PartsTyped

LEMMA HandleIncomingType ==
  ASSUME NEW c \in TypedStream, NEW p \in ShortPacket, NEW isn \in SeqNum
  PROVE  HandleIncoming(c, p, isn) \in TypedStream
<1> DEFINE s == p.seqno
           a == SeqAdd(p.seqno, 1)
           heard == [c EXCEPT !.initPeer = s, !.inAckno = a]
           opened == Establish(SendAck(heard), p)
           starts == Establish([c EXCEPT !.inAckno = s], p)
<1>1. s \in SeqNum /\ a \in SeqNum
  <2>1. p.seqno \in SeqNum /\ 1 \in 0 .. SeqMod
    BY ShortPacketParts, Sizes
  <2> QED BY <2>1, SeqAddType
<1>2. opened \in TypedStream
  <2>1. heard \in TypedStream
    <3> HIDE DEF s, a
    <3> QED BY <1>1, SynAckedType
  <2> HIDE DEF heard
  <2> QED BY <2>1, SendAckType, EstablishType
<1>3. starts \in TypedStream
  <2> HIDE DEF s
  <2> QED BY <1>1, InAcknoType, EstablishType
<1>4. IncomingClosed(c, p, isn) \in TypedStream
  BY IncomingClosedType
<1>5. IncomingSynSent(c, p, isn) \in TypedStream
  <2>1. IncomingSynSent(c, p, isn) \in {IncomingClosed(c, p, isn), c, opened}
    BY DEF IncomingSynSent
  <2> HIDE DEF opened
  <2> QED BY <1>2, <1>4, <2>1
<1>6. IncomingSynRcvd(c, p) \in TypedStream
  <2>1. IncomingSynRcvd(c, p) \in {c, starts, IncomingEstablished(starts, p)}
    BY DEF IncomingSynRcvd
  <2> HIDE DEF starts
  <2> QED BY <1>3, <2>1, IncomingEstablishedType
<1>7. [c EXCEPT !.state = TCP_CLOSED] \in TypedStream
  <2>1. TCP_CLOSED \in 0 .. 10
    BY DEF TCP_CLOSED
  <2> QED BY <2>1, StateType
<1>8. IncomingEstablished(c, p) \in TypedStream
  BY IncomingEstablishedType
<1>9. HandleIncoming(c, p, isn) \in
        {IncomingClosed(c, p, isn), IncomingSynSent(c, p, isn),
         IncomingSynRcvd(c, p), [c EXCEPT !.state = TCP_CLOSED],
         IncomingEstablished(c, p)}
  BY DEF HandleIncoming, TCP_CLOSED, TCP_LISTEN, TCP_SYN_SENT, TCP_SYN_RCVD,
         TCP_TIMED_WAIT
<1> QED BY <1>4, <1>5, <1>6, <1>7, <1>8, <1>9

(* The type invariant, with the bounds that it rests on.                   *)
Bounded ==
    /\ stream \in [Ends -> TypedStream]
    /\ net \in [Ends -> SUBSET ShortPacket]
    /\ reg \in [Ends -> BOOLEAN]
    /\ written \in [Ends -> Nat]
    /\ received \in [Ends -> Seq(Byte)]
    /\ opens \in [Ends -> Seq(Nat)]
    /\ losses \in Nat
    /\ repeats \in Nat

LEMMA BoundedTypes == Bounded => TypeOK
<1>1. ShortPacket \subseteq Packet
  BY DEF ShortPacket
<1> QED BY <1>1, TypedIsStream DEF Bounded, TypeOK

LEMMA PeerIsEnd ==
  ASSUME NEW e \in Ends
  PROVE  /\ Peer(e) \in Ends /\ Peer(e) # e /\ Peer(Peer(e)) = e
         /\ \A d \in Ends : d = e \/ d = Peer(e)
  BY DEF Peer, Ends

LEMMA InitBounded == Init => Bounded
<1> SUFFICES ASSUME Init PROVE Bounded
  OBVIOUS
<1>1. stream \in [Ends -> TypedStream]
  BY NewStreamType DEF Init
<1>2. <<>> \in Seq(Byte) /\ <<>> \in Seq(Nat)
  OBVIOUS
<1> QED BY <1>1, <1>2 DEF Init, Bounded

LEMMA NoTxType ==
  ASSUME NEW c \in TypedStream
  PROVE  [c EXCEPT !.tx = {}] \in TypedStream
<1>1. PICK d : d = [c EXCEPT !.tx = {}]
  OBVIOUS
<1>2. c = Fields(c) /\ Switches(c) /\ Numbers(c) /\ Windows(c) /\ Buffers(c)
  BY TypedParts
<1>3. d = Fields(d)
  BY <1>1, <1>2 DEF Fields
<1>4. Switches(d)
  BY <1>1, <1>2 DEF Fields, Switches
<1>5. Numbers(d)
  BY <1>1, <1>2 DEF Fields, Numbers
<1>6. Windows(d)
  BY <1>1, <1>2 DEF Fields, Windows
<1>7. Buffers(d)
  BY <1>1, <1>2 DEF Fields, Buffers
<1> QED BY <1>1, <1>3, <1>4, <1>5, <1>6, <1>7, PartsTyped

LEMMA KnownType ==
  ASSUME NEW c \in TypedStream
  PROVE  [c EXCEPT !.known = TRUE] \in TypedStream
<1>1. PICK d : d = [c EXCEPT !.known = TRUE]
  OBVIOUS
<1>2. c = Fields(c) /\ Switches(c) /\ Numbers(c) /\ Windows(c) /\ Buffers(c)
  BY TypedParts
<1>3. d = Fields(d)
  BY <1>1, <1>2 DEF Fields
<1>4. Switches(d)
  BY <1>1, <1>2 DEF Fields, Switches
<1>5. Numbers(d)
  BY <1>1, <1>2 DEF Fields, Numbers
<1>6. Windows(d)
  BY <1>1, <1>2 DEF Fields, Windows
<1>7. Buffers(d)
  BY <1>1, <1>2 DEF Fields, Buffers
<1> QED BY <1>1, <1>3, <1>4, <1>5, <1>6, <1>7, PartsTyped

LEMMA OutActiveType ==
  ASSUME NEW c \in TypedStream
  PROVE  [c EXCEPT !.outActive = FALSE] \in TypedStream
<1>1. PICK d : d = [c EXCEPT !.outActive = FALSE]
  OBVIOUS
<1>2. c = Fields(c) /\ Switches(c) /\ Numbers(c) /\ Windows(c) /\ Buffers(c)
  BY TypedParts
<1>3. d = Fields(d)
  BY <1>1, <1>2 DEF Fields
<1>4. Switches(d)
  BY <1>1, <1>2 DEF Fields, Switches
<1>5. Numbers(d)
  BY <1>1, <1>2 DEF Fields, Numbers
<1>6. Windows(d)
  BY <1>1, <1>2 DEF Fields, Windows
<1>7. Buffers(d)
  BY <1>1, <1>2 DEF Fields, Buffers
<1> QED BY <1>1, <1>3, <1>4, <1>5, <1>6, <1>7, PartsTyped

LEMMA OutQueueType ==
  ASSUME NEW c \in TypedStream, NEW q \in Seq(Byte)
  PROVE  [c EXCEPT !.outQueue = q] \in TypedStream
<1>1. PICK d : d = [c EXCEPT !.outQueue = q]
  OBVIOUS
<1>2. c = Fields(c) /\ Switches(c) /\ Numbers(c) /\ Windows(c) /\ Buffers(c)
  BY TypedParts
<1>3. d = Fields(d)
  BY <1>1, <1>2 DEF Fields
<1>4. Switches(d)
  BY <1>1, <1>2 DEF Fields, Switches
<1>5. Numbers(d)
  BY <1>1, <1>2 DEF Fields, Numbers
<1>6. Windows(d)
  BY <1>1, <1>2 DEF Fields, Windows
<1>7. Buffers(d)
  BY <1>1, <1>2 DEF Fields, Buffers
<1> QED BY <1>1, <1>3, <1>4, <1>5, <1>6, <1>7, PartsTyped

LEMMA UpdateType ==
  ASSUME Bounded, NEW e \in Ends, NEW c \in TypedStream, Update(e, c)
  PROVE  stream' \in [Ends -> TypedStream] /\ net' \in [Ends -> SUBSET ShortPacket]
<1>1. [c EXCEPT !.tx = {}] \in TypedStream
  BY NoTxType
<1>2. c.tx \in SUBSET ShortPacket
  BY DEF TypedStream
<1>3. Peer(e) \in Ends
  BY PeerIsEnd
<1> QED BY <1>1, <1>2, <1>3 DEF Update, Bounded

LEMMA IsnType ==
  ASSUME NEW e \in Ends, Bounded, MayOpen(e)
  PROVE  NextIsn(e) \in SeqNum
<1>1. ISN[e] \in Seq(SeqNum) /\ Len(opens[e]) \in Nat
  BY BoundsAssumption DEF Bounded
<1>2. Len(opens[e]) + 1 \in 1 .. Len(ISN[e])
  BY <1>1 DEF MayOpen
<1> QED BY <1>1, <1>2, ElementOfSeq DEF NextIsn

LEMMA OpensType ==
  ASSUME NEW e \in Ends, Bounded, opens' = [opens EXCEPT ![e] = Append(@, written[e])]
  PROVE  opens' \in [Ends -> Seq(Nat)]
<1>1. Append(opens[e], written[e]) \in Seq(Nat)
  BY AppendProperties DEF Bounded
<1> QED BY <1>1 DEF Bounded

LEMMA ConnectType ==
  ASSUME NEW e \in Ends, Bounded, Connect(e)
  PROVE  Bounded'
<1> DEFINE c == [stream[e] EXCEPT !.known = TRUE]
           d == ToSend(InitSeqnos(c, NextIsn(e)), SynPkt(FALSE), TRUE)
           s == TCP_SYN_SENT
<1>1. c \in TypedStream
  BY KnownType DEF Bounded
<1>2. CASE c.state = TCP_CLOSED
  <2>1. /\ MayOpen(e) /\ opens' = [opens EXCEPT ![e] = Append(@, written[e])]
        /\ received' = [received EXCEPT ![e] = <<>>]
        /\ Update(e, [d EXCEPT !.state = s])
    BY <1>2 DEF Connect
  <2>2. InitSeqnos(c, NextIsn(e)) \in TypedStream
    <3> HIDE DEF c
    <3> QED BY <1>1, <2>1, IsnType, InitSeqnosType
  <2>3. d \in TypedStream
    <3>1. SynPkt(FALSE) \in Flags /\ Len(SynPkt(FALSE).data) <= MaxSeg /\ TRUE \in BOOLEAN
      <4>1. Len(<<>>) <= MaxSeg
        BY Sizes
      <4> QED BY <4>1, FlagsOfAck
    <3> HIDE DEF c
    <3> QED BY <2>2, <3>1, ToSendType
  <2>4. [d EXCEPT !.state = s] \in TypedStream
    <3>1. s \in 0 .. 10
      BY DEF TCP_SYN_SENT
    <3> HIDE DEF d, s
    <3> QED BY <2>3, <3>1, StateType
  <2>5. stream' \in [Ends -> TypedStream] /\ net' \in [Ends -> SUBSET ShortPacket]
    <3> HIDE DEF d, s
    <3> QED BY <2>1, <2>4, UpdateType
  <2>6. opens' \in [Ends -> Seq(Nat)]
    BY <2>1, OpensType
  <2>7. received' \in [Ends -> Seq(Byte)]
    <3>1. <<>> \in Seq(Byte)
      OBVIOUS
    <3> QED BY <2>1, <3>1 DEF Bounded
  <2>8. UNCHANGED <<reg, written, losses, repeats>>
    BY DEF Connect
  <2> QED BY <2>5, <2>6, <2>7, <2>8 DEF Bounded
<1>3. CASE c.state # TCP_CLOSED
  <2>1. Update(e, c) /\ UNCHANGED <<opens, received>>
    BY <1>3 DEF Connect
  <2>2. stream' \in [Ends -> TypedStream] /\ net' \in [Ends -> SUBSET ShortPacket]
    <3> HIDE DEF c
    <3> QED BY <1>1, <2>1, UpdateType
  <2>3. UNCHANGED <<reg, written, losses, repeats>>
    BY DEF Connect
  <2> QED BY <2>1, <2>2, <2>3 DEF Bounded
<1> QED BY <1>2, <1>3

LEMMA WriteType ==
  ASSUME NEW e \in Ends, NEW size \in WriteSizes, Bounded, Write(e, size)
  PROVE  Bounded'
<1> DEFINE new == [i \in 1 .. size |-> written[e] + i]
           q == stream[e].inQueue \o new
<1>1. size \in Nat /\ written[e] \in Nat
  BY BoundsAssumption DEF Bounded
<1>2. new \in Seq(Byte)
  <2>1. \A i \in 1 .. size : written[e] + i \in Byte
    BY <1>1 DEF Byte
  <2> QED BY <1>1, <2>1
<1>3. stream[e] \in TypedStream /\ stream[e].inQueue \in Seq(Byte)
  BY DEF Bounded, TypedStream
<1>4. q \in Seq(Byte)
  <2> HIDE DEF new
  <2> QED BY <1>2, <1>3, ConcatProperties
<1>5. stream' = [stream EXCEPT ![e] = [stream[e] EXCEPT !.inQueue = q]]
  BY DEF Write
<1>6. [stream[e] EXCEPT !.inQueue = q] \in TypedStream
  <2> HIDE DEF q
  <2> QED BY <1>3, <1>4, InQueueType
<1>7. stream' \in [Ends -> TypedStream]
  <2> HIDE DEF q
  <2> QED BY <1>5, <1>6 DEF Bounded
<1>8. written' \in [Ends -> Nat]
  BY <1>1 DEF Write, Bounded
<1>9. UNCHANGED <<reg, net, received, opens, losses, repeats>>
  BY DEF Write
<1> QED BY <1>7, <1>8, <1>9 DEF Bounded

LEMMA ReadType ==
  ASSUME NEW e \in Ends, NEW size \in ReadSizes, Bounded, Read(e, size)
  PROVE  Bounded'
<1> DEFINE c == stream[e]
           n == IF Len(c.outQueue) < size THEN Len(c.outQueue) ELSE size
           rest == SubSeq(c.outQueue, n + 1, Len(c.outQueue))
           front == SubSeq(c.outQueue, 1, n)
           d == UpdateInWinSize([c EXCEPT !.outQueue = rest])
<1>1. c \in TypedStream /\ c.outQueue \in Seq(Byte) /\ size \in Nat
  BY BoundsAssumption DEF Bounded, TypedStream
<1>2. n \in 0 .. Len(c.outQueue)
  <2> HIDE DEF c
  <2> QED BY <1>1
<1>3. rest \in Seq(Byte)
  <2> HIDE DEF c, n
  <2> QED BY <1>1, <1>2, Rest
<1>4. front \in Seq(Byte)
  <2> HIDE DEF c, n
  <2>1. 1 \in Int /\ n \in Int /\ \A i \in 1 .. n : c.outQueue[i] \in Byte
    BY <1>1, <1>2, ElementOfSeq
  <2> QED BY <2>1, SubSeqProperties
<1>5. d \in TypedStream
  <2>1. [c EXCEPT !.outQueue = rest] \in TypedStream
    <3> HIDE DEF c, rest
    <3> QED BY <1>1, <1>3, OutQueueType
  <2> QED BY <2>1, UpdateInWinSizeType
<1>6. stream' = [stream EXCEPT ![e] = d]
  BY DEF Read
<1>7. received' = [received EXCEPT ![e] = received[e] \o front]
  BY DEF Read
<1>8. stream' \in [Ends -> TypedStream]
  <2> HIDE DEF d
  <2> QED BY <1>5, <1>6 DEF Bounded
<1>9. received' \in [Ends -> Seq(Byte)]
  <2> HIDE DEF front
  <2>1. received[e] \o front \in Seq(Byte)
    BY <1>4, ConcatProperties DEF Bounded
  <2> QED BY <1>7, <2>1 DEF Bounded
<1>10. UNCHANGED <<reg, net, written, opens, losses, repeats>>
  BY DEF Read
<1> QED BY <1>8, <1>9, <1>10 DEF Bounded

LEMMA RecvPktType ==
  ASSUME NEW e \in Ends, NEW p \in net[e], NEW again \in BOOLEAN,
         Bounded, RecvPkt(e, p, again)
  PROVE  Bounded'
<1> DEFINE genSeq == TakesIsn(stream[e], p)
           isn == IF genSeq THEN NextIsn(e) ELSE 0
           c == HandleIncoming(stream[e], p, isn)
           d == [c EXCEPT !.tx = {}]
<1>1. p \in ShortPacket /\ stream[e] \in TypedStream /\ Peer(e) \in Ends
  BY PeerIsEnd DEF Bounded
<1>2. isn \in SeqNum
  <2>1. genSeq => MayOpen(e)
    BY DEF RecvPkt
  <2>2. 0 \in SeqNum
    BY Sizes DEF SeqNum
  <2> QED BY <2>1, <2>2, IsnType
<1>3. c \in TypedStream
  <2> HIDE DEF isn
  <2> QED BY <1>1, <1>2, HandleIncomingType
<1>4. /\ stream' = [stream EXCEPT ![e] = d]
      /\ net' = [net EXCEPT ![Peer(e)] = @ \cup c.tx,
                            ![e] = IF again THEN @ ELSE @ \ {p}]
      /\ opens' = [opens EXCEPT ![e] = IF genSeq THEN Append(@, written[e]) ELSE @]
      /\ received' = [received EXCEPT ![e] = IF genSeq THEN <<>> ELSE @]
      /\ repeats' = IF again THEN repeats + 1 ELSE repeats
      /\ UNCHANGED <<reg, written, losses>>
  BY DEF RecvPkt
<1> HIDE DEF c, genSeq
<1>5. d \in TypedStream /\ c.tx \in SUBSET ShortPacket
  BY <1>3, NoTxType DEF TypedStream
<1> HIDE DEF d
<1>6. stream' \in [Ends -> TypedStream]
  BY <1>4, <1>5 DEF Bounded
<1>7. net' \in [Ends -> SUBSET ShortPacket]
  BY <1>1, <1>4, <1>5 DEF Bounded
<1>8. opens' \in [Ends -> Seq(Nat)]
  <2>1. Append(opens[e], written[e]) \in Seq(Nat)
    BY AppendProperties DEF Bounded
  <2> QED BY <1>4, <2>1 DEF Bounded
<1>9. received' \in [Ends -> Seq(Byte)]
  <2>1. <<>> \in Seq(Byte)
    OBVIOUS
  <2> QED BY <1>4, <2>1 DEF Bounded
<1>10. repeats' \in Nat
  BY <1>4 DEF Bounded
<1>11. reg' \in [Ends -> BOOLEAN] /\ written' \in [Ends -> Nat] /\ losses' \in Nat
  BY <1>4 DEF Bounded
<1> QED BY <1>6, <1>7, <1>8, <1>9, <1>10, <1>11 DEF Bounded

LEMMA NextBounded == Bounded /\ [Next]_vars => Bounded'
<1> SUFFICES ASSUME Bounded, [Next]_vars PROVE Bounded'
  OBVIOUS
<1>1. ASSUME NEW e \in Ends, AddUdpPeer(e) PROVE Bounded'
  BY <1>1 DEF AddUdpPeer, Bounded
<1>2. ASSUME NEW e \in Ends, Connect(e) PROVE Bounded'
  BY <1>2, ConnectType
<1>3. ASSUME NEW e \in Ends, ListenFor(e) PROVE Bounded'
  <2>1. stream' = [stream EXCEPT ![e] = [stream[e] EXCEPT !.known = TRUE]]
    BY <1>3 DEF ListenFor
  <2>2. [stream[e] EXCEPT !.known = TRUE] \in TypedStream
    BY KnownType DEF Bounded
  <2>3. stream' \in [Ends -> TypedStream]
    BY <2>1, <2>2 DEF Bounded
  <2>4. UNCHANGED <<reg, net, written, received, opens, losses, repeats>>
    BY <1>3 DEF ListenFor
  <2> QED BY <2>3, <2>4 DEF Bounded
<1>4. ASSUME NEW e \in Ends, NEW size \in WriteSizes, Write(e, size) PROVE Bounded'
  BY <1>4, WriteType
<1>5. ASSUME NEW e \in Ends, NEW size \in ReadSizes, Read(e, size) PROVE Bounded'
  BY <1>5, ReadType
<1>6. ASSUME NEW e \in Ends, CloseWrite(e) PROVE Bounded'
  <2>1. stream' = [stream EXCEPT ![e] = [stream[e] EXCEPT !.outActive = FALSE]]
    BY <1>6 DEF CloseWrite
  <2>2. [stream[e] EXCEPT !.outActive = FALSE] \in TypedStream
    BY OutActiveType DEF Bounded
  <2>3. stream' \in [Ends -> TypedStream]
    BY <2>1, <2>2 DEF Bounded
  <2>4. UNCHANGED <<reg, net, written, received, opens, losses, repeats>>
    BY <1>6 DEF CloseWrite
  <2> QED BY <2>3, <2>4 DEF Bounded
<1>7. ASSUME NEW e \in Ends, NEW t \in Timeouts, Tick(e, t) PROVE Bounded'
  <2>1. TickStream(stream[e], t) \in TypedStream
    BY TickStreamType DEF Bounded
  <2>2. stream' \in [Ends -> TypedStream] /\ net' \in [Ends -> SUBSET ShortPacket]
    BY <1>7, <2>1, UpdateType DEF Tick
  <2>3. UNCHANGED <<reg, written, received, opens, losses, repeats>>
    BY <1>7 DEF Tick
  <2> QED BY <2>2, <2>3 DEF Bounded
<1>8. ASSUME NEW e \in Ends, NEW t \in Timeouts, Close(e, t) PROVE Bounded'
  <2>1. TickStream(stream[e], t) \in TypedStream /\ Peer(e) \in Ends
    BY TickStreamType, PeerIsEnd DEF Bounded
  <2>2. TickStream(stream[e], t).tx \in SUBSET ShortPacket
    BY <2>1 DEF TypedStream
  <2>3. stream' \in [Ends -> TypedStream]
    BY <1>8, NewStreamType DEF Close, Bounded
  <2>4. net' \in [Ends -> SUBSET ShortPacket]
    BY <1>8, <2>1, <2>2 DEF Close, Bounded
  <2>5. reg' \in [Ends -> BOOLEAN] /\ UNCHANGED <<written, received, opens, losses, repeats>>
    BY <1>8 DEF Close, Bounded
  <2> QED BY <2>3, <2>4, <2>5 DEF Bounded
<1>9. ASSUME NEW e \in Ends, NEW p \in net[e], NEW again \in BOOLEAN, RecvPkt(e, p, again)
      PROVE  Bounded'
  BY <1>9, RecvPktType
<1>10. ASSUME NEW e \in Ends, NEW p \in net[e], Unclaimed(e, p) PROVE Bounded'
  <2>1. net' \in [Ends -> SUBSET ShortPacket]
    BY <1>10 DEF Unclaimed, Bounded
  <2> QED BY <1>10, <2>1 DEF Unclaimed, Bounded
<1>11. ASSUME NEW e \in Ends, NEW p \in net[e], Lose(e, p) PROVE Bounded'
  <2>1. net' \in [Ends -> SUBSET ShortPacket]
    BY <1>11 DEF Lose, Bounded
  <2> QED BY <1>11, <2>1 DEF Lose, Bounded
<1>12. CASE UNCHANGED vars
  BY <1>12 DEF vars, Bounded
<1> QED BY <1>1, <1>2, <1>3, <1>4, <1>5, <1>6, <1>7, <1>8, <1>9, <1>10, <1>11, <1>12
        DEF Next

(* The stream objects, the packets on the network and what is kept of the  *)
(* past have their types: sequence numbers stay 32 bit numbers, through    *)
(* every sum tcpstream.cc makes of them, and windows never get negative.   *)
THEOREM StreamTypes == Spec => []TypeOK
<1>1. Bounded /\ [Next]_vars => Bounded'
  BY NextBounded
<1> QED BY <1>1, InitBounded, BoundedTypes, PTL DEF Spec

(***************************************************************************)
(* One opening of each end: what the packets hold, and what is delivered   *)
(***************************************************************************)

(* Each end draws one sequence number, so it opens at most one connection, *)
(* and no more bytes are written than there are sequence numbers.  With    *)
(* draws for a second connection that are near those of the first, packets *)
(* of the first are taken for packets of the second and NoGaps is false.   *)
OpensOnce ==
    /\ \A e \in Ends : Len(ISN[e]) = 1
    /\ MaxBytes < SeqMod

(* The sequence number of the first byte that e sends.                     *)
First(e) == SeqAdd(ISN[e][1], 1)

(* How many bytes come before s in the stream that starts at b.            *)
Before(s, b) == SeqSub(s, b)

(* p is a packet of the stream that starts at b, of which w bytes have     *)
(* been written: its bytes are those its sequence number says, and a FIN   *)
(* comes after the last byte.                                              *)
Honest(p, b, w) ==
    /\ p.data # <<>> => Before(p.seqno, b) + Len(p.data) <= w
    /\ \A i \in 1 .. Len(p.data) : p.data[i] = Before(p.seqno, b) + i
    /\ p.fin => Before(p.seqno, b) = w

HonestPackets(b, w) == {p \in ShortPacket : Honest(p, b, w)}

(* What is sent again: never a FIN.                                        *)
HonestOut(b, w) == [pkt : {p \in HonestPackets(b, w) : ~p.fin}, retrans : Nat]

Opening(c) == c.state \in {TCP_SYN_SENT, TCP_SYN_RCVD}
Opened(c) == c.state >= TCP_ESTABLISHED

(* The sending half of c, whose stream starts at b, of which w bytes have  *)
(* been written: inQueue holds the last of them, and outSeqno is the       *)
(* number of its first byte.                                               *)
SendsHonest(c, b, w) ==
    /\ c.state \notin {TCP_LISTEN, TCP_TIMED_WAIT}
    /\ c.outPkt \in Seq(HonestOut(b, w))
    /\ ~Opened(c) => c.inQueue = <<>>
    /\ Opening(c) => w = 0
    /\ c.state = TCP_SYN_SENT => c.outSeqno = b
    /\ Opening(c) /\ c.outSeqno = b => c.known
    /\ Opened(c) =>
         /\ c.known
         /\ Len(c.inQueue) <= w
         /\ Before(c.outSeqno, b) = w - Len(c.inQueue)
         /\ \A i \in 1 .. Len(c.inQueue) : c.inQueue[i] = w - Len(c.inQueue) + i

Consecutive(s) == \A i \in 1 .. Len(s) - 1 : s[i + 1] = s[i] + 1

(* The receiving half: r has been read of the stream that starts at b, of  *)
(* which w bytes have been written.                                        *)
ReceivesHonest(c, r, b, w) ==
    LET delivered == r \o c.outQueue
    IN  /\ c.inPkt \in Seq(HonestPackets(b, w))
        /\ Consecutive(delivered)
        /\ ~Opened(c) => c.outQueue = <<>> /\ c.inPkt = <<>>
        /\ Opening(c) => r = <<>>
        /\ Opened(c) /\ delivered # <<>> =>
             delivered[Len(delivered)] = Before(c.inAckno, b)
        /\ c.state \in {TCP_CLOSE_WAIT, TCP_CLOSING, TCP_LAST_ACK} =>
             Before(c.inAckno, b) = w

(* The application of e writes no more in this connection, nor in another. *)
Frozen(e) == opens[e] # <<>> /\ ~Opening(stream[e]) /\ ~stream[e].outActive

(* The end of the stream from Peer(e) is on its way to e, or was taken.    *)
EndSeen(e) ==
    \/ \E p \in net[e] : p.fin
    \/ \E i \in 1 .. Len(stream[e].inPkt) : stream[e].inPkt[i].fin
    \/ stream[e].state \in {TCP_CLOSE_WAIT, TCP_CLOSING, TCP_LAST_ACK}

(* e has not sent a thing: it has not opened, or it has answered a SYN     *)
(* before it was connected to its receiver, so that its own was not sent.  *)
Silent(c, b) == c.state = TCP_SYN_RCVD /\ c.outSeqno # b

Mute(e) == opens[e] = <<>> \/ Silent(stream[e], First(e))

(* So the other end has heard nothing, and acknowledges nothing.           *)
IsFirstSyn(p) == p.syn /\ ~p.ack

Unheard(e) ==
    LET d == stream[Peer(e)]
    IN  /\ net[Peer(e)] = {}
        /\ \A p \in net[e] : ~p.ack
        /\ stream[e].outPkt = <<>>
        /\ d.state \in {TCP_CLOSED, TCP_SYN_SENT}
        /\ \A i \in 1 .. Len(d.outPkt) : IsFirstSyn(d.outPkt[i].pkt)

StartsClosed(e) ==
    opens[e] = <<>> => stream[e].state = TCP_CLOSED /\ written[e] = 0

HonestInv ==
    /\ \A e \in Ends : written[e] <= MaxBytes
    /\ \A e \in Ends : stream[e].tx = {} /\ Len(opens[e]) <= 1
    /\ \A e \in Ends : SendsHonest(stream[e], First(e), written[e])
    /\ \A e \in Ends :
         ReceivesHonest(stream[e], received[e], First(Peer(e)), written[Peer(e)])
    /\ \A e \in Ends : net[e] \subseteq HonestPackets(First(Peer(e)), written[Peer(e)])
    /\ \A e \in Ends : EndSeen(e) => Frozen(Peer(e))
    /\ \A e \in Ends : Mute(e) => Unheard(e)
    /\ \A e \in Ends : StartsClosed(e)

(* What the lemmas about one stream say of its surroundings: what has been *)
(* read, where the stream it sends starts and how long it is, and the same *)
(* of the stream it receives.                                              *)
Context == [r : Seq(Byte), b : SeqNum, w : 0 .. SeqMod - 1,
            pb : SeqNum, pw : 0 .. SeqMod - 1]

(* No more is written to c, now or later.                                  *)
Still(c) == ~Opening(c) /\ ~c.outActive

(* The end of what c receives has arrived.                                 *)
FinIn(c) ==
    \/ \E i \in 1 .. Len(c.inPkt) : c.inPkt[i].fin
    \/ c.state \in {TCP_CLOSE_WAIT, TCP_CLOSING, TCP_LAST_ACK}

(* c is as the invariant wants it, in the middle of a method that found it *)
(* as c0.                                                                  *)
Fine(c, c0, k) ==
    /\ c \in TypedStream
    /\ SendsHonest(c, k.b, k.w)
    /\ ReceivesHonest(c, k.r, k.pb, k.pw)
    /\ c.tx \subseteq HonestPackets(k.b, k.w)
    /\ (\E p \in c.tx : p.fin) => Still(c)
    /\ FinIn(c) => FinIn(c0)
    /\ Still(c0) => Still(c)
    /\ Silent(c, k.b) => Silent(c0, k.b)

LEMMA States ==
  /\ TCP_CLOSED = 0 /\ TCP_LISTEN = 1 /\ TCP_SYN_SENT = 2 /\ TCP_SYN_RCVD = 3
  /\ TCP_ESTABLISHED = 4 /\ TCP_FIN_WAIT_1 = 5 /\ TCP_FIN_WAIT_2 = 6
  /\ TCP_TIMED_WAIT = 7 /\ TCP_CLOSING = 8 /\ TCP_CLOSE_WAIT = 9 /\ TCP_LAST_ACK = 10
  BY DEF TCP_CLOSED, TCP_LISTEN, TCP_SYN_SENT, TCP_SYN_RCVD, TCP_ESTABLISHED,
         TCP_FIN_WAIT_1, TCP_FIN_WAIT_2, TCP_TIMED_WAIT, TCP_CLOSING,
         TCP_CLOSE_WAIT, TCP_LAST_ACK

LEMMA OpenedNotSilent ==
  ASSUME NEW c, Opened(c), NEW b
  PROVE  ~Silent(c, b) /\ ~Opening(c)
  BY States DEF Opened, Silent, Opening

LEMMA BeforeType ==
  ASSUME NEW s \in SeqNum, NEW b \in SeqNum
  PROVE  Before(s, b) \in Nat /\ Before(s, b) < SeqMod /\ Before(b, b) = 0
  BY Sizes DEF Before, SeqSub, SeqNum

LEMMA BeforeSum ==
  ASSUME NEW s \in SeqNum, NEW b \in SeqNum, NEW n \in Nat,
         Before(s, b) + n < SeqMod
  PROVE  Before(SeqAdd(s, n), b) = Before(s, b) + n
  BY Sizes DEF Before, SeqSub, SeqAdd, SeqNum

LEMMA AddNothing ==
  ASSUME NEW s \in SeqNum
  PROVE  SeqAdd(s, 0) = s
  BY Sizes DEF SeqAdd, SeqNum

(* A method that leaves these fields alone leaves the invariant alone.     *)
Same(c, d) ==
    /\ d.state = c.state /\ d.known = c.known /\ d.outActive = c.outActive
    /\ d.outSeqno = c.outSeqno /\ d.inAckno = c.inAckno
    /\ d.inQueue = c.inQueue /\ d.outQueue = c.outQueue
    /\ d.inPkt = c.inPkt /\ d.outPkt = c.outPkt

LEMMA SameFine ==
  ASSUME NEW c, NEW c0, NEW k, Fine(c, c0, k), NEW d \in TypedStream,
         Same(c, d), d.tx = c.tx
  PROVE  Fine(d, c0, k)
<1>1. SendsHonest(d, k.b, k.w)
  BY DEF Fine, SendsHonest, Same, Opening, Opened
<1>2. ReceivesHonest(d, k.r, k.pb, k.pw)
  BY DEF Fine, ReceivesHonest, Same, Opening, Opened
<1>3. Still(d) <=> Still(c)
  BY DEF Same, Still, Opening
<1>4. FinIn(d) <=> FinIn(c)
  BY DEF Same, FinIn
<1>5. Silent(d, k.b) <=> Silent(c, k.b)
  BY DEF Same, Silent
<1> QED BY <1>1, <1>2, <1>3, <1>4, <1>5 DEF Fine

(* The beginning of consecutive bytes.                                     *)
LEMMA FrontConsecutive ==
  ASSUME NEW r \in Seq(Byte), NEW q \in Seq(Byte), Consecutive(r \o q)
  PROVE  Consecutive(r) /\ r \o <<>> = r
<1>1. \A i \in 1 .. Len(r) : (r \o q)[i] = r[i]
  BY ConcatProperties
<1>2. Len(r \o q) = Len(r) + Len(q) /\ Len(r) \in Nat /\ Len(q) \in Nat
  BY ConcatProperties
<1>3. \A i \in 1 .. Len(r) - 1 : r[i + 1] = r[i] + 1
  <2> TAKE i \in 1 .. Len(r) - 1
  <2>1. i \in 1 .. Len(r) /\ i + 1 \in 1 .. Len(r) /\ i \in 1 .. Len(r \o q) - 1
    BY <1>2
  <2>2. (r \o q)[i + 1] = (r \o q)[i] + 1
    BY <2>1 DEF Consecutive
  <2> QED BY <1>1, <2>1, <2>2
<1> QED BY <1>3, ConcatEmptySeq DEF Consecutive

LEMMA CleanupFields ==
  ASSUME NEW c \in TypedStream
  PROVE  /\ Cleanup(c).state = TCP_CLOSED /\ Cleanup(c).outActive = FALSE
         /\ Cleanup(c).inQueue = <<>> /\ Cleanup(c).outQueue = <<>>
         /\ Cleanup(c).inPkt = <<>> /\ Cleanup(c).outPkt = <<>>
         /\ Cleanup(c).tx = c.tx /\ Cleanup(c).known = c.known
         /\ Cleanup(c).outSeqno = c.outSeqno /\ Cleanup(c).inAckno = c.inAckno
<1>1. c = Fields(c)
  BY TypedParts
<1>2. PICK d : d = Cleanup(c)
  OBVIOUS
<1>3. /\ d.state = TCP_CLOSED /\ d.outActive = FALSE
      /\ d.inQueue = <<>> /\ d.outQueue = <<>>
      /\ d.inPkt = <<>> /\ d.outPkt = <<>>
      /\ d.tx = c.tx /\ d.known = c.known
      /\ d.outSeqno = c.outSeqno /\ d.inAckno = c.inAckno
  BY <1>1, <1>2 DEF Cleanup, Fields
<1> QED BY <1>2, <1>3

LEMMA CleanupFine ==
  ASSUME NEW c, NEW c0, NEW k \in Context, Fine(c, c0, k)
  PROVE  Fine(Cleanup(c), c0, k)
<1>1. PICK d : d = Cleanup(c)
  OBVIOUS
<1>2. c \in TypedStream /\ d \in TypedStream
  BY <1>1, CleanupType DEF Fine
<1>3. /\ d.state = 0 /\ ~d.outActive /\ d.inQueue = <<>> /\ d.outQueue = <<>>
      /\ d.inPkt = <<>> /\ d.outPkt = <<>> /\ d.tx = c.tx
  BY <1>1, <1>2, CleanupFields, States
<1>4. Still(d) /\ ~Opened(d) /\ ~Opening(d)
  BY <1>3, States DEF Still, Opening, Opened
<1>5. ~FinIn(d) /\ ~Silent(d, k.b)
  BY <1>3, States DEF FinIn, Silent
<1>6. SendsHonest(d, k.b, k.w)
  <2>1. <<>> \in Seq(HonestOut(k.b, k.w))
    OBVIOUS
  <2> QED BY <1>3, <1>4, <2>1, States DEF SendsHonest
<1>7. ReceivesHonest(d, k.r, k.pb, k.pw)
  <2>1. k.r \in Seq(Byte) /\ c.outQueue \in Seq(Byte) /\ Consecutive(k.r \o c.outQueue)
    BY <1>2 DEF Fine, ReceivesHonest, Context, TypedStream
  <2>2. Consecutive(k.r \o d.outQueue)
    BY <1>3, <2>1, FrontConsecutive
  <2>3. <<>> \in Seq(HonestPackets(k.pb, k.pw))
    OBVIOUS
  <2> QED BY <1>3, <1>4, <2>2, <2>3, States DEF ReceivesHonest
<1> QED BY <1>1, <1>2, <1>3, <1>4, <1>5, <1>6, <1>7 DEF Fine

(* The packet that toSend makes.                                           *)
Made(c, pkt) ==
    [syn |-> pkt.syn, fin |-> pkt.fin, ack |-> pkt.ack, seqno |-> c.outSeqno,
     ackno |-> IF pkt.ack THEN c.inAckno ELSE 0, win |-> c.inWin,
     data |-> pkt.data]

LEMMA MadeType ==
  ASSUME NEW c \in TypedStream, NEW pkt \in Flags, Len(pkt.data) <= MaxSeg
  PROVE  /\ Made(c, pkt) \in ShortPacket
         /\ Made(c, pkt).seqno = c.outSeqno /\ Made(c, pkt).data = pkt.data
         /\ Made(c, pkt).fin = pkt.fin /\ Made(c, pkt).ack = pkt.ack
         /\ Made(c, pkt).syn = pkt.syn
<1>1. 0 \in SeqNum
  BY Sizes DEF SeqNum
<1> QED BY <1>1 DEF Made, ShortPacket, Packet, Flags, TypedStream

SentAs(d, c, pkt, retrans) ==
    /\ d.state = c.state /\ d.known = c.known /\ d.outActive = c.outActive
    /\ d.inAckno = c.inAckno /\ d.inQueue = c.inQueue
    /\ d.outQueue = c.outQueue /\ d.inPkt = c.inPkt
    /\ ~c.known => d = c
    /\ c.known =>
         /\ d.outSeqno = SeqAdd(c.outSeqno, IF pkt.syn THEN 1 ELSE Len(pkt.data))
         /\ d.tx = c.tx \cup {Made(c, pkt)}
         /\ retrans =>
              d.outPkt = Append(c.outPkt, [pkt |-> Made(c, pkt), retrans |-> 0])
         /\ ~retrans => d.outPkt = c.outPkt

LEMMA ToSendFields ==
  ASSUME NEW c \in TypedStream, NEW pkt, NEW retrans \in BOOLEAN
  PROVE  SentAs(ToSend(c, pkt, retrans), c, pkt, retrans)
<1> SUFFICES ASSUME NEW d, d = ToSend(c, pkt, retrans)
             PROVE  SentAs(d, c, pkt, retrans)
  OBVIOUS
<1> DEFINE p == Made(c, pkt)
           s == SeqAdd(c.outSeqno, IF pkt.syn THEN 1 ELSE Len(pkt.data))
           q == IF retrans THEN Append(c.outPkt, [pkt |-> p, retrans |-> 0]) ELSE c.outPkt
           tx == c.tx \cup {p}
           ack == p.ackno
           win == p.win
           on == c.timerOn \/ retrans
<1>1. c = Fields(c)
  BY TypedParts
<1>2. CASE ~c.known
  BY <1>2 DEF ToSend, SentAs
<1>3. CASE c.known
  <2>1. d = [c EXCEPT !.outSeqno = s, !.lastAck = ack, !.lastWin = win,
                      !.tx = tx, !.timerOn = on, !.outPkt = q]
    BY <1>3 DEF ToSend, Made
  <2> HIDE DEF p, s, q, tx, ack, win, on
  <2>2. /\ d.state = c.state /\ d.known = c.known /\ d.outActive = c.outActive
        /\ d.inAckno = c.inAckno /\ d.inQueue = c.inQueue
        /\ d.outQueue = c.outQueue /\ d.inPkt = c.inPkt
    BY <1>1, <2>1 DEF Fields
  <2>3. d.outSeqno = s /\ d.tx = tx /\ d.outPkt = q
    BY <1>1, <2>1 DEF Fields
  <2> QED BY <1>3, <2>2, <2>3 DEF s, tx, q, p, SentAs
<1> QED BY <1>2, <1>3

(* A packet without data that is not a FIN is always honest.               *)
LEMMA BareIsHonest ==
  ASSUME NEW p \in ShortPacket, p.data = <<>>, ~p.fin, NEW b, NEW w
  PROVE  p \in HonestPackets(b, w)
<1>1. Len(<<>>) = 0
  OBVIOUS
<1> QED BY <1>1 DEF HonestPackets, Honest

(* A bare acknowledgement, to be retransmitted or not.                     *)
LEMMA ToSendAckFine ==
  ASSUME NEW c, NEW c0, NEW k \in Context, Fine(c, c0, k), NEW retrans \in BOOLEAN
  PROVE  Fine(ToSend(c, AckPkt, retrans), c0, k)
<1> DEFINE p == Made(c, AckPkt)
           out == [pkt |-> p, retrans |-> 0]
<1>1. PICK d : d = ToSend(c, AckPkt, retrans)
  OBVIOUS
<1>2. c \in TypedStream /\ AckPkt \in Flags /\ Len(AckPkt.data) = 0
      /\ Len(AckPkt.data) <= MaxSeg
  <2>1. Len(<<>>) = 0 /\ Len(<<>>) <= MaxSeg
    BY Sizes
  <2> QED BY <2>1, FlagsOfAck DEF Fine
<1>3. d \in TypedStream
  BY <1>1, <1>2, ToSendType
<1>sent. SentAs(d, c, AckPkt, retrans)
  BY <1>1, <1>2, ToSendFields
<1>4. CASE ~c.known
  <2>1. d = c
    BY <1>4, <1>sent DEF SentAs
  <2> QED BY <1>1, <2>1
<1>5. CASE c.known
  <2>1. p \in ShortPacket /\ p.data = <<>> /\ ~p.fin
    BY <1>2, MadeType, FlagsOfAck DEF AckPkt
  <2> HIDE DEF p
  <2>2. p \in HonestPackets(k.b, k.w)
    BY <2>1, BareIsHonest
  <2>3. out \in HonestOut(k.b, k.w)
    BY <2>1, <2>2 DEF HonestOut
  <2> HIDE DEF out
  <2>4. /\ d.state = c.state /\ d.known = c.known /\ d.outActive = c.outActive
        /\ d.inAckno = c.inAckno /\ d.inQueue = c.inQueue
        /\ d.outQueue = c.outQueue /\ d.inPkt = c.inPkt
        /\ d.tx = c.tx \cup {p}
    BY <1>5, <1>sent DEF p, SentAs
  <2>5. d.outSeqno = c.outSeqno
    <3>1. d.outSeqno = SeqAdd(c.outSeqno, 0)
      BY <1>2, <1>5, <1>sent DEF AckPkt, SentAs
    <3>2. c.outSeqno \in SeqNum
      BY <1>2 DEF TypedStream
    <3> QED BY <3>1, <3>2, AddNothing
  <2>6. d.outPkt \in Seq(HonestOut(k.b, k.w))
    <3>1. c.outPkt \in Seq(HonestOut(k.b, k.w))
      BY DEF Fine, SendsHonest
    <3>2. d.outPkt = c.outPkt \/ d.outPkt = Append(c.outPkt, out)
      BY <1>5, <1>sent DEF out, p, SentAs
    <3> QED BY <2>3, <3>1, <3>2, AppendProperties
  <2>7. SendsHonest(d, k.b, k.w)
    BY <2>4, <2>5, <2>6 DEF Fine, SendsHonest, Opening, Opened
  <2>8. ReceivesHonest(d, k.r, k.pb, k.pw)
    BY <2>4 DEF Fine, ReceivesHonest, Opening, Opened
  <2>9. /\ Still(d) <=> Still(c)
        /\ FinIn(d) <=> FinIn(c)
        /\ Silent(d, k.b) <=> Silent(c, k.b)
    BY <2>4, <2>5 DEF Still, FinIn, Opening, Silent
  <2> QED BY <1>1, <1>3, <2>1, <2>2, <2>4, <2>7, <2>8, <2>9 DEF Fine
<1> QED BY <1>1, <1>4, <1>5

LEMMA SendAckFine ==
  ASSUME NEW c, NEW c0, NEW k \in Context, Fine(c, c0, k)
  PROVE  Fine(SendAck(c), c0, k)
  BY ToSendAckFine DEF SendAck

(* What acknowledge changes: packets leave the front of outPkt.            *)
LEMMA AcknowledgeFields ==
  ASSUME NEW c \in TypedStream, NEW T, c.outPkt \in Seq(T)
  PROVE  /\ Acknowledge(c).state = c.state /\ Acknowledge(c).known = c.known
         /\ Acknowledge(c).outActive = c.outActive
         /\ Acknowledge(c).outSeqno = c.outSeqno
         /\ Acknowledge(c).inAckno = c.inAckno
         /\ Acknowledge(c).inQueue = c.inQueue
         /\ Acknowledge(c).outQueue = c.outQueue
         /\ Acknowledge(c).inPkt = c.inPkt /\ Acknowledge(c).tx = c.tx
         /\ Acknowledge(c).outPkt \in Seq(T)
         /\ Acknowledge(c).outPkt = SubSeq(c.outPkt, AckedHead(c) + 1, Len(c.outPkt))
<1> DEFINE n == AckedHead(c)
           g == IF n > 0 /\ ~IsOldSequence(c.outAcked, c.congestUpdate)
                  THEN GrowCongestWin(c) ELSE c
           rest == SubSeq(g.outPkt, n + 1, Len(g.outPkt))
           on == IF n = Len(c.outPkt) THEN FALSE ELSE g.timerOn \/ n > 0
<1>1. PICK d : d = Acknowledge(c)
  OBVIOUS
<1>2. c = Fields(c)
  BY TypedParts
<1>3. g = Fields(g) /\ Same(c, g) /\ g.tx = c.tx
  <2>1. CASE g = c
    BY <1>2, <2>1 DEF Same
  <2>2. CASE g = GrowCongestWin(c)
    <3>1. PICK x : x = GrowCongestWin(c)
      OBVIOUS
    <3>2. x = Fields(x)
      BY <3>1, GrowCongestWinType, TypedParts
    <3>3. Same(c, x) /\ x.tx = c.tx
      BY <1>2, <3>1 DEF GrowCongestWin, Fields, Same
    <3> QED BY <2>2, <3>1, <3>2, <3>3
  <2> QED BY <2>1, <2>2
<1>4. d = [g EXCEPT !.outPkt = rest, !.timerOn = on]
  BY <1>1 DEF Acknowledge
<1>5. n \in 0 .. Len(c.outPkt)
  BY AckedHeadIs
<1>6. rest \in Seq(T) /\ rest = SubSeq(c.outPkt, AckedHead(c) + 1, Len(c.outPkt))
  <2>1. g.outPkt = c.outPkt
    BY <1>3 DEF Same
  <2>2. rest = SubSeq(c.outPkt, AckedHead(c) + 1, Len(c.outPkt))
    <3> HIDE DEF g
    <3> QED BY <2>1
  <2> HIDE DEF g, n
  <2> QED BY <1>5, <2>1, <2>2, Rest
<1> HIDE DEF g, n, rest, on
<1>7. /\ d.state = g.state /\ d.known = g.known /\ d.outActive = g.outActive
      /\ d.outSeqno = g.outSeqno /\ d.inAckno = g.inAckno
      /\ d.inQueue = g.inQueue /\ d.outQueue = g.outQueue
      /\ d.inPkt = g.inPkt /\ d.tx = g.tx /\ d.outPkt = rest
  BY <1>3, <1>4 DEF Fields
<1>8. /\ d.state = c.state /\ d.known = c.known /\ d.outActive = c.outActive
      /\ d.outSeqno = c.outSeqno /\ d.inAckno = c.inAckno
      /\ d.inQueue = c.inQueue /\ d.outQueue = c.outQueue
      /\ d.inPkt = c.inPkt /\ d.tx = c.tx
  BY <1>3, <1>7 DEF Same
<1> QED BY <1>1, <1>6, <1>7, <1>8

LEMMA AcknowledgeFine ==
  ASSUME NEW c, NEW c0, NEW k \in Context, Fine(c, c0, k)
  PROVE  Fine(Acknowledge(c), c0, k)
<1>1. PICK d : d = Acknowledge(c)
  OBVIOUS
<1>2. c \in TypedStream /\ d \in TypedStream
  BY <1>1, AcknowledgeType DEF Fine
<1>3. c.outPkt \in Seq(HonestOut(k.b, k.w))
  BY DEF Fine, SendsHonest
<1>4. /\ d.state = c.state /\ d.known = c.known /\ d.outActive = c.outActive
      /\ d.outSeqno = c.outSeqno /\ d.inAckno = c.inAckno
      /\ d.inQueue = c.inQueue /\ d.outQueue = c.outQueue
      /\ d.inPkt = c.inPkt /\ d.tx = c.tx
      /\ d.outPkt \in Seq(HonestOut(k.b, k.w))
  BY <1>1, <1>2, <1>3, AcknowledgeFields
<1>5. SendsHonest(d, k.b, k.w)
  BY <1>4 DEF Fine, SendsHonest, Opening, Opened
<1>6. ReceivesHonest(d, k.r, k.pb, k.pw)
  BY <1>4 DEF Fine, ReceivesHonest, Opening, Opened
<1>7. /\ Still(d) <=> Still(c)
      /\ FinIn(d) <=> FinIn(c)
      /\ Silent(d, k.b) <=> Silent(c, k.b)
  BY <1>4 DEF Still, FinIn, Opening, Silent
<1> QED BY <1>1, <1>2, <1>4, <1>5, <1>6, <1>7 DEF Fine

LEMMA RetransFine ==
  ASSUME NEW c, NEW c0, NEW k \in Context, Fine(c, c0, k)
  PROVE  Fine(Retrans(c), c0, k)
<1>typed. c \in TypedStream /\ Retrans(c) \in TypedStream
  BY RetransType DEF Fine
<1>fields. c = Fields(c)
  BY <1>typed, TypedParts
<1>1. CASE ~c.known \/ ~c.timerOn
  BY <1>1 DEF Retrans
<1>2. CASE c.known /\ c.timerOn /\ c.outPkt = <<>>
  <2>1. PICK d : d = Retrans(c)
    OBVIOUS
  <2>2. d = [c EXCEPT !.timerOn = FALSE]
    BY <1>2, <2>1 DEF Retrans
  <2>3. Same(c, d) /\ d.tx = c.tx
    BY <1>fields, <2>2 DEF Fields, Same
  <2> QED BY <1>typed, <2>1, <2>3, SameFine
<1>3. CASE c.known /\ c.timerOn /\ c.outPkt # <<>>
  <2> DEFINE out == Head(c.outPkt)
             p == [out.pkt EXCEPT
                     !.ack = @ \/ ~out.pkt.syn,
                     !.ackno = IF out.pkt.syn THEN @ ELSE c.inAckno,
                     !.win = c.inWin]
             half == c.congestWin \div 2
             update == SeqAdd(c.outAcked, MaxSeg)
             last == IF out.pkt.syn THEN c.lastAck ELSE p.ackno
             win == p.win
             d == [c EXCEPT
                     !.congestThreshold = half, !.congestWin = MaxSeg,
                     !.congestUpdate = update,
                     !.lastAck = last, !.lastWin = win]
             tx == c.tx \cup {p}
             again == [pkt |-> p, retrans |-> out.retrans + 1]
             q == [c.outPkt EXCEPT ![1] = again]
  <2>1. out \in HonestOut(k.b, k.w) /\ c.outPkt \in Seq(HonestOut(k.b, k.w))
    <3>1. c.outPkt \in Seq(HonestOut(k.b, k.w))
      BY DEF Fine, SendsHonest
    <3> QED BY <1>3, <3>1, HeadTailProperties
  <2>2. p \in HonestPackets(k.b, k.w) /\ ~p.fin
    <3>1. out.pkt \in HonestPackets(k.b, k.w) /\ ~out.pkt.fin
      BY <2>1 DEF HonestOut
    <3>2. c.inAckno \in SeqNum /\ c.inWin \in Nat
      BY <1>typed DEF TypedStream
    <3> HIDE DEF out
    <3>3. p \in ShortPacket
      BY <3>1, <3>2 DEF HonestPackets, ShortPacket, Packet
    <3>4. p.data = out.pkt.data /\ p.seqno = out.pkt.seqno /\ p.fin = out.pkt.fin
      BY <3>1 DEF HonestPackets, ShortPacket, Packet
    <3> HIDE DEF p
    <3> QED BY <3>1, <3>3, <3>4 DEF HonestPackets, Honest
  <2>3. d = Fields(d) /\ Same(c, d) /\ d.tx = c.tx
    <3>1. PICK x : x = d
      OBVIOUS
    <3> HIDE DEF half, update, last, win
    <3>2. x = Fields(x) /\ Same(c, x) /\ x.tx = c.tx
      BY <1>fields, <3>1 DEF Fields, Same
    <3> HIDE DEF d
    <3> QED BY <3>1, <3>2
  <2>4. again \in HonestOut(k.b, k.w)
    <3>1. out.retrans + 1 \in Nat
      BY <2>1 DEF HonestOut
    <3> HIDE DEF p, out
    <3> QED BY <2>2, <3>1 DEF HonestOut
  <2>5. q \in Seq(HonestOut(k.b, k.w))
    <3> HIDE DEF again
    <3>1. 1 \in 1 .. Len(c.outPkt)
      BY <1>3, <2>1
    <3> QED BY <2>1, <2>4, <3>1, ExceptSeq
  <2>6. Retrans(c) = IF GivesUp(out) THEN Cleanup(d)
                     ELSE [d EXCEPT !.tx = tx, !.outPkt = q]
    <3>1. d.tx = c.tx /\ d.outPkt = c.outPkt
      <4> HIDE DEF d
      <4> QED BY <2>3 DEF Same
    <3> QED BY <1>3, <3>1 DEF Retrans
  <2>typed. d \in TypedStream
    <3>1. c = Fields(c) /\ Switches(c) /\ Numbers(c) /\ Windows(c) /\ Buffers(c)
      BY <1>typed, TypedParts
    <3>2. half \in Nat /\ MaxSeg \in 0 .. MaxWin
      BY <3>1, Sizes DEF Windows
    <3>3. update \in SeqNum
      <4>1. MaxSeg \in 0 .. SeqMod /\ c.outAcked \in SeqNum
        BY <3>1, Sizes DEF Numbers
      <4> QED BY <4>1, SeqAddType
    <3>4. last \in SeqNum /\ win \in Nat
      <4>1. p \in ShortPacket
        BY <2>2 DEF HonestPackets
      <4> HIDE DEF p
      <4> QED BY <3>1, <4>1, ShortPacketParts DEF Numbers
    <3>5. PICK x : x = d
      OBVIOUS
    <3> HIDE DEF half, update, last, win
    <3>6. Switches(x)
      BY <3>1, <3>5 DEF Fields, Switches
    <3>7. Numbers(x)
      BY <3>1, <3>3, <3>4, <3>5 DEF Fields, Numbers
    <3>8. Windows(x)
      BY <3>1, <3>2, <3>4, <3>5 DEF Fields, Windows
    <3>9. Buffers(x)
      BY <3>1, <3>5 DEF Fields, Buffers
    <3> HIDE DEF d
    <3> QED BY <2>3, <3>5, <3>6, <3>7, <3>8, <3>9, PartsTyped
  <2> HIDE DEF d, tx, q, p
  <2>7. Fine(d, c0, k)
    BY <2>3, <2>typed, SameFine
  <2>8. CASE GivesUp(out)
    BY <2>6, <2>7, <2>8, CleanupFine
  <2>9. CASE ~GivesUp(out)
    <3>1. PICK x : x = Retrans(c)
      OBVIOUS
    <3>2. x = [d EXCEPT !.tx = tx, !.outPkt = q]
      BY <2>6, <2>9, <3>1
    <3>3. /\ x.state = d.state /\ x.known = d.known /\ x.outActive = d.outActive
          /\ x.outSeqno = d.outSeqno /\ x.inAckno = d.inAckno
          /\ x.inQueue = d.inQueue /\ x.outQueue = d.outQueue
          /\ x.inPkt = d.inPkt /\ x.tx = tx /\ x.outPkt = q
      BY <2>3, <3>2 DEF Fields
    <3>4. SendsHonest(x, k.b, k.w)
      BY <2>5, <2>7, <3>3 DEF Fine, SendsHonest, Opening, Opened
    <3>5. ReceivesHonest(x, k.r, k.pb, k.pw)
      BY <2>7, <3>3 DEF Fine, ReceivesHonest, Opening, Opened
    <3>6. /\ Still(x) <=> Still(d)
          /\ FinIn(x) <=> FinIn(d)
          /\ Silent(x, k.b) <=> Silent(d, k.b)
      BY <3>3 DEF Still, FinIn, Opening, Silent
    <3>7. x.tx = d.tx \cup {p}
      BY <2>3, <3>3 DEF tx
    <3> QED BY <1>typed, <2>2, <2>7, <3>1, <3>4, <3>5, <3>6, <3>7 DEF Fine
  <2> QED BY <2>8, <2>9
<1> QED BY <1>1, <1>2, <1>3, <1>typed DEF TypedStream

LEMMA SegmentHonest ==
  ASSUME NEW c \in TypedStream, NEW b \in SeqNum, NEW w \in 0 .. SeqMod - 1,
         SendsHonest(c, b, w), Opened(c),
         NEW n \in Nat, n * MaxSeg <= Len(c.inQueue), n * MaxSeg <= MaxWin,
         NEW i \in 1 .. n
  PROVE  Segment(c, i) \in HonestPackets(b, w) /\ ~Segment(c, i).fin
<1> DEFINE from == (i - 1) * MaxSeg
           total == n * MaxSeg
           p == Segment(c, i)
           sent == Before(c.outSeqno, b)
           L == Len(c.inQueue)
<1>1. from \in Nat /\ total \in Nat /\ from + MaxSeg <= total
  <2>1. n * MaxSeg \in Nat
    BY Sizes
  <2>2. /\ (i - 1) * MaxSeg \in Nat /\ i * MaxSeg = (i - 1) * MaxSeg + MaxSeg
        /\ i * MaxSeg <= n * MaxSeg
    BY SegmentBounds
  <2> QED BY <2>1, <2>2
<1>2. L \in Nat /\ total <= L /\ c.outSeqno \in SeqNum
  BY DEF TypedStream
<1>3. /\ p \in ShortPacket /\ Len(p.data) = MaxSeg
      /\ \A j \in 1 .. MaxSeg : p.data[j] = c.inQueue[from + j]
  BY SegmentType
<1>4. p.seqno = SeqAdd(c.outSeqno, from) /\ ~p.fin
  BY DEF Segment
<1>5. /\ L <= w /\ sent = w - L
      /\ \A j \in 1 .. L : c.inQueue[j] = w - L + j
  BY DEF SendsHonest
<1>6. MaxSeg \in Nat /\ MaxSeg > 0 /\ SeqMod \in Nat
  BY Sizes
<1> HIDE DEF from, total, p, sent, L
<1>7. sent \in Nat /\ sent + from < SeqMod /\ sent + from + MaxSeg <= w
  BY <1>1, <1>2, <1>5, <1>6
<1>8. Before(p.seqno, b) = sent + from
  BY <1>1, <1>2, <1>4, <1>7, BeforeSum DEF sent
<1>9. \A j \in 1 .. MaxSeg : p.data[j] = sent + from + j
  <2> TAKE j \in 1 .. MaxSeg
  <2>1. from + j \in 1 .. L
    BY <1>1, <1>2, <1>6
  <2>2. c.inQueue[from + j] = w - L + (from + j)
    BY <1>5, <2>1
  <2> QED BY <1>1, <1>2, <1>3, <1>5, <1>6, <2>2
<1>10. Honest(p, b, w)
  BY <1>3, <1>4, <1>7, <1>8, <1>9 DEF Honest
<1> QED BY <1>3, <1>4, <1>10 DEF HonestPackets, p

LEMMA SendSegmentsFine ==
  ASSUME NEW c, NEW c0, NEW k \in Context, Fine(c, c0, k), Opened(c),
         NEW n \in Nat, n * MaxSeg <= Len(c.inQueue), n * MaxSeg <= MaxWin
  PROVE  Fine(SendSegments(c, n), c0, k)
<1> DEFINE total == n * MaxSeg
           rest == SubSeq(c.inQueue, total + 1, Len(c.inQueue))
           seqno == SeqAdd(c.outSeqno, total)
           tx == c.tx \cup {Segment(c, i) : i \in 1 .. n}
           new == [i \in 1 .. n |-> [pkt |-> Segment(c, i), retrans |-> 0]]
           q == c.outPkt \o new
           on == TRUE
           ack == c.inAckno
           win == c.inWin
           L == Len(c.inQueue)
<1>1. PICK d : d = SendSegments(c, n)
  OBVIOUS
<1>2. c \in TypedStream /\ d \in TypedStream
  BY <1>1, SendSegmentsType DEF Fine
<1>3. c = Fields(c) /\ c.known /\ c.outSeqno \in SeqNum
  BY <1>2, TypedParts DEF Fine, SendsHonest, Numbers
<1>context. k.b \in SeqNum /\ k.w \in 0 .. SeqMod - 1
  BY DEF Context
<1>4. total \in Nat /\ L \in Nat /\ total \in 0 .. L
  <2>1. total \in Nat
    BY Sizes
  <2>2. L \in Nat
    BY <1>2 DEF TypedStream
  <2> HIDE DEF total
  <2>3. total <= L
    BY DEF total
  <2> QED BY <2>1, <2>2, <2>3
<1>5. \A i \in 1 .. n : Segment(c, i) \in HonestPackets(k.b, k.w) /\ ~Segment(c, i).fin
  <2>1. SendsHonest(c, k.b, k.w)
    BY DEF Fine
  <2> QED BY <1>2, <1>context, <2>1, SegmentHonest
<1>6. new \in Seq(HonestOut(k.b, k.w))
  <2>1. \A i \in 1 .. n : [pkt |-> Segment(c, i), retrans |-> 0] \in HonestOut(k.b, k.w)
    BY <1>5 DEF HonestOut
  <2> QED BY <2>1
<1>7. q \in Seq(HonestOut(k.b, k.w))
  <2> HIDE DEF new
  <2>1. c.outPkt \in Seq(HonestOut(k.b, k.w))
    BY DEF Fine, SendsHonest
  <2> QED BY <1>6, <2>1, ConcatProperties
<1>8. d = [c EXCEPT !.inQueue = rest, !.outSeqno = seqno,
                    !.lastAck = ack, !.lastWin = win,
                    !.tx = tx, !.timerOn = on, !.outPkt = q]
  BY <1>1, <1>3 DEF SendSegments
<1>9. /\ Len(rest) = L - total
      /\ \A i \in 1 .. L - total : rest[i] = c.inQueue[total + i]
  <2>1. c.inQueue \in Seq(Byte)
    BY <1>2 DEF TypedStream
  <2> HIDE DEF total
  <2> QED BY <1>4, <2>1, Rest
<1>10. /\ L <= k.w /\ Before(c.outSeqno, k.b) = k.w - L
       /\ \A i \in 1 .. L : c.inQueue[i] = k.w - L + i
  BY DEF Fine, SendsHonest
<1>11. Before(seqno, k.b) = k.w - Len(rest)
  <2>1. Before(c.outSeqno, k.b) + total < SeqMod
    <3> HIDE DEF total, L
    <3> QED BY <1>4, <1>10, <1>context, Sizes
  <2>2. Before(seqno, k.b) = Before(c.outSeqno, k.b) + total
    <3> HIDE DEF total
    <3> QED BY <1>3, <1>4, <1>context, <2>1, BeforeSum
  <2> HIDE DEF total, seqno, rest, L
  <2> QED BY <1>4, <1>9, <1>10, <1>context, <2>2
<1>12. /\ Len(rest) <= k.w
       /\ \A i \in 1 .. Len(rest) : rest[i] = k.w - Len(rest) + i
  <2> HIDE DEF total, rest, L
  <2>1. Len(rest) <= k.w
    BY <1>4, <1>9, <1>10, <1>context
  <2>2. \A i \in 1 .. Len(rest) : rest[i] = k.w - Len(rest) + i
    <3> TAKE i \in 1 .. Len(rest)
    <3>1. total + i \in 1 .. L /\ rest[i] = c.inQueue[total + i]
      BY <1>4, <1>9
    <3>2. c.inQueue[total + i] = k.w - L + (total + i)
      BY <1>10, <3>1
    <3> QED BY <1>4, <1>9, <1>context, <3>1, <3>2
  <2> QED BY <2>1, <2>2
<1> HIDE DEF total, rest, seqno, tx, q, on, ack, win, L
<1>13. /\ d.state = c.state /\ d.known = c.known /\ d.outActive = c.outActive
       /\ d.inAckno = c.inAckno /\ d.outQueue = c.outQueue /\ d.inPkt = c.inPkt
       /\ d.inQueue = rest /\ d.outSeqno = seqno /\ d.tx = tx /\ d.outPkt = q
  BY <1>3, <1>8 DEF Fields
<1>14. Opened(d) /\ ~Opening(d)
  BY SMTT(30), <1>2, <1>13, States DEF Opened, Opening, TypedStream
<1>15. SendsHonest(d, k.b, k.w)
  <2>1. d.state \notin {TCP_LISTEN, TCP_TIMED_WAIT} /\ d.state # TCP_SYN_SENT /\ d.known
    BY <1>3, <1>13, <1>14 DEF Fine, SendsHonest, Opening
  <2> QED BY <1>7, <1>11, <1>12, <1>13, <1>14, <2>1 DEF SendsHonest
<1>16. ReceivesHonest(d, k.r, k.pb, k.pw)
  BY <1>13 DEF Fine, ReceivesHonest, Opening, Opened
<1>17. (Still(d) <=> Still(c)) /\ (FinIn(d) <=> FinIn(c)) /\ ~Silent(d, k.b)
  <2>1. (Still(d) <=> Still(c)) /\ (FinIn(d) <=> FinIn(c))
    BY <1>13 DEF Still, FinIn, Opening
  <2> QED BY <1>14, <2>1, OpenedNotSilent
<1>18. tx \subseteq HonestPackets(k.b, k.w) /\ ((\E p \in tx : p.fin) => \E p \in c.tx : p.fin)
  BY <1>5 DEF Fine, tx
<1> QED BY <1>1, <1>2, <1>13, <1>15, <1>16, <1>17, <1>18 DEF Fine

(* The rest of the queue goes out in one packet.                           *)
LEMMA SendRestFine ==
  ASSUME NEW c, NEW c0, NEW k \in Context, Fine(c, c0, k), Opened(c),
         Len(c.inQueue) <= MaxSeg
  PROVE  Fine(ToSend([c EXCEPT !.inQueue = <<>>], DataPkt(c.inQueue), TRUE), c0, k)
<1> DEFINE none == <<>>
           pkt == DataPkt(c.inQueue)
           L == Len(c.inQueue)
<1>typed. c \in TypedStream /\ k.b \in SeqNum /\ k.w \in 0 .. SeqMod - 1
  BY DEF Fine, Context
<1>queue. c.inQueue \in Seq(Byte) /\ L \in Nat /\ c.outSeqno \in SeqNum
  BY <1>typed DEF TypedStream
<1>1. PICK x : x = [c EXCEPT !.inQueue = none]
  OBVIOUS
<1>2. x \in TypedStream
  <2>1. none \in Seq(Byte)
    OBVIOUS
  <2> HIDE DEF none
  <2> QED BY <1>1, <1>typed, <2>1, InQueueType
<1>3. /\ x.state = c.state /\ x.known = c.known /\ x.outActive = c.outActive
      /\ x.outSeqno = c.outSeqno /\ x.inAckno = c.inAckno /\ x.tx = c.tx
      /\ x.outQueue = c.outQueue /\ x.inPkt = c.inPkt /\ x.outPkt = c.outPkt
      /\ x.inQueue = <<>>
  <2>1. c = Fields(c)
    BY <1>typed, TypedParts
  <2> HIDE DEF none
  <2>2. /\ x.state = c.state /\ x.known = c.known /\ x.outActive = c.outActive
        /\ x.outSeqno = c.outSeqno /\ x.inAckno = c.inAckno /\ x.tx = c.tx
        /\ x.outQueue = c.outQueue /\ x.inPkt = c.inPkt /\ x.outPkt = c.outPkt
        /\ x.inQueue = none
    BY <1>1, <2>1 DEF Fields
  <2> QED BY <2>2 DEF none
<1>4. pkt \in Flags /\ pkt.data = c.inQueue /\ ~pkt.fin /\ ~pkt.syn /\ TRUE \in BOOLEAN
  BY <1>queue DEF DataPkt, AckPkt, Flags
<1> HIDE DEF pkt, L, none
<1>5. PICK d : d = ToSend(x, pkt, TRUE)
  OBVIOUS
<1>6. d \in TypedStream /\ SentAs(d, x, pkt, TRUE)
  <2>1. Len(pkt.data) <= MaxSeg
    BY <1>4
  <2> QED BY <1>2, <1>4, <1>5, <2>1, ToSendType, ToSendFields
<1>7. PICK p : p = Made(x, pkt)
  OBVIOUS
<1>8. p \in ShortPacket /\ p.seqno = c.outSeqno /\ p.data = c.inQueue /\ ~p.fin
  BY <1>2, <1>3, <1>4, <1>7, MadeType
<1>9. c.known /\ L <= k.w /\ Before(c.outSeqno, k.b) = k.w - L
      /\ \A i \in 1 .. L : c.inQueue[i] = k.w - L + i
  BY DEF Fine, SendsHonest, L
<1>10. p \in HonestPackets(k.b, k.w)
  <2>1. Before(p.seqno, k.b) + Len(p.data) <= k.w
    BY <1>8, <1>9, <1>queue, <1>typed DEF L
  <2>2. \A i \in 1 .. Len(p.data) : p.data[i] = Before(p.seqno, k.b) + i
    BY <1>8, <1>9 DEF L
  <2> QED BY <1>8, <2>1, <2>2 DEF HonestPackets, Honest
<1>11. PICK out : out = [pkt |-> p, retrans |-> 0]
  OBVIOUS
<1>12. out \in HonestOut(k.b, k.w)
  BY <1>8, <1>10, <1>11 DEF HonestOut
<1>13. /\ d.state = c.state /\ d.known /\ d.outActive = c.outActive
       /\ d.inAckno = c.inAckno /\ d.inQueue = <<>>
       /\ d.outQueue = c.outQueue /\ d.inPkt = c.inPkt
       /\ d.outSeqno = SeqAdd(c.outSeqno, L) /\ d.tx = c.tx \cup {p}
       /\ d.outPkt = Append(c.outPkt, out)
  <2>1. x.known
    BY <1>3, <1>9
  <2>2. /\ d.state = x.state /\ d.known = x.known /\ d.outActive = x.outActive
        /\ d.inAckno = x.inAckno /\ d.inQueue = x.inQueue
        /\ d.outQueue = x.outQueue /\ d.inPkt = x.inPkt
    BY <1>6 DEF SentAs
  <2>3. /\ d.outSeqno = SeqAdd(x.outSeqno, Len(pkt.data)) /\ d.tx = x.tx \cup {p}
        /\ d.outPkt = Append(x.outPkt, [pkt |-> p, retrans |-> 0])
    BY <1>4, <1>6, <1>7, <2>1 DEF SentAs
  <2> QED BY <1>3, <1>4, <1>11, <2>1, <2>2, <2>3 DEF L
<1>14. d.outPkt \in Seq(HonestOut(k.b, k.w))
  <2>1. c.outPkt \in Seq(HonestOut(k.b, k.w))
    BY DEF Fine, SendsHonest
  <2> QED BY <1>12, <1>13, <2>1, AppendProperties
<1>15. Before(d.outSeqno, k.b) = k.w
  <2>1. Before(c.outSeqno, k.b) + L < SeqMod
    BY <1>9, <1>queue, <1>typed, Sizes
  <2> QED BY <1>9, <1>13, <1>queue, <1>typed, <2>1, BeforeSum
<1>16. SendsHonest(d, k.b, k.w)
  <2>1. Opened(d) /\ ~Opening(d) /\ d.state # TCP_SYN_SENT
    BY <1>13, <1>typed, States DEF Opened, Opening, TypedStream
  <2>2. d.state \notin {TCP_LISTEN, TCP_TIMED_WAIT}
    BY <1>13 DEF Fine, SendsHonest
  <2>3. Len(d.inQueue) = 0 /\ k.w - 0 = k.w /\ 0 <= k.w
    BY <1>13, <1>typed
  <2> QED BY <1>13, <1>14, <1>15, <2>1, <2>2, <2>3 DEF SendsHonest
<1>17. ReceivesHonest(d, k.r, k.pb, k.pw)
  BY <1>13 DEF Fine, ReceivesHonest, Opening, Opened
<1>18. (Still(d) <=> Still(c)) /\ (FinIn(d) <=> FinIn(c)) /\ ~Silent(d, k.b)
  <2>1. (Still(d) <=> Still(c)) /\ (FinIn(d) <=> FinIn(c))
    BY <1>13 DEF Still, FinIn, Opening
  <2>2. Opened(d)
    BY <1>13 DEF Opened
  <2> QED BY <2>1, <2>2, OpenedNotSilent
<1>19. Fine(d, c0, k)
  BY <1>6, <1>8, <1>10, <1>13, <1>16, <1>17, <1>18 DEF Fine
<1> QED BY <1>1, <1>5, <1>19 DEF none, pkt

(* The FIN: it carries the number of the byte that will never be written.  *)
LEMMA SendFinFine ==
  ASSUME NEW c, NEW c0, NEW k \in Context, Fine(c, c0, k), EndOfStream(c),
         NEW s, s = IF c.state = TCP_ESTABLISHED THEN TCP_FIN_WAIT_1 ELSE TCP_LAST_ACK
  PROVE  Fine([ToSend(c, FinPkt, FALSE) EXCEPT !.state = s], c0, k)
<1>typed. c \in TypedStream /\ k.b \in SeqNum /\ k.w \in 0 .. SeqMod - 1
  BY DEF Fine, Context
<1>end. ~c.outActive /\ c.inQueue = <<>> /\ c.state \in {TCP_ESTABLISHED, TCP_CLOSE_WAIT}
  BY DEF EndOfStream
<1>opened. Opened(c)
  BY <1>end, States DEF Opened
<1>1. FinPkt \in Flags /\ FinPkt.data = <<>> /\ Len(FinPkt.data) = 0 /\ ~FinPkt.syn
      /\ Len(FinPkt.data) <= MaxSeg /\ FALSE \in BOOLEAN
  <2>1. Len(<<>>) = 0 /\ Len(<<>>) <= MaxSeg
    BY Sizes
  <2> QED BY <2>1, FlagsOfAck DEF FinPkt, AckPkt
<1>2. PICK x : x = ToSend(c, FinPkt, FALSE)
  OBVIOUS
<1>3. x \in TypedStream /\ SentAs(x, c, FinPkt, FALSE)
  BY <1>typed, <1>1, <1>2, ToSendType, ToSendFields
<1>4. PICK p : p = Made(c, FinPkt)
  OBVIOUS
<1>5. p \in ShortPacket /\ p.seqno = c.outSeqno /\ p.data = <<>>
  BY <1>typed, <1>1, <1>4, MadeType
<1>6. c.known /\ Before(c.outSeqno, k.b) = k.w
  <2>1. Before(c.outSeqno, k.b) = k.w - Len(c.inQueue) /\ c.known
    BY <1>opened DEF Fine, SendsHonest
  <2>2. Len(c.inQueue) = 0
    BY <1>end
  <2> QED BY <1>typed, <2>1, <2>2
<1>7. p \in HonestPackets(k.b, k.w)
  <2>1. Len(<<>>) = 0
    OBVIOUS
  <2> QED BY <1>5, <1>6, <2>1 DEF HonestPackets, Honest
<1>8. /\ x.known /\ x.outActive = c.outActive
      /\ x.inAckno = c.inAckno /\ x.inQueue = <<>>
      /\ x.outQueue = c.outQueue /\ x.inPkt = c.inPkt
      /\ x.outSeqno = c.outSeqno /\ x.tx = c.tx \cup {p} /\ x.outPkt = c.outPkt
  <2>1. /\ x.known /\ x.outActive = c.outActive
        /\ x.inAckno = c.inAckno /\ x.inQueue = <<>>
        /\ x.outQueue = c.outQueue /\ x.inPkt = c.inPkt
    BY <1>3, <1>6, <1>end DEF SentAs
  <2>2. x.outSeqno = SeqAdd(c.outSeqno, 0) /\ x.tx = c.tx \cup {p} /\ x.outPkt = c.outPkt
    BY <1>1, <1>3, <1>4, <1>6 DEF SentAs
  <2>3. c.outSeqno \in SeqNum
    BY <1>typed DEF TypedStream
  <2> QED BY <2>1, <2>2, <2>3, AddNothing
<1>9. s \in 0 .. 10 /\ s \in {TCP_FIN_WAIT_1, TCP_LAST_ACK}
      /\ (s = TCP_LAST_ACK => c.state = TCP_CLOSE_WAIT)
  BY <1>end, States
<1>10. PICK d : d = [x EXCEPT !.state = s]
  OBVIOUS
<1>11. d \in TypedStream
  BY <1>3, <1>9, <1>10, StateType
<1>12. /\ d.state = s /\ d.known = x.known /\ d.outActive = x.outActive
       /\ d.outSeqno = x.outSeqno /\ d.inAckno = x.inAckno /\ d.tx = x.tx
       /\ d.inQueue = x.inQueue /\ d.outQueue = x.outQueue
       /\ d.inPkt = x.inPkt /\ d.outPkt = x.outPkt
  <2>1. x = Fields(x)
    BY <1>3, TypedParts
  <2> QED BY <1>10, <2>1 DEF Fields
<1>13. Opened(d) /\ ~Opening(d) /\ Still(d) /\ d.state # TCP_SYN_SENT
  BY <1>8, <1>9, <1>12, <1>end, States DEF Opened, Opening, Still
<1>14. SendsHonest(d, k.b, k.w)
  <2>1. d.state \notin {TCP_LISTEN, TCP_TIMED_WAIT}
    BY <1>9, <1>12, States
  <2>2. Len(d.inQueue) = 0 /\ k.w - 0 = k.w /\ 0 <= k.w
    BY <1>8, <1>12, <1>typed
  <2>3. d.outPkt \in Seq(HonestOut(k.b, k.w))
    BY <1>8, <1>12 DEF Fine, SendsHonest
  <2>4. d.known /\ Before(d.outSeqno, k.b) = k.w
    BY <1>6, <1>8, <1>12
  <2> QED BY <1>13, <2>1, <2>2, <2>3, <2>4 DEF SendsHonest
<1>15. ReceivesHonest(d, k.r, k.pb, k.pw)
  <2>1. d.state \in {TCP_CLOSE_WAIT, TCP_CLOSING, TCP_LAST_ACK} => c.state = TCP_CLOSE_WAIT
    BY <1>9, <1>12, States
  <2>2. d.inAckno = c.inAckno /\ d.outQueue = c.outQueue /\ d.inPkt = c.inPkt
    BY <1>8, <1>12
  <2> QED BY <1>13, <1>opened, <2>1, <2>2 DEF Fine, ReceivesHonest
<1>16. (FinIn(d) => FinIn(c)) /\ ~Silent(d, k.b)
  <2>1. FinIn(d) => FinIn(c)
    BY <1>8, <1>9, <1>12, States DEF FinIn
  <2> QED BY <1>13, <2>1, OpenedNotSilent
<1>17. d.tx \subseteq HonestPackets(k.b, k.w)
  BY <1>7, <1>8, <1>12 DEF Fine
<1>18. Fine(d, c0, k)
  BY <1>11, <1>13, <1>14, <1>15, <1>16, <1>17 DEF Fine
<1> QED BY <1>2, <1>10, <1>18

LEMMA SendNothingFine ==
  ASSUME NEW c, NEW c0, NEW k \in Context, Fine(c, c0, k), NEW idle
  PROVE  Fine(SendNothing(c, idle), c0, k)
<1> DEFINE s == IF c.state = TCP_ESTABLISHED THEN TCP_FIN_WAIT_1 ELSE TCP_LAST_ACK
           d == [ToSend(c, FinPkt, FALSE) EXCEPT !.state = s]
<1>1. EndOfStream(c) => Fine(d, c0, k)
  <2>1. PICK t : t = s
    OBVIOUS
  <2> HIDE DEF s
  <2>2. EndOfStream(c) => Fine([ToSend(c, FinPkt, FALSE) EXCEPT !.state = t], c0, k)
    BY <2>1, SendFinFine DEF s
  <2> QED BY <2>1, <2>2
<1>2. Fine(SendAck(c), c0, k)
  BY SendAckFine
<1>3. SendNothing(c, idle) \in (IF EndOfStream(c) THEN {d} ELSE {SendAck(c), c})
  BY DEF SendNothing
<1> HIDE DEF d
<1> QED BY <1>1, <1>2, <1>3

LEMMA SendFine ==
  ASSUME NEW c, NEW c0, NEW k \in Context, Fine(c, c0, k), NEW rto, NEW idle
  PROVE  Fine(Send(c, rto, idle), c0, k)
<1> DEFINE a == Acknowledge(c)
           d == IF rto THEN Retrans(a) ELSE a
           full == Len(d.inQueue) \div MaxSeg
           room == MaxSend(d) \div MaxSeg
           n == IF full < room THEN full ELSE room
           rest == ToSend([d EXCEPT !.inQueue = <<>>], DataPkt(d.inQueue), TRUE)
<1>1. Fine(d, c0, k)
  <2>1. Fine(a, c0, k)
    BY AcknowledgeFine
  <2> HIDE DEF a
  <2>2. Fine(Retrans(a), c0, k)
    BY <2>1, RetransFine
  <2> QED BY <2>1, <2>2
<1>typed. d \in TypedStream
  <2> HIDE DEF d
  <2> QED BY <1>1 DEF Fine
<1> HIDE DEF d
<1>queue. Len(d.inQueue) \in Nat /\ d.state \in 0 .. 10
  BY <1>typed DEF TypedStream
<1>2. /\ n \in Nat
      /\ n * MaxSeg <= Len(d.inQueue) /\ n * MaxSeg <= MaxWin
  <2>1. MaxSend(d) \in Nat /\ MaxSend(d) <= MaxWin
    BY <1>typed, MaxSendBound, Sizes
  <2>2. full \in Nat /\ room \in Nat
    BY <1>queue, <2>1, QuotientType
  <2>3. n \in Nat /\ n <= full /\ n <= room
    <3> HIDE DEF full, room
    <3> QED BY <2>2
  <2>4. n * MaxSeg <= Len(d.inQueue) /\ n * MaxSeg <= MaxSend(d) /\ n * MaxSeg \in Nat
    <3> HIDE DEF n
    <3> QED BY <1>queue, <2>1, <2>3, Quotient
  <2> HIDE DEF n
  <2>5. n * MaxSeg <= MaxWin
    BY <2>1, <2>4, Sizes
  <2> QED BY <2>3, <2>4, <2>5
<1>3. full = 0 /\ Opened(d) => Fine(rest, c0, k)
  <2>1. full = 0 => Len(d.inQueue) <= MaxSeg
    <3>1. full = 0 => Len(d.inQueue) < MaxSeg
      BY <1>queue, QuotientType
    <3> QED BY <1>queue, <3>1, Sizes
  <2> QED BY <1>1, <2>1, SendRestFine
<1>4. Opened(d) => Fine(SendSegments(d, n), c0, k)
  <2> HIDE DEF n
  <2> QED BY <1>1, <1>2, SendSegmentsFine
<1>5. Fine(SendNothing(d, idle), c0, k)
  BY <1>1, SendNothingFine
<1>6. Send(c, rto, idle) \in
        (IF ~Opened(d) THEN {d}
         ELSE {SendSegments(d, n), SendNothing(d, idle)}
                \cup (IF full = 0 THEN {rest} ELSE {}))
  <2>1. ~Opened(d) <=> d.state < TCP_ESTABLISHED
    BY <1>queue, States DEF Opened
  <2> QED BY <2>1 DEF Send, d
<1> HIDE DEF n, full, rest
<1> QED BY <1>1, <1>3, <1>4, <1>5, <1>6

LEMMA TickStreamFine ==
  ASSUME NEW c, NEW c0, NEW k \in Context, Fine(c, c0, k), NEW t
  PROVE  Fine(TickStream(c, t), c0, k)
<1>1. Fine(RecvCheck(c, t.noPkt), c0, k)
  BY CleanupFine DEF RecvCheck
<1> QED BY <1>1, SendFine DEF TickStream

(* An open stream changes its state.                                       *)
LEMMA StateFine ==
  ASSUME NEW c, NEW c0, NEW k \in Context, Fine(c, c0, k), Opened(c),
         NEW s \in 0 .. 10, s >= TCP_ESTABLISHED, s # TCP_TIMED_WAIT,
         s \in {TCP_CLOSE_WAIT, TCP_CLOSING, TCP_LAST_ACK} =>
            Before(c.inAckno, k.pb) = k.pw /\ FinIn(c0)
  PROVE  Fine([c EXCEPT !.state = s], c0, k)
<1>1. PICK d : d = [c EXCEPT !.state = s]
  OBVIOUS
<1>2. c \in TypedStream /\ d \in TypedStream
  BY <1>1, StateType DEF Fine
<1>3. /\ d.state = s /\ d.known = c.known /\ d.outActive = c.outActive
      /\ d.outSeqno = c.outSeqno /\ d.inAckno = c.inAckno /\ d.tx = c.tx
      /\ d.inQueue = c.inQueue /\ d.outQueue = c.outQueue
      /\ d.inPkt = c.inPkt /\ d.outPkt = c.outPkt
  BY <1>1, <1>2, TypedParts DEF Fields
<1>4. Opened(d) /\ ~Opening(d) /\ ~Opening(c) /\ d.state # TCP_SYN_SENT
      /\ d.state # TCP_LISTEN
  BY SMTT(30), <1>2, <1>3, States DEF Opened, Opening, TypedStream
<1>5. SendsHonest(d, k.b, k.w)
  BY <1>3, <1>4 DEF Fine, SendsHonest
<1>6. ReceivesHonest(d, k.r, k.pb, k.pw)
  BY <1>3, <1>4 DEF Fine, ReceivesHonest
<1>7. FinIn(d) => FinIn(c0)
  BY <1>3 DEF Fine, FinIn
<1>8. (Still(d) <=> Still(c)) /\ ~Silent(d, k.b)
  <2>1. Still(d) <=> Still(c)
    BY <1>3, <1>4 DEF Still
  <2> QED BY <1>4, <2>1, OpenedNotSilent
<1> QED BY <1>1, <1>2, <1>3, <1>5, <1>6, <1>7, <1>8 DEF Fine

LEMMA UpdateInWinSizeFine ==
  ASSUME NEW c, NEW c0, NEW k \in Context, Fine(c, c0, k)
  PROVE  /\ Fine(UpdateInWinSize(c), c0, k)
         /\ Same(c, UpdateInWinSize(c)) /\ UpdateInWinSize(c).tx = c.tx
<1> DEFINE queued == Len(c.outQueue)
           win == IF queued < MaxWin THEN MaxWin
                  ELSE IF queued < 2 * MaxWin THEN 2 * MaxWin - queued ELSE 0
<1>1. PICK d : d = UpdateInWinSize(c)
  OBVIOUS
<1>2. c \in TypedStream /\ d \in TypedStream /\ c = Fields(c)
  BY <1>1, UpdateInWinSizeType, TypedParts DEF Fine
<1>3. d = [c EXCEPT !.inWin = win]
  BY <1>1 DEF UpdateInWinSize
<1> HIDE DEF win
<1>4. Same(c, d) /\ d.tx = c.tx
  BY <1>2, <1>3 DEF Fields, Same
<1> QED BY <1>1, <1>2, <1>4, SameFine

LEMMA TakeFinFine ==
  ASSUME NEW c, NEW c0, NEW k \in Context, Fine(c, c0, k), Opened(c),
         Before(c.inAckno, k.pb) = k.pw, FinIn(c0)
  PROVE  Fine(TakeFin(c), c0, k)
<1>1. PICK a : a = SendAck(c)
  OBVIOUS
<1>2. Fine(a, c0, k) /\ a \in TypedStream /\ c \in TypedStream
  BY <1>1, SendAckFine DEF Fine
<1>3. a.state = c.state /\ a.inAckno = c.inAckno
  <2>1. SentAs(a, c, AckPkt, FALSE)
    BY <1>1, <1>2, ToSendFields DEF SendAck
  <2> QED BY <2>1 DEF SentAs
<1>4. PICK d : d = [a EXCEPT !.inActive = FALSE]
  OBVIOUS
<1>5. a = Fields(a) /\ Switches(a) /\ Numbers(a) /\ Windows(a) /\ Buffers(a)
  BY <1>2, TypedParts
<1>6. d \in TypedStream
  <2>1. d = Fields(d)
    BY <1>4, <1>5 DEF Fields
  <2>2. Switches(d)
    BY <1>4, <1>5 DEF Fields, Switches
  <2>3. Numbers(d)
    BY <1>4, <1>5 DEF Fields, Numbers
  <2>4. Windows(d)
    BY <1>4, <1>5 DEF Fields, Windows
  <2>5. Buffers(d)
    BY <1>4, <1>5 DEF Fields, Buffers
  <2> QED BY <2>1, <2>2, <2>3, <2>4, <2>5, PartsTyped
<1>7. Same(a, d) /\ d.tx = a.tx
  BY <1>4, <1>5 DEF Fields, Same
<1>8. Fine(d, c0, k)
  BY <1>2, <1>6, <1>7, SameFine
<1>9. Opened(d) /\ Before(d.inAckno, k.pb) = k.pw
  BY <1>3, <1>7 DEF Same, Opened
<1>10. /\ Fine([d EXCEPT !.state = TCP_CLOSE_WAIT], c0, k)
       /\ Fine([d EXCEPT !.state = TCP_CLOSING], c0, k)
  <2>1. /\ TCP_CLOSE_WAIT \in 0 .. 10 /\ TCP_CLOSING \in 0 .. 10
        /\ TCP_CLOSE_WAIT >= TCP_ESTABLISHED /\ TCP_CLOSING >= TCP_ESTABLISHED
        /\ TCP_CLOSE_WAIT # TCP_TIMED_WAIT /\ TCP_CLOSING # TCP_TIMED_WAIT
    BY States
  <2> QED BY <1>8, <1>9, <2>1, StateFine
<1>11. Fine(Cleanup(d), c0, k)
  BY <1>8, CleanupFine
<1>12. TakeFin(c) =
        CASE c.state = TCP_ESTABLISHED -> [d EXCEPT !.state = TCP_CLOSE_WAIT]
          [] c.state = TCP_FIN_WAIT_1  -> [d EXCEPT !.state = TCP_CLOSING]
          [] c.state = TCP_FIN_WAIT_2  -> Cleanup(d)
          [] OTHER -> d
  BY <1>1, <1>4 DEF TakeFin
<1>13. TakeFin(c) \in {d, [d EXCEPT !.state = TCP_CLOSE_WAIT],
                          [d EXCEPT !.state = TCP_CLOSING], Cleanup(d)}
  BY <1>12 DEF TCP_ESTABLISHED, TCP_FIN_WAIT_1, TCP_FIN_WAIT_2
<1> QED BY <1>8, <1>10, <1>11, <1>13

LEMMA TakeAckOfFinFine ==
  ASSUME NEW c, NEW c0, NEW k \in Context, Fine(c, c0, k)
  PROVE  Fine(TakeAckOfFin(c), c0, k)
<1>1. c.state = TCP_FIN_WAIT_1 => Fine([c EXCEPT !.state = TCP_FIN_WAIT_2], c0, k)
  <2>1. /\ TCP_FIN_WAIT_2 \in 0 .. 10 /\ TCP_FIN_WAIT_2 >= TCP_ESTABLISHED
        /\ TCP_FIN_WAIT_2 # TCP_TIMED_WAIT
        /\ TCP_FIN_WAIT_2 \notin {TCP_CLOSE_WAIT, TCP_CLOSING, TCP_LAST_ACK}
    BY States
  <2>2. c.state = TCP_FIN_WAIT_1 => Opened(c)
    BY States DEF Opened
  <2> QED BY <2>1, <2>2, StateFine
<1>2. TakeAckOfFin(c) \in
        (IF c.state = TCP_FIN_WAIT_1 THEN {[c EXCEPT !.state = TCP_FIN_WAIT_2]}
         ELSE {Cleanup(c), c})
  BY DEF TakeAckOfFin, TCP_FIN_WAIT_1, TCP_LAST_ACK, TCP_CLOSING
<1> QED BY <1>1, <1>2, CleanupFine

(* Consecutive bytes, and more that continue them.                         *)
LEMMA Continued ==
  ASSUME NEW s \in Seq(Byte), NEW q \in Seq(Byte), NEW n \in Nat,
         Consecutive(s), s # <<>> => s[Len(s)] = n,
         \A i \in 1 .. Len(q) : q[i] = n + i
  PROVE  /\ Consecutive(s \o q)
         /\ s \o q # <<>> => (s \o q)[Len(s \o q)] = n + Len(q)
<1> DEFINE t == s \o q
           S == Len(s)
           Q == Len(q)
<1>1. S \in Nat /\ Q \in Nat /\ Len(t) = S + Q
  BY ConcatProperties
<1>2. /\ \A i \in 1 .. S : t[i] = s[i]
      /\ \A i \in 1 .. Q : t[S + i] = q[i]
  <2>1. \A i \in 1 .. S : t[i] = s[i]
    BY ConcatProperties
  <2>2. \A i \in S + 1 .. S + Q : t[i] = q[i - S]
    BY <1>1, ConcatProperties
  <2> HIDE DEF t, S, Q
  <2>3. ASSUME NEW i \in 1 .. Q PROVE t[S + i] = q[i]
    <3>1. S + i \in S + 1 .. S + Q /\ (S + i) - S = i
      BY <1>1
    <3> QED BY <2>2, <3>1
  <2> QED BY <2>1, <2>3
<1>3. \A i \in 1 .. S - 1 : s[i + 1] = s[i] + 1
  BY DEF Consecutive
<1>4. S > 0 => s[S] = n
  <2>1. S > 0 => s # <<>>
    OBVIOUS
  <2> QED BY <2>1
<1>5. t # <<>> => S + Q > 0
  <2>1. t \in Seq(Byte)
    BY ConcatProperties
  <2> HIDE DEF t, S, Q
  <2> QED BY <1>1, <2>1, EmptySeq
<1>6. \A i \in 1 .. Q : q[i] = n + i
  OBVIOUS
<1> HIDE DEF t, S, Q
<1>7. ASSUME NEW i \in 1 .. (S + Q) - 1 PROVE t[i + 1] = t[i] + 1
  <2>1. CASE i < S
    <3>1. i \in 1 .. S /\ i + 1 \in 1 .. S /\ i \in 1 .. S - 1
      BY <1>1, <2>1
    <3> QED BY <1>2, <1>3, <3>1
  <2>2. CASE i = S
    <3>1. i \in 1 .. S /\ 1 \in 1 .. Q
      BY <1>1, <2>2
    <3>2. t[i] = n /\ t[i + 1] = n + 1
      BY <1>1, <1>2, <1>4, <1>6, <2>2, <3>1
    <3> QED BY <3>2
  <2>3. CASE i > S
    <3>1. i - S \in 1 .. Q /\ i - S + 1 \in 1 .. Q
          /\ S + (i - S) = i /\ S + (i - S + 1) = i + 1
      BY <1>1, <2>3
    <3>2. t[i] = n + (i - S) /\ t[i + 1] = n + (i - S + 1)
      BY <1>2, <1>6, <3>1
    <3> QED BY <1>1, <3>2
  <2> QED BY <1>1, <2>1, <2>2, <2>3
<1>8. t # <<>> => t[S + Q] = n + Q
  <2>1. CASE Q > 0
    <3>1. Q \in 1 .. Q
      BY <1>1, <2>1
    <3> QED BY <1>2, <1>6, <3>1
  <2>2. CASE Q = 0
    <3> SUFFICES ASSUME t # <<>> PROVE t[S + Q] = n + Q
      OBVIOUS
    <3>1. S \in 1 .. S /\ S + Q = S /\ S > 0
      BY <1>1, <1>5, <2>2
    <3> QED BY <1>2, <1>4, <2>2, <3>1
  <2> QED BY <1>1, <2>1, <2>2
<1> QED BY <1>1, <1>7, <1>8 DEF Consecutive, t, Q

LEMMA Regrouped ==
  ASSUME NEW s \in Seq(Byte), NEW q \in Seq(Byte), NEW t \in Seq(Byte)
  PROVE  (s \o q) \o t = s \o (q \o t)
  OBVIOUS

(* The data of the packet that was waited for.                             *)
LEMMA TakenFine ==
  ASSUME NEW c, NEW c0, NEW k \in Context, Fine(c, c0, k), Opened(c),
         NEW p \in HonestPackets(k.pb, k.pw), p.seqno = c.inAckno
  PROVE  /\ Fine(Taken(c, p), c0, k)
         /\ Opened(Taken(c, p))
         /\ p.fin => Before(Taken(c, p).inAckno, k.pb) = k.pw
<1> DEFINE fresh == p.ack /\ IsOldSequence(c.outAcked, p.ackno)
           ackno == SeqAdd(p.seqno, Len(p.data))
           acked == IF fresh THEN p.ackno ELSE c.outAcked
           win == IF fresh THEN p.win ELSE c.outWin
           q == c.outQueue \o p.data
           L == Len(p.data)
           n == Before(c.inAckno, k.pb)
<1>p. p \in ShortPacket /\ Honest(p, k.pb, k.pw)
  BY DEF HonestPackets
<1>1. PICK d : d = Taken(c, p)
  OBVIOUS
<1>2. c \in TypedStream /\ d \in TypedStream
  BY <1>1, <1>p, TakenType DEF Fine
<1>3. /\ c.inAckno \in SeqNum /\ c.outQueue \in Seq(Byte) /\ c.state \in 0 .. 10
      /\ k.pb \in SeqNum /\ k.pw \in 0 .. SeqMod - 1 /\ k.r \in Seq(Byte)
      /\ p.data \in Seq(Byte) /\ L \in Nat
  <2>1. c.inAckno \in SeqNum /\ c.outQueue \in Seq(Byte) /\ c.state \in 0 .. 10
    BY ONLY <1>2 DEF TypedStream
  <2>2. k.pb \in SeqNum /\ k.pw \in 0 .. SeqMod - 1 /\ k.r \in Seq(Byte)
    BY ONLY k \in Context DEF Context
  <2>3. p.data \in Seq(Byte) /\ L \in Nat
    BY <1>p, ShortPacketParts
  <2> QED BY <2>1, <2>2, <2>3
<1>4. d = [c EXCEPT !.inAckno = ackno, !.outAcked = acked, !.outWin = win,
                    !.outQueue = q]
  BY <1>1 DEF Taken
<1>5. n \in Nat
  BY <1>3, BeforeType
<1>6. L = 0 \/ n + L <= k.pw
  <2>1. L = 0 \/ p.data # <<>>
    OBVIOUS
  <2> QED BY <1>p, <2>1 DEF Honest
<1>7. n + L < SeqMod /\ Before(ackno, k.pb) = n + L
  <2>1. n < SeqMod
    BY <1>3, BeforeType
  <2> HIDE DEF n, L
  <2>2. n + L < SeqMod
    BY <1>3, <1>5, <1>6, <2>1, Sizes
  <2> QED BY <1>3, <2>2, BeforeSum DEF n, L
<1>8. \A i \in 1 .. L : p.data[i] = n + i
  BY <1>p DEF Honest
<1>9. p.fin => n = k.pw
  BY <1>p DEF Honest
<1>10. \A x \in {TCP_CLOSE_WAIT, TCP_CLOSING, TCP_LAST_ACK} : c.state = x => n = k.pw
  BY DEF Fine, ReceivesHonest
<1>11. n = k.pw => L = 0
  <2> HIDE DEF n, L
  <2> QED BY <1>3, <1>5, <1>6
<1>12. LET delivered == k.r \o q
       IN  /\ Consecutive(delivered)
           /\ delivered # <<>> => delivered[Len(delivered)] = n + L
  <2> DEFINE s == k.r \o c.outQueue
  <2>1. s \in Seq(Byte) /\ s \o p.data = k.r \o q
    <3>1. s \in Seq(Byte)
      BY <1>3, ConcatProperties
    <3>2. (k.r \o c.outQueue) \o p.data = k.r \o (c.outQueue \o p.data)
      <4>1. k.r \in Seq(Byte) /\ c.outQueue \in Seq(Byte) /\ p.data \in Seq(Byte)
        BY <1>3
      <4> QED BY ONLY <4>1, Regrouped
    <3> QED BY <3>1, <3>2
  <2>2. Consecutive(s) /\ (s # <<>> => s[Len(s)] = n)
    BY DEF Fine, ReceivesHonest
  <2> HIDE DEF s, n
  <2>3. /\ Consecutive(s \o p.data)
        /\ s \o p.data # <<>> => (s \o p.data)[Len(s \o p.data)] = n + Len(p.data)
    BY <1>3, <1>5, <1>8, <2>1, <2>2, Continued
  <2> QED BY <2>1, <2>3
<1> HIDE DEF ackno, acked, win, q, n, L
<1>13. /\ d.state = c.state /\ d.known = c.known /\ d.outActive = c.outActive
       /\ d.outSeqno = c.outSeqno /\ d.inAckno = ackno /\ d.tx = c.tx
       /\ d.inQueue = c.inQueue /\ d.outQueue = q
       /\ d.inPkt = c.inPkt /\ d.outPkt = c.outPkt
  BY <1>2, <1>4, TypedParts DEF Fields
<1>14. Opened(d) /\ ~Opening(d)
  BY <1>3, <1>13, States DEF Opened, Opening
<1>15. SendsHonest(d, k.b, k.w)
  BY <1>13 DEF Fine, SendsHonest, Opening, Opened
<1>16. ReceivesHonest(d, k.r, k.pb, k.pw)
  <2>1. d.inPkt \in Seq(HonestPackets(k.pb, k.pw))
    BY <1>13 DEF Fine, ReceivesHonest
  <2>2. Before(d.inAckno, k.pb) = n + L
    BY <1>7, <1>13
  <2>3. d.state \in {TCP_CLOSE_WAIT, TCP_CLOSING, TCP_LAST_ACK} => n + L = k.pw
    <3>1. d.state \in {TCP_CLOSE_WAIT, TCP_CLOSING, TCP_LAST_ACK} => n = k.pw
      BY <1>10, <1>13
    <3> QED BY <1>3, <1>5, <1>11, <3>1
  <2>4. LET delivered == k.r \o d.outQueue
        IN  /\ Consecutive(delivered)
            /\ delivered # <<>> => delivered[Len(delivered)] = n + L
    BY <1>12, <1>13
  <2> QED BY <1>14, <2>1, <2>2, <2>3, <2>4 DEF ReceivesHonest
<1>17. (Still(d) <=> Still(c)) /\ (FinIn(d) <=> FinIn(c)) /\ ~Silent(d, k.b)
  <2>1. (Still(d) <=> Still(c)) /\ (FinIn(d) <=> FinIn(c))
    BY <1>13 DEF Still, FinIn, Opening
  <2> QED BY <1>14, <2>1, OpenedNotSilent
<1>18. Fine(d, c0, k)
  BY <1>2, <1>13, <1>15, <1>16, <1>17 DEF Fine
<1>19. p.fin => Before(d.inAckno, k.pb) = k.pw
  BY <1>3, <1>5, <1>7, <1>9, <1>11, <1>13
<1> QED BY <1>1, <1>14, <1>18, <1>19

LEMMA ConsumePktFine ==
  ASSUME NEW c, NEW c0, NEW k \in Context, Fine(c, c0, k), Opened(c),
         NEW p \in HonestPackets(k.pb, k.pw), p.seqno = c.inAckno,
         p.fin => FinIn(c0)
  PROVE  Fine(ConsumePkt(c, p), c0, k)
<1>1. PICK t : t = Taken(c, p)
  OBVIOUS
<1>2. /\ Fine(t, c0, k) /\ Opened(t)
      /\ p.fin => Before(t.inAckno, k.pb) = k.pw
  BY <1>1, TakenFine
<1>3. PICK d : d = UpdateInWinSize(t)
  OBVIOUS
<1>4. Fine(d, c0, k) /\ Same(t, d)
  BY <1>2, <1>3, UpdateInWinSizeFine
<1>5. Opened(d) /\ (p.fin => Before(d.inAckno, k.pb) = k.pw)
  BY <1>2, <1>4 DEF Same, Opened
<1>6. PICK f : f = IF p.fin THEN TakeFin(d) ELSE d
  OBVIOUS
<1>7. Fine(f, c0, k)
  BY <1>4, <1>5, <1>6, TakeFinFine
<1>8. ConsumePkt(c, p) \in {f, TakeAckOfFin(f)}
  BY <1>1, <1>3, <1>6 DEF ConsumePkt, Taken
<1> QED BY <1>7, <1>8, TakeAckOfFinFine

(* What inPkt may hold of the stream that comes in.                        *)
Allowed(c0, k) == {p \in HonestPackets(k.pb, k.pw) : p.fin => FinIn(c0)}

LEMMA InPktAllowed ==
  ASSUME NEW c, NEW c0, NEW k \in Context, Fine(c, c0, k)
  PROVE  c.inPkt \in Seq(Allowed(c0, k))
<1>1. c.inPkt \in Seq(HonestPackets(k.pb, k.pw))
  BY DEF Fine, ReceivesHonest
<1>2. \A i \in 1 .. Len(c.inPkt) : c.inPkt[i] \in Allowed(c0, k)
  <2> TAKE i \in 1 .. Len(c.inPkt)
  <2>1. c.inPkt[i] \in HonestPackets(k.pb, k.pw)
    BY <1>1
  <2>2. c.inPkt[i].fin => FinIn(c0)
    BY DEF Fine, FinIn
  <2> QED BY <2>1, <2>2 DEF Allowed
<1>3. Len(c.inPkt) \in Nat /\ c.inPkt = [i \in 1 .. Len(c.inPkt) |-> c.inPkt[i]]
  BY <1>1
<1> HIDE DEF Allowed
<1>4. PICK n : n = Len(c.inPkt)
  OBVIOUS
<1>5. c.inPkt \in [1 .. n -> Allowed(c0, k)]
  BY <1>2, <1>3, <1>4
<1> QED BY <1>3, <1>4, <1>5

LEMMA InPktFine ==
  ASSUME NEW c, NEW c0, NEW k \in Context, Fine(c, c0, k),
         NEW q \in Seq(Allowed(c0, k)), Opened(c) \/ q = <<>>
  PROVE  /\ Fine([c EXCEPT !.inPkt = q], c0, k)
         /\ [c EXCEPT !.inPkt = q].state = c.state
         /\ [c EXCEPT !.inPkt = q].inAckno = c.inAckno
<1>1. PICK d : d = [c EXCEPT !.inPkt = q]
  OBVIOUS
<1>2. q \in Seq(HonestPackets(k.pb, k.pw)) /\ q \in Seq(ShortPacket)
      /\ \A i \in 1 .. Len(q) : q[i].fin => FinIn(c0)
  <2>1. Allowed(c0, k) \subseteq HonestPackets(k.pb, k.pw)
    BY DEF Allowed
  <2>2. HonestPackets(k.pb, k.pw) \subseteq ShortPacket
    BY DEF HonestPackets
  <2>3. \A i \in 1 .. Len(q) : q[i] \in Allowed(c0, k)
    OBVIOUS
  <2>4. q \in [1 .. Len(q) -> Allowed(c0, k)] /\ Len(q) \in Nat
    OBVIOUS
  <2>5. q \in [1 .. Len(q) -> HonestPackets(k.pb, k.pw)]
    BY <2>1, <2>4
  <2>6. q \in [1 .. Len(q) -> ShortPacket]
    BY <2>2, <2>5
  <2> QED BY <2>3, <2>4, <2>5, <2>6 DEF Allowed
<1>3. c \in TypedStream /\ d \in TypedStream
  BY <1>1, <1>2, InPktType DEF Fine
<1>4. /\ d.state = c.state /\ d.known = c.known /\ d.outActive = c.outActive
      /\ d.outSeqno = c.outSeqno /\ d.inAckno = c.inAckno /\ d.tx = c.tx
      /\ d.inQueue = c.inQueue /\ d.outQueue = c.outQueue
      /\ d.inPkt = q /\ d.outPkt = c.outPkt
  BY <1>1, <1>3, TypedParts DEF Fields
<1>5. SendsHonest(d, k.b, k.w)
  BY <1>4 DEF Fine, SendsHonest, Opening, Opened
<1>6. ReceivesHonest(d, k.r, k.pb, k.pw)
  BY <1>2, <1>4 DEF Fine, ReceivesHonest, Opening, Opened
<1>7. FinIn(d) => FinIn(c0)
  BY <1>2, <1>4 DEF Fine, FinIn
<1>8. (Still(d) <=> Still(c)) /\ (Silent(d, k.b) <=> Silent(c, k.b))
  BY <1>4 DEF Still, Opening, Silent
<1> QED BY <1>1, <1>3, <1>4, <1>5, <1>6, <1>7, <1>8 DEF Fine

LEMMA ConsumeNextFine ==
  ASSUME NEW c, NEW c0, NEW k \in Context, Fine(c, c0, k)
  PROVE  Fine(ConsumeNext(c), c0, k)
<1>1. c \in TypedStream
  BY DEF Fine
<1>2. CASE ConsumeNext(c) = c
  BY <1>2
<1>3. ASSUME NEW i \in 1 .. Len(c.inPkt), Matches(c, i),
             ConsumeNext(c) =
               ConsumePkt([c EXCEPT !.inPkt = SubSeq(c.inPkt, 1, i - 1)
                                      \o SubSeq(c.inPkt, i + 1, Len(c.inPkt))],
                          c.inPkt[i])
      PROVE  Fine(ConsumeNext(c), c0, k)
  <2> DEFINE q == SubSeq(c.inPkt, 1, i - 1) \o SubSeq(c.inPkt, i + 1, Len(c.inPkt))
             p == c.inPkt[i]
  <2>1. c.inPkt \in Seq(Allowed(c0, k))
    BY InPktAllowed
  <2>2. q \in Seq(Allowed(c0, k))
    BY <2>1, TakenOut
  <2>3. p \in Allowed(c0, k)
    BY <2>1
  <2>4. Opened(c)
    <3>1. c.inPkt # <<>>
      OBVIOUS
    <3> QED BY <3>1 DEF Fine, ReceivesHonest
  <2>5. p.seqno = c.inAckno
    BY <1>3 DEF Matches
  <2> HIDE DEF q
  <2>6. PICK x : x = [c EXCEPT !.inPkt = q]
    OBVIOUS
  <2>7. Fine(x, c0, k) /\ x.state = c.state /\ x.inAckno = c.inAckno
    BY <2>2, <2>4, <2>6, InPktFine
  <2>8. Opened(x)
    BY <2>4, <2>7 DEF Opened
  <2>9. p \in HonestPackets(k.pb, k.pw) /\ (p.fin => FinIn(c0))
    BY <2>3 DEF Allowed
  <2>10. ConsumeNext(c) = ConsumePkt(x, p)
    BY <1>3, <2>6 DEF q
  <2> HIDE DEF p
  <2>11. Fine(ConsumePkt(x, p), c0, k)
    BY <2>5, <2>7, <2>8, <2>9, ConsumePktFine
  <2> QED BY <2>10, <2>11
<1> QED BY <1>1, <1>2, <1>3, ConsumeNextIs

LEMMA CheckInPktsFine ==
  ASSUME NEW c, NEW c0, NEW k \in Context, Fine(c, c0, k)
  PROVE  Fine(CheckInPkts(c), c0, k)
<1> DEFINE S == {x \in TypedStream : Fine(x, c0, k)}
           d == ConsumeAll(c)
           q == NewPkts(d)
<1>1. d \in S
  <2>1. c \in S /\ Len(c.inPkt) \in Nat
    BY DEF Fine, TypedStream
  <2>2. \A x \in S : ConsumeNext(x) \in S
    BY ConsumeNextFine, ConsumeNextType
  <2> HIDE DEF S
  <2> QED BY <2>1, <2>2, ConsumeAllStays
<1>2. Fine(d, c0, k)
  BY <1>1
<1> HIDE DEF d, S
<1>3. q \in Seq(Allowed(c0, k))
  BY <1>2, InPktAllowed, NewPktsFrom
<1>4. Opened(d) \/ q = <<>>
  <2> SUFFICES ASSUME ~Opened(d) PROVE q = <<>>
    OBVIOUS
  <2>1. d.inPkt \in Seq({})
    <3>1. d.inPkt = <<>>
      BY <1>2 DEF Fine, ReceivesHonest
    <3> QED BY <3>1
  <2>2. q \in Seq({})
    BY <2>1, NewPktsFrom
  <2> HIDE DEF q
  <2> QED BY <2>2
<1>5. CheckInPkts(c) = [d EXCEPT !.inPkt = q]
  BY DEF CheckInPkts, d
<1> HIDE DEF q
<1> QED BY <1>2, <1>3, <1>4, <1>5, InPktFine

LEMMA EnqueueFine ==
  ASSUME NEW c, NEW c0, NEW k \in Context, Fine(c, c0, k), Opened(c),
         NEW p \in Allowed(c0, k)
  PROVE  Fine(Enqueue(c, p), c0, k)
<1> DEFINE q == IF Len(Append(c.inPkt, p)) > MaxQueue
                  THEN Tail(Append(c.inPkt, p)) ELSE Append(c.inPkt, p)
<1>1. q \in Seq(Allowed(c0, k))
  BY InPktAllowed, Enqueued
<1>2. Enqueue(c, p) = [c EXCEPT !.inPkt = q]
  BY DEF Enqueue
<1> HIDE DEF q
<1> QED BY <1>1, <1>2, InPktFine

(* The fields that only the sender's pace depends on are set at will.      *)
LEMMA PacedFine ==
  ASSUME NEW c, NEW c0, NEW k \in Context, Fine(c, c0, k),
         NEW a \in SeqNum, NEW w \in Nat
  PROVE  /\ Fine([c EXCEPT !.outAcked = a, !.outWin = w], c0, k)
         /\ Same(c, [c EXCEPT !.outAcked = a, !.outWin = w])
<1>1. PICK d : d = [c EXCEPT !.outAcked = a, !.outWin = w]
  OBVIOUS
<1>2. c \in TypedStream /\ d \in TypedStream
  BY <1>1, AckedType DEF Fine
<1>3. Same(c, d) /\ d.tx = c.tx
  BY <1>1, <1>2, TypedParts DEF Fields, Same
<1> QED BY <1>1, <1>2, <1>3, SameFine

LEMMA IncomingEstablishedFine ==
  ASSUME NEW c, NEW c0, NEW k \in Context, Fine(c, c0, k), Opened(c),
         NEW p \in Allowed(c0, k)
  PROVE  Fine(IncomingEstablished(c, p), c0, k)
<1> DEFINE a == IF p.ack THEN p.ackno ELSE c.outAcked
           w == p.win
           x == [c EXCEPT !.outAcked = a, !.outWin = w]
           d == IF InWindow(c, p) THEN x ELSE SendAck(c)
<1>typed. c \in TypedStream /\ p \in ShortPacket
  BY DEF Fine, Allowed, HonestPackets
<1>1. a \in SeqNum /\ w \in Nat
  BY <1>typed, ShortPacketParts DEF TypedStream
<1>2. Fine(x, c0, k) /\ Opened(x)
  <2> HIDE DEF a, w
  <2>1. Fine(x, c0, k) /\ Same(c, x)
    BY <1>1, PacedFine
  <2> HIDE DEF x
  <2> QED BY <2>1 DEF Same, Opened
<1>3. Fine(SendAck(c), c0, k) /\ Opened(SendAck(c))
  <2>1. SentAs(SendAck(c), c, AckPkt, FALSE)
    BY <1>typed, ToSendFields DEF SendAck
  <2>2. SendAck(c).state = c.state
    BY <2>1 DEF SentAs
  <2> QED BY <2>2, SendAckFine DEF Opened
<1>4. IncomingEstablished(c, p) = CheckInPkts(Enqueue(d, p))
  BY DEF IncomingEstablished
<1> HIDE DEF x
<1>5. Fine(d, c0, k) /\ Opened(d)
  BY <1>2, <1>3
<1> HIDE DEF d
<1>6. Fine(Enqueue(d, p), c0, k)
  BY <1>5, EnqueueFine
<1> QED BY <1>4, <1>6, CheckInPktsFine

(* While the stream opens, what it will receive has no number yet.         *)
LEMMA UnnumberedFine ==
  ASSUME NEW c, NEW c0, NEW k \in Context, Fine(c, c0, k), Opening(c),
         NEW d \in TypedStream,
         d.state = c.state, d.known = c.known, d.outActive = c.outActive,
         d.outSeqno = c.outSeqno, d.inQueue = c.inQueue,
         d.outQueue = c.outQueue, d.inPkt = c.inPkt, d.outPkt = c.outPkt,
         d.tx = c.tx
  PROVE  Fine(d, c0, k)
<1>1. Opening(d) /\ ~Opened(d)
      /\ d.state \notin {TCP_CLOSE_WAIT, TCP_CLOSING, TCP_LAST_ACK}
  BY States DEF Opening, Opened
<1>2. SendsHonest(d, k.b, k.w)
  BY DEF Fine, SendsHonest, Opening, Opened
<1>3. ReceivesHonest(d, k.r, k.pb, k.pw)
  <2>1. ~Opened(c)
    BY States DEF Opening, Opened
  <2> QED BY <1>1, <2>1 DEF Fine, ReceivesHonest
<1>4. /\ Still(d) <=> Still(c)
      /\ FinIn(d) <=> FinIn(c)
      /\ Silent(d, k.b) <=> Silent(c, k.b)
  BY DEF Still, FinIn, Opening, Silent
<1> QED BY <1>2, <1>3, <1>4 DEF Fine

(* A SYN that crosses our own: it is acknowledged, for as long as that     *)
(* takes.                                                                  *)
LEMMA CrossingFine ==
  ASSUME NEW c, NEW c0, NEW k \in Context, Fine(c, c0, k),
         c.state = TCP_SYN_SENT, NEW p \in ShortPacket, NEW isn
  PROVE  Fine(IncomingClosed(c, p, isn), c0, k)
<1> DEFINE s == p.seqno
           a == SeqAdd(p.seqno, 1)
           w == p.win
           d == [c EXCEPT !.initPeer = s, !.inAckno = a, !.outWin = w, !.inWin = MaxWin]
           rcvd == TCP_SYN_RCVD
<1>1. s \in SeqNum /\ w \in Nat /\ MaxWin \in Nat
  BY ShortPacketParts, Sizes
<1>2. a \in SeqNum
  <2>1. p.seqno \in SeqNum /\ 1 \in 0 .. SeqMod
    BY ShortPacketParts, Sizes
  <2> QED BY <2>1, SeqAddType
<1>3. c \in TypedStream /\ Opening(c)
  BY DEF Fine, Opening
<1>4. d \in TypedStream
  <2> HIDE DEF s, a, w
  <2> QED BY <1>1, <1>2, <1>3, HeardType
<1>5. Fine(d, c0, k) /\ d.state = TCP_SYN_SENT
  <2>1. PICK x : x = d
    OBVIOUS
  <2> HIDE DEF s, a, w
  <2>2. /\ x.state = c.state /\ x.known = c.known /\ x.outActive = c.outActive
        /\ x.outSeqno = c.outSeqno /\ x.inQueue = c.inQueue
        /\ x.outQueue = c.outQueue /\ x.inPkt = c.inPkt /\ x.outPkt = c.outPkt
        /\ x.tx = c.tx
    BY <1>3, <2>1, TypedParts DEF Fields
  <2> HIDE DEF d
  <2> QED BY <1>3, <1>4, <2>1, <2>2, UnnumberedFine
<1>6. IncomingClosed(c, p, isn) \in {c, [ToSend(d, AckPkt, TRUE) EXCEPT !.state = rcvd]}
  BY States DEF IncomingClosed
<1> HIDE DEF d
<1>7. PICK x : x = ToSend(d, AckPkt, TRUE)
  OBVIOUS
<1>8. Fine(x, c0, k)
  BY <1>5, <1>7, ToSendAckFine
<1>9. x.state = TCP_SYN_SENT
  <2>1. SentAs(x, d, AckPkt, TRUE)
    BY <1>4, <1>7, ToSendFields
  <2> QED BY <1>5, <2>1 DEF SentAs
<1>10. PICK y : y = [x EXCEPT !.state = rcvd]
  OBVIOUS
<1>11. y \in TypedStream /\ x \in TypedStream
  <2>1. rcvd \in 0 .. 10
    BY States
  <2> HIDE DEF rcvd
  <2> QED BY <1>8, <1>10, <2>1, StateType DEF Fine
<1>12. /\ y.state = TCP_SYN_RCVD /\ y.known = x.known /\ y.outActive = x.outActive
       /\ y.outSeqno = x.outSeqno /\ y.inQueue = x.inQueue
       /\ y.outQueue = x.outQueue /\ y.inPkt = x.inPkt /\ y.outPkt = x.outPkt
       /\ y.tx = x.tx
  <2> HIDE DEF rcvd
  <2>1. /\ y.state = rcvd /\ y.known = x.known /\ y.outActive = x.outActive
        /\ y.outSeqno = x.outSeqno /\ y.inQueue = x.inQueue
        /\ y.outQueue = x.outQueue /\ y.inPkt = x.inPkt /\ y.outPkt = x.outPkt
        /\ y.tx = x.tx
    BY <1>10, <1>11, TypedParts DEF Fields
  <2> QED BY <2>1 DEF rcvd
<1>13. /\ Opening(y) /\ ~Opened(y) /\ Opening(x) /\ ~Opened(x)
       /\ y.state \notin {TCP_CLOSE_WAIT, TCP_CLOSING, TCP_LAST_ACK}
       /\ y.state \notin {TCP_LISTEN, TCP_TIMED_WAIT, TCP_SYN_SENT}
  BY <1>9, <1>12, States DEF Opening, Opened
<1>14. x.outSeqno = k.b
  BY <1>8, <1>9 DEF Fine, SendsHonest
<1>15. SendsHonest(y, k.b, k.w)
  BY <1>8, <1>12, <1>13 DEF Fine, SendsHonest
<1>16. ReceivesHonest(y, k.r, k.pb, k.pw)
  BY <1>8, <1>12, <1>13 DEF Fine, ReceivesHonest
<1>17. ~Still(x) /\ (FinIn(y) => FinIn(x)) /\ ~Silent(y, k.b)
  BY <1>12, <1>13, <1>14 DEF Still, FinIn, Silent
<1>18. Fine(y, c0, k)
  BY <1>8, <1>11, <1>12, <1>15, <1>16, <1>17 DEF Fine
<1> QED BY <1>6, <1>7, <1>10, <1>18

(* The stream is open: nothing is sent yet but the SYN, and nothing        *)
(* received.                                                               *)
LEMMA EstablishFine ==
  ASSUME NEW c, NEW c0, NEW k \in Context, Fine(c, c0, k), Opening(c),
         c.outSeqno = k.b, NEW p \in ShortPacket
  PROVE  Fine(Establish(c, p), c0, k) /\ Opened(Establish(c, p))
<1> DEFINE w == p.win
           a == p.ackno
           s == TCP_ESTABLISHED
           on == TRUE
<1>1. PICK d : d = Establish(c, p)
  OBVIOUS
<1>2. c \in TypedStream /\ d \in TypedStream
  BY <1>1, EstablishType DEF Fine
<1>3. d = [c EXCEPT !.outWin = w, !.outAcked = a, !.state = s,
                    !.inActive = on, !.outActive = on]
  BY <1>1 DEF Establish
<1> HIDE DEF w, a, s, on
<1>4. /\ d.state = s /\ d.known = c.known
      /\ d.outSeqno = c.outSeqno /\ d.inAckno = c.inAckno /\ d.tx = c.tx
      /\ d.inQueue = c.inQueue /\ d.outQueue = c.outQueue
      /\ d.inPkt = c.inPkt /\ d.outPkt = c.outPkt
  BY <1>2, <1>3, TypedParts DEF Fields
<1>5. /\ Opened(d) /\ ~Opening(d) /\ ~Opened(c) /\ ~Still(c)
      /\ d.state \notin {TCP_CLOSE_WAIT, TCP_CLOSING, TCP_LAST_ACK}
      /\ d.state \notin {TCP_LISTEN, TCP_TIMED_WAIT, TCP_SYN_SENT}
      /\ c.state \notin {TCP_CLOSE_WAIT, TCP_CLOSING, TCP_LAST_ACK}
  BY <1>4, States DEF Opened, Opening, Still, s
<1>6. /\ k.w = 0 /\ c.known /\ d.inQueue = <<>>
      /\ k.r = <<>> /\ d.outQueue = <<>> /\ d.inPkt = <<>>
  BY <1>4, <1>5 DEF Fine, SendsHonest, ReceivesHonest
<1>7. SendsHonest(d, k.b, k.w)
  <2>1. Len(<<>>) = 0 /\ k.b \in SeqNum
    BY DEF Context
  <2>2. Before(d.outSeqno, k.b) = 0
    BY <1>4, <2>1, BeforeType
  <2>3. d.outPkt \in Seq(HonestOut(k.b, k.w))
    BY <1>4 DEF Fine, SendsHonest
  <2>4. /\ Len(d.inQueue) <= k.w
        /\ Before(d.outSeqno, k.b) = k.w - Len(d.inQueue)
        /\ \A i \in 1 .. Len(d.inQueue) : d.inQueue[i] = k.w - Len(d.inQueue) + i
    <3>1. Len(d.inQueue) = 0
      BY <1>6, <2>1
    <3>2. k.w = 0
      BY <1>6
    <3>3. ASSUME NEW i \in 1 .. 0
          PROVE  d.inQueue[i] = k.w - Len(d.inQueue) + i
      BY <3>3
    <3> QED BY <2>2, <3>1, <3>2, <3>3
  <2> QED BY <1>4, <1>5, <1>6, <2>3, <2>4 DEF SendsHonest
<1>8. ReceivesHonest(d, k.r, k.pb, k.pw)
  <2>1. <<>> \o <<>> = <<>> /\ Consecutive(<<>> \o <<>>)
    BY DEF Consecutive
  <2>2. d.inPkt \in Seq(HonestPackets(k.pb, k.pw))
    BY <1>6
  <2>3. k.r \o d.outQueue = <<>> /\ Consecutive(k.r \o d.outQueue)
    BY <1>6, <2>1
  <2> QED BY <1>5, <1>6, <2>2, <2>3 DEF ReceivesHonest
<1>9. (FinIn(d) => FinIn(c)) /\ ~Silent(d, k.b)
  <2>1. FinIn(d) => FinIn(c)
    BY <1>4, <1>5 DEF FinIn
  <2> QED BY <1>5, <2>1, OpenedNotSilent
<1>10. ~ \E x \in d.tx : x.fin
  BY <1>4, <1>5 DEF Fine
<1>11. Fine(d, c0, k)
  BY <1>2, <1>4, <1>5, <1>7, <1>8, <1>9, <1>10 DEF Fine
<1> QED BY <1>1, <1>5, <1>11

LEMMA IncomingSynSentFine ==
  ASSUME NEW c, NEW c0, NEW k \in Context, Fine(c, c0, k),
         c.state = TCP_SYN_SENT, NEW p \in ShortPacket, NEW isn
  PROVE  Fine(IncomingSynSent(c, p, isn), c0, k)
<1> DEFINE s == p.seqno
           a == SeqAdd(p.seqno, 1)
<1>1. s \in SeqNum /\ a \in SeqNum
  <2>1. p.seqno \in SeqNum /\ 1 \in 0 .. SeqMod
    BY ShortPacketParts, Sizes
  <2> QED BY <2>1, SeqAddType
<1>2. c \in TypedStream /\ Opening(c)
  BY DEF Fine, Opening
<1>3. PICK x : x = [c EXCEPT !.initPeer = s, !.inAckno = a]
  OBVIOUS
<1>4. Fine(x, c0, k) /\ x.state = TCP_SYN_SENT /\ x \in TypedStream
  <2> HIDE DEF s, a
  <2>1. x \in TypedStream
    BY <1>1, <1>2, <1>3, SynAckedType
  <2>2. /\ x.state = c.state /\ x.known = c.known /\ x.outActive = c.outActive
        /\ x.outSeqno = c.outSeqno /\ x.inQueue = c.inQueue
        /\ x.outQueue = c.outQueue /\ x.inPkt = c.inPkt /\ x.outPkt = c.outPkt
        /\ x.tx = c.tx
    BY <1>2, <1>3, TypedParts DEF Fields
  <2> QED BY <1>2, <2>1, <2>2, UnnumberedFine
<1>5. Fine(SendAck(x), c0, k) /\ SendAck(x).state = TCP_SYN_SENT
  <2>1. SentAs(SendAck(x), x, AckPkt, FALSE)
    BY <1>4, ToSendFields DEF SendAck
  <2> QED BY <1>4, <2>1, SendAckFine DEF SentAs
<1>6. Opening(SendAck(x)) /\ SendAck(x).outSeqno = k.b
  BY <1>5 DEF Fine, SendsHonest, Opening
<1>7. Fine(Establish(SendAck(x), p), c0, k)
  BY <1>5, <1>6, EstablishFine
<1>8. IncomingSynSent(c, p, isn) \in
        {IncomingClosed(c, p, isn), c, Establish(SendAck(x), p)}
  BY <1>3 DEF IncomingSynSent
<1> QED BY <1>7, <1>8, CrossingFine

LEMMA IncomingSynRcvdFine ==
  ASSUME NEW c, NEW c0, NEW k \in Context, Fine(c, c0, k),
         c.state = TCP_SYN_RCVD, NEW p \in Allowed(c0, k),
         p.ack => ~Silent(c, k.b)
  PROVE  Fine(IncomingSynRcvd(c, p), c0, k)
<1> DEFINE s == p.seqno
<1>typed. c \in TypedStream /\ Opening(c) /\ p \in ShortPacket
  BY DEF Fine, Opening, Allowed, HonestPackets
<1>1. PICK x : x = [c EXCEPT !.inAckno = s]
  OBVIOUS
<1>2. Fine(x, c0, k) /\ x.state = TCP_SYN_RCVD /\ x.outSeqno = c.outSeqno
  <2>1. s \in SeqNum
    BY <1>typed, ShortPacketParts
  <2> HIDE DEF s
  <2>2. x \in TypedStream
    BY <1>1, <1>typed, <2>1, InAcknoType
  <2>3. /\ x.state = c.state /\ x.known = c.known /\ x.outActive = c.outActive
        /\ x.outSeqno = c.outSeqno /\ x.inQueue = c.inQueue
        /\ x.outQueue = c.outQueue /\ x.inPkt = c.inPkt /\ x.outPkt = c.outPkt
        /\ x.tx = c.tx
    BY <1>1, <1>typed, TypedParts DEF Fields
  <2> QED BY <1>typed, <2>2, <2>3, UnnumberedFine
<1>3. PICK d : d = Establish(x, p)
  OBVIOUS
<1>4. p.ack => Fine(d, c0, k) /\ Opened(d)
  <2>1. p.ack => x.outSeqno = k.b
    BY <1>2 DEF Silent
  <2>2. Opening(x)
    BY <1>2 DEF Opening
  <2> QED BY <1>2, <1>3, <1>typed, <2>1, <2>2, EstablishFine
<1>5. p.ack => Fine(IncomingEstablished(d, p), c0, k)
  BY <1>4, IncomingEstablishedFine
<1>6. IncomingSynRcvd(c, p) \in
        (IF ~p.ack THEN {c} ELSE {c, d, IncomingEstablished(d, p)})
  BY <1>1, <1>3 DEF IncomingSynRcvd
<1> QED BY <1>4, <1>5, <1>6

(* A packet for a stream that does not start with it.                      *)
LEMMA HandleIncomingFine ==
  ASSUME NEW c, NEW c0, NEW k \in Context, Fine(c, c0, k),
         NEW p \in Allowed(c0, k), NEW isn,
         ~TakesIsn(c, p), p.ack => ~Silent(c, k.b)
  PROVE  Fine(HandleIncoming(c, p, isn), c0, k)
<1>1. p \in ShortPacket /\ c \in TypedStream
  BY DEF Allowed, HonestPackets, Fine
<1>2. c.state \in 0 .. 10 /\ c.state \notin {TCP_LISTEN, TCP_TIMED_WAIT}
  BY <1>1 DEF Fine, SendsHonest, TypedStream
<1>3. CASE c.state = TCP_CLOSED
  <2>1. ~(p.syn /\ ~p.ack)
    BY <1>3 DEF TakesIsn
  <2>2. HandleIncoming(c, p, isn) = IncomingClosed(c, p, isn)
    BY <1>3, States DEF HandleIncoming
  <2>3. IncomingClosed(c, p, isn) = c
    BY <2>1 DEF IncomingClosed
  <2> QED BY <2>2, <2>3
<1>4. CASE c.state = TCP_SYN_SENT
  <2>1. HandleIncoming(c, p, isn) = IncomingSynSent(c, p, isn)
    BY <1>4, States DEF HandleIncoming
  <2> QED BY <1>1, <1>4, <2>1, IncomingSynSentFine
<1>5. CASE c.state = TCP_SYN_RCVD
  <2>1. HandleIncoming(c, p, isn) = IncomingSynRcvd(c, p)
    BY <1>5, States DEF HandleIncoming
  <2> QED BY <1>5, <2>1, IncomingSynRcvdFine
<1>6. CASE Opened(c)
  <2>1. HandleIncoming(c, p, isn) = IncomingEstablished(c, p)
    BY <1>2, <1>6, States DEF HandleIncoming, Opened
  <2> QED BY <1>6, <2>1, IncomingEstablishedFine
<1> QED BY <1>2, <1>3, <1>4, <1>5, <1>6, States DEF Opened

(***************************************************************************)
(* Opening                                                                 *)
(***************************************************************************)

Blank(c) ==
    /\ c \in TypedStream
    /\ c.inQueue = <<>> /\ c.outQueue = <<>>
    /\ c.inPkt = <<>> /\ c.outPkt = <<>> /\ c.tx = {}

(* d has sent its SYN, or would have if it had been connected.             *)
Starts(d, s, known, ack, b) ==
    /\ d.state = s
    /\ \A p \in d.tx : p.syn /\ p.ack = ack
    /\ \A i \in 1 .. Len(d.outPkt) :
         d.outPkt[i].pkt.syn /\ d.outPkt[i].pkt.ack = ack
    /\ known => d.outSeqno = b
    /\ ~known => d.outSeqno # b /\ d.tx = {} /\ d.outPkt = <<>>

LEMMA OpenFine ==
  ASSUME NEW k \in Context, k.w = 0, k.r = <<>>,
         NEW isn \in SeqNum, k.b = SeqAdd(isn, 1), NEW ack \in BOOLEAN,
         NEW c, Blank(c), ack \/ c.known,
         NEW s, s = IF ack THEN TCP_SYN_RCVD ELSE TCP_SYN_SENT,
         NEW d, d = [ToSend(InitSeqnos(c, isn), SynPkt(ack), TRUE) EXCEPT !.state = s]
  PROVE  Fine(d, d, k) /\ ~FinIn(d) /\ Starts(d, s, c.known, ack, k.b)
<1>typed. c \in TypedStream /\ k.b \in SeqNum /\ c.known \in BOOLEAN
  BY DEF Blank, Context, TypedStream
<1>1. PICK x : x = InitSeqnos(c, isn)
  OBVIOUS
<1>2. x \in TypedStream
  BY <1>1, <1>typed, InitSeqnosType
<1>3. /\ x.known = c.known /\ x.outSeqno = isn /\ x.tx = {}
      /\ x.inQueue = <<>> /\ x.outQueue = <<>>
      /\ x.inPkt = <<>> /\ x.outPkt = <<>>
  <2> DEFINE update == SeqAdd(isn, MaxSeg)
  <2>1. x = [c EXCEPT !.outSeqno = isn, !.initOur = isn, !.outAcked = isn,
                      !.inWin = MaxWin, !.congestThreshold = MaxWin,
                      !.congestWin = MaxSeg, !.congestUpdate = update]
    BY <1>1 DEF InitSeqnos
  <2> HIDE DEF update
  <2>2. /\ x.known = c.known /\ x.outSeqno = isn /\ x.tx = c.tx
        /\ x.inQueue = c.inQueue /\ x.outQueue = c.outQueue
        /\ x.inPkt = c.inPkt /\ x.outPkt = c.outPkt
    BY <1>typed, <2>1, TypedParts DEF Fields
  <2> QED BY <2>2 DEF Blank
<1>4. PICK pkt : pkt = SynPkt(ack)
  OBVIOUS
<1>5. pkt \in Flags /\ pkt.syn /\ pkt.ack = ack /\ ~pkt.fin /\ pkt.data = <<>>
      /\ Len(pkt.data) <= MaxSeg /\ TRUE \in BOOLEAN
  <2>1. Len(<<>>) <= MaxSeg
    BY Sizes
  <2> QED BY <1>4, <2>1, FlagsOfAck DEF SynPkt
<1>6. PICK y : y = ToSend(x, pkt, TRUE)
  OBVIOUS
<1>7. y \in TypedStream /\ SentAs(y, x, pkt, TRUE)
  BY <1>2, <1>5, <1>6, ToSendType, ToSendFields
<1>8. PICK p : p = Made(x, pkt)
  OBVIOUS
<1>9. p \in ShortPacket /\ p.syn /\ p.ack = ack /\ ~p.fin /\ p.data = <<>>
  BY <1>2, <1>5, <1>8, MadeType
<1>10. p \in HonestPackets(k.b, k.w)
  BY <1>9, BareIsHonest
<1>11. PICK out : out = [pkt |-> p, retrans |-> 0]
  OBVIOUS
<1>12. out \in HonestOut(k.b, k.w) /\ out.pkt = p
  BY <1>9, <1>10, <1>11 DEF HonestOut
<1>13. s \in 0 .. 10 /\ s \in {TCP_SYN_SENT, TCP_SYN_RCVD} /\ (~ack => s = TCP_SYN_SENT)
       /\ (ack => s = TCP_SYN_RCVD)
  BY States
<1>14. d = [y EXCEPT !.state = s]
  BY <1>1, <1>4, <1>6
<1>15. d \in TypedStream
  <2>1. y \in TypedStream /\ s \in 0 .. 10
    BY <1>7, <1>13
  <2>2. [y EXCEPT !.state = s] \in TypedStream
    BY ONLY <2>1, StateType
  <2> QED BY <1>14, <2>2
<1>16. /\ d.state = s /\ d.known = y.known /\ d.outSeqno = y.outSeqno
       /\ d.tx = y.tx /\ d.inQueue = y.inQueue /\ d.outQueue = y.outQueue
       /\ d.inPkt = y.inPkt /\ d.outPkt = y.outPkt
  BY <1>7, <1>14, TypedParts DEF Fields
<1>17. d.known = c.known /\ d.inQueue = <<>> /\ d.outQueue = <<>> /\ d.inPkt = <<>>
  BY <1>3, <1>7, <1>16 DEF SentAs
<1>18. c.known =>
         d.outSeqno = k.b /\ d.tx = {p} /\ d.outPkt = <<out>>
  <2> SUFFICES ASSUME c.known
               PROVE  d.outSeqno = k.b /\ d.tx = {p} /\ d.outPkt = <<out>>
    OBVIOUS
  <2>1. y.outSeqno = SeqAdd(isn, 1) /\ y.tx = {} \cup {p}
    BY <1>3, <1>5, <1>7, <1>8 DEF SentAs
  <2>2. y.outPkt = Append(<<>>, out)
    BY <1>3, <1>7, <1>8, <1>11 DEF SentAs
  <2>3. Append(<<>>, out) = <<out>>
    OBVIOUS
  <2> QED BY <1>16, <2>1, <2>2, <2>3
<1>19. ~c.known => d.outSeqno # k.b /\ d.tx = {} /\ d.outPkt = <<>>
  <2>1. ~c.known => y = x
    BY <1>3, <1>7 DEF SentAs
  <2>2. isn # SeqAdd(isn, 1)
    BY Sizes DEF SeqAdd, SeqNum
  <2> QED BY <1>3, <1>16, <2>1, <2>2
<1>20. /\ d.outPkt \in Seq(HonestOut(k.b, k.w))
       /\ \A i \in 1 .. Len(d.outPkt) :
            d.outPkt[i].pkt.syn /\ d.outPkt[i].pkt.ack = ack
  <2>1. CASE c.known
    <3>1. <<out>> \in Seq(HonestOut(k.b, k.w)) /\ Len(<<out>>) = 1 /\ <<out>>[1] = out
      BY <1>12
    <3>2. \A i \in 1 .. 1 : i = 1
      OBVIOUS
    <3> QED BY <1>9, <1>12, <1>18, <2>1, <3>1, <3>2
  <2>2. CASE ~c.known
    <3>1. <<>> \in Seq(HonestOut(k.b, k.w)) /\ Len(<<>>) = 0 /\ 1 .. 0 = {}
      OBVIOUS
    <3> QED BY <1>19, <2>2, <3>1
  <2> QED BY <1>typed, <2>1, <2>2
<1>21. d.tx \subseteq {p}
  BY <1>18, <1>19, <1>typed
<1>22. /\ Opening(d) /\ ~Opened(d)
       /\ d.state \notin {TCP_CLOSE_WAIT, TCP_CLOSING, TCP_LAST_ACK}
       /\ d.state \notin {TCP_LISTEN, TCP_TIMED_WAIT}
  BY <1>13, <1>16, States DEF Opening, Opened
<1>23. SendsHonest(d, k.b, k.w)
  <2>1. d.state = TCP_SYN_SENT => c.known
    BY <1>13, <1>16, States
  <2> QED BY <1>17, <1>18, <1>19, <1>20, <1>22, <2>1 DEF SendsHonest
<1>24. ReceivesHonest(d, k.r, k.pb, k.pw)
  <2>1. <<>> \o <<>> = <<>> /\ Consecutive(<<>> \o <<>>)
    BY DEF Consecutive
  <2>2. k.r \o d.outQueue = <<>> /\ Consecutive(k.r \o d.outQueue)
    BY <1>17, <2>1
  <2>3. d.inPkt \in Seq(HonestPackets(k.pb, k.pw))
    <3>1. <<>> \in Seq(HonestPackets(k.pb, k.pw))
      OBVIOUS
    <3> QED BY <1>17, <3>1
  <2> QED BY <1>17, <1>22, <2>2, <2>3 DEF ReceivesHonest
<1>25. ~FinIn(d)
  <2>1. Len(d.inPkt) = 0
    BY <1>17
  <2>2. ASSUME NEW i \in 1 .. Len(d.inPkt) PROVE FALSE
    BY ONLY <2>1, <2>2
  <2> QED BY <1>22, <2>2 DEF FinIn
<1>26. Fine(d, d, k)
  BY <1>9, <1>10, <1>15, <1>21, <1>23, <1>24, <1>25 DEF Fine
<1>27. Starts(d, s, c.known, ack, k.b)
  BY <1>9, <1>16, <1>18, <1>19, <1>20, <1>21 DEF Starts
<1> QED BY <1>25, <1>26, <1>27

(* Before it is open, a stream does no more in a tick than send its SYN    *)
(* again.                                                                  *)
FirstSyns == {out \in ShortOut : IsFirstSyn(out.pkt)}

LEMMA RetransQuiet ==
  ASSUME NEW c \in TypedStream, c.outPkt \in Seq(FirstSyns), \A p \in c.tx : ~p.ack
  PROVE  /\ Retrans(c).state \in {c.state, TCP_CLOSED}
         /\ Retrans(c).outPkt \in Seq(FirstSyns)
         /\ \A p \in Retrans(c).tx : ~p.ack
         /\ c.outPkt = <<>> => Retrans(c).outPkt = <<>> /\ Retrans(c).tx = c.tx
<1>fields. c = Fields(c)
  BY TypedParts
<1>1. CASE ~c.known \/ ~c.timerOn
  BY <1>1 DEF Retrans
<1>2. CASE c.known /\ c.timerOn /\ c.outPkt = <<>>
  <2>1. PICK d : d = Retrans(c)
    OBVIOUS
  <2>2. d = [c EXCEPT !.timerOn = FALSE]
    BY <1>2, <2>1 DEF Retrans
  <2>3. d.state = c.state /\ d.outPkt = c.outPkt /\ d.tx = c.tx
    BY <1>fields, <2>2 DEF Fields
  <2> QED BY <2>1, <2>3
<1>3. CASE c.known /\ c.timerOn /\ c.outPkt # <<>>
  <2> DEFINE out == Head(c.outPkt)
             p == [out.pkt EXCEPT
                     !.ack = @ \/ ~out.pkt.syn,
                     !.ackno = IF out.pkt.syn THEN @ ELSE c.inAckno,
                     !.win = c.inWin]
             half == c.congestWin \div 2
             update == SeqAdd(c.outAcked, MaxSeg)
             last == IF out.pkt.syn THEN c.lastAck ELSE p.ackno
             win == p.win
             d == [c EXCEPT
                     !.congestThreshold = half, !.congestWin = MaxSeg,
                     !.congestUpdate = update,
                     !.lastAck = last, !.lastWin = win]
             tx == c.tx \cup {p}
             again == [pkt |-> p, retrans |-> out.retrans + 1]
             q == [c.outPkt EXCEPT ![1] = again]
  <2>1. out \in FirstSyns
    BY <1>3, HeadTailProperties
  <2>2. p \in ShortPacket /\ IsFirstSyn(p)
    <3>1. out.pkt \in ShortPacket /\ IsFirstSyn(out.pkt)
      BY <2>1 DEF FirstSyns, ShortOut
    <3>2. c.inAckno \in SeqNum /\ c.inWin \in Nat
      BY DEF TypedStream
    <3> HIDE DEF out
    <3>3. p \in ShortPacket
      BY <3>1, <3>2 DEF ShortPacket, Packet
    <3>4. p.syn = out.pkt.syn /\ p.ack = (out.pkt.ack \/ ~out.pkt.syn)
      BY <3>1 DEF ShortPacket, Packet
    <3> HIDE DEF p
    <3> QED BY <3>1, <3>3, <3>4 DEF IsFirstSyn
  <2>3. d = Fields(d) /\ Same(c, d) /\ d.tx = c.tx
    <3>1. PICK x : x = d
      OBVIOUS
    <3> HIDE DEF half, update, last, win
    <3>2. x = Fields(x) /\ Same(c, x) /\ x.tx = c.tx
      BY <1>fields, <3>1 DEF Fields, Same
    <3> HIDE DEF d
    <3> QED BY <3>1, <3>2
  <2>4. again \in FirstSyns
    <3>1. out.retrans + 1 \in Nat
      BY <2>1 DEF FirstSyns, ShortOut
    <3> HIDE DEF p, out
    <3> QED BY <2>2, <3>1 DEF FirstSyns, ShortOut
  <2>5. q \in Seq(FirstSyns)
    <3> HIDE DEF again
    <3>1. 1 \in 1 .. Len(c.outPkt)
      BY <1>3
    <3> QED BY <2>4, <3>1, ExceptSeq
  <2>6. Retrans(c) = IF GivesUp(out) THEN Cleanup(d)
                     ELSE [d EXCEPT !.tx = tx, !.outPkt = q]
    <3>1. d.tx = c.tx /\ d.outPkt = c.outPkt
      <4> HIDE DEF d
      <4> QED BY <2>3 DEF Same
    <3> QED BY <1>3, <3>1 DEF Retrans
  <2> HIDE DEF d, q, p, out
  <2>7. PICK x : x = Retrans(c)
    OBVIOUS
  <2>8. CASE GivesUp(out)
    <3>1. x = [d EXCEPT !.state = TCP_CLOSED, !.inActive = FALSE,
                        !.outActive = FALSE, !.inQueue = <<>>, !.outQueue = <<>>,
                        !.inPkt = <<>>, !.outPkt = <<>>]
      BY <2>6, <2>7, <2>8 DEF Cleanup
    <3>2. x.state = TCP_CLOSED /\ x.outPkt = <<>> /\ x.tx = d.tx
      BY <2>3, <3>1 DEF Fields
    <3>3. x.outPkt \in Seq(FirstSyns)
      BY <3>2
    <3> QED BY <1>3, <2>3, <2>7, <3>2, <3>3
  <2>9. CASE ~GivesUp(out)
    <3> HIDE DEF tx
    <3>1. x = [d EXCEPT !.tx = tx, !.outPkt = q]
      BY <2>6, <2>7, <2>9
    <3>2. x.state = d.state /\ x.tx = tx /\ x.outPkt = q
      BY <2>3, <3>1 DEF Fields
    <3>3. x.state = c.state
      BY <2>3, <3>2 DEF Same
    <3>4. \A y \in tx : ~y.ack
      BY <2>2 DEF tx, IsFirstSyn
    <3> QED BY <1>3, <2>5, <2>7, <3>2, <3>3, <3>4
  <2> QED BY <2>8, <2>9
<1> QED BY <1>1, <1>2, <1>3

LEMMA TickQuiet ==
  ASSUME NEW c \in TypedStream, NEW t, ~Opened(c),
         c.outPkt \in Seq(FirstSyns), c.tx = {}
  PROVE  /\ TickStream(c, t).state \in {c.state, TCP_CLOSED}
         /\ TickStream(c, t).outPkt \in Seq(FirstSyns)
         /\ \A p \in TickStream(c, t).tx : ~p.ack
         /\ c.outPkt = <<>> =>
              TickStream(c, t).outPkt = <<>> /\ TickStream(c, t).tx = {}
<1> DEFINE a == Acknowledge(c)
           d == IF t.rto THEN Retrans(a) ELSE a
<1>1. c.state \in 0 .. 10 /\ ~(c.state >= TCP_ESTABLISHED)
  BY DEF TypedStream, Opened
<1>2. a \in TypedStream /\ a.state = c.state /\ a.tx = {} /\ a.outPkt \in Seq(FirstSyns)
  BY AcknowledgeType, AcknowledgeFields
<1>3. c.outPkt = <<>> => a.outPkt = <<>>
  <2> SUFFICES ASSUME c.outPkt = <<>> PROVE a.outPkt = <<>>
    OBVIOUS
  <2>1. c.outPkt \in Seq({})
    OBVIOUS
  <2>2. a.outPkt \in Seq({})
    BY <2>1, AcknowledgeFields
  <2> HIDE DEF a
  <2> QED BY <2>2
<1> HIDE DEF a
<1>4. /\ d.state \in {c.state, TCP_CLOSED}
      /\ d.outPkt \in Seq(FirstSyns)
      /\ \A p \in d.tx : ~p.ack
      /\ c.outPkt = <<>> => d.outPkt = <<>> /\ d.tx = {}
  <2>1. /\ Retrans(a).state \in {a.state, TCP_CLOSED}
        /\ Retrans(a).outPkt \in Seq(FirstSyns)
        /\ \A p \in Retrans(a).tx : ~p.ack
        /\ a.outPkt = <<>> => Retrans(a).outPkt = <<>> /\ Retrans(a).tx = a.tx
    BY <1>2, RetransQuiet
  <2> QED BY <1>2, <1>3, <2>1
<1>5. TickStream(c, t) = d
  <2>1. RecvCheck(c, t.noPkt) = c
    BY <1>1, States DEF RecvCheck
  <2>2. d.state < TCP_ESTABLISHED
    BY <1>1, <1>4, States
  <2>3. Send(c, t.rto, t.idle) = d
    BY <2>2 DEF Send, a
  <2> QED BY <2>1, <2>3 DEF TickStream
<1> HIDE DEF d
<1> QED BY <1>4, <1>5

(***************************************************************************)
(* The steps                                                               *)
(***************************************************************************)

(* One end takes a step in which nothing is written.  Its stream becomes d *)
(* and sends tx.                                                           *)
LEMMA OneStep ==
  ASSUME OpensOnce, Bounded, HonestInv, Bounded', NEW e \in Ends, NEW d, NEW tx,
         stream' = [stream EXCEPT ![e] = d],
         written' = written,
         \A x \in Ends \ {e} : received'[x] = received[x] /\ opens'[x] = opens[x],
         Len(opens'[e]) <= 1,
         net'[e] \subseteq net[e],
         net'[Peer(e)] \subseteq net[Peer(e)] \cup tx,
         d.tx = {},
         SendsHonest(d, First(e), written[e]),
         ReceivesHonest(d, received'[e], First(Peer(e)), written[Peer(e)]),
         tx \subseteq HonestPackets(First(e), written[e]),
         (\E p \in tx : p.fin) => Still(d) /\ opens'[e] # <<>>,
         FinIn(d) => EndSeen(e),
         Frozen(e) => Still(d) /\ opens'[e] # <<>>,
         opens'[e] = <<>> \/ Silent(d, First(e)) =>
            Mute(e) /\ d.outPkt = <<>> /\ tx = {},
         Mute(Peer(e)) =>
            /\ d.state \in {TCP_CLOSED, TCP_SYN_SENT}
            /\ \A p \in tx : ~p.ack
            /\ \A i \in 1 .. Len(d.outPkt) : IsFirstSyn(d.outPkt[i].pkt),
         opens'[e] = <<>> => d.state = TCP_CLOSED /\ written[e] = 0
  PROVE  HonestInv'
<1> DEFINE f == Peer(e)
<1>ends. f \in Ends /\ f # e /\ Peer(f) = e /\ \A x \in Ends : x = e \/ x = f
  BY PeerIsEnd
<1> HIDE DEF f
<1>peer. Peer(e) = f
  BY DEF f
<1>1. stream'[e] = d /\ stream'[f] = stream[f]
  BY <1>ends DEF Bounded
<1>2. /\ received'[f] = received[f] /\ opens'[f] = opens[f]
      /\ net'[f] \subseteq net[f] \cup tx
      /\ written'[e] = written[e] /\ written'[f] = written[f]
  BY <1>ends, <1>peer
<1>inv. \A x \in Ends :
          /\ written[x] <= MaxBytes
          /\ stream[x].tx = {} /\ Len(opens[x]) <= 1
          /\ SendsHonest(stream[x], First(x), written[x])
          /\ ReceivesHonest(stream[x], received[x], First(Peer(x)), written[Peer(x)])
          /\ net[x] \subseteq HonestPackets(First(Peer(x)), written[Peer(x)])
          /\ EndSeen(x) => Frozen(Peer(x))
          /\ Mute(x) => Unheard(x)
          /\ StartsClosed(x)
  BY DEF HonestInv
<1>3. \A x \in Ends : written'[x] <= MaxBytes /\ stream'[x].tx = {} /\ Len(opens'[x]) <= 1
  BY <1>1, <1>2, <1>ends, <1>inv
<1>4. \A x \in Ends : SendsHonest(stream'[x], First(x), written'[x])
  BY <1>1, <1>2, <1>ends, <1>inv
<1>5. \A x \in Ends :
        ReceivesHonest(stream'[x], received'[x], First(Peer(x)), written'[Peer(x)])
  BY <1>1, <1>2, <1>ends, <1>inv, <1>peer
<1>6. \A x \in Ends : net'[x] \subseteq HonestPackets(First(Peer(x)), written'[Peer(x)])
  BY <1>2, <1>ends, <1>inv, <1>peer
<1>frozen. /\ Frozen(e) => Frozen(e)'
           /\ Frozen(f) <=> Frozen(f)'
  <2>1. Frozen(e) => opens'[e] # <<>> /\ ~Opening(d) /\ ~d.outActive
    BY DEF Still
  <2> QED BY <1>1, <1>2, <2>1 DEF Frozen, Opening
<1>7. EndSeen(e)' => Frozen(f)'
  <2>1. EndSeen(e)' => EndSeen(e)
    <3>1. EndSeen(e)' => (\E p \in net'[e] : p.fin) \/ FinIn(d)
      BY <1>1 DEF EndSeen, FinIn
    <3>2. (\E p \in net'[e] : p.fin) => EndSeen(e)
      BY DEF EndSeen
    <3> QED BY <3>1, <3>2
  <2> QED BY <1>ends, <1>inv, <1>frozen, <1>peer, <2>1
<1>8. EndSeen(f)' => Frozen(e)'
  <2>1. EndSeen(f)' => (\E p \in tx : p.fin) \/ EndSeen(f)
    BY <1>1, <1>2 DEF EndSeen
  <2>2. (\E p \in tx : p.fin) => Frozen(e)'
    <3>1. (\E p \in tx : p.fin) => opens'[e] # <<>> /\ ~Opening(d) /\ ~d.outActive
      BY DEF Still
    <3> QED BY <1>1, <3>1 DEF Frozen, Opening
  <2> QED BY <1>ends, <1>inv, <1>frozen, <2>1, <2>2
<1>9. Mute(e)' => Unheard(e)'
  <2> SUFFICES ASSUME Mute(e)' PROVE Unheard(e)'
    OBVIOUS
  <2>1. Mute(e) /\ d.outPkt = <<>> /\ tx = {}
    <3>1. opens'[e] = <<>> \/ Silent(d, First(e))
      BY <1>1 DEF Mute, Silent, First
    <3> QED BY <3>1
  <2>2. Unheard(e)
    BY <1>inv, <2>1
  <2>3. net'[f] = {}
    BY <1>2, <1>peer, <2>1, <2>2 DEF Unheard
  <2>4. \A p \in net'[e] : ~p.ack
    BY <2>2 DEF Unheard
  <2>5. /\ stream'[f].state \in {TCP_CLOSED, TCP_SYN_SENT}
        /\ \A i \in 1 .. Len(stream'[f].outPkt) : IsFirstSyn(stream'[f].outPkt[i].pkt)
    BY <1>1, <1>peer, <2>2 DEF Unheard
  <2> QED BY <1>1, <1>peer, <2>1, <2>3, <2>4, <2>5 DEF Unheard
<1>10. Mute(f)' => Unheard(f)'
  <2> SUFFICES ASSUME Mute(f)' PROVE Unheard(f)'
    OBVIOUS
  <2>1. Mute(f)
    BY <1>1, <1>2 DEF Mute, Silent, First
  <2>2. Unheard(f)
    BY <1>ends, <1>inv, <2>1
  <2>3. net'[e] = {}
    BY <1>ends, <2>2 DEF Unheard
  <2>4. \A p \in net'[f] : ~p.ack
    BY <1>2, <1>peer, <2>1, <2>2 DEF Unheard
  <2>5. stream'[f].outPkt = <<>>
    BY <1>1, <2>2 DEF Unheard
  <2>6. /\ d.state \in {TCP_CLOSED, TCP_SYN_SENT}
        /\ \A i \in 1 .. Len(d.outPkt) : IsFirstSyn(d.outPkt[i].pkt)
    BY <1>peer, <2>1
  <2> QED BY <1>1, <1>ends, <2>3, <2>4, <2>5, <2>6 DEF Unheard
<1>11. \A x \in Ends : StartsClosed(x)'
  BY <1>1, <1>2, <1>ends, <1>inv DEF StartsClosed
<1> QED BY <1>3, <1>4, <1>5, <1>6, <1>7, <1>8, <1>9, <1>10, <1>11, <1>ends, <1>peer
       DEF HonestInv, First

(* The context of end e.                                                   *)
ContextOf(e) == [r |-> received[e], b |-> First(e), w |-> written[e],
                 pb |-> First(Peer(e)), pw |-> written[Peer(e)]]

LEMMA FirstType ==
  ASSUME OpensOnce, NEW e \in Ends
  PROVE  /\ ISN[e] \in Seq(SeqNum) /\ Len(ISN[e]) = 1 /\ ISN[e][1] \in SeqNum
         /\ First(e) \in SeqNum
<1>1. ISN[e] \in Seq(SeqNum) /\ Len(ISN[e]) = 1
  BY BoundsAssumption DEF OpensOnce
<1>2. ISN[e][1] \in SeqNum
  <2>1. 1 \in 1 .. Len(ISN[e])
    BY <1>1
  <2> QED BY <1>1, <2>1, ElementOfSeq
<1>3. 1 \in 0 .. SeqMod
  BY Sizes
<1> QED BY <1>1, <1>2, <1>3, SeqAddType DEF First

LEMMA ContextFits ==
  ASSUME OpensOnce, Bounded, HonestInv, NEW e \in Ends
  PROVE  /\ ContextOf(e) \in Context
         /\ ContextOf(e).r = received[e]
         /\ ContextOf(e).b = First(e) /\ ContextOf(e).w = written[e]
         /\ ContextOf(e).pb = First(Peer(e)) /\ ContextOf(e).pw = written[Peer(e)]
<1>1. Peer(e) \in Ends
  BY PeerIsEnd
<1>2. First(e) \in SeqNum /\ First(Peer(e)) \in SeqNum /\ received[e] \in Seq(Byte)
  BY <1>1, FirstType DEF Bounded
<1>3. written[e] \in 0 .. SeqMod - 1 /\ written[Peer(e)] \in 0 .. SeqMod - 1
  <2>1. \A x \in Ends : written[x] \in Nat /\ written[x] <= MaxBytes
    BY DEF Bounded, HonestInv
  <2>2. MaxBytes \in Nat /\ MaxBytes < SeqMod
    BY BoundsAssumption DEF OpensOnce
  <2> QED BY <1>1, <2>1, <2>2, Sizes
<1> QED BY <1>2, <1>3 DEF Context, ContextOf

LEMMA FineNow ==
  ASSUME OpensOnce, Bounded, HonestInv, NEW e \in Ends
  PROVE  Fine(stream[e], stream[e], ContextOf(e))
<1>1. stream[e] \in TypedStream
  BY DEF Bounded
<1>2. /\ SendsHonest(stream[e], First(e), written[e])
      /\ ReceivesHonest(stream[e], received[e], First(Peer(e)), written[Peer(e)])
      /\ stream[e].tx = {}
  BY DEF HonestInv
<1> QED BY <1>1, <1>2, ContextFits DEF Fine

LEMMA NoTxFields ==
  ASSUME NEW c \in TypedStream
  PROVE  Same(c, [c EXCEPT !.tx = {}]) /\ [c EXCEPT !.tx = {}].tx = {}
<1> DEFINE none == {}
<1>1. PICK d : d = [c EXCEPT !.tx = none]
  OBVIOUS
<1> HIDE DEF none
<1>2. Same(c, d) /\ d.tx = none
  BY <1>1, TypedParts DEF Fields, Same
<1> QED BY <1>1, <1>2 DEF none

(* One end runs a method that opens nothing, on a stream found as c0; k is  *)
(* the context it leaves.                                                  *)
LEMMA MethodStep ==
  ASSUME OpensOnce, Bounded, HonestInv, Bounded', NEW e \in Ends,
         NEW k \in Context, k.r = received'[e],
         k.b = First(e), k.w = written[e],
         k.pb = First(Peer(e)), k.pw = written[Peer(e)],
         NEW c, NEW c0, Fine(c, c0, k),
         FinIn(c0) => EndSeen(e),
         Still(stream[e]) => Still(c0),
         Silent(c0, First(e)) => Silent(stream[e], First(e)),
         stream' = [stream EXCEPT ![e] = [c EXCEPT !.tx = {}]],
         \A x \in Ends \ {e} : received'[x] = received[x],
         UNCHANGED <<written, opens>>,
         net'[e] \subseteq net[e],
         net'[Peer(e)] \subseteq net[Peer(e)] \cup c.tx,
         Mute(e) => c.outPkt = <<>> /\ c.tx = {},
         opens[e] = <<>> => c.state = TCP_CLOSED,
         Mute(Peer(e)) =>
            /\ c.state \in {TCP_CLOSED, TCP_SYN_SENT}
            /\ \A p \in c.tx : ~p.ack
            /\ \A i \in 1 .. Len(c.outPkt) : IsFirstSyn(c.outPkt[i].pkt)
  PROVE  HonestInv'
<1>1. PICK d : d = [c EXCEPT !.tx = {}]
  OBVIOUS
<1>2. c \in TypedStream
  BY DEF Fine
<1>3. Same(c, d) /\ d.tx = {}
  BY <1>1, <1>2, NoTxFields
<1>5. /\ k.r = received'[e] /\ k.b = First(e) /\ k.w = written[e]
      /\ k.pb = First(Peer(e)) /\ k.pw = written[Peer(e)]
  OBVIOUS
<1>6. Fine(c, c0, k)
  OBVIOUS
<1>7. SendsHonest(d, First(e), written[e])
  BY <1>3, <1>5, <1>6 DEF Fine, SendsHonest, Same, Opening, Opened
<1>8. ReceivesHonest(d, received'[e], First(Peer(e)), written[Peer(e)])
  BY <1>3, <1>5, <1>6 DEF Fine, ReceivesHonest, Same, Opening, Opened
<1>9. c.tx \subseteq HonestPackets(First(e), written[e])
  BY <1>5, <1>6 DEF Fine
<1>10. /\ Still(d) <=> Still(c)
       /\ FinIn(d) <=> FinIn(c)
       /\ Silent(d, First(e)) <=> Silent(c, First(e))
  BY <1>3 DEF Same, Still, Opening, FinIn, Silent
<1>11. (\E p \in c.tx : p.fin) => Still(d) /\ opens'[e] # <<>>
  <2>1. (\E p \in c.tx : p.fin) => Still(c)
    BY <1>6 DEF Fine
  <2>2. opens[e] = <<>> => c.tx = {}
    BY DEF Mute
  <2> QED BY <1>10, <2>1, <2>2
<1>12. FinIn(d) => EndSeen(e)
  BY <1>6, <1>10 DEF Fine
<1>13. Frozen(e) => Still(d) /\ opens'[e] # <<>>
  <2>1. Frozen(e) => opens[e] # <<>> /\ Still(stream[e])
    BY DEF Frozen, Still
  <2> QED BY <1>6, <1>10, <2>1 DEF Fine
<1>14. opens'[e] = <<>> \/ Silent(d, First(e)) => Mute(e) /\ d.outPkt = <<>> /\ c.tx = {}
  <2>1. Silent(c, First(e)) => Silent(stream[e], First(e))
    BY <1>5, <1>6 DEF Fine
  <2>2. d.outPkt = c.outPkt
    BY <1>3 DEF Same
  <2> QED BY <1>10, <2>1, <2>2 DEF Mute
<1>15. d.state = c.state /\ d.outPkt = c.outPkt
  BY <1>3 DEF Same
<1>16. opens'[e] = <<>> => d.state = TCP_CLOSED /\ written[e] = 0
  BY <1>15 DEF HonestInv, StartsClosed
<1>17. Len(opens'[e]) <= 1
  BY DEF HonestInv
<1>18. Mute(Peer(e)) =>
            /\ d.state \in {TCP_CLOSED, TCP_SYN_SENT}
            /\ \A p \in c.tx : ~p.ack
            /\ \A i \in 1 .. Len(d.outPkt) : IsFirstSyn(d.outPkt[i].pkt)
  BY <1>15
<1>19. /\ stream' = [stream EXCEPT ![e] = d] /\ written' = written
       /\ opens' = opens
  BY <1>1
<1>20. \A x \in Ends \ {e} : received'[x] = received[x] /\ opens'[x] = opens[x]
  BY <1>19
<1>22. PICK tx : tx = c.tx
  OBVIOUS
<1> QED BY <1>3, <1>7, <1>8, <1>9, <1>11, <1>12, <1>13, <1>14, <1>16, <1>17, <1>18, <1>19,
          <1>20, OneStep

(* The same when nothing is read.                                          *)
LEMMA PlainStep ==
  ASSUME OpensOnce, Bounded, HonestInv, Bounded', NEW e \in Ends,
         NEW c, NEW c0, Fine(c, c0, ContextOf(e)),
         FinIn(c0) => EndSeen(e),
         Still(stream[e]) => Still(c0),
         Silent(c0, First(e)) => Silent(stream[e], First(e)),
         stream' = [stream EXCEPT ![e] = [c EXCEPT !.tx = {}]],
         UNCHANGED <<written, received, opens>>,
         net'[e] \subseteq net[e],
         net'[Peer(e)] \subseteq net[Peer(e)] \cup c.tx,
         Mute(e) => c.outPkt = <<>> /\ c.tx = {},
         opens[e] = <<>> => c.state = TCP_CLOSED,
         Mute(Peer(e)) =>
            /\ c.state \in {TCP_CLOSED, TCP_SYN_SENT}
            /\ \A p \in c.tx : ~p.ack
            /\ \A i \in 1 .. Len(c.outPkt) : IsFirstSyn(c.outPkt[i].pkt)
  PROVE  HonestInv'
<1>1. PICK k : k = ContextOf(e)
  OBVIOUS
<1>2. /\ k \in Context /\ k.r = received'[e] /\ k.b = First(e) /\ k.w = written[e]
      /\ k.pb = First(Peer(e)) /\ k.pw = written[Peer(e)]
  BY <1>1, ContextFits
<1>3. Fine(c, c0, k)
  BY <1>1
<1>4. \A x \in Ends \ {e} : received'[x] = received[x]
  OBVIOUS
<1>5. written' = written /\ opens' = opens
  OBVIOUS
<1> QED BY <1>2, <1>3, <1>4, <1>5, MethodStep

(* What an end that is mute, and its peer, are like.                       *)
LEMMA MuteIs ==
  ASSUME HonestInv, NEW e \in Ends
  PROVE  /\ Mute(e) => stream[e].outPkt = <<>> /\ \A p \in net[e] : ~p.ack
         /\ Mute(e) => ~Opened(stream[e])
         /\ Mute(Peer(e)) =>
              /\ net[e] = {} /\ stream[e].state \in {TCP_CLOSED, TCP_SYN_SENT}
              /\ \A i \in 1 .. Len(stream[e].outPkt) : IsFirstSyn(stream[e].outPkt[i].pkt)
         /\ opens[e] = <<>> => stream[e].state = TCP_CLOSED /\ written[e] = 0
<1>1. Peer(e) \in Ends /\ Peer(Peer(e)) = e
  BY PeerIsEnd
<1>2. /\ Mute(e) => Unheard(e)
      /\ Mute(Peer(e)) => Unheard(Peer(e))
      /\ StartsClosed(e)
  BY <1>1 DEF HonestInv
<1>3. Mute(e) => ~Opened(stream[e])
  BY <1>2, States DEF Mute, StartsClosed, Silent, Opened
<1> QED BY <1>1, <1>2, <1>3 DEF Unheard, StartsClosed

(* The packets an end with a mute peer, or a mute end, keeps.              *)
LEMMA QuietOut ==
  ASSUME Bounded, HonestInv, NEW e \in Ends, Mute(e) \/ Mute(Peer(e))
  PROVE  stream[e].outPkt \in Seq(FirstSyns) /\ ~Opened(stream[e])
<1>1. stream[e].outPkt \in Seq(ShortOut)
  BY DEF Bounded, TypedStream
<1>2. \A i \in 1 .. Len(stream[e].outPkt) : IsFirstSyn(stream[e].outPkt[i].pkt)
  <2>1. CASE Mute(e)
    <3>1. Len(stream[e].outPkt) = 0
      BY <2>1, MuteIs
    <3>2. ASSUME NEW i \in 1 .. Len(stream[e].outPkt)
          PROVE  IsFirstSyn(stream[e].outPkt[i].pkt)
      BY ONLY <3>1, <3>2
    <3> QED BY <3>2
  <2>2. CASE Mute(Peer(e))
    BY <2>2, MuteIs
  <2> QED BY <2>1, <2>2
<1>3. ~Opened(stream[e])
  BY MuteIs, States DEF Opened
<1>4. PICK q : q = stream[e].outPkt
  OBVIOUS
<1>5. PICK n : n = Len(q)
  OBVIOUS
<1>6. q \in Seq(ShortOut) /\ n \in Nat /\ \A i \in 1 .. n : q[i] \in ShortOut
  BY <1>1, <1>4, <1>5
<1>7. \A i \in 1 .. n : q[i] \in FirstSyns
  BY <1>2, <1>4, <1>5, <1>6 DEF FirstSyns
<1>8. q \in [1 .. n -> FirstSyns]
  BY <1>5, <1>6, <1>7
<1> QED BY <1>3, <1>4, <1>6, <1>8

LEMMA SynsQuiet ==
  ASSUME NEW q \in Seq(FirstSyns)
  PROVE  \A i \in 1 .. Len(q) : IsFirstSyn(q[i].pkt)
<1>1. \A i \in 1 .. Len(q) : q[i] \in FirstSyns
  OBVIOUS
<1> QED BY <1>1 DEF FirstSyns

LEMMA NetGrows ==
  ASSUME Bounded, NEW e \in Ends, NEW tx,
         net' = [net EXCEPT ![Peer(e)] = @ \cup tx]
  PROVE  net'[e] \subseteq net[e] /\ net'[Peer(e)] \subseteq net[Peer(e)] \cup tx
<1>1. Peer(e) \in Ends /\ Peer(e) # e /\ DOMAIN net = Ends
  BY PeerIsEnd DEF Bounded
<1> QED BY <1>1

LEMMA TickParts ==
  ASSUME OpensOnce, Bounded, HonestInv, NEW e \in Ends, NEW t,
         NEW c, c = TickStream(stream[e], t)
  PROVE  /\ Fine(c, stream[e], ContextOf(e))
         /\ Mute(e) => c.outPkt = <<>> /\ c.tx = {}
         /\ opens[e] = <<>> => c.state = TCP_CLOSED
         /\ Mute(Peer(e)) =>
              /\ c.state \in {TCP_CLOSED, TCP_SYN_SENT}
              /\ \A p \in c.tx : ~p.ack
              /\ \A i \in 1 .. Len(c.outPkt) : IsFirstSyn(c.outPkt[i].pkt)
<1>1. Fine(c, stream[e], ContextOf(e))
  BY FineNow, ContextFits, TickStreamFine
<1>2. stream[e] \in TypedStream /\ stream[e].tx = {}
  BY DEF Bounded, HonestInv
<1>3. Mute(e) \/ Mute(Peer(e)) =>
        /\ c.state \in {stream[e].state, TCP_CLOSED}
        /\ c.outPkt \in Seq(FirstSyns)
        /\ \A p \in c.tx : ~p.ack
        /\ stream[e].outPkt = <<>> => c.outPkt = <<>> /\ c.tx = {}
  BY <1>2, QuietOut, TickQuiet
<1>4. Mute(e) => c.outPkt = <<>> /\ c.tx = {}
  BY <1>3, MuteIs
<1>5. opens[e] = <<>> => c.state = TCP_CLOSED
  BY <1>3, MuteIs DEF Mute
<1>6. c.outPkt \in Seq(FirstSyns) =>
        \A i \in 1 .. Len(c.outPkt) : IsFirstSyn(c.outPkt[i].pkt)
  BY SynsQuiet
<1> QED BY <1>1, <1>3, <1>4, <1>5, <1>6, MuteIs

LEMMA TickHonest ==
  ASSUME OpensOnce, Bounded, HonestInv, Bounded',
         NEW e \in Ends, NEW t \in Timeouts, Tick(e, t)
  PROVE  HonestInv'
<1>1. PICK c : c = TickStream(stream[e], t)
  OBVIOUS
<1>2. /\ stream' = [stream EXCEPT ![e] = [c EXCEPT !.tx = {}]]
      /\ net' = [net EXCEPT ![Peer(e)] = @ \cup c.tx]
      /\ UNCHANGED <<written, received, opens>>
  BY <1>1 DEF Tick, Update
<1>3. net'[e] \subseteq net[e] /\ net'[Peer(e)] \subseteq net[Peer(e)] \cup c.tx
  BY <1>2, NetGrows
<1>4. /\ Fine(c, stream[e], ContextOf(e))
      /\ Mute(e) => c.outPkt = <<>> /\ c.tx = {}
      /\ opens[e] = <<>> => c.state = TCP_CLOSED
      /\ Mute(Peer(e)) =>
           /\ c.state \in {TCP_CLOSED, TCP_SYN_SENT}
           /\ \A p \in c.tx : ~p.ack
           /\ \A i \in 1 .. Len(c.outPkt) : IsFirstSyn(c.outPkt[i].pkt)
  BY <1>1, TickParts
<1>5. FinIn(stream[e]) => EndSeen(e)
  BY DEF FinIn, EndSeen
<1> QED BY <1>2, <1>3, <1>4, <1>5, PlainStep

LEMMA NewStreamFields ==
  /\ NewStream.state = TCP_CLOSED /\ ~NewStream.outActive
  /\ NewStream.inQueue = <<>> /\ NewStream.outQueue = <<>>
  /\ NewStream.inPkt = <<>> /\ NewStream.outPkt = <<>> /\ NewStream.tx = {}
  BY DEF NewStream

LEMMA NewStreamHonest ==
  ASSUME NEW d, d = NewStream, NEW r \in Seq(Byte), Consecutive(r),
         NEW b, NEW w, NEW pb, NEW pw
  PROVE  /\ SendsHonest(d, b, w) /\ ReceivesHonest(d, r, pb, pw)
         /\ Still(d) /\ ~FinIn(d) /\ ~Silent(d, b)
<1>1. /\ d.state = TCP_CLOSED /\ ~d.outActive
      /\ d.inQueue = <<>> /\ d.outQueue = <<>>
      /\ d.inPkt = <<>> /\ d.outPkt = <<>>
  BY NewStreamFields
<1>2. ~Opened(d) /\ ~Opening(d) /\ Still(d) /\ ~Silent(d, b)
  BY <1>1, States DEF Opened, Opening, Still, Silent
<1>3. /\ d.state \notin {TCP_LISTEN, TCP_TIMED_WAIT, TCP_SYN_SENT}
      /\ d.state \notin {TCP_CLOSE_WAIT, TCP_CLOSING, TCP_LAST_ACK}
  BY <1>1, States
<1>4. <<>> \in Seq(HonestOut(b, w)) /\ <<>> \in Seq(HonestPackets(pb, pw))
  OBVIOUS
<1>5. SendsHonest(d, b, w)
  BY <1>1, <1>2, <1>3, <1>4 DEF SendsHonest
<1>6. r \o <<>> = r
  BY ConcatEmptySeq
<1>7. ReceivesHonest(d, r, pb, pw)
  BY <1>1, <1>2, <1>3, <1>4, <1>6 DEF ReceivesHonest
<1>8. ~FinIn(d)
  <2>1. Len(d.inPkt) = 0
    BY <1>1
  <2>2. ASSUME NEW i \in 1 .. Len(d.inPkt) PROVE FALSE
    BY ONLY <2>1, <2>2
  <2> QED BY <1>3, <2>2 DEF FinIn
<1> QED BY <1>2, <1>5, <1>7, <1>8

LEMMA CloseHonest ==
  ASSUME OpensOnce, Bounded, HonestInv, Bounded',
         NEW e \in Ends, NEW t \in Timeouts, Close(e, t)
  PROVE  HonestInv'
<1>1. PICK c : c = TickStream(stream[e], t)
  OBVIOUS
<1>2. PICK d : d = NewStream
  OBVIOUS
<1>3. PICK tx : tx = c.tx
  OBVIOUS
<1>4. /\ stream' = [stream EXCEPT ![e] = d]
      /\ net' = [net EXCEPT ![Peer(e)] = @ \cup tx]
      /\ written' = written /\ received' = received /\ opens' = opens
  BY <1>1, <1>2, <1>3 DEF Close
<1>5. net'[e] \subseteq net[e] /\ net'[Peer(e)] \subseteq net[Peer(e)] \cup tx
  BY <1>4, NetGrows
<1>6. /\ Fine(c, stream[e], ContextOf(e))
      /\ Mute(e) => c.outPkt = <<>> /\ c.tx = {}
      /\ Mute(Peer(e)) => \A p \in c.tx : ~p.ack
  BY <1>1, TickParts
<1>7. received[e] \in Seq(Byte) /\ stream[e].outQueue \in Seq(Byte)
      /\ Consecutive(received[e] \o stream[e].outQueue)
  BY DEF Bounded, TypedStream, HonestInv, ReceivesHonest
<1>8. Consecutive(received[e])
  BY <1>7, FrontConsecutive
<1>9. /\ SendsHonest(d, First(e), written[e])
      /\ ReceivesHonest(d, received[e], First(Peer(e)), written[Peer(e)])
      /\ Still(d) /\ ~FinIn(d) /\ ~Silent(d, First(e))
  BY <1>2, <1>7, <1>8, NewStreamHonest
<1>10. d.state = TCP_CLOSED /\ d.outPkt = <<>> /\ d.tx = {} /\ Len(d.outPkt) = 0
  BY <1>2, NewStreamFields
<1>11. tx \subseteq HonestPackets(First(e), written[e])
  BY <1>3, <1>6, ContextFits DEF Fine
<1>12. (\E p \in tx : p.fin) => Still(d) /\ opens'[e] # <<>>
  BY <1>3, <1>4, <1>6, <1>9 DEF Mute
<1>13. Frozen(e) => Still(d) /\ opens'[e] # <<>>
  BY <1>4, <1>9 DEF Frozen
<1>14. opens'[e] = <<>> \/ Silent(d, First(e)) => Mute(e) /\ d.outPkt = <<>> /\ tx = {}
  BY <1>3, <1>4, <1>6, <1>9, <1>10 DEF Mute
<1>15. \A i \in 1 .. Len(d.outPkt) : IsFirstSyn(d.outPkt[i].pkt)
  <2>1. ASSUME NEW i \in 1 .. Len(d.outPkt) PROVE IsFirstSyn(d.outPkt[i].pkt)
    <3>1. Len(d.outPkt) = 0
      BY <1>10
    <3> QED BY ONLY <3>1, <2>1
  <2> QED BY <2>1
<1>16. Mute(Peer(e)) =>
            /\ d.state \in {TCP_CLOSED, TCP_SYN_SENT}
            /\ \A p \in tx : ~p.ack
            /\ \A i \in 1 .. Len(d.outPkt) : IsFirstSyn(d.outPkt[i].pkt)
  BY <1>3, <1>6, <1>10, <1>15
<1>17. opens'[e] = <<>> => d.state = TCP_CLOSED /\ written[e] = 0
  BY <1>4, <1>10, MuteIs
<1>18. \A x \in Ends \ {e} : received'[x] = received[x] /\ opens'[x] = opens[x]
  BY <1>4
<1>19. ReceivesHonest(d, received'[e], First(Peer(e)), written[Peer(e)])
  BY <1>4, <1>9
<1>20. FinIn(d) => EndSeen(e)
  BY <1>9
<1>21. Len(opens'[e]) <= 1
  BY <1>4 DEF HonestInv
<1> QED BY <1>4, <1>5, <1>9, <1>10, <1>11, <1>12, <1>13, <1>14, <1>16, <1>17, <1>18,
          <1>19, <1>20, <1>21, OneStep

LEMMA NothingSent ==
  ASSUME NEW c \in TypedStream, c.tx = {}
  PROVE  c = [c EXCEPT !.tx = {}]
<1> DEFINE none == {}
<1>1. c = Fields(c)
  BY TypedParts
<1>2. [c EXCEPT !.tx = c.tx] = c
  BY <1>1 DEF Fields
<1> QED BY <1>2

(* To become known, or to take no more bytes, harms nothing.               *)
LEMMA SwitchFine ==
  ASSUME NEW c, NEW c0, NEW k \in Context, Fine(c, c0, k), NEW d \in TypedStream,
         d.state = c.state, c.known => d.known, d.outActive => c.outActive,
         d.outSeqno = c.outSeqno, d.inAckno = c.inAckno,
         d.inQueue = c.inQueue, d.outQueue = c.outQueue,
         d.inPkt = c.inPkt, d.outPkt = c.outPkt, d.tx = c.tx
  PROVE  Fine(d, c0, k)
<1>1. SendsHonest(d, k.b, k.w)
  BY DEF Fine, SendsHonest, Opening, Opened
<1>2. ReceivesHonest(d, k.r, k.pb, k.pw)
  BY DEF Fine, ReceivesHonest, Opening, Opened
<1>3. Still(c) => Still(d)
  BY DEF Still, Opening
<1>4. FinIn(d) <=> FinIn(c)
  BY DEF FinIn
<1>5. Silent(d, k.b) <=> Silent(c, k.b)
  BY DEF Silent
<1> QED BY <1>1, <1>2, <1>3, <1>4, <1>5 DEF Fine

(* A method of one end that sends nothing and changes only what SwitchFine *)
(* allows.                                                                 *)
LEMMA SwitchStep ==
  ASSUME OpensOnce, Bounded, HonestInv, Bounded', NEW e \in Ends,
         NEW c, c = stream[e], NEW d \in TypedStream,
         d.state = c.state, c.known => d.known, d.outActive => c.outActive,
         d.outSeqno = c.outSeqno, d.inAckno = c.inAckno,
         d.inQueue = c.inQueue, d.outQueue = c.outQueue,
         d.inPkt = c.inPkt, d.outPkt = c.outPkt, d.tx = c.tx,
         stream' = [stream EXCEPT ![e] = d],
         UNCHANGED <<written, received, opens, net>>
  PROVE  HonestInv'
<1>1. Fine(c, c, ContextOf(e))
  BY FineNow
<1>2. Fine(d, c, ContextOf(e))
  BY <1>1, ContextFits, SwitchFine
<1>3. d.tx = {} /\ d = [d EXCEPT !.tx = {}]
  BY NothingSent DEF HonestInv
<1>4. stream' = [stream EXCEPT ![e] = [d EXCEPT !.tx = {}]]
  BY <1>3
<1>5. FinIn(c) => EndSeen(e)
  BY DEF FinIn, EndSeen
<1>6. /\ Mute(e) => d.outPkt = <<>> /\ d.tx = {}
      /\ opens[e] = <<>> => d.state = TCP_CLOSED
      /\ Mute(Peer(e)) =>
           /\ d.state \in {TCP_CLOSED, TCP_SYN_SENT}
           /\ \A p \in d.tx : ~p.ack
           /\ \A i \in 1 .. Len(d.outPkt) : IsFirstSyn(d.outPkt[i].pkt)
  BY <1>3, MuteIs
<1>7. net'[e] \subseteq net[e] /\ net'[Peer(e)] \subseteq net[Peer(e)] \cup d.tx
  OBVIOUS
<1> QED BY <1>2, <1>4, <1>5, <1>6, <1>7, PlainStep

LEMMA KnownStep ==
  ASSUME OpensOnce, Bounded, HonestInv, Bounded', NEW e \in Ends,
         stream' = [stream EXCEPT ![e] = [stream[e] EXCEPT !.known = TRUE]],
         UNCHANGED <<written, received, opens, net>>
  PROVE  HonestInv'
<1> DEFINE yes == TRUE
<1>1. PICK c : c = stream[e]
  OBVIOUS
<1>2. PICK d : d = [c EXCEPT !.known = yes]
  OBVIOUS
<1>3. c \in TypedStream /\ d \in TypedStream
  BY <1>1, <1>2, KnownType DEF Bounded
<1>4. stream' = [stream EXCEPT ![e] = d]
  BY <1>1, <1>2
<1>5. yes
  OBVIOUS
<1> HIDE DEF yes
<1>6. /\ d.state = c.state /\ d.known = yes /\ d.outActive = c.outActive
      /\ d.outSeqno = c.outSeqno /\ d.inAckno = c.inAckno
      /\ d.inQueue = c.inQueue /\ d.outQueue = c.outQueue
      /\ d.inPkt = c.inPkt /\ d.outPkt = c.outPkt /\ d.tx = c.tx
  BY <1>2, <1>3, TypedParts DEF Fields
<1> QED BY ZenonT(60), <1>1, <1>3, <1>4, <1>5, <1>6, SwitchStep

LEMMA CloseWriteHonest ==
  ASSUME OpensOnce, Bounded, HonestInv, Bounded', NEW e \in Ends, CloseWrite(e)
  PROVE  HonestInv'
<1> DEFINE no == FALSE
<1>1. PICK c : c = stream[e]
  OBVIOUS
<1>2. PICK d : d = [c EXCEPT !.outActive = no]
  OBVIOUS
<1>3. c \in TypedStream /\ d \in TypedStream
  BY <1>1, <1>2, OutActiveType DEF Bounded
<1>4. stream' = [stream EXCEPT ![e] = d] /\ UNCHANGED <<written, received, opens, net>>
  BY <1>1, <1>2 DEF CloseWrite
<1>5. ~no
  OBVIOUS
<1> HIDE DEF no
<1>6. /\ d.state = c.state /\ d.known = c.known /\ d.outActive = no
      /\ d.outSeqno = c.outSeqno /\ d.inAckno = c.inAckno
      /\ d.inQueue = c.inQueue /\ d.outQueue = c.outQueue
      /\ d.inPkt = c.inPkt /\ d.outPkt = c.outPkt /\ d.tx = c.tx
  BY <1>2, <1>3, TypedParts DEF Fields
<1> QED BY <1>1, <1>3, <1>4, <1>5, <1>6, SwitchStep

(* A stream opens: it has not been open before, so nothing of it was read  *)
(* or written.                                                             *)
LEMMA OpenStep ==
  ASSUME OpensOnce, Bounded, HonestInv, Bounded', NEW e \in Ends, MayOpen(e),
         NEW ack \in BOOLEAN, NEW c, Blank(c), ack \/ c.known,
         ack => ~Mute(Peer(e)),
         NEW s, s = IF ack THEN TCP_SYN_RCVD ELSE TCP_SYN_SENT,
         NEW d, d = [ToSend(InitSeqnos(c, NextIsn(e)), SynPkt(ack), TRUE)
                       EXCEPT !.state = s],
         stream' = [stream EXCEPT ![e] = [d EXCEPT !.tx = {}]],
         opens' = [opens EXCEPT ![e] = Append(@, written[e])],
         received' = [received EXCEPT ![e] = <<>>],
         written' = written,
         net'[e] \subseteq net[e],
         net'[Peer(e)] \subseteq net[Peer(e)] \cup d.tx
  PROVE  HonestInv'
<1>isn. ISN[e] \in Seq(SeqNum) /\ Len(ISN[e]) = 1 /\ ISN[e][1] \in SeqNum
  BY FirstType
<1>1. opens[e] = <<>>
  <2>1. opens[e] \in Seq(Nat) /\ Len(opens[e]) < 1
    BY <1>isn DEF Bounded, MayOpen
  <2>2. Len(opens[e]) = 0
    BY <2>1
  <2> QED BY <2>1, <2>2, EmptySeq
<1>2. NextIsn(e) = ISN[e][1]
  <2>1. Len(<<>>) + 1 = 1
    OBVIOUS
  <2> QED BY <1>1, <2>1 DEF NextIsn
<1>3. Mute(e) /\ written[e] = 0
  BY <1>1, MuteIs DEF Mute
<1>4. PICK k : k = [r |-> <<>>, b |-> First(e), w |-> written[e],
                    pb |-> First(Peer(e)), pw |-> written[Peer(e)]]
  OBVIOUS
<1>5. /\ k \in Context /\ k.r = <<>> /\ k.b = First(e) /\ k.w = written[e]
      /\ k.pb = First(Peer(e)) /\ k.pw = written[Peer(e)]
  <2>1. <<>> \in Seq(Byte)
    OBVIOUS
  <2>2. ContextOf(e) \in Context
    BY ContextFits
  <2> QED BY <1>4, <2>1, <2>2 DEF ContextOf, Context
<1>6. PICK isn : isn = ISN[e][1]
  OBVIOUS
<1>7. isn \in SeqNum /\ k.b = SeqAdd(isn, 1) /\ k.w = 0 /\ k.r = <<>>
  BY <1>isn, <1>3, <1>5, <1>6 DEF First
<1>8. d = [ToSend(InitSeqnos(c, isn), SynPkt(ack), TRUE) EXCEPT !.state = s]
  BY <1>2, <1>6
<1>9. Fine(d, d, k) /\ ~FinIn(d) /\ Starts(d, s, c.known, ack, k.b)
  <2>1. /\ k \in Context /\ k.w = 0 /\ k.r = <<>>
        /\ isn \in SeqNum /\ k.b = SeqAdd(isn, 1) /\ ack \in BOOLEAN
        /\ Blank(c) /\ (ack \/ c.known)
        /\ s = IF ack THEN TCP_SYN_RCVD ELSE TCP_SYN_SENT
        /\ d = [ToSend(InitSeqnos(c, isn), SynPkt(ack), TRUE) EXCEPT !.state = s]
    BY <1>5, <1>7, <1>8
  <2> QED BY ONLY <2>1, OpenFine
<1>10. PICK x : x = [d EXCEPT !.tx = {}]
  OBVIOUS
<1>11. PICK tx : tx = d.tx
  OBVIOUS
<1>12. d \in TypedStream
  BY <1>9 DEF Fine
<1>13. Same(d, x) /\ x.tx = {}
  BY <1>10, <1>12, NoTxFields
<1>14. SendsHonest(x, First(e), written[e])
  BY ZenonT(60), <1>5, <1>9, <1>13 DEF Fine, SendsHonest, Same, Opening, Opened
<1>15. ReceivesHonest(x, <<>>, First(Peer(e)), written[Peer(e)])
  BY <1>5, <1>9, <1>13 DEF Fine, ReceivesHonest, Same, Opening, Opened
<1>16. tx \subseteq HonestPackets(First(e), written[e])
  BY <1>5, <1>9, <1>11 DEF Fine
<1>17. x.state = s /\ x.outPkt = d.outPkt /\ x.outSeqno = d.outSeqno
  BY <1>9, <1>13 DEF Starts, Same
<1>18. ~\E p \in tx : p.fin
  <2>1. Opening(d)
    BY <1>9 DEF Opening, Starts
  <2> QED BY <1>9, <1>11, <2>1 DEF Fine, Still
<1>19. ~FinIn(x)
  BY <1>9, <1>13 DEF FinIn, Same
<1>20. stream' = [stream EXCEPT ![e] = x]
  BY <1>10
<1>21. DOMAIN opens = Ends /\ DOMAIN received = Ends /\ opens[e] \in Seq(Nat)
       /\ written[e] \in Nat
  BY DEF Bounded
<1>22. /\ opens'[e] # <<>> /\ Len(opens'[e]) <= 1 /\ received'[e] = <<>>
       /\ \A y \in Ends \ {e} : received'[y] = received[y] /\ opens'[y] = opens[y]
  <2>1. opens'[e] = Append(<<>>, written[e])
    BY <1>1, <1>21
  <2>2. Append(<<>>, written[e]) # <<>> /\ Len(Append(<<>>, written[e])) = 1
    OBVIOUS
  <2> QED BY <1>21, <2>1, <2>2
<1>23. Silent(x, First(e)) => x.outPkt = <<>> /\ tx = {}
  <2>1. c.known => d.outSeqno = First(e)
    BY <1>5, <1>9 DEF Starts
  <2>2. ~c.known => tx = {} /\ d.outPkt = <<>>
    BY <1>9, <1>11 DEF Starts
  <2> QED BY <1>17, <2>1, <2>2 DEF Silent
<1>24. Mute(Peer(e)) =>
            /\ x.state \in {TCP_CLOSED, TCP_SYN_SENT}
            /\ \A p \in tx : ~p.ack
            /\ \A i \in 1 .. Len(x.outPkt) : IsFirstSyn(x.outPkt[i].pkt)
  <2>1. SUFFICES ASSUME Mute(Peer(e))
                 PROVE  /\ x.state \in {TCP_CLOSED, TCP_SYN_SENT}
                        /\ \A p \in tx : ~p.ack
                        /\ \A i \in 1 .. Len(x.outPkt) : IsFirstSyn(x.outPkt[i].pkt)
    OBVIOUS
  <2>2. ~ack
    BY <2>1
  <2>3. x.state = TCP_SYN_SENT
    BY <1>17, <2>2
  <2>4. /\ \A p \in tx : p.ack = ack
        /\ \A i \in 1 .. Len(x.outPkt) : x.outPkt[i].pkt.syn /\ x.outPkt[i].pkt.ack = ack
    BY <1>9, <1>11, <1>17 DEF Starts
  <2> QED BY <2>2, <2>3, <2>4 DEF IsFirstSyn
<1>25. ReceivesHonest(x, received'[e], First(Peer(e)), written[Peer(e)])
  BY <1>15, <1>22
<1>26. net'[Peer(e)] \subseteq net[Peer(e)] \cup tx
  BY <1>11
<1>27. Frozen(e) => Still(x) /\ opens'[e] # <<>>
  BY <1>1 DEF Frozen
<1>28. opens'[e] = <<>> \/ Silent(x, First(e)) => Mute(e) /\ x.outPkt = <<>> /\ tx = {}
  BY <1>3, <1>22, <1>23
<1>29. (\E p \in tx : p.fin) => Still(x) /\ opens'[e] # <<>>
  BY <1>18
<1>30. FinIn(x) => EndSeen(e)
  BY <1>19
<1>31. opens'[e] = <<>> => x.state = TCP_CLOSED /\ written[e] = 0
  BY <1>22
<1> QED BY <1>13, <1>14, <1>16, <1>20, <1>22, <1>24, <1>25, <1>26, <1>27, <1>28, <1>29,
          <1>30, <1>31, OneStep

LEMMA NotOpened ==
  ASSUME OpensOnce, Bounded, HonestInv, NEW e \in Ends, MayOpen(e)
  PROVE  opens[e] = <<>> /\ stream[e].state = TCP_CLOSED /\ Blank(stream[e])
<1>1. opens[e] = <<>>
  <2>1. Len(ISN[e]) = 1
    BY FirstType
  <2>2. opens[e] \in Seq(Nat) /\ Len(opens[e]) < 1
    BY <2>1 DEF Bounded, MayOpen
  <2>3. Len(opens[e]) = 0
    BY <2>2
  <2> QED BY <2>2, <2>3, EmptySeq
<1>2. stream[e].state = TCP_CLOSED /\ stream[e].outPkt = <<>>
  BY <1>1, MuteIs DEF Mute
<1>3. ~Opened(stream[e])
  BY <1>2, States DEF Opened
<1>4. /\ stream[e].inQueue = <<>> /\ stream[e].outQueue = <<>>
      /\ stream[e].inPkt = <<>> /\ stream[e].tx = {}
  BY <1>3 DEF HonestInv, SendsHonest, ReceivesHonest
<1>5. stream[e] \in TypedStream
  BY DEF Bounded
<1> QED BY <1>1, <1>2, <1>4, <1>5 DEF Blank

LEMMA ConnectHonest ==
  ASSUME OpensOnce, Bounded, HonestInv, Bounded', NEW e \in Ends, Connect(e)
  PROVE  HonestInv'
<1> DEFINE yes == TRUE
<1>1. PICK c : c = [stream[e] EXCEPT !.known = yes]
  OBVIOUS
<1>2. stream[e] \in TypedStream /\ c \in TypedStream
  BY <1>1, KnownType DEF Bounded
<1>3. yes
  OBVIOUS
<1>4. /\ IF c.state = TCP_CLOSED
           THEN /\ MayOpen(e)
                /\ opens' = [opens EXCEPT ![e] = Append(@, written[e])]
                /\ received' = [received EXCEPT ![e] = <<>>]
                /\ Update(e, [ToSend(InitSeqnos(c, NextIsn(e)), SynPkt(FALSE), TRUE)
                                EXCEPT !.state = TCP_SYN_SENT])
           ELSE Update(e, c) /\ UNCHANGED <<opens, received>>
      /\ written' = written
  BY <1>1 DEF Connect
<1> HIDE DEF yes
<1>5. /\ c.state = stream[e].state /\ c.known = yes
      /\ c.inQueue = stream[e].inQueue /\ c.outQueue = stream[e].outQueue
      /\ c.inPkt = stream[e].inPkt /\ c.outPkt = stream[e].outPkt
      /\ c.tx = stream[e].tx
  BY <1>1, <1>2, TypedParts DEF Fields
<1>6. CASE c.state = TCP_CLOSED
  <2>1. PICK d : d = [ToSend(InitSeqnos(c, NextIsn(e)), SynPkt(FALSE), TRUE)
                        EXCEPT !.state = TCP_SYN_SENT]
    OBVIOUS
  <2>2. /\ MayOpen(e)
        /\ opens' = [opens EXCEPT ![e] = Append(@, written[e])]
        /\ received' = [received EXCEPT ![e] = <<>>]
        /\ Update(e, d)
    BY <1>4, <1>6, <2>1
  <2>3. Blank(c)
    BY <1>2, <1>5, <2>2, NotOpened DEF Blank
  <2>4. /\ stream' = [stream EXCEPT ![e] = [d EXCEPT !.tx = {}]]
        /\ net' = [net EXCEPT ![Peer(e)] = @ \cup d.tx]
    BY <2>2 DEF Update
  <2>5. net'[e] \subseteq net[e] /\ net'[Peer(e)] \subseteq net[Peer(e)] \cup d.tx
    BY <2>4, NetGrows
  <2>6. PICK ack : ack = FALSE
    OBVIOUS
  <2>7. PICK s : s = TCP_SYN_SENT
    OBVIOUS
  <2>8. /\ ack \in BOOLEAN /\ (ack \/ c.known) /\ (ack => ~Mute(Peer(e)))
        /\ s = IF ack THEN TCP_SYN_RCVD ELSE TCP_SYN_SENT
        /\ d = [ToSend(InitSeqnos(c, NextIsn(e)), SynPkt(ack), TRUE) EXCEPT !.state = s]
    BY <1>3, <1>5, <2>1, <2>6, <2>7
  <2>9. OpensOnce /\ Bounded /\ HonestInv /\ Bounded' /\ e \in Ends /\ written' = written
    BY <1>4
  <2> QED BY ONLY <2>2, <2>3, <2>4, <2>5, <2>8, <2>9, OpenStep
<1>7. CASE c.state # TCP_CLOSED
  <2>1. Update(e, c) /\ opens' = opens /\ received' = received
    BY <1>4, <1>7
  <2>2. c.tx = {}
    BY <1>5 DEF HonestInv
  <2>3. c = [c EXCEPT !.tx = {}]
    BY <1>2, <2>2, NothingSent
  <2>4. /\ stream' = [stream EXCEPT ![e] = [c EXCEPT !.tx = {}]]
        /\ net' = [net EXCEPT ![Peer(e)] = @ \cup c.tx]
    BY <2>1 DEF Update
  <2>5. net' = net
    BY <2>2, <2>4 DEF Bounded
  <2>6. stream' = [stream EXCEPT ![e] = [stream[e] EXCEPT !.known = TRUE]]
    BY <1>1, <2>3, <2>4 DEF yes
  <2> QED BY <1>4, <2>1, <2>5, <2>6, KnownStep
<1> QED BY <1>6, <1>7

LEMMA ReadHonest ==
  ASSUME OpensOnce, Bounded, HonestInv, Bounded',
         NEW e \in Ends, NEW size \in ReadSizes, Read(e, size)
  PROVE  HonestInv'
<1>1. PICK c : c = stream[e]
  OBVIOUS
<1>2. PICK q : q = c.outQueue
  OBVIOUS
<1>3. c \in TypedStream /\ q \in Seq(Byte) /\ size \in Nat /\ received[e] \in Seq(Byte)
  BY <1>1, <1>2, BoundsAssumption DEF Bounded, TypedStream
<1>4. PICK n : n = IF Len(q) < size THEN Len(q) ELSE size
  OBVIOUS
<1>5. n \in 0 .. Len(q)
  BY <1>3, <1>4
<1> DEFINE rest == SubSeq(q, n + 1, Len(q))
           front == SubSeq(q, 1, n)
<1>6. rest \in Seq(Byte)
  BY <1>3, <1>5, Rest
<1>7. front \in Seq(Byte)
  <2>1. 1 \in Int /\ n \in Int /\ \A i \in 1 .. n : q[i] \in Byte
    BY <1>3, <1>5, ElementOfSeq
  <2> QED BY <2>1, SubSeqProperties
<1>8. front \o rest = q
  <2>1. 1 \in 1 .. Len(q) + 1 /\ n \in 1 - 1 .. Len(q) /\ Len(q) \in n .. Len(q)
    BY <1>3, <1>5
  <2>2. SubSeq(q, 1, n) \o SubSeq(q, n + 1, Len(q)) = SubSeq(q, 1, Len(q))
    BY <1>3, <2>1, ConcatAdjacentSubSeq
  <2> QED BY <1>3, <2>2, SubSeqFull
<1> DEFINE d == [c EXCEPT !.outQueue = rest]
<1>9. /\ c.state >= TCP_ESTABLISHED
      /\ received' = [received EXCEPT ![e] = received[e] \o front]
      /\ stream' = [stream EXCEPT ![e] = UpdateInWinSize(d)]
      /\ UNCHANGED <<net, written, opens>>
  BY <1>1, <1>2, <1>4 DEF Read
<1> HIDE DEF rest, front
<1>10. PICK x : x = d
  OBVIOUS
<1>11. d \in TypedStream
  BY <1>3, <1>6, OutQueueType
<1>12. /\ x.state = c.state /\ x.known = c.known /\ x.outActive = c.outActive
       /\ x.outSeqno = c.outSeqno /\ x.inAckno = c.inAckno
       /\ x.inQueue = c.inQueue /\ x.outQueue = rest
       /\ x.inPkt = c.inPkt /\ x.outPkt = c.outPkt /\ x.tx = c.tx
  BY <1>3, <1>10, TypedParts DEF Fields
<1> HIDE DEF d
<1>13. received'[e] = received[e] \o front
  BY <1>9 DEF Bounded
<1>14. PICK k : k = [r |-> received'[e], b |-> First(e), w |-> written[e],
                     pb |-> First(Peer(e)), pw |-> written[Peer(e)]]
  OBVIOUS
<1>15. /\ k \in Context /\ k.r = received'[e] /\ k.b = First(e) /\ k.w = written[e]
       /\ k.pb = First(Peer(e)) /\ k.pw = written[Peer(e)]
  <2>1. received'[e] \in Seq(Byte)
    BY DEF Bounded
  <2>2. ContextOf(e) \in Context
    BY ContextFits
  <2> QED BY <1>14, <2>1, <2>2 DEF ContextOf, Context
<1>16. /\ SendsHonest(c, k.b, k.w)
       /\ ReceivesHonest(c, received[e], k.pb, k.pw)
       /\ c.tx = {}
  BY <1>1, <1>15 DEF HonestInv
<1>17. k.r \o rest = received[e] \o q
  <2>1. (received[e] \o front) \o rest = received[e] \o (front \o rest)
    <3>1. received[e] \in Seq(Byte) /\ front \in Seq(Byte) /\ rest \in Seq(Byte)
      BY <1>3, <1>6, <1>7
    <3> QED BY ONLY <3>1, Regrouped
  <2> QED BY <1>8, <1>13, <1>15, <2>1
<1>18. Opened(c)
  BY <1>9 DEF Opened
<1>19. SendsHonest(x, k.b, k.w)
  BY <1>12, <1>16 DEF SendsHonest, Opening, Opened
<1>20. ReceivesHonest(x, k.r, k.pb, k.pw)
  <2>1. Opened(x) /\ ~Opening(x)
    BY <1>12, <1>18, OpenedNotSilent DEF Opened, Opening
  <2>2. k.r \o x.outQueue = received[e] \o c.outQueue
    BY <1>2, <1>12, <1>17
  <2> QED BY <1>12, <1>16, <1>18, <2>1, <2>2 DEF ReceivesHonest
<1>21. /\ FinIn(x) => FinIn(c)
       /\ Still(c) => Still(x)
       /\ Silent(x, k.b) => Silent(c, k.b)
  BY <1>12 DEF FinIn, Still, Silent, Opening
<1>22. Fine(x, c, k)
  BY <1>10, <1>11, <1>12, <1>16, <1>19, <1>20, <1>21 DEF Fine
<1>23. PICK y : y = UpdateInWinSize(x)
  OBVIOUS
<1>24. Fine(y, c, k) /\ Same(x, y) /\ y.tx = x.tx
  BY <1>15, <1>22, <1>23, UpdateInWinSizeFine
<1>25. y.tx = {} /\ y \in TypedStream
  BY <1>12, <1>16, <1>24 DEF Fine
<1>26. y = [y EXCEPT !.tx = {}]
  BY <1>25, NothingSent
<1>27. stream' = [stream EXCEPT ![e] = [y EXCEPT !.tx = {}]]
  BY <1>9, <1>10, <1>23, <1>26
<1>28. ~Mute(e) /\ ~Mute(Peer(e)) /\ opens[e] # <<>>
  BY <1>1, <1>9, <1>18, MuteIs, States
<1>29. FinIn(c) => EndSeen(e)
  BY <1>1 DEF FinIn, EndSeen
<1>30. /\ Still(stream[e]) => Still(c)
       /\ Silent(c, First(e)) => Silent(stream[e], First(e))
  BY <1>1
<1>31. /\ \A z \in Ends \ {e} : received'[z] = received[z]
       /\ UNCHANGED <<written, opens>>
       /\ net'[e] \subseteq net[e]
       /\ net'[Peer(e)] \subseteq net[Peer(e)] \cup y.tx
  BY <1>9 DEF Bounded
<1> QED BY <1>15, <1>24, <1>27, <1>28, <1>29, <1>30, <1>31, MethodStep

LEMMA InPktFields ==
  ASSUME NEW c \in TypedStream, NEW q
  PROVE  /\ [c EXCEPT !.inPkt = q].state = c.state
         /\ [c EXCEPT !.inPkt = q].outActive = c.outActive
         /\ [c EXCEPT !.inPkt = q].outSeqno = c.outSeqno
         /\ [c EXCEPT !.inPkt = q].inPkt = q
<1>1. PICK d : d = [c EXCEPT !.inPkt = q]
  OBVIOUS
<1>2. d.state = c.state /\ d.outActive = c.outActive /\ d.outSeqno = c.outSeqno
      /\ d.inPkt = q
  BY <1>1, TypedParts DEF Fields
<1> QED BY <1>1, <1>2

(* A packet that does not open the stream is handled as the lemmas on the  *)
(* handlers say: to them, a FIN that arrives is one that had arrived.      *)
LEMMA TakenInFine ==
  ASSUME OpensOnce, Bounded, HonestInv, NEW e \in Ends, NEW p \in net[e],
         ~TakesIsn(stream[e], p), NEW isn
  PROVE  \E c0 :
           /\ Fine(HandleIncoming(stream[e], p, isn), c0, ContextOf(e))
           /\ FinIn(c0) => EndSeen(e)
           /\ Still(stream[e]) => Still(c0)
           /\ Silent(c0, First(e)) => Silent(stream[e], First(e))
<1>1. PICK c : c = stream[e]
  OBVIOUS
<1>2. PICK c0 : c0 = IF p.fin THEN [c EXCEPT !.inPkt = <<p>>] ELSE c
  OBVIOUS
<1>3. PICK k : k = ContextOf(e)
  OBVIOUS
<1>4. /\ k \in Context /\ k.b = First(e)
      /\ k.pb = First(Peer(e)) /\ k.pw = written[Peer(e)]
  BY <1>3, ContextFits
<1>5. c \in TypedStream
  BY <1>1 DEF Bounded
<1>6. /\ c0.state = c.state /\ c0.outActive = c.outActive
      /\ c0.outSeqno = c.outSeqno
      /\ p.fin => c0.inPkt = <<p>>
      /\ ~p.fin => c0 = c
  BY <1>2, <1>5, InPktFields
<1>7. p.fin => FinIn(c0)
  <2>1. Len(<<p>>) = 1 /\ <<p>>[1] = p /\ 1 \in 1 .. 1
    OBVIOUS
  <2> QED BY <1>6, <2>1 DEF FinIn
<1>8. FinIn(c) => FinIn(c0)
  BY <1>6, <1>7
<1>9. (Still(c) <=> Still(c0)) /\ \A b : Silent(c, b) <=> Silent(c0, b)
  BY <1>6 DEF Still, Opening, Silent
<1>10. Fine(c, c, k)
  BY <1>1, <1>3, FineNow
<1>11. Fine(c, c0, k)
  BY <1>8, <1>9, <1>10 DEF Fine
<1>12. p \in Allowed(c0, k)
  <2>1. p \in HonestPackets(k.pb, k.pw)
    BY <1>4 DEF HonestInv
  <2> QED BY <1>7, <2>1 DEF Allowed
<1>13. p.ack => ~Silent(c, k.b)
  <2>1. Silent(c, k.b) => Mute(e)
    BY <1>1, <1>4 DEF Mute
  <2> QED BY <2>1, MuteIs
<1>14. ~TakesIsn(c, p)
  BY <1>1
<1>15. Fine(HandleIncoming(c, p, isn), c0, k)
  BY ONLY <1>4, <1>11, <1>12, <1>13, <1>14, HandleIncomingFine
<1>16. FinIn(c0) => EndSeen(e)
  <2>1. p.fin => EndSeen(e)
    BY DEF EndSeen
  <2>2. FinIn(c) => EndSeen(e)
    BY <1>1 DEF EndSeen, FinIn
  <2> QED BY <1>6, <2>1, <2>2
<1>17. /\ Still(stream[e]) => Still(c0)
       /\ Silent(c0, First(e)) => Silent(stream[e], First(e))
  BY <1>1, <1>9
<1> QED BY <1>1, <1>3, <1>15, <1>16, <1>17

(* An end that is mute takes no notice of what does not open it.           *)
LEMMA MuteIgnores ==
  ASSUME HonestInv, NEW e \in Ends, Mute(e), NEW p \in net[e],
         ~TakesIsn(stream[e], p), NEW isn
  PROVE  HandleIncoming(stream[e], p, isn) = stream[e]
<1>1. PICK c : c = stream[e]
  OBVIOUS
<1>2. ~p.ack
  BY MuteIs
<1>3. c.state = TCP_CLOSED \/ c.state = TCP_SYN_RCVD
  BY <1>1, MuteIs DEF Mute, Silent
<1>4. CASE c.state = TCP_CLOSED
  <2>1. ~(p.syn /\ ~p.ack)
    BY <1>1, <1>4 DEF TakesIsn
  <2>2. HandleIncoming(c, p, isn) = IncomingClosed(c, p, isn)
    BY <1>4, States DEF HandleIncoming
  <2>3. IncomingClosed(c, p, isn) = c
    BY <2>1 DEF IncomingClosed
  <2> QED BY <1>1, <2>2, <2>3
<1>5. CASE c.state = TCP_SYN_RCVD
  <2>1. HandleIncoming(c, p, isn) = IncomingSynRcvd(c, p)
    BY <1>5, States DEF HandleIncoming
  <2>2. IncomingSynRcvd(c, p) = c
    BY <1>2 DEF IncomingSynRcvd
  <2> QED BY <1>1, <2>1, <2>2
<1> QED BY <1>3, <1>4, <1>5

(* A first SYN opens a closed stream.                                      *)
LEMMA AnsweredSyn ==
  ASSUME NEW c, Blank(c), c.state = TCP_CLOSED,
         NEW p \in ShortPacket, p.syn, ~p.ack, NEW isn
  PROVE  \E d : /\ Blank(d) /\ d.inAckno = SeqAdd(p.seqno, 1)
                /\ HandleIncoming(c, p, isn) =
                     [ToSend(InitSeqnos(d, isn), SynPkt(TRUE), TRUE)
                        EXCEPT !.state = TCP_SYN_RCVD]
<1> DEFINE s == p.seqno
           a == SeqAdd(p.seqno, 1)
           w == p.win
           d == [c EXCEPT !.initPeer = s, !.inAckno = a, !.outWin = w, !.inWin = MaxWin]
<1>1. s \in SeqNum /\ w \in Nat /\ MaxWin \in Nat
  BY ShortPacketParts, Sizes
<1>2. a \in SeqNum
  <2>1. p.seqno \in SeqNum /\ 1 \in 0 .. SeqMod
    BY ShortPacketParts, Sizes
  <2> QED BY <2>1, SeqAddType
<1>3. c \in TypedStream
  BY DEF Blank
<1>4. d \in TypedStream
  <2> HIDE DEF s, a, w
  <2> QED BY <1>1, <1>2, <1>3, HeardType
<1>5. Blank(d) /\ d.inAckno = a
  <2>1. PICK x : x = d
    OBVIOUS
  <2> HIDE DEF s, a, w
  <2>2. /\ x.inQueue = c.inQueue /\ x.outQueue = c.outQueue
        /\ x.inPkt = c.inPkt /\ x.outPkt = c.outPkt /\ x.tx = c.tx
        /\ x.inAckno = a
    BY <1>3, <2>1, TypedParts DEF Fields
  <2> HIDE DEF d
  <2> QED BY <1>4, <2>1, <2>2 DEF Blank
<1>6. HandleIncoming(c, p, isn) = IncomingClosed(c, p, isn)
  BY States DEF HandleIncoming
<1>7. IncomingClosed(c, p, isn) =
        [ToSend(InitSeqnos(d, isn), SynPkt(TRUE), TRUE) EXCEPT !.state = TCP_SYN_RCVD]
  BY DEF IncomingClosed
<1> HIDE DEF d
<1> QED BY <1>5, <1>6, <1>7

LEMMA RecvPktHonest ==
  ASSUME OpensOnce, Bounded, HonestInv, Bounded',
         NEW e \in Ends, NEW p \in net[e], NEW again \in BOOLEAN, RecvPkt(e, p, again)
  PROVE  HonestInv'
<1> DEFINE genSeq == TakesIsn(stream[e], p)
           isn == IF genSeq THEN NextIsn(e) ELSE 0
           c == HandleIncoming(stream[e], p, isn)
<1>1. /\ stream' = [stream EXCEPT ![e] = [c EXCEPT !.tx = {}]]
      /\ net' = [net EXCEPT ![Peer(e)] = @ \cup c.tx,
                            ![e] = IF again THEN @ ELSE @ \ {p}]
      /\ opens' = [opens EXCEPT ![e] = IF genSeq THEN Append(@, written[e]) ELSE @]
      /\ received' = [received EXCEPT ![e] = IF genSeq THEN <<>> ELSE @]
      /\ written' = written
      /\ genSeq => MayOpen(e)
  BY DEF RecvPkt
<1> HIDE DEF c
<1>2. net'[e] \subseteq net[e] /\ net'[Peer(e)] \subseteq net[Peer(e)] \cup c.tx
  <2>1. DOMAIN net = Ends /\ Peer(e) \in Ends /\ Peer(e) # e
    BY PeerIsEnd DEF Bounded
  <2> QED BY <1>1, <2>1
<1>3. ~Mute(Peer(e))
  BY MuteIs
<1>4. CASE genSeq
  <2>1. MayOpen(e) /\ p.syn /\ ~p.ack
    BY <1>1, <1>4 DEF TakesIsn
  <2>2. stream[e].state = TCP_CLOSED /\ Blank(stream[e])
    BY <2>1, NotOpened
  <2>3. p \in ShortPacket
    BY DEF Bounded
  <2>4. c = HandleIncoming(stream[e], p, NextIsn(e))
    BY <1>4 DEF c
  <2>5. PICK d : /\ Blank(d)
                 /\ c = [ToSend(InitSeqnos(d, NextIsn(e)), SynPkt(TRUE), TRUE)
                           EXCEPT !.state = TCP_SYN_RCVD]
    <3>1. PICK d : /\ Blank(d) /\ d.inAckno = SeqAdd(p.seqno, 1)
                   /\ HandleIncoming(stream[e], p, NextIsn(e)) =
                        [ToSend(InitSeqnos(d, NextIsn(e)), SynPkt(TRUE), TRUE)
                           EXCEPT !.state = TCP_SYN_RCVD]
      BY ONLY ZenonT(60), <2>1, <2>2, <2>3, AnsweredSyn
    <3> QED BY ONLY <2>4, <3>1
  <2>6. PICK ack : ack = TRUE
    OBVIOUS
  <2>7. PICK s : s = TCP_SYN_RCVD
    OBVIOUS
  <2>8. /\ ack \in BOOLEAN /\ (ack \/ d.known) /\ (ack => ~Mute(Peer(e)))
        /\ s = IF ack THEN TCP_SYN_RCVD ELSE TCP_SYN_SENT
        /\ c = [ToSend(InitSeqnos(d, NextIsn(e)), SynPkt(ack), TRUE) EXCEPT !.state = s]
    BY <1>3, <2>5, <2>6, <2>7
  <2>9. PICK x : x = c
    OBVIOUS
  <2>10. /\ opens' = [opens EXCEPT ![e] = Append(@, written[e])]
         /\ received' = [received EXCEPT ![e] = <<>>]
         /\ stream' = [stream EXCEPT ![e] = [x EXCEPT !.tx = {}]]
         /\ written' = written
    BY <1>1, <1>4, <2>9
  <2>11. OpensOnce /\ Bounded /\ HonestInv /\ Bounded' /\ e \in Ends
    OBVIOUS
  <2>12. /\ x = [ToSend(InitSeqnos(d, NextIsn(e)), SynPkt(ack), TRUE) EXCEPT !.state = s]
         /\ net'[e] \subseteq net[e] /\ net'[Peer(e)] \subseteq net[Peer(e)] \cup x.tx
    BY <1>2, <2>8, <2>9
  <2>13. /\ ack \in BOOLEAN /\ (ack \/ d.known) /\ (ack => ~Mute(Peer(e)))
         /\ s = IF ack THEN TCP_SYN_RCVD ELSE TCP_SYN_SENT
    BY <2>8
  <2> QED BY ONLY <2>1, <2>5, <2>10, <2>11, <2>12, <2>13, OpenStep
<1>5. CASE ~genSeq
  <2>1. opens' = opens /\ received' = received
    BY <1>1, <1>5 DEF Bounded
  <2>2. PICK c0 : /\ Fine(c, c0, ContextOf(e))
                  /\ FinIn(c0) => EndSeen(e)
                  /\ Still(stream[e]) => Still(c0)
                  /\ Silent(c0, First(e)) => Silent(stream[e], First(e))
    BY <1>5, TakenInFine DEF c
  <2>3. Mute(e) => c = stream[e]
    BY <1>5, MuteIgnores DEF c
  <2>4. Mute(e) => c.outPkt = <<>> /\ c.tx = {}
    BY <2>3, MuteIs DEF HonestInv
  <2>5. opens[e] = <<>> => c.state = TCP_CLOSED
    BY <2>3, MuteIs DEF Mute
  <2>6. stream' = [stream EXCEPT ![e] = [c EXCEPT !.tx = {}]] /\ written' = written
    BY <1>1
  <2>7. OpensOnce /\ Bounded /\ HonestInv /\ Bounded' /\ e \in Ends
    OBVIOUS
  <2>8. UNCHANGED <<written, received, opens>>
    BY <2>1, <2>6
  <2> QED BY ONLY <1>2, <1>3, <2>2, <2>4, <2>5, <2>6, <2>7, <2>8, PlainStep
<1> QED BY <1>4, <1>5

(* A step that changes no stream, and takes packets off the network.       *)
LEMMA DropHonest ==
  ASSUME OpensOnce, Bounded, HonestInv, Bounded', NEW e \in Ends,
         UNCHANGED <<stream, written, received, opens>>,
         net'[e] \subseteq net[e], net'[Peer(e)] \subseteq net[Peer(e)]
  PROVE  HonestInv'
<1>1. PICK c : c = stream[e]
  OBVIOUS
<1>2. c \in TypedStream /\ c.tx = {}
  BY <1>1 DEF Bounded, HonestInv
<1>3. Fine(c, c, ContextOf(e))
  BY <1>1, FineNow
<1>4. c = [c EXCEPT !.tx = {}]
  BY <1>2, NothingSent
<1>5. stream' = [stream EXCEPT ![e] = c]
  BY <1>1 DEF Bounded
<1>6. stream' = [stream EXCEPT ![e] = [c EXCEPT !.tx = {}]]
  BY <1>4, <1>5
<1>7. FinIn(c) => EndSeen(e)
  BY <1>1 DEF FinIn, EndSeen
<1>8. /\ Mute(e) => c.outPkt = <<>> /\ c.tx = {}
      /\ opens[e] = <<>> => c.state = TCP_CLOSED
      /\ Mute(Peer(e)) =>
           /\ c.state \in {TCP_CLOSED, TCP_SYN_SENT}
           /\ \A p \in c.tx : ~p.ack
           /\ \A i \in 1 .. Len(c.outPkt) : IsFirstSyn(c.outPkt[i].pkt)
  BY <1>1, <1>2, MuteIs
<1>9. net'[Peer(e)] \subseteq net[Peer(e)] \cup c.tx
  OBVIOUS
<1>10. /\ Still(stream[e]) => Still(c)
       /\ Silent(c, First(e)) => Silent(stream[e], First(e))
  BY <1>1
<1>11. OpensOnce /\ Bounded /\ HonestInv /\ Bounded' /\ e \in Ends
       /\ UNCHANGED <<written, received, opens>> /\ net'[e] \subseteq net[e]
  OBVIOUS
<1> QED BY ONLY <1>3, <1>6, <1>7, <1>8, <1>9, <1>10, <1>11, PlainStep

(* What is written later does not make what was sent before dishonest,     *)
(* except a FIN.                                                           *)
LEMMA StaysHonest ==
  ASSUME NEW b \in SeqNum, NEW w \in Nat, NEW v \in Nat, w <= v,
         NEW p \in HonestPackets(b, w), ~p.fin
  PROVE  p \in HonestPackets(b, v)
<1>1. p \in ShortPacket /\ Honest(p, b, w)
  BY DEF HonestPackets
<1>2. Before(p.seqno, b) \in Nat /\ Len(p.data) \in Nat
  BY <1>1, ShortPacketParts, BeforeType
<1>3. Honest(p, b, v)
  BY <1>1, <1>2 DEF Honest
<1> QED BY <1>1, <1>3 DEF HonestPackets

LEMMA OutStaysHonest ==
  ASSUME NEW b \in SeqNum, NEW w \in Nat, NEW v \in Nat, w <= v
  PROVE  Seq(HonestOut(b, w)) \subseteq Seq(HonestOut(b, v))
<1>1. {p \in HonestPackets(b, w) : ~p.fin} \subseteq {p \in HonestPackets(b, v) : ~p.fin}
  BY StaysHonest
<1>2. HonestOut(b, w) \subseteq HonestOut(b, v)
  BY <1>1 DEF HonestOut
<1> QED BY <1>2, SeqMonotonic

(* The bytes written join the end of the queue.                            *)
LEMMA WrittenSends ==
  ASSUME NEW c \in TypedStream, NEW b \in SeqNum, NEW w \in Nat, NEW size \in Nat,
         SendsHonest(c, b, w), Opened(c),
         NEW new, new = [i \in 1 .. size |-> w + i],
         NEW q, q = c.inQueue \o new,
         NEW d, d = [c EXCEPT !.inQueue = q]
  PROVE  SendsHonest(d, b, w + size)
<1>1. c.inQueue \in Seq(Byte) /\ Len(c.inQueue) \in Nat
  BY DEF TypedStream
<1>2. new \in Seq(Byte) /\ Len(new) = size
  <2>1. \A i \in 1 .. size : w + i \in Byte
    BY DEF Byte
  <2>2. new \in [1 .. size -> Byte] /\ DOMAIN new = 1 .. size
    BY <2>1
  <2>3. [i \in 1 .. size |-> w + i] \in Seq(Byte)
    <3>1. size \in Nat /\ w \in Nat
      OBVIOUS
    <3> QED BY ONLY <2>1, <3>1
  <2>4. new \in Seq(Byte)
    BY <2>3
  <2> QED BY <2>2, <2>4
<1>3. /\ Len(q) = Len(c.inQueue) + size
      /\ \A i \in 1 .. Len(q) :
           q[i] = IF i <= Len(c.inQueue) THEN c.inQueue[i] ELSE new[i - Len(c.inQueue)]
  BY <1>1, <1>2, ConcatProperties
<1>4. /\ d.state = c.state /\ d.known = c.known /\ d.outSeqno = c.outSeqno
      /\ d.outPkt = c.outPkt /\ d.inQueue = q
  <2>1. c = Fields(c)
    BY TypedParts
  <2> QED BY <2>1 DEF Fields
<1>5. Opened(d) /\ ~Opening(d) /\ Opened(c)
      /\ d.state \notin {TCP_LISTEN, TCP_TIMED_WAIT, TCP_SYN_SENT}
  BY <1>4, OpenedNotSilent, States DEF Opened, Opening, SendsHonest
<1>6. /\ c.outPkt \in Seq(HonestOut(b, w)) /\ c.known
      /\ Len(c.inQueue) <= w
      /\ Before(c.outSeqno, b) = w - Len(c.inQueue)
      /\ \A i \in 1 .. Len(c.inQueue) : c.inQueue[i] = w - Len(c.inQueue) + i
  BY DEF SendsHonest
<1>7. d.outPkt \in Seq(HonestOut(b, w + size))
  <2>1. w + size \in Nat /\ w <= w + size
    OBVIOUS
  <2> QED BY <1>4, <1>6, <2>1, OutStaysHonest
<1>8. Len(q) <= w + size /\ Before(d.outSeqno, b) = w + size - Len(q)
  BY <1>1, <1>3, <1>4, <1>6
<1>9. \A i \in 1 .. Len(q) : q[i] = w + size - Len(q) + i
  <2> TAKE i \in 1 .. Len(q)
  <2>1. CASE i <= Len(c.inQueue)
    <3>1. i \in 1 .. Len(c.inQueue)
      BY <1>1, <1>3, <2>1
    <3> QED BY <1>1, <1>3, <1>6, <2>1, <3>1
  <2>2. CASE ~(i <= Len(c.inQueue))
    <3>1. i - Len(c.inQueue) \in 1 .. size
      BY <1>1, <1>3, <2>2
    <3>2. q[i] = w + (i - Len(c.inQueue))
      BY <1>3, <2>2, <3>1
    <3> QED BY <1>1, <1>3, <3>2
  <2> QED BY <2>1, <2>2
<1> QED BY SMTT(30), <1>4, <1>5, <1>6, <1>7, <1>8, <1>9 DEF SendsHonest

LEMMA WriteHonest ==
  ASSUME OpensOnce, Bounded, HonestInv, Bounded',
         NEW e \in Ends, NEW size \in WriteSizes, Write(e, size)
  PROVE  HonestInv'
<1>1. PICK f : f = Peer(e)
  OBVIOUS
<1>2. f \in Ends /\ f # e /\ Peer(f) = e /\ Peer(e) = f /\ \A x \in Ends : x = e \/ x = f
  BY <1>1, PeerIsEnd
<1>3. PICK c : c = stream[e]
  OBVIOUS
<1>4. PICK new : new = [i \in 1 .. size |-> written[e] + i]
  OBVIOUS
<1>5. PICK q : q = c.inQueue \o new
  OBVIOUS
<1>6. PICK d : d = [c EXCEPT !.inQueue = q]
  OBVIOUS
<1>7. /\ c.state >= TCP_ESTABLISHED /\ c.outActive
      /\ written[e] + size <= MaxBytes
      /\ stream' = [stream EXCEPT ![e] = d]
      /\ written' = [written EXCEPT ![e] = @ + size]
      /\ net' = net /\ received' = received /\ opens' = opens
  BY <1>3, <1>4, <1>5, <1>6 DEF Write
<1>8. /\ c \in TypedStream /\ written[e] \in Nat /\ size \in Nat
      /\ First(e) \in SeqNum
  BY <1>3, BoundsAssumption, FirstType DEF Bounded
<1>9. PICK v : v = written[e] + size
  OBVIOUS
<1>10. v \in Nat /\ written[e] <= v /\ v <= MaxBytes
  BY <1>7, <1>8, <1>9
<1>11. /\ stream'[e] = d /\ stream'[f] = stream[f]
       /\ written'[e] = v /\ written'[f] = written[f]
  BY <1>2, <1>7, <1>9 DEF Bounded
<1>12. /\ d.state = c.state /\ d.outActive = c.outActive /\ d.outSeqno = c.outSeqno
       /\ d.inAckno = c.inAckno /\ d.outQueue = c.outQueue
       /\ d.inPkt = c.inPkt /\ d.outPkt = c.outPkt /\ d.tx = c.tx
  <2>1. c = Fields(c)
    BY <1>8, TypedParts
  <2> QED BY <1>6, <2>1 DEF Fields
<1>13. Opened(c) /\ Opened(d) /\ ~Opening(d)
  BY <1>7, <1>12, OpenedNotSilent DEF Opened, Opening
<1>14. ~Mute(e) /\ ~Mute(f) /\ opens[e] # <<>>
  <2>1. ~Mute(e) /\ opens[e] # <<>>
    BY <1>3, <1>13, MuteIs DEF Mute
  <2>2. stream[e].state \notin {TCP_CLOSED, TCP_SYN_SENT}
    BY <1>3, <1>7, States
  <2> QED BY <1>2, <2>1, <2>2, MuteIs
<1>15. ~EndSeen(f)
  <2>1. ~Frozen(e)
    BY <1>3, <1>7 DEF Frozen
  <2> QED BY <1>2, <2>1 DEF HonestInv
<1>inv. \A x \in Ends :
          /\ written[x] <= MaxBytes
          /\ stream[x].tx = {} /\ Len(opens[x]) <= 1
          /\ SendsHonest(stream[x], First(x), written[x])
          /\ ReceivesHonest(stream[x], received[x], First(Peer(x)), written[Peer(x)])
          /\ net[x] \subseteq HonestPackets(First(Peer(x)), written[Peer(x)])
          /\ EndSeen(x) => Frozen(Peer(x))
          /\ Mute(x) => Unheard(x)
          /\ StartsClosed(x)
  BY DEF HonestInv
<1>16. \A x \in Ends : written'[x] <= MaxBytes /\ stream'[x].tx = {} /\ Len(opens'[x]) <= 1
  BY <1>2, <1>3, <1>7, <1>10, <1>11, <1>12, <1>inv
<1>17. SendsHonest(d, First(e), v)
  <2>1. SendsHonest(c, First(e), written[e])
    BY <1>3, <1>inv
  <2> QED BY <1>4, <1>5, <1>6, <1>8, <1>9, <1>13, <2>1, WrittenSends
<1>18. \A x \in Ends : SendsHonest(stream'[x], First(x), written'[x])
  BY <1>2, <1>11, <1>17, <1>inv
<1>19. ReceivesHonest(d, received[e], First(f), written[f])
  <2>1. ReceivesHonest(c, received[e], First(f), written[f])
    BY <1>2, <1>3, <1>inv
  <2> QED BY <1>12, <2>1 DEF ReceivesHonest, Opening, Opened
<1>20. ReceivesHonest(stream[f], received[f], First(e), v)
  <2>1. PICK y : y = stream[f]
    OBVIOUS
  <2>2. ReceivesHonest(y, received[f], First(e), written[e])
    BY <1>2, <1>inv, <2>1
  <2>3. y.inPkt \in Seq(HonestPackets(First(e), v))
    <3>1. y.inPkt \in Seq(HonestPackets(First(e), written[e]))
      BY <2>2 DEF ReceivesHonest
    <3>2. PICK s : s = y.inPkt
      OBVIOUS
    <3>3. PICK n : n = Len(s)
      OBVIOUS
    <3>4. n \in Nat /\ \A i \in 1 .. n : s[i] \in HonestPackets(First(e), written[e])
      BY <3>1, <3>2, <3>3
    <3>5. \A i \in 1 .. n : ~s[i].fin
      BY <1>15, <2>1, <3>2, <3>3 DEF EndSeen
    <3>6. \A i \in 1 .. n : s[i] \in HonestPackets(First(e), v)
      BY <1>8, <1>10, <3>4, <3>5, StaysHonest
    <3>7. s \in [1 .. n -> HonestPackets(First(e), v)]
      BY <3>1, <3>2, <3>3, <3>6
    <3> QED BY <3>2, <3>4, <3>7
  <2>4. y.state \notin {TCP_CLOSE_WAIT, TCP_CLOSING, TCP_LAST_ACK}
    BY <1>15, <2>1 DEF EndSeen
  <2> QED BY <2>1, <2>2, <2>3, <2>4 DEF ReceivesHonest
<1>21. \A x \in Ends :
         ReceivesHonest(stream'[x], received'[x], First(Peer(x)), written'[Peer(x)])
  BY <1>2, <1>7, <1>11, <1>19, <1>20
<1>22. net[f] \subseteq HonestPackets(First(e), v)
  <2>1. \A p \in net[f] : p \in HonestPackets(First(e), written[e]) /\ ~p.fin
    BY <1>2, <1>15, <1>inv DEF EndSeen
  <2> QED BY <1>8, <1>10, <2>1, StaysHonest
<1>23. \A x \in Ends : net'[x] \subseteq HonestPackets(First(Peer(x)), written'[Peer(x)])
  BY <1>2, <1>7, <1>11, <1>22, <1>inv
<1>24. ~EndSeen(f)'
  BY <1>7, <1>11, <1>15 DEF EndSeen
<1>25. EndSeen(e)' => Frozen(f)'
  <2>1. EndSeen(e)' => EndSeen(e)
    BY <1>3, <1>7, <1>11, <1>12 DEF EndSeen
  <2>2. Frozen(f) => Frozen(f)'
    BY <1>7, <1>11 DEF Frozen, Opening
  <2> QED BY <1>2, <1>inv, <2>1, <2>2
<1>26. ~Mute(e)' /\ ~Mute(f)'
  <2>1. ~Silent(d, First(e))
    BY <1>13, OpenedNotSilent
  <2>2. ~Mute(e)'
    BY <1>7, <1>11, <1>14, <2>1 DEF Mute, Silent, First
  <2>3. ~Mute(f)'
    BY <1>7, <1>11, <1>14 DEF Mute, Silent, First
  <2> QED BY <2>2, <2>3
<1>27. \A x \in Ends : StartsClosed(x)'
  BY <1>2, <1>7, <1>11, <1>14, <1>inv DEF StartsClosed
<1> QED BY <1>2, <1>16, <1>18, <1>21, <1>23, <1>24, <1>25, <1>26, <1>27
        DEF HonestInv, First

LEMMA InitHonest == OpensOnce /\ Init => HonestInv
<1> SUFFICES ASSUME OpensOnce, Init PROVE HonestInv
  OBVIOUS
<1>1. \A e \in Ends :
        /\ stream[e] = NewStream /\ net[e] = {} /\ written[e] = 0
        /\ received[e] = <<>> /\ opens[e] = <<>>
  BY DEF Init
<1>2. <<>> \in Seq(Byte) /\ Consecutive(<<>>)
  BY DEF Consecutive
<1>3. \A e \in Ends :
        /\ SendsHonest(stream[e], First(e), written[e])
        /\ ReceivesHonest(stream[e], received[e], First(Peer(e)), written[Peer(e)])
        /\ ~FinIn(stream[e])
  BY <1>1, <1>2, NewStreamHonest
<1>4. \A e \in Ends : stream[e].tx = {} /\ stream[e].outPkt = <<>>
                      /\ stream[e].state = TCP_CLOSED
  BY <1>1, NewStreamFields
<1>5. MaxBytes \in Nat
  BY BoundsAssumption
<1>6. \A e \in Ends : written[e] <= MaxBytes /\ Len(opens[e]) <= 1
  BY <1>1, <1>5
<1>7. \A e \in Ends : ~EndSeen(e)
  BY <1>1, <1>3 DEF EndSeen, FinIn
<1>8. \A e \in Ends : \A i \in 1 .. Len(stream[e].outPkt) : FALSE
  <2> TAKE e \in Ends
  <2>1. Len(stream[e].outPkt) = 0
    BY <1>4
  <2>2. ASSUME NEW i \in 1 .. Len(stream[e].outPkt) PROVE FALSE
    BY ONLY <2>1, <2>2
  <2> QED BY <2>2
<1>9. \A e \in Ends : Unheard(e)
  <2> TAKE e \in Ends
  <2>1. Peer(e) \in Ends
    BY PeerIsEnd
  <2> QED BY <1>1, <1>4, <1>8, <2>1 DEF Unheard
<1>10. \A e \in Ends : StartsClosed(e)
  BY <1>1, <1>4 DEF StartsClosed
<1>11. \A e \in Ends : net[e] \subseteq HonestPackets(First(Peer(e)), written[Peer(e)])
  BY <1>1
<1> QED BY <1>3, <1>4, <1>6, <1>7, <1>9, <1>10, <1>11 DEF HonestInv

LEMMA NextHonest ==
  ASSUME OpensOnce, Bounded, HonestInv, Bounded', [Next]_vars
  PROVE  HonestInv'
<1>1. ASSUME NEW e \in Ends, AddUdpPeer(e) PROVE HonestInv'
  BY <1>1, DropHonest DEF AddUdpPeer
<1>2. ASSUME NEW e \in Ends, Connect(e) PROVE HonestInv'
  BY <1>2, ConnectHonest
<1>3. ASSUME NEW e \in Ends, ListenFor(e) PROVE HonestInv'
  <2>1. stream' = [stream EXCEPT ![e] = [stream[e] EXCEPT !.known = TRUE]]
    BY <1>3 DEF ListenFor
  <2> QED BY <1>3, <2>1, KnownStep DEF ListenFor
<1>4. ASSUME NEW e \in Ends, NEW size \in WriteSizes, Write(e, size) PROVE HonestInv'
  BY <1>4, WriteHonest
<1>5. ASSUME NEW e \in Ends, NEW size \in ReadSizes, Read(e, size) PROVE HonestInv'
  BY <1>5, ReadHonest
<1>6. ASSUME NEW e \in Ends, CloseWrite(e) PROVE HonestInv'
  BY <1>6, CloseWriteHonest
<1>7. ASSUME NEW e \in Ends, NEW t \in Timeouts, Tick(e, t) PROVE HonestInv'
  BY <1>7, TickHonest
<1>8. ASSUME NEW e \in Ends, NEW t \in Timeouts, Close(e, t) PROVE HonestInv'
  BY <1>8, CloseHonest
<1>9. ASSUME NEW e \in Ends, NEW p \in net[e], NEW again \in BOOLEAN, RecvPkt(e, p, again)
      PROVE  HonestInv'
  BY <1>9, RecvPktHonest
<1>10. ASSUME NEW e \in Ends, NEW p, UNCHANGED <<stream, written, received, opens>>,
              net' = [net EXCEPT ![e] = @ \ {p}]
       PROVE  HonestInv'
  <2>1. net'[e] \subseteq net[e] /\ net'[Peer(e)] \subseteq net[Peer(e)]
    BY <1>10, PeerIsEnd DEF Bounded
  <2> QED BY <1>10, <2>1, DropHonest
<1>11. ASSUME NEW e \in Ends, NEW p \in net[e], Unclaimed(e, p) PROVE HonestInv'
  BY <1>10, <1>11 DEF Unclaimed
<1>12. ASSUME NEW e \in Ends, NEW p \in net[e], Lose(e, p) PROVE HonestInv'
  BY <1>10, <1>12 DEF Lose
<1>13. CASE UNCHANGED vars
  <2>1. 1 \in Ends /\ UNCHANGED <<stream, net, written, received, opens>>
    BY <1>13 DEF vars, Ends
  <2> QED BY <2>1, DropHonest
<1> QED BY <1>1, <1>2, <1>3, <1>4, <1>5, <1>6, <1>7, <1>8, <1>9, <1>11, <1>12, <1>13
        DEF Next

LEMMA HonestHasNoGaps == HonestInv => NoGaps
<1> SUFFICES ASSUME HonestInv, NEW e \in Ends PROVE Consecutive(Delivered(e))
  BY DEF NoGaps, Consecutive
<1> QED BY DEF HonestInv, ReceivesHonest, Delivered

LEMMA HonestEndIsLast == Bounded /\ HonestInv => EndOfStreamIsLast
<1> SUFFICES ASSUME Bounded, HonestInv, NEW e \in Ends,
                    stream[e].state \in {TCP_CLOSE_WAIT, TCP_CLOSING, TCP_LAST_ACK},
                    Delivered(e) # <<>>
             PROVE  Delivered(e)[Len(Delivered(e))] = written[Peer(e)]
  BY DEF EndOfStreamIsLast
<1>1. ReceivesHonest(stream[e], received[e], First(Peer(e)), written[Peer(e)])
  BY DEF HonestInv
<1>2. Opened(stream[e])
  BY States DEF Opened
<1> QED BY <1>1, <1>2 DEF ReceivesHonest, Delivered

(* The bytes that reach an application are consecutive bytes of what the   *)
(* other one wrote, whatever is lost, repeated or reordered: what          *)
(* check_InPkts is for.                                                    *)
THEOREM StreamNoGaps == OpensOnce => (Spec => []NoGaps)
<1> SUFFICES ASSUME OpensOnce PROVE Spec => []NoGaps
  OBVIOUS
<1>1. Init => Bounded /\ HonestInv
  BY InitBounded, InitHonest
<1>2. Bounded /\ HonestInv /\ [Next]_vars => Bounded' /\ HonestInv'
  BY NextBounded, NextHonest
<1>3. Bounded /\ HonestInv => NoGaps
  BY HonestHasNoGaps
<1> QED BY <1>1, <1>2, <1>3, PTL DEF Spec

(* A stream is not held for finished before its last byte is delivered,    *)
(* although a FIN has no sequence number of its own: no byte can be        *)
(* written once the FIN is under way, and check_InPkts takes it in its     *)
(* place.                                                                  *)
THEOREM StreamEndIsLast == OpensOnce => (Spec => []EndOfStreamIsLast)
<1> SUFFICES ASSUME OpensOnce PROVE Spec => []EndOfStreamIsLast
  OBVIOUS
<1>1. Init => Bounded /\ HonestInv
  BY InitBounded, InitHonest
<1>2. Bounded /\ HonestInv /\ [Next]_vars => Bounded' /\ HonestInv'
  BY NextBounded, NextHonest
<1>3. Bounded /\ HonestInv => EndOfStreamIsLast
  BY HonestEndIsLast
<1> QED BY <1>1, <1>2, <1>3, PTL DEF Spec
=============================================================================
