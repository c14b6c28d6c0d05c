----------------------------- MODULE TcpStream -----------------------------
(***************************************************************************)
(* The TCP-over-UDP stream of libretroshare (tcponudp/tcpstream.cc): two   *)
(* TcpStream objects, one at each end, exchanging TcpPackets over UDP.     *)
(*                                                                         *)
(* Every TcpStream method holds tcpMtx from its first to its last line, so *)
(* one action is one whole method call: connect, listenfor, write, read,   *)
(* closeWrite, tick and recvPkt, and tou_close for the end of the object.  *)
(* A handler is an operator that maps the record of a stream to its next   *)
(* value; the packets it hands to udp->sendPkt are collected in field tx.  *)
(*                                                                         *)
(* Time is not measured: each tick chooses which of the timers have run    *)
(* out.  The ttl and the round trip estimate, which only decide how far a  *)
(* packet travels and how long a timer runs, are left out with it, and so  *)
(* is errorState, which is reported to the caller and never read.          *)
(***************************************************************************)
EXTENDS SeqNo, Sequences, FiniteSets, Functions

CONSTANTS
    MaxSeg,          \* MAX_SEG, bytes in a full data packet
    MaxWin,          \* TCP_MAX_WIN, the value of maxWinSize
    MaxQueue,        \* kMaxQueueSize
    MaxRetransmit,   \* kMaxPktRetransmit
    MaxSynRetransmit,\* kMaxSynPktRetransmit
    ISN,             \* ISN[e]: what genSequenceNo returns to end e, in turn
    WriteSizes,      \* sizes passed to write
    ReadSizes,       \* sizes passed to read
    MaxBytes,        \* bound: bytes an application writes in all
    MaxLosses,       \* bound: packets the network drops in all
    MaxRepeats,      \* bound: packets the network delivers again in all
    MaxFaults,       \* bound: packets it drops or delivers again in all
    Openers,         \* the ends whose application connects, not only listens
    Writers,         \* the ends whose application writes
    HalfClosers,     \* the ends whose application calls closeWrite
    Closers,         \* the ends whose application calls tou_close
    Timeouts,        \* which timers a tick may find run out
    Patient          \* the timers outlast packets that are under way

ASSUME SizesAssumption ==
    /\ MaxSeg \in Nat \ {0}
    /\ MaxWin \in Nat \ {0}
    /\ MaxSeg <= MaxWin
    /\ MaxWin + MaxSeg < SeqMod

Ends == {1, 2}

(* Of a tick: nothing has come in for kNoPktTimeout, the retransmission    *)
(* timer of the oldest packet has run out, and how long ago the last       *)
(* packet went out (1: over 4 * retransTimeout, 2: keepAliveTimeout too).  *)
Timers == [noPkt : BOOLEAN, rto : BOOLEAN, idle : 0 .. 2]
Quiet == [noPkt |-> FALSE, rto |-> FALSE, idle |-> 0]

ASSUME BoundsAssumption ==
    /\ {MaxQueue, MaxRetransmit, MaxSynRetransmit} \subseteq Nat
    /\ ISN \in [Ends -> Seq(SeqNum)]
    /\ WriteSizes \subseteq Nat \ {0}
    /\ ReadSizes \subseteq Nat \ {0}
    /\ {MaxBytes, MaxLosses, MaxRepeats, MaxFaults} \subseteq Nat
    /\ Openers \cup Writers \cup HalfClosers \cup Closers \subseteq Ends
    /\ Timeouts \subseteq Timers
    /\ Patient \in BOOLEAN

VARIABLES
    stream,    \* stream[e]: the TcpStream object of end e
    reg,       \* reg[e]: the object is registered with the UdpPeerReceiver
    net,       \* net[e]: packets on their way to end e
    written,   \* written[e]: how many bytes the application of e has written
    received,  \* received[e]: the bytes read from the present connection of e
    opens,     \* opens[e]: for each sequence number e has generated, what
               \* written[e] was at the time
    losses,    \* packets dropped so far
    repeats    \* packets delivered again so far

vars == <<stream, reg, net, written, received, opens, losses, repeats>>

Peer(e) == 3 - e

TCP_CLOSED == 0
TCP_LISTEN == 1
TCP_SYN_SENT == 2
TCP_SYN_RCVD == 3
TCP_ESTABLISHED == 4
TCP_FIN_WAIT_1 == 5
TCP_FIN_WAIT_2 == 6
TCP_TIMED_WAIT == 7
TCP_CLOSING == 8
TCP_CLOSE_WAIT == 9
TCP_LAST_ACK == 10

(* A byte is named by its position in the stream its writer produced. *)
Byte == Nat \ {0}

Packet == [syn : BOOLEAN, fin : BOOLEAN, ack : BOOLEAN, seqno : SeqNum,
           ackno : SeqNum, win : Nat, data : Seq(Byte)]

(* A packet waiting for its acknowledgement, and how often it was resent. *)
OutPacket == [pkt : Packet, retrans : Nat]

Stream == [state : 0 .. 10, known : BOOLEAN,
           inActive : BOOLEAN, outActive : BOOLEAN,
           outSeqno : SeqNum, outAcked : SeqNum, outWin : Nat,
           inAckno : SeqNum, inWin : Nat,
           initOur : SeqNum, initPeer : SeqNum,
           timerOn : BOOLEAN, lastAck : SeqNum, lastWin : Nat,
           congestThreshold : Nat, congestWin : Nat, congestUpdate : SeqNum,
           inQueue : Seq(Byte), outQueue : Seq(Byte),
           inPkt : Seq(Packet), outPkt : Seq(OutPacket),
           tx : SUBSET Packet]

NewStream ==
    [state |-> TCP_CLOSED, known |-> FALSE,
     inActive |-> FALSE, outActive |-> FALSE,
     outSeqno |-> 0, outAcked |-> 0, outWin |-> 0,
     inAckno |-> 0, inWin |-> 0,
     initOur |-> 0, initPeer |-> 0,
     timerOn |-> FALSE, lastAck |-> 0, lastWin |-> 0,
     congestThreshold |-> MaxWin, congestWin |-> MaxSeg, congestUpdate |-> 0,
     inQueue |-> <<>>, outQueue |-> <<>>,
     inPkt |-> <<>>, outPkt |-> <<>>, tx |-> {}]

(***************************************************************************)
(* Sending                                                                 *)
(***************************************************************************)

(* Who is what in a packet, before toSend fills in its numbers. *)
SynPkt(ack) == [syn |-> TRUE, fin |-> FALSE, ack |-> ack, data |-> <<>>]
AckPkt == [syn |-> FALSE, fin |-> FALSE, ack |-> TRUE, data |-> <<>>]
FinPkt == [AckPkt EXCEPT !.fin = TRUE]
DataPkt(bytes) == [AckPkt EXCEPT !.data = bytes]

(* Every packet but a first SYN acknowledges; a SYN consumes one sequence  *)
(* number, a FIN none.  What is to be retransmitted joins outPkt.          *)
ToSend(c, pkt, retrans) ==
    LET p == [syn |-> pkt.syn, fin |-> pkt.fin, ack |-> pkt.ack,
              seqno |-> c.outSeqno,
              ackno |-> IF pkt.ack THEN c.inAckno ELSE 0,
              win |-> c.inWin, data |-> pkt.data]
    IN  IF ~c.known THEN c ELSE
        [c EXCEPT
            !.outSeqno = SeqAdd(@, IF pkt.syn THEN 1 ELSE Len(pkt.data)),
            !.lastAck = p.ackno,
            !.lastWin = p.win,
            !.tx = @ \cup {p},
            !.timerOn = @ \/ retrans,
            !.outPkt = IF retrans THEN Append(@, [pkt |-> p, retrans |-> 0])
                                  ELSE @]

SendAck(c) == ToSend(c, AckPkt, FALSE)

(* cleanup(): shuts the stream down and drops every buffer. *)
Cleanup(c) ==
    [c EXCEPT !.state = TCP_CLOSED, !.inActive = FALSE, !.outActive = FALSE,
              !.inQueue = <<>>, !.outQueue = <<>>,
              !.inPkt = <<>>, !.outPkt = <<>>]

(* A stream that starts: a fresh sequence number and congestion state. *)
InitSeqnos(c, isn) ==
    [c EXCEPT !.outSeqno = isn, !.initOur = isn, !.outAcked = isn,
              !.inWin = MaxWin,
              !.congestThreshold = MaxWin, !.congestWin = MaxSeg,
              !.congestUpdate = SeqAdd(isn, MaxSeg)]

(* Mutant of AckedHead: an off-by-one, the packet at outAcked is dropped.  *)
AckedHeadTooFar(c) ==
    CHOOSE k \in 0 .. Len(c.outPkt) :
        /\ \A i \in 1 .. k : ~IsOldSequence(c.outAcked, c.outPkt[i].pkt.seqno)
        /\ k < Len(c.outPkt) =>
             IsOldSequence(c.outAcked, c.outPkt[k + 1].pkt.seqno)

(* acknowledge(): drops the acknowledged head of outPkt.  The congestion   *)
(* window grows at most once per call, because congestUpdate moves past    *)
(* outAcked when it does.                                                  *)
AckedHead(c) ==
    CHOOSE k \in 0 .. Len(c.outPkt) :
        /\ \A i \in 1 .. k : IsOldSequence(c.outPkt[i].pkt.seqno, c.outAcked)
        /\ k < Len(c.outPkt) =>
             ~IsOldSequence(c.outPkt[k + 1].pkt.seqno, c.outAcked)

GrowCongestWin(c) ==
    LET grown == IF c.congestWin < c.congestThreshold
                   THEN c.congestWin + c.congestWin
                   ELSE c.congestWin + MaxSeg
        win == IF grown > MaxWin THEN MaxWin ELSE grown
    IN  [c EXCEPT !.congestWin = win, !.congestUpdate = SeqAdd(c.outAcked, win)]

Acknowledge(c) ==
    LET k == AckedHead(c)
        d == IF k > 0 /\ ~IsOldSequence(c.outAcked, c.congestUpdate)
               THEN GrowCongestWin(c) ELSE c
    IN  [d EXCEPT !.outPkt = SubSeq(@, k + 1, Len(@)),
                  !.timerOn = IF k = Len(c.outPkt) THEN FALSE ELSE @ \/ k > 0]

(* retrans(): the timer has run out for the oldest packet in outPkt.  It   *)
(* goes out again with a current acknowledgement unless it is a SYN, and   *)
(* after too many attempts the stream is closed instead.                   *)
GivesUp(out) ==
    out.retrans > IF out.pkt.syn THEN MaxSynRetransmit ELSE MaxRetransmit

(* Mutant of Retrans: a SYN is not sent again.                             *)
RetransNoSyn(c) ==
    IF ~c.known \/ c.outPkt = <<>> \/ c.state < TCP_ESTABLISHED THEN c
    ELSE [c EXCEPT !.tx = {Head(c.outPkt).pkt}]

Retrans(c) ==
    IF ~c.known \/ ~c.timerOn THEN c
    ELSE IF c.outPkt = <<>> THEN [c EXCEPT !.timerOn = FALSE]
    ELSE LET out == Head(c.outPkt)
             p == [out.pkt EXCEPT
                     !.ack = @ \/ ~out.pkt.syn,
                     !.ackno = IF out.pkt.syn THEN @ ELSE c.inAckno,
                     !.win = c.inWin]
             d == [c EXCEPT
                     !.congestThreshold = c.congestWin \div 2,
                     !.congestWin = MaxSeg,
                     !.congestUpdate = SeqAdd(c.outAcked, MaxSeg),
                     !.lastAck = IF out.pkt.syn THEN @ ELSE p.ackno,
                     !.lastWin = p.win]
         IN  IF GivesUp(out) THEN Cleanup(d)
             ELSE [d EXCEPT !.tx = @ \cup {p},
                            !.outPkt = [@ EXCEPT ![1] = [pkt |-> p, retrans |-> out.retrans + 1]]]

(* What send() may still put on the wire.  The source computes the amount  *)
(* in transit with TCP_MAX_SEQ, one less than the modulus, once the        *)
(* numbers have rolled over.                                               *)
InTransit(c) ==
    IF c.outSeqno < c.outAcked THEN (SeqMod - 1 - c.outAcked) + c.outSeqno
                               ELSE c.outSeqno - c.outAcked

(* Mutant of MaxSend: the receiver's window is not looked at.              *)
MaxSendBlind(c) ==
    IF c.congestWin > InTransit(c) THEN c.congestWin - InTransit(c) ELSE 0

MaxSend(c) ==
    LET limit == IF c.outWin < c.congestWin THEN c.outWin ELSE c.congestWin
    IN  IF limit > InTransit(c) THEN limit - InTransit(c) ELSE 0

(* The n-th of the full segments send() cuts off the queue in one go. *)
Segment(c, n) ==
    [syn |-> FALSE, fin |-> FALSE, ack |-> TRUE,
     seqno |-> SeqAdd(c.outSeqno, (n - 1) * MaxSeg),
     ackno |-> c.inAckno, win |-> c.inWin,
     data |-> SubSeq(c.inQueue, (n - 1) * MaxSeg + 1, n * MaxSeg)]

(* Mutant of SendSegments: outSeqno is moved by one segment too few.       *)
SendSegmentsShort(c, n) ==
    [c EXCEPT !.inQueue = SubSeq(@, n * MaxSeg + 1, Len(@)),
              !.outSeqno = SeqAdd(@, (n - 1) * MaxSeg),
              !.tx = @ \cup {Segment(c, i) : i \in 1 .. n},
              !.timerOn = TRUE,
              !.outPkt = @ \o [i \in 1 .. n |-> [pkt |-> Segment(c, i), retrans |-> 0]]]

SendSegments(c, n) ==
    IF ~c.known THEN [c EXCEPT !.inQueue = SubSeq(@, n * MaxSeg + 1, Len(@))] ELSE
    [c EXCEPT !.inQueue = SubSeq(@, n * MaxSeg + 1, Len(@)),
              !.outSeqno = SeqAdd(@, n * MaxSeg),
              !.lastAck = c.inAckno, !.lastWin = c.inWin,
              !.tx = @ \cup {Segment(c, i) : i \in 1 .. n},
              !.timerOn = TRUE,
              !.outPkt = @ \o [i \in 1 .. n |-> [pkt |-> Segment(c, i), retrans |-> 0]]]

(* Mutant of NeedsAck: no keep-alive, so no second window update.          *)
NeedsAckOnce(c, idle) ==
    \/ IsOldSequence(c.lastAck, c.inAckno)
    \/ c.lastWin < MaxSeg /\ c.inWin > MaxSeg
    \/ idle >= 1 /\ c.inWin > c.lastWin + 4 * MaxSeg

(* Nothing was sent: perhaps an acknowledgement is due, perhaps the stream *)
(* has come to its end.  idle = 1: 4 * retransTimeout have passed since    *)
(* the last packet out, idle = 2: keepAliveTimeout has passed too.         *)
NeedsAck(c, idle) ==
    \/ IsOldSequence(c.lastAck, c.inAckno)
    \/ c.lastWin < MaxSeg /\ c.inWin > MaxSeg
    \/ idle >= 1 /\ c.inWin > c.lastWin + 4 * MaxSeg
    \/ idle >= 2

(* Mutant of EndOfStream: the queue need not be empty.                     *)
EndOfStreamEarly(c) ==
    ~c.outActive /\ c.state \in {TCP_ESTABLISHED, TCP_CLOSE_WAIT}

EndOfStream(c) ==
    /\ ~c.outActive /\ c.inQueue = <<>>
    /\ c.state \in {TCP_ESTABLISHED, TCP_CLOSE_WAIT}

SendNothing(c, idle) ==
    IF EndOfStream(c)
    THEN [ToSend(c, FinPkt, FALSE) EXCEPT
            !.state = IF c.state = TCP_ESTABLISHED THEN TCP_FIN_WAIT_1
                                                   ELSE TCP_LAST_ACK]
    ELSE IF NeedsAck(c, idle) THEN SendAck(c) ELSE c

Send(c, rto, idle) ==
    LET a == Acknowledge(c)
        d == IF rto THEN Retrans(a) ELSE a
        full == Len(d.inQueue) \div MaxSeg
        room == MaxSend(d) \div MaxSeg
        n == IF full < room THEN full ELSE room
    IN  IF d.state < TCP_ESTABLISHED THEN d
        ELSE IF n > 0 THEN SendSegments(d, n)
        ELSE IF full = 0 /\ d.inQueue # <<>> /\ MaxSend(d) >= Len(d.inQueue)
          THEN ToSend([d EXCEPT !.inQueue = <<>>], DataPkt(d.inQueue), TRUE)
        ELSE SendNothing(d, idle)

(* recv_check(): nothing has come in for kNoPktTimeout. *)
RecvCheck(c, noPkt) ==
    IF noPkt /\ c.state > TCP_SYN_RCVD THEN Cleanup(c) ELSE c

TickStream(c, t) == Send(RecvCheck(c, t.noPkt), t.rto, t.idle)

(***************************************************************************)
(* Receiving                                                               *)
(***************************************************************************)

(* Mutant of UpdateInWinSize: the window never closes.                     *)
UpdateInWinSizeNever(c) == [c EXCEPT !.inWin = MaxWin]

(* UpdateInWinSize(): the window stays fully open until a whole window of  *)
(* data waits to be read, and is shut when two of them do.                 *)
UpdateInWinSize(c) ==
    LET queued == Len(c.outQueue)
    IN  [c EXCEPT !.inWin =
            IF queued < MaxWin THEN MaxWin
            ELSE IF queued < 2 * MaxWin THEN 2 * MaxWin - queued ELSE 0]

(* The peer's FIN, in its place at the end of the stream. *)
TakeFin(c) ==
    LET d == [SendAck(c) EXCEPT !.inActive = FALSE]
    IN  CASE c.state = TCP_ESTABLISHED -> [d EXCEPT !.state = TCP_CLOSE_WAIT]
          [] c.state = TCP_FIN_WAIT_1  -> [d EXCEPT !.state = TCP_CLOSING]
          [] c.state = TCP_FIN_WAIT_2  -> Cleanup(d)
          [] OTHER -> d

(* What passes for the acknowledgement of our own FIN. *)
TakeAckOfFin(c) ==
    CASE c.state = TCP_FIN_WAIT_1 -> [c EXCEPT !.state = TCP_FIN_WAIT_2]
      [] c.state \in {TCP_LAST_ACK, TCP_CLOSING} -> Cleanup(c)
      [] OTHER -> c

(* The packet the receiver was waiting for: deliver its data, then look at *)
(* its flags.                                                              *)
ConsumePkt(c, p) ==
    LET fresh == p.ack /\ IsOldSequence(c.outAcked, p.ackno)
        d == UpdateInWinSize(
               [c EXCEPT !.inAckno = SeqAdd(p.seqno, Len(p.data)),
                         !.outAcked = IF fresh THEN p.ackno ELSE @,
                         !.outWin = IF fresh THEN p.win ELSE @,
                         !.outQueue = @ \o p.data])
        f == IF p.fin THEN TakeFin(d) ELSE d
    IN  IF p.ack /\ ~f.outActive /\ p.ackno = f.outSeqno THEN TakeAckOfFin(f)
                                                         ELSE f

(* Mutant of Matches: any packet that is not old will do.                  *)
MatchesAny(c, i) == ~IsOldSequence(c.inPkt[i].seqno, c.inAckno)

(* One turn of the loop of check_InPkts: the first packet of inPkt that    *)
(* starts at inAckno is taken out and consumed.                            *)
Matches(c, i) == c.inPkt[i].seqno = c.inAckno

ConsumeNext(c) ==
    IF \E i \in DOMAIN c.inPkt : Matches(c, i)
    THEN LET i == CHOOSE k \in DOMAIN c.inPkt :
                    /\ Matches(c, k)
                    /\ \A j \in DOMAIN c.inPkt : Matches(c, j) => k <= j
         IN  ConsumePkt([c EXCEPT !.inPkt = SubSeq(@, 1, i - 1)
                                            \o SubSeq(@, i + 1, Len(@))],
                        c.inPkt[i])
    ELSE c

(* The loop ends when no packet matches.                                   *)
ConsumeAll(c) ==
    LET loop[i \in 0 .. Len(c.inPkt)] ==
            IF i = 0 THEN c ELSE ConsumeNext(loop[i - 1])
    IN  loop[Len(c.inPkt)]

(* By then every packet that lies before inAckno has been discarded.       *)
NewPkts(c) ==
    LET kept[i \in 0 .. Len(c.inPkt)] ==
            IF i = 0 THEN <<>>
            ELSE IF IsOldSequence(c.inPkt[i].seqno, c.inAckno) THEN kept[i - 1]
            ELSE Append(kept[i - 1], c.inPkt[i])
    IN  kept[Len(c.inPkt)]

CheckInPkts(c) ==
    LET d == ConsumeAll(c) IN [d EXCEPT !.inPkt = NewPkts(d)]

(* The acknowledgement and the window of a packet inside the receive       *)
(* window are used at once, whatever the order packets arrive in; a packet *)
(* outside it is answered with a bare acknowledgement.                     *)
InWindow(c, p) ==
    /\ ~IsOldSequence(p.seqno, c.inAckno)
    /\ IsOldSequence(p.seqno, SeqAdd(c.inAckno, MaxWin))

Enqueue(c, p) ==
    LET q == Append(c.inPkt, p)
    IN  [c EXCEPT !.inPkt = IF Len(q) > MaxQueue THEN Tail(q) ELSE q]

IncomingEstablished(c, p) ==
    LET d == IF InWindow(c, p)
               THEN [c EXCEPT !.outAcked = IF p.ack THEN p.ackno ELSE @,
                              !.outWin = p.win]
               ELSE SendAck(c)
    IN  CheckInPkts(Enqueue(d, p))

(* A SYN for a closed stream, and for one that has sent its own SYN        *)
(* (simultaneous open: the answer is then no SYN, but is retransmitted).   *)
IncomingClosed(c, p, isn) ==
    IF p.syn /\ ~p.ack
    THEN LET d == [c EXCEPT !.initPeer = p.seqno,
                            !.inAckno = SeqAdd(p.seqno, 1),
                            !.outWin = p.win, !.inWin = MaxWin]
             s == IF c.state = TCP_CLOSED
                    THEN ToSend(InitSeqnos(d, isn), SynPkt(TRUE), TRUE)
                    ELSE ToSend(d, AckPkt, TRUE)
         IN  [s EXCEPT !.state = TCP_SYN_RCVD]
    ELSE c

Establish(c, p) ==
    [c EXCEPT !.outWin = p.win, !.outAcked = p.ackno,
              !.state = TCP_ESTABLISHED, !.inActive = TRUE, !.outActive = TRUE]

IncomingSynSent(c, p, isn) ==
    IF ~(p.syn /\ p.ack) THEN IncomingClosed(c, p, isn)
    ELSE IF p.ackno # c.outSeqno THEN c
    ELSE Establish(SendAck([c EXCEPT !.initPeer = p.seqno,
                                     !.inAckno = SeqAdd(p.seqno, 1)]), p)

(* Mutant of IncomingSynRcvd: the acknowledgement number is not compared.  *)
IncomingSynRcvdAnyAck(c, p) ==
    IF ~p.ack THEN c
    ELSE LET d == Establish([c EXCEPT !.inAckno = p.seqno], p)
         IN  IF p.data # <<>> THEN IncomingEstablished(d, p) ELSE d

(* Any packet that acknowledges our SYN opens the stream, and the stream   *)
(* is taken to start at that packet.                                       *)
IncomingSynRcvd(c, p) ==
    IF ~p.ack \/ p.ackno # c.outSeqno THEN c
    ELSE LET d == Establish([c EXCEPT !.inAckno = p.seqno], p)
         IN  IF p.data # <<>> THEN IncomingEstablished(d, p) ELSE d

HandleIncoming(c, p, isn) ==
    CASE c.state \in {TCP_CLOSED, TCP_LISTEN} -> IncomingClosed(c, p, isn)
      [] c.state = TCP_SYN_SENT   -> IncomingSynSent(c, p, isn)
      [] c.state = TCP_SYN_RCVD   -> IncomingSynRcvd(c, p)
      [] c.state = TCP_TIMED_WAIT -> [c EXCEPT !.state = TCP_CLOSED]
      [] OTHER -> IncomingEstablished(c, p)

(***************************************************************************)
(* The actions                                                             *)
(***************************************************************************)

Init ==
    /\ stream = [e \in Ends |-> NewStream]
    /\ reg = [e \in Ends |-> FALSE]
    /\ net = [e \in Ends |-> {}]
    /\ written = [e \in Ends |-> 0]
    /\ received = [e \in Ends |-> <<>>]
    /\ opens = [e \in Ends |-> <<>>]
    /\ losses = 0
    /\ repeats = 0

(* The stream of end e becomes c, and what c has to send goes out. *)
Update(e, c) ==
    /\ stream' = [stream EXCEPT ![e] = [c EXCEPT !.tx = {}]]
    /\ net' = [net EXCEPT ![Peer(e)] = @ \cup c.tx]

(* tou_connect: a new object is registered with the receiver before its    *)
(* connect() or listenfor() is called; datagrams may arrive in between.    *)
AddUdpPeer(e) ==
    /\ ~reg[e]
    /\ reg' = [reg EXCEPT ![e] = TRUE]
    /\ UNCHANGED <<stream, net, written, received, opens, losses, repeats>>

(* genSequenceNo draws a random number; the runs fix the draws.  An end    *)
(* whose draws are used up opens no more streams.                          *)
MayOpen(e) == Len(opens[e]) < Len(ISN[e])
NextIsn(e) == ISN[e][Len(opens[e]) + 1]

Connect(e) ==
    LET c == [stream[e] EXCEPT !.known = TRUE]
    IN  /\ e \in Openers
        /\ reg[e]
        /\ IF c.state = TCP_CLOSED
           THEN /\ MayOpen(e)
                /\ opens' = [opens EXCEPT ![e] = Append(@, written[e])]
                /\ received' = [received EXCEPT ![e] = <<>>]
                /\ Update(e, [ToSend(InitSeqnos(c, NextIsn(e)), SynPkt(FALSE), TRUE)
                                EXCEPT !.state = TCP_SYN_SENT])
           ELSE Update(e, c) /\ UNCHANGED <<opens, received>>
        /\ UNCHANGED <<reg, written, losses, repeats>>

ListenFor(e) ==
    /\ reg[e]
    /\ stream' = [stream EXCEPT ![e].known = TRUE]
    /\ UNCHANGED <<reg, net, written, received, opens, losses, repeats>>

Write(e, size) ==
    /\ e \in Writers
    /\ reg[e]
    /\ stream[e].state >= TCP_ESTABLISHED
    /\ Len(stream[e].inQueue) \div MaxSeg <= MaxQueue
    /\ stream[e].outActive
    /\ written[e] + size <= MaxBytes
    /\ stream' = [stream EXCEPT ![e].inQueue =
                    @ \o [i \in 1 .. size |-> written[e] + i]]
    /\ written' = [written EXCEPT ![e] = @ + size]
    /\ UNCHANGED <<reg, net, received, opens, losses, repeats>>

Read(e, size) ==
    LET c == stream[e]
        n == IF Len(c.outQueue) < size THEN Len(c.outQueue) ELSE size
    IN  /\ reg[e]
        /\ c.state >= TCP_ESTABLISHED
        /\ n > 0
        /\ received' = [received EXCEPT ![e] = @ \o SubSeq(c.outQueue, 1, n)]
        /\ stream' = [stream EXCEPT ![e] =
              UpdateInWinSize([c EXCEPT !.outQueue = SubSeq(@, n + 1, Len(@))])]
        /\ UNCHANGED <<reg, net, written, opens, losses, repeats>>

CloseWrite(e) ==
    /\ e \in HalfClosers
    /\ reg[e]
    /\ stream' = [stream EXCEPT ![e].outActive = FALSE]
    /\ UNCHANGED <<reg, net, written, received, opens, losses, repeats>>

Tick(e, t) ==
    /\ reg[e]
    /\ Patient /\ t # Quiet => \A d \in Ends : net[d] = {}
    /\ Update(e, TickStream(stream[e], t))
    /\ UNCHANGED <<reg, written, received, opens, losses, repeats>>

(* tou_close: a last tick, cleanup, and the object is gone. *)
Close(e, t) ==
    /\ e \in Closers
    /\ reg[e]
    /\ stream' = [stream EXCEPT ![e] = NewStream]
    /\ net' = [net EXCEPT ![Peer(e)] = @ \cup TickStream(stream[e], t).tx]
    /\ reg' = [reg EXCEPT ![e] = FALSE]
    /\ UNCHANGED <<written, received, opens, losses, repeats>>

(* recvPkt: packets arrive in any order, or again, or never. *)
TakesIsn(c, p) == c.state \in {TCP_CLOSED, TCP_LISTEN} /\ p.syn /\ ~p.ack

RecvPkt(e, p, again) ==
    LET genSeq == TakesIsn(stream[e], p)
        c == HandleIncoming(stream[e], p, IF genSeq THEN NextIsn(e) ELSE 0)
    IN  /\ reg[e]
        /\ p \in net[e]
        /\ again => repeats < MaxRepeats /\ losses + repeats < MaxFaults
        /\ genSeq => MayOpen(e)
        /\ opens' = [opens EXCEPT ![e] = IF genSeq THEN Append(@, written[e]) ELSE @]
        /\ received' = [received EXCEPT ![e] = IF genSeq THEN <<>> ELSE @]
        /\ stream' = [stream EXCEPT ![e] = [c EXCEPT !.tx = {}]]
        /\ net' = [net EXCEPT ![Peer(e)] = @ \cup c.tx,
                              ![e] = IF again THEN @ ELSE @ \ {p}]
        /\ repeats' = IF again THEN repeats + 1 ELSE repeats
        /\ UNCHANGED <<reg, written, losses>>

(* UdpPeerReceiver drops what comes from a peer no stream is registered    *)
(* for; so does, at the bound on draws, an end that cannot answer a SYN.   *)
Unclaimed(e, p) ==
    /\ ~reg[e] \/ (TakesIsn(stream[e], p) /\ ~MayOpen(e))
    /\ p \in net[e]
    /\ net' = [net EXCEPT ![e] = @ \ {p}]
    /\ UNCHANGED <<stream, reg, written, received, opens, losses, repeats>>

Lose(e, p) ==
    /\ p \in net[e]
    /\ losses < MaxLosses /\ losses + repeats < MaxFaults
    /\ losses' = losses + 1
    /\ net' = [net EXCEPT ![e] = @ \ {p}]
    /\ UNCHANGED <<stream, reg, written, received, opens, repeats>>

Next ==
    \E e \in Ends :
        \/ AddUdpPeer(e)
        \/ Connect(e)
        \/ ListenFor(e)
        \/ \E size \in WriteSizes : Write(e, size)
        \/ \E size \in ReadSizes : Read(e, size)
        \/ CloseWrite(e)
        \/ \E t \in Timeouts : Tick(e, t)
        \/ \E t \in Timeouts : Close(e, t)
        \/ \E p \in net[e], again \in BOOLEAN : RecvPkt(e, p, again)
        \/ \E p \in net[e] : Unclaimed(e, p)
        \/ \E p \in net[e] : Lose(e, p)

Spec == Init /\ [][Next]_vars

(* What the program and the network owe: ticks keep coming, and a timer    *)
(* that can run out again and again does (strong fairness); the network    *)
(* delivers packets, those with data and those without, and applications   *)
(* read (weak fairness).  The first two are written out with what it means *)
(* for the action to be enabled.                                           *)
TickIdle(e, t) ==
    \/ ~reg[e]
    \/ TickStream(stream[e], t) = stream[e]
    \/ Patient /\ t # Quiet /\ \E d \in Ends : net[d] # {}

Arrival(e, data) ==
    \E p \in net[e] : /\ (p.data # <<>>) = data
                      /\ RecvPkt(e, p, FALSE) \/ Unclaimed(e, p)

NoneUnderWay(e, data) == \A p \in net[e] : (p.data # <<>>) # data

Fairness ==
    \A e \in Ends :
        /\ \A t \in Timeouts : <>[]TickIdle(e, t) \/ []<><<Tick(e, t)>>_vars
        /\ \A data \in BOOLEAN : \/ []<>NoneUnderWay(e, data)
                                 \/ []<><<Arrival(e, data)>>_vars
        /\ WF_vars(\E size \in ReadSizes : Read(e, size))

FairSpec == Spec /\ Fairness

TypeOK ==
    /\ stream \in [Ends -> Stream]
    /\ reg \in [Ends -> BOOLEAN]
    /\ net \in [Ends -> SUBSET Packet]
    /\ written \in [Ends -> Nat]
    /\ received \in [Ends -> Seq(Byte)]
    /\ opens \in [Ends -> Seq(Nat)]
    /\ losses \in Nat
    /\ repeats \in Nat

(***************************************************************************)
(* Properties                                                              *)
(***************************************************************************)

(* Both ends are open, each with the other's present sequence numbers.     *)
Linked(e) ==
    LET c == stream[e]
        d == stream[Peer(e)]
    IN  /\ c.state >= TCP_ESTABLISHED /\ d.state >= TCP_ESTABLISHED
        /\ c.initPeer = d.initOur /\ d.initPeer = c.initOur

(* The bytes handed to the application of e, or ready to be.               *)
Delivered(e) == received[e] \o stream[e].outQueue

(* The bytes end e keeps, to be sent for the first time or once more.      *)
Kept(e) ==
    Range(stream[e].inQueue)
        \cup UNION {Range(out.pkt.data) : out \in Range(stream[e].outPkt)}

(* The stream that comes in at e started with its first byte.              *)
StartedAtFirst(e) ==
    Len(Delivered(e)) = SeqSub(stream[e].inAckno, SeqAdd(stream[e].initPeer, 1))

(* An acknowledgement is a receipt: while two ends are linked, what one    *)
(* has taken as acknowledged (outAcked) the other has received (inAckno),  *)
(* and nothing is received that was not sent.  incoming_Established takes  *)
(* the ackno of any packet in the window, in the order they arrive, so the *)
(* numbers may go back but must never run ahead.                           *)
AcksAreReceipts ==
    \A e \in Ends : Linked(e) =>
        LET c == stream[e]
            Offset(s) == SeqSub(s, c.initOur)
        IN  /\ Offset(c.outAcked) <= Offset(stream[Peer(e)].inAckno)
            /\ Offset(stream[Peer(e)].inAckno) <= Offset(c.outSeqno)

(* The bytes delivered to an application are consecutive bytes of what the *)
(* other application wrote: nothing twice, nothing left out, nothing out   *)
(* of order, for all the loss, repetition and reordering of packets that   *)
(* check_InPkts has to put right.                                          *)
NoGaps ==
    \A e \in Ends : \A i \in 1 .. Len(Delivered(e)) - 1 :
        Delivered(e)[i + 1] = Delivered(e)[i] + 1

(* No byte is forgotten: while two ends are linked, every byte written is  *)
(* delivered or still kept by the sender, which drops a packet from outPkt *)
(* on the word of an acknowledgement alone.                                *)
NothingForgotten ==
    \A e \in Ends :
        Linked(e) /\ StartedAtFirst(Peer(e)) =>
            1 .. written[e] \subseteq Range(Delivered(Peer(e))) \cup Kept(e)

(* No stray packets: what is delivered between two linked ends was written *)
(* to this stream, not to one closed before it whose packets were late.    *)
FromThisStream ==
    \A e \in Ends : Linked(e) =>
        \A b \in Range(Delivered(Peer(e))) : b > opens[e][Len(opens[e])]

(* A FIN is taken in its place: when end e holds its incoming stream for   *)
(* finished, the last byte delivered is the last the other end wrote, even *)
(* though the FIN carries no sequence number of its own.                   *)
EndOfStreamIsLast ==
    \A e \in Ends :
        /\ Linked(e)
        /\ stream[e].state \in {TCP_CLOSE_WAIT, TCP_CLOSING, TCP_LAST_ACK}
        /\ Delivered(e) # <<>>
        => Delivered(e)[Len(Delivered(e))] = written[Peer(e)]

(* Flow control: what waits to be read never exceeds the two windows after *)
(* which UpdateInWinSize shuts the window.                                 *)
BufferBounded == \A e \in Ends : Len(stream[e].outQueue) <= 2 * MaxWin

(* An opening ends: an end that has sent its SYN does not stay in SYN_SENT *)
(* for ever; it is answered, or it gives up after kMaxSynPktRetransmit.    *)
OpeningEnds ==
    \A e \in Ends :
        (stream[e].state = TCP_SYN_SENT) ~> (stream[e].state # TCP_SYN_SENT)

(* What is written arrives: once the applications have written all they    *)
(* will, the last byte is read at the other end although packets are lost, *)
(* unless one of the ends gives the stream up or the handshake made it     *)
(* start past its first byte (StartsAtFirst).                              *)
LastByteArrives ==
    \A e \in Writers :
        (written[e] = MaxBytes) ~>
            \/ MaxBytes \in Range(received[Peer(e)])
            \/ \E d \in Ends : stream[d].state = TCP_CLOSED
            \/ ~StartedAtFirst(Peer(e))

(* The bytes on their way to e: those received and not read yet, and those *)
(* kept by the other end or on the network that come after them.           *)
Pipe(e) ==
    LET from == Len(Delivered(e))
        sent == Kept(Peer(e)) \cup UNION {Range(p.data) : p \in net[e]}
    IN  Range(stream[e].outQueue)
            \cup {b \in sent : from > 0 => b > Delivered(e)[from]}

AsByteStream ==
    INSTANCE ByteStream WITH
        pipe <- [e \in Ends |-> Pipe(e)],
        begun <- [e \in Ends |-> Delivered(e) # <<>>],
        broken <- \E e \in Ends : opens[e] # <<>> /\ stream[e].state = TCP_CLOSED

(* The machinery of sequence numbers, windows, queues and retransmission   *)
(* implements a pipe of bytes: every step of the two streams and of a      *)
(* network that loses, repeats and reorders packets is a step of           *)
(* ByteStream under the mapping above, or changes nothing in it.           *)
ImplementsByteStream == AsByteStream!Spec

(* The first byte delivered is the first byte written.                     *)
StartsAtFirst ==
    \A e \in Ends : Delivered(e) # <<>> => Delivered(e)[1] = 1

(* send() determines exactly how much it can send: a tick that sends new   *)
(* data leaves no more in transit than both windows allow.                 *)
SendsWithinWindows ==
    [][\A e \in Ends :
         LET d == stream'[e]
             transit == SeqSub(d.outSeqno, d.outAcked)
         IN  /\ \E t \in Timeouts : Tick(e, t)
             /\ d.outSeqno # stream[e].outSeqno
             => transit <= d.outWin /\ transit <= d.congestWin]_vars
=============================================================================
