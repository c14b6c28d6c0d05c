---------------------------- MODULE MCTcpStream ----------------------------
(* TcpStream for TLC: the sequence numbers drawn, and the timers a run lets *)
(* a tick find run out.                                                     *)
EXTENDS TcpStream

Rollover == <<<<13>>, <<4>>>>
FromZero == <<<<0>>, <<8>>>>
TwoOpensEach == <<<<0, 16>>, <<8, 24>>>>

NoTimeouts == {Quiet}
Retransmits == {Quiet, [Quiet EXCEPT !.rto = TRUE]}
KeepAlive == Retransmits \cup {[Quiet EXCEPT !.idle = 2]}
AllTimeouts == Timers
=============================================================================
