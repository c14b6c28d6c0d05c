------------------------------- MODULE SeqNo -------------------------------
(***************************************************************************)
(* 32 bit sequence numbers as TcpStream uses them: they roll over, and one *)
(* is "old" with respect to another when the signed difference of the two  *)
(* is negative.  SeqMod stands for 2^32.  No multiplication or remainder   *)
(* is used, so that every fact about these operators is linear arithmetic. *)
(***************************************************************************)
EXTENDS Integers

CONSTANT SeqMod

ASSUME SeqModAssumption == SeqMod \in Nat /\ SeqMod > 1

SeqNum == 0 .. SeqMod - 1

(* Mutant of SeqAdd: the sum does not roll over. *)
SeqAddUnbounded(s, n) == s + n

(* s + n, for an amount n smaller than the modulus. *)
SeqAdd(s, n) == IF s + n >= SeqMod THEN s + n - SeqMod ELSE s + n

(* The unsigned difference s - t. *)
SeqSub(s, t) == IF s >= t THEN s - t ELSE s - t + SeqMod

(* ((int)(tst - curr)) < 0 : the top bit of the unsigned difference is set. *)
IsOldSequence(tst, curr) == 2 * SeqSub(tst, curr) >= SeqMod
=============================================================================
