----------------------------- MODULE ByteStream -----------------------------
(***************************************************************************)
(* What a TcpStream promises to the two applications that use it (the      *)
(* reader and writer of a pqistreamer): a pipe of bytes in each direction, *)
(* which come out in the order they went in, each once, none left out.     *)
(* Bytes are lost only before the stream has begun at its reader, and when *)
(* an end gives the stream up.                                             *)
(***************************************************************************)
EXTENDS Integers, Sequences, FiniteSets, FiniteSetsExt

CONSTANT Ends    \* the two ends

VARIABLES
    written,     \* written[e]: how many bytes the application of e has written
    received,    \* received[e]: the bytes the application of e has read
    pipe,        \* pipe[e]: the bytes on their way to e
    begun,       \* begun[e]: the stream to e has a first byte
    broken       \* an end has given the stream up

vars == <<written, received, pipe, begun, broken>>

Other(e) == CHOOSE d \in Ends : d # e

Init ==
    /\ written = [e \in Ends |-> 0]
    /\ received = [e \in Ends |-> <<>>]
    /\ pipe = [e \in Ends |-> {}]
    /\ begun = [e \in Ends |-> FALSE]
    /\ broken = FALSE

(* The bytes are named by their position in what their writer wrote. *)
Write(e) ==
    /\ written'[e] > written[e]
    /\ written' = [written EXCEPT ![e] = written'[e]]
    /\ pipe' = [pipe EXCEPT ![Other(e)] = @ \cup (written[e] + 1 .. written'[e])]
    /\ UNCHANGED <<received, begun, broken>>

NextByte(e) == IF received[e] = <<>> THEN Min(pipe[e]) ELSE received[e][Len(received[e])] + 1

(* The next n bytes, in their order. *)
Read(e, n) ==
    LET bytes == NextByte(e) .. NextByte(e) + n - 1
    IN /\ begun[e]
       /\ bytes \subseteq pipe[e]
       /\ received' = [received EXCEPT ![e] = @ \o [i \in 1 .. n |-> NextByte(e) + i - 1]]
       /\ pipe' = [pipe EXCEPT ![e] = @ \ bytes]
       /\ UNCHANGED <<written, begun, broken>>

(* The stream begins at e, or something is lost before it does. *)
Begin(e) ==
    /\ ~begun[e]
    /\ \E now \in BOOLEAN : begun' = [begun EXCEPT ![e] = now]
    /\ pipe'[e] \subseteq pipe[e] /\ pipe' = [pipe EXCEPT ![e] = pipe'[e]]
    /\ UNCHANGED <<written, received, broken>>

(* An end gives up, then or earlier: what is under way may be lost. *)
Break ==
    /\ broken'
    /\ \A e \in Ends : pipe'[e] \subseteq pipe[e]
    /\ begun' \in [Ends -> BOOLEAN]
    /\ UNCHANGED <<written, received>>

Next ==
    \/ \E e \in Ends : \/ Write(e) \/ Begin(e)
                       \/ \E n \in 1 .. Cardinality(pipe[e]) : Read(e, n)
    \/ Break

Spec == Init /\ [][Next]_vars
=============================================================================
