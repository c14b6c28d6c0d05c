--------------------------- MODULE GxsTunnelProofs ---------------------------
(* What GxsTunnel guarantees for any items, ways, requests, digs, keys and *)
(* events: data is delivered, once, under a key that both sides have.      *)
EXTENDS GxsTunnel, SequenceTheorems, FiniteSetTheorems, TLAPS

(***************************************************************************)
(* The inductive invariant                                                 *)
(***************************************************************************)

(* An acknowledgement is written and a print is kept when the item has     *)
(* been handed to the service, and so it was wherever they are now.        *)
AcksAreTrue ==
    \A s \in Sides :
        /\ \A b \in Range(pendingItems[s]) : b.kind = "ack" => delivered[b.item] > 0
        /\ \A v \in Vpids : \A x \in Range(wire[s][v]) :
              x.kind = "encrypted" /\ x.body.kind = "ack" => delivered[x.body.item] > 0
        /\ HasContact(s) => \A i \in contacts[s].prints : delivered[i] > 0

(* Data under way from a side is its own, and only flush puts it there.    *)
DataIsOwn ==
    \A s \in Sides :
        /\ \A b \in Range(pendingItems[s]) : b.kind # "data"
        /\ \A v \in Vpids : \A x \in Range(wire[s][v]) :
              x.kind = "encrypted" /\ x.body.kind = "data"
                  => x.body.item \in ItemsOf(s)

(* How often the service may have got the item i: once for each time its   *)
(* side forgot, and once more if the side has the print now.               *)
Printed(s, i) == IF HasContact(s) /\ i \in contacts[s].prints THEN 1 ELSE 0
DeliveriesCounted ==
    \A s \in Sides : \A i \in ItemsOf(s) :
        delivered[i] <= forgot[Other(s)] + Printed(Other(s), i)

(* What waits can be put in an order.                                      *)
FiniteData == \A s \in Sides : IsFiniteSet(pendingData[s])

(* A session that is done, and that the contact of s runs over.            *)
Done(s, v) == HasPeer(s, v) /\ virtualPeers[s][v].status = "key"
RunsOver(s, v) == HasContact(s) /\ contacts[s].vpid = v /\ Done(s, v)

(* The half of the key that is the side's own.                             *)
OwnHalf ==
    \A s \in Sides : \A v \in Vpids :
        /\ Done(s, v) => virtualPeers[s][v].dh # 0
        /\ RunsOver(s, v) => contacts[s].key[s] = virtualPeers[s][v].dh

(* No public key is in q; the last that is in it is pub.                   *)
NoKeyIn(q) == \A n \in 1 .. Len(q) : q[n].kind # "dh"
LastKeyIs(q, pub) ==
    \A n \in 1 .. Len(q) :
        q[n].kind = "dh" /\ (\A m \in 1 .. Len(q) : m > n => q[m].kind # "dh")
            => q[n].pub = pub

(* The other half: the last public key that a side sent over a virtual     *)
(* peer which lost nothing is the one it uses there; it waits, or is under *)
(* way, or the other side has it.                                          *)
HalfIsSent(s, v, dh) ==
    /\ pendingDH[s][v] # <<>> => pendingDH[s][v][Len(pendingDH[s][v])] = dh
    /\ pendingDH[s][v] = <<>> =>
          /\ LastKeyIs(wire[s][v], dh)
          /\ NoKeyIn(wire[s][v]) /\ RunsOver(Other(s), v)
                => contacts[Other(s)].key[s] = dh
OtherHalf ==
    \A s \in Sides : \A v \in Vpids \ lossy :
        HasPeer(s, v) /\ virtualPeers[s][v].dh # 0
            => HalfIsSent(s, v, virtualPeers[s][v].dh)

IInv ==
    /\ TypeOK
    /\ FiniteData
    /\ TalksUnderKey
    /\ AcksAreTrue /\ AckedIsDelivered
    /\ DataIsOwn /\ DeliveriesCounted
    /\ OwnHalf /\ OtherHalf

(***************************************************************************)
(* Sides, contacts and sequences                                           *)
(***************************************************************************)

LEMMA SidesDiffer ==
    ASSUME NEW s \in Sides
    PROVE  Other(s) \in Sides /\ Other(s) # s /\ Other(Other(s)) = s
BY DEF Sides, Other

LEMMA NoneIsNothing == None \notin Contact /\ None \notin VirtualPeer
BY DEF None, Contact, VirtualPeer

LEMMA NewOnes ==
    /\ NewPeer \in VirtualPeer
    /\ NewContact \in Contact
    /\ NoKey \notin Keys
<1>1. NewPeer \in VirtualPeer
  BY TunnelAssumption DEF NewPeer, VirtualPeer
<1>2. NewContact \in Contact
  BY TunnelAssumption DEF NewContact, Contact
<1>3. NoKey \notin Keys
  <2>1. NoKey["client"] = 0
    BY DEF NoKey, Sides
  <2>2. \A k \in Keys : k["client"] \in 1 .. MaxKeys
    BY DEF Keys, Sides
  <2>3. QED
    BY <2>1, <2>2
<1>4. QED
  BY <1>1, <1>2, <1>3

LEMMA RangeOfAppend ==
    ASSUME NEW S, NEW q \in Seq(S), NEW e \in S
    PROVE  /\ Append(q, e) \in Seq(S)
           /\ Range(Append(q, e)) = Range(q) \cup {e}
<1>1. <<e>> \in Seq(S) /\ Range(<<e>>) = {e}
  BY DEF Range
<1>2. Append(q, e) = q \o <<e>>
  BY AppendIsConcat
<1>3. Range(q \o <<e>>) = Range(q) \cup Range(<<e>>)
  BY ZenonT(60), <1>1, RangeConcatenation
<1>4. Append(q, e) \in Seq(S)
  BY AppendProperties
<1>5. QED
  BY <1>1, <1>2, <1>3, <1>4

LEMMA RangeOfTail ==
    ASSUME NEW S, NEW q \in Seq(S), q # <<>>
    PROVE  /\ Tail(q) \in Seq(S) /\ Range(Tail(q)) \subseteq Range(q)
           /\ Head(q) \in S /\ Head(q) \in Range(q)
BY DEF Range

LEMMA IndexInRange ==
    ASSUME NEW S, NEW q \in Seq(S), NEW x \in Range(q)
    PROVE  \E n \in 1 .. Len(q) : q[n] = x
BY DEF Range

(* What waits, in some order: all of it is of the set. *)
LEMMA OrderOfSet ==
    ASSUME NEW S, IsFiniteSet(S)
    PROVE  SetToSeq(S) \in Seq(S) /\ Range(SetToSeq(S)) \subseteq S
<1>1. Cardinality(S) \in Nat /\ ExistsBijection(1 .. Cardinality(S), S)
  BY FS_CardinalityType
<1>2. PICK g \in [1 .. Cardinality(S) -> S] : IsInjective(g)
  BY <1>1, Zenon DEF ExistsBijection, Bijection, Injection
<1>3. SetToSeq(S) \in [1 .. Cardinality(S) -> S]
  BY <1>2, Zenon DEF SetToSeq
<1>4. QED
  BY <1>1, <1>3 DEF Range

(* What an item holds, by its kind. *)
LEMMA ItemTypes ==
    /\ \A n \in 1 .. MaxDigs : [kind |-> "open", n |-> n] \in Item
                               /\ [kind |-> "ok", n |-> n] \in Item
    /\ \A k \in 1 .. MaxKeys : [kind |-> "dh", pub |-> k] \in Item
    /\ \A k \in Keys, b \in Body :
          [kind |-> "encrypted", key |-> k, body |-> b] \in Item
    /\ \A x \in Item :
          /\ x.kind \in {"open", "ok"} => x.n \in 1 .. MaxDigs
          /\ x.kind = "dh" => x.pub \in 1 .. MaxKeys
          /\ x.kind = "encrypted" => x.key \in Keys /\ x.body \in Body
BY DEF Item

LEMMA BodyTypes ==
    /\ Hello \in Body /\ [kind |-> "closing"] \in Body
    /\ \A i \in Items : [kind |-> "ack", item |-> i] \in Body /\ [kind |-> "data", item |-> i] \in Body
    /\ \A b \in Body : b.kind \in {"data", "ack"} => b.item \in Items
BY DEF Body, Hello

Wires == [Sides -> [Vpids -> Seq(Item)]]

LEMMA SentType ==
    ASSUME NEW w \in Wires, NEW s \in Sides, NEW v, NEW items \in Seq(Item)
    PROVE  Sent(w, s, v, items) \in Wires
<1>1. ASSUME v \in Vpids
      PROVE  w[s][v] \o items \in Seq(Item)
  BY <1>1, ConcatProperties DEF Wires
<1>2. QED
  BY <1>1 DEF Sent, HasPeer, Wires

LEMMA TakenType ==
    ASSUME wire \in Wires, NEW s \in Sides, NEW v \in Vpids,
           NEW kind, Arrives(s, v, kind)
    PROVE  /\ Taken(s, v) \in Wires
           /\ Received(s, v) \in Item /\ Received(s, v).kind = kind
           /\ Received(s, v) \in Range(wire[Other(s)][v])
<1>1. wire[Other(s)][v] \in Seq(Item) /\ wire[Other(s)][v] # <<>>
  BY SidesDiffer DEF Wires, Arrives
<1>2. Tail(wire[Other(s)][v]) \in Seq(Item)
  BY <1>1, RangeOfTail
<1>3. QED
  BY <1>1, <1>2, RangeOfTail, SidesDiffer DEF Taken, Received, Arrives, Wires

LEMMA PublicKeysType ==
    ASSUME NEW pubs \in Seq(1 .. MaxKeys)
    PROVE  /\ PublicKeys(pubs) \in Seq(Item)
           /\ Len(PublicKeys(pubs)) = Len(pubs)
           /\ \A n \in 1 .. Len(pubs) :
                 PublicKeys(pubs)[n] = [kind |-> "dh", pub |-> pubs[n]]
<1>1. \A n \in 1 .. Len(pubs) : [kind |-> "dh", pub |-> pubs[n]] \in Item
  BY ItemTypes, ElementOfSeq
<1>2. QED
  BY <1>1 DEF PublicKeys

LEMMA EncryptedType ==
    ASSUME NEW c, c.key \in Keys, NEW bodies \in Seq(Body)
    PROVE  /\ Encrypted(c, bodies) \in Seq(Item)
           /\ Len(Encrypted(c, bodies)) = Len(bodies)
           /\ \A n \in 1 .. Len(bodies) : Encrypted(c, bodies)[n] =
                 [kind |-> "encrypted", key |-> c.key, body |-> bodies[n]]
<1>1. \A n \in 1 .. Len(bodies) :
          [kind |-> "encrypted", key |-> c.key, body |-> bodies[n]] \in Item
  BY ItemTypes, ElementOfSeq
<1>2. QED
  BY <1>1 DEF Encrypted

(* The items that flush adds, in some order.                               *)
DataBodies(data) == [i \in DOMAIN data |-> [kind |-> "data", item |-> data[i]]]

LEMMA DataBodiesType ==
    ASSUME NEW data \in Seq(Items)
    PROVE  /\ DataBodies(data) \in Seq(Body)
           /\ Len(DataBodies(data)) = Len(data)
           /\ \A n \in 1 .. Len(data) :
                 DataBodies(data)[n] = [kind |-> "data", item |-> data[n]]
<1>1. \A n \in 1 .. Len(data) : [kind |-> "data", item |-> data[n]] \in Body
  BY BodyTypes, ElementOfSeq
<1>2. QED
  BY <1>1 DEF DataBodies

LEMMA DHSentType ==
    ASSUME TypeOK, NEW s \in Sides
    PROVE  DHSent(s) \in Wires
<1>1. \A v \in Vpids : wire[s][v] \o PublicKeys(pendingDH[s][v]) \in Seq(Item)
  BY PublicKeysType, ConcatProperties DEF TypeOK
<1>2. QED
  BY <1>1 DEF DHSent, TypeOK, Wires

(***************************************************************************)
(* Types                                                                   *)
(***************************************************************************)

LEMMA TypeInit == Init => TypeOK
<1> SUFFICES ASSUME Init PROVE TypeOK
  OBVIOUS
<1>1. /\ digs \in 0 .. MaxDigs
      /\ keys \in [Sides -> 0 .. MaxKeys]
      /\ hashes \in [Hashes -> [state : {"unknown", "monitored", "leaving", "gone"},
                                request : 0 .. MaxDigs]]
  BY TunnelAssumption DEF Init
<1>2. /\ pendingDH \in [Sides -> [Vpids -> Seq(1 .. MaxKeys)]]
      /\ pendingItems \in [Sides -> Seq(Body)]
      /\ wire \in [Sides -> [Vpids -> Seq(Item)]]
  BY DEF Init
<1>3. QED
  BY <1>1, <1>2 DEF Init, TypeOK

(* The AES key of a session, as the two halves it is made of.              *)
LEMMA SharedType ==
    ASSUME NEW s \in Sides, NEW v, NEW own \in 1 .. MaxKeys, NEW pub \in 1 .. MaxKeys
    PROVE  /\ Shared(s, v, own, pub) \in Keys
           /\ Shared(s, v, own, pub)[s] = own
           /\ Shared(s, v, own, pub)[Other(s)] = pub
<1>1. NoKey \in [Sides -> 0 .. 0]
  BY DEF NoKey
<1>2. CASE s = "client"
  BY <1>1, <1>2 DEF Shared, Keys, Sides, Other
<1>3. CASE s = "server"
  BY <1>1, <1>3 DEF Shared, Keys, Sides, Other
<1>4. QED
  BY <1>2, <1>3 DEF Sides

(* A session that begins anew, for a virtual peer that is or is not known. *)
LEMMA RestartType ==
    ASSUME TypeOK, NEW s \in Sides, NEW v \in Vpids, NEW p \in VirtualPeer,
           RestartDH(s, v, p)
    PROVE  /\ keys' \in [Sides -> 0 .. MaxKeys]
           /\ NewKey(s) \in 1 .. MaxKeys
           /\ virtualPeers' \in [Sides -> [Vpids -> VirtualPeer \cup {None}]]
           /\ pendingDH' \in [Sides -> [Vpids -> Seq(1 .. MaxKeys)]]
<1>1. /\ NewKey(s) \in 1 .. MaxKeys /\ NewKey(s) \in 0 .. MaxKeys
      /\ keys' \in [Sides -> 0 .. MaxKeys]
  BY TunnelAssumption DEF RestartDH, KeyUsed, NewKey, TypeOK
<1>2. [p EXCEPT !.dh = NewKey(s), !.status = "half"] \in VirtualPeer
  BY <1>1 DEF VirtualPeer
<1>3. Append(pendingDH[s][v], NewKey(s)) \in Seq(1 .. MaxKeys)
  BY <1>1, AppendProperties DEF TypeOK
<1>4. QED
  BY <1>1, <1>2, <1>3 DEF RestartDH, TypeOK

LEMMA ContactUpdates ==
    ASSUME NEW c \in Contact, NEW status \in {"down", "talk", "closed"}
    PROVE  /\ [c EXCEPT !.status = status] \in Contact
           /\ \A v \in Vpids \cup {NoVpid} :
                 [c EXCEPT !.status = status, !.vpid = v] \in Contact
           /\ \A v \in Vpids \cup {NoVpid}, key \in Keys \cup {NoKey} :
                 [c EXCEPT !.status = status, !.vpid = v, !.key = key] \in Contact
           /\ \A prints \in SUBSET Items :
                 /\ [c EXCEPT !.prints = prints] \in Contact
                 /\ [c EXCEPT !.status = status, !.user = TRUE, !.prints = prints] \in Contact
BY DEF Contact

(* A contact whose tunnel is gone keeps its prints. *)
LEMMA ContactDown ==
    ASSUME NEW c \in Contact
    PROVE  LET d == [c EXCEPT !.status = "down", !.vpid = NoVpid]
           IN d \in Contact /\ d.prints = c.prints
<1>1. [c EXCEPT !.status = "down", !.vpid = NoVpid] \in Contact
  BY ContactUpdates
<1>2. [c EXCEPT !.status = "down", !.vpid = NoVpid].prints = c.prints
  BY DEF Contact
<1>3. QED
  BY <1>1, <1>2

LEMMA RemovePeersType ==
    ASSUME TypeOK, NEW s \in Sides, NEW peers, RemovePeers(s, peers)
    PROVE  /\ contacts' \in [Sides -> Contact \cup {None}]
           /\ virtualPeers' \in [Sides -> [Vpids -> VirtualPeer \cup {None}]]
<1>1. HasContact(s) =>
          [contacts[s] EXCEPT !.status = "down", !.vpid = NoVpid] \in Contact
  BY ContactUpdates DEF TypeOK, HasContact
<1>2. QED
  BY <1>1 DEF RemovePeers, TypeOK, HasContact

LEMMA HappensType ==
    ASSUME TypeOK, NEW event, Happens(event)
    PROVE  events' \subseteq Events
BY DEF TypeOK, Happens

LEMMA TypeStep == TypeOK /\ FiniteData /\ TalksUnderKey /\ [Next]_vars => TypeOK'
<1> SUFFICES ASSUME TypeOK, FiniteData, TalksUnderKey, [Next]_vars PROVE TypeOK'
  OBVIOUS
<1> USE DEF vars, router, exchange, queues, history
<1>1. CASE Request
  <2>1. PICK h \in Hashes :
           /\ contacts' = [contacts EXCEPT !["client"] =
                              [NewContact EXCEPT !.hash = h, !.user = TRUE]]
           /\ hashes' = [hashes EXCEPT ![h].state = "monitored"]
    BY <1>1 DEF Request
  <2>2. h \in 0 .. MaxRequests
    BY DEF Hashes
  <2>3. [NewContact EXCEPT !.hash = h, !.user = TRUE] \in Contact
    BY <2>2, NewOnes DEF Contact
  <2>4. contacts' \in [Sides -> Contact \cup {None}]
    BY <2>1, <2>3 DEF TypeOK
  <2>5. hashes' \in [Hashes -> [state : {"unknown", "monitored", "leaving", "gone"},
                                request : 0 .. MaxDigs]]
    BY <2>1 DEF TypeOK
  <2>6. QED
    BY <1>1, <2>4, <2>5 DEF Request, TypeOK
<1>2. ASSUME NEW v \in Vpids, Dig(v) PROVE TypeOK'
  <2>1. digs' \in 1 .. MaxDigs /\ HashOf(v) \in Hashes
    BY <1>2, TunnelAssumption DEF Dig, TypeOK, Vpids, HashOf
  <2>2. Append(wire["client"][v], [kind |-> "open", n |-> digs']) \in Seq(Item)
    BY <2>1, ItemTypes, AppendProperties DEF TypeOK, Sides
  <2>3. wire' \in [Sides -> [Vpids -> Seq(Item)]]
    BY <1>2, <2>2 DEF Dig, TypeOK, Sides
  <2>4. QED
    BY <1>2, <2>1, <2>3 DEF Dig, TypeOK
<1>3. ASSUME NEW v \in Vpids, RecvOpen(v) PROVE TypeOK'
  <2> DEFINE ok == [kind |-> "ok", n |-> Received("server", v).n]
  <2>1. /\ Taken("server", v) \in Wires
        /\ ok \in Item
    BY <1>3, TakenType, ItemTypes DEF RecvOpen, TypeOK, Wires, Sides
  <2>2. Append(Taken("server", v)["server"][v], ok) \in Seq(Item)
    BY <2>1, AppendProperties DEF Wires, Sides
  <2>3. wire' \in [Sides -> [Vpids -> Seq(Item)]]
    BY <1>3, <2>1, <2>2 DEF RecvOpen, Wires
  <2>4. /\ keys' \in [Sides -> 0 .. MaxKeys]
        /\ virtualPeers' \in [Sides -> [Vpids -> VirtualPeer \cup {None}]]
        /\ pendingDH' \in [Sides -> [Vpids -> Seq(1 .. MaxKeys)]]
    BY <1>3, RestartType, NewOnes DEF RecvOpen, Sides
  <2>5. QED
    BY <1>3, <2>3, <2>4 DEF RecvOpen, TypeOK
<1>4. ASSUME NEW v \in Vpids, RecvOk(v) PROVE TypeOK'
  <2>1. wire' \in [Sides -> [Vpids -> Seq(Item)]]
    BY <1>4, TakenType DEF RecvOk, TypeOK, Wires, Sides
  <2>2. /\ keys' \in [Sides -> 0 .. MaxKeys]
        /\ virtualPeers' \in [Sides -> [Vpids -> VirtualPeer \cup {None}]]
        /\ pendingDH' \in [Sides -> [Vpids -> Seq(1 .. MaxKeys)]]
    <3>1. CASE RestartDH("client", v, NewPeer)
      BY <3>1, RestartType, NewOnes DEF Sides
    <3>2. CASE UNCHANGED <<pendingDH, keys>>
               /\ virtualPeers' = [virtualPeers EXCEPT !["client"][v] = NewPeer]
      BY <3>2, NewOnes DEF TypeOK
    <3>3. CASE UNCHANGED <<virtualPeers, pendingDH, keys>>
      BY <3>3 DEF TypeOK
    <3>4. QED
      BY <1>4, <3>1, <3>2, <3>3 DEF RecvOk
  <2>3. QED
    BY <1>4, <2>1, <2>2 DEF RecvOk, TypeOK
<1>5. ASSUME NEW v \in Vpids, Lose(v) PROVE TypeOK'
  <2>1. wire' \in [Sides -> [Vpids -> Seq(Item)]]
    BY <1>5 DEF Lose, TypeOK
  <2>2. QED
    BY <1>5, <2>1, HappensType DEF Lose, TypeOK
<1>6. ASSUME NEW h \in Hashes, HashDies(h) PROVE TypeOK'
  <2>1. /\ contacts' \in [Sides -> Contact \cup {None}]
        /\ virtualPeers' \in [Sides -> [Vpids -> VirtualPeer \cup {None}]]
    BY <1>6, RemovePeersType DEF HashDies, Sides
  <2>2. QED
    BY <1>6, <2>1 DEF HashDies, TypeOK
<1>7. ASSUME NEW s \in Sides, NEW i \in Items, SendData(s, i) PROVE TypeOK'
  BY <1>7 DEF SendData, TypeOK
<1>8. ASSUME NEW s \in Sides, NEW again \in SUBSET pendingData[s], Flush(s, again)
      PROVE  TypeOK'
  <2> DEFINE data == SetToSeq(unsent[s] \cup again)
             bodies == pendingItems[s] \o DataBodies(data)
             items == Encrypted(contacts[s], bodies)
  <2>1. DHSent(s) \in Wires
    BY DHSentType
  <2>2. data \in Seq(Items)
    <3>1. IsFiniteSet(unsent[s] \cup again) /\ unsent[s] \cup again \subseteq Items
      BY FS_Subset DEF TypeOK, FiniteData
    <3>2. QED
      BY <3>1, OrderOfSet, SeqMonotonic
  <2>3. CASE CanTalk(s)
    <3>1. bodies \in Seq(Body)
      BY <2>2, DataBodiesType, ConcatProperties DEF TypeOK
    <3>2. contacts[s].key \in Keys
      BY <2>3 DEF TypeOK, TalksUnderKey, CanTalk, HasContact, Contact
    <3>3. items \in Seq(Item)
      BY <3>1, <3>2, EncryptedType
    <3>4. wire' \in [Sides -> [Vpids -> Seq(Item)]]
      <4>1. wire' = Sent(DHSent(s), s, contacts[s].vpid, items)
        BY <1>8, <2>3 DEF Flush, DataBodies
      <4>2. QED
        BY <2>1, <3>3, <4>1, SentType DEF Wires
    <3>5. pendingItems' \in [Sides -> Seq(Body)] /\ unsent' \in [Sides -> SUBSET Items]
          /\ \A t \in Sides : unsent'[t] \subseteq unsent[t]
      <4>1. /\ pendingItems' = [pendingItems EXCEPT ![s] = <<>>]
            /\ unsent' = [unsent EXCEPT ![s] = {}]
        BY <1>8, <2>3 DEF Flush
      <4>2. QED
        BY <4>1 DEF TypeOK
    <3>6. events' \subseteq Events /\ pendingDH' \in [Sides -> [Vpids -> Seq(1 .. MaxKeys)]]
      BY <1>8, HappensType DEF Flush, TypeOK
    <3>7. QED
      BY <1>8, <3>4, <3>5, <3>6 DEF Flush, TypeOK
  <2>4. CASE ~CanTalk(s)
    <3>1. wire' = DHSent(s) /\ UNCHANGED <<pendingItems, unsent>>
      BY <1>8, <2>4 DEF Flush
    <3>2. events' \subseteq Events /\ pendingDH' \in [Sides -> [Vpids -> Seq(1 .. MaxKeys)]]
      BY <1>8, HappensType DEF Flush, TypeOK
    <3>3. QED
      BY <1>8, <2>1, <3>1, <3>2 DEF Flush, TypeOK, Wires
  <2>5. QED
    BY <2>3, <2>4
<1>9. ASSUME NEW s \in Sides, Close(s) PROVE TypeOK'
  <2> DEFINE item == [kind |-> "encrypted", key |-> contacts[s].key,
                      body |-> [kind |-> "closing"]]
  <2>1. wire' \in Wires
    <3>1. CASE contacts[s].status = "talk"
      <4>1. contacts[s].key \in Keys
        BY <1>9, <3>1 DEF Close, TypeOK, TalksUnderKey, CanTalk, HasContact, Contact
      <4>2. <<item>> \in Seq(Item)
        BY <4>1, ItemTypes, BodyTypes
      <4>3. wire' = Sent(wire, s, contacts[s].vpid, <<item>>)
        BY <1>9, <3>1 DEF Close
      <4>4. QED
        BY <4>2, <4>3, SentType DEF TypeOK, Wires
    <3>2. CASE contacts[s].status # "talk"
      BY <1>9, <3>2 DEF Close, TypeOK, Wires
    <3>3. QED
      BY <3>1, <3>2
  <2>2. hashes' \in [Hashes -> [state : {"unknown", "monitored", "leaving", "gone"},
                                request : 0 .. MaxDigs]]
    <3>1. \/ hashes' = hashes
          \/ \E h \in Hashes : hashes' = [hashes EXCEPT ![h].state = "leaving"]
      BY <1>9, Zenon DEF Close
    <3>2. QED
      BY <3>1 DEF TypeOK
  <2>3. contacts' \in [Sides -> Contact \cup {None}] /\ forgot' \in [Sides -> Nat]
    BY <1>9 DEF Close, TypeOK
  <2>4. QED
    BY <1>9, <2>1, <2>2, <2>3, HappensType DEF Close, TypeOK, Wires
<1>10. ASSUME NEW s \in Sides, Forget(s) PROVE TypeOK'
  BY <1>10 DEF Forget, TypeOK
<1>11. ASSUME NEW s \in Sides, Silence(s) PROVE TypeOK'
  <2>1. contacts' \in [Sides -> Contact \cup {None}]
    BY <1>11, ContactUpdates DEF Silence, CanTalk, HasContact, TypeOK
  <2>2. QED
    BY <1>11, <2>1, HappensType DEF Silence, TypeOK
<1>12. ASSUME NEW s \in Sides, KeepAlive(s) PROVE TypeOK'
  <2>1. pendingItems' \in [Sides -> Seq(Body)]
    BY <1>12, BodyTypes, AppendProperties DEF KeepAlive, TypeOK
  <2>2. QED
    BY <1>12, <2>1, HappensType DEF KeepAlive, TypeOK
<1>13. ASSUME NEW s \in Sides, OldPrints(s) PROVE TypeOK'
  <2>1. contacts' \in [Sides -> Contact \cup {None}]
    BY <1>13, ContactUpdates DEF OldPrints, HasContact, TypeOK
  <2>2. QED
    BY <1>13, <2>1, HappensType DEF OldPrints, TypeOK
<1>14. ASSUME NEW s \in Sides, NEW v \in Vpids, TunnelDies(s, v) PROVE TypeOK'
  <2>1. /\ contacts' \in [Sides -> Contact \cup {None}]
        /\ virtualPeers' \in [Sides -> [Vpids -> VirtualPeer \cup {None}]]
    BY <1>14, RemovePeersType DEF TunnelDies
  <2>2. QED
    BY <1>14, <2>1, HappensType DEF TunnelDies, TypeOK
<1>15. ASSUME NEW s \in Sides, NEW v \in Vpids, RecvDH(s, v) PROVE TypeOK'
  <2>1. wire' \in Wires /\ Received(s, v).pub \in 1 .. MaxKeys
    BY <1>15, TakenType, ItemTypes DEF RecvDH, TypeOK, Wires
  <2>2. CASE ~Expects(s, v)
    BY <1>15, <2>1, <2>2 DEF RecvDH, TypeOK, Wires
  <2>3. CASE Expects(s, v)
    <3> DEFINE again == virtualPeers[s][v].status = "key"
               k == IF again THEN NewKey(s) ELSE virtualPeers[s][v].dh
               key == Shared(s, v, k, Received(s, v).pub)
    <3>1. k \in 1 .. MaxKeys /\ keys' \in [Sides -> 0 .. MaxKeys]
          /\ pendingDH' \in [Sides -> [Vpids -> Seq(1 .. MaxKeys)]]
      <4>1. CASE again
        <5>1. NewKey(s) \in 1 .. MaxKeys /\ NewKey(s) \in 0 .. MaxKeys
          BY <1>15, <2>3, <4>1, TunnelAssumption DEF RecvDH, KeyUsed, NewKey, TypeOK
        <5>2. Append(pendingDH[s][v], NewKey(s)) \in Seq(1 .. MaxKeys)
          BY <5>1, AppendProperties DEF TypeOK
        <5>3. /\ keys' = [keys EXCEPT ![s] = keys[s] + 1]
              /\ pendingDH' = [pendingDH EXCEPT ![s][v] = Append(pendingDH[s][v], NewKey(s))]
          BY <1>15, <2>3, <4>1 DEF RecvDH, KeyUsed
        <5>4. keys[s] + 1 \in 0 .. MaxKeys
          BY <5>1 DEF NewKey
        <5>5. QED
          BY <4>1, <5>1, <5>2, <5>3, <5>4 DEF TypeOK
      <4>2. CASE ~again
        <5>1. virtualPeers[s][v] \in VirtualPeer
          BY <2>3 DEF Expects, HasPeer, TypeOK
        <5>2. QED
          BY <1>15, <2>3, <4>2, <5>1 DEF RecvDH, Expects, VirtualPeer, TypeOK
      <4>3. QED
        BY <4>1, <4>2
    <3> HIDE DEF k
    <3>2. virtualPeers' \in [Sides -> [Vpids -> VirtualPeer \cup {None}]]
      <4>1. k \in 0 .. MaxKeys
        BY <3>1
      <4>2. [dh |-> k, status |-> "key", linked |-> TRUE] \in VirtualPeer
        BY <4>1 DEF VirtualPeer
      <4>3. virtualPeers' = [virtualPeers EXCEPT ![s][v] =
                [dh |-> k, status |-> "key", linked |-> TRUE]]
        BY <1>15, <2>3 DEF RecvDH, k
      <4>4. QED
        BY <4>2, <4>3 DEF TypeOK
    <3>3. key \in Keys
      BY <2>1, <3>1, SharedType
    <3>4. contacts' \in [Sides -> Contact \cup {None}]
      <4>1. ContactOf(s) \in Contact
        BY NewOnes DEF ContactOf, HasContact, TypeOK
      <4>2. [ContactOf(s) EXCEPT !.status = "talk", !.vpid = v, !.key = key] \in Contact
        BY <3>3, <4>1, ContactUpdates
      <4>3. contacts' = [contacts EXCEPT ![s] =
                [ContactOf(s) EXCEPT !.status = "talk", !.vpid = v, !.key = key]]
        BY <1>15, <2>3 DEF RecvDH, k
      <4>4. QED
        BY <4>2, <4>3 DEF TypeOK
    <3>5. pendingItems' \in [Sides -> Seq(Body)]
      <4>1. Append(pendingItems[s], Hello) \in Seq(Body)
        BY BodyTypes, AppendProperties DEF TypeOK
      <4>2. pendingItems' = [pendingItems EXCEPT ![s] = Append(pendingItems[s], Hello)]
        BY <1>15, <2>3 DEF RecvDH
      <4>3. QED
        BY <4>1, <4>2 DEF TypeOK
    <3>6. QED
      BY <1>15, <2>1, <3>1, <3>2, <3>4, <3>5 DEF RecvDH, TypeOK, Wires
  <2>4. QED
    BY <2>2, <2>3
<1>16. ASSUME NEW s \in Sides, NEW v \in Vpids, RecvUnknown(s, v) PROVE TypeOK'
  BY <1>16, TakenType DEF RecvUnknown, TypeOK, Wires
<1>17. ASSUME NEW s \in Sides, NEW v \in Vpids, RecvUnverified(s, v) PROVE TypeOK'
  <2>1. wire' \in Wires
    BY <1>17, TakenType DEF RecvUnverified, TypeOK, Wires
  <2>2. virtualPeers[s][v] \in VirtualPeer
    BY <1>17 DEF RecvUnverified, Known, HasPeer, TypeOK
  <2>3. /\ keys' \in [Sides -> 0 .. MaxKeys]
        /\ virtualPeers' \in [Sides -> [Vpids -> VirtualPeer \cup {None}]]
        /\ pendingDH' \in [Sides -> [Vpids -> Seq(1 .. MaxKeys)]]
    BY <1>17, <2>2, RestartType DEF RecvUnverified
  <2>4. QED
    BY <1>17, <2>1, <2>3 DEF RecvUnverified, TypeOK, Wires
<1>18. ASSUME NEW s \in Sides, NEW v \in Vpids, RecvVerified(s, v) PROVE TypeOK'
  <2> DEFINE b == Received(s, v).body
  <2>1. wire' \in Wires /\ b \in Body
    BY <1>18, TakenType, ItemTypes DEF RecvVerified, TypeOK, Wires
  <2>2. contacts[s] \in Contact
    BY <1>18 DEF RecvVerified, Known, HasContact, TypeOK
  <2> HIDE DEF b
  <2>3. CASE b.kind = "data"
    <3>1. b.item \in Items /\ [kind |-> "ack", item |-> b.item] \in Body
      BY <2>1, <2>3, BodyTypes
    <3>2. Append(pendingItems[s], [kind |-> "ack", item |-> b.item]) \in Seq(Body)
      BY <3>1, AppendProperties DEF TypeOK
    <3>3. contacts[s].prints \cup {b.item} \in SUBSET Items
      BY <2>2, <3>1 DEF Contact
    <3>4. [contacts[s] EXCEPT !.status = "talk", !.user = TRUE,
                              !.prints = contacts[s].prints \cup {b.item}] \in Contact
      BY <2>2, <3>3, ContactUpdates
    <3>5. contacts' \in [Sides -> Contact \cup {None}]
      <4>1. contacts' = [contacts EXCEPT ![s] =
                [contacts[s] EXCEPT !.status = "talk", !.user = TRUE,
                                    !.prints = contacts[s].prints \cup {b.item}]]
        BY <1>18, <2>3 DEF RecvVerified, b
      <4>2. QED
        BY <3>4, <4>1 DEF TypeOK
    <3>6. pendingItems' \in [Sides -> Seq(Body)] /\ delivered' \in [Items -> Nat]
      <4>1. pendingItems' = [pendingItems EXCEPT ![s] =
                                Append(pendingItems[s], [kind |-> "ack", item |-> b.item])]
        BY <1>18, <2>3 DEF RecvVerified, b
      <4>2. pendingItems' \in [Sides -> Seq(Body)]
        BY <3>2, <4>1, Zenon DEF TypeOK
      <4>3. \/ delivered' = delivered
            \/ delivered' = [delivered EXCEPT ![b.item] = delivered[b.item] + 1]
        BY <1>18, <2>3 DEF RecvVerified, b
      <4>4. delivered' \in [Items -> Nat]
        <5>1. delivered \in [Items -> Nat]
          BY DEF TypeOK
        <5>2. QED
          BY <4>3, <5>1
      <4>5. QED
        BY <4>2, <4>4
    <3>7. QED
      BY <1>18, <2>1, <2>3, <3>5, <3>6 DEF RecvVerified, TypeOK, Wires, b
  <2>4. CASE b.kind = "ack"
    <3>1. contacts' \in [Sides -> Contact \cup {None}]
      BY <1>18, <2>2, <2>4, ContactUpdates DEF RecvVerified, TypeOK, b
    <3>2. QED
      <4>1. /\ pendingData' = [pendingData EXCEPT ![s] = pendingData[s] \ {b.item}]
            /\ unsent' = [unsent EXCEPT ![s] = unsent[s] \ {b.item}]
            /\ UNCHANGED <<pendingItems, delivered>>
        BY <1>18, <2>4 DEF RecvVerified, b
      <4>2. /\ pendingData' \in [Sides -> SUBSET Items]
            /\ unsent' \in [Sides -> SUBSET Items]
            /\ \A t \in Sides : unsent'[t] \subseteq pendingData'[t]
                                 /\ pendingData'[t] \subseteq ItemsOf(t)
        BY <4>1 DEF TypeOK
      <4>3. QED
        BY <1>18, <2>1, <3>1, <4>1, <4>2 DEF RecvVerified, TypeOK, Wires
  <2>5. CASE b.kind \notin {"data", "ack"}
    <3>1. contacts' \in [Sides -> Contact \cup {None}]
      BY <1>18, <2>2, <2>5, ContactUpdates DEF RecvVerified, TypeOK, b
    <3>2. QED
      BY <1>18, <2>1, <2>5, <3>1 DEF RecvVerified, TypeOK, Wires, b
  <2>6. QED
    BY <2>3, <2>4, <2>5
<1>19. CASE UNCHANGED vars
  BY <1>19 DEF TypeOK
<1>20. QED
  BY <1>1, <1>2, <1>3, <1>4, <1>5, <1>6, <1>7, <1>8, <1>9, <1>10, <1>11, <1>12,
     <1>13, <1>14, <1>15, <1>16, <1>17, <1>18, <1>19 DEF Next

(***************************************************************************)
(* What comes to be under way                                              *)
(***************************************************************************)

LEMMA RangeOfSent ==
    ASSUME NEW w \in Wires, NEW s \in Sides, NEW v, NEW items \in Seq(Item),
           NEW t \in Sides, NEW u \in Vpids
    PROVE  /\ Range(Sent(w, s, v, items)[t][u]) \subseteq Range(w[t][u]) \cup Range(items)
           /\ t # s => Sent(w, s, v, items)[t][u] = w[t][u]
<1>1. Range(w[t][u] \o items) = Range(w[t][u]) \cup Range(items)
  BY RangeConcatenation DEF Wires
<1>2. QED
  BY <1>1 DEF Sent, HasPeer, Wires

LEMMA RangeOfTaken ==
    ASSUME wire \in Wires, NEW s \in Sides, NEW v \in Vpids, NEW kind,
           Arrives(s, v, kind), NEW t \in Sides, NEW u \in Vpids
    PROVE  Range(Taken(s, v)[t][u]) \subseteq Range(wire[t][u])
<1>1. wire[Other(s)][v] \in Seq(Item) /\ wire[Other(s)][v] # <<>>
  BY SidesDiffer DEF Wires, Arrives
<1>2. Range(Tail(wire[Other(s)][v])) \subseteq Range(wire[Other(s)][v])
  BY <1>1, RangeOfTail
<1>3. QED
  BY <1>2, SidesDiffer DEF Taken, Wires

LEMMA RangeOfDHSent ==
    ASSUME TypeOK, NEW s \in Sides, NEW t \in Sides, NEW u \in Vpids,
           NEW x \in Range(DHSent(s)[t][u])
    PROVE  x \in Range(wire[t][u]) \/ x.kind = "dh"
<1> DEFINE pubs == pendingDH[s][u]
<1>1. /\ PublicKeys(pubs) \in Seq(Item)
      /\ \A y \in Range(PublicKeys(pubs)) : y.kind = "dh"
  <2>1. pubs \in Seq(1 .. MaxKeys)
    BY DEF TypeOK
  <2>2. /\ PublicKeys(pubs) \in Seq(Item)
        /\ Len(PublicKeys(pubs)) = Len(pubs)
        /\ \A n \in 1 .. Len(pubs) :
              PublicKeys(pubs)[n] = [kind |-> "dh", pub |-> pubs[n]]
    BY <2>1, PublicKeysType
  <2>3. ASSUME NEW y \in Range(PublicKeys(pubs)) PROVE y.kind = "dh"
    <3>1. PICK n \in 1 .. Len(pubs) : PublicKeys(pubs)[n] = y
      BY <2>2, IndexInRange
    <3>2. y = [kind |-> "dh", pub |-> pubs[n]]
      BY <2>2, <3>1, Zenon
    <3>3. QED
      BY <3>2
  <2>4. QED
    BY <2>2, <2>3
<1>2. Range(wire[s][u] \o PublicKeys(pubs)) = Range(wire[s][u]) \cup Range(PublicKeys(pubs))
  BY <1>1, RangeConcatenation DEF TypeOK
<1>3. DHSent(s)[t][u] \in {wire[t][u], wire[s][u] \o PublicKeys(pubs)}
      /\ (t # s => DHSent(s)[t][u] = wire[t][u])
  BY DEF DHSent, TypeOK
<1>4. QED
  BY <1>1, <1>2, <1>3

(* What flush sends of the contact: what waited and the data.              *)
FlushBodies(s, again) ==
    pendingItems[s] \o DataBodies(SetToSeq(unsent[s] \cup again))

LEMMA FlushBodiesType ==
    ASSUME TypeOK, FiniteData, NEW s \in Sides, NEW again \in SUBSET pendingData[s]
    PROVE  /\ FlushBodies(s, again) \in Seq(Body)
           /\ \A b \in Range(FlushBodies(s, again)) :
                 \/ b \in Range(pendingItems[s])
                 \/ b.kind = "data" /\ b.item \in pendingData[s]
<1> DEFINE all == unsent[s] \cup again
           data == SetToSeq(all)
<1>1. IsFiniteSet(all) /\ all \subseteq pendingData[s] /\ all \subseteq Items
  BY FS_Subset DEF TypeOK, FiniteData
<1>2. data \in Seq(all) /\ data \in Seq(Items)
  BY <1>1, OrderOfSet, SeqMonotonic
<1>3. /\ DataBodies(data) \in Seq(Body)
      /\ Len(DataBodies(data)) = Len(data)
      /\ \A n \in 1 .. Len(data) :
             DataBodies(data)[n] = [kind |-> "data", item |-> data[n]]
  BY <1>2, DataBodiesType
<1>4. \A n \in 1 .. Len(data) : data[n] \in pendingData[s]
  BY <1>1, <1>2, ElementOfSeq
<1> HIDE DEF data
<1>5. ASSUME NEW b \in Range(DataBodies(data))
      PROVE  b.kind = "data" /\ b.item \in pendingData[s]
  <2>1. PICK n \in 1 .. Len(data) : DataBodies(data)[n] = b
    BY <1>3, IndexInRange
  <2>2. b = [kind |-> "data", item |-> data[n]]
    BY <1>3, <2>1, Zenon
  <2>3. QED
    BY <1>4, <2>2
<1>6. pendingItems[s] \in Seq(Body)
  BY DEF TypeOK
<1>7. Range(pendingItems[s] \o DataBodies(data))
          = Range(pendingItems[s]) \cup Range(DataBodies(data))
  BY <1>3, <1>6, RangeConcatenation
<1>8. pendingItems[s] \o DataBodies(data) \in Seq(Body)
  BY <1>3, <1>6, ConcatProperties
<1>9. QED
  BY <1>5, <1>7, <1>8 DEF FlushBodies, data

LEMMA RangeOfEncrypted ==
    ASSUME NEW c, c.key \in Keys, NEW bodies \in Seq(Body),
           NEW x \in Range(Encrypted(c, bodies))
    PROVE  x.kind = "encrypted" /\ x.key = c.key /\ x.body \in Range(bodies)
<1>1. /\ Encrypted(c, bodies) \in Seq(Item)
      /\ Len(Encrypted(c, bodies)) = Len(bodies)
      /\ \A n \in 1 .. Len(bodies) : Encrypted(c, bodies)[n] =
            [kind |-> "encrypted", key |-> c.key, body |-> bodies[n]]
  BY EncryptedType
<1>2. PICK n \in 1 .. Len(bodies) : Encrypted(c, bodies)[n] = x
  BY <1>1, IndexInRange
<1>3. bodies[n] \in Range(bodies)
  BY DEF Range
<1>4. x = [kind |-> "encrypted", key |-> c.key, body |-> bodies[n]]
  BY <1>1, <1>2, Zenon
<1>5. QED
  BY <1>3, <1>4

(* An item comes to be under way when flush sends it or a contact closes.  *)
Enters(t, x) ==
    \/ x.kind # "encrypted"
    \/ x.body = [kind |-> "closing"]
    \/ x.body \in Range(pendingItems[t])
    \/ x.body.kind = "data" /\ x.body.item \in pendingData[t]

LEMMA WireStep ==
    ASSUME TypeOK, FiniteData, TalksUnderKey, [Next]_vars,
           NEW t \in Sides, NEW u \in Vpids, NEW x \in Range(wire'[t][u])
    PROVE  x \in Range(wire[t][u]) \/ Enters(t, x)
<1> USE DEF vars
<1>0. wire \in Wires
  BY DEF TypeOK, Wires
<1>1. CASE UNCHANGED wire
  BY <1>1
<1>2. ASSUME NEW v \in Vpids, Dig(v) PROVE x \in Range(wire[t][u]) \/ Enters(t, x)
  <2> DEFINE open == [kind |-> "open", n |-> digs']
  <2>1. digs' \in 1 .. MaxDigs
    BY <1>2, TunnelAssumption DEF Dig, TypeOK
  <2>2. open \in Item /\ open.kind = "open"
    BY <2>1, ItemTypes
  <2>3. wire["client"][v] \in Seq(Item)
    BY <1>0 DEF Wires, Sides
  <2>4. wire' = [wire EXCEPT !["client"][v] = Append(@, open)]
    BY <1>2 DEF Dig
  <2> HIDE DEF open
  <2>5. Range(Append(wire["client"][v], open)) = Range(wire["client"][v]) \cup {open}
    BY <2>2, <2>3, RangeOfAppend
  <2>6. QED
    BY <1>0, <2>2, <2>4, <2>5 DEF Wires, Enters
<1>3. ASSUME NEW v \in Vpids, RecvOpen(v) PROVE x \in Range(wire[t][u]) \/ Enters(t, x)
  <2> DEFINE ok == [kind |-> "ok", n |-> Received("server", v).n]
  <2>1. Taken("server", v) \in Wires /\ ok \in Item
    BY <1>0, <1>3, TakenType, ItemTypes DEF RecvOpen, Sides
  <2>2. Range(Append(Taken("server", v)["server"][v], ok))
            = Range(Taken("server", v)["server"][v]) \cup {ok}
    BY <2>1, RangeOfAppend DEF Wires, Sides
  <2>3. Range(Taken("server", v)[t][u]) \subseteq Range(wire[t][u])
    BY <1>0, <1>3, RangeOfTaken DEF RecvOpen, Sides
  <2>4. QED
    BY <1>3, <2>1, <2>2, <2>3 DEF RecvOpen, Wires, Enters
<1>4. ASSUME NEW v \in Vpids, RecvOk(v) PROVE x \in Range(wire[t][u]) \/ Enters(t, x)
  BY <1>0, <1>4, RangeOfTaken DEF RecvOk, Sides
<1>5. ASSUME NEW v \in Vpids, Lose(v) PROVE x \in Range(wire[t][u]) \/ Enters(t, x)
  BY <1>0, <1>5 DEF Lose, Wires, Range
<1>6. ASSUME NEW s \in Sides, NEW again \in SUBSET pendingData[s], Flush(s, again)
      PROVE  x \in Range(wire[t][u]) \/ Enters(t, x)
  <2>1. CASE ~CanTalk(s)
    <3>1. wire' = DHSent(s)
      BY <1>6, <2>1 DEF Flush
    <3>2. QED
      BY <3>1, RangeOfDHSent DEF Enters
  <2>2. CASE CanTalk(s)
    <3> DEFINE items == Encrypted(contacts[s], FlushBodies(s, again))
    <3>1. wire' = Sent(DHSent(s), s, contacts[s].vpid, items)
      BY <1>6, <2>2 DEF Flush, DataBodies, FlushBodies
    <3>2. contacts[s].key \in Keys
      BY <2>2 DEF TypeOK, TalksUnderKey, CanTalk, HasContact, Contact
    <3>3. items \in Seq(Item)
      BY <3>2, FlushBodiesType, EncryptedType
    <3>4. \A y \in Range(items) : Enters(s, y)
      BY <3>2, RangeOfEncrypted, FlushBodiesType DEF Enters
    <3>5. /\ Range(wire'[t][u]) \subseteq Range(DHSent(s)[t][u]) \cup Range(items)
          /\ t # s => wire'[t][u] = DHSent(s)[t][u]
      BY <3>1, <3>3, DHSentType, RangeOfSent
    <3>6. QED
      BY <3>4, <3>5, RangeOfDHSent DEF Enters
  <2>3. QED
    BY <2>1, <2>2
<1>7. ASSUME NEW s \in Sides, Close(s) PROVE x \in Range(wire[t][u]) \/ Enters(t, x)
  <2> DEFINE item == [kind |-> "encrypted", key |-> contacts[s].key,
                      body |-> [kind |-> "closing"]]
  <2>1. CASE contacts[s].status = "talk"
    <3>1. contacts[s].key \in Keys
      BY <1>7, <2>1 DEF Close, TypeOK, TalksUnderKey, CanTalk, HasContact, Contact
    <3>2. <<item>> \in Seq(Item) /\ Range(<<item>>) = {item}
      BY <3>1, ItemTypes, BodyTypes DEF Range
    <3>3. wire' = Sent(wire, s, contacts[s].vpid, <<item>>)
      BY <1>7, <2>1 DEF Close
    <3> HIDE DEF item
    <3>4. Range(wire'[t][u]) \subseteq Range(wire[t][u]) \cup {item}
      BY <1>0, <3>2, <3>3, RangeOfSent
    <3>5. QED
      BY <3>4 DEF Enters, item
  <2>2. CASE contacts[s].status # "talk"
    BY <1>7, <2>2 DEF Close
  <2>3. QED
    BY <2>1, <2>2
<1>8. ASSUME NEW s \in Sides, NEW v \in Vpids,
             RecvDH(s, v) \/ RecvUnknown(s, v) \/ RecvUnverified(s, v) \/ RecvVerified(s, v)
      PROVE  x \in Range(wire[t][u])
  BY <1>0, <1>8, RangeOfTaken DEF RecvDH, RecvUnknown, RecvUnverified, RecvVerified
<1>9. QED
  BY <1>1, <1>2, <1>3, <1>4, <1>5, <1>6, <1>7, <1>8
     DEF Next, Request, HashDies, SendData, Forget, Silence, KeepAlive, OldPrints, TunnelDies

(***************************************************************************)
(* The data that waits, and the key a contact talks under                  *)
(***************************************************************************)

LEMMA FiniteStep == TypeOK /\ FiniteData /\ [Next]_vars => FiniteData'
<1> SUFFICES ASSUME TypeOK, FiniteData, [Next]_vars, NEW t \in Sides
             PROVE  IsFiniteSet(pendingData'[t])
  BY DEF FiniteData
<1> USE DEF vars, queues, exchange
<1>1. ASSUME NEW s \in Sides, NEW i \in Items, SendData(s, i)
      PROVE  IsFiniteSet(pendingData'[t])
  <2>1. pendingData'[t] \in {pendingData[t], pendingData[t] \cup {i}}
    BY <1>1 DEF SendData, TypeOK
  <2>2. QED
    BY <2>1, FS_AddElement DEF FiniteData
<1>2. ASSUME NEW s \in Sides, NEW v \in Vpids, RecvVerified(s, v)
      PROVE  IsFiniteSet(pendingData'[t])
  <2> DEFINE b == Received(s, v).body
  <2>1. \/ pendingData' = [pendingData EXCEPT ![s] = pendingData[s] \ {b.item}]
        \/ pendingData' = pendingData
    BY <1>2 DEF RecvVerified
  <2>2. pendingData'[t] \subseteq pendingData[t]
    BY <2>1 DEF TypeOK
  <2>3. QED
    BY <2>2, FS_Subset DEF FiniteData
<1>3. CASE UNCHANGED pendingData
  BY <1>3 DEF FiniteData
<1>4. ASSUME NEW s \in Sides, NEW v \in Vpids,
             \/ Dig(v) \/ RecvOpen(v) \/ RecvOk(v) \/ Lose(v)
             \/ TunnelDies(s, v) \/ RecvDH(s, v) \/ RecvUnknown(s, v) \/ RecvUnverified(s, v)
      PROVE  pendingData' = pendingData
  BY <1>4 DEF Dig, RecvOpen, RecvOk, Lose, TunnelDies, RecvDH, RecvUnknown, RecvUnverified
<1>5. ASSUME NEW s \in Sides,
             \/ Request \/ (\E h \in Hashes : HashDies(h))
             \/ (\E again \in SUBSET pendingData[s] : Flush(s, again))
             \/ Close(s) \/ Forget(s) \/ Silence(s) \/ KeepAlive(s) \/ OldPrints(s)
      PROVE  pendingData' = pendingData
  BY <1>5 DEF Request, HashDies, Flush, Close, Forget, Silence, KeepAlive, OldPrints
<1>6. QED
  BY <1>1, <1>2, <1>3, <1>4, <1>5 DEF Next, Sides

LEMMA TalkStep == TypeOK /\ TalksUnderKey /\ [Next]_vars => TalksUnderKey'
<1> SUFFICES ASSUME TypeOK, TalksUnderKey, [Next]_vars,
                    NEW t \in Sides, contacts'[t] # None, contacts'[t].status = "talk"
             PROVE  contacts'[t].key # NoKey
  BY DEF TalksUnderKey, CanTalk, HasContact
<1> USE DEF vars
<1>0. contacts'[t] = contacts[t] => contacts'[t].key # NoKey
  BY DEF TalksUnderKey, CanTalk, HasContact
<1>1. CASE Request
  BY <1>0, <1>1 DEF Request, TypeOK, NewContact
<1>2. ASSUME NEW s \in Sides, NEW peers, RemovePeers(s, peers)
      PROVE  contacts'[t].key # NoKey
  <2>1. contacts'[s] \in {contacts[s],
                          [contacts[s] EXCEPT !.status = "down", !.vpid = NoVpid]}
        /\ (t # s => contacts'[t] = contacts[t])
    BY <1>2 DEF RemovePeers, TypeOK
  <2>2. CASE t = s /\ contacts'[t] # contacts[t]
    <3>1. HasContact(s)
      BY <1>2, <2>2 DEF RemovePeers
    <3>2. contacts[s] \in Contact
      BY <3>1 DEF HasContact, TypeOK
    <3>3. contacts'[t].status = "down"
      BY <2>1, <2>2, <3>2 DEF Contact
    <3>4. QED
      BY <3>3
  <2>3. QED
    BY <1>0, <2>1, <2>2
<1>3. ASSUME NEW s \in Sides, Close(s) \/ Forget(s) PROVE contacts'[t].key # NoKey
  BY <1>0, <1>3 DEF Close, Forget, TypeOK
<1>4. ASSUME NEW s \in Sides, Silence(s) PROVE contacts'[t].key # NoKey
  <2>1. contacts[s] \in Contact
    BY <1>4 DEF Silence, CanTalk, HasContact, TypeOK
  <2>2. t # s
    BY <1>4, <2>1 DEF Silence, TypeOK, Contact
  <2>3. QED
    BY <1>0, <1>4, <2>2 DEF Silence, TypeOK
<1>5. ASSUME NEW s \in Sides, OldPrints(s) PROVE contacts'[t].key # NoKey
  <2>1. CASE t = s
    <3>1. contacts[s] \in Contact
      BY <1>5 DEF OldPrints, HasContact, TypeOK
    <3>2. contacts'[s].key = contacts[s].key /\ contacts'[s].status = contacts[s].status
      BY <1>5, <3>1 DEF OldPrints, TypeOK, Contact
    <3>3. QED
      BY <1>5, <2>1, <3>2 DEF OldPrints, TalksUnderKey, CanTalk
  <2>2. QED
    BY <1>0, <1>5, <2>1 DEF OldPrints, TypeOK
<1>6. ASSUME NEW s \in Sides, NEW v \in Vpids, RecvDH(s, v)
      PROVE  contacts'[t].key # NoKey
  <2> DEFINE k == IF virtualPeers[s][v].status = "key" THEN NewKey(s)
                  ELSE virtualPeers[s][v].dh
  <2>1. CASE contacts'[t] # contacts[t]
    <3>1. Expects(s, v) /\ t = s
      BY <1>6, <2>1 DEF RecvDH, TypeOK
    <3>2. Received(s, v).pub \in 1 .. MaxKeys
      BY <1>6, TakenType, ItemTypes DEF RecvDH, TypeOK, Wires
    <3>3. contacts'[s] = [ContactOf(s) EXCEPT !.status = "talk", !.vpid = v,
                             !.key = Shared(s, v, k, Received(s, v).pub)]
      BY <1>6, <3>1 DEF RecvDH, TypeOK
    <3>4. ContactOf(s) \in Contact
      BY NewOnes DEF ContactOf, HasContact, TypeOK
    <3>5. contacts'[s].key = Shared(s, v, k, Received(s, v).pub)
      BY <3>3, <3>4 DEF Contact
    <3>6. Shared(s, v, k, Received(s, v).pub)[Other(s)] = Received(s, v).pub
      BY SidesDiffer DEF Shared, NoKey
    <3>7. NoKey[Other(s)] = 0
      BY SidesDiffer DEF NoKey
    <3>8. QED
      BY <3>1, <3>2, <3>5, <3>6, <3>7
  <2>2. QED
    BY <1>0, <2>1
<1>7. ASSUME NEW s \in Sides, NEW v \in Vpids, RecvVerified(s, v)
      PROVE  contacts'[t].key # NoKey
  <2> DEFINE c == contacts[s]
             b == Received(s, v).body
  <2>1. CASE t = s
    <3>1. c \in Contact
      BY <1>7 DEF RecvVerified, Known, HasContact, TypeOK
    <3>2. c.key \in Keys
      BY <1>7, TakenType, ItemTypes DEF RecvVerified, Verifies, TypeOK, Wires
    <3>3. \/ contacts' = [contacts EXCEPT ![s] = [c EXCEPT !.status = "talk",
                             !.user = TRUE, !.prints = c.prints \cup {b.item}]]
          \/ \E status : contacts' = [contacts EXCEPT ![s].status = status]
      BY <1>7 DEF RecvVerified
    <3>4. contacts'[s].key = c.key
      <4>1. CASE contacts' = [contacts EXCEPT ![s] = [c EXCEPT !.status = "talk",
                                 !.user = TRUE, !.prints = c.prints \cup {b.item}]]
        BY <3>1, <4>1 DEF TypeOK, Contact
      <4>2. ASSUME NEW status, contacts' = [contacts EXCEPT ![s].status = status]
            PROVE  contacts'[s].key = c.key
        BY <3>1, <4>2 DEF TypeOK, Contact
      <4>3. QED
        BY <3>3, <4>1, <4>2
    <3>5. QED
      BY <2>1, <3>2, <3>4, NewOnes
  <2>2. CASE t # s
    <3>1. contacts'[t] = contacts[t]
      BY <1>7, <2>2 DEF RecvVerified, TypeOK
    <3>2. QED
      BY <1>0, <3>1
  <2>3. QED
    BY <2>1, <2>2
<1>8. CASE UNCHANGED contacts
  BY <1>0, <1>8
<1>9. QED
  BY <1>1, <1>2, <1>3, <1>4, <1>5, <1>6, <1>7, <1>8
     DEF Next, Dig, RecvOpen, RecvOk, Lose, HashDies, SendData, Flush, KeepAlive,
         TunnelDies, RecvUnknown, RecvUnverified, Sides

(***************************************************************************)
(* What was delivered                                                      *)
(***************************************************************************)

(* Only a verified item changes what the service has got, and only for the *)
(* item of data in it.                                                     *)
LEMMA VerifiedStep ==
    ASSUME TypeOK, NEW s \in Sides, NEW v \in Vpids, RecvVerified(s, v)
    PROVE  LET b == Received(s, v).body
           IN /\ Received(s, v) \in Range(wire[Other(s)][v])
              /\ Received(s, v).kind = "encrypted" /\ b \in Body
              /\ contacts[s] \in Contact /\ contacts'[s] \in Contact
              /\ \A t \in Sides \ {s} : contacts'[t] = contacts[t]
              /\ UNCHANGED <<sent, forgot>>
              /\ b.kind = "data" =>
                    /\ b.item \in Items
                    /\ pendingItems' = [pendingItems EXCEPT ![s] =
                           Append(@, [kind |-> "ack", item |-> b.item])]
                    /\ contacts'[s].prints = contacts[s].prints \cup {b.item}
                    /\ delivered' = IF b.item \in contacts[s].prints THEN delivered
                                    ELSE [delivered EXCEPT ![b.item] = @ + 1]
                    /\ UNCHANGED pendingData
              /\ b.kind # "data" =>
                    /\ contacts'[s].prints = contacts[s].prints
                    /\ UNCHANGED <<pendingItems, delivered>>
                    /\ pendingData' = IF b.kind = "ack"
                                      THEN [pendingData EXCEPT ![s] = @ \ {b.item}]
                                      ELSE pendingData
<1> DEFINE b == Received(s, v).body
           c == contacts[s]
<1>1. /\ Received(s, v) \in Range(wire[Other(s)][v]) /\ b \in Body
      /\ Received(s, v).kind = "encrypted"
      /\ b.kind = "data" => b.item \in Items
  BY TakenType, ItemTypes, BodyTypes DEF RecvVerified, TypeOK, Wires
<1>2. c \in Contact
  BY DEF RecvVerified, Known, HasContact, TypeOK
<1>3. CASE b.kind = "data"
  <2>1. /\ contacts' = [contacts EXCEPT ![s] = [c EXCEPT !.status = "talk",
                           !.user = TRUE, !.prints = c.prints \cup {b.item}]]
        /\ pendingItems' = [pendingItems EXCEPT ![s] =
               Append(pendingItems[s], [kind |-> "ack", item |-> b.item])]
        /\ delivered' = IF b.item \in c.prints THEN delivered
                        ELSE [delivered EXCEPT ![b.item] = delivered[b.item] + 1]
        /\ UNCHANGED <<pendingData, sent, forgot>>
    BY <1>3 DEF RecvVerified
  <2>2. c.prints \cup {b.item} \in SUBSET Items
    BY <1>1, <1>2, <1>3 DEF Contact
  <2>3. [c EXCEPT !.status = "talk", !.user = TRUE,
                  !.prints = c.prints \cup {b.item}] \in Contact
    BY <1>2, <2>2, ContactUpdates
  <2>4. contacts'[s] \in Contact /\ contacts'[s].prints = c.prints \cup {b.item}
        /\ \A t \in Sides \ {s} : contacts'[t] = contacts[t]
    BY <1>2, <2>1, <2>3 DEF TypeOK, Contact
  <2>5. QED
    BY <1>1, <1>2, <1>3, <2>1, <2>4
<1>4. CASE b.kind # "data"
  <2>1. /\ \E status \in {"down", "talk", "closed"} :
              contacts' = [contacts EXCEPT ![s] = [c EXCEPT !.status = status]]
        /\ pendingData' = IF b.kind = "ack"
                          THEN [pendingData EXCEPT ![s] = pendingData[s] \ {b.item}]
                          ELSE pendingData
        /\ UNCHANGED <<pendingItems, delivered, sent, forgot>>
    BY <1>4 DEF RecvVerified
  <2>2. PICK status \in {"down", "talk", "closed"} :
            contacts' = [contacts EXCEPT ![s] = [c EXCEPT !.status = status]]
    BY <2>1
  <2>3. [c EXCEPT !.status = status] \in Contact
    BY <1>2, ContactUpdates
  <2>4. contacts'[s] \in Contact /\ contacts'[s].prints = c.prints
        /\ \A t \in Sides \ {s} : contacts'[t] = contacts[t]
    BY <1>2, <2>2, <2>3 DEF TypeOK, Contact
  <2>5. QED
    BY <1>1, <1>2, <1>4, <2>1, <2>4
<1>5. QED
  BY <1>3, <1>4

(* Nothing delivered is taken back, and only RecvVerified delivers.        *)
LEMMA DeliveredGrows ==
    ASSUME TypeOK, [Next]_vars
    PROVE  \A i \in Items : delivered'[i] >= delivered[i] /\ delivered'[i] \in Nat
<1> USE DEF vars, history
<1>1. ASSUME NEW s \in Sides, NEW v \in Vpids, RecvVerified(s, v)
      PROVE  \A i \in Items : delivered'[i] >= delivered[i] /\ delivered'[i] \in Nat
  <2>1. \/ delivered' = delivered
        \/ \E j \in Items : delivered' = [delivered EXCEPT ![j] = @ + 1]
    BY <1>1, VerifiedStep
  <2>2. delivered \in [Items -> Nat]
    BY DEF TypeOK
  <2>3. QED
    BY <2>1, <2>2
<1>2. CASE UNCHANGED delivered
  BY <1>2 DEF TypeOK
<1>3. ASSUME NEW s \in Sides, NEW v \in Vpids,
             \/ Dig(v) \/ RecvOpen(v) \/ RecvOk(v) \/ Lose(v)
             \/ TunnelDies(s, v) \/ RecvDH(s, v) \/ RecvUnknown(s, v) \/ RecvUnverified(s, v)
      PROVE  UNCHANGED delivered
  BY <1>3 DEF Dig, RecvOpen, RecvOk, Lose, TunnelDies, RecvDH, RecvUnknown, RecvUnverified
<1>4. ASSUME NEW s \in Sides,
             \/ Request \/ (\E h \in Hashes : HashDies(h))
             \/ (\E i \in Items : SendData(s, i))
             \/ (\E again \in SUBSET pendingData[s] : Flush(s, again))
             \/ Close(s) \/ Forget(s) \/ Silence(s) \/ KeepAlive(s) \/ OldPrints(s)
      PROVE  UNCHANGED delivered
  BY <1>4 DEF Request, HashDies, SendData, Flush, Close, Forget, Silence, KeepAlive, OldPrints
<1>5. QED
  BY <1>1, <1>2, <1>3, <1>4 DEF Next, Sides

(* What a step adds to what waits to be sent.                              *)
LEMMA BodyStep ==
    ASSUME TypeOK, [Next]_vars, NEW t \in Sides, NEW b \in Range(pendingItems'[t])
    PROVE  \/ b \in Range(pendingItems[t])
           \/ b = Hello
           \/ \E s \in Sides, v \in Vpids :
                 /\ RecvVerified(s, v) /\ t = s
                 /\ Received(s, v).body.kind = "data"
                 /\ b = [kind |-> "ack", item |-> Received(s, v).body.item]
<1> USE DEF vars, queues
<1> DEFINE Added == \/ b \in Range(pendingItems[t])
                    \/ b = Hello
                    \/ \E s \in Sides, v \in Vpids :
                          /\ RecvVerified(s, v) /\ t = s
                          /\ Received(s, v).body.kind = "data"
                          /\ b = [kind |-> "ack", item |-> Received(s, v).body.item]
<1>1. ASSUME NEW s \in Sides, NEW e \in Body,
             pendingItems' = [pendingItems EXCEPT ![s] = Append(@, e)]
      PROVE  b \in Range(pendingItems[t]) \/ (t = s /\ b = e)
  <2>1. Range(Append(pendingItems[s], e)) = Range(pendingItems[s]) \cup {e}
    BY RangeOfAppend DEF TypeOK
  <2>2. QED
    BY <1>1, <2>1 DEF TypeOK
<1>2. ASSUME NEW s \in Sides, NEW v \in Vpids, RecvVerified(s, v) PROVE Added
  <2> DEFINE ack == [kind |-> "ack", item |-> Received(s, v).body.item]
  <2>1. CASE Received(s, v).body.kind = "data"
    <3>1. Received(s, v).body.item \in Items
      BY <1>2, <2>1, VerifiedStep
    <3>2. pendingItems' = [pendingItems EXCEPT ![s] = Append(@, ack)] /\ ack \in Body
      BY <1>2, <2>1, <3>1, VerifiedStep, BodyTypes
    <3>3. QED
      BY <1>1, <1>2, <2>1, <3>2
  <2>2. CASE Received(s, v).body.kind # "data"
    BY <1>2, <2>2, VerifiedStep
  <2>3. QED
    BY <2>1, <2>2
<1>3. ASSUME NEW s \in Sides, NEW v \in Vpids, RecvDH(s, v) PROVE Added
  <2>1. \/ pendingItems' = pendingItems
        \/ pendingItems' = [pendingItems EXCEPT ![s] = Append(@, Hello)]
    BY <1>3 DEF RecvDH
  <2>2. QED
    BY <1>1, <2>1, BodyTypes
<1>4. ASSUME NEW s \in Sides, KeepAlive(s) PROVE Added
  BY <1>1, <1>4, BodyTypes DEF KeepAlive
<1>5. ASSUME NEW s \in Sides, NEW again \in SUBSET pendingData[s], Flush(s, again)
      PROVE  Added
  <2>1. \/ pendingItems' = pendingItems
        \/ pendingItems' = [pendingItems EXCEPT ![s] = <<>>]
    BY <1>5 DEF Flush
  <2>2. Range(<<>>) = {}
    BY DEF Range
  <2>3. pendingItems'[t] \in {pendingItems[t], <<>>}
    BY <2>1 DEF TypeOK
  <2>4. QED
    BY <2>2, <2>3
<1>6. CASE UNCHANGED pendingItems
  BY <1>6
<1>7. ASSUME NEW s \in Sides, NEW v \in Vpids,
             \/ Dig(v) \/ RecvOpen(v) \/ RecvOk(v) \/ Lose(v)
             \/ TunnelDies(s, v) \/ RecvUnknown(s, v) \/ RecvUnverified(s, v)
      PROVE  UNCHANGED pendingItems
  BY <1>7 DEF Dig, RecvOpen, RecvOk, Lose, TunnelDies, RecvUnknown, RecvUnverified
<1>8. ASSUME NEW s \in Sides,
             \/ Request \/ (\E h \in Hashes : HashDies(h))
             \/ (\E i \in Items : SendData(s, i))
             \/ Close(s) \/ Forget(s) \/ Silence(s) \/ OldPrints(s)
      PROVE  UNCHANGED pendingItems
  BY <1>8 DEF Request, HashDies, SendData, Close, Forget, Silence, OldPrints
<1>9. QED
  BY <1>2, <1>3, <1>4, <1>5, <1>6, <1>7, <1>8 DEF Next, Sides

(* What a step does to the prints of a contact, and to the count of what   *)
(* its side forgot.                                                        *)
LEMMA PrintsStep ==
    ASSUME TypeOK, [Next]_vars, NEW t \in Sides
    PROVE  \/ /\ contacts'[t] # None => contacts'[t].prints = {}
              /\ HasContact(t) => forgot'[t] = forgot[t] + 1
              /\ UNCHANGED delivered /\ forgot'[t] \in {forgot[t], forgot[t] + 1}
           \/ /\ HasContact(t) /\ contacts'[t] # None
              /\ contacts'[t].prints = contacts[t].prints
              /\ UNCHANGED delivered /\ forgot'[t] = forgot[t]
           \/ /\ contacts'[t] = contacts[t]
              /\ UNCHANGED delivered /\ forgot'[t] = forgot[t]
           \/ \E s \in Sides, v \in Vpids : RecvVerified(s, v)
<1> USE DEF vars, history
<1> DEFINE Fresh == /\ contacts'[t] # None => contacts'[t].prints = {}
                    /\ HasContact(t) => forgot'[t] = forgot[t] + 1
                    /\ UNCHANGED delivered /\ forgot'[t] \in {forgot[t], forgot[t] + 1}
           Kept == /\ HasContact(t) /\ contacts'[t] # None
                   /\ contacts'[t].prints = contacts[t].prints
                   /\ UNCHANGED delivered /\ forgot'[t] = forgot[t]
           Same == /\ contacts'[t] = contacts[t]
                   /\ UNCHANGED delivered /\ forgot'[t] = forgot[t]
<1>0. forgot[t] \in Nat
  BY DEF TypeOK
<1>1. ASSUME Request PROVE Fresh \/ Same
  <2>1. CASE t = "client"
    <3>1. ~HasContact(t) /\ UNCHANGED <<delivered, forgot>>
      BY <1>1, <2>1 DEF Request
    <3>2. PICK h \in Hashes : contacts' = [contacts EXCEPT !["client"] =
                                 [NewContact EXCEPT !.hash = h, !.user = TRUE]]
      BY <1>1 DEF Request
    <3>3. contacts'[t].prints = {}
      BY <2>1, <3>2 DEF TypeOK, NewContact
    <3>4. QED
      BY <1>0, <3>1, <3>3
  <2>2. CASE t # "client"
    BY <1>1, <2>2 DEF Request, TypeOK
  <2>3. QED
    BY <2>1, <2>2
<1>2. ASSUME NEW s \in Sides, NEW peers, RemovePeers(s, peers), UNCHANGED <<delivered, forgot>>
      PROVE  Kept \/ Same
  <2>1. CASE HasContact(s) /\ t = s
    <3>1. contacts[s] \in Contact
      BY <2>1 DEF HasContact, TypeOK
    <3>2. /\ [contacts[s] EXCEPT !.status = "down", !.vpid = NoVpid] \in Contact
          /\ [contacts[s] EXCEPT !.status = "down", !.vpid = NoVpid].prints
                = contacts[s].prints
      BY <3>1, ContactDown
    <3>3. contacts'[s] \in {contacts[s],
              [contacts[s] EXCEPT !.status = "down", !.vpid = NoVpid]}
      BY <1>2 DEF RemovePeers, TypeOK
    <3>4. QED
      BY <1>2, <2>1, <3>1, <3>2, <3>3, NoneIsNothing
  <2>2. CASE ~(HasContact(s) /\ t = s)
    <3>1. contacts'[t] = contacts[t]
      BY <1>2, <2>2 DEF RemovePeers, TypeOK
    <3>2. QED
      BY <1>2, <3>1
  <2>3. QED
    BY <2>1, <2>2
<1>3. ASSUME NEW s \in Sides, Close(s) \/ Forget(s) PROVE Fresh \/ Same
  <2>1. /\ contacts' = [contacts EXCEPT ![s] = None]
        /\ forgot' = [forgot EXCEPT ![s] = @ + 1]
        /\ UNCHANGED delivered
    BY <1>3 DEF Close, Forget
  <2>2. QED
    BY <1>0, <2>1 DEF TypeOK
<1>4. ASSUME NEW s \in Sides, Silence(s) PROVE Kept \/ Same
  <2>1. CASE t = s
    <3>1. contacts[s] \in Contact
      BY <1>4 DEF Silence, CanTalk, HasContact, TypeOK
    <3>2. /\ [contacts[s] EXCEPT !.status = "down", !.vpid = NoVpid] \in Contact
          /\ [contacts[s] EXCEPT !.status = "down", !.vpid = NoVpid].prints
                = contacts[s].prints
      BY <3>1, ContactDown
    <3>3. contacts'[s] = [contacts[s] EXCEPT !.status = "down", !.vpid = NoVpid]
      BY <1>4 DEF Silence, TypeOK
    <3>4. QED
      BY <1>4, <2>1, <3>2, <3>3, NoneIsNothing DEF Silence, CanTalk
  <2>2. CASE t # s
    BY <1>4, <2>2 DEF Silence, TypeOK
  <2>3. QED
    BY <2>1, <2>2
<1>5. ASSUME NEW s \in Sides, OldPrints(s) PROVE Fresh \/ Same
  <2>1. /\ contacts[s] \in Contact
        /\ contacts' = [contacts EXCEPT ![s].prints = {}]
        /\ forgot' = [forgot EXCEPT ![s] = @ + 1]
        /\ UNCHANGED delivered
    BY <1>5 DEF OldPrints, HasContact, TypeOK
  <2>2. contacts[s].prints \in SUBSET Items /\ contacts'[s].prints = {}
    BY <2>1 DEF TypeOK, Contact
  <2>3. QED
    BY <1>0, <2>1, <2>2 DEF TypeOK
<1>6. ASSUME NEW s \in Sides, NEW v \in Vpids, RecvDH(s, v) PROVE Fresh \/ Kept \/ Same
  <2> DEFINE k == IF virtualPeers[s][v].status = "key" THEN NewKey(s)
                  ELSE virtualPeers[s][v].dh
             c == [ContactOf(s) EXCEPT !.status = "talk", !.vpid = v,
                      !.key = Shared(s, v, k, Received(s, v).pub)]
  <2>1. UNCHANGED <<delivered, forgot>>
    BY <1>6 DEF RecvDH
  <2>2. contacts' = contacts \/ contacts' = [contacts EXCEPT ![s] = c]
    BY <1>6 DEF RecvDH
  <2>3. ContactOf(s) \in Contact /\ c.prints = ContactOf(s).prints /\ DOMAIN c = DOMAIN ContactOf(s)
    <3>1. ContactOf(s) \in Contact
      BY NewOnes DEF ContactOf, HasContact, TypeOK
    <3>2. QED
      BY <3>1 DEF Contact
  <2>4. c # None
    <3>1. "none" \notin DOMAIN ContactOf(s) /\ "none" \in DOMAIN None
      BY <2>3 DEF Contact, None
    <3>2. QED
      BY <2>3, <3>1
  <2> HIDE DEF c
  <2>5. CASE t = s /\ contacts' = [contacts EXCEPT ![s] = c]
    <3>1. contacts'[t] = c
      BY <2>5 DEF TypeOK
    <3>2. CASE HasContact(s)
      BY <2>1, <2>3, <2>4, <2>5, <3>1, <3>2 DEF ContactOf
    <3>3. CASE ~HasContact(s)
      <4>1. c.prints = {}
        BY <2>3, <3>3 DEF ContactOf, NewContact
      <4>2. QED
        BY <1>0, <2>1, <2>5, <3>1, <3>3, <4>1
    <3>4. QED
      BY <3>2, <3>3
  <2>6. CASE contacts'[t] = contacts[t]
    BY <2>1, <2>6
  <2>7. QED
    BY <2>2, <2>5, <2>6 DEF TypeOK
<1>7. CASE UNCHANGED <<contacts, delivered, forgot>>
  BY <1>7
<1>8. ASSUME NEW s \in Sides, NEW v \in Vpids,
             \/ Dig(v) \/ RecvOpen(v) \/ RecvOk(v) \/ Lose(v)
             \/ RecvUnknown(s, v) \/ RecvUnverified(s, v)
      PROVE  UNCHANGED <<contacts, delivered, forgot>>
  BY <1>8 DEF Dig, RecvOpen, RecvOk, Lose, RecvUnknown, RecvUnverified
<1>9. ASSUME NEW s \in Sides,
             \/ (\E i \in Items : SendData(s, i))
             \/ (\E again \in SUBSET pendingData[s] : Flush(s, again))
             \/ KeepAlive(s)
      PROVE  UNCHANGED <<contacts, delivered, forgot>>
  BY <1>9 DEF SendData, Flush, KeepAlive
<1>10. ASSUME NEW s \in Sides, NEW v \in Vpids, TunnelDies(s, v) PROVE Kept \/ Same
  BY <1>2, <1>10 DEF TunnelDies
<1>11. ASSUME NEW h \in Hashes, HashDies(h) PROVE Kept \/ Same
  BY <1>2, <1>11 DEF HashDies, Sides
<1> HIDE DEF Fresh, Kept, Same
<1>12. Fresh \/ Kept \/ Same \/ \E s \in Sides, v \in Vpids : RecvVerified(s, v)
  <2>2. UNCHANGED <<contacts, delivered, forgot>> => Same
    BY DEF Same
  <2>3. QED
    BY <2>2, <1>1, <1>3, <1>4, <1>5, <1>6, <1>8, <1>9, <1>10, <1>11 DEF Next, Sides
<1>13. QED
  BY <1>12 DEF Fresh, Kept, Same

LEMMA AcksStep ==
    TypeOK /\ FiniteData /\ TalksUnderKey /\ AcksAreTrue /\ [Next]_vars => AcksAreTrue'
<1> SUFFICES ASSUME TypeOK, FiniteData, TalksUnderKey, AcksAreTrue, [Next]_vars,
                    NEW t \in Sides
             PROVE  /\ \A b \in Range(pendingItems'[t]) :
                           b.kind = "ack" => delivered'[b.item] > 0
                    /\ \A u \in Vpids : \A x \in Range(wire'[t][u]) :
                           x.kind = "encrypted" /\ x.body.kind = "ack"
                               => delivered'[x.body.item] > 0
                    /\ contacts'[t] # None =>
                           \A i \in contacts'[t].prints : delivered'[i] > 0
  BY DEF AcksAreTrue, HasContact
<1>0. /\ \A i \in Items : delivered'[i] >= delivered[i] /\ delivered'[i] \in Nat
      /\ \A i \in Items : delivered[i] \in Nat
  BY DeliveredGrows DEF TypeOK
(* What a verified item hands to the service. *)
<1>1. ASSUME NEW s \in Sides, NEW v \in Vpids, RecvVerified(s, v),
             Received(s, v).body.kind = "data"
      PROVE  Received(s, v).body.item \in Items /\ delivered'[Received(s, v).body.item] > 0
  <2> DEFINE i == Received(s, v).body.item
  <2>1. /\ i \in Items /\ contacts[s] \in Contact
        /\ delivered' = IF i \in contacts[s].prints THEN delivered
                        ELSE [delivered EXCEPT ![i] = @ + 1]
    BY <1>1, VerifiedStep
  <2>2. CASE i \in contacts[s].prints
    <3>1. HasContact(s)
      BY <1>1 DEF RecvVerified, Known
    <3>2. QED
      BY <2>1, <2>2, <3>1 DEF AcksAreTrue
  <2>3. CASE i \notin contacts[s].prints
    <3>1. delivered \in [Items -> Nat]
      BY DEF TypeOK
    <3>2. QED
      BY <2>1, <2>3, <3>1
  <2>4. QED
    BY <2>1, <2>2, <2>3
<1>2. ASSUME NEW b \in Range(pendingItems[t]), b.kind = "ack"
      PROVE  delivered'[b.item] > 0
  <2>1. b \in Body
    BY IndexInRange DEF TypeOK, Range
  <2>2. b.item \in Items /\ delivered[b.item] > 0
    BY <1>2, <2>1, BodyTypes DEF AcksAreTrue
  <2>3. QED
    BY <1>0, <2>2
<1>3. ASSUME NEW b \in Range(pendingItems'[t]), b.kind = "ack"
      PROVE  delivered'[b.item] > 0
  <2>1. CASE b \in Range(pendingItems[t])
    BY <1>2, <1>3, <2>1
  <2>2. ASSUME NEW s \in Sides, NEW v \in Vpids, RecvVerified(s, v),
               Received(s, v).body.kind = "data",
               b = [kind |-> "ack", item |-> Received(s, v).body.item]
        PROVE  delivered'[b.item] > 0
    BY <1>1, <2>2
  <2>3. b # Hello
    BY <1>3 DEF Hello
  <2>4. QED
    BY <2>1, <2>2, <2>3, BodyStep
<1>4. ASSUME NEW u \in Vpids, NEW x \in Range(wire'[t][u]),
             x.kind = "encrypted", x.body.kind = "ack"
      PROVE  delivered'[x.body.item] > 0
  <2>1. CASE x \in Range(wire[t][u])
    <3>1. wire[t][u] \in Seq(Item)
      BY DEF TypeOK
    <3>2. x \in Item
      BY <2>1, <3>1, IndexInRange, ElementOfSeq
    <3>3. x.body.item \in Items /\ delivered[x.body.item] > 0
      BY <1>4, <2>1, <3>2, ItemTypes, BodyTypes DEF AcksAreTrue
    <3>4. QED
      BY <1>0, <3>3
  <2>2. CASE Enters(t, x)
    <3>1. x.body # [kind |-> "closing"] /\ x.body.kind # "data"
      BY <1>4
    <3>2. x.body \in Range(pendingItems[t])
      BY <1>4, <2>2, <3>1 DEF Enters
    <3>3. QED
      BY <1>2, <1>4, <3>2
  <2>3. QED
    BY <2>1, <2>2, WireStep
<1>5. ASSUME contacts'[t] # None, NEW i \in contacts'[t].prints PROVE delivered'[i] > 0
  <2>1. CASE HasContact(t) /\ i \in contacts[t].prints
    <3>1. i \in Items
      BY <2>1 DEF TypeOK, HasContact, Contact
    <3>2. QED
      BY <1>0, <2>1, <3>1 DEF AcksAreTrue
  <2>2. ASSUME NEW s \in Sides, NEW v \in Vpids, RecvVerified(s, v)
        PROVE  delivered'[i] > 0
    <3>1. CASE s = t /\ Received(s, v).body.kind = "data"
      <4>1. contacts'[t].prints = contacts[t].prints \cup {Received(s, v).body.item}
        BY <2>2, <3>1, VerifiedStep
      <4>2. HasContact(t)
        BY <2>2, <3>1 DEF RecvVerified, Known
      <4>3. QED
        BY <1>1, <1>5, <2>1, <2>2, <3>1, <4>1, <4>2
    <3>2. CASE s = t /\ Received(s, v).body.kind # "data"
      <4>1. contacts'[t].prints = contacts[t].prints
        BY <2>2, <3>2, VerifiedStep
      <4>2. HasContact(t)
        BY <2>2, <3>2 DEF RecvVerified, Known
      <4>3. QED
        BY <1>5, <2>1, <4>1, <4>2
    <3>3. CASE s # t
      <4>1. contacts'[t] = contacts[t]
        BY <2>2, <3>3, VerifiedStep
      <4>2. QED
        BY <1>5, <2>1, <4>1 DEF HasContact
    <3>4. QED
      BY <3>1, <3>2, <3>3
  <2>3. QED
    BY <1>5, <2>1, <2>2, PrintsStep DEF HasContact
<1>6. QED
  BY <1>3, <1>4, <1>5

LEMMA AckedStep ==
    TypeOK /\ AcksAreTrue /\ AckedIsDelivered /\ [Next]_vars => AckedIsDelivered'
<1> SUFFICES ASSUME TypeOK, AcksAreTrue, AckedIsDelivered, [Next]_vars,
                    NEW t \in Sides, NEW i \in ItemsOf(t), i \in sent'
             PROVE  i \in pendingData'[t] \/ delivered'[i] > 0
  BY DEF AckedIsDelivered
<1> USE DEF vars, queues, history
<1>0. /\ i \in Items /\ delivered'[i] >= delivered[i]
      /\ delivered[i] \in Nat /\ delivered'[i] \in Nat
  BY DeliveredGrows DEF TypeOK, Items, ItemsOf
<1>1. CASE i \in sent /\ delivered[i] > 0
  BY <1>0, <1>1
<1>2. CASE i \in sent /\ pendingData[t] \subseteq pendingData'[t]
  BY <1>0, <1>2 DEF AckedIsDelivered
<1>3. ASSUME NEW s \in Sides, NEW j \in Items, SendData(s, j)
      PROVE  i \in pendingData'[t] \/ delivered'[i] > 0
  <2>1. /\ sent' = sent \cup {j} /\ j \in ItemsOf(s)
        /\ pendingData' = [pendingData EXCEPT ![s] = @ \cup {j}]
    BY <1>3 DEF SendData
  <2>2. j \in ItemsOf(t) => s = t
    BY <2>1, TunnelAssumption DEF ItemsOf, Sides
  <2>3. QED
    BY <1>2, <2>1, <2>2 DEF TypeOK
<1>4. ASSUME NEW s \in Sides, NEW v \in Vpids, RecvVerified(s, v)
      PROVE  i \in pendingData'[t] \/ delivered'[i] > 0
  <2> DEFINE b == Received(s, v).body
  <2>1. /\ i \in sent
        /\ Received(s, v) \in Range(wire[Other(s)][v])
        /\ Received(s, v).kind = "encrypted"
        /\ pendingData' = IF b.kind = "ack" THEN [pendingData EXCEPT ![s] = @ \ {b.item}]
                          ELSE pendingData
    BY <1>4, VerifiedStep
  <2>2. CASE b.kind = "ack" /\ b.item = i
    <3>1. delivered[i] > 0
      BY <2>1, <2>2, SidesDiffer DEF AcksAreTrue
    <3>2. QED
      BY <1>1, <2>1, <3>1
  <2>3. CASE ~(b.kind = "ack" /\ b.item = i)
    <3>1. i \in pendingData[t] => i \in pendingData'[t]
      BY <2>1, <2>3 DEF TypeOK
    <3>2. QED
      BY <1>1, <2>1, <3>1, <1>0 DEF AckedIsDelivered
  <2>4. QED
    BY <2>2, <2>3
<1>5. ASSUME NEW s \in Sides, NEW v \in Vpids,
             \/ Dig(v) \/ RecvOpen(v) \/ RecvOk(v) \/ Lose(v)
             \/ TunnelDies(s, v) \/ RecvDH(s, v) \/ RecvUnknown(s, v) \/ RecvUnverified(s, v)
      PROVE  UNCHANGED <<sent, pendingData>>
  BY <1>5 DEF Dig, RecvOpen, RecvOk, Lose, TunnelDies, RecvDH, RecvUnknown, RecvUnverified
<1>6. ASSUME NEW s \in Sides,
             \/ Request \/ (\E h \in Hashes : HashDies(h))
             \/ (\E again \in SUBSET pendingData[s] : Flush(s, again))
             \/ Close(s) \/ Forget(s) \/ Silence(s) \/ KeepAlive(s) \/ OldPrints(s)
      PROVE  UNCHANGED <<sent, pendingData>>
  BY <1>6 DEF Request, HashDies, Flush, Close, Forget, Silence, KeepAlive, OldPrints
<1>7. UNCHANGED <<sent, pendingData>> => i \in pendingData'[t] \/ delivered'[i] > 0
  BY <1>2
<1>8. UNCHANGED vars => i \in pendingData'[t] \/ delivered'[i] > 0
  BY <1>7
<1>9. QED
  BY <1>3, <1>4, <1>5, <1>6, <1>7, <1>8 DEF Next, Sides

LEMMA OwnDataStep ==
    TypeOK /\ FiniteData /\ TalksUnderKey /\ DataIsOwn /\ [Next]_vars => DataIsOwn'
<1> SUFFICES ASSUME TypeOK, FiniteData, TalksUnderKey, DataIsOwn, [Next]_vars,
                    NEW t \in Sides
             PROVE  /\ \A b \in Range(pendingItems'[t]) : b.kind # "data"
                    /\ \A u \in Vpids : \A x \in Range(wire'[t][u]) :
                           x.kind = "encrypted" /\ x.body.kind = "data"
                               => x.body.item \in ItemsOf(t)
  BY DEF DataIsOwn
<1>1. ASSUME NEW b \in Range(pendingItems'[t]) PROVE b.kind # "data"
  <2>1. b \in Range(pendingItems[t]) \/ b = Hello \/ b.kind = "ack"
    BY BodyStep
  <2>2. QED
    BY <2>1 DEF DataIsOwn, Hello
<1>2. ASSUME NEW u \in Vpids, NEW x \in Range(wire'[t][u]),
             x.kind = "encrypted", x.body.kind = "data"
      PROVE  x.body.item \in ItemsOf(t)
  <2>1. CASE x \in Range(wire[t][u])
    BY <1>2, <2>1 DEF DataIsOwn
  <2>2. CASE Enters(t, x)
    <3>1. x.body # [kind |-> "closing"] /\ x.body \notin Range(pendingItems[t])
      BY <1>2 DEF DataIsOwn
    <3>2. x.body.item \in pendingData[t]
      BY <1>2, <2>2, <3>1 DEF Enters
    <3>3. QED
      BY <3>2 DEF TypeOK
  <2>3. QED
    BY <2>1, <2>2, WireStep
<1>3. QED
  BY <1>1, <1>2

LEMMA CountStep ==
    TypeOK /\ DataIsOwn /\ DeliveriesCounted /\ [Next]_vars => DeliveriesCounted'
<1> SUFFICES ASSUME TypeOK, DataIsOwn, DeliveriesCounted, [Next]_vars,
                    NEW t \in Sides, NEW i \in ItemsOf(Other(t))
             PROVE  delivered'[i] <= forgot'[t]
                        + (IF contacts'[t] # None /\ i \in contacts'[t].prints THEN 1 ELSE 0)
  <2>1. \A s \in Sides : Other(s) \in Sides /\ Other(Other(s)) = s
    BY SidesDiffer
  <2>2. QED
    BY <2>1 DEF DeliveriesCounted, Printed, HasContact
<1>0. /\ i \in Items /\ delivered[i] \in Nat /\ forgot[t] \in Nat
      /\ delivered[i] <= forgot[t]
             + (IF HasContact(t) /\ i \in contacts[t].prints THEN 1 ELSE 0)
  BY SidesDiffer DEF TypeOK, Items, ItemsOf, DeliveriesCounted, Printed
<1>1. ASSUME NEW s \in Sides, NEW v \in Vpids, RecvVerified(s, v)
      PROVE  delivered'[i] <= forgot'[t]
                 + (IF contacts'[t] # None /\ i \in contacts'[t].prints THEN 1 ELSE 0)
  <2> DEFINE b == Received(s, v).body
  <2>1. forgot' = forgot /\ (s # t => contacts'[t] = contacts[t])
    BY <1>1, VerifiedStep
  <2>2. CASE b.kind = "data" /\ b.item = i
    <3>1. b.item \in ItemsOf(Other(s))
      BY <1>1, <2>2, VerifiedStep, SidesDiffer DEF DataIsOwn
    <3>2. s = t
      BY <2>2, <3>1, TunnelAssumption DEF ItemsOf, Other, Sides
    <3>3. /\ contacts'[t] \in Contact /\ HasContact(t)
          /\ contacts'[t].prints = contacts[t].prints \cup {i}
          /\ delivered' = IF i \in contacts[t].prints THEN delivered
                          ELSE [delivered EXCEPT ![i] = @ + 1]
      BY <1>1, <2>2, <3>2, VerifiedStep DEF RecvVerified, Known
    <3>4. delivered'[i] <= delivered[i]
              + (IF i \in contacts[t].prints THEN 0 ELSE 1)
      <4>1. delivered \in [Items -> Nat]
        BY DEF TypeOK
      <4>2. QED
        BY <1>0, <3>3, <4>1
    <3>5. QED
      BY <1>0, <2>1, <3>3, <3>4, NoneIsNothing, DeliveredGrows
  <2>3. CASE ~(b.kind = "data" /\ b.item = i)
    <3>1. delivered'[i] = delivered[i]
      <4>1. delivered \in [Items -> Nat]
        BY DEF TypeOK
      <4>2. \/ delivered' = delivered
            \/ b.kind = "data" /\ delivered' = [delivered EXCEPT ![b.item] = @ + 1]
        BY <1>1, VerifiedStep
      <4>3. QED
        BY <1>0, <2>3, <4>1, <4>2
    <3>2. CASE s = t
      <4>1. /\ contacts'[t] \in Contact /\ HasContact(t)
            /\ contacts[t].prints \subseteq contacts'[t].prints
        BY <1>1, <3>2, VerifiedStep DEF RecvVerified, Known
      <4>2. QED
        BY <1>0, <2>1, <3>1, <4>1, NoneIsNothing
    <3>3. QED
      BY <1>0, <2>1, <3>1, <3>2 DEF HasContact
  <2>4. QED
    BY <2>2, <2>3
<1>2. CASE /\ contacts'[t] # None => contacts'[t].prints = {}
           /\ HasContact(t) => forgot'[t] = forgot[t] + 1
           /\ UNCHANGED delivered /\ forgot'[t] \in {forgot[t], forgot[t] + 1}
  BY <1>0, <1>2
<1>3. CASE /\ contacts'[t] # None
           /\ contacts'[t].prints = contacts[t].prints
           /\ UNCHANGED delivered /\ forgot'[t] = forgot[t]
  BY <1>0, <1>3
<1>4. CASE contacts'[t] = contacts[t] /\ UNCHANGED delivered /\ forgot'[t] = forgot[t]
  BY <1>0, <1>4 DEF HasContact
<1>5. QED
  BY <1>1, <1>2, <1>3, <1>4, PrintsStep

(***************************************************************************)
(* The two halves of a key                                                 *)
(***************************************************************************)

LEMMA NoVpidIsNone == NoVpid \notin Vpids
BY DEF NoVpid, Vpids, Hashes

(* A session is done by a public key that arrives, and the contact then    *)
(* runs over its virtual peer, under the side's own half and the other.    *)
Finishes(s, v) == RecvDH(s, v) /\ Expects(s, v)

LEMMA FinishesStep ==
    ASSUME TypeOK, OwnHalf, NEW s \in Sides, NEW v \in Vpids, Finishes(s, v)
    PROVE  LET k == virtualPeers'[s][v].dh
           IN /\ k # 0
              /\ virtualPeers'[Other(s)] = virtualPeers[Other(s)]
              /\ contacts'[s].key[s] = k
              /\ contacts'[s].key[Other(s)] = Received(s, v).pub
              /\ contacts'[Other(s)] = contacts[Other(s)]
              /\ \/ pendingDH'[s][v] = Append(pendingDH[s][v], k)
                 \/ /\ k = virtualPeers[s][v].dh
                    /\ pendingDH'[s][v] = pendingDH[s][v]
              /\ pendingDH'[Other(s)] = pendingDH[Other(s)]
              /\ wire' = Taken(s, v) /\ Arrives(s, v, "dh")
              /\ lossy' = lossy
<1> DEFINE k == IF Done(s, v) THEN NewKey(s) ELSE virtualPeers[s][v].dh
<1>1. virtualPeers[s][v] \in VirtualPeer /\ virtualPeers[s][v].dh # 0
  BY DEF Finishes, Expects, HasPeer, TypeOK
<1>2. Done(s, v) <=> virtualPeers[s][v].status = "key"
  BY DEF Done, Finishes, Expects
<1>3. k \in 1 .. MaxKeys
  <2>1. CASE Done(s, v)
    <3>1. keys[s] \in Nat /\ KeyUsed(s)
      BY <1>2, <2>1 DEF Finishes, RecvDH, TypeOK
    <3>2. QED
      BY <2>1, <3>1, TunnelAssumption DEF KeyUsed, NewKey
  <2>2. CASE ~Done(s, v)
    BY <1>1, <2>2, TunnelAssumption DEF VirtualPeer
  <2>3. QED
    BY <2>1, <2>2
<1>4. /\ virtualPeers' = [virtualPeers EXCEPT ![s][v] =
             [dh |-> k, status |-> "key", linked |-> TRUE]]
      /\ contacts' = [contacts EXCEPT ![s] =
             [ContactOf(s) EXCEPT !.status = "talk", !.vpid = v,
                                  !.key = Shared(s, v, k, Received(s, v).pub)]]
      /\ pendingDH' = IF Done(s, v) THEN [pendingDH EXCEPT ![s][v] = Append(@, k)]
                      ELSE pendingDH
      /\ wire' = Taken(s, v) /\ Arrives(s, v, "dh")
      /\ lossy' = lossy
  BY <1>2 DEF Finishes, RecvDH, history
<1> HIDE DEF k
<1>5. Received(s, v).pub \in 1 .. MaxKeys
  BY <1>4, TakenType, ItemTypes DEF TypeOK, Wires
<1>6. /\ Shared(s, v, k, Received(s, v).pub)[s] = k
      /\ Shared(s, v, k, Received(s, v).pub)[Other(s)] = Received(s, v).pub
  BY <1>3, <1>5, SharedType
<1>7. ContactOf(s) \in Contact
  BY NewOnes DEF ContactOf, HasContact, TypeOK
<1>8. contacts'[s].key = Shared(s, v, k, Received(s, v).pub)
  BY <1>4, <1>7 DEF TypeOK, Contact
<1>9. /\ virtualPeers'[s][v].dh = k
      /\ virtualPeers'[Other(s)] = virtualPeers[Other(s)]
      /\ contacts'[Other(s)] = contacts[Other(s)]
      /\ pendingDH'[s][v] = IF Done(s, v) THEN Append(pendingDH[s][v], k)
                            ELSE pendingDH[s][v]
      /\ pendingDH'[Other(s)] = pendingDH[Other(s)]
  BY <1>4, SidesDiffer DEF TypeOK
<1>10. k # 0 /\ (k = virtualPeers[s][v].dh \/ Done(s, v))
  BY <1>3, TunnelAssumption DEF k
<1>11. QED
  BY <1>4, <1>6, <1>8, <1>9, <1>10

(* A contact comes to run over a virtual peer in no other way.             *)
LEMMA ContactStep ==
    ASSUME TypeOK, [Next]_vars, NEW t \in Sides, NEW u \in Vpids,
           contacts'[t] # None, contacts'[t].vpid = u
    PROVE  \/ Finishes(t, u)
           \/ HasContact(t) /\ contacts[t].vpid = u /\ contacts'[t].key = contacts[t].key
<1> USE DEF vars
<1> DEFINE Same == HasContact(t) /\ contacts[t].vpid = u /\ contacts'[t].key = contacts[t].key
<1>0. contacts'[t] = contacts[t] => Same
  BY DEF HasContact
<1>1. ASSUME Request PROVE Same
  <2>1. t # "client"
    BY <1>1, NoVpidIsNone DEF Request, TypeOK, NewContact
  <2>2. QED
    BY <1>0, <1>1, <2>1 DEF Request, TypeOK
<1>2. ASSUME NEW s \in Sides, NEW peers, RemovePeers(s, peers) PROVE Same
  <2>1. contacts'[s] \in {contacts[s],
                          [contacts[s] EXCEPT !.status = "down", !.vpid = NoVpid]}
        /\ (t # s => contacts'[t] = contacts[t])
        /\ (~HasContact(s) => contacts'[s] = contacts[s])
    BY <1>2 DEF RemovePeers, TypeOK
  <2>2. CASE t = s /\ HasContact(s)
    <3>1. contacts[s] \in Contact
      BY <2>2 DEF HasContact, TypeOK
    <3>2. [contacts[s] EXCEPT !.status = "down", !.vpid = NoVpid].vpid = NoVpid
      BY <3>1 DEF Contact
    <3>3. QED
      BY <1>0, <2>1, <2>2, <3>2, NoVpidIsNone
  <2>3. QED
    BY <1>0, <2>1, <2>2
<1>3. ASSUME NEW s \in Sides, Close(s) \/ Forget(s) PROVE Same
  <2>1. contacts' = [contacts EXCEPT ![s] = None]
    BY <1>3 DEF Close, Forget
  <2>2. QED
    BY <1>0, <2>1 DEF TypeOK
<1>4. ASSUME NEW s \in Sides, Silence(s) PROVE Same
  <2>1. contacts[s] \in Contact
    BY <1>4 DEF Silence, CanTalk, HasContact, TypeOK
  <2>2. t # s
    BY <1>4, <2>1, NoVpidIsNone DEF Silence, TypeOK, Contact
  <2>3. QED
    BY <1>0, <1>4, <2>2 DEF Silence, TypeOK
<1>5. ASSUME NEW s \in Sides, OldPrints(s) PROVE Same
  <2>1. CASE t = s
    <3>1. contacts[s] \in Contact
      BY <1>5 DEF OldPrints, HasContact, TypeOK
    <3>2. contacts'[s].key = contacts[s].key /\ contacts'[s].vpid = contacts[s].vpid
      BY <1>5, <3>1 DEF OldPrints, TypeOK, Contact
    <3>3. QED
      BY <1>5, <2>1, <3>2 DEF OldPrints
  <2>2. QED
    BY <1>0, <1>5, <2>1 DEF OldPrints, TypeOK
<1>6. ASSUME NEW s \in Sides, NEW v \in Vpids, RecvDH(s, v) PROVE Finishes(t, u) \/ Same
  <2> DEFINE k == IF virtualPeers[s][v].status = "key" THEN NewKey(s)
                  ELSE virtualPeers[s][v].dh
  <2>1. CASE contacts'[t] # contacts[t]
    <3>1. Expects(s, v) /\ t = s
      BY <1>6, <2>1 DEF RecvDH, TypeOK
    <3>2. contacts'[s] = [ContactOf(s) EXCEPT !.status = "talk", !.vpid = v,
                             !.key = Shared(s, v, k, Received(s, v).pub)]
      BY <1>6, <3>1 DEF RecvDH, TypeOK
    <3>3. ContactOf(s) \in Contact
      BY NewOnes DEF ContactOf, HasContact, TypeOK
    <3>4. contacts'[s].vpid = v
      BY <3>2, <3>3 DEF Contact
    <3>5. QED
      BY <1>6, <3>1, <3>4 DEF Finishes
  <2>2. QED
    BY <1>0, <2>1
<1>7. ASSUME NEW s \in Sides, NEW v \in Vpids, RecvVerified(s, v) PROVE Same
  <2> DEFINE c == contacts[s]
             b == Received(s, v).body
  <2>1. CASE t = s
    <3>1. c \in Contact /\ HasContact(s)
      BY <1>7 DEF RecvVerified, Known, HasContact, TypeOK
    <3>3. \/ contacts' = [contacts EXCEPT ![s] = [c EXCEPT !.status = "talk",
                             !.user = TRUE, !.prints = c.prints \cup {b.item}]]
          \/ \E status : contacts' = [contacts EXCEPT ![s].status = status]
      BY <1>7 DEF RecvVerified
    <3>4. contacts'[s].key = c.key /\ contacts'[s].vpid = c.vpid
      <4>1. CASE contacts' = [contacts EXCEPT ![s] = [c EXCEPT !.status = "talk",
                                 !.user = TRUE, !.prints = c.prints \cup {b.item}]]
        BY <3>1, <4>1 DEF TypeOK, Contact
      <4>2. ASSUME NEW status, contacts' = [contacts EXCEPT ![s].status = status]
            PROVE  contacts'[s].key = c.key /\ contacts'[s].vpid = c.vpid
        BY <3>1, <4>2 DEF TypeOK, Contact
      <4>3. QED
        BY <3>3, <4>1, <4>2
    <3>5. QED
      BY <2>1, <3>1, <3>4
  <2>2. CASE t # s
    <3>1. contacts'[t] = contacts[t]
      BY <1>7, <2>2 DEF RecvVerified, TypeOK
    <3>2. QED
      BY <1>0, <3>1
  <2>3. QED
    BY <2>1, <2>2
<1>8. ASSUME UNCHANGED contacts PROVE Same
  BY <1>0, <1>8
<1>9. ASSUME NEW s \in Sides, NEW v \in Vpids,
             \/ Dig(v) \/ RecvOpen(v) \/ RecvOk(v) \/ Lose(v)
             \/ RecvUnknown(s, v) \/ RecvUnverified(s, v)
      PROVE  UNCHANGED contacts
  BY <1>9 DEF Dig, RecvOpen, RecvOk, Lose, RecvUnknown, RecvUnverified
<1>10. ASSUME NEW s \in Sides,
              \/ (\E i \in Items : SendData(s, i))
              \/ (\E again \in SUBSET pendingData[s] : Flush(s, again))
              \/ KeepAlive(s)
       PROVE  UNCHANGED contacts
  BY <1>10 DEF SendData, Flush, KeepAlive
<1>11. ASSUME NEW s \in Sides, NEW v \in Vpids, TunnelDies(s, v) PROVE Same
  BY <1>2, <1>11 DEF TunnelDies
<1>12. ASSUME NEW h \in Hashes, HashDies(h) PROVE Same
  BY <1>2, <1>12 DEF HashDies, Sides
<1> HIDE DEF Same
<1>13. Finishes(t, u) \/ Same
  BY <1>1, <1>3, <1>4, <1>5, <1>6, <1>7, <1>8, <1>9, <1>10, <1>11, <1>12 DEF Next, Sides
<1>14. QED
  BY <1>13 DEF Same

(* What becomes of a side's session over a virtual peer.                   *)
Restarts(s, v) ==
    /\ virtualPeers'[s][v] # None /\ virtualPeers'[s][v].status = "half"
    /\ pendingDH'[s][v] = Append(pendingDH[s][v], virtualPeers'[s][v].dh)
Stays(s, v) ==
    /\ virtualPeers'[s][v] = virtualPeers[s][v]
    /\ pendingDH'[s][v] = pendingDH[s][v]
       \/ \E again \in SUBSET pendingData[s] : Flush(s, again)

LEMMA RestartStep ==
    ASSUME TypeOK, NEW s \in Sides, NEW v \in Vpids, NEW p \in VirtualPeer,
           RestartDH(s, v, p), NEW t \in Sides, NEW u \in Vpids
    PROVE  Restarts(t, u) \/ Stays(t, u)
<1>1. CASE t = s /\ u = v
  <2> DEFINE q == [p EXCEPT !.dh = NewKey(s), !.status = "half"]
  <2>0. NewKey(s) \in 1 .. MaxKeys /\ NewKey(s) \in 0 .. MaxKeys
    BY RestartType, TunnelAssumption
  <2>1. q \in VirtualPeer /\ q.dh = NewKey(s) /\ q.status = "half"
    BY <2>0 DEF VirtualPeer
  <2>2. virtualPeers'[s][v] = q /\ pendingDH'[s][v] = Append(pendingDH[s][v], NewKey(s))
    BY DEF RestartDH, TypeOK
  <2>3. QED
    BY <1>1, <2>1, <2>2, NoneIsNothing DEF Restarts
<1>2. CASE ~(t = s /\ u = v)
  BY <1>2 DEF RestartDH, TypeOK, Stays
<1>3. QED
  BY <1>1, <1>2

LEMMA SessionStep ==
    ASSUME TypeOK, [Next]_vars, NEW t \in Sides, NEW u \in Vpids
    PROVE  \/ virtualPeers'[t][u] = None
           \/ virtualPeers'[t][u] = NewPeer
           \/ Restarts(t, u) \/ Finishes(t, u) \/ Stays(t, u)
<1> USE DEF vars, queues, exchange
<1> DEFINE Gone == virtualPeers'[t][u] = None
           New == virtualPeers'[t][u] = NewPeer
<1>1. ASSUME UNCHANGED <<virtualPeers, pendingDH>> PROVE Stays(t, u)
  BY <1>1 DEF Stays
<1>2. ASSUME NEW s \in Sides, NEW peers, RemovePeers(s, peers), UNCHANGED pendingDH
      PROVE  Gone \/ Stays(t, u)
  BY <1>2 DEF RemovePeers, TypeOK, Stays
<1>3. ASSUME NEW v \in Vpids, RecvOpen(v) PROVE Restarts(t, u) \/ Stays(t, u)
  BY <1>3, RestartStep, NewOnes DEF RecvOpen, Sides
<1>4. ASSUME NEW v \in Vpids, RecvOk(v) PROVE New \/ Restarts(t, u) \/ Stays(t, u)
  <2>1. CASE RestartDH("client", v, NewPeer)
    BY <2>1, RestartStep, NewOnes DEF Sides
  <2>2. CASE UNCHANGED <<virtualPeers, pendingDH>>
    BY <1>1, <2>2
  <2>3. CASE /\ virtualPeers' = [virtualPeers EXCEPT !["client"][v] = NewPeer]
             /\ UNCHANGED pendingDH
    BY <2>3 DEF TypeOK, Stays
  <2>4. QED
    BY <1>4, <2>1, <2>2, <2>3 DEF RecvOk
<1>5. ASSUME NEW s \in Sides, NEW v \in Vpids, RecvUnverified(s, v)
      PROVE  Restarts(t, u) \/ Stays(t, u)
  <2>1. virtualPeers[s][v] \in VirtualPeer
    BY <1>5 DEF RecvUnverified, Known, HasPeer, TypeOK
  <2>2. QED
    BY <1>5, <2>1, RestartStep DEF RecvUnverified
<1>6. ASSUME NEW s \in Sides, NEW v \in Vpids, RecvDH(s, v)
      PROVE  Finishes(t, u) \/ Stays(t, u)
  <2>1. CASE ~Expects(s, v)
    BY <1>1, <1>6, <2>1 DEF RecvDH
  <2>2. CASE Expects(s, v) /\ t = s /\ u = v
    BY <1>6, <2>2 DEF Finishes
  <2>3. CASE Expects(s, v) /\ ~(t = s /\ u = v)
    <3> DEFINE k == IF virtualPeers[s][v].status = "key" THEN NewKey(s)
                    ELSE virtualPeers[s][v].dh
    <3>1. /\ virtualPeers' = [virtualPeers EXCEPT ![s][v] =
                 [dh |-> k, status |-> "key", linked |-> TRUE]]
          /\ pendingDH' = pendingDH
             \/ pendingDH' = [pendingDH EXCEPT ![s][v] = Append(@, k)]
      BY <1>6, <2>3 DEF RecvDH
    <3>2. virtualPeers'[t][u] = virtualPeers[t][u]
      BY <2>3, <3>1 DEF TypeOK
    <3>3. pendingDH'[t][u] = pendingDH[t][u]
      BY SMTT(30), <2>3, <3>1 DEF TypeOK
    <3>4. QED
      BY <3>2, <3>3 DEF Stays
  <2>4. QED
    BY <2>1, <2>2, <2>3
<1>7. ASSUME NEW s \in Sides, NEW again \in SUBSET pendingData[s], Flush(s, again)
      PROVE  Stays(t, u)
  <2>1. virtualPeers' = virtualPeers
        /\ pendingDH' = [pendingDH EXCEPT ![s] = [v \in Vpids |-> <<>>]]
    BY <1>7 DEF Flush
  <2>2. QED
    BY <1>7, <2>1 DEF Stays, TypeOK
<1>8. ASSUME NEW s \in Sides, NEW v \in Vpids, TunnelDies(s, v) PROVE Gone \/ Stays(t, u)
  BY <1>2, <1>8 DEF TunnelDies
<1>9. ASSUME NEW h \in Hashes, HashDies(h) PROVE Gone \/ Stays(t, u)
  BY <1>2, <1>9 DEF HashDies, Sides
<1>10. ASSUME NEW s \in Sides, NEW v \in Vpids,
             \/ Dig(v) \/ Lose(v) \/ RecvUnknown(s, v) \/ RecvVerified(s, v)
             \/ Request \/ (\E i \in Items : SendData(s, i)) \/ Close(s)
       PROVE  UNCHANGED <<virtualPeers, pendingDH>>
  BY <1>10 DEF Dig, Lose, RecvUnknown, RecvVerified, Request, SendData, Close
<1>11. ASSUME NEW s \in Sides, Forget(s) \/ Silence(s) \/ KeepAlive(s) \/ OldPrints(s)
       PROVE  UNCHANGED <<virtualPeers, pendingDH>>
  BY <1>11 DEF Forget, Silence, KeepAlive, OldPrints
<1> HIDE DEF Gone, New
<1>12. Gone \/ New \/ Restarts(t, u) \/ Finishes(t, u) \/ Stays(t, u)
  BY <1>1, <1>3, <1>4, <1>5, <1>6, <1>7, <1>8, <1>9, <1>10, <1>11 DEF Next, Sides
<1>13. QED
  BY <1>12 DEF Gone, New

LEMMA OwnHalfStep == TypeOK /\ OwnHalf /\ [Next]_vars => OwnHalf'
<1> SUFFICES ASSUME TypeOK, OwnHalf, [Next]_vars, NEW t \in Sides, NEW u \in Vpids,
                    virtualPeers'[t][u] # None, virtualPeers'[t][u].status = "key"
             PROVE  /\ virtualPeers'[t][u].dh # 0
                    /\ contacts'[t] # None /\ contacts'[t].vpid = u
                          => contacts'[t].key[t] = virtualPeers'[t][u].dh
  BY DEF OwnHalf, RunsOver, Done, HasPeer, HasContact
<1>1. CASE Finishes(t, u)
  BY <1>1, FinishesStep
<1>2. CASE Stays(t, u) /\ ~Finishes(t, u)
  <2>1. Done(t, u) /\ virtualPeers'[t][u] = virtualPeers[t][u]
    BY <1>2 DEF Stays, Done, HasPeer
  <2>2. contacts'[t] # None /\ contacts'[t].vpid = u
            => RunsOver(t, u) /\ contacts'[t].key = contacts[t].key
    BY <1>2, <2>1, ContactStep DEF RunsOver
  <2>3. QED
    BY <2>1, <2>2 DEF OwnHalf
<1>3. ~Restarts(t, u) /\ virtualPeers'[t][u] # NewPeer
  BY DEF Restarts, NewPeer
<1>4. QED
  BY <1>1, <1>2, <1>3, SessionStep

(* Public keys in what is under way: when its head is taken, when something *)
(* else follows, and when public keys follow.                              *)
LEMMA KeysOfTail ==
    ASSUME NEW q \in Seq(Item), q # <<>>, NEW pub, LastKeyIs(q, pub)
    PROVE  /\ LastKeyIs(Tail(q), pub)
           /\ NoKeyIn(Tail(q)) /\ Head(q).kind # "dh" => NoKeyIn(q)
           /\ NoKeyIn(Tail(q)) /\ Head(q).kind = "dh" => Head(q).pub = pub
<1>1. /\ Len(q) \in Nat /\ Len(q) >= 1 /\ Len(Tail(q)) = Len(q) - 1 /\ Head(q) = q[1]
      /\ \A n \in 1 .. Len(Tail(q)) : Tail(q)[n] = q[n + 1]
  BY HeadTailProperties
<1>2. ASSUME NEW n \in 1 .. Len(Tail(q)), Tail(q)[n].kind = "dh",
             \A m \in 1 .. Len(Tail(q)) : m > n => Tail(q)[m].kind # "dh"
      PROVE  Tail(q)[n].pub = pub
  <2>1. n + 1 \in 1 .. Len(q) /\ q[n + 1].kind = "dh"
    BY <1>1, <1>2
  <2>2. ASSUME NEW m \in 1 .. Len(q), m > n + 1 PROVE q[m].kind # "dh"
    <3>1. m - 1 \in 1 .. Len(Tail(q)) /\ m - 1 > n /\ Tail(q)[m - 1] = q[(m - 1) + 1]
      BY <1>1, <2>2
    <3>2. (m - 1) + 1 = m
      OBVIOUS
    <3>3. QED
      BY <1>2, <3>1, <3>2
  <2>3. QED
    BY <1>1, <2>1, <2>2 DEF LastKeyIs
<1>3. ASSUME NoKeyIn(Tail(q)), NEW m \in 1 .. Len(q), m > 1 PROVE q[m].kind # "dh"
  <2>1. m - 1 \in 1 .. Len(Tail(q)) /\ Tail(q)[m - 1] = q[(m - 1) + 1] /\ (m - 1) + 1 = m
    BY <1>1, <1>3
  <2>2. QED
    BY <1>3, <2>1 DEF NoKeyIn
<1>4. NoKeyIn(Tail(q)) /\ Head(q).kind # "dh" => NoKeyIn(q)
  BY <1>1, <1>3 DEF NoKeyIn
<1>5. NoKeyIn(Tail(q)) /\ Head(q).kind = "dh" => Head(q).pub = pub
  BY <1>1, <1>3 DEF LastKeyIs
<1>6. QED
  BY <1>2, <1>4, <1>5 DEF LastKeyIs

LEMMA KeysOfConcat ==
    ASSUME NEW q \in Seq(Item), NEW r \in Seq(Item), NoKeyIn(r)
    PROVE  /\ NoKeyIn(q \o r) => NoKeyIn(q)
           /\ \A pub : LastKeyIs(q, pub) => LastKeyIs(q \o r, pub)
<1>1. /\ Len(q) \in Nat /\ Len(r) \in Nat /\ Len(q \o r) = Len(q) + Len(r)
      /\ \A n \in 1 .. Len(q) : n \in 1 .. Len(q \o r) /\ (q \o r)[n] = q[n]
      /\ \A n \in 1 .. Len(q \o r) : n > Len(q) => (q \o r)[n] = r[n - Len(q)]
                                                   /\ n - Len(q) \in 1 .. Len(r)
  BY ConcatProperties
<1>2. NoKeyIn(q \o r) => NoKeyIn(q)
  BY <1>1 DEF NoKeyIn
<1>3. ASSUME NEW pub, LastKeyIs(q, pub), NEW n \in 1 .. Len(q \o r),
             (q \o r)[n].kind = "dh",
             \A m \in 1 .. Len(q \o r) : m > n => (q \o r)[m].kind # "dh"
      PROVE  (q \o r)[n].pub = pub
  <2>1. n \in 1 .. Len(q)
    BY <1>1, <1>3 DEF NoKeyIn
  <2>2. \A m \in 1 .. Len(q) : m > n => q[m].kind # "dh"
    BY <1>1, <1>3
  <2>3. QED
    BY <1>1, <1>3, <2>1, <2>2 DEF LastKeyIs
<1>4. QED
  BY <1>2, <1>3 DEF LastKeyIs

LEMMA KeysOfPublic ==
    ASSUME NEW q \in Seq(Item), NEW pubs \in Seq(1 .. MaxKeys), pubs # <<>>
    PROVE  /\ LastKeyIs(q \o PublicKeys(pubs), pubs[Len(pubs)])
           /\ ~NoKeyIn(q \o PublicKeys(pubs))
<1> DEFINE r == PublicKeys(pubs)
           e == Len(q) + Len(pubs)
<1>1. /\ r \in Seq(Item) /\ Len(r) = Len(pubs) /\ Len(q) \in Nat
      /\ Len(pubs) \in Nat /\ Len(pubs) >= 1
      /\ r[Len(pubs)] = [kind |-> "dh", pub |-> pubs[Len(pubs)]]
  BY PublicKeysType
<1> HIDE DEF r
<1>a. e \in Nat /\ e >= 1 /\ e = Len(q) + Len(pubs)
  BY <1>1
<1>b. e > Len(q) /\ e - Len(q) = Len(pubs)
  BY <1>1
<1> HIDE DEF e
<1>c. \A n \in 1 .. Len(q) + Len(r) : (q \o r)[n] =
          IF n <= Len(q) THEN q[n] ELSE r[n - Len(q)]
  BY <1>1, ConcatProperties
<1>d. Len(q \o r) = e
  <2>1. Len(q \o r) = Len(q) + Len(r)
    BY <1>1, ConcatProperties
  <2>2. Len(r) = Len(pubs)
    BY <1>1
  <2>3. QED
    BY <2>1, <2>2, <1>a
<1>2. Len(q \o r) = e /\ e \in 1 .. e /\ (q \o r)[e] = r[Len(pubs)]
  BY <1>1, <1>a, <1>b, <1>c, <1>d
<1>3. (q \o r)[e].kind = "dh" /\ (q \o r)[e].pub = pubs[Len(pubs)]
  BY <1>1, <1>2
<1>4. \A n \in 1 .. e : n # e => e > n
  BY <1>a
<1>5. QED
  BY <1>2, <1>3, <1>4 DEF LastKeyIs, NoKeyIn, r

(* What flush leaves under way: the public keys, and then no other.        *)
LEMMA FlushStep ==
    ASSUME TypeOK, FiniteData, TalksUnderKey, NEW s \in Sides,
           NEW again \in SUBSET pendingData[s], Flush(s, again), NEW v \in Vpids
    PROVE  /\ pendingDH'[s][v] = <<>>
           /\ \E r \in Seq(Item) : NoKeyIn(r) /\ wire'[s][v] = DHSent(s)[s][v] \o r
           /\ wire'[Other(s)] = wire[Other(s)]
<1>1. pendingDH'[s][v] = <<>>
  BY DEF Flush, TypeOK
<1>2. DHSent(s) \in Wires /\ DHSent(s)[Other(s)] = wire[Other(s)]
  BY DHSentType, SidesDiffer DEF DHSent, TypeOK
<1>3. ASSUME wire'[s][v] = DHSent(s)[s][v]
      PROVE  \E r \in Seq(Item) : NoKeyIn(r) /\ wire'[s][v] = DHSent(s)[s][v] \o r
  <2>1. DHSent(s)[s][v] \o <<>> = DHSent(s)[s][v]
    BY <1>2, ConcatEmptySeq DEF Wires
  <2>2. <<>> \in Seq(Item) /\ NoKeyIn(<<>>)
    BY DEF NoKeyIn
  <2>3. QED
    BY <1>3, <2>1, <2>2
<1>4. CASE ~CanTalk(s)
  BY <1>1, <1>2, <1>3, <1>4 DEF Flush
<1>5. CASE CanTalk(s)
  <2> DEFINE items == Encrypted(contacts[s], FlushBodies(s, again))
  <2>1. wire' = Sent(DHSent(s), s, contacts[s].vpid, items)
    BY <1>5 DEF Flush, DataBodies, FlushBodies
  <2>2. contacts[s].key \in Keys
    BY <1>5 DEF TypeOK, TalksUnderKey, CanTalk, HasContact, Contact
  <2>3. items \in Seq(Item) /\ NoKeyIn(items)
    <3>1. FlushBodies(s, again) \in Seq(Body)
      BY FlushBodiesType
    <3>2. /\ items \in Seq(Item) /\ Len(items) = Len(FlushBodies(s, again))
          /\ \A n \in 1 .. Len(items) : items[n] = [kind |-> "encrypted",
                 key |-> contacts[s].key, body |-> FlushBodies(s, again)[n]]
      BY <2>2, <3>1, EncryptedType
    <3> HIDE DEF items
    <3>3. ASSUME NEW n \in 1 .. Len(items) PROVE items[n].kind # "dh"
      <4>1. items[n] = [kind |-> "encrypted", key |-> contacts[s].key,
                        body |-> FlushBodies(s, again)[n]]
        BY <3>2, Zenon
      <4>2. QED
        BY <4>1
    <3>4. QED
      BY <3>2, <3>3 DEF NoKeyIn
  <2> HIDE DEF items
  <2>4. wire'[Other(s)] = wire[Other(s)]
        /\ wire'[s][v] \in {DHSent(s)[s][v], DHSent(s)[s][v] \o items}
    BY <1>2, <2>1, SidesDiffer DEF Sent, Wires
  <2>5. QED
    BY <1>1, <1>3, <2>3, <2>4
<1>6. QED
  BY <1>4, <1>5

(* What becomes of the public keys under way from a side over a virtual    *)
(* peer that loses nothing.                                                *)
LEMMA UnderWayStep ==
    ASSUME TypeOK, FiniteData, TalksUnderKey, [Next]_vars,
           NEW t \in Sides, NEW u \in Vpids \ lossy'
    PROVE  \/ RecvDH(Other(t), u)
           \/ \E again \in SUBSET pendingData[t] : Flush(t, again)
           \/ /\ wire[t][u] # <<>> /\ Head(wire[t][u]).kind # "dh"
              /\ wire'[t][u] = Tail(wire[t][u])
           \/ \E r \in Seq(Item) : NoKeyIn(r) /\ wire'[t][u] = wire[t][u] \o r
<1> USE DEF vars, history
<1> DEFINE Read == RecvDH(Other(t), u)
           Sends == \E again \in SUBSET pendingData[t] : Flush(t, again)
           Takes == /\ wire[t][u] # <<>> /\ Head(wire[t][u]).kind # "dh"
                    /\ wire'[t][u] = Tail(wire[t][u])
           Grows == \E r \in Seq(Item) : NoKeyIn(r) /\ wire'[t][u] = wire[t][u] \o r
<1>0. wire \in Wires /\ wire[t][u] \in Seq(Item)
  BY DEF TypeOK, Wires
<1>1. ASSUME wire'[t][u] = wire[t][u] PROVE Grows
  <2>1. wire[t][u] \o <<>> = wire[t][u]
    BY <1>0, ConcatEmptySeq
  <2>2. <<>> \in Seq(Item) /\ NoKeyIn(<<>>)
    BY DEF NoKeyIn
  <2>3. QED
    BY <1>1, <2>1, <2>2
<1>2. ASSUME NEW x \in Item, x.kind # "dh", wire'[t][u] = Append(wire[t][u], x) PROVE Grows
  <2>1. wire'[t][u] = wire[t][u] \o <<x>>
    BY <1>0, <1>2, AppendIsConcat
  <2>2. <<x>> \in Seq(Item) /\ NoKeyIn(<<x>>)
    BY <1>2 DEF NoKeyIn
  <2>3. QED
    BY <2>1, <2>2
<1>3. ASSUME NEW s \in Sides, NEW v \in Vpids, NEW kind, kind # "dh", Arrives(s, v, kind),
             wire'[t][u] = Taken(s, v)[t][u]
      PROVE  Takes \/ Grows
  <2>1. CASE t = Other(s) /\ u = v
    BY <1>0, <1>3, <2>1 DEF Taken, Arrives, Wires
  <2>2. CASE ~(t = Other(s) /\ u = v)
    <3>1. wire'[t][u] = wire[t][u]
      BY <1>0, <1>3, <2>2 DEF Taken, Wires
    <3>2. QED
      BY <1>1, <3>1
  <2>3. QED
    BY <2>1, <2>2
<1>4. ASSUME NEW v \in Vpids, Dig(v) PROVE Grows
  <2>1. digs' \in 1 .. MaxDigs
    BY <1>4, TunnelAssumption DEF Dig, TypeOK
  <2>2. CASE t = "client" /\ u = v
    <3> DEFINE x == [kind |-> "open", n |-> digs']
    <3>1. x \in Item /\ x.kind # "dh"
      BY <2>1, ItemTypes
    <3>2. wire'[t][u] = Append(wire[t][u], x)
      BY <1>0, <1>4, <2>2 DEF Dig, Wires
    <3> HIDE DEF x
    <3>3. QED
      BY <1>2, <3>1, <3>2
  <2>3. CASE ~(t = "client" /\ u = v)
    <3>1. wire'[t][u] = wire[t][u]
      BY <1>0, <1>4, <2>3 DEF Dig, Wires
    <3>2. QED
      BY <1>1, <3>1
  <2>4. QED
    BY <2>2, <2>3
<1>5. ASSUME NEW v \in Vpids, RecvOpen(v) PROVE Takes \/ Grows
  <2> DEFINE x == [kind |-> "ok", n |-> Received("server", v).n]
  <2>1. Taken("server", v) \in Wires /\ x \in Item /\ x.kind # "dh"
    BY <1>0, <1>5, TakenType, ItemTypes DEF RecvOpen, Sides
  <2>2. wire' = [Taken("server", v) EXCEPT !["server"][v] = Append(@, x)]
        /\ Arrives("server", v, "open")
    BY <1>5 DEF RecvOpen
  <2> HIDE DEF x
  <2>3. CASE t = "server" /\ u = v
    <3>1. Taken("server", v)["server"][v] = wire["server"][v]
      BY <1>0 DEF Taken, Wires, Other, Sides
    <3>2. wire'[t][u] = Append(wire[t][u], x)
      BY <2>1, <2>2, <2>3, <3>1 DEF Wires
    <3>3. QED
      BY <1>2, <2>1, <3>2
  <2>4. CASE ~(t = "server" /\ u = v)
    <3>1. wire'[t][u] = Taken("server", v)[t][u]
      BY <2>1, <2>2, <2>4 DEF Wires
    <3>2. QED
      BY <1>3, <2>2, <3>1 DEF Sides
  <2>5. QED
    BY <2>3, <2>4
<1>6. ASSUME NEW v \in Vpids, RecvOk(v) PROVE Takes \/ Grows
  BY <1>3, <1>6 DEF RecvOk, Sides
<1>7. ASSUME NEW v \in Vpids, Lose(v) PROVE Grows
  <2>1. u # v
    BY <1>7 DEF Lose
  <2>2. wire'[t][u] = wire[t][u]
    BY <1>0, <1>7, <2>1 DEF Lose, Wires
  <2>3. QED
    BY <1>1, <2>2
<1>8. ASSUME NEW s \in Sides, NEW again \in SUBSET pendingData[s], Flush(s, again)
      PROVE  Sends \/ Grows
  <2>1. CASE t = s
    BY <1>8, <2>1
  <2>2. CASE t # s
    <3>1. t = Other(s)
      BY <2>2 DEF Sides, Other
    <3>2. wire'[t][u] = wire[t][u]
      BY <1>8, <3>1, FlushStep
    <3>3. QED
      BY <1>1, <3>2
  <2>3. QED
    BY <2>1, <2>2
<1>9. ASSUME NEW s \in Sides, Close(s) PROVE Grows
  <2> DEFINE x == [kind |-> "encrypted", key |-> contacts[s].key,
                   body |-> [kind |-> "closing"]]
  <2>1. CASE wire'[t][u] = wire[t][u]
    BY <1>1, <2>1
  <2>2. CASE wire'[t][u] # wire[t][u]
    <3>1. contacts[s].status = "talk" /\ wire' = Sent(wire, s, contacts[s].vpid, <<x>>)
      BY <1>9, <2>2 DEF Close
    <3>2. contacts[s].key \in Keys
      BY <1>9, <3>1 DEF Close, TypeOK, TalksUnderKey, CanTalk, HasContact, Contact
    <3>3. x \in Item /\ x.kind # "dh"
      BY <3>2, ItemTypes, BodyTypes
    <3> HIDE DEF x
    <3>4. <<x>> \in Seq(Item) /\ NoKeyIn(<<x>>)
      BY <3>3 DEF NoKeyIn
    <3>5. wire'[t][u] = wire[t][u] \o <<x>>
      BY <1>0, <2>2, <3>1 DEF Sent, Wires
    <3>6. QED
      BY <3>4, <3>5
  <2>3. QED
    BY <2>1, <2>2
<1>10. ASSUME NEW s \in Sides, NEW v \in Vpids, RecvDH(s, v) PROVE Read \/ Grows
  <2>1. CASE s = Other(t) /\ v = u
    BY <1>10, <2>1
  <2>2. CASE ~(s = Other(t) /\ v = u)
    <3>1. ~(t = Other(s) /\ u = v)
      BY <2>2, SidesDiffer
    <3>2. wire'[t][u] = wire[t][u]
      BY <1>0, <1>10, <3>1 DEF RecvDH, Taken, Wires
    <3>3. QED
      BY <1>1, <3>2
  <2>3. QED
    BY <2>1, <2>2
<1>11. ASSUME NEW s \in Sides, NEW v \in Vpids,
              RecvUnknown(s, v) \/ RecvUnverified(s, v) \/ RecvVerified(s, v)
       PROVE  Takes \/ Grows
  <2>1. Arrives(s, v, "encrypted") /\ wire' = Taken(s, v)
    BY <1>11 DEF RecvUnknown, RecvUnverified, RecvVerified
  <2>2. QED
    BY <1>3, <2>1
<1>12. ASSUME UNCHANGED wire PROVE Grows
  BY <1>1, <1>12
<1>13. ASSUME NEW s \in Sides,
              \/ Request \/ (\E h \in Hashes : HashDies(h))
              \/ (\E i \in Items : SendData(s, i)) \/ Forget(s) \/ Silence(s)
              \/ KeepAlive(s) \/ OldPrints(s) \/ (\E v \in Vpids : TunnelDies(s, v))
       PROVE  UNCHANGED wire
  BY <1>13 DEF Request, HashDies, SendData, Forget, Silence, KeepAlive, OldPrints,
               TunnelDies
<1> HIDE DEF Read, Sends, Takes, Grows
<1>14. Read \/ Sends \/ Takes \/ Grows
  BY <1>4, <1>5, <1>6, <1>7, <1>8, <1>9, <1>10, <1>11, <1>12, <1>13 DEF Next, Sides
<1>15. QED
  BY <1>14 DEF Read, Sends, Takes, Grows

LEMMA LastOfAppend ==
    ASSUME NEW S, NEW q \in Seq(S), NEW e \in S
    PROVE  Append(q, e) # <<>> /\ Append(q, e)[Len(Append(q, e))] = e
<1>1. /\ Len(Append(q, e)) = Len(q) + 1 /\ Append(q, e)[Len(q) + 1] = e
      /\ Len(q) \in Nat
  BY AppendProperties
<1>2. Len(<<>>) = 0
  OBVIOUS
<1>3. QED
  BY <1>1, <1>2

LEMMA LossyGrows ==
    ASSUME [Next]_vars
    PROVE  lossy \subseteq lossy'
<1> USE DEF vars, history
<1>1. ASSUME NEW v \in Vpids, Lose(v) PROVE lossy \subseteq lossy'
  BY <1>1 DEF Lose
<1>2. ASSUME NEW s \in Sides, NEW v \in Vpids,
             \/ Dig(v) \/ RecvOpen(v) \/ RecvOk(v) \/ RecvDH(s, v) \/ RecvUnknown(s, v)
             \/ RecvUnverified(s, v) \/ RecvVerified(s, v) \/ TunnelDies(s, v)
      PROVE  lossy \subseteq lossy'
  BY <1>2 DEF Dig, RecvOpen, RecvOk, RecvDH, RecvUnknown, RecvUnverified, RecvVerified,
              TunnelDies
<1>3. ASSUME NEW s \in Sides,
             \/ Request \/ (\E h \in Hashes : HashDies(h))
             \/ (\E i \in Items : SendData(s, i))
             \/ (\E again \in SUBSET pendingData[s] : Flush(s, again))
             \/ Close(s) \/ Forget(s) \/ Silence(s) \/ KeepAlive(s) \/ OldPrints(s)
      PROVE  lossy \subseteq lossy'
  BY <1>3 DEF Request, HashDies, SendData, Flush, Close, Forget, Silence, KeepAlive,
              OldPrints
<1>4. QED
  BY <1>1, <1>2, <1>3 DEF Next, Sides

(* A contact that runs over a virtual peer did so before, under the same   *)
(* key, unless its session has just been finished.                         *)
LEMMA RunsOverStep ==
    ASSUME TypeOK, [Next]_vars, NEW t \in Sides, NEW u \in Vpids,
           contacts'[t] # None, contacts'[t].vpid = u,
           virtualPeers'[t][u] # None, virtualPeers'[t][u].status = "key",
           ~Finishes(t, u)
    PROVE  RunsOver(t, u) /\ contacts'[t].key = contacts[t].key
<1>1. Stays(t, u)
  BY SessionStep DEF Restarts, NewPeer
<1>2. QED
  BY <1>1, ContactStep DEF RunsOver, Stays, Done, HasPeer

LEMMA OtherHalfStep ==
    TypeOK /\ FiniteData /\ TalksUnderKey /\ OwnHalf /\ OtherHalf /\ [Next]_vars
        => OtherHalf'
<1> SUFFICES ASSUME TypeOK, FiniteData, TalksUnderKey, OwnHalf, OtherHalf, [Next]_vars,
                    NEW s \in Sides, NEW v \in Vpids \ lossy',
                    virtualPeers'[s][v] # None, virtualPeers'[s][v].dh # 0
             PROVE  HalfIsSent(s, v, virtualPeers[s][v].dh)'
  BY DEF OtherHalf, HasPeer
<1> DEFINE t == Other(s)
           p == pendingDH[s][v]
           dh == virtualPeers'[s][v].dh
           Over == /\ contacts'[t] # None /\ contacts'[t].vpid = v
                   /\ virtualPeers'[t][v] # None /\ virtualPeers'[t][v].status = "key"
           Waits == pendingDH'[s][v] # <<>>
                        => pendingDH'[s][v][Len(pendingDH'[s][v])] = dh
           Reaches == /\ LastKeyIs(wire'[s][v], dh)
                      /\ NoKeyIn(wire'[s][v]) /\ Over => contacts'[t].key[s] = dh
<1>1. SUFFICES Waits /\ (pendingDH'[s][v] = <<>> => Reaches)
  BY DEF HalfIsSent, RunsOver, Done, HasPeer, HasContact
<1>2. v \notin lossy /\ t \in Sides /\ t # s /\ Other(t) = s
  BY LossyGrows, SidesDiffer
<1>3. /\ wire \in Wires /\ wire[s][v] \in Seq(Item)
      /\ p \in Seq(1 .. MaxKeys)
  BY DEF TypeOK, Wires
<1>4. ASSUME pendingDH'[s][v] = Append(p, dh) PROVE Waits /\ pendingDH'[s][v] # <<>>
  <2>1. dh \in 1 .. MaxKeys
    <3>1. virtualPeers'[s][v] \in VirtualPeer
      BY TypeStep DEF TypeOK
    <3>2. QED
      BY <3>1, TunnelAssumption DEF VirtualPeer
  <2>2. Append(p, dh) # <<>> /\ Append(p, dh)[Len(Append(p, dh))] = dh
    BY <1>3, <2>1, LastOfAppend
  <2>3. QED
    BY <1>4, <2>2
<1>5. CASE Restarts(s, v)
  BY <1>4, <1>5 DEF Restarts
<1>6. CASE Finishes(s, v)
  <2>1. HalfIsSent(s, v, virtualPeers[s][v].dh)
    BY <1>2, <1>6 DEF OtherHalf, Finishes, Expects
  <2>2. /\ virtualPeers'[t] = virtualPeers[t] /\ contacts'[t] = contacts[t]
        /\ \/ pendingDH'[s][v] = Append(p, dh)
           \/ dh = virtualPeers[s][v].dh /\ pendingDH'[s][v] = p
        /\ wire' = Taken(s, v)
    BY <1>6, FinishesStep
  <2>3. wire'[s] = wire[s]
    BY <1>2, <1>3, <2>2 DEF Taken, Wires
  <2>4. CASE dh = virtualPeers[s][v].dh /\ pendingDH'[s][v] = p
    BY <2>1, <2>2, <2>3, <2>4 DEF HalfIsSent, RunsOver, Done, HasPeer, HasContact
  <2>5. QED
    BY <1>4, <2>2, <2>4
<1>7. CASE Stays(s, v)
  <2>1. /\ dh = virtualPeers[s][v].dh /\ HasPeer(s, v)
        /\ HalfIsSent(s, v, dh)
    BY <1>2, <1>7 DEF Stays, OtherHalf, HasPeer
  <2>2. Over /\ ~Finishes(t, v) => RunsOver(t, v) /\ contacts'[t].key = contacts[t].key
    BY <1>2, RunsOverStep
  <2>3. ASSUME NEW again \in SUBSET pendingData[s], Flush(s, again)
        PROVE  pendingDH'[s][v] = <<>> /\ Reaches
    <3>1. PICK r \in Seq(Item) : NoKeyIn(r) /\ wire'[s][v] = DHSent(s)[s][v] \o r
      BY <2>3, FlushStep
    <3>2. pendingDH'[s][v] = <<>> /\ UNCHANGED <<contacts, virtualPeers>>
      BY <2>3, FlushStep DEF Flush
    <3>3. DHSent(s)[s][v] = wire[s][v] \o PublicKeys(p)
      BY <2>1 DEF DHSent, TypeOK
    <3>4. DHSent(s)[s][v] \in Seq(Item)
      BY DHSentType DEF Wires
    <3>5. CASE p # <<>>
      <4>1. LastKeyIs(DHSent(s)[s][v], dh) /\ ~NoKeyIn(DHSent(s)[s][v])
        BY <1>3, <2>1, <3>3, <3>5, KeysOfPublic DEF HalfIsSent
      <4>2. LastKeyIs(wire'[s][v], dh) /\ ~NoKeyIn(wire'[s][v])
        BY <3>1, <3>4, <4>1, KeysOfConcat
      <4>3. QED
        BY <3>2, <4>2
    <3>6. CASE p = <<>>
      <4>1. PublicKeys(p) = <<>>
        BY <3>6 DEF PublicKeys
      <4>2. DHSent(s)[s][v] = wire[s][v]
        BY <1>3, <3>3, <4>1, ConcatEmptySeq
      <4>3. /\ LastKeyIs(wire'[s][v], dh)
            /\ NoKeyIn(wire'[s][v]) => NoKeyIn(wire[s][v])
        BY <1>3, <2>1, <3>1, <3>6, <4>2, KeysOfConcat DEF HalfIsSent
      <4>4. Over => RunsOver(t, v) /\ contacts'[t] = contacts[t]
        BY <3>2 DEF RunsOver, Done, HasPeer, HasContact
      <4>5. QED
        BY <2>1, <3>2, <3>6, <4>3, <4>4 DEF HalfIsSent
    <3>7. QED
      BY <3>5, <3>6
  <2>4. ASSUME pendingDH'[s][v] = p, p = <<>>, RecvDH(t, v) PROVE Reaches
    <3>1. /\ wire[s][v] # <<>> /\ Head(wire[s][v]).kind = "dh"
          /\ wire'[s][v] = Tail(wire[s][v]) /\ Received(t, v) = Head(wire[s][v])
      BY <1>2, <1>3, <2>4 DEF RecvDH, Arrives, Taken, Received, Wires
    <3>2. /\ LastKeyIs(wire'[s][v], dh)
          /\ NoKeyIn(wire'[s][v]) => Received(t, v).pub = dh
      BY <1>3, <2>1, <2>4, <3>1, KeysOfTail DEF HalfIsSent
    <3>3. CASE Finishes(t, v)
      BY <1>2, <3>2, <3>3, FinishesStep
    <3>4. CASE ~Finishes(t, v)
      <4>1. ~Over
        BY <1>2, <2>2, <2>4, <3>4 DEF Finishes, Expects, OwnHalf, RunsOver, Done
      <4>2. QED
        BY <3>2, <4>1
    <3>5. QED
      BY <3>3, <3>4
  <2>5. ASSUME pendingDH'[s][v] = p, p = <<>>, ~RecvDH(t, v),
               LastKeyIs(wire'[s][v], dh), NoKeyIn(wire'[s][v]) => NoKeyIn(wire[s][v])
        PROVE  Reaches
    BY <2>1, <2>2, <2>5 DEF HalfIsSent, Finishes
  <2>6. ASSUME pendingDH'[s][v] = p, p = <<>>, ~RecvDH(t, v),
               wire[s][v] # <<>>, Head(wire[s][v]).kind # "dh",
               wire'[s][v] = Tail(wire[s][v])
        PROVE  Reaches
    BY <1>3, <2>1, <2>5, <2>6, KeysOfTail DEF HalfIsSent
  <2>7. ASSUME pendingDH'[s][v] = p, p = <<>>, ~RecvDH(t, v),
               NEW r \in Seq(Item), NoKeyIn(r), wire'[s][v] = wire[s][v] \o r
        PROVE  Reaches
    BY <1>3, <2>1, <2>5, <2>7, KeysOfConcat DEF HalfIsSent
  <2>8. ASSUME pendingDH'[s][v] = p PROVE Waits
    BY <2>1, <2>8 DEF HalfIsSent
  <2> HIDE DEF Waits, Reaches, Over
  <2>9. pendingDH'[s][v] = p \/ \E again \in SUBSET pendingData[s] : Flush(s, again)
    BY <1>7 DEF Stays
  <2>10. CASE pendingDH'[s][v] = p
    BY <1>2, <2>3, <2>4, <2>6, <2>7, <2>8, <2>10, UnderWayStep
  <2>11. QED
    BY <2>3, <2>9, <2>10 DEF Waits
<1>8. virtualPeers'[s][v] # NewPeer
  BY DEF NewPeer
<1>9. QED
  BY <1>5, <1>6, <1>7, <1>8, SessionStep

(***************************************************************************)
(* The theorems                                                            *)
(***************************************************************************)

LEMMA InitIInv == Init => IInv
<1> SUFFICES ASSUME Init PROVE IInv
  OBVIOUS
<1>1. TypeOK
  BY TypeInit
<1>2. /\ contacts = [s \in Sides |-> None]
      /\ virtualPeers = [s \in Sides |-> [v \in Vpids |-> None]]
      /\ pendingItems = [s \in Sides |-> <<>>]
      /\ pendingData = [s \in Sides |-> {}]
      /\ wire = [s \in Sides |-> [v \in Vpids |-> <<>>]]
      /\ sent = {}
  BY DEF Init
<1>3. /\ \A s \in Sides : /\ ~HasContact(s) /\ \A v \in Vpids : ~HasPeer(s, v)
                          /\ Range(pendingItems[s]) = {}
                          /\ \A v \in Vpids : Range(wire[s][v]) = {}
  BY <1>2 DEF HasContact, HasPeer, Range
<1>4. FiniteData
  BY <1>2, FS_EmptySet DEF FiniteData
<1>5. TalksUnderKey /\ AcksAreTrue /\ AckedIsDelivered /\ DataIsOwn
  BY <1>2, <1>3 DEF TalksUnderKey, CanTalk, AcksAreTrue, AckedIsDelivered, DataIsOwn
<1>6. DeliveriesCounted
  BY <1>3, SidesDiffer DEF DeliveriesCounted, Printed, Init, Items, ItemsOf, Sides
<1>7. OwnHalf /\ OtherHalf
  BY <1>3 DEF OwnHalf, OtherHalf, Done, RunsOver
<1>8. QED
  BY <1>1, <1>4, <1>5, <1>6, <1>7 DEF IInv

LEMMA NextIInv == IInv /\ [Next]_vars => IInv'
BY TypeStep, FiniteStep, TalkStep, AcksStep, AckedStep, OwnDataStep, CountStep,
   OwnHalfStep, OtherHalfStep
   DEF IInv

(* The inductive invariant holds of every run of the two services, whatever *)
(* arrives, is lost, falls silent or is closed (p3GxsTunnelService).       *)
THEOREM TunnelInvariant == Spec => []IInv
BY InitIInv, NextIInv, PTL DEF Spec

(* Contacts, sessions, queues and what is under way keep their types, and  *)
(* data never sent is among the data to be acknowledged.                   *)
THEOREM TunnelTypes == Spec => []TypeOK
<1>1. IInv => TypeOK
  BY DEF IInv
<1>2. QED
  BY <1>1, TunnelInvariant, PTL

(* No data given to sendData is lost while a tunnel dies, keys are         *)
(* exchanged anew or something is lost on the way: it waits, or the other  *)
(* service has got it.                                                     *)
THEOREM TunnelLosesNothing == Spec => []AckedIsDelivered
<1>1. IInv => AckedIsDelivered
  BY DEF IInv
<1>2. QED
  BY <1>1, TunnelInvariant, PTL

(* handleRecvTunnelDataItem hands an item to the service again only if its *)
(* side has forgotten the prints of what it had received.                  *)
THEOREM TunnelDeliversOnce == Spec => []DeliveredOnce
<1>1. IInv => DeliveredOnce
  <2> SUFFICES ASSUME IInv, NEW s \in Sides, NEW i \in ItemsOf(s)
               PROVE  delivered[i] <= 1 + forgot[Other(s)]
    BY DEF DeliveredOnce
  <2>1. delivered[i] <= forgot[Other(s)] + Printed(Other(s), i)
    BY DEF IInv, DeliveriesCounted
  <2>2. delivered[i] \in Nat /\ forgot[Other(s)] \in Nat
    BY SidesDiffer DEF IInv, TypeOK, Items, ItemsOf
  <2>3. Printed(Other(s), i) \in {0, 1}
    BY DEF Printed
  <2>4. QED
    BY <2>1, <2>2, <2>3
<1>2. QED
  BY <1>1, TunnelInvariant, PTL

(* A contact that can talk has the key of an exchange that was done.       *)
THEOREM TunnelTalksUnderKey == Spec => []TalksUnderKey
<1>1. IInv => TalksUnderKey
  BY DEF IInv
<1>2. QED
  BY <1>1, TunnelInvariant, PTL

(* When nothing of an exchange of public keys is under way or was lost, two *)
(* sides with sessions that are done over one virtual peer have one key:   *)
(* each has as the other half what the other has as its own, in whatever   *)
(* order the public keys crossed and however often either began anew.      *)
THEOREM TunnelKeysAgree == Spec => []QuietKeysAgree
<1>1. IInv => QuietKeysAgree
  <2> SUFFICES ASSUME IInv, Quiet, NEW v \in Vpids \ lossy,
                      \A s \in Sides : CanTalk(s) /\ contacts[s].vpid = v /\ HasPeer(s, v)
                                       /\ virtualPeers[s][v].status = "key"
               PROVE  contacts["client"].key = contacts["server"].key
    BY DEF QuietKeysAgree
  <2>1. \A s \in Sides : RunsOver(s, v)
    BY DEF RunsOver, Done, CanTalk
  <2>2. \A s \in Sides : contacts[s].key[s] = virtualPeers[s][v].dh
                         /\ virtualPeers[s][v].dh # 0
    BY <2>1 DEF IInv, OwnHalf, RunsOver
  <2>3. \A s \in Sides : NoKeyIn(wire[s][v]) /\ pendingDH[s][v] = <<>>
    BY DEF IInv, TypeOK, Quiet, NoKeyIn
  <2>4. \A s \in Sides : contacts[Other(s)].key[s] = virtualPeers[s][v].dh
    BY <2>1, <2>2, <2>3, SidesDiffer DEF IInv, OtherHalf, HalfIsSent
  <2>5. \A s \in Sides : contacts[s].key \in Keys
    BY DEF IInv, TypeOK, TalksUnderKey, CanTalk, HasContact, Contact
  <2>6. \A s \in Sides : contacts["client"].key[s] = contacts["server"].key[s]
    BY <2>2, <2>4 DEF Sides, Other
  <2>7. QED
    BY <2>5, <2>6 DEF Keys, Sides
<1>2. QED
  BY <1>1, TunnelInvariant, PTL
=============================================================================
