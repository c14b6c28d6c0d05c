----------------------------- MODULE GxsTunnel -----------------------------
(***************************************************************************)
(* Secured tunnels between two GXS identities (p3GxsTunnelService) over    *)
(* the anonymous tunnels of the turtle router (p3turtle).                  *)
(*                                                                         *)
(* The client's service requests a tunnel: the router digs for a hash of   *)
(* the request and the server answers, which gives both a virtual peer.    *)
(* Over it each sends a Diffie-Hellman public key; the two keys make the   *)
(* AES key of the contact, there being one contact for the pair of         *)
(* identities whatever the virtual peer.  Data items are sent again until  *)
(* they are acknowledged; an item that does not verify under the key of    *)
(* the contact begins the exchange of public keys again.                   *)
(*                                                                         *)
(* The router and the service tick on one thread and what they receive is  *)
(* handled there, so that a tick is a step; a service calls from another   *)
(* thread, in steps under mGxsTunnelMtx.  Timers (resending after 10       *)
(* seconds, silence of 26, the idle time of the router's tunnels, prints   *)
(* of 10 minutes) are choices, bounded by Events where they matter.  A     *)
(* public key is the number of its making.  One service uses the tunnel,    *)
(* identities and their signatures are good, and the service accepts what  *)
(* it gets.                                                                *)
(***************************************************************************)
EXTENDS Integers, FiniteSets, Sequences, SequencesExt

CONSTANTS
    ClientItems, ServerItems,   \* bound: the data each side sends
    Routes,         \* bound: the ways through the network
    MaxRequests,    \* bound: tunnels requested, each under a hash of its own
    MaxDigs,        \* bound: tunnel requests of the router
    MaxKeys,        \* bound: keys each side makes
    Events,         \* bound: what else happens, at most once each: a "close"
                    \* by a service, a "keepalive", data sent "again", a
                    \* "silence" of the peer, an "idle" tunnel, a "loss" of
                    \* what is under way, prints kept too long ("old")
    MaxEvents       \* bound: how much of it happens

ASSUME TunnelAssumption ==
    /\ ClientItems \cap ServerItems = {}
    /\ {MaxRequests, MaxDigs, MaxKeys, MaxEvents} \subseteq Nat
    /\ Events \subseteq {"close", "keepalive", "again", "silence", "idle",
                         "loss", "old"}

VARIABLES
    contacts,       \* _gxs_tunnel_contacts: the entry of the pair, if any
    virtualPeers,   \* _gxs_tunnel_virtual_peer_ids, and the router's tunnels
    hashes,         \* the router's _incoming_file_hashes at the client
    digs,           \* tunnel requests so far
    keys,           \* keys made so far by a side
    pendingDH,      \* pendingDHItems
    pendingItems,   \* pendingGxsTunnelItems
    pendingData,    \* pendingGxsTunnelDataItems
    unsent,         \* those never sent yet
    wire,           \* what is under way from a side, by virtual peer
    events,         \* what of Events has happened
    sent,           \* history: the data given to sendData
    delivered,      \* history: how often the service got an item
    forgot,         \* history: how often a side forgot what it had received
    lossy           \* history: virtual peers that something was lost on

history == <<sent, delivered, forgot, lossy>>
router == <<hashes, digs>>
exchange == <<keys, pendingDH>>
queues == <<exchange, pendingItems, pendingData, unsent>>
vars == <<contacts, virtualPeers, router, queues, wire, events, history>>

Sides == {"client", "server"}
Other(s) == IF s = "client" THEN "server" ELSE "client"
Items == ClientItems \cup ServerItems
ItemsOf(s) == IF s = "client" THEN ClientItems ELSE ServerItems

(* The virtual peer of a hash and a way: the same whenever it is dug. *)
Hashes == 1 .. MaxRequests
Vpids == Hashes \X Routes
HashOf(v) == v[1]
NoVpid == <<0, "none">>
None == [none |-> TRUE]

Keys == [Sides -> 1 .. MaxKeys]
NoKey == [s \in Sides |-> 0]

Contact == [status : {"down", "talk", "closed"}, vpid : Vpids \cup {NoVpid},
            key : Keys \cup {NoKey}, hash : 0 .. MaxRequests,
            user : BOOLEAN, prints : SUBSET Items]
(* GxsTunnelDHInfo; dh is 0 for NULL, linked: tunnel_id is set. *)
VirtualPeer == [dh : 0 .. MaxKeys, status : {"none", "half", "key"},
                linked : BOOLEAN]
Body == [kind : {"data", "ack"}, item : Items]
        \cup [kind : {"hello", "closing"}]
Item == [kind : {"open", "ok"}, n : 1 .. MaxDigs]
        \cup [kind : {"dh"}, pub : 1 .. MaxKeys]
        \cup [kind : {"encrypted"}, key : Keys, body : Body]

(* A keep alive or RS_GXS_TUNNEL_FLAG_ACK_DISTANT_CONNECTION. *)
Hello == [kind |-> "hello"]

Happens(event) ==
    /\ event \in Events \ events /\ Cardinality(events) < MaxEvents
    /\ events' = events \cup {event}

HasContact(s) == contacts[s] # None
HasPeer(s, v) == v \in Vpids /\ virtualPeers[s][v] # None
CanTalk(s) == HasContact(s) /\ contacts[s].status = "talk"

(* sendTurtleData: what is for an unknown virtual peer is dropped. *)
Sent(w, s, v, items) ==
    IF HasPeer(s, v) THEN [w EXCEPT ![s][v] = @ \o items] ELSE w

(***************************************************************************)
(* The exchange of public keys                                             *)
(***************************************************************************)

(* locked_initDHSessionKey *)
NewKey(s) == keys[s] + 1
KeyUsed(s) == NewKey(s) <= MaxKeys /\ keys' = [keys EXCEPT ![s] = @ + 1]

(* locked_restartDHSession: a new key pair, whose public half is to be     *)
(* sent, for the virtual peer as it is in p.                               *)
RestartDH(s, v, p) ==
    /\ KeyUsed(s)
    /\ virtualPeers' = [virtualPeers EXCEPT
           ![s][v] = [p EXCEPT !.dh = NewKey(s), !.status = "half"]]
    /\ pendingDH' = [pendingDH EXCEPT ![s][v] = Append(@, NewKey(s))]

NewPeer == [dh |-> 0, status |-> "none", linked |-> FALSE]
NewContact == [status |-> "down", vpid |-> NoVpid, key |-> NoKey, hash |-> 0,
               user |-> FALSE, prints |-> {}]

Init ==
    /\ contacts = [s \in Sides |-> None]
    /\ virtualPeers = [s \in Sides |-> [v \in Vpids |-> None]]
    /\ hashes = [h \in Hashes |-> [state |-> "unknown", request |-> 0]]
    /\ digs = 0 /\ keys = [s \in Sides |-> 0]
    /\ pendingDH = [s \in Sides |-> [v \in Vpids |-> <<>>]]
    /\ pendingItems = [s \in Sides |-> <<>>]
    /\ pendingData = [s \in Sides |-> {}] /\ unsent = pendingData
    /\ wire = [s \in Sides |-> [v \in Vpids |-> <<>>]]
    /\ events = {}
    /\ sent = {} /\ delivered = [i \in Items |-> 0]
    /\ forgot = [s \in Sides |-> 0]
    /\ lossy = {}

(***************************************************************************)
(* What a service calls                                                    *)
(***************************************************************************)

(* requestSecuredTunnel, startClientGxsTunnelConnection and monitorTunnels *)
(* with a hash not used before; a contact that is there is left alone.     *)
Request ==
    \E h \in Hashes :
        /\ ~HasContact("client")
        /\ hashes[h].state = "unknown" /\ (h > 1 => hashes[h - 1].state # "unknown")
        /\ contacts' = [contacts EXCEPT !["client"] =
                           [NewContact EXCEPT !.hash = h, !.user = TRUE]]
        /\ hashes' = [hashes EXCEPT ![h].state = "monitored"]
        /\ UNCHANGED <<virtualPeers, digs, queues, wire, events, history>>

(* sendData *)
SendData(s, i) ==
    /\ HasContact(s)
    /\ i \in ItemsOf(s) \ sent /\ sent' = sent \cup {i}
    /\ pendingData' = [pendingData EXCEPT ![s] = @ \cup {i}]
    /\ unsent' = [unsent EXCEPT ![s] = @ \cup {i}]
    /\ UNCHANGED <<contacts, virtualPeers, router, exchange, pendingItems, wire,
                   events, delivered, forgot, lossy>>

(* closeExistingTunnel: the peer is told if that can be, the client no     *)
(* longer has the router dig, and the contact is forgotten.  What is       *)
(* pending stays.                                                          *)
Close(s) ==
    LET c == contacts[s]
        h == IF HasPeer(s, c.vpid) THEN HashOf(c.vpid) ELSE c.hash
    IN /\ HasContact(s) /\ c.user
       /\ Happens("close")
       /\ wire' = IF c.status # "talk" THEN wire
                  ELSE Sent(wire, s, c.vpid,
                            <<[kind |-> "encrypted", key |-> c.key,
                               body |-> [kind |-> "closing"]]>>)
       /\ hashes' = IF s = "client" /\ h \in Hashes /\ hashes[h].state = "monitored"
                    THEN [hashes EXCEPT ![h].state = "leaving"] ELSE hashes
       /\ contacts' = [contacts EXCEPT ![s] = None]
       /\ forgot' = [forgot EXCEPT ![s] = @ + 1]
       /\ UNCHANGED <<virtualPeers, digs, queues,
                      sent, delivered, lossy>>

(***************************************************************************)
(* The router                                                              *)
(***************************************************************************)

(* manageTunnels and diggTunnel, when a hash has no tunnels. *)
Dig(v) ==
    LET h == HashOf(v)
    IN /\ hashes[h].state \in {"monitored", "leaving"}
       /\ \A u \in Vpids : HashOf(u) = h => ~HasPeer("client", u)
       /\ digs < MaxDigs /\ digs' = digs + 1
       /\ hashes' = [hashes EXCEPT ![h].request = digs']
       /\ wire' = [wire EXCEPT !["client"][v] = Append(@, [kind |-> "open", n |-> digs'])]
       /\ UNCHANGED <<contacts, virtualPeers, queues, events, history>>

Arrives(s, v, kind) ==
    wire[Other(s)][v] # <<>> /\ Head(wire[Other(s)][v]).kind = kind
Received(s, v) == Head(wire[Other(s)][v])
Taken(s, v) == [wire EXCEPT ![Other(s)][v] = Tail(@)]

(* p3turtle::handleTunnelRequest and addVirtualPeer at the server, where   *)
(* the virtual peer may be there already: its session begins anew.         *)
RecvOpen(v) ==
    /\ Arrives("server", v, "open")
    /\ wire' = [Taken("server", v) EXCEPT !["server"][v] =
                   Append(@, [kind |-> "ok", n |-> Received("server", v).n])]
    /\ RestartDH("server", v, NewPeer)
    /\ UNCHANGED <<contacts, router, pendingItems, pendingData, unsent,
                   events, history>>

(* handleTunnelResult and addVirtualPeer at the client: the answer to the  *)
(* last request counts, and a session is begun unless the contact can talk *)
(* already.                                                                *)
RecvOk(v) ==
    LET h == hashes[HashOf(v)]
        c == contacts["client"]
    IN /\ Arrives("client", v, "ok")
       /\ wire' = Taken("client", v)
       /\ IF h.state \notin {"monitored", "leaving"} \/ h.request # Received("client", v).n
          THEN UNCHANGED <<virtualPeers, pendingDH, keys>>
          ELSE IF c = None \/ c.hash # HashOf(v) \/ c.status = "talk"
          THEN /\ virtualPeers' = [virtualPeers EXCEPT !["client"][v] = NewPeer]
               /\ UNCHANGED <<pendingDH, keys>>
          ELSE RestartDH("client", v, NewPeer)
       /\ UNCHANGED <<contacts, router, pendingItems, pendingData, unsent,
                      events, history>>

(* removeVirtualPeer: the contact is found by the tunnel of the virtual    *)
(* peer, when that is set.                                                 *)
RemovePeers(s, peers) ==
    /\ virtualPeers' = [virtualPeers EXCEPT ![s] =
           [v \in Vpids |-> IF v \in peers THEN None ELSE @[v]]]
    /\ contacts' =
           IF HasContact(s) /\ \E v \in peers : HasPeer(s, v)
                  /\ virtualPeers[s][v].linked /\ contacts[s].vpid = v
           THEN [contacts EXCEPT ![s] = [@ EXCEPT !.status = "down", !.vpid = NoVpid]]
           ELSE contacts

(* autoWash: a tunnel was idle too long. *)
TunnelDies(s, v) ==
    /\ HasPeer(s, v) /\ Happens("idle")
    /\ RemovePeers(s, {v})
    /\ UNCHANGED <<router, queues, wire, history>>

(* autoWash: a hash that is no longer monitored. *)
HashDies(h) ==
    /\ hashes[h].state = "leaving"
    /\ hashes' = [hashes EXCEPT ![h].state = "gone"]
    /\ RemovePeers("client", {v \in Vpids : HashOf(v) = h})
    /\ UNCHANGED <<digs, queues, wire, events, history>>

(* A connection on the way breaks, and what is under way is lost. *)
Lose(v) ==
    /\ \E s \in Sides : wire[s][v] # <<>>
    /\ Happens("loss")
    /\ wire' = [s \in Sides |-> [wire[s] EXCEPT ![v] = <<>>]]
    /\ lossy' = lossy \cup {v}
    /\ UNCHANGED <<contacts, virtualPeers, router, queues, sent, delivered, forgot>>

(***************************************************************************)
(* receiveTurtleData                                                       *)
(***************************************************************************)

(* Mutant: a public key is used though the side has none of its own.       *)
ExpectsAny(s, v) == HasPeer(s, v)

Expects(s, v) == HasPeer(s, v) /\ virtualPeers[s][v].dh # 0

(* Mutant: the contact of an earlier session is replaced.                  *)
ContactOfNew(s) == NewContact

ContactOf(s) == IF HasContact(s) THEN contacts[s] ELSE NewContact

(* Mutant: the key of the side is the one of the session before.           *)
SharedOld(s, v, own, pub) ==
    [NoKey EXCEPT ![s] = virtualPeers[s][v].dh, ![Other(s)] = pub]

(* DH_compute_key *)
Shared(s, v, own, pub) == [NoKey EXCEPT ![s] = own, ![Other(s)] = pub]

(* handleRecvDHPublicKey: the AES key is of the key received and of the    *)
(* side's own, a new one if the session had its key already.               *)
RecvDH(s, v) ==
    LET again == virtualPeers[s][v].status = "key"
        k == IF again THEN NewKey(s) ELSE virtualPeers[s][v].dh
    IN /\ Arrives(s, v, "dh")
       /\ wire' = Taken(s, v)
       /\ IF ~Expects(s, v)
          THEN UNCHANGED <<contacts, virtualPeers, pendingDH, pendingItems, keys>>
          ELSE /\ IF ~again THEN UNCHANGED <<pendingDH, keys>>
                  ELSE /\ KeyUsed(s)
                       /\ pendingDH' = [pendingDH EXCEPT ![s][v] = Append(@, k)]
               /\ virtualPeers' = [virtualPeers EXCEPT ![s][v] =
                     [dh |-> k, status |-> "key", linked |-> TRUE]]
               /\ contacts' = [contacts EXCEPT ![s] =
                     [ContactOf(s) EXCEPT !.status = "talk", !.vpid = v,
                          !.key = Shared(s, v, k, Received(s, v).pub)]]
               /\ pendingItems' = [pendingItems EXCEPT ![s] = Append(@, Hello)]
       /\ UNCHANGED <<router, pendingData, unsent, events, history>>

(* handleEncryptedData and handleIncomingItem.  Without a contact or the   *)
(* tunnel of the virtual peer the item is dropped; one that does not       *)
(* verify begins the session anew.                                         *)
Known(s, v) == HasPeer(s, v) /\ virtualPeers[s][v].linked /\ HasContact(s)
Verifies(s, v) == Received(s, v).key = contacts[s].key

RecvUnknown(s, v) ==
    /\ Arrives(s, v, "encrypted") /\ ~Known(s, v)
    /\ wire' = Taken(s, v)
    /\ UNCHANGED <<contacts, virtualPeers, router, queues, events, history>>

(* Mutant: whatever comes, verified or not, the contact can talk again. *)
RecvUnverifiedTalks(s, v) ==
    /\ Arrives(s, v, "encrypted") /\ Known(s, v) /\ ~Verifies(s, v)
    /\ wire' = Taken(s, v)
    /\ RestartDH(s, v, virtualPeers[s][v])
    /\ contacts' = [contacts EXCEPT ![s].status = "talk"]
    /\ UNCHANGED <<router, pendingItems, pendingData, unsent, events, history>>

RecvUnverified(s, v) ==
    /\ Arrives(s, v, "encrypted") /\ Known(s, v) /\ ~Verifies(s, v)
    /\ wire' = Taken(s, v)
    /\ RestartDH(s, v, virtualPeers[s][v])
    /\ UNCHANGED <<contacts, router, pendingItems, pendingData, unsent,
                   events, history>>

(* handleRecvTunnelDataItem, handleRecvTunnelDataAckItem and               *)
(* handleRecvStatusItem; whatever comes, the contact can talk again.       *)
RecvVerified(s, v) ==
    LET b == Received(s, v).body
        c == contacts[s]
    IN /\ Arrives(s, v, "encrypted") /\ Known(s, v) /\ Verifies(s, v)
       /\ wire' = Taken(s, v)
       /\ CASE b.kind = "data" ->
                 /\ pendingItems' = [pendingItems EXCEPT
                        ![s] = Append(@, [kind |-> "ack", item |-> b.item])]
                 /\ contacts' = [contacts EXCEPT ![s] = [c EXCEPT
                        !.status = "talk", !.user = TRUE, !.prints = @ \cup {b.item}]]
                 /\ delivered' = IF b.item \in c.prints THEN delivered
                                 ELSE [delivered EXCEPT ![b.item] = @ + 1]
                 /\ UNCHANGED <<pendingData, unsent>>
            [] b.kind = "ack" ->
                 /\ pendingData' = [pendingData EXCEPT ![s] = @ \ {b.item}]
                 /\ unsent' = [unsent EXCEPT ![s] = @ \ {b.item}]
                 /\ contacts' = [contacts EXCEPT ![s].status = "talk"]
                 /\ UNCHANGED <<pendingItems, delivered>>
            [] OTHER ->
                 /\ contacts' = [contacts EXCEPT ![s].status =
                        IF b = Hello THEN "talk"
                        ELSE IF s = "server" THEN "closed" ELSE "down"]
                 /\ UNCHANGED <<pendingItems, pendingData, unsent, delivered>>
       /\ UNCHANGED <<virtualPeers, router, exchange, events, sent, forgot, lossy>>

(***************************************************************************)
(* tick: flush                                                             *)
(***************************************************************************)

Encrypted(c, bodies) ==
    [i \in DOMAIN bodies |-> [kind |-> "encrypted", key |-> c.key, body |-> bodies[i]]]

(* The public keys that wait are sent to their virtual peers, if known.    *)
PublicKeys(pubs) == [i \in DOMAIN pubs |-> [kind |-> "dh", pub |-> pubs[i]]]
DHSent(s) ==
    [wire EXCEPT ![s] = [v \in Vpids |->
        IF HasPeer(s, v) THEN @[v] \o PublicKeys(pendingDH[s][v]) ELSE @[v]]]

(* Mutant: data is forgotten when it is sent. *)
FlushForgets(s, again) ==
    LET c == contacts[s]
        data == SetToSeq(unsent[s] \cup again)
    IN /\ \/ \E v \in Vpids : pendingDH[s][v] # <<>>
          \/ CanTalk(s) /\ (pendingItems[s] # <<>> \/ data # <<>>)
       /\ again \subseteq pendingData[s] \ unsent[s]
       /\ IF again = {} THEN UNCHANGED events ELSE CanTalk(s) /\ Happens("again")
       /\ pendingDH' = [pendingDH EXCEPT ![s] = [v \in Vpids |-> <<>>]]
       /\ IF ~CanTalk(s) THEN wire' = DHSent(s) /\ UNCHANGED <<pendingItems, unsent>>
          ELSE /\ wire' = Sent(DHSent(s), s, c.vpid,
                       Encrypted(c, pendingItems[s]
                          \o [i \in DOMAIN data |-> [kind |-> "data", item |-> data[i]]]))
               /\ pendingItems' = [pendingItems EXCEPT ![s] = <<>>]
               /\ unsent' = [unsent EXCEPT ![s] = {}]
       /\ pendingData' = IF CanTalk(s) THEN [pendingData EXCEPT ![s] = {}] ELSE pendingData
       /\ UNCHANGED <<contacts, virtualPeers, router, keys, history>>

(* The public keys, then, if the contact can talk, what waits, the data    *)
(* not sent yet and the data in again, which was sent long ago.            *)
Flush(s, again) ==
    LET c == contacts[s]
        data == SetToSeq(unsent[s] \cup again)
    IN /\ \/ \E v \in Vpids : pendingDH[s][v] # <<>>
          \/ CanTalk(s) /\ (pendingItems[s] # <<>> \/ data # <<>>)
       /\ again \subseteq pendingData[s] \ unsent[s]
       /\ IF again = {} THEN UNCHANGED events ELSE CanTalk(s) /\ Happens("again")
       /\ pendingDH' = [pendingDH EXCEPT ![s] = [v \in Vpids |-> <<>>]]
       /\ IF ~CanTalk(s) THEN wire' = DHSent(s) /\ UNCHANGED <<pendingItems, unsent>>
          ELSE /\ wire' = Sent(DHSent(s), s, c.vpid,
                       Encrypted(c, pendingItems[s]
                          \o [i \in DOMAIN data |-> [kind |-> "data", item |-> data[i]]]))
               /\ pendingItems' = [pendingItems EXCEPT ![s] = <<>>]
               /\ unsent' = [unsent EXCEPT ![s] = {}]
       /\ UNCHANGED <<contacts, virtualPeers, router, keys, pendingData, history>>

(* The sweep that ends flush: a contact that was remotely closed goes, one *)
(* not heard of is down.  (Digging is forced for a hash that was just made *)
(* up, which the router does not know.)                                    *)
Forget(s) ==
    /\ HasContact(s) /\ contacts[s].status = "closed"
    /\ contacts' = [contacts EXCEPT ![s] = None]
    /\ forgot' = [forgot EXCEPT ![s] = @ + 1]
    /\ UNCHANGED <<virtualPeers, router, queues, wire, events, sent, delivered, lossy>>

Silence(s) ==
    /\ CanTalk(s) /\ Happens("silence")
    /\ contacts' = [contacts EXCEPT ![s] = [@ EXCEPT !.status = "down", !.vpid = NoVpid]]
    /\ UNCHANGED <<virtualPeers, router, queues, wire, history>>

KeepAlive(s) ==
    /\ CanTalk(s)
    /\ Happens("keepalive")
    /\ pendingItems' = [pendingItems EXCEPT ![s] = Append(@, Hello)]
    /\ UNCHANGED <<contacts, virtualPeers, router, exchange, pendingData, unsent,
                   wire, history>>

OldPrints(s) ==
    /\ HasContact(s) /\ contacts[s].prints # {} /\ Happens("old")
    /\ contacts' = [contacts EXCEPT ![s].prints = {}]
    /\ forgot' = [forgot EXCEPT ![s] = @ + 1]
    /\ UNCHANGED <<virtualPeers, router, queues, wire, sent, delivered, lossy>>

Next ==
    \/ Request
    \/ \E v \in Vpids : Dig(v) \/ RecvOpen(v) \/ RecvOk(v) \/ Lose(v)
    \/ \E h \in Hashes : HashDies(h)
    \/ \E s \in Sides :
          \/ \E i \in Items : SendData(s, i)
          \/ \E again \in SUBSET pendingData[s] : Flush(s, again)
          \/ Close(s) \/ Forget(s) \/ Silence(s) \/ KeepAlive(s) \/ OldPrints(s)
          \/ \E v \in Vpids :
                \/ TunnelDies(s, v) \/ RecvDH(s, v) \/ RecvUnknown(s, v)
                \/ RecvUnverified(s, v) \/ RecvVerified(s, v)

Spec == Init /\ [][Next]_vars

(***************************************************************************)
(* Properties                                                              *)
(***************************************************************************)

(* The types, and of what waits: data that was never sent is still to be   *)
(* acknowledged, and a side holds only data of its own.                    *)
TypeOK ==
    /\ contacts \in [Sides -> Contact \cup {None}]
    /\ virtualPeers \in [Sides -> [Vpids -> VirtualPeer \cup {None}]]
    /\ hashes \in [Hashes -> [state : {"unknown", "monitored", "leaving", "gone"},
                              request : 0 .. MaxDigs]]
    /\ digs \in 0 .. MaxDigs
    /\ keys \in [Sides -> 0 .. MaxKeys]
    /\ pendingDH \in [Sides -> [Vpids -> Seq(1 .. MaxKeys)]]
    /\ pendingItems \in [Sides -> Seq(Body)]
    /\ pendingData \in [Sides -> SUBSET Items]
    /\ unsent \in [Sides -> SUBSET Items]
    /\ \A s \in Sides : unsent[s] \subseteq pendingData[s]
                         /\ pendingData[s] \subseteq ItemsOf(s)
    /\ wire \in [Sides -> [Vpids -> Seq(Item)]]
    /\ events \subseteq Events
    /\ sent \subseteq Items
    /\ delivered \in [Items -> Nat]
    /\ forgot \in [Sides -> Nat]
    /\ lossy \subseteq Vpids

(* Data given to sendData either waits for its acknowledgement or was      *)
(* handed to the service of the other side: neither a tunnel that dies, a  *)
(* new exchange of keys, a loss on the way nor a closing lets it vanish.   *)
AckedIsDelivered ==
    \A s \in Sides : \A i \in ItemsOf(s) \cap sent : i \in pendingData[s] \/ delivered[i] > 0

(* The service gets an item again only if its side forgot what it had      *)
(* received (handleRecvTunnelDataItem, received_data_prints): with a       *)
(* closed contact, or after 10 minutes.  A new virtual peer or a new key   *)
(* is no reason, however often the data is sent.                           *)
DeliveredOnce ==
    \A s \in Sides : \A i \in ItemsOf(s) : delivered[i] <= 1 + forgot[Other(s)]

(* A contact that can talk has a key: an item under an old virtual peer, a *)
(* status or a new request never makes it talk before the exchange of      *)
(* public keys is done, which would encrypt under a key of zeroes.         *)
TalksUnderKey == \A s \in Sides : CanTalk(s) => contacts[s].key # NoKey

(* Nothing of the exchange of public keys is under way. *)
Quiet ==
    \A s \in Sides :
        /\ \A v \in Vpids : pendingDH[s][v] = <<>>
        /\ \A v \in Vpids : \A i \in DOMAIN wire[s][v] : wire[s][v][i].kind = "encrypted"

(* When nothing of the exchange of public keys is under way and nothing of *)
(* it was lost, two sides that talk over one virtual peer with sessions    *)
(* that are done have the same key, whatever the order in which public     *)
(* keys crossed, and however often either began anew.                      *)
QuietKeysAgree ==
    \A v \in Vpids \ lossy :
        Quiet /\ (\A s \in Sides : CanTalk(s) /\ contacts[s].vpid = v /\ HasPeer(s, v)
                                   /\ virtualPeers[s][v].status = "key")
            => contacts["client"].key = contacts["server"].key
=============================================================================
