------------------------------ MODULE GxsSync ------------------------------
(***************************************************************************)
(* How friends bring the messages of a GXS group to each other             *)
(* (RsGxsNetService) and how those end in the data base (RsGenExchange).   *)
(* One group, known to all peers, subscribed and in no circle; peers are   *)
(* alike.                                                                  *)
(*                                                                         *)
(* A peer tells a friend the stamp it has for him (syncWithPeers).  A      *)
(* friend whose own stamp is later opens a transaction with the list of    *)
(* his messages; the peer opens one to ask for those it has not, at most   *)
(* MaxRequest of them; the friend opens one with these messages, under his *)
(* stamp of that moment, which the peer then has for him.                  *)
(*                                                                         *)
(* Three threads of a peer run under mNxsMutex or mGenMtx: tick() takes    *)
(* what arrives and passes messages on to the exchange, data_tick() moves  *)
(* the transactions on, RsGenExchange::tick() validates and stores.        *)
(* data_tick() goes through all transactions under one lock; here each is  *)
(* taken in a step of its own, in the order of their numbers.  Whether     *)
(* mTimeOut has passed is a choice, and so is whether a stamp is of the    *)
(* same second as the one before.  A zero stamp is the absence of one.     *)
(***************************************************************************)
EXTENDS Integers, FiniteSets, Sequences, FiniteSetsExt, SequencesExt

CONSTANTS
    Peers, Messages,
    Publishers,      \* bound: the peers that write messages
    Seekers,         \* bound: the peers that ask the others
    Invalid,         \* messages whose signature does not verify
    MaxRequest,      \* MAX_REQLIST_SIZE
    MaxOverlaps,     \* bound: questions asked while an exchange goes on
    MaxStamp,        \* bound: the last second a stamp is of
    Faults,          \* bound: what goes wrong, at most once each: a
                     \* "timeout" of a live transaction, a "disconnect", a
                     \* "crash", the "deferral" of a validation
    MaxFaults        \* bound: how much of it goes wrong

ASSUME GxsAssumption ==
    /\ Publishers \subseteq Peers /\ Seekers \subseteq Peers
    /\ IsFiniteSet(Messages) /\ Invalid \subseteq Messages
    /\ MaxRequest \in Nat \ {0}
    /\ {MaxOverlaps, MaxStamp, MaxFaults} \subseteq Nat
    /\ Faults \subseteq {"timeout", "disconnect", "crash", "deferral"}

VARIABLES
    store,      \* the messages in the data base of a peer
    clock,      \* the second of the peer's last stamp
    serverTS,   \* mServerMsgUpdateMap: the peer's stamp of the group
    clientTS,   \* mClientMsgUpdateMap: the stamp it has for each friend
    saved,      \* the stamps in the peer's configuration file
    changed,    \* IndicateConfigChanged since the last save
    partial,    \* mPartialMsgUpdates
    transN,     \* mTransactionN
    own,        \* mTransactions under the peer's own id
    incoming,   \* mTransactions under the id of each friend
    toNotify,   \* mNewMessagesToNotify
    received,   \* mReceivedMsgs
    pending,    \* mMsgPendingValidate
    rejected,   \* mRejectedMessages
    wire,       \* what is under way from a peer to another, in order
    up,         \* the pairs that are connected
    overlaps,   \* questions asked while an exchange went on
    faults,     \* what has gone wrong
    excused     \* history: messages a peer may miss, see UpToDateHoldsAll

stamps == <<clock, serverTS, clientTS, saved, changed, partial>>
exchange == <<toNotify, received, pending, rejected>>
counters == <<overlaps, faults>>
vars == <<store, stamps, transN, own, incoming, exchange, wire, up, counters,
          excused>>

Happens(fault) ==
    /\ fault \in Faults \ faults /\ Cardinality(faults) < MaxFaults
    /\ faults' = faults \cup {fault}

Types == {"list", "request", "messages"}
NoTransactions == [n \in {} |-> n]

(* NxsTransaction.  Of what the peer opened: to whom, the items announced  *)
(* by nItems and whether mItems still holds them.  Of what a friend        *)
(* opened: the items announced and got so far.                             *)
Own == [to : Peers, type : Types, announced : Seq(Messages), ts : Nat,
        held : BOOLEAN, state : {"waiting", "sending", "completed"}]
Incoming == [type : Types, announced : Seq(Messages), ts : Nat,
             got : Seq(Messages), state : {"starting", "receiving", "completed"}]

Item == [kind : {"sync"}, ts : Nat]
        \cup [kind : {"begin1"}, n : Nat, type : Types,
              announced : Seq(Messages), ts : Nat]
        \cup [kind : {"begin2", "end"}, n : Nat]
        \cup [kind : {"item"}, n : Nat, message : Messages]

Connected(x, y) == {x, y} \in up
Elements(s) == {s[i] : i \in DOMAIN s}

(* What of s is in S, in the order of s: the i-th is where there have been *)
(* i of it.                                                                *)
Kept(s, S) ==
    LET places == {k \in DOMAIN s : s[k] \in S}
    IN [i \in 1 .. Cardinality(places) |->
           s[CHOOSE k \in places : Cardinality({j \in places : j <= k}) = i]]

Without(f, n) == [k \in DOMAIN f \ {n} |-> f[k]]
With(f, n, v) == [k \in DOMAIN f \cup {n} |-> IF k = n THEN v ELSE f[k]]

(* sendItem: what is for a peer that is not connected is dropped. *)
Sent(w, x, y, items) ==
    IF Connected(x, y) THEN [w EXCEPT ![x][y] = @ \o items] ELSE w

(***************************************************************************)
(* Transactions between two peers                                          *)
(***************************************************************************)

(* Something between x and y bears a number that x gave. *)
InUse(x) ==
    \/ own[x] # NoTransactions
    \/ \E y \in Peers \ {x} :
          \/ incoming[y][x] # NoTransactions
          \/ \E i \in DOMAIN wire[x][y] : wire[x][y][i].kind \in {"begin1", "item"}
          \/ \E i \in DOMAIN wire[y][x] : wire[y][x][i].kind \in {"begin2", "end"}

(* Mutant: the counter is not advanced. *)
NextNumberStays(x) == IF InUse(x) THEN Max({transN[x], 1}) ELSE 1

(* locked_getTransactionId.  Numbers are told apart only while they are in *)
(* use, so that they begin again when none is.                             *)
NextNumber(x) == IF InUse(x) THEN transN[x] + 1 ELSE 1

(* A transaction or an item is between x and y. *)
Busy(x, y) ==
    \/ wire[x][y] # <<>> \/ wire[y][x] # <<>>
    \/ incoming[x][y] # NoTransactions \/ incoming[y][x] # NoTransactions
    \/ \E n \in DOMAIN own[x] : own[x][n].to = y
    \/ \E n \in DOMAIN own[y] : own[y][n].to = x

(* locked_addTransaction and the sending of RsNxsTransacItem, of           *)
(* locked_pushMsgRespFromList, locked_pushMsgTransactionFromList and       *)
(* locked_genSendMsgsTransaction; w is what is under way before.           *)
Open(w, x, y, type, items, ts) ==
    LET n == NextNumber(x)
    IN /\ transN' = [transN EXCEPT ![x] = n]
       /\ own' = [own EXCEPT ![x] = With(@, n,
              [to |-> y, type |-> type, announced |-> items, ts |-> ts,
               held |-> TRUE, state |-> "waiting"])]
       /\ wire' = Sent(w, x, y, <<[kind |-> "begin1", n |-> n, type |-> type,
                                   announced |-> items, ts |-> ts]>>)

(* locked_stampMsgServerUpdateTS: the second it is.  (The stamp of a peer  *)
(* that no other asks makes no difference and is left out.)                *)
StampServer(x) ==
    IF Seekers \subseteq {x} THEN UNCHANGED <<clock, serverTS>>
    ELSE \E t \in {clock[x], clock[x] + 1} :
             /\ 1 <= t /\ t <= MaxStamp
             /\ clock' = [clock EXCEPT ![x] = t]
             /\ serverTS' = [serverTS EXCEPT ![x] = t]

(***************************************************************************)
(* The history: a message enters the data base of x while a peer is        *)
(* exchanging with x or has the very stamp of x; a transfer fails.         *)
(***************************************************************************)
Racing(x, ts, new) ==
    [z \in Peers |-> IF z # x /\ (Busy(z, x) \/ clientTS[z][x] >= ts)
                     THEN excused[z] \cup new ELSE excused[z]]

(* What z asked x for, or is being sent by x, in a transaction of z or x.  *)
Asked(t) == IF t.type = "list" THEN {} ELSE Elements(t.announced)

(* What is asked for or sent, as far as x knows, between x and y. *)
Between(x, y) ==
    UNION ({Asked(own[x][n]) : n \in {k \in DOMAIN own[x] : own[x][k].to = y}}
           \cup {Asked(incoming[x][y][n]) : n \in DOMAIN incoming[x][y]})

Init ==
    /\ store = [x \in Peers |-> {}]
    /\ clock = [x \in Peers |-> 0] /\ serverTS = clock
    /\ clientTS = [x \in Peers |-> [y \in Peers |-> 0]]
    /\ saved = [x \in Peers |-> [server |-> 0, client |-> clientTS[x]]]
    /\ changed = [x \in Peers |-> FALSE]
    /\ partial = [x \in Peers |-> {}]
    /\ transN = [x \in Peers |-> 0]
    /\ own = [x \in Peers |-> NoTransactions]
    /\ incoming = [x \in Peers |-> [y \in Peers |-> NoTransactions]]
    /\ toNotify = store /\ received = store /\ pending = store
    /\ rejected = store
    /\ wire = [x \in Peers |-> [y \in Peers |-> <<>>]]
    /\ up = {p \in SUBSET Peers : Cardinality(p) = 2}
    /\ overlaps = 0 /\ faults = {}
    /\ excused = store

(* RsGenExchange::publishMsgs: the message is stored, then the group is    *)
(* stamped, which does not have the configuration saved.                   *)
Publish(x, m) ==
    /\ x \in Publishers
    /\ \A y \in Peers : m \notin store[y]
    /\ store' = [store EXCEPT ![x] = @ \cup {m}]
    /\ StampServer(x)
    /\ excused' = Racing(x, serverTS'[x], {m})
    /\ UNCHANGED <<clientTS, saved, changed, partial, transN, own, incoming,
                   exchange, wire, up, counters>>

(* syncWithPeers.  A peer asks again after SYNC_PERIOD, when its last      *)
(* question has long arrived.                                              *)
Sync(x, y) ==
    /\ x \in Seekers /\ x # y /\ Connected(x, y)
    /\ \A i \in DOMAIN wire[x][y] : wire[x][y][i].kind # "sync"
    /\ overlaps' = IF Busy(x, y) THEN overlaps + 1 ELSE overlaps
    /\ overlaps' <= MaxOverlaps
    /\ wire' = Sent(wire, x, y, <<[kind |-> "sync", ts |-> clientTS[x][y]]>>)
    /\ UNCHANGED <<store, stamps, transN, own, incoming, exchange, up, faults,
                   excused>>

(***************************************************************************)
(* recvNxsItemQueue: x takes the next item from y                          *)
(***************************************************************************)
Arrives(x, y, kind) == wire[y][x] # <<>> /\ Head(wire[y][x]).kind = kind
Taken(x, y) == [wire EXCEPT ![y][x] = Tail(@)]

(* handleRecvSyncMessage: the list of what x has, if it has anything and   *)
(* has been stamped since.                                                 *)
RecvSync(x, y) ==
    /\ Arrives(x, y, "sync")
    /\ IF Head(wire[y][x]).ts < serverTS[x] /\ store[x] # {}
       THEN Open(Taken(x, y), x, y, "list", SetToSeq(store[x]), serverTS[x])
       ELSE wire' = Taken(x, y) /\ UNCHANGED <<transN, own>>
    /\ UNCHANGED <<store, stamps, incoming, exchange, up, counters, excused>>

(* locked_processTransac, FLAG_BEGIN_P1: a number already there is refused. *)
RecvBegin1(x, y) ==
    LET b == Head(wire[y][x])
    IN /\ Arrives(x, y, "begin1")
       /\ wire' = Taken(x, y)
       /\ incoming' =
             IF b.n \in DOMAIN incoming[x][y] THEN incoming
             ELSE [incoming EXCEPT ![x][y] = With(@, b.n,
                      [type |-> b.type, announced |-> b.announced, ts |-> b.ts,
                       got |-> <<>>, state |-> "starting"])]
       /\ UNCHANGED <<store, stamps, transN, own, exchange, up, counters, excused>>

(* handleTransaction: content of a transaction of y. *)
RecvItem(x, y) ==
    LET i == Head(wire[y][x])
    IN /\ Arrives(x, y, "item")
       /\ wire' = Taken(x, y)
       /\ incoming' =
             IF i.n \notin DOMAIN incoming[x][y] THEN incoming
             ELSE [incoming EXCEPT ![x][y][i.n].got = Append(@, i.message)]
       /\ UNCHANGED <<store, stamps, transN, own, exchange, up, counters, excused>>

(* locked_processTransac, FLAG_BEGIN_P2 and FLAG_END_SUCCESS: looked up    *)
(* among what x opened, whoever it was opened to.                          *)
RecvReply(x, y) ==
    LET r == Head(wire[y][x])
    IN /\ Arrives(x, y, "begin2") \/ Arrives(x, y, "end")
       /\ wire' = Taken(x, y)
       /\ own' = IF r.n \notin DOMAIN own[x] THEN own
                 ELSE [own EXCEPT ![x][r.n].state =
                          IF r.kind = "end" THEN "completed" ELSE "sending"]
       /\ UNCHANGED <<store, stamps, transN, incoming, exchange, up, counters,
                      excused>>

(***************************************************************************)
(* data_tick: processTransactions and processCompletedTransactions         *)
(***************************************************************************)

(* What x opened: the items are sent when y is ready for them, and that is *)
(* all when y has them.                                                    *)
OwnTick(x, n) ==
    LET t == own[x][n]
        items == [i \in DOMAIN t.announced |->
                     [kind |-> "item", n |-> n, message |-> t.announced[i]]]
    IN /\ n \in DOMAIN own[x]
       /\ t.state # "waiting"
       /\ \A k \in DOMAIN own[x] : k < n => own[x][k].state # t.state
       /\ CASE t.state = "sending" ->
                 /\ wire' = IF t.held THEN Sent(wire, x, t.to, items) ELSE wire
                 /\ own' = [own EXCEPT ![x][n].held = FALSE,
                                       ![x][n].state = "waiting"]
            [] t.state = "completed" ->
                 /\ own' = [own EXCEPT ![x] = Without(@, n)]
                 /\ UNCHANGED wire
       /\ UNCHANGED <<store, stamps, transN, incoming, exchange, up, counters,
                      excused>>

(* The transactions are gone through in the order of their numbers. *)
IsDue(t) == t.state # "receiving" \/ Len(t.got) = Len(t.announced)
InTurn(x, y, n) ==
    \A k \in DOMAIN incoming[x][y] :
        k < n /\ incoming[x][y][k].state = incoming[x][y][n].state
            => ~IsDue(incoming[x][y][k])

(* Mutant: the transactions are gone through in any order. *)
IncomingTickAnyOrder(x, y, n, state) ==
    /\ n \in DOMAIN incoming[x][y] /\ incoming[x][y][n].state = state
    /\ IsDue(incoming[x][y][n])

IncomingTick(x, y, n, state) ==
    /\ n \in DOMAIN incoming[x][y] /\ incoming[x][y][n].state = state
    /\ IsDue(incoming[x][y][n]) /\ InTurn(x, y, n)

Start(x, y, n) ==
    /\ IncomingTick(x, y, n, "starting")
    /\ incoming' = [incoming EXCEPT ![x][y][n].state = "receiving"]
    /\ wire' = Sent(wire, x, y, <<[kind |-> "begin2", n |-> n]>>)
    /\ UNCHANGED <<store, stamps, transN, own, exchange, up, counters, excused>>

AllReceived(x, y, n) ==
    /\ IncomingTick(x, y, n, "receiving")
    /\ incoming' = [incoming EXCEPT ![x][y][n].state = "completed"]
    /\ UNCHANGED <<store, stamps, transN, own, exchange, wire, up, counters,
                   excused>>

(* A completed transaction leaves mTransactions and y is told. *)
Finish(x, y, n, type) ==
    /\ IncomingTick(x, y, n, "completed")
    /\ incoming[x][y][n].type = type
    /\ incoming' = [incoming EXCEPT ![x][y] = Without(@, n)]
Told(x, y, n) == Sent(wire, x, y, <<[kind |-> "end", n |-> n]>>)

(* Mutants: the flag of a partial request is not set; an up to date peer   *)
(* does not keep the stamp.                                                *)
FinishListUnflagged(x, y, n) ==
    LET t == incoming[x][y][n]
        wanted == Kept(t.got, Messages \ (store[x] \cup rejected[x]))
        asked == SubSeq(wanted, 1, Min({MaxRequest, Len(wanted)}))
    IN /\ Finish(x, y, n, "list")
       /\ IF asked # <<>>
          THEN /\ Open(Told(x, y, n), x, y, "request", asked, 0)
               /\ UNCHANGED <<clientTS, changed>>
          ELSE /\ clientTS' = [clientTS EXCEPT ![x][y] = t.ts]
               /\ changed' = [changed EXCEPT ![x] = TRUE]
               /\ wire' = Told(x, y, n)
               /\ UNCHANGED <<transN, own>>
       /\ UNCHANGED <<store, clock, serverTS, saved, partial, exchange, up,
                      counters, excused>>

FinishListUnstamped(x, y, n) ==
    LET t == incoming[x][y][n]
        wanted == Kept(t.got, Messages \ (store[x] \cup rejected[x]))
        asked == SubSeq(wanted, 1, Min({MaxRequest, Len(wanted)}))
        exceeded == Len(asked) = MaxRequest /\ Last(asked) # Last(t.got)
    IN /\ Finish(x, y, n, "list")
       /\ IF asked # <<>>
          THEN /\ Open(Told(x, y, n), x, y, "request", asked, 0)
               /\ partial' = [partial EXCEPT ![x] =
                                 IF exceeded THEN @ \cup {y} ELSE @ \ {y}]
          ELSE wire' = Told(x, y, n) /\ UNCHANGED <<transN, own, partial>>
       /\ UNCHANGED <<store, clock, serverTS, clientTS, saved, changed, exchange,
                      up, counters, excused>>

(* locked_genReqMsgTransaction: of the list, x asks for what it has not    *)
(* and has not rejected until it asks for MaxRequest messages; what then   *)
(* is left of the list makes the request a partial one.  With nothing to   *)
(* ask for, x is up to date.                                               *)
FinishList(x, y, n) ==
    LET t == incoming[x][y][n]
        wanted == Kept(t.got, Messages \ (store[x] \cup rejected[x]))
        asked == SubSeq(wanted, 1, Min({MaxRequest, Len(wanted)}))
        exceeded == Len(asked) = MaxRequest /\ Last(asked) # Last(t.got)
    IN /\ Finish(x, y, n, "list")
       /\ IF asked # <<>>
          THEN /\ Open(Told(x, y, n), x, y, "request", asked, 0)
               /\ partial' = [partial EXCEPT ![x] =
                                 IF exceeded THEN @ \cup {y} ELSE @ \ {y}]
               /\ UNCHANGED <<clientTS, changed>>
          ELSE /\ clientTS' = [clientTS EXCEPT ![x][y] = t.ts]
               /\ changed' = [changed EXCEPT ![x] = TRUE]
               /\ wire' = Told(x, y, n)
               /\ UNCHANGED <<transN, own, partial>>
       /\ UNCHANGED <<store, clock, serverTS, saved, exchange, up, counters,
                      excused>>

(* locked_genSendMsgsTransaction, under the stamp of now. *)
FinishRequest(x, y, n) ==
    LET found == Kept(incoming[x][y][n].got, store[x])
    IN /\ Finish(x, y, n, "request")
       /\ IF found # <<>>
          THEN Open(Told(x, y, n), x, y, "messages", found, serverTS[x])
          ELSE wire' = Told(x, y, n) /\ UNCHANGED <<transN, own>>
       /\ UNCHANGED <<store, stamps, exchange, up, counters, excused>>

(* The messages are to be passed on; unless they were only part of what    *)
(* there is, x has the stamp of y (locked_doMsgUpdateWork); and the group  *)
(* is stamped.                                                             *)
FinishMessages(x, y, n) ==
    LET t == incoming[x][y][n]
    IN /\ Finish(x, y, n, "messages")
       /\ toNotify' = [toNotify EXCEPT ![x] = @ \cup Elements(t.got)]
       /\ IF y \in partial[x] THEN UNCHANGED <<clientTS, changed>>
          ELSE /\ clientTS' = [clientTS EXCEPT ![x][y] = t.ts]
               /\ changed' = [changed EXCEPT ![x] = TRUE]
       /\ StampServer(x)
       /\ wire' = Told(x, y, n)
       /\ UNCHANGED <<store, saved, partial, transN, own, received, pending,
                      rejected, up, counters, excused>>

(* A transaction that is to go nowhere: neither side has something to do   *)
(* and nothing of it is under way.                                         *)
Stuck(x, y, n) ==
    /\ \A p \in {<<x, y>>, <<y, x>>} :
          \A i \in DOMAIN wire[p[1]][p[2]] :
              wire[p[1]][p[2]][i].kind # "sync" => wire[p[1]][p[2]][i].n # n
    /\ n \in DOMAIN own[x] => own[x][n].state = "waiting"
    /\ n \in DOMAIN incoming[y][x] => ~IsDue(incoming[y][x][n])

TimesOut(stuck) ==
    IF stuck THEN UNCHANGED faults ELSE Happens("timeout")

(* Mutant: a failed transaction stays among the others. *)
OwnTimeoutStays(x, n) ==
    /\ n \in DOMAIN own[x] /\ TimesOut(Stuck(x, own[x][n].to, n))
    /\ own' = [own EXCEPT ![x][n].state = "failed"]
    /\ UNCHANGED <<store, stamps, transN, incoming, exchange, wire, up,
                   overlaps, excused>>

(* mTimeOut has passed: the transaction is failed and forgotten.  The      *)
(* other side keeps its own.                                               *)
OwnTimeout(x, n) ==
    LET t == own[x][n]
    IN /\ n \in DOMAIN own[x]
       /\ TimesOut(Stuck(x, t.to, n))
       /\ own' = [own EXCEPT ![x] = Without(@, n)]
       /\ excused' = [excused EXCEPT ![IF t.type = "request" THEN x ELSE t.to]
                         = @ \cup Asked(t)]
       /\ UNCHANGED <<store, stamps, transN, incoming, exchange, wire, up,
                      overlaps>>

IncomingTimeout(x, y, n) ==
    LET t == incoming[x][y][n]
    IN /\ n \in DOMAIN incoming[x][y]
       /\ TimesOut(Stuck(y, x, n))
       /\ incoming' = [incoming EXCEPT ![x][y] = Without(@, n)]
       /\ excused' = [excused EXCEPT ![IF t.type = "request" THEN y ELSE x]
                         = @ \cup Asked(t)]
       /\ UNCHANGED <<store, stamps, transN, own, exchange, wire, up,
                      overlaps>>

(***************************************************************************)
(* The exchange                                                            *)
(***************************************************************************)

(* processObserverNotifications and notifyNewMessages: what is waiting to  *)
(* be validated is not taken again.                                        *)
Notify(x) ==
    /\ toNotify[x] # {}
    /\ toNotify' = [toNotify EXCEPT ![x] = {}]
    /\ received' = [received EXCEPT ![x] = @ \cup (toNotify[x] \ pending[x])]
    /\ UNCHANGED <<store, stamps, transN, own, incoming, pending, rejected,
                   wire, up, counters, excused>>

(* processRecvdMessages: what waits is tried again or has waited too long; *)
(* a message is stored, rejected or, its author's key missing, to be tried *)
(* later.                                                                  *)
ProcessReceived(x) ==
    \E expired \in SUBSET pending[x] :
      LET tried == received[x] \cup (pending[x] \ expired)
      IN \E later \in SUBSET (tried \ Invalid) :
        LET new == (tried \ (Invalid \cup later)) \ store[x]
        IN /\ received[x] \cup pending[x] # {}
           /\ IF later \subseteq pending[x] THEN UNCHANGED faults
              ELSE Happens("deferral")
           /\ store' = [store EXCEPT ![x] = @ \cup new]
           /\ received' = [received EXCEPT ![x] = {}]
           /\ pending' = [pending EXCEPT ![x] = later]
           /\ rejected' = [rejected EXCEPT ![x] = @ \cup (tried \cap Invalid)]
           /\ excused' = [Racing(x, serverTS[x], new)
                             EXCEPT ![x] = @ \cup expired]
           /\ UNCHANGED <<stamps, transN, own, incoming, toNotify, wire, up,
                          overlaps>>

(***************************************************************************)
(* The configuration, the connections and crashes                          *)
(***************************************************************************)

(* saveList, when p3ConfigMgr next looks for changes. *)
Save(x) ==
    /\ changed[x] /\ "crash" \in Faults \ faults
    /\ changed' = [changed EXCEPT ![x] = FALSE]
    /\ saved' = [saved EXCEPT ![x] = [server |-> serverTS[x],
                                      client |-> clientTS[x]]]
    /\ UNCHANGED <<store, clock, serverTS, clientTS, partial, transN, own,
                   incoming, exchange, wire, up, counters, excused>>

(* What is under way is lost, except what has been received. *)
Disconnect(x, y) ==
    /\ Connected(x, y) /\ Happens("disconnect")
    /\ up' = up \ {{x, y}}
    /\ \E i \in 0 .. Len(wire[x][y]), j \in 0 .. Len(wire[y][x]) :
          wire' = [wire EXCEPT ![x][y] = SubSeq(@, 1, i), ![y][x] = SubSeq(@, 1, j)]
    /\ UNCHANGED <<store, stamps, transN, own, incoming, exchange, overlaps,
                   excused>>

(* To connect takes longer than the ticks that take what has been received *)
(* and move the transactions on.                                           *)
Settled(x, y) ==
    /\ wire[x][y] = <<>> /\ wire[y][x] = <<>>
    /\ \A n \in DOMAIN own[x] : own[x][n].to = y => own[x][n].state = "waiting"
    /\ \A n \in DOMAIN incoming[x][y] : ~IsDue(incoming[x][y][n])

Connect(x, y) ==
    /\ x # y /\ ~Connected(x, y) /\ Settled(x, y) /\ Settled(y, x)
    /\ up' = up \cup {{x, y}}
    /\ UNCHANGED <<store, stamps, transN, own, incoming, exchange, wire,
                   counters, excused>>

(* The data base and the configuration file are left.  What x asked for or *)
(* had not stored yet, and what only an unsaved stamp would have told the  *)
(* others of, may be missed.                                               *)
Crash(x) ==
    /\ Happens("crash")
    /\ up' = {p \in up : x \notin p}
    /\ wire' = [y \in Peers |-> [z \in Peers |->
                   IF z = x \/ y = x THEN <<>> ELSE wire[y][z]]]
    /\ serverTS' = [serverTS EXCEPT ![x] = saved[x].server]
    /\ clientTS' = [clientTS EXCEPT ![x] = saved[x].client]
    /\ changed' = [changed EXCEPT ![x] = FALSE]
    /\ partial' = [partial EXCEPT ![x] = {}]
    /\ transN' = [transN EXCEPT ![x] = 0]
    /\ own' = [own EXCEPT ![x] = NoTransactions]
    /\ incoming' = [incoming EXCEPT ![x] = [y \in Peers |-> NoTransactions]]
    /\ toNotify' = [toNotify EXCEPT ![x] = {}]
    /\ received' = [received EXCEPT ![x] = {}]
    /\ pending' = [pending EXCEPT ![x] = {}]
    /\ rejected' = [rejected EXCEPT ![x] = {}]
    /\ excused' = [z \in Peers |->
          IF z # x
          THEN excused[z] \cup Between(x, z)
               \cup (IF serverTS[x] # saved[x].server THEN store[x] ELSE {})
          ELSE UNION ({Between(x, y) : y \in Peers}
                      \cup {excused[x], toNotify[x], received[x], pending[x], rejected[x]})]
    /\ UNCHANGED <<store, clock, saved, overlaps>>

Receive(x, y) ==
    RecvSync(x, y) \/ RecvBegin1(x, y) \/ RecvItem(x, y) \/ RecvReply(x, y)

DataTick(x) ==
    \/ \E n \in DOMAIN own[x] : OwnTick(x, n)
    \/ \E y \in Peers : \E n \in DOMAIN incoming[x][y] :
          \/ Start(x, y, n) \/ AllReceived(x, y, n) \/ FinishList(x, y, n)
          \/ FinishRequest(x, y, n) \/ FinishMessages(x, y, n)

Timeout(x) ==
    \/ \E n \in DOMAIN own[x] : OwnTimeout(x, n)
    \/ \E y \in Peers : \E n \in DOMAIN incoming[x][y] : IncomingTimeout(x, y, n)

Next ==
    \/ \E x \in Peers :
          \/ \E m \in Messages : Publish(x, m)
          \/ DataTick(x) \/ Timeout(x)
          \/ Notify(x) \/ ProcessReceived(x) \/ Save(x) \/ Crash(x)
    \/ \E x, y \in Peers :
          Sync(x, y) \/ Receive(x, y) \/ Disconnect(x, y) \/ Connect(x, y)

Spec == Init /\ [][Next]_vars

(* Both peers' threads run, what is under way arrives, a peer asks again,  *)
(* one that is gone comes back, and what goes nowhere times out.           *)
Fairness ==
    /\ WF_vars(\E x, y \in Peers : Receive(x, y))
    /\ WF_vars(\E x \in Peers : DataTick(x))
    /\ WF_vars(\E x \in Peers : Notify(x))
    /\ WF_vars(\E x \in Peers : ProcessReceived(x))
    /\ WF_vars(\E x, y \in Peers : Sync(x, y))
    /\ WF_vars(\E x, y \in Peers : Connect(x, y))
    /\ WF_vars(\E x \in Peers : Timeout(x) /\ UNCHANGED faults)

FairSpec == Spec /\ Fairness

(***************************************************************************)
(* Properties                                                              *)
(***************************************************************************)

(* The state has its type: among it, that what is announced, asked for and *)
(* sent are messages, under numbers and stamps that were given.            *)
TypeOK ==
    /\ store \in [Peers -> SUBSET Messages]
    /\ {clock, serverTS} \subseteq [Peers -> Nat]
    /\ clientTS \in [Peers -> [Peers -> Nat]]
    /\ saved \in [Peers -> [server : Nat, client : [Peers -> Nat]]]
    /\ changed \in [Peers -> BOOLEAN] /\ partial \in [Peers -> SUBSET Peers]
    /\ transN \in [Peers -> Nat]
    /\ DOMAIN own = Peers /\ DOMAIN incoming = Peers
    /\ \A x \in Peers : \A n \in DOMAIN own[x] : n \in Nat /\ own[x][n] \in Own
    /\ \A x \in Peers : DOMAIN incoming[x] = Peers
    /\ \A x, y \in Peers : \A n \in DOMAIN incoming[x][y] :
          n \in Nat /\ incoming[x][y][n] \in Incoming
    /\ wire \in [Peers -> [Peers -> Seq(Item)]]
    /\ {toNotify, received, pending, rejected, excused}
          \subseteq [Peers -> SUBSET Messages]

(* What x has, has refused or is about to validate. *)
Has(x) == store[x] \cup toNotify[x] \cup received[x] \cup pending[x] \cup rejected[x]

(* What is asked for or sent between x and y, as far as either knows. *)
OnTheWay(x, y) == Between(x, y) \cup Between(y, x)

(* y would not answer the question of x. *)
UpToDate(x, y) == x # y /\ clientTS[x][y] > 0 /\ clientTS[x][y] >= serverTS[y]

(* When a peer has the stamp of a friend, so that he would be told of      *)
(* nothing more (handleRecvSyncMessage), it holds, has refused or is just  *)
(* being sent every message of that friend, however many requests were     *)
(* partial and however exchanges overlap.  Excused are only the messages   *)
(* the friend came by while the two were exchanging or under the stamp the *)
(* peer already had, those of a transfer that failed and those a peer had  *)
(* taken but lost before they were stored.                                 *)
UpToDateHoldsAll ==
    \A x, y \in Peers :
        UpToDate(x, y) => store[y] \subseteq Has(x) \cup OnTheWay(x, y) \cup excused[x]

(* What is received in a transaction is what was announced for it and in   *)
(* that order: items of two transactions never get into one, although the  *)
(* sides begin, end and forget transactions by clocks of their own         *)
(* (handleTransaction looks at the number only).                           *)
NoMixing ==
    \A x, y \in Peers : \A n \in DOMAIN incoming[x][y] :
        IsPrefix(incoming[x][y][n].got, incoming[x][y][n].announced)

(* Short of a crash, the stamp a peer has for a friend never decreases,    *)
(* though exchanges overlap and end in any order (locked_doMsgUpdateWork   *)
(* and locked_stampPeerGroupUpdateTime assign it without a comparison).    *)
StampNeverGoesBack ==
    []["crash" \notin faults' \ faults => \A x, y \in Peers : clientTS'[x][y] >= clientTS[x][y]]_vars

(* A peer whose stamp is behind a friend's comes to have it, through       *)
(* partial requests, lost connections, crashes and time-outs: it does not  *)
(* go on for ever asking for what it has or can not get.                   *)
BehindCatchesUp ==
    \A x \in Seekers : \A y \in Publishers \ {x} :
        clientTS[x][y] < serverTS[y] ~> clientTS[x][y] >= serverTS[y]
=============================================================================
