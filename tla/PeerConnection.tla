--------------------------- MODULE PeerConnection ---------------------------
(***************************************************************************)
(* The connection to one friend, from the sockets to the link manager: the *)
(* pqissl and pqissludp of each way to connect (its kids), the pqiperson   *)
(* above them, the threads that read from them (pqithreadstreamer), and    *)
(* what p3LinkMgrIMPL and pqipersongrp keep of the friend.                 *)
(*                                                                         *)
(* The main thread goes round in RsServer::data_tick: the listener, the    *)
(* persons (holding mPersonMtx and coreMtx), the events they have queued,  *)
(* the link manager and what it decides.  The streamer thread of a kid,    *)
(* the DHT and the user come in between.  An action is what one thread     *)
(* does under one hold of a mutex.  Times are not measured: whether a      *)
(* timer has run out is a choice, addresses are known by the kind of       *)
(* connection they are for, and an event of a kid is a success or a        *)
(* failure (CONNECT_FAILED and CONNECT_UNREACHABLE are handled alike).     *)
(***************************************************************************)
EXTENDS Integers, Sequences

CONSTANTS
    MaxAccepts,   \* bound: connections that come in
    MaxRetries,   \* bound: times addresses are added to try
    MaxRemovals   \* bound: times the user removes the friend

ASSUME BoundsAssumption == {MaxAccepts, MaxRetries, MaxRemovals} \subseteq Nat

VARIABLES
    peer,      \* the objects that stand for the friend
    main,      \* where the main thread is
    todo,      \* kids pqiperson::tick has still to tick
    taken,     \* the actions that tickMonitors has still to see to
    user,      \* the user's retry has passed the check of retryConnectTCP
    accepts, retries, removals,  \* counted against the bounds
    crashed    \* a null pointer has been followed

counters == <<accepts, retries, removals>>
vars == <<peer, main, todo, taken, user, counters, crashed>>

(* The kids of a friend who is not hidden: a pqissl and a pqissludp.        *)
TCP == 1
UDP == 2
Kids == {TCP, UDP}
Other(k) == IF k = TCP THEN UDP ELSE TCP

Waiting == {"NOT", "DELAY", "SOCK_CONNECT", "SSL_CONNECTION", "FAIL_INTERFACE"}

(* A pqissl: waiting, whether sockfd and ssl_connection are set, active.   *)
Kid == [waiting : Waiting, sockfd : BOOLEAN, ssl : BOOLEAN, active : BOOLEAN]
Idle == [waiting |-> "NOT", sockfd |-> FALSE, ssl |-> FALSE, active |-> FALSE]

(* A streamer thread: not running, between two calls of data_tick, past    *)
(* the check of isactive in one, or answering an item it has received; and *)
(* mShouldStop.                                                            *)
Thread == [at : {"none", "loop", "tick", "reply"}, stop : BOOLEAN]
NoThread == [at |-> "none", stop |-> FALSE]

Event == [kid : Kids, success : BOOLEAN]

(* exists: there is a pqiperson, with its kids and threads.  active,       *)
(* activepqi, fresh (lastHeartbeatReceived is recent) and queue            *)
(* (mNotifyQueue) are its own.  The other fields are the peerConnectState  *)
(* in mFriendList, and moved that there is one in mOthersList.             *)
Peer == [exists : BOOLEAN, kid : [Kids -> Kid], thread : [Kids -> Thread],
         active : BOOLEAN, activepqi : Kids \cup {0}, fresh : BOOLEAN,
         queue : Seq(Event),
         friend : BOOLEAN, moved : BOOLEAN, connected : BOOLEAN,
         inConnAttempt : BOOLEAN, connAddrs : Seq(Kids),
         actions : SUBSET {"NEW", "CONNECT_REQ"}]

(* A friend that addFriend has just added. *)
NewFriend ==
    [exists |-> FALSE, kid |-> [k \in Kids |-> Idle],
     thread |-> [k \in Kids |-> NoThread],
     active |-> FALSE, activepqi |-> 0, fresh |-> FALSE, queue |-> <<>>,
     friend |-> TRUE, moved |-> FALSE, connected |-> FALSE,
     inConnAttempt |-> FALSE, connAddrs |-> <<>>, actions |-> {"NEW"}]

(***************************************************************************)
(* p3LinkMgrIMPL                                                           *)
(***************************************************************************)

(* Mutant of ConnectResult: a failure leaves the state of the friend.      *)
ConnectResultKeepsState(p, success) ==
    IF ~p.friend THEN p
    ELSE IF success
    THEN [p EXCEPT !.connected = TRUE, !.inConnAttempt = FALSE,
                   !.connAddrs = <<>>]
    ELSE [p EXCEPT !.inConnAttempt = FALSE,
                   !.actions = IF p.connAddrs = <<>> THEN @
                               ELSE @ \cup {"CONNECT_REQ"}]

(* connectResult: what becomes of the friend when a connection is made or  *)
(* an attempt or a connection fails.                                       *)
ConnectResult(p, success) ==
    IF ~p.friend THEN p
    ELSE IF success
    THEN [p EXCEPT !.connected = TRUE, !.inConnAttempt = FALSE,
                   !.connAddrs = <<>>]
    ELSE [p EXCEPT !.connected = FALSE, !.inConnAttempt = FALSE,
                   !.actions = IF p.connAddrs = <<>> THEN @
                               ELSE @ \cup {"CONNECT_REQ"}]

(* locked_ConnectAttempt_Complete: an attempt under way is to go on with   *)
(* the addresses itself.                                                   *)
AttemptComplete(p) ==
    IF p.inConnAttempt \/ p.connAddrs = <<>> THEN p
    ELSE [p EXCEPT !.actions = @ \cup {"CONNECT_REQ"}]

(* addAddressIfUnique: tryConnectUDP pushes the address of the DHT to the  *)
(* front, retryConnectTCP, once it has found the friend not connected, the *)
(* one p3PeerMgr knows to the back.                                        *)
Contains(addrs, k) == \E i \in DOMAIN addrs : addrs[i] = k

AddAddress(p, k) ==
    AttemptComplete(
        IF Contains(p.connAddrs, k) THEN p
        ELSE [p EXCEPT !.connAddrs = IF k = UDP THEN <<k>> \o @ ELSE @ \o <<k>>])

(***************************************************************************)
(* pqissl and pqiperson                                                    *)
(***************************************************************************)

Queued(p, k, ok) ==
    [p EXCEPT !.queue = Append(@, [kid |-> k, success |-> ok])]

(* pqissl::reset_locked, under mPersonMtx: everything is closed, and if    *)
(* there was something the failure is queued.                              *)
ResetKid(p, k) ==
    LET q == [p EXCEPT !.kid[k] = Idle]
    IN IF p.kid[k].ssl \/ p.kid[k].sockfd THEN Queued(q, k, FALSE) ELSE q

(* Mutant of Shutdown: only a thread between two ticks is asked to stop.   *)
ShutdownBetweenTicks(t) ==
    IF t.at = "loop" THEN [t EXCEPT !.stop = TRUE] ELSE t

(* RsTickingThread::shutdown and start.  A thread that has been asked to   *)
(* stop and still runs is not started again.                               *)
Shutdown(t) == IF t.at = "none" THEN t ELSE [t EXCEPT !.stop = TRUE]
Start(t) == IF t.at = "none" THEN [at |-> "loop", stop |-> FALSE] ELSE t

(* Mutant of HandleSuccess: the other kid is left alone.                   *)
HandleSuccessAlone(p, k) ==
    [ConnectResult(p, TRUE) EXCEPT
        !.active = TRUE, !.activepqi = k, !.fresh = TRUE,
        !.thread[k] = Start(@)]

(* Mutant of HandleFailure: activepqi is left behind.                      *)
HandleFailureKeepsPqi(p, k) ==
    ConnectResult(
        IF p.active /\ p.activepqi = k
        THEN [p EXCEPT !.thread[k] = Shutdown(@), !.active = FALSE]
        ELSE p, FALSE)

(* handleNotifyEvent_locked. *)
HandleSuccess(p, k) ==
    ResetKid([ConnectResult(p, TRUE) EXCEPT
                 !.active = TRUE, !.activepqi = k, !.fresh = TRUE,
                 !.thread[k] = Start(@)],
             Other(k))

HandleFailure(p, k) ==
    ConnectResult(
        IF p.active /\ p.activepqi = k
        THEN [p EXCEPT !.thread[k] = Shutdown(@),
                       !.active = FALSE, !.activepqi = 0]
        ELSE p, FALSE)

Handle(p, k, ok) == IF ok THEN HandleSuccess(p, k) ELSE HandleFailure(p, k)

(* Mutant of Notify: what cannot be handled at once is forgotten.          *)
NotifyOrForget(p, k, ok, busy) == IF busy THEN p ELSE Handle(p, k, ok)

(* notifyEvent: an event is handled at once when mPersonMtx is free.       *)
Notify(p, k, ok, busy) == IF busy THEN Queued(p, k, ok) ELSE Handle(p, k, ok)

(* reset_locked from a thread that does not hold mPersonMtx. *)
ResetAndNotify(p, k, busy) ==
    LET q == [p EXCEPT !.kid[k] = Idle]
    IN IF p.kid[k].ssl \/ p.kid[k].sockfd THEN Notify(q, k, FALSE, busy) ELSE q

(* accept_locked, once the connection is let in. *)
Established == [waiting |-> "NOT", sockfd |-> TRUE, ssl |-> TRUE, active |-> TRUE]

(* pqiperson::reset_locked. *)
ResetPerson(p) ==
    LET q == [p EXCEPT !.thread = [k \in Kids |-> Shutdown(@[k])],
                       !.active = FALSE, !.activepqi = 0, !.fresh = FALSE]
    IN ResetKid(ResetKid(q, TCP), UDP)

(* pqiperson::connect: the kid is reset, and its tick will begin.          *)
Connect(p, k) == [ResetKid(p, k) EXCEPT !.kid[k].waiting = "DELAY"]

(***************************************************************************)
(* What pqissl::tick may make of a kid that is waiting                     *)
(***************************************************************************)

Set(p, k, waiting, sockfd, ssl) ==
    [p EXCEPT !.kid[k] = [waiting |-> waiting, sockfd |-> sockfd,
                          ssl |-> ssl, active |-> FALSE]]

(* The attempt fails before there is a socket, or pqissl closes it: the    *)
(* next tick tells.                                                        *)
FailInterface(p, k) == Set(p, k, "FAIL_INTERFACE", FALSE, FALSE)

(* Initiate_Connection, after the delay; a pqissludp that has a socket     *)
(* resets when it cannot connect it.                                       *)
Initiated(p, k) ==
    {p, Set(p, k, "SOCK_CONNECT", TRUE, FALSE), FailInterface(p, k)}
    \cup (IF k = UDP
          THEN {ResetKid(Set(p, k, "DELAY", TRUE, FALSE), k)} ELSE {})

(* Initiate_SSL_Connection: timed out, not yet, connected or failed.       *)
(* pqissl closes the socket of an unknown error and stays as it is, to     *)
(* reset with nothing to close the next time; pqissludp resets an          *)
(* unreachable one first and then waits to tell again.                     *)
SocketConnected(p, k) ==
    IF ~p.kid[k].sockfd THEN {ResetKid(p, k)}
    ELSE {p, ResetKid(p, k), Set(p, k, "SSL_CONNECTION", TRUE, TRUE)}
         \cup (IF k = UDP
               THEN {[ResetKid(p, k) EXCEPT !.kid[k].waiting = "FAIL_INTERFACE"]}
               ELSE {FailInterface(p, k), Set(p, k, "SOCK_CONNECT", FALSE, FALSE)})

(* Authorise_SSL_Connection: timed out or refused, not yet, failed, or     *)
(* accepted.                                                               *)
SslConnected(p, k) ==
    {p, ResetKid(p, k),
     [ResetKid(p, k) EXCEPT !.kid[k].waiting = "FAIL_INTERFACE"],
     Queued([p EXCEPT !.kid[k] = Established], k, TRUE)}

(* Failed_Connection. *)
FailedConnection(p, k) ==
    Queued([p EXCEPT !.kid[k].waiting = "NOT"], k, FALSE)

Ticked(p, k) ==
    IF p.kid[k].active THEN {p}
    ELSE CASE p.kid[k].waiting = "NOT" -> {p}
           [] p.kid[k].waiting = "DELAY" -> Initiated(p, k)
           [] p.kid[k].waiting = "SOCK_CONNECT" -> SocketConnected(p, k)
           [] p.kid[k].waiting = "SSL_CONNECTION" -> SslConnected(p, k)
           [] p.kid[k].waiting = "FAIL_INTERFACE" -> {FailedConnection(p, k)}

Init ==
    /\ peer = NewFriend
    /\ main = "listen"
    /\ todo = {}
    /\ taken = {}
    /\ user = FALSE
    /\ accepts = 0 /\ retries = 0 /\ removals = 0
    /\ crashed = FALSE

(***************************************************************************)
(* The main thread                                                         *)
(***************************************************************************)

(* pqissllistener::tick: a connection comes in, and pqissl::accept takes   *)
(* it or refuses it; refused or not, what was there before is closed.      *)
Accept(busy) ==
    /\ main = "listen"
    /\ peer.exists
    /\ accepts < MaxAccepts
    /\ accepts' = accepts + 1
    /\ \/ peer' = Notify([peer EXCEPT !.kid[TCP] = Established], TCP, TRUE, busy)
       \/ peer' = ResetAndNotify(peer, TCP, busy)
    /\ UNCHANGED <<main, todo, taken, user, retries, removals, crashed>>

(* Mutant of BeginTick: the heartbeat is not looked at.                    *)
BeginTickTrusting ==
    /\ main = "listen"
    /\ main' = IF peer.exists THEN "tick" ELSE "links"
    /\ todo' = IF peer.exists THEN Kids ELSE todo
    /\ UNCHANGED <<peer, taken, user, counters, crashed>>

(* pqiperson::tick: a connection whose heartbeat is not fresh is given up. *)
BeginTick ==
    /\ main = "listen"
    /\ IF peer.exists
       THEN /\ peer' = IF peer.active /\ ~peer.fresh
                       THEN ResetPerson(peer) ELSE peer
            /\ main' = "tick"
            /\ todo' = Kids
       ELSE /\ main' = "links"
            /\ UNCHANGED <<peer, todo>>
    /\ UNCHANGED <<taken, user, counters, crashed>>

TickKid ==
    /\ main = "tick"
    /\ \E k \in todo :
          /\ k = UDP => TCP \notin todo
          /\ peer' \in Ticked(peer, k)
          /\ todo' = todo \ {k}
    /\ main' = IF todo' = {} THEN "notify" ELSE "tick"
    /\ UNCHANGED <<taken, user, counters, crashed>>

(* processNotifyEvents.  A success asks the kid whether it is the server   *)
(* of its SSL connection, if there still is one.                           *)
ProcessEvent ==
    /\ main = "notify"
    /\ peer.queue # <<>>
    /\ LET e == Head(peer.queue)
       IN IF e.success /\ ~peer.kid[e.kid].ssl
          THEN crashed' = TRUE /\ UNCHANGED peer
          ELSE /\ peer' = Handle([peer EXCEPT !.queue = Tail(@)], e.kid, e.success)
               /\ UNCHANGED crashed
    /\ UNCHANGED <<main, todo, taken, user, counters>>

EndNotify ==
    /\ main = "notify"
    /\ peer.queue = <<>>
    /\ main' = "links"
    /\ UNCHANGED <<peer, todo, taken, user, counters, crashed>>

(* p3heartbeat::tick has an item from a streamer.                          *)
CanBeat == \E k \in Kids : peer.thread[k].at # "none" /\ peer.kid[k].active

Heartbeat ==
    /\ main = "links"
    /\ peer.exists
    /\ CanBeat
    /\ peer' = [peer EXCEPT !.fresh = TRUE]
    /\ UNCHANGED <<main, todo, taken, user, counters, crashed>>

Retry(p) ==
    /\ retries < MaxRetries
    /\ retries' = retries + 1
    /\ peer' = p

(* statusTick: a friend that is not connected is tried again when the last *)
(* attempt is long ago.                                                    *)
StatusTick ==
    /\ main = "links"
    /\ \/ UNCHANGED <<peer, retries>>
       \/ /\ peer.friend /\ ~peer.connected
          /\ Retry(AddAddress(peer, TCP))
    /\ main' = "monitors"
    /\ UNCHANGED <<todo, taken, user, accepts, removals, crashed>>

(* tickMonitors takes the actions of friends and others; statusChange of   *)
(* pqipersongrp makes a person for a new friend, unless there is one,      *)
TickMonitors ==
    /\ main = "monitors"
    /\ taken' = (peer.actions \ {"NEW"}) \cup (IF peer.moved THEN {"MOVED"} ELSE {})
    /\ peer' = [peer EXCEPT !.actions = {}, !.moved = FALSE,
                            !.exists = @ \/ "NEW" \in peer.actions]
    /\ main' = "change"
    /\ UNCHANGED <<todo, user, counters, crashed>>

(* tries the first address (connectPeer),                                  *)
ConnectPeer ==
    /\ main = "change"
    /\ "CONNECT_REQ" \in taken
    /\ taken' = taken \ {"CONNECT_REQ"}
    /\ IF peer.exists /\ peer.friend /\ peer.connAddrs # <<>>
       THEN peer' = Connect([peer EXCEPT !.inConnAttempt = TRUE,
                                         !.connAddrs = Tail(@)],
                            Head(peer.connAddrs))
       ELSE UNCHANGED peer
    /\ UNCHANGED <<main, todo, user, counters, crashed>>

(* and removes that of another: removePeer holds coreMtx until its threads *)
(* have stopped.                                                           *)
RemovePeer ==
    /\ main = "change"
    /\ taken = {"MOVED"}
    /\ taken' = {}
    /\ IF peer.exists
       THEN main' = "fullstop" /\ peer' = ResetPerson(peer)
       ELSE UNCHANGED <<main, peer>>
    /\ UNCHANGED <<todo, user, counters, crashed>>

(* Then tickMonitors clears mOthersList.                                   *)
ClearOthers ==
    /\ main = "change"
    /\ taken = {}
    /\ peer' = [peer EXCEPT !.moved = FALSE]
    /\ main' = "listen"
    /\ UNCHANGED <<todo, taken, user, counters, crashed>>

FullStop ==
    /\ main = "fullstop"
    /\ \A k \in Kids : peer.thread[k].at = "none"
    /\ peer' = [peer EXCEPT !.exists = FALSE, !.queue = <<>>]
    /\ main' = "change"
    /\ UNCHANGED <<todo, taken, user, counters, crashed>>

Main ==
    \/ \E busy \in BOOLEAN : Accept(busy)
    \/ BeginTick \/ TickKid \/ ProcessEvent \/ EndNotify
    \/ Heartbeat \/ StatusTick \/ TickMonitors \/ ConnectPeer
    \/ RemovePeer \/ FullStop \/ ClearOthers

(***************************************************************************)
(* The streamer threads                                                    *)
(***************************************************************************)

(* mPersonMtx is held by the main thread, and coreMtx with it.             *)
PersonHeld == main \in {"tick", "fullstop"}
CoreHeld == main \in {"tick", "notify", "fullstop"}

ThreadLoop(k) ==
    /\ peer.thread[k].at = "loop"
    /\ peer.thread[k].stop \/ peer.kid[k].active
    /\ peer' = [peer EXCEPT !.thread[k] =
                   IF @.stop THEN NoThread ELSE [@ EXCEPT !.at = "tick"]]
    /\ UNCHANGED <<main, todo, taken, user, counters, crashed>>

(* tick_recv and tick_send: an error resets the kid; an item may be one    *)
(* that is answered at once; moretoread asks the SSL connection of any     *)
(* socket that has nothing to read.                                        *)
ThreadError(k, busy) ==
    /\ peer.thread[k].at = "tick"
    /\ PersonHeld => busy
    /\ peer.kid[k].sockfd
    /\ peer' = ResetAndNotify([peer EXCEPT !.thread[k].at = "loop"], k, busy)
    /\ UNCHANGED <<main, todo, taken, user, counters, crashed>>

ThreadRead(k) ==
    /\ peer.thread[k].at = "tick"
    /\ \/ /\ peer' = [peer EXCEPT !.thread[k].at = "loop"]
          /\ UNCHANGED crashed
       \/ /\ peer.kid[k].active
          /\ peer' = [peer EXCEPT !.thread[k].at = "reply"]
          /\ UNCHANGED crashed
       \/ /\ peer.kid[k].sockfd /\ ~peer.kid[k].ssl
          /\ crashed' = TRUE
          /\ UNCHANGED peer
    /\ UNCHANGED <<main, todo, taken, user, counters>>

(* The answer goes through pqihandler::SendRsRawItem. *)
ThreadReply(k) ==
    /\ peer.thread[k].at = "reply"
    /\ ~CoreHeld
    /\ peer' = [peer EXCEPT !.thread[k].at = "loop"]
    /\ UNCHANGED <<main, todo, taken, user, counters, crashed>>

Streamer(k) ==
    \/ ThreadLoop(k)
    \/ \E busy \in BOOLEAN : ThreadError(k, busy)
    \/ ThreadRead(k)
    \/ ThreadReply(k)

(***************************************************************************)
(* The rest of the program                                                 *)
(***************************************************************************)

(* Nothing has come for long enough. *)
Silence ==
    /\ peer.fresh
    /\ peer' = [peer EXCEPT !.fresh = FALSE]
    /\ UNCHANGED <<main, todo, taken, user, counters, crashed>>

(* The DHT asks for a connection. *)
TryConnectUDP ==
    /\ peer.friend /\ ~peer.connected
    /\ Retry(AddAddress(peer, UDP))
    /\ UNCHANGED <<main, todo, taken, user, accepts, removals, crashed>>

(* The user asks for one: retryConnectTCP lets go of mLinkMtx between the  *)
(* check and the addresses.                                                *)
RetryCheck ==
    /\ ~user
    /\ peer.friend /\ ~peer.connected
    /\ user' = TRUE
    /\ UNCHANGED <<peer, main, todo, taken, counters, crashed>>

RetryAdd ==
    /\ user
    /\ user' = FALSE
    /\ \/ peer.friend /\ Retry(AddAddress(peer, TCP))
       \/ ~peer.friend /\ UNCHANGED <<peer, retries>>
    /\ UNCHANGED <<main, todo, taken, accepts, removals, crashed>>

RemoveFriend ==
    /\ peer.friend
    /\ removals < MaxRemovals
    /\ removals' = removals + 1
    /\ peer' = [peer EXCEPT !.friend = FALSE, !.moved = TRUE,
                            !.connected = FALSE, !.inConnAttempt = FALSE,
                            !.connAddrs = <<>>, !.actions = {}]
    /\ UNCHANGED <<main, todo, taken, user, accepts, retries, crashed>>

AddFriend ==
    /\ ~peer.friend
    /\ peer' = [peer EXCEPT !.friend = TRUE, !.actions = {"NEW"}]
    /\ UNCHANGED <<main, todo, taken, user, counters, crashed>>

Others ==
    \/ Silence
    \/ TryConnectUDP
    \/ RetryCheck \/ RetryAdd \/ RemoveFriend \/ AddFriend

Next == ~crashed /\ (Main \/ (\E k \in Kids : Streamer(k)) \/ Others)

Spec == Init /\ [][Next]_vars

(* The main thread goes on, and so does every streamer; and where nothing  *)
(* can arrive, nothing has come for long enough in the end.                *)
Fairness ==
    /\ WF_vars(~crashed /\ Main)
    /\ \A k \in Kids : WF_vars(~crashed /\ Streamer(k))
    /\ WF_vars(~crashed /\ ~CanBeat /\ Silence)

FairSpec == Spec /\ Fairness

(* Every variable keeps its type, and activepqi is set just when the       *)
(* person is active.                                                       *)
TypeOK ==
    /\ peer \in Peer
    /\ peer.active <=> peer.activepqi # 0
    /\ main \in {"listen", "tick", "notify", "links", "monitors", "change",
                 "fullstop"}
    /\ todo \subseteq Kids
    /\ taken \subseteq {"CONNECT_REQ", "MOVED"}
    /\ user \in BOOLEAN
    /\ accepts \in 0 .. MaxAccepts
    /\ retries \in 0 .. MaxRetries
    /\ removals \in 0 .. MaxRemovals
    /\ crashed \in BOOLEAN

Pending(k, success) ==
    \E i \in DOMAIN peer.queue : peer.queue[i] = [kid |-> k, success |-> success]

(* Whom the link manager calls connected has an active person, or the news *)
(* of a failure is on its way: however events of the two kids, of the      *)
(* threads and of the listener overtake each other in notifyEvent, nobody  *)
(* is kept connected without a connection.                                 *)
ConnectedIsActive ==
    peer.connected /\ peer.exists =>
        peer.active \/ \E k \in Kids : Pending(k, FALSE)

(* A person that sends through a kid has a connection there, or the news   *)
(* that it has gone waits in mNotifyQueue.                                 *)
ActiveHasConnection ==
    peer.active => \/ peer.kid[peer.activepqi].active
                   \/ Pending(peer.activepqi, FALSE)

(* Of two live connections the person uses one, and the success of the     *)
(* other is still in the queue: two attempts that succeed together do not  *)
(* leave a second connection beside the one in use.                        *)
SoleConnection ==
    \A k \in Kids :
        peer.active /\ peer.kid[k].active =>
            peer.activepqi = k \/ Pending(k, TRUE)

(* A thread that was still stopping when its kid connected again is not    *)
(* started again; the heartbeats that it does not read give the connection *)
(* up in the end.                                                          *)
Threadless == peer.active /\ peer.thread[peer.activepqi].at = "none"
ThreadlessIsReset == Threadless ~> crashed \/ ~Threadless

(* Removing a friend waits for his threads (fullstop) with coreMtx held:   *)
(* it ends, unless a thread is answering an item and waits for coreMtx.    *)
RemovalWaitsForReply ==
    main = "fullstop" ~> \/ crashed
                         \/ main # "fullstop"
                         \/ \E k \in Kids : peer.thread[k].at = "reply"
=============================================================================
