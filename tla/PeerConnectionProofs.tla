------------------------- MODULE PeerConnectionProofs -------------------------
(* What PeerConnection guarantees for any number of incoming connections,  *)
(* retries and removals: link manager, person and sockets agree.           *)
EXTENDS PeerConnection, SequenceTheorems, TLAPS

(***************************************************************************)
(* The inductive invariant                                                 *)
(***************************************************************************)

(* There is news of a success, of a failure of the kid k in the queue q.   *)
Won(q, k) == \E n \in 1 .. Len(q) : q[n].kid = k /\ q[n].success
Lost(q, k) == \E n \in 1 .. Len(q) : q[n].kid = k /\ ~q[n].success

(* A kid that waits for nothing is connected or idle, and only such a kid  *)
(* is active; there is nothing to close before and after an attempt.       *)
KidShape(c) ==
    /\ c.waiting = "NOT" => (c.active <=> c.ssl) /\ (c.active <=> c.sockfd)
    /\ c.waiting # "NOT" => ~c.active
    /\ c.waiting \in {"DELAY", "FAIL_INTERFACE"} => ~c.sockfd /\ ~c.ssl

(* Who is no friend is not connected. *)
StrangerIsDown(p) == ~p.friend => ~p.connected

(* The properties, of any friend p.                                        *)
Up(p) == p.connected /\ p.exists => p.active \/ \E k \in Kids : Lost(p.queue, k)
Carried(p) ==
    p.active => p.kid[p.activepqi].active \/ Lost(p.queue, p.activepqi)
Sole(p) ==
    \A k \in Kids : p.active /\ p.kid[k].active => p.activepqi = k \/ Won(p.queue, k)

(* The friend between any two steps. *)
Agrees(p) ==
    /\ \A k \in Kids : KidShape(p.kid[k])
    /\ p.active <=> p.activepqi # 0
    /\ StrangerIsDown(p) /\ Up(p) /\ Carried(p) /\ Sole(p)

(* A success is seen to in the round in which it was queued, and until     *)
(* then its kid begins no attempt.                                         *)
WinsAreFresh ==
    \A k \in Kids : Won(peer.queue, k) =>
        main \in {"listen", "tick", "notify"} /\ peer.kid[k].waiting = "NOT"

(* Where there is no person there is nothing of it, and the main thread is *)
(* not with it.                                                            *)
NothingOfNobody ==
    /\ main \in {"tick", "notify", "fullstop"} => peer.exists
    /\ ~peer.exists => /\ peer.queue = <<>> /\ ~peer.active
                       /\ \A k \in Kids : peer.thread[k].at = "none"
    /\ main = "fullstop" => ~peer.active

(* A friend for whom a person is still to be made is not connected, nor is *)
(* one who was added again while the old person is being removed.          *)
NewIsDown ==
    "NEW" \in peer.actions /\ (~peer.exists \/ main \in {"change", "fullstop"})
        => ~peer.connected

IInv ==
    /\ TypeOK
    /\ Agrees(peer)
    /\ WinsAreFresh
    /\ NothingOfNobody
    /\ NewIsDown

(***************************************************************************)
(* What the operations do                                                  *)
(***************************************************************************)

LEMMA Pairs ==
    ASSUME NEW k \in Kids
    PROVE  Other(k) \in Kids /\ Other(k) # k /\ Kids = {k, Other(k)} /\ k # 0
BY DEF Kids, Other, TCP, UDP

(* News that is queued, and news that is taken. *)
LEMMA NewsQueued ==
    ASSUME NEW q \in Seq(Event), NEW k \in Kids, NEW ok \in BOOLEAN
    PROVE  LET r == Append(q, [kid |-> k, success |-> ok])
           IN /\ r \in Seq(Event)
              /\ \A j \in Kids : /\ Won(r, j) <=> Won(q, j) \/ (j = k /\ ok)
                                 /\ Lost(r, j) <=> Lost(q, j) \/ (j = k /\ ~ok)
<1> DEFINE e == [kid |-> k, success |-> ok]
           r == Append(q, e)
<1>1. e \in Event /\ e.kid = k /\ (e.success <=> ok)
  BY DEF Event
<1> HIDE DEF e
<1>2. /\ r \in Seq(Event) /\ Len(q) \in Nat /\ Len(r) = Len(q) + 1
      /\ r[Len(q) + 1] = e /\ \A n \in 1 .. Len(q) : r[n] = q[n]
  BY <1>1, AppendProperties
<1> HIDE DEF r
<1>3. \A n \in 1 .. Len(r) : n \in 1 .. Len(q) \/ n = Len(q) + 1
  BY <1>2
<1>4. Len(q) + 1 \in 1 .. Len(r) /\ \A n \in 1 .. Len(q) : n \in 1 .. Len(r)
  BY <1>2
<1>5. ASSUME NEW j \in Kids
      PROVE  /\ Won(r, j) <=> Won(q, j) \/ (j = k /\ ok)
             /\ Lost(r, j) <=> Lost(q, j) \/ (j = k /\ ~ok)
  BY <1>1, <1>2, <1>3, <1>4 DEF Won, Lost
<1>6. QED
  BY <1>2, <1>5 DEF r, e

LEMMA NewsTaken ==
    ASSUME NEW q \in Seq(Event), q # <<>>
    PROVE  /\ Tail(q) \in Seq(Event) /\ Head(q) \in Event
           /\ Head(q).kid \in Kids /\ Head(q).success \in BOOLEAN
           /\ Head(q).success => Won(q, Head(q).kid)
           /\ \A j \in Kids :
                 /\ Won(Tail(q), j) => Won(q, j)
                 /\ Won(q, j) => Won(Tail(q), j) \/ (Head(q).kid = j /\ Head(q).success)
                 /\ Lost(q, j) => Lost(Tail(q), j) \/ (Head(q).kid = j /\ ~Head(q).success)
<1>1. /\ Tail(q) \in Seq(Event) /\ Head(q) \in Event /\ Head(q) = q[1]
      /\ Len(q) \in Nat /\ Len(q) >= 1 /\ Len(Tail(q)) = Len(q) - 1
      /\ \A n \in 1 .. Len(Tail(q)) : Tail(q)[n] = q[n + 1]
  BY HeadTailProperties
<1>2. Head(q).kid \in Kids /\ Head(q).success \in BOOLEAN
  BY <1>1 DEF Event
<1>3. \A n \in 1 .. Len(q) :
          n = 1 \/ (n - 1 \in 1 .. Len(Tail(q)) /\ Tail(q)[n - 1] = q[n])
  <2> SUFFICES ASSUME NEW n \in 1 .. Len(q), n # 1
               PROVE  n - 1 \in 1 .. Len(Tail(q)) /\ Tail(q)[n - 1] = q[n]
    OBVIOUS
  <2>1. n - 1 \in 1 .. Len(Tail(q)) /\ (n - 1) + 1 = n
    BY <1>1
  <2>2. QED
    BY <1>1, <2>1
<1>4. 1 \in 1 .. Len(q) /\ \A n \in 1 .. Len(Tail(q)) : n + 1 \in 1 .. Len(q)
  BY <1>1
<1>5. QED
  BY <1>1, <1>2, <1>3, <1>4 DEF Won, Lost

LEMMA NothingQueued == \A k \in Kids : ~Won(<<>>, k) /\ ~Lost(<<>>, k)
BY DEF Won, Lost

(* What is in the queue, in the words of the properties.                   *)
LEMMA PendingIsNews ==
    ASSUME TypeOK, NEW k \in Kids
    PROVE  (Pending(k, TRUE) <=> Won(peer.queue, k))
           /\ (Pending(k, FALSE) <=> Lost(peer.queue, k))
<1>1. peer.queue \in Seq(Event)
  BY DEF TypeOK, Peer
<1>2. DOMAIN peer.queue = 1 .. Len(peer.queue)
      /\ \A n \in 1 .. Len(peer.queue) : peer.queue[n] \in Event
  BY <1>1, LenProperties, ElementOfSeq
<1>3. \A e \in Event : /\ e = [kid |-> k, success |-> TRUE] <=> e.kid = k /\ e.success
                       /\ e = [kid |-> k, success |-> FALSE] <=> e.kid = k /\ ~e.success
  BY DEF Event
<1>4. QED
  BY <1>2, <1>3 DEF Pending, Won, Lost

(* The fields that an operation leaves alone. *)
SamePerson(p, q) ==
    /\ q.kid = p.kid /\ q.thread = p.thread /\ q.active = p.active
    /\ q.activepqi = p.activepqi /\ q.queue = p.queue
SameFriend(p, q) ==
    /\ q.exists = p.exists /\ q.friend = p.friend /\ q.connected = p.connected
    /\ q.moved = p.moved /\ q.actions = p.actions

LEMMA ConnectResultDoes ==
    ASSUME NEW p \in Peer, NEW ok \in BOOLEAN
    PROVE  LET q == ConnectResult(p, ok)
           IN /\ q \in Peer /\ SamePerson(p, q)
              /\ q.exists = p.exists /\ q.friend = p.friend /\ q.moved = p.moved
              /\ q.connected <=> IF p.friend THEN ok ELSE p.connected
              /\ "NEW" \in q.actions <=> "NEW" \in p.actions
<1>1. CASE ~p.friend
  BY <1>1 DEF ConnectResult, SamePerson, Peer
<1>2. CASE p.friend /\ ok
  <2>1. ConnectResult(p, ok) = [p EXCEPT !.connected = TRUE, !.inConnAttempt = FALSE,
                                         !.connAddrs = <<>>]
    BY <1>2 DEF ConnectResult
  <2>2. <<>> \in Seq(Kids)
    OBVIOUS
  <2>3. ConnectResult(p, ok) \in Peer
    BY <2>1, <2>2 DEF Peer
  <2>4. QED
    BY <1>2, <2>1, <2>3 DEF SamePerson, Peer
<1>3. CASE p.friend /\ ~ok
  <2> DEFINE acts == IF p.connAddrs = <<>> THEN p.actions
                     ELSE p.actions \cup {"CONNECT_REQ"}
  <2>1. acts \in SUBSET {"NEW", "CONNECT_REQ"} /\ ("NEW" \in acts <=> "NEW" \in p.actions)
    BY DEF Peer
  <2>2. ConnectResult(p, ok) = [p EXCEPT !.connected = FALSE, !.inConnAttempt = FALSE,
                                         !.actions = acts]
    BY <1>3 DEF ConnectResult
  <2> HIDE DEF acts
  <2>3. QED
    BY <1>3, <2>1, <2>2 DEF SamePerson, Peer
<1>4. QED
  BY <1>1, <1>2, <1>3

LEMMA KidTypes ==
    /\ Idle \in Kid /\ Established \in Kid
    /\ KidShape(Idle) /\ ~Idle.active
    /\ KidShape(Established) /\ Established.active
BY DEF Idle, Established, Kid, Waiting, KidShape

LEMMA ResetKidDoes ==
    ASSUME NEW p \in Peer, NEW k \in Kids
    PROVE  LET q == ResetKid(p, k)
           IN /\ q \in Peer /\ SameFriend(p, q)
              /\ q.kid = [p.kid EXCEPT ![k] = Idle]
              /\ q.thread = p.thread /\ q.active = p.active /\ q.activepqi = p.activepqi
              /\ \A j \in Kids : /\ Won(q.queue, j) <=> Won(p.queue, j)
                                 /\ Lost(p.queue, j) => Lost(q.queue, j)
              /\ p.kid[k].ssl \/ p.kid[k].sockfd => Lost(q.queue, k)
              /\ p.kid[k].ssl \/ p.kid[k].sockfd \/ q.queue = p.queue
<1> DEFINE q == [p EXCEPT !.kid[k] = Idle]
           r == Append(p.queue, [kid |-> k, success |-> FALSE])
<1>1. /\ q \in Peer /\ SameFriend(p, q) /\ q.kid = [p.kid EXCEPT ![k] = Idle]
      /\ q.thread = p.thread /\ q.active = p.active /\ q.activepqi = p.activepqi
      /\ q.queue = p.queue /\ p.queue \in Seq(Event)
  BY KidTypes DEF Peer, SameFriend
<1>2. /\ r \in Seq(Event)
      /\ \A j \in Kids : /\ Won(r, j) <=> Won(p.queue, j)
                         /\ Lost(r, j) <=> Lost(p.queue, j) \/ j = k
  BY <1>1, NewsQueued
<1>3. CASE p.kid[k].ssl \/ p.kid[k].sockfd
  <2>1. ResetKid(p, k) = [q EXCEPT !.queue = r]
    BY <1>1, <1>3 DEF ResetKid, Queued
  <2> HIDE DEF q, r
  <2>2. /\ [q EXCEPT !.queue = r] \in Peer /\ SameFriend(q, [q EXCEPT !.queue = r])
        /\ [q EXCEPT !.queue = r].kid = q.kid /\ [q EXCEPT !.queue = r].thread = q.thread
        /\ [q EXCEPT !.queue = r].active = q.active
        /\ [q EXCEPT !.queue = r].activepqi = q.activepqi
        /\ [q EXCEPT !.queue = r].queue = r
    BY <1>1, <1>2 DEF Peer, SameFriend
  <2>3. QED
    BY <1>1, <1>2, <1>3, <2>1, <2>2 DEF SameFriend
<1>4. CASE ~(p.kid[k].ssl \/ p.kid[k].sockfd)
  BY <1>1, <1>4 DEF ResetKid
<1>5. QED
  BY <1>3, <1>4

LEMMA ResetKidAgrees ==
    ASSUME NEW p \in Peer, Agrees(p), NEW k \in Kids
    PROVE  Agrees(ResetKid(p, k))
<1> DEFINE q == ResetKid(p, k)
<1>1. /\ q \in Peer /\ SameFriend(p, q)
      /\ q.kid = [p.kid EXCEPT ![k] = Idle]
      /\ q.thread = p.thread /\ q.active = p.active /\ q.activepqi = p.activepqi
      /\ \A j \in Kids : /\ Won(q.queue, j) <=> Won(p.queue, j)
                         /\ Lost(p.queue, j) => Lost(q.queue, j)
      /\ p.kid[k].ssl \/ p.kid[k].sockfd => Lost(q.queue, k)
  BY ResetKidDoes
<1> HIDE DEF q
<1>2. p.kid \in [Kids -> Kid] /\ p.activepqi \in Kids \cup {0} /\ p.connected \in BOOLEAN
      /\ p.active \in BOOLEAN
  BY DEF Peer
<1>3. q.kid[k] = Idle /\ \A j \in Kids : j # k => q.kid[j] = p.kid[j]
  BY <1>1, <1>2
<1>4. \A j \in Kids : KidShape(q.kid[j])
  BY <1>3, KidTypes DEF Agrees
<1>5. Carried(q)
  <2>1. CASE p.activepqi = k /\ p.active /\ ~Lost(p.queue, k)
    <3>1. p.kid[k].active /\ KidShape(p.kid[k])
      BY <2>1 DEF Agrees, Carried
    <3>2. p.kid[k].ssl
      BY <3>1 DEF KidShape
    <3>3. QED
      BY <1>1, <2>1, <3>2 DEF Carried
  <2>2. QED
    BY <1>1, <1>2, <1>3, <2>1 DEF Carried, Agrees
<1>6. Sole(q)
  BY <1>1, <1>3, KidTypes DEF Sole, Agrees
<1>7. Up(q) /\ StrangerIsDown(q) /\ (q.active <=> q.activepqi # 0)
  BY <1>1 DEF Up, StrangerIsDown, Agrees, SameFriend
<1>8. Agrees(q)
  BY <1>4, <1>5, <1>6, <1>7 DEF Agrees
<1>9. QED
  BY <1>8 DEF q

LEMMA ThreadTypes ==
    \A t \in Thread : /\ Shutdown(t) \in Thread /\ Start(t) \in Thread
                      /\ t.at = "none" => Shutdown(t).at = "none"
BY DEF Thread, Shutdown, Start

LEMMA HandleSuccessAgrees ==
    ASSUME NEW p \in Peer, NEW k \in Kids, \A j \in Kids : KidShape(p.kid[j]),
           StrangerIsDown(p), p.kid[k].active
    PROVE  LET q == HandleSuccess(p, k)
           IN /\ q \in Peer /\ Agrees(q)
              /\ q.exists = p.exists /\ q.moved = p.moved
              /\ "NEW" \in q.actions <=> "NEW" \in p.actions
              /\ q.kid = [p.kid EXCEPT ![Other(k)] = Idle]
              /\ \A j \in Kids : Won(q.queue, j) <=> Won(p.queue, j)
<1> DEFINE c == ConnectResult(p, TRUE)
           a == [c EXCEPT !.active = TRUE, !.activepqi = k, !.fresh = TRUE,
                          !.thread[k] = Start(@)]
           q == ResetKid(a, Other(k))
<1>0. HandleSuccess(p, k) = q
  BY DEF HandleSuccess
<1>1. /\ c \in Peer /\ SamePerson(p, c)
      /\ c.exists = p.exists /\ c.friend = p.friend /\ c.moved = p.moved
      /\ c.connected <=> IF p.friend THEN TRUE ELSE p.connected
      /\ "NEW" \in c.actions <=> "NEW" \in p.actions
  BY ConnectResultDoes
<1> HIDE DEF c
<1>2. Start(c.thread[k]) \in Thread
  BY <1>1, ThreadTypes DEF Peer
<1>3. /\ a \in Peer /\ a.kid = c.kid /\ a.queue = c.queue /\ SameFriend(c, a)
      /\ a.active /\ a.activepqi = k
  BY <1>1, <1>2 DEF Peer, SameFriend
<1> HIDE DEF a
<1>4. Other(k) \in Kids /\ Other(k) # k /\ Kids = {k, Other(k)} /\ k # 0
  BY Pairs
<1>5. /\ q \in Peer /\ SameFriend(a, q)
      /\ q.kid = [a.kid EXCEPT ![Other(k)] = Idle]
      /\ q.active = a.active /\ q.activepqi = a.activepqi
      /\ \A j \in Kids : Won(q.queue, j) <=> Won(a.queue, j)
  BY <1>3, <1>4, ResetKidDoes
<1> HIDE DEF q
<1>6. /\ q.kid = [p.kid EXCEPT ![Other(k)] = Idle]
      /\ q.queue \in Seq(Event) /\ p.kid \in [Kids -> Kid]
      /\ \A j \in Kids : Won(q.queue, j) <=> Won(p.queue, j)
  BY <1>1, <1>3, <1>5 DEF SamePerson, Peer
<1>7. q.kid[k] = p.kid[k] /\ q.kid[Other(k)] = Idle
  BY <1>4, <1>6
<1>8. \A j \in Kids : KidShape(q.kid[j])
  BY <1>4, <1>7, KidTypes
<1>9. Up(q) /\ Carried(q) /\ Sole(q) /\ (q.active <=> q.activepqi # 0)
  BY <1>3, <1>4, <1>5, <1>7, KidTypes DEF Up, Carried, Sole
<1>10. StrangerIsDown(q)
  BY <1>1, <1>3, <1>5 DEF StrangerIsDown, SameFriend
<1>11. Agrees(q)
  BY <1>8, <1>9, <1>10 DEF Agrees
<1>12. QED
  BY <1>0, <1>1, <1>3, <1>5, <1>6, <1>11 DEF SameFriend

LEMMA HandleFailureAgrees ==
    ASSUME NEW p \in Peer, NEW k \in Kids, \A j \in Kids : KidShape(p.kid[j]),
           p.active <=> p.activepqi # 0, StrangerIsDown(p), Sole(p),
           p.activepqi # k => Carried(p)
    PROVE  LET q == HandleFailure(p, k)
           IN /\ q \in Peer /\ Agrees(q) /\ ~q.connected /\ (q.active => p.active)
              /\ q.exists = p.exists /\ q.moved = p.moved
              /\ "NEW" \in q.actions <=> "NEW" \in p.actions
              /\ q.kid = p.kid /\ q.queue = p.queue
<1> DEFINE a == IF p.active /\ p.activepqi = k
                THEN [p EXCEPT !.thread[k] = Shutdown(@), !.active = FALSE, !.activepqi = 0]
                ELSE p
           q == ConnectResult(a, FALSE)
<1>0. HandleFailure(p, k) = q
  BY DEF HandleFailure
<1>1. Shutdown(p.thread[k]) \in Thread
  BY ThreadTypes DEF Peer
<1>2. /\ a \in Peer /\ a.kid = p.kid /\ a.queue = p.queue /\ SameFriend(p, a)
      /\ IF p.activepqi = k THEN ~a.active /\ a.activepqi = 0
         ELSE a.active = p.active /\ a.activepqi = p.activepqi
  <2>1. CASE p.active /\ p.activepqi = k
    BY <1>1, <2>1 DEF Peer, SameFriend
  <2>2. CASE ~(p.active /\ p.activepqi = k)
    BY <2>2, Pairs DEF SameFriend
  <2>3. QED
    BY <2>1, <2>2
<1> HIDE DEF a
<1>3. /\ q \in Peer /\ SamePerson(a, q)
      /\ q.exists = a.exists /\ q.friend = a.friend /\ q.moved = a.moved
      /\ q.connected <=> IF a.friend THEN FALSE ELSE a.connected
      /\ "NEW" \in q.actions <=> "NEW" \in a.actions
  BY <1>2, ConnectResultDoes
<1> HIDE DEF q
<1>4. q.kid = p.kid /\ q.queue = p.queue /\ ~q.connected
  BY <1>2, <1>3 DEF SamePerson, SameFriend, StrangerIsDown
<1>5. Carried(q) /\ Sole(q) /\ (q.active <=> q.activepqi # 0) /\ (q.active => p.active)
  BY <1>2, <1>3, <1>4 DEF Carried, Sole, SamePerson
<1>6. Agrees(q)
  BY <1>4, <1>5 DEF Agrees, Up, StrangerIsDown
<1>7. QED
  BY <1>0, <1>2, <1>3, <1>4, <1>5, <1>6 DEF SameFriend

(* A kid that is not active changes to what is not active either.          *)
LEMMA KidChanges ==
    ASSUME NEW p \in Peer, Agrees(p), NEW k \in Kids, NEW c \in Kid, KidShape(c),
           ~c.active, ~p.kid[k].active
    PROVE  LET q == [p EXCEPT !.kid[k] = c]
           IN /\ q \in Peer /\ Agrees(q) /\ SameFriend(p, q)
              /\ q.kid = [p.kid EXCEPT ![k] = c] /\ q.kid[k] = c
              /\ q.thread = p.thread /\ q.active = p.active
              /\ q.activepqi = p.activepqi /\ q.queue = p.queue
<1> DEFINE q == [p EXCEPT !.kid[k] = c]
<1>1. /\ q \in Peer /\ SameFriend(p, q) /\ q.kid = [p.kid EXCEPT ![k] = c]
      /\ q.thread = p.thread /\ q.active = p.active
      /\ q.activepqi = p.activepqi /\ q.queue = p.queue
      /\ p.kid \in [Kids -> Kid] /\ p.activepqi \in Kids \cup {0}
  BY DEF Peer, SameFriend
<1> HIDE DEF q
<1>2. q.kid[k] = c /\ \A j \in Kids : j # k => q.kid[j] = p.kid[j]
  BY <1>1
<1>3. \A j \in Kids : KidShape(q.kid[j])
  BY <1>2 DEF Agrees
<1>4. Carried(q) /\ Sole(q)
  BY <1>1, <1>2 DEF Agrees, Carried, Sole
<1>5. Up(q) /\ StrangerIsDown(q) /\ (q.active <=> q.activepqi # 0)
  BY <1>1 DEF Up, StrangerIsDown, Agrees, SameFriend
<1>6. Agrees(q)
  BY <1>3, <1>4, <1>5 DEF Agrees
<1>7. QED
  BY <1>1, <1>2, <1>6 DEF q

LEMMA ResetAndNotifyAgrees ==
    ASSUME NEW p \in Peer, Agrees(p), NEW k \in Kids, NEW busy \in BOOLEAN
    PROVE  LET q == ResetAndNotify(p, k, busy)
           IN /\ q \in Peer /\ Agrees(q)
              /\ (q.connected => p.connected) /\ (q.active => p.active)
              /\ q.exists = p.exists /\ q.moved = p.moved
              /\ "NEW" \in q.actions <=> "NEW" \in p.actions
              /\ q.kid = [p.kid EXCEPT ![k] = Idle]
              /\ \A j \in Kids : Won(q.queue, j) <=> Won(p.queue, j)
<1> DEFINE a == [p EXCEPT !.kid[k] = Idle]
<1>1. CASE busy
  <2>1. ResetAndNotify(p, k, busy) = ResetKid(p, k)
    BY <1>1 DEF ResetAndNotify, ResetKid, Notify
  <2>2. QED
    BY <2>1, ResetKidDoes, ResetKidAgrees DEF SameFriend
<1>2. CASE ~busy
  <2>1. /\ a \in Peer /\ a.kid = [p.kid EXCEPT ![k] = Idle] /\ SameFriend(p, a)
        /\ a.active = p.active /\ a.activepqi = p.activepqi /\ a.queue = p.queue
        /\ p.kid \in [Kids -> Kid] /\ p.activepqi \in Kids \cup {0}
    BY KidTypes DEF Peer, SameFriend
  <2> HIDE DEF a
  <2>2. a.kid[k] = Idle /\ \A j \in Kids : j # k => a.kid[j] = p.kid[j]
    BY <2>1
  <2>3. CASE p.kid[k].ssl \/ p.kid[k].sockfd
    <3> DEFINE q == HandleFailure(a, k)
    <3>1. ResetAndNotify(p, k, busy) = q
      BY <1>2, <2>3 DEF ResetAndNotify, Notify, Handle, a
    <3>2. \A j \in Kids : KidShape(a.kid[j])
      BY <2>2, KidTypes DEF Agrees
    <3>3. StrangerIsDown(a) /\ (a.active <=> a.activepqi # 0)
      BY <2>1 DEF Agrees, StrangerIsDown, SameFriend
    <3>4. Sole(a) /\ (a.activepqi # k => Carried(a))
      BY <2>1, <2>2, KidTypes DEF Agrees, Sole, Carried
    <3>5. /\ q \in Peer /\ Agrees(q) /\ ~q.connected /\ (q.active => a.active)
          /\ q.exists = a.exists /\ q.moved = a.moved
          /\ "NEW" \in q.actions <=> "NEW" \in a.actions
          /\ q.kid = a.kid /\ q.queue = a.queue
      BY <2>1, <3>2, <3>3, <3>4, HandleFailureAgrees
    <3> HIDE DEF q
    <3>6. QED
      BY <2>1, <3>1, <3>5 DEF SameFriend
  <2>4. CASE ~(p.kid[k].ssl \/ p.kid[k].sockfd)
    <3>1. ResetAndNotify(p, k, busy) = a
      BY <2>4 DEF ResetAndNotify, a
    <3>2. ~p.kid[k].active
      BY <2>4 DEF Agrees, KidShape
    <3>3. Agrees(a)
      BY <3>2, KidChanges, KidTypes DEF a
    <3>4. QED
      BY <2>1, <3>1, <3>3 DEF SameFriend
  <2>5. QED
    BY <2>3, <2>4
<1>3. QED
  BY <1>1, <1>2

LEMMA ResetPersonAgrees ==
    ASSUME NEW p \in Peer, Agrees(p)
    PROVE  LET q == ResetPerson(p)
           IN /\ q \in Peer /\ Agrees(q) /\ ~q.active /\ SameFriend(p, q)
              /\ \A j \in Kids : Won(q.queue, j) => Won(p.queue, j)
              /\ \A j \in Kids : q.kid[j] = Idle
<1> DEFINE threads == [k \in Kids |-> Shutdown(p.thread[k])]
           a == [p EXCEPT !.thread = [k \in Kids |-> Shutdown(@[k])],
                          !.active = FALSE, !.activepqi = 0, !.fresh = FALSE]
           b == ResetKid(a, TCP)
           q == ResetKid(b, UDP)
<1>0. ResetPerson(p) = q
  BY DEF ResetPerson
<1>1. threads \in [Kids -> Thread]
  BY ThreadTypes DEF Peer
<1>2. /\ a \in Peer /\ a.kid = p.kid /\ a.queue = p.queue /\ SameFriend(p, a)
      /\ ~a.active /\ a.activepqi = 0
  <2>1. a = [p EXCEPT !.thread = threads, !.active = FALSE, !.activepqi = 0, !.fresh = FALSE]
    OBVIOUS
  <2> HIDE DEF a, threads
  <2>2. QED
    BY <1>1, <2>1 DEF Peer, SameFriend
<1> HIDE DEF a
<1>3. TCP \in Kids /\ UDP \in Kids /\ TCP # UDP /\ Kids = {TCP, UDP}
  BY DEF Kids, TCP, UDP
<1>4. /\ b \in Peer /\ SameFriend(a, b)
      /\ b.kid = [a.kid EXCEPT ![TCP] = Idle]
      /\ b.active = a.active /\ b.activepqi = a.activepqi
      /\ \A j \in Kids : /\ Won(b.queue, j) <=> Won(a.queue, j)
                         /\ Lost(a.queue, j) => Lost(b.queue, j)
      /\ a.kid[TCP].ssl \/ a.kid[TCP].sockfd => Lost(b.queue, TCP)
  BY <1>2, <1>3, ResetKidDoes
<1> HIDE DEF b
<1>5. /\ q \in Peer /\ SameFriend(b, q)
      /\ q.kid = [b.kid EXCEPT ![UDP] = Idle]
      /\ q.active = b.active /\ q.activepqi = b.activepqi
      /\ \A j \in Kids : /\ Won(q.queue, j) <=> Won(b.queue, j)
                         /\ Lost(b.queue, j) => Lost(q.queue, j)
      /\ b.kid[UDP].ssl \/ b.kid[UDP].sockfd => Lost(q.queue, UDP)
  BY <1>3, <1>4, ResetKidDoes
<1> HIDE DEF q
<1>6. p.kid \in [Kids -> Kid] /\ p.activepqi \in Kids \cup {0}
  BY DEF Peer
<1>7. /\ \A j \in Kids : q.kid[j] = Idle
      /\ b.kid[UDP] = p.kid[UDP]
  BY <1>2, <1>3, <1>4, <1>5, <1>6
<1>8. /\ ~q.active /\ q.activepqi = 0 /\ SameFriend(p, q)
      /\ \A j \in Kids : Won(q.queue, j) => Won(p.queue, j)
  BY <1>2, <1>4, <1>5 DEF SameFriend
<1>9. ASSUME NEW k \in Kids, p.kid[k].active \/ Lost(p.queue, k)
      PROVE  Lost(q.queue, k)
  <2>1. p.kid[k].active => p.kid[k].ssl
    BY DEF Agrees, KidShape
  <2>2. QED
    BY <1>2, <1>3, <1>4, <1>5, <1>7, <1>9, <2>1
<1>10. Up(q)
  BY <1>6, <1>8, <1>9 DEF Agrees, Up, Carried, SameFriend
<1>11. Agrees(q)
  BY <1>7, <1>8, <1>10, KidTypes DEF Agrees, StrangerIsDown, SameFriend, Carried, Sole
<1>12. QED
  BY <1>0, <1>5, <1>7, <1>8, <1>11

LEMMA ConnectAgrees ==
    ASSUME NEW p \in Peer, Agrees(p), NEW k \in Kids
    PROVE  LET q == Connect(p, k)
           IN /\ q \in Peer /\ Agrees(q) /\ SameFriend(p, q)
              /\ q.thread = p.thread /\ q.active = p.active
              /\ \A j \in Kids : Won(q.queue, j) <=> Won(p.queue, j)
<1> DEFINE r == ResetKid(p, k)
           c == [Idle EXCEPT !.waiting = "DELAY"]
<1>0. /\ r \in Peer /\ SameFriend(p, r) /\ r.kid = [p.kid EXCEPT ![k] = Idle]
      /\ r.thread = p.thread /\ r.active = p.active
      /\ \A j \in Kids : Won(r.queue, j) <=> Won(p.queue, j)
  BY ResetKidDoes
<1>1. Agrees(r) /\ r.kid[k] = Idle /\ r.kid \in [Kids -> Kid]
  BY <1>0, ResetKidAgrees DEF Peer
<1>2. Connect(p, k) = [r EXCEPT !.kid[k].waiting = "DELAY"]
  BY DEF Connect
<1> HIDE DEF r
<1>3. [r EXCEPT !.kid[k].waiting = "DELAY"] = [r EXCEPT !.kid[k] = c]
  BY <1>0, <1>1
<1>4. c \in Kid /\ KidShape(c) /\ ~c.active
  BY DEF Idle, Kid, Waiting, KidShape
<1> HIDE DEF c
<1>5. QED
  BY <1>0, <1>1, <1>2, <1>3, <1>4, KidChanges, KidTypes DEF SameFriend

LEMMA QueuedDoes ==
    ASSUME NEW p \in Peer, NEW k \in Kids, NEW ok \in BOOLEAN
    PROVE  LET q == Queued(p, k, ok)
           IN /\ q \in Peer /\ SameFriend(p, q) /\ q.kid = p.kid /\ q.thread = p.thread
              /\ q.active = p.active /\ q.activepqi = p.activepqi
              /\ \A j \in Kids : /\ Won(q.queue, j) <=> Won(p.queue, j) \/ (j = k /\ ok)
                                 /\ Lost(q.queue, j) <=> Lost(p.queue, j) \/ (j = k /\ ~ok)
<1> DEFINE r == Append(p.queue, [kid |-> k, success |-> ok])
<1>1. p.queue \in Seq(Event)
  BY DEF Peer
<1>2. /\ r \in Seq(Event)
      /\ \A j \in Kids : /\ Won(r, j) <=> Won(p.queue, j) \/ (j = k /\ ok)
                         /\ Lost(r, j) <=> Lost(p.queue, j) \/ (j = k /\ ~ok)
  BY <1>1, NewsQueued
<1>3. Queued(p, k, ok) = [p EXCEPT !.queue = r]
  BY DEF Queued
<1> HIDE DEF r
<1>4. QED
  BY <1>2, <1>3 DEF Peer, SameFriend

(* A connection that is made, and whose success is queued. *)
LEMMA EstablishedAgrees ==
    ASSUME NEW p \in Peer, Agrees(p), NEW k \in Kids
    PROVE  LET q == Queued([p EXCEPT !.kid[k] = Established], k, TRUE)
           IN /\ q \in Peer /\ Agrees(q) /\ SameFriend(p, q)
              /\ q.kid = [p.kid EXCEPT ![k] = Established]
              /\ q.thread = p.thread /\ q.active = p.active
              /\ \A j \in Kids : Won(q.queue, j) <=> Won(p.queue, j) \/ j = k
<1> DEFINE a == [p EXCEPT !.kid[k] = Established]
           q == Queued(a, k, TRUE)
<1>1. /\ a \in Peer /\ SameFriend(p, a) /\ a.kid = [p.kid EXCEPT ![k] = Established]
      /\ a.thread = p.thread /\ a.active = p.active /\ a.activepqi = p.activepqi
      /\ a.queue = p.queue /\ p.kid \in [Kids -> Kid] /\ p.activepqi \in Kids \cup {0}
  BY KidTypes DEF Peer, SameFriend
<1> HIDE DEF a
<1>2. /\ q \in Peer /\ SameFriend(a, q) /\ q.kid = a.kid /\ q.thread = a.thread
      /\ q.active = a.active /\ q.activepqi = a.activepqi
      /\ \A j \in Kids : /\ Won(q.queue, j) <=> Won(a.queue, j) \/ (j = k /\ TRUE)
                         /\ Lost(q.queue, j) <=> Lost(a.queue, j) \/ (j = k /\ ~TRUE)
  <2>1. TRUE \in BOOLEAN
    OBVIOUS
  <2>2. QED
    BY <1>1, <2>1, QueuedDoes
<1> HIDE DEF q
<1>3. q.kid[k] = Established /\ \A j \in Kids : j # k => q.kid[j] = p.kid[j]
  BY <1>1, <1>2
<1>4. \A j \in Kids : KidShape(q.kid[j])
  BY <1>3, KidTypes DEF Agrees
<1>5. Carried(q)
  BY <1>1, <1>2, <1>3, KidTypes DEF Agrees, Carried
<1>6. Sole(q)
  BY <1>1, <1>2, <1>3 DEF Agrees, Sole
<1>7. Up(q) /\ StrangerIsDown(q) /\ (q.active <=> q.activepqi # 0)
  BY <1>1, <1>2 DEF Up, StrangerIsDown, Agrees, SameFriend
<1>8. Agrees(q)
  BY <1>4, <1>5, <1>6, <1>7 DEF Agrees
<1>9. QED
  BY <1>1, <1>2, <1>8 DEF SameFriend, q, a

(* What a tick of a kid may make of the friend.                            *)
Keeps(p, q, k) ==
    /\ q \in Peer /\ Agrees(q) /\ SameFriend(p, q)
    /\ q.thread = p.thread /\ q.active = p.active
    /\ \A j \in Kids : j # k => q.kid[j] = p.kid[j]
    /\ \A j \in Kids : Won(q.queue, j) =>
           Won(p.queue, j) \/ (j = k /\ q.kid[k].waiting = "NOT")

LEMMA TickedKeeps ==
    ASSUME NEW p \in Peer, Agrees(p), NEW k \in Kids, NEW q \in Ticked(p, k)
    PROVE  Keeps(p, q, k) /\ (p.kid[k].waiting = "NOT" => q = p)
<1>0. Keeps(p, p, k) /\ p.kid \in [Kids -> Kid]
  BY DEF Keeps, SameFriend, Peer
<1>1. CASE p.kid[k].active \/ p.kid[k].waiting = "NOT"
  BY <1>0, <1>1 DEF Ticked
<1>2. CASE ~p.kid[k].active /\ p.kid[k].waiting # "NOT"
  <2>1. ASSUME NEW c \in Kid, KidShape(c), ~c.active
        PROVE  Keeps(p, [p EXCEPT !.kid[k] = c], k)
    <3> DEFINE r == [p EXCEPT !.kid[k] = c]
    <3>1. /\ r \in Peer /\ Agrees(r) /\ SameFriend(p, r)
          /\ r.kid = [p.kid EXCEPT ![k] = c]
          /\ r.thread = p.thread /\ r.active = p.active /\ r.queue = p.queue
      BY <1>2, <2>1, KidChanges
    <3> HIDE DEF r
    <3>2. Keeps(p, r, k)
      BY <1>0, <3>1 DEF Keeps
    <3>3. QED
      BY <3>2 DEF r
  <2>2. \A waiting \in {"SOCK_CONNECT", "SSL_CONNECTION", "FAIL_INTERFACE"},
           sock \in BOOLEAN, ssl \in BOOLEAN :
              (waiting = "FAIL_INTERFACE" => ~sock /\ ~ssl)
                  => Keeps(p, Set(p, k, waiting, sock, ssl), k)
    <3> SUFFICES ASSUME NEW waiting \in {"SOCK_CONNECT", "SSL_CONNECTION", "FAIL_INTERFACE"},
                        NEW sock \in BOOLEAN, NEW ssl \in BOOLEAN,
                        waiting = "FAIL_INTERFACE" => ~sock /\ ~ssl
                 PROVE  Keeps(p, Set(p, k, waiting, sock, ssl), k)
      OBVIOUS
    <3> DEFINE c == [waiting |-> waiting, sockfd |-> sock, ssl |-> ssl, active |-> FALSE]
    <3>1. c \in Kid /\ KidShape(c) /\ ~c.active
      BY DEF Kid, Waiting, KidShape
    <3> HIDE DEF c
    <3>2. Keeps(p, [p EXCEPT !.kid[k] = c], k)
      BY <2>1, <3>1
    <3>3. QED
      BY <3>2 DEF Set, c
  <2>3. ASSUME NEW a \in Peer, Keeps(p, a, k)
        PROVE  Keeps(p, ResetKid(a, k), k) /\ ResetKid(a, k).kid[k] = Idle
    <3> DEFINE r == ResetKid(a, k)
    <3>1. /\ r \in Peer /\ SameFriend(a, r) /\ r.kid = [a.kid EXCEPT ![k] = Idle]
          /\ r.thread = a.thread /\ r.active = a.active /\ a.kid \in [Kids -> Kid]
          /\ \A j \in Kids : Won(r.queue, j) <=> Won(a.queue, j)
      BY ResetKidDoes DEF Peer
    <3>2. Agrees(r)
      BY <2>3, ResetKidAgrees DEF Keeps
    <3> HIDE DEF r
    <3>3. r.kid[k] = Idle /\ \A j \in Kids : j # k => r.kid[j] = a.kid[j]
      BY <3>1
    <3>4. Idle.waiting = "NOT"
      BY DEF Idle
    <3>5. Keeps(p, r, k)
      BY <2>3, <3>1, <3>2, <3>3, <3>4 DEF Keeps, SameFriend
    <3>6. QED
      BY <3>3, <3>5 DEF r
  <2>4. Keeps(p, ResetKid(p, k), k)
    BY <1>0, <2>3
  <2>5. Keeps(p, FailInterface(p, k), k)
    BY <2>2 DEF FailInterface
  <2>6. Keeps(p, [ResetKid(p, k) EXCEPT !.kid[k].waiting = "FAIL_INTERFACE"], k)
    <3> DEFINE r == ResetKid(p, k)
               c == [Idle EXCEPT !.waiting = "FAIL_INTERFACE"]
    <3>1. /\ r \in Peer /\ Agrees(r) /\ SameFriend(p, r) /\ r.kid[k] = Idle
          /\ r.thread = p.thread /\ r.active = p.active /\ r.kid \in [Kids -> Kid]
          /\ \A j \in Kids : j # k => r.kid[j] = p.kid[j]
          /\ \A j \in Kids : Won(r.queue, j) => Won(p.queue, j)
      BY <1>0, <2>3, ResetKidDoes DEF Keeps, Peer
    <3>2. c \in Kid /\ KidShape(c) /\ ~c.active
      BY DEF Idle, Kid, Waiting, KidShape
    <3> HIDE DEF r
    <3>3. [r EXCEPT !.kid[k].waiting = "FAIL_INTERFACE"] = [r EXCEPT !.kid[k] = c]
      BY <3>1
    <3> HIDE DEF c
    <3> DEFINE d == [r EXCEPT !.kid[k] = c]
    <3>4. /\ d \in Peer /\ Agrees(d) /\ SameFriend(r, d) /\ d.kid = [r.kid EXCEPT ![k] = c]
          /\ d.thread = r.thread /\ d.active = r.active /\ d.queue = r.queue
      BY <3>1, <3>2, KidChanges, KidTypes
    <3> HIDE DEF d
    <3>5. Keeps(p, d, k)
      BY <3>1, <3>4 DEF Keeps, SameFriend
    <3>6. QED
      BY <3>3, <3>5 DEF d, r
  <2>7. CASE p.kid[k].waiting = "DELAY"
    <3>1. q \in {p, Set(p, k, "SOCK_CONNECT", TRUE, FALSE), FailInterface(p, k),
                 ResetKid(Set(p, k, "DELAY", TRUE, FALSE), k)}
      BY <1>2, <2>7 DEF Ticked, Initiated
    <3>2. Keeps(p, ResetKid(Set(p, k, "DELAY", TRUE, FALSE), k), k)
      <4> DEFINE c == [waiting |-> "DELAY", sockfd |-> TRUE, ssl |-> FALSE, active |-> FALSE]
                 a == [p EXCEPT !.kid[k] = c]
                 r == ResetKid(a, k)
      <4>1. c \in Kid
        BY DEF Kid, Waiting
      <4> HIDE DEF c
      <4>2. /\ a \in Peer /\ SameFriend(p, a) /\ a.kid = [p.kid EXCEPT ![k] = c]
            /\ a.thread = p.thread /\ a.active = p.active /\ a.activepqi = p.activepqi
            /\ a.queue = p.queue
        BY <4>1 DEF Peer, SameFriend
      <4> HIDE DEF a
      <4>3. /\ r \in Peer /\ SameFriend(a, r) /\ r.kid = [a.kid EXCEPT ![k] = Idle]
            /\ r.thread = a.thread /\ r.active = a.active /\ r.activepqi = a.activepqi
            /\ \A j \in Kids : /\ Won(r.queue, j) <=> Won(a.queue, j)
                               /\ Lost(a.queue, j) => Lost(r.queue, j)
        BY <4>2, ResetKidDoes
      <4> HIDE DEF r
      <4>4. r.kid[k] = Idle /\ \A j \in Kids : j # k => r.kid[j] = p.kid[j]
        BY <1>0, <4>2, <4>3
      <4>5. p.activepqi \in Kids \cup {0}
        BY DEF Peer
      <4>6. Carried(r)
        BY <1>2, <4>2, <4>3, <4>4, <4>5 DEF Agrees, Carried
      <4>7. Sole(r)
        BY <4>2, <4>3, <4>4, KidTypes DEF Agrees, Sole
      <4>8. Agrees(r)
        BY <4>2, <4>3, <4>4, <4>6, <4>7, KidTypes
           DEF Agrees, StrangerIsDown, Up, SameFriend
      <4>9. Keeps(p, r, k)
        BY <4>2, <4>3, <4>4, <4>8 DEF Keeps, SameFriend
      <4>10. QED
        BY <4>9 DEF r, a, c, Set
    <3>3. QED
      BY <1>0, <1>2, <2>2, <2>5, <3>1, <3>2
  <2>8. CASE p.kid[k].waiting = "SOCK_CONNECT"
    <3>1. q \in {p, ResetKid(p, k), Set(p, k, "SSL_CONNECTION", TRUE, TRUE),
                 [ResetKid(p, k) EXCEPT !.kid[k].waiting = "FAIL_INTERFACE"],
                 FailInterface(p, k), Set(p, k, "SOCK_CONNECT", FALSE, FALSE)}
      BY <1>2, <2>8 DEF Ticked, SocketConnected
    <3>2. QED
      BY <1>0, <1>2, <2>2, <2>4, <2>5, <2>6, <3>1
  <2>9. CASE p.kid[k].waiting = "SSL_CONNECTION"
    <3> DEFINE r == Queued([p EXCEPT !.kid[k] = Established], k, TRUE)
    <3>1. q \in {p, ResetKid(p, k),
                 [ResetKid(p, k) EXCEPT !.kid[k].waiting = "FAIL_INTERFACE"], r}
      BY <1>2, <2>9 DEF Ticked, SslConnected
    <3>2. /\ r \in Peer /\ Agrees(r) /\ SameFriend(p, r)
          /\ r.kid = [p.kid EXCEPT ![k] = Established]
          /\ r.thread = p.thread /\ r.active = p.active
          /\ \A j \in Kids : Won(r.queue, j) <=> Won(p.queue, j) \/ j = k
      BY EstablishedAgrees
    <3> HIDE DEF r
    <3>3. r.kid[k] = Established /\ Established.waiting = "NOT"
      BY <1>0, <3>2 DEF Established
    <3>4. Keeps(p, r, k)
      BY <1>0, <3>2, <3>3 DEF Keeps
    <3>5. QED
      BY <1>0, <1>2, <2>4, <2>6, <3>1, <3>4
  <2>10. CASE p.kid[k].waiting = "FAIL_INTERFACE"
    <3> DEFINE c == [p.kid[k] EXCEPT !.waiting = "NOT"]
               a == [p EXCEPT !.kid[k] = c]
               r == Queued(a, k, FALSE)
    <3>1. q = r
      BY <1>2, <2>10 DEF Ticked, FailedConnection
    <3>2. c \in Kid /\ KidShape(c) /\ ~c.active
      BY <1>0, <1>2, <2>10 DEF Agrees, KidShape, Kid, Waiting
    <3> HIDE DEF c
    <3>3. /\ a \in Peer /\ Agrees(a) /\ SameFriend(p, a) /\ a.kid = [p.kid EXCEPT ![k] = c]
          /\ a.thread = p.thread /\ a.active = p.active /\ a.activepqi = p.activepqi
          /\ a.queue = p.queue
      BY <1>2, <3>2, KidChanges
    <3> HIDE DEF a
    <3>4. /\ r \in Peer /\ SameFriend(a, r) /\ r.kid = a.kid /\ r.thread = a.thread
          /\ r.active = a.active /\ r.activepqi = a.activepqi
          /\ \A j \in Kids : /\ Won(r.queue, j) <=> Won(a.queue, j)
                             /\ Lost(a.queue, j) => Lost(r.queue, j)
      BY <3>3, QueuedDoes
    <3> HIDE DEF r
    <3>5. a.activepqi \in Kids \cup {0}
      BY <3>3 DEF Peer
    <3>6. Agrees(r)
      BY <3>3, <3>4, <3>5 DEF Agrees, StrangerIsDown, Up, Carried, Sole, SameFriend
    <3>7. QED
      BY <1>0, <1>2, <3>1, <3>3, <3>4, <3>6 DEF Keeps, SameFriend
  <2>11. QED
    BY <1>0, <1>2, <2>7, <2>8, <2>9, <2>10 DEF Kid, Waiting
<1>3. QED
  BY <1>1, <1>2

(***************************************************************************)
(* The steps                                                               *)
(***************************************************************************)

LEMMA InitIInv == Init => IInv
<1> SUFFICES ASSUME Init PROVE IInv
  OBVIOUS
<1>1. <<>> \in Seq(Event) /\ <<>> \in Seq(Kids) /\ NoThread \in Thread
  BY DEF NoThread, Thread
<1>2. NewFriend \in Peer
  BY <1>1, KidTypes DEF NewFriend, Peer
<1>3. TypeOK
  <2>1. 0 \in 0 .. MaxAccepts /\ 0 \in 0 .. MaxRetries /\ 0 \in 0 .. MaxRemovals
    BY BoundsAssumption
  <2>2. QED
    BY <1>2, <2>1 DEF Init, TypeOK, NewFriend
<1>4. Agrees(peer)
  BY KidTypes DEF Init, NewFriend, Agrees, StrangerIsDown, Up, Carried, Sole
<1>5. WinsAreFresh
  BY NothingQueued DEF Init, NewFriend, WinsAreFresh
<1>6. NothingOfNobody /\ NewIsDown
  BY DEF Init, NewFriend, NothingOfNobody, NewIsDown, NoThread
<1>7. QED
  BY <1>3, <1>4, <1>5, <1>6 DEF IInv

(* What a step may do to the friend while the main thread stays where it   *)
(* is: only a person connects or queues, not one that is being removed.    *)
Step(p, q) ==
    /\ q \in Peer /\ Agrees(q)
    /\ q.exists = p.exists
    /\ \A k \in Kids : Won(q.queue, k) =>
           /\ Won(p.queue, k) \/ main \in {"listen", "tick", "notify"}
           /\ \/ q.kid[k].waiting = "NOT"
              \/ Won(p.queue, k) /\ q.kid[k].waiting = p.kid[k].waiting
    /\ ~p.exists => /\ q.queue = p.queue /\ q.active = p.active
                    /\ \A k \in Kids : p.thread[k].at = "none" => q.thread[k].at = "none"
    /\ q.active => p.active \/ main # "fullstop"
    /\ "NEW" \in q.actions => "NEW" \in p.actions \/ ~q.connected
    /\ q.connected => p.connected \/ (p.exists /\ main \notin {"change", "fullstop"})

CountersTyped ==
    /\ accepts \in 0 .. MaxAccepts /\ retries \in 0 .. MaxRetries
    /\ removals \in 0 .. MaxRemovals

LEMMA StepIInv ==
    ASSUME IInv, Step(peer, peer'), UNCHANGED main,
           todo' \subseteq Kids, taken' \subseteq {"CONNECT_REQ", "MOVED"},
           user' \in BOOLEAN, CountersTyped', crashed' \in BOOLEAN
    PROVE  IInv'
<1>1. TypeOK'
  BY DEF IInv, TypeOK, Step, Agrees, CountersTyped
<1>2. Agrees(peer')
  BY DEF Step
<1>3. WinsAreFresh'
  BY DEF IInv, WinsAreFresh, Step
<1>4. NothingOfNobody'
  BY DEF IInv, NothingOfNobody, Step
<1>5. NewIsDown'
  BY DEF IInv, NewIsDown, Step
<1>6. QED
  BY <1>1, <1>2, <1>3, <1>4, <1>5 DEF IInv

LEMMA Typed ==
    ASSUME IInv
    PROVE  /\ peer \in Peer /\ Agrees(peer) /\ todo \subseteq Kids
           /\ taken \subseteq {"CONNECT_REQ", "MOVED"} /\ user \in BOOLEAN
           /\ CountersTyped /\ crashed \in BOOLEAN
BY DEF IInv, TypeOK, CountersTyped

(* What the invariant tells of a friend is kept when only its threads, its *)
(* addresses, its actions or its heartbeat change.                         *)
Alike(p, q) ==
    /\ q.kid = p.kid /\ q.active = p.active /\ q.activepqi = p.activepqi
    /\ q.queue = p.queue /\ q.friend = p.friend /\ q.connected = p.connected
    /\ q.exists = p.exists
    /\ "NEW" \in q.actions <=> "NEW" \in p.actions

LEMMA AlikeStep ==
    ASSUME NEW p \in Peer, Agrees(p), NEW q \in Peer, Alike(p, q),
           ~p.exists => \A k \in Kids : p.thread[k].at = "none" => q.thread[k].at = "none"
    PROVE  Step(p, q)
BY DEF Alike, Step, Agrees, StrangerIsDown, Up, Carried, Sole

LEMMA AddAddressDoes ==
    ASSUME NEW p \in Peer, NEW k \in Kids
    PROVE  LET q == AddAddress(p, k)
           IN q \in Peer /\ Alike(p, q) /\ q.thread = p.thread
<1> DEFINE addrs == IF k = UDP THEN <<k>> \o p.connAddrs ELSE p.connAddrs \o <<k>>
           a == IF Contains(p.connAddrs, k) THEN p ELSE [p EXCEPT !.connAddrs = addrs]
           acts == a.actions \cup {"CONNECT_REQ"}
<1>1. p.connAddrs \in Seq(Kids) /\ <<k>> \in Seq(Kids)
  BY DEF Peer
<1>2. addrs \in Seq(Kids)
  BY <1>1, ConcatProperties
<1>3. AddAddress(p, k) = AttemptComplete(a)
  BY DEF AddAddress
<1> HIDE DEF addrs
<1>4. a \in Peer /\ Alike(p, a) /\ a.thread = p.thread
  <2>1. CASE Contains(p.connAddrs, k)
    BY <2>1 DEF Alike
  <2>2. CASE ~Contains(p.connAddrs, k)
    BY <1>2, <2>2 DEF Alike, Peer
  <2>3. QED
    BY <2>1, <2>2
<1> HIDE DEF a
<1>5. CASE a.inConnAttempt \/ a.connAddrs = <<>>
  BY <1>3, <1>4, <1>5 DEF AttemptComplete
<1>6. CASE ~(a.inConnAttempt \/ a.connAddrs = <<>>)
  <2>1. acts \in SUBSET {"NEW", "CONNECT_REQ"} /\ ("NEW" \in acts <=> "NEW" \in a.actions)
    BY <1>4 DEF Peer
  <2>2. AddAddress(p, k) = [a EXCEPT !.actions = acts]
    BY <1>3, <1>6 DEF AttemptComplete
  <2> HIDE DEF acts
  <2>3. QED
    BY <1>4, <2>1, <2>2 DEF Alike, Peer
<1>7. QED
  BY <1>5, <1>6

(* Steps that leave the friend as it is. *)
LEMMA StutterIInv ==
    ASSUME IInv, UNCHANGED vars
    PROVE  IInv'
<1>1. UNCHANGED <<peer, main, todo, taken, user, accepts, retries, removals, crashed>>
  BY DEF vars, counters
<1>2. Step(peer, peer)
  BY Typed, AlikeStep DEF Alike
<1>3. CountersTyped'
  BY <1>1, Typed DEF CountersTyped
<1>4. QED
  BY <1>1, <1>2, <1>3, Typed, StepIInv

LEMMA AcceptIInv ==
    ASSUME IInv, NEW busy \in BOOLEAN, Accept(busy)
    PROVE  IInv'
<1> DEFINE a == [peer EXCEPT !.kid[TCP] = Established]
<1>1. /\ main = "listen" /\ peer.exists /\ accepts < MaxAccepts
      /\ accepts' = accepts + 1
      /\ peer' = Notify(a, TCP, TRUE, busy) \/ peer' = ResetAndNotify(peer, TCP, busy)
      /\ UNCHANGED <<main, todo, taken, user, retries, removals, crashed>>
  BY DEF Accept
<1>2. TCP \in Kids /\ peer \in Peer /\ Agrees(peer) /\ peer.kid \in [Kids -> Kid]
  BY Typed DEF Kids, Peer
<1>3. CountersTyped'
  <2>1. accepts' \in 0 .. MaxAccepts
    BY <1>1, Typed, BoundsAssumption DEF CountersTyped
  <2>2. QED
    BY <1>1, <2>1, Typed DEF CountersTyped
<1>4. Established.waiting = "NOT" /\ Idle.waiting = "NOT"
  BY DEF Established, Idle
<1>5. TRUE \in BOOLEAN
  OBVIOUS
<1>6. CASE peer' = Notify(a, TCP, TRUE, busy) /\ busy
  <2>1. peer' = Queued(a, TCP, TRUE)
    BY <1>6 DEF Notify
  <2>2. /\ peer' \in Peer /\ Agrees(peer') /\ SameFriend(peer, peer')
        /\ peer'.kid = [peer.kid EXCEPT ![TCP] = Established]
        /\ \A j \in Kids : Won(peer'.queue, j) <=> Won(peer.queue, j) \/ j = TCP
    BY <1>2, <2>1, EstablishedAgrees
  <2>3. peer'.kid[TCP] = Established /\ \A j \in Kids : j # TCP => peer'.kid[j] = peer.kid[j]
    BY <1>2, <2>2
  <2>4. Step(peer, peer')
    BY <1>1, <1>4, <2>2, <2>3 DEF Step, SameFriend
  <2>5. QED
    BY <1>1, <1>3, <2>4, Typed, StepIInv
<1>7. CASE peer' = Notify(a, TCP, TRUE, busy) /\ ~busy
  <2>1. peer' = HandleSuccess(a, TCP)
    BY <1>7 DEF Notify, Handle
  <2>2. /\ a \in Peer /\ SameFriend(peer, a) /\ a.kid = [peer.kid EXCEPT ![TCP] = Established]
        /\ a.queue = peer.queue
    BY <1>2, KidTypes DEF Peer, SameFriend
  <2> HIDE DEF a
  <2>3. a.kid[TCP] = Established /\ \A j \in Kids : j # TCP => a.kid[j] = peer.kid[j]
    BY <1>2, <2>2
  <2>4. \A j \in Kids : KidShape(a.kid[j])
    BY <1>2, <2>3, KidTypes DEF Agrees
  <2>5. StrangerIsDown(a) /\ a.kid[TCP].active
    BY <1>2, <2>2, <2>3, KidTypes DEF Agrees, StrangerIsDown, SameFriend
  <2>6. /\ peer' \in Peer /\ Agrees(peer')
        /\ peer'.exists = a.exists
        /\ "NEW" \in peer'.actions <=> "NEW" \in a.actions
        /\ peer'.kid = [a.kid EXCEPT ![Other(TCP)] = Idle]
        /\ \A j \in Kids : Won(peer'.queue, j) <=> Won(a.queue, j)
    BY <1>2, <2>1, <2>2, <2>4, <2>5, HandleSuccessAgrees
  <2>7. \A j \in Kids : peer'.kid[j].waiting = "NOT"
    BY <1>2, <1>4, <2>2, <2>3, <2>6, Pairs
  <2>8. Step(peer, peer')
    BY <1>1, <2>2, <2>6, <2>7 DEF Step, SameFriend
  <2>9. QED
    BY <1>1, <1>3, <2>8, Typed, StepIInv
<1>8. CASE peer' = ResetAndNotify(peer, TCP, busy)
  <2>1. /\ peer' \in Peer /\ Agrees(peer')
        /\ peer'.connected => peer.connected
        /\ peer'.active => peer.active
        /\ peer'.exists = peer.exists
        /\ "NEW" \in peer'.actions <=> "NEW" \in peer.actions
        /\ peer'.kid = [peer.kid EXCEPT ![TCP] = Idle]
        /\ \A j \in Kids : Won(peer'.queue, j) <=> Won(peer.queue, j)
    BY <1>2, <1>8, ResetAndNotifyAgrees
  <2>2. \A j \in Kids : peer'.kid[j] = Idle \/ peer'.kid[j] = peer.kid[j]
    BY <1>2, <2>1
  <2>3. Step(peer, peer')
    BY <1>1, <1>4, <2>1, <2>2 DEF Step
  <2>4. QED
    BY <1>1, <1>3, <2>3, Typed, StepIInv
<1>9. QED
  BY <1>1, <1>6, <1>7, <1>8

(* Where the main thread goes on, and the friend steps as well. *)
LEMMA MoveIInv ==
    ASSUME IInv, peer' \in Peer, Agrees(peer'),
           main' \in {"listen", "tick", "notify", "links", "monitors", "change", "fullstop"},
           WinsAreFresh', NothingOfNobody', NewIsDown',
           todo' \subseteq Kids, taken' \subseteq {"CONNECT_REQ", "MOVED"},
           user' \in BOOLEAN, CountersTyped', crashed' \in BOOLEAN
    PROVE  IInv'
<1>1. TypeOK'
  BY DEF TypeOK, Agrees, CountersTyped
<1>2. QED
  BY <1>1 DEF IInv

LEMMA CountersStay ==
    ASSUME IInv, UNCHANGED counters
    PROVE  CountersTyped'
<1>1. UNCHANGED <<accepts, retries, removals>>
  BY DEF counters
<1>2. QED
  BY <1>1, Typed DEF CountersTyped

LEMMA BeginTickIInv ==
    ASSUME IInv, BeginTick
    PROVE  IInv'
<1>1. main = "listen" /\ UNCHANGED <<taken, user, crashed>> /\ CountersTyped'
  BY CountersStay DEF BeginTick
<1>2. CASE peer.exists
  <2>1. /\ peer' = IF peer.active /\ ~peer.fresh THEN ResetPerson(peer) ELSE peer
        /\ main' = "tick" /\ todo' = Kids
    BY <1>2 DEF BeginTick
  <2>2. /\ peer' \in Peer /\ Agrees(peer') /\ SameFriend(peer, peer')
        /\ \A j \in Kids : Won(peer'.queue, j) => Won(peer.queue, j)
        /\ \A j \in Kids : peer'.kid[j] = peer.kid[j] \/ peer'.kid[j] = Idle
    <3>1. CASE peer.active /\ ~peer.fresh
      BY <2>1, <3>1, Typed, ResetPersonAgrees
    <3>2. CASE ~(peer.active /\ ~peer.fresh)
      BY <2>1, <3>2, Typed DEF SameFriend
    <3>3. QED
      BY <3>1, <3>2
  <2>3. Idle.waiting = "NOT"
    BY DEF Idle
  <2>4. WinsAreFresh'
    BY <2>1, <2>2, <2>3 DEF IInv, WinsAreFresh
  <2>5. NothingOfNobody' /\ NewIsDown'
    BY <1>2, <2>1, <2>2 DEF NothingOfNobody, NewIsDown, SameFriend
  <2>6. QED
    BY <1>1, <2>1, <2>2, <2>4, <2>5, Typed, MoveIInv
<1>3. CASE ~peer.exists
  <2>1. main' = "links" /\ UNCHANGED <<peer, todo>>
    BY <1>3 DEF BeginTick
  <2>2. WinsAreFresh'
    BY <1>3, <2>1, NothingQueued DEF IInv, WinsAreFresh, NothingOfNobody
  <2>3. NothingOfNobody' /\ NewIsDown'
    BY <1>3, <2>1 DEF IInv, NothingOfNobody, NewIsDown
  <2>4. QED
    BY <1>1, <2>1, <2>2, <2>3, Typed, MoveIInv
<1>4. QED
  BY <1>2, <1>3

LEMMA TickKidIInv ==
    ASSUME IInv, TickKid
    PROVE  IInv'
<1>1. /\ main = "tick" /\ main' \in {"notify", "tick"}
      /\ UNCHANGED <<taken, user, crashed>> /\ CountersTyped'
  BY CountersStay DEF TickKid
<1>2. PICK k \in todo : peer' \in Ticked(peer, k) /\ todo' = todo \ {k}
  BY DEF TickKid
<1>3. k \in Kids /\ todo' \subseteq Kids
  BY <1>2, Typed
<1>4. Keeps(peer, peer', k) /\ (peer.kid[k].waiting = "NOT" => peer' = peer)
  BY <1>2, <1>3, Typed, TickedKeeps
<1>5. WinsAreFresh'
  <2> SUFFICES ASSUME NEW j \in Kids, Won(peer'.queue, j)
               PROVE  peer'.kid[j].waiting = "NOT"
    BY <1>1 DEF WinsAreFresh
  <2>1. CASE Won(peer.queue, j)
    <3>1. peer.kid[j].waiting = "NOT"
      BY <2>1 DEF IInv, WinsAreFresh
    <3>2. QED
      BY <1>4, <3>1 DEF Keeps
  <2>2. CASE ~Won(peer.queue, j)
    BY <1>4, <2>2 DEF Keeps
  <2>3. QED
    BY <2>1, <2>2
<1>6. NothingOfNobody' /\ NewIsDown'
  BY <1>1, <1>4 DEF IInv, NothingOfNobody, NewIsDown, Keeps, SameFriend
<1>7. QED
  BY <1>1, <1>3, <1>4, <1>5, <1>6, Typed, MoveIInv DEF Keeps

LEMMA ProcessEventIInv ==
    ASSUME IInv, ProcessEvent
    PROVE  IInv'
<1> DEFINE e == Head(peer.queue)
           a == [peer EXCEPT !.queue = Tail(@)]
<1>1. /\ main = "notify" /\ peer.queue # <<>>
      /\ UNCHANGED <<main, todo, taken, user>> /\ CountersTyped'
  BY CountersStay DEF ProcessEvent
<1>2. \/ crashed' = TRUE /\ peer' = peer
      \/ /\ ~(e.success /\ ~peer.kid[e.kid].ssl)
         /\ peer' = Handle(a, e.kid, e.success) /\ UNCHANGED crashed
  BY DEF ProcessEvent
<1>3. /\ peer \in Peer /\ Agrees(peer) /\ peer.queue \in Seq(Event) /\ peer.exists
  BY <1>1, Typed DEF Peer, IInv, NothingOfNobody
<1>4. /\ Tail(peer.queue) \in Seq(Event) /\ e.kid \in Kids /\ e.success \in BOOLEAN
      /\ e.success => Won(peer.queue, e.kid)
      /\ \A j \in Kids :
            /\ Won(Tail(peer.queue), j) => Won(peer.queue, j)
            /\ Won(peer.queue, j) => Won(Tail(peer.queue), j) \/ (e.kid = j /\ e.success)
            /\ Lost(peer.queue, j) => Lost(Tail(peer.queue), j) \/ (e.kid = j /\ ~e.success)
  BY <1>1, <1>3, NewsTaken
<1>5. /\ a \in Peer /\ a.queue = Tail(peer.queue) /\ SameFriend(peer, a)
      /\ a.kid = peer.kid /\ a.thread = peer.thread
      /\ a.active = peer.active /\ a.activepqi = peer.activepqi
  BY <1>3, <1>4 DEF Peer, SameFriend
<1> HIDE DEF a, e
<1>6. StrangerIsDown(a) /\ (\A j \in Kids : KidShape(a.kid[j]))
      /\ (a.active <=> a.activepqi # 0)
  BY <1>3, <1>5 DEF Agrees, StrangerIsDown, SameFriend
<1>7. Idle.waiting = "NOT"
  BY DEF Idle
<1>8. CASE crashed' = TRUE /\ peer' = peer
  <2>1. Step(peer, peer')
    BY <1>8, <1>3, AlikeStep DEF Alike
  <2>2. QED
    BY <1>1, <1>8, <2>1, Typed, StepIInv
<1>9. CASE e.success /\ peer.kid[e.kid].ssl /\ peer' = Handle(a, e.kid, e.success)
           /\ UNCHANGED crashed
  <2>1. peer' = HandleSuccess(a, e.kid)
    BY <1>9 DEF Handle
  <2>2. peer.kid[e.kid].waiting = "NOT"
    BY <1>4, <1>9 DEF IInv, WinsAreFresh
  <2>3. a.kid[e.kid].active
    BY <1>3, <1>4, <1>5, <1>9, <2>2 DEF Agrees, KidShape
  <2>4. /\ peer' \in Peer /\ Agrees(peer')
        /\ peer'.exists = a.exists
        /\ "NEW" \in peer'.actions <=> "NEW" \in a.actions
        /\ peer'.kid = [a.kid EXCEPT ![Other(e.kid)] = Idle]
        /\ \A j \in Kids : Won(peer'.queue, j) <=> Won(a.queue, j)
    BY <1>4, <1>5, <1>6, <2>1, <2>3, HandleSuccessAgrees
  <2>5. peer.kid \in [Kids -> Kid]
    BY <1>3 DEF Peer
  <2>6. \A j \in Kids : peer'.kid[j] = Idle \/ peer'.kid[j] = peer.kid[j]
    BY <1>5, <2>4, <2>5
  <2>7. \A j \in Kids : Won(peer'.queue, j) =>
            Won(peer.queue, j) /\ peer'.kid[j].waiting = "NOT"
    BY <1>4, <1>5, <1>7, <2>4, <2>6 DEF IInv, WinsAreFresh
  <2>8. Step(peer, peer')
    BY <1>1, <1>3, <1>5, <2>4, <2>7 DEF Step, SameFriend
  <2>9. QED
    BY <1>1, <1>9, <2>8, Typed, StepIInv
<1>10. CASE ~e.success /\ peer' = Handle(a, e.kid, e.success) /\ UNCHANGED crashed
  <2>1. peer' = HandleFailure(a, e.kid)
    BY <1>10 DEF Handle
  <2>2. Sole(a)
    BY <1>3, <1>4, <1>5, <1>10 DEF Agrees, Sole
  <2>3. a.activepqi # e.kid => Carried(a)
    <3>1. peer.activepqi \in Kids \cup {0}
      BY <1>3 DEF Peer
    <3>2. QED
      BY <1>3, <1>4, <1>5, <3>1 DEF Agrees, Carried
  <2>4. /\ peer' \in Peer /\ Agrees(peer') /\ ~peer'.connected
        /\ (peer'.active => a.active) /\ peer'.exists = a.exists
        /\ "NEW" \in peer'.actions <=> "NEW" \in a.actions
        /\ peer'.kid = a.kid /\ peer'.queue = a.queue
    BY <1>4, <1>5, <1>6, <2>1, <2>2, <2>3, HandleFailureAgrees
  <2>5. Step(peer, peer')
    BY <1>1, <1>3, <1>4, <1>5, <2>4 DEF Step, SameFriend
  <2>6. QED
    BY <1>1, <1>10, <2>5, Typed, StepIInv
<1>11. QED
  BY <1>2, <1>4, <1>8, <1>9, <1>10

LEMMA EndNotifyIInv ==
    ASSUME IInv, EndNotify
    PROVE  IInv'
<1>1. /\ peer.queue = <<>> /\ main = "notify" /\ main' = "links"
      /\ UNCHANGED <<peer, todo, taken, user, crashed>> /\ CountersTyped'
  BY CountersStay DEF EndNotify
<1>2. WinsAreFresh'
  BY <1>1, NothingQueued DEF WinsAreFresh
<1>3. NothingOfNobody' /\ NewIsDown'
  BY <1>1 DEF IInv, NothingOfNobody, NewIsDown
<1>4. QED
  BY <1>1, <1>2, <1>3, Typed, MoveIInv

(* The heartbeat, the addresses to try, and the friends. *)
LEMMA FreshIInv ==
    ASSUME IInv, NEW now \in BOOLEAN, peer' = [peer EXCEPT !.fresh = now],
           UNCHANGED <<main, todo, taken, user, counters, crashed>>
    PROVE  IInv'
<1>1. peer' \in Peer /\ Alike(peer, peer') /\ peer'.thread = peer.thread
  BY Typed DEF Peer, Alike
<1>2. Step(peer, peer')
  BY <1>1, Typed, AlikeStep
<1>3. QED
  BY <1>2, CountersStay, Typed, StepIInv

LEMMA RetryCounts ==
    ASSUME IInv, NEW p, Retry(p), UNCHANGED <<accepts, removals>>
    PROVE  peer' = p /\ CountersTyped'
<1>1. retries' \in 0 .. MaxRetries
  BY Typed, BoundsAssumption DEF Retry, CountersTyped
<1>2. QED
  BY <1>1, Typed DEF Retry, CountersTyped

LEMMA AddAddressStep ==
    ASSUME IInv, NEW k \in Kids, peer' = AddAddress(peer, k)
    PROVE  Step(peer, peer')
<1>1. peer' \in Peer /\ Alike(peer, peer') /\ peer'.thread = peer.thread
  BY Typed, AddAddressDoes
<1>2. QED
  BY <1>1, Typed, AlikeStep

LEMMA StatusTickIInv ==
    ASSUME IInv, StatusTick
    PROVE  IInv'
<1>1. /\ main = "links" /\ main' = "monitors"
      /\ UNCHANGED <<todo, taken, user, accepts, removals, crashed>>
  BY DEF StatusTick
<1>2. Step(peer, peer') /\ CountersTyped'
  <2>1. CASE UNCHANGED <<peer, retries>>
    BY <1>1, <2>1, Typed, AlikeStep DEF Alike, CountersTyped
  <2>2. CASE Retry(AddAddress(peer, TCP))
    <3>1. TCP \in Kids
      BY DEF Kids
    <3>2. QED
      BY <1>1, <2>2, <3>1, RetryCounts, AddAddressStep
  <2>3. QED
    BY <2>1, <2>2 DEF StatusTick
<1>3. WinsAreFresh'
  BY <1>1, <1>2 DEF IInv, WinsAreFresh, Step
<1>4. NothingOfNobody' /\ NewIsDown'
  BY <1>1, <1>2 DEF IInv, NothingOfNobody, NewIsDown, Step
<1>5. QED
  BY <1>1, <1>2, <1>3, <1>4, Typed, MoveIInv DEF Step

LEMMA TryConnectUDPIInv ==
    ASSUME IInv, TryConnectUDP
    PROVE  IInv'
<1>1. UDP \in Kids
  BY DEF Kids
<1>2. /\ Retry(AddAddress(peer, UDP))
      /\ UNCHANGED <<main, todo, taken, user, accepts, removals, crashed>>
  BY DEF TryConnectUDP
<1>3. Step(peer, peer') /\ CountersTyped'
  BY <1>1, <1>2, RetryCounts, AddAddressStep
<1>4. QED
  BY <1>2, <1>3, Typed, StepIInv

LEMMA RetryCheckIInv ==
    ASSUME IInv, RetryCheck
    PROVE  IInv'
<1>1. user' = TRUE /\ UNCHANGED <<peer, main, todo, taken, counters, crashed>>
  BY DEF RetryCheck
<1>2. Step(peer, peer')
  BY <1>1, Typed, AlikeStep DEF Alike
<1>3. QED
  BY <1>1, <1>2, CountersStay, Typed, StepIInv

LEMMA RetryAddIInv ==
    ASSUME IInv, RetryAdd
    PROVE  IInv'
<1>1. user' = FALSE /\ UNCHANGED <<main, todo, taken, accepts, removals, crashed>>
  BY DEF RetryAdd
<1>2. Step(peer, peer') /\ CountersTyped'
  <2>1. CASE UNCHANGED <<peer, retries>>
    BY <1>1, <2>1, Typed, AlikeStep DEF Alike, CountersTyped
  <2>2. CASE Retry(AddAddress(peer, TCP))
    <3>1. TCP \in Kids
      BY DEF Kids
    <3>2. QED
      BY <1>1, <2>2, <3>1, RetryCounts, AddAddressStep
  <2>3. QED
    BY <2>1, <2>2 DEF RetryAdd
<1>3. QED
  BY <1>1, <1>2, Typed, StepIInv

LEMMA RemoveFriendIInv ==
    ASSUME IInv, RemoveFriend
    PROVE  IInv'
<1>1. /\ peer' = [peer EXCEPT !.friend = FALSE, !.moved = TRUE,
                              !.connected = FALSE, !.inConnAttempt = FALSE,
                              !.connAddrs = <<>>, !.actions = {}]
      /\ removals < MaxRemovals /\ removals' = removals + 1
      /\ UNCHANGED <<main, todo, taken, user, accepts, retries, crashed>>
  BY DEF RemoveFriend
<1>2. <<>> \in Seq(Kids)
  OBVIOUS
<1>3. /\ peer' \in Peer /\ peer'.kid = peer.kid /\ peer'.thread = peer.thread
      /\ peer'.active = peer.active /\ peer'.activepqi = peer.activepqi
      /\ peer'.queue = peer.queue /\ peer'.exists = peer.exists
      /\ ~peer'.connected /\ peer'.actions = {}
  BY <1>1, <1>2, Typed DEF Peer
<1>4. Agrees(peer')
  BY <1>3, Typed DEF Agrees, StrangerIsDown, Up, Carried, Sole
<1>5. Step(peer, peer')
  BY <1>3, <1>4 DEF Step, IInv, WinsAreFresh
<1>6. CountersTyped'
  <2>1. removals' \in 0 .. MaxRemovals
    BY <1>1, Typed, BoundsAssumption DEF CountersTyped
  <2>2. QED
    BY <1>1, <2>1, Typed DEF CountersTyped
<1>7. QED
  BY <1>1, <1>5, <1>6, Typed, StepIInv

LEMMA AddFriendIInv ==
    ASSUME IInv, AddFriend
    PROVE  IInv'
<1>1. /\ peer' = [peer EXCEPT !.friend = TRUE, !.actions = {"NEW"}]
      /\ ~peer.friend
      /\ UNCHANGED <<main, todo, taken, user, counters, crashed>>
  BY DEF AddFriend
<1>2. /\ peer' \in Peer /\ peer'.kid = peer.kid /\ peer'.thread = peer.thread
      /\ peer'.active = peer.active /\ peer'.activepqi = peer.activepqi
      /\ peer'.queue = peer.queue /\ peer'.exists = peer.exists
      /\ peer'.connected = peer.connected
  BY <1>1, Typed DEF Peer
<1>3. ~peer'.connected
  BY <1>1, <1>2, Typed DEF Agrees, StrangerIsDown
<1>4. Agrees(peer')
  BY <1>2, <1>3, Typed DEF Agrees, StrangerIsDown, Up, Carried, Sole
<1>5. Step(peer, peer')
  BY <1>2, <1>3, <1>4 DEF Step, IInv, WinsAreFresh
<1>6. QED
  BY <1>1, <1>5, CountersStay, Typed, StepIInv

(* What the link manager decides, with the main thread. *)
LEMMA TickMonitorsIInv ==
    ASSUME IInv, TickMonitors
    PROVE  IInv'
<1>1. /\ main = "monitors" /\ main' = "change"
      /\ taken' = (peer.actions \ {"NEW"}) \cup (IF peer.moved THEN {"MOVED"} ELSE {})
      /\ peer' = [peer EXCEPT !.actions = {}, !.moved = FALSE,
                              !.exists = @ \/ "NEW" \in peer.actions]
      /\ UNCHANGED <<todo, user, crashed>> /\ CountersTyped'
  BY CountersStay DEF TickMonitors
<1>2. taken' \subseteq {"CONNECT_REQ", "MOVED"}
  BY <1>1, Typed DEF Peer
<1>3. /\ peer' \in Peer /\ peer'.kid = peer.kid /\ peer'.thread = peer.thread
      /\ peer'.active = peer.active /\ peer'.activepqi = peer.activepqi
      /\ peer'.queue = peer.queue /\ peer'.friend = peer.friend
      /\ peer'.connected = peer.connected /\ peer'.actions = {}
      /\ (peer'.exists <=> peer.exists \/ "NEW" \in peer.actions)
  <2> DEFINE now == peer.exists \/ "NEW" \in peer.actions
  <2>1. now \in BOOLEAN /\ (now <=> peer.exists \/ "NEW" \in peer.actions)
    BY Zenon
  <2>2. peer' = [peer EXCEPT !.actions = {}, !.moved = FALSE, !.exists = now]
    BY <1>1
  <2> HIDE DEF now
  <2>3. QED
    BY <2>1, <2>2, Typed DEF Peer
<1>4. Up(peer')
  BY <1>3, Typed DEF IInv, NewIsDown, Agrees, Up
<1>5. Agrees(peer')
  BY <1>3, <1>4, Typed DEF Agrees, StrangerIsDown, Carried, Sole
<1>6. WinsAreFresh'
  BY <1>1, <1>3 DEF IInv, WinsAreFresh
<1>7. NothingOfNobody' /\ NewIsDown'
  BY <1>1, <1>3 DEF IInv, NothingOfNobody, NewIsDown
<1>8. QED
  BY <1>1, <1>2, <1>3, <1>5, <1>6, <1>7, Typed, MoveIInv

LEMMA ConnectPeerIInv ==
    ASSUME IInv, ConnectPeer
    PROVE  IInv'
<1> DEFINE k == Head(peer.connAddrs)
           rest == Tail(peer.connAddrs)
           a == [peer EXCEPT !.inConnAttempt = TRUE, !.connAddrs = rest]
<1>1. /\ main = "change" /\ UNCHANGED <<main, todo, user, crashed>>
      /\ taken' \subseteq {"CONNECT_REQ", "MOVED"} /\ CountersTyped'
  BY CountersStay, Typed DEF ConnectPeer
<1>2. CASE UNCHANGED peer
  <2>1. Step(peer, peer')
    BY <1>2, Typed, AlikeStep DEF Alike
  <2>2. QED
    BY <1>1, <2>1, Typed, StepIInv
<1>3. CASE peer.exists /\ peer.connAddrs # <<>> /\ peer' = Connect(a, k)
  <2>1. k \in Kids /\ rest \in Seq(Kids)
    <3>1. peer.connAddrs \in Seq(Kids)
      BY Typed DEF Peer
    <3>2. QED
      BY <1>3, <3>1, HeadTailProperties
  <2> HIDE DEF k, rest
  <2>2. a \in Peer /\ Alike(peer, a) /\ a.thread = peer.thread
    BY <2>1, Typed DEF Peer, Alike
  <2> HIDE DEF a
  <2>3. Agrees(a)
    BY <2>2, Typed, AlikeStep DEF Step
  <2>4. /\ peer' \in Peer /\ Agrees(peer') /\ SameFriend(a, peer')
        /\ peer'.active = a.active
        /\ \A j \in Kids : Won(peer'.queue, j) <=> Won(a.queue, j)
    BY <1>3, <2>1, <2>2, <2>3, ConnectAgrees
  <2>5. \A j \in Kids : ~Won(peer.queue, j)
    BY <1>1 DEF IInv, WinsAreFresh
  <2>6. Step(peer, peer')
    BY <1>3, <2>2, <2>4, <2>5 DEF Step, Alike, SameFriend
  <2>7. QED
    BY <1>1, <2>6, Typed, StepIInv
<1>4. QED
  BY <1>2, <1>3 DEF ConnectPeer

LEMMA RemovePeerIInv ==
    ASSUME IInv, RemovePeer
    PROVE  IInv'
<1>1. /\ main = "change" /\ taken' = {} /\ UNCHANGED <<todo, user, crashed>>
      /\ CountersTyped'
  BY CountersStay DEF RemovePeer
<1>2. CASE UNCHANGED <<main, peer>>
  <2>1. Step(peer, peer')
    BY <1>2, Typed, AlikeStep DEF Alike
  <2>2. QED
    BY <1>1, <1>2, <2>1, Typed, StepIInv
<1>3. CASE peer.exists /\ main' = "fullstop" /\ peer' = ResetPerson(peer)
  <2>1. /\ peer' \in Peer /\ Agrees(peer') /\ ~peer'.active /\ SameFriend(peer, peer')
        /\ \A j \in Kids : Won(peer'.queue, j) => Won(peer.queue, j)
    BY <1>3, Typed, ResetPersonAgrees
  <2>2. WinsAreFresh'
    BY <1>1, <2>1 DEF IInv, WinsAreFresh
  <2>3. NothingOfNobody' /\ NewIsDown'
    BY <1>1, <1>3, <2>1 DEF IInv, NothingOfNobody, NewIsDown, SameFriend
  <2>4. QED
    BY <1>1, <1>3, <2>1, <2>2, <2>3, Typed, MoveIInv
<1>4. QED
  BY <1>2, <1>3 DEF RemovePeer

LEMMA FullStopIInv ==
    ASSUME IInv, FullStop
    PROVE  IInv'
<1>1. /\ main = "fullstop" /\ main' = "change"
      /\ \A k \in Kids : peer.thread[k].at = "none"
      /\ peer' = [peer EXCEPT !.exists = FALSE, !.queue = <<>>]
      /\ UNCHANGED <<todo, taken, user, crashed>> /\ CountersTyped'
  BY CountersStay DEF FullStop
<1>2. <<>> \in Seq(Event)
  OBVIOUS
<1>3. /\ peer' \in Peer /\ peer'.kid = peer.kid /\ peer'.thread = peer.thread
      /\ peer'.active = peer.active /\ peer'.activepqi = peer.activepqi
      /\ peer'.queue = <<>> /\ ~peer'.exists /\ peer'.friend = peer.friend
      /\ peer'.connected = peer.connected /\ peer'.actions = peer.actions
  BY <1>1, <1>2, Typed DEF Peer
<1>4. ~peer'.active
  BY <1>1, <1>3 DEF IInv, NothingOfNobody
<1>5. Agrees(peer')
  BY <1>3, <1>4, Typed DEF Agrees, StrangerIsDown, Up, Carried, Sole
<1>6. WinsAreFresh'
  BY <1>3, NothingQueued DEF WinsAreFresh
<1>7. NothingOfNobody' /\ NewIsDown'
  BY <1>1, <1>3, <1>4 DEF IInv, NothingOfNobody, NewIsDown
<1>8. QED
  BY <1>1, <1>3, <1>5, <1>6, <1>7, Typed, MoveIInv

LEMMA ClearOthersIInv ==
    ASSUME IInv, ClearOthers
    PROVE  IInv'
<1>1. /\ main = "change" /\ main' = "listen"
      /\ peer' = [peer EXCEPT !.moved = FALSE]
      /\ UNCHANGED <<todo, taken, user, crashed>> /\ CountersTyped'
  BY CountersStay DEF ClearOthers
<1>2. peer' \in Peer /\ Alike(peer, peer') /\ peer'.thread = peer.thread
  BY <1>1, Typed DEF Peer, Alike
<1>3. Step(peer, peer')
  BY <1>2, Typed, AlikeStep
<1>4. WinsAreFresh'
  BY <1>1, <1>2 DEF IInv, WinsAreFresh, Alike
<1>5. NothingOfNobody' /\ NewIsDown'
  BY <1>1, <1>2 DEF IInv, NothingOfNobody, NewIsDown, Alike
<1>6. QED
  BY <1>1, <1>2, <1>3, <1>4, <1>5, Typed, MoveIInv DEF Step

(* The streamer threads. *)
LEMMA ThreadChanges ==
    ASSUME IInv, NEW k \in Kids, NEW t \in Thread, peer.thread[k].at # "none"
    PROVE  LET q == [peer EXCEPT !.thread[k] = t]
           IN q \in Peer /\ Alike(peer, q) /\ Step(peer, q)
<1> DEFINE q == [peer EXCEPT !.thread[k] = t]
<1>1. q \in Peer /\ Alike(peer, q)
  BY Typed DEF Peer, Alike
<1>2. peer.exists
  BY DEF IInv, NothingOfNobody
<1> HIDE DEF q
<1>3. Step(peer, q)
  BY <1>1, <1>2, Typed, AlikeStep
<1>4. QED
  BY <1>1, <1>3 DEF q

LEMMA ThreadAt ==
    ASSUME IInv, NEW k \in Kids, NEW at \in {"loop", "tick", "reply"}
    PROVE  /\ [peer EXCEPT !.thread[k].at = at]
                  = [peer EXCEPT !.thread[k] = [peer.thread[k] EXCEPT !.at = at]]
           /\ [peer.thread[k] EXCEPT !.at = at] \in Thread
<1>1. peer \in Peer /\ peer.thread[k] \in Thread
  BY Typed DEF Peer
<1>2. QED
  BY <1>1 DEF Thread

LEMMA ThreadLoopIInv ==
    ASSUME IInv, NEW k \in Kids, ThreadLoop(k)
    PROVE  IInv'
<1> DEFINE t == IF peer.thread[k].stop THEN NoThread ELSE [peer.thread[k] EXCEPT !.at = "tick"]
<1>1. /\ peer.thread[k].at = "loop"
      /\ peer' = [peer EXCEPT !.thread[k] =
                     IF @.stop THEN NoThread ELSE [@ EXCEPT !.at = "tick"]]
      /\ UNCHANGED <<main, todo, taken, user, crashed>> /\ CountersTyped'
  BY CountersStay DEF ThreadLoop
<1>2. t \in Thread
  BY ThreadAt DEF NoThread, Thread
<1>3. peer' = [peer EXCEPT !.thread[k] = t]
  BY <1>1
<1> HIDE DEF t
<1>4. Step(peer, peer')
  BY <1>1, <1>2, <1>3, ThreadChanges
<1>5. QED
  BY <1>1, <1>4, Typed, StepIInv

LEMMA ThreadErrorIInv ==
    ASSUME IInv, NEW k \in Kids, NEW busy \in BOOLEAN, ThreadError(k, busy)
    PROVE  IInv'
<1> DEFINE t == [peer.thread[k] EXCEPT !.at = "loop"]
           a == [peer EXCEPT !.thread[k] = t]
<1>1. /\ peer.thread[k].at = "tick"
      /\ peer' = ResetAndNotify([peer EXCEPT !.thread[k].at = "loop"], k, busy)
      /\ UNCHANGED <<main, todo, taken, user, crashed>> /\ CountersTyped'
  BY CountersStay DEF ThreadError
<1>2. t \in Thread /\ [peer EXCEPT !.thread[k].at = "loop"] = a
  BY ThreadAt
<1> HIDE DEF t
<1>3. a \in Peer /\ Alike(peer, a) /\ Agrees(a)
  BY <1>1, <1>2, ThreadChanges DEF Step
<1>4. peer' = ResetAndNotify(a, k, busy)
  BY <1>1, <1>2
<1> HIDE DEF a
<1>5. /\ peer' \in Peer /\ Agrees(peer')
      /\ (peer'.connected => a.connected) /\ (peer'.active => a.active)
      /\ peer'.exists = a.exists
      /\ "NEW" \in peer'.actions <=> "NEW" \in a.actions
      /\ peer'.kid = [a.kid EXCEPT ![k] = Idle]
      /\ \A j \in Kids : Won(peer'.queue, j) <=> Won(a.queue, j)
  BY <1>3, <1>4, ResetAndNotifyAgrees
<1>6. peer.exists /\ a.kid \in [Kids -> Kid] /\ Idle.waiting = "NOT"
  BY <1>1, <1>3 DEF IInv, NothingOfNobody, Peer, Idle
<1>7. \A j \in Kids : peer'.kid[j] = a.kid[j] \/ peer'.kid[j] = Idle
  BY <1>5, <1>6
<1>8. Step(peer, peer')
  BY <1>3, <1>5, <1>6, <1>7 DEF Step, Alike, IInv, WinsAreFresh
<1>9. QED
  BY <1>1, <1>8, Typed, StepIInv

LEMMA ThreadReadIInv ==
    ASSUME IInv, NEW k \in Kids, ThreadRead(k) \/ ThreadReply(k)
    PROVE  IInv'
<1>1. /\ peer.thread[k].at # "none" /\ UNCHANGED <<main, todo, taken, user>>
      /\ CountersTyped' /\ crashed' \in BOOLEAN
  BY CountersStay, Typed DEF ThreadRead, ThreadReply
<1>2. \/ \E at \in {"loop", "reply"} : peer' = [peer EXCEPT !.thread[k].at = at]
      \/ peer' = peer
  BY DEF ThreadRead, ThreadReply
<1>3. Step(peer, peer')
  <2>1. CASE peer' = peer
    BY <2>1, Typed, AlikeStep DEF Alike
  <2>2. ASSUME NEW at \in {"loop", "reply"}, peer' = [peer EXCEPT !.thread[k].at = at]
        PROVE  Step(peer, peer')
    BY <1>1, <2>2, ThreadAt, ThreadChanges
  <2>3. QED
    BY <1>2, <2>1, <2>2
<1>4. QED
  BY <1>1, <1>3, Typed, StepIInv

LEMMA NextIInv == IInv /\ [Next]_vars => IInv'
<1> SUFFICES ASSUME IInv, [Next]_vars PROVE IInv'
  OBVIOUS
<1>1. CASE UNCHANGED vars
  BY <1>1, StutterIInv
<1>2. CASE Main
  BY <1>2, AcceptIInv, BeginTickIInv, TickKidIInv, ProcessEventIInv, EndNotifyIInv,
     FreshIInv, StatusTickIInv, TickMonitorsIInv, ConnectPeerIInv, RemovePeerIInv,
     FullStopIInv, ClearOthersIInv DEF Main, Heartbeat
<1>3. ASSUME NEW k \in Kids, Streamer(k)
      PROVE  IInv'
  BY <1>3, ThreadLoopIInv, ThreadErrorIInv, ThreadReadIInv DEF Streamer
<1>4. CASE Others
  BY <1>4, FreshIInv, TryConnectUDPIInv, RetryCheckIInv, RetryAddIInv,
     RemoveFriendIInv, AddFriendIInv DEF Others, Silence
<1>5. QED
  BY <1>1, <1>2, <1>3, <1>4 DEF Next

(***************************************************************************)
(* The theorems                                                            *)
(***************************************************************************)

(* Link manager, person, kids and queue agree between any two steps of the *)
(* threads, and a success in the queue is one of this round.               *)
THEOREM PeerInvariant == Spec => []IInv
BY InitIInv, NextIInv, PTL DEF Spec

(* Every variable keeps its type, and activepqi is set just when the person *)
(* is active.                                                              *)
THEOREM PeerTypes == Spec => []TypeOK
<1>1. IInv => TypeOK
  BY DEF IInv
<1>2. QED
  BY <1>1, PeerInvariant, PTL

(* handleNotifyEvent_locked and reset_locked keep nobody connected without *)
(* an active person, or the news of the failure in the queue.              *)
THEOREM PeerConnectedIsActive == Spec => []ConnectedIsActive
<1>1. IInv => ConnectedIsActive
  BY PendingIsNews DEF IInv, Agrees, Up, ConnectedIsActive
<1>2. QED
  BY <1>1, PeerInvariant, PTL

(* The kid that the person sends through is connected, or the news that it *)
(* has gone waits in mNotifyQueue.                                         *)
THEOREM PeerHasConnection == Spec => []ActiveHasConnection
<1>1. IInv => ActiveHasConnection
  <2> SUFFICES ASSUME IInv, peer.active
               PROVE  \/ peer.kid[peer.activepqi].active
                      \/ Pending(peer.activepqi, FALSE)
    BY DEF ActiveHasConnection
  <2>1. TypeOK /\ Carried(peer) /\ peer.activepqi \in Kids
    BY DEF IInv, TypeOK, Agrees, Peer
  <2>2. QED
    BY <2>1, PendingIsNews DEF Carried
<1>2. QED
  BY <1>1, PeerInvariant, PTL

(* Beside the connection in use there is another only as long as its       *)
(* success waits in the queue.                                             *)
THEOREM PeerSoleConnection == Spec => []SoleConnection
<1>1. IInv => SoleConnection
  BY PendingIsNews DEF IInv, Agrees, Sole, SoleConnection
<1>2. QED
  BY <1>1, PeerInvariant, PTL
=============================================================================
