---------------------------- MODULE GxsSyncProofs ----------------------------
(* What GxsSync guarantees for any peers, messages, faults and bounds.     *)
EXTENDS GxsSync, SequenceTheorems, FiniteSetTheorems, TLAPS

(***************************************************************************)
(* The inductive invariant.  Of the two directions between peers, it looks *)
(* at what the opener y opened to the receiver x: w is what is under way   *)
(* to x, r what comes back, o what y has opened, g what x has got to know  *)
(* of, m the last number that y gave.                                      *)
(***************************************************************************)

Carries(w, kind, n) == \E i \in DOMAIN w : w[i].kind = kind /\ w[i].n = n
Answered(r, n) == Carries(r, "begin2", n) \/ Carries(r, "end", n)

(* Numbers under way were given, and to the one they are under way to.     *)
Numbered(w, r, o, m, x) ==
    /\ \A n \in DOMAIN o : n <= m
    /\ \A i \in DOMAIN w : w[i].kind \in {"begin1", "item"} => w[i].n <= m
    /\ \A i \in DOMAIN r : r[i].kind \in {"begin2", "end"} => r[i].n <= m
    /\ \A n \in DOMAIN o : Carries(w, "item", n) \/ Answered(r, n) => o[n].to = x

(* A transaction that is still offered is the only one of its number and   *)
(* nothing else has been said of it; what x may have of that number waits  *)
(* in vain.                                                                *)
OffersAreNew(w, r, o, g, x) ==
    \A i \in DOMAIN w : w[i].kind = "begin1" =>
        /\ ~Carries(w, "item", w[i].n) /\ ~Answered(r, w[i].n)
        /\ \A j \in DOMAIN w : w[j].kind = "begin1" /\ w[j].n = w[i].n => j = i
        /\ w[i].n \in DOMAIN o =>
              /\ o[w[i].n].to = x /\ o[w[i].n].state = "waiting"
              /\ o[w[i].n].announced = w[i].announced
        /\ w[i].n \in DOMAIN g => ~IsDue(g[w[i].n])

(* Of a transaction whose items y still has x has got none, or it has one  *)
(* of that number that waits in vain and does not answer.                  *)
HeldIsWhole(w, r, o, g, x) ==
    \A n \in DOMAIN o : o[n].to = x /\ o[n].held =>
        /\ ~Carries(w, "item", n)
        /\ n \in DOMAIN g =>
              \/ g[n].got = <<>> /\ g[n].announced = o[n].announced
              \/ ~IsDue(g[n]) /\ o[n].state = "waiting" /\ ~Answered(r, n)

(* What has come is the beginning of what was announced, and what is under *)
(* way goes on from there: it is in the places f to l.                     *)
GoesOn(w, t, n) ==
    /\ Len(t.got) <= Len(t.announced)
    /\ \A i \in DOMAIN t.got : t.got[i] = t.announced[i]
    /\ \E f \in 1 .. Len(w) + 1, l \in 0 .. Len(w) :
          /\ l - f < Len(t.announced) - Len(t.got)
          /\ \A i \in DOMAIN w :
                /\ w[i].kind = "item" /\ w[i].n = n <=> f <= i /\ i <= l
                /\ f <= i /\ i <= l =>
                      w[i].message = t.announced[Len(t.got) + i - f + 1]
ItemsGoOn(w, g) == \A n \in DOMAIN g : GoesOn(w, g[n], n)

(* Who has something to answer answers what was opened to him, unless      *)
(* nothing is left between the two since y was restarted.                  *)
DueIsOpen(o, g, m, x, cut) ==
    \A n \in DOMAIN g : IsDue(g[n]) =>
        cut \/ (n <= m /\ (n \in DOMAIN o => o[n].to = x))

Link(w, r, o, g, m, x, cut) ==
    /\ Numbered(w, r, o, m, x)
    /\ OffersAreNew(w, r, o, g, x)
    /\ HeldIsWhole(w, r, o, g, x)
    /\ ItemsGoOn(w, g)
    /\ DueIsOpen(o, g, m, x, cut)

(* Between x and y nothing is left of what y has opened since it started.  *)
Cut(x, y) ==
    /\ ~Connected(x, y) /\ wire[x][y] = <<>> /\ wire[y][x] = <<>>
    /\ incoming[y][x] = NoTransactions
    /\ \A n \in DOMAIN own[y] : own[y][n].to # x

Linked ==
    \A x, y \in Peers : x # y =>
        Link(wire[y][x], wire[x][y], own[y], incoming[x][y], transN[y], x, Cut(x, y))

(* A peer is no friend of its own. *)
NotToSelf ==
    \A x \in Peers : {x} \notin up /\ wire[x][x] = <<>> /\ incoming[x][x] = NoTransactions

IInv == TypeOK /\ NotToSelf /\ Linked

(***************************************************************************)
(* Sequences                                                               *)
(***************************************************************************)

(* What is kept of a sequence is of its type and is what of it is in S. *)
LEMMA KeptIsKept ==
    ASSUME NEW T, NEW s \in Seq(T), NEW S
    PROVE  Kept(s, S) \in Seq(T) /\ Elements(Kept(s, S)) = Elements(s) \cap S
<1> DEFINE places == {k \in DOMAIN s : s[k] \in S}
           c == Cardinality(places)
           upTo(k) == {j \in places : j <= k}
           count == [k \in places |-> Cardinality(upTo(k))]
           place(i) == CHOOSE k \in places : Cardinality({j \in places : j <= k}) = i
<1>1. /\ DOMAIN s = 1 .. Len(s) /\ Len(s) \in Nat
      /\ \A k \in 1 .. Len(s) : s[k] \in T
  BY LenProperties, ElementOfSeq
<1>2. IsFiniteSet(places) /\ c \in Nat
  <2>1. IsFiniteSet(1 .. Len(s)) /\ places \subseteq 1 .. Len(s)
    BY <1>1, FS_Interval
  <2>2. IsFiniteSet(places)
    BY <2>1, FS_Subset
  <2>3. QED
    BY <2>2, FS_CardinalityType
<1>3. \A k \in places : k \in Int /\ k \in DOMAIN s /\ s[k] \in S
  BY <1>1
<1>4. \A k \in places : /\ IsFiniteSet(upTo(k)) /\ upTo(k) \in SUBSET places
                        /\ Cardinality(upTo(k)) \in 1 .. c /\ k \in upTo(k)
  <2> SUFFICES ASSUME NEW k \in places
               PROVE  /\ IsFiniteSet(upTo(k)) /\ upTo(k) \in SUBSET places
                      /\ Cardinality(upTo(k)) \in 1 .. c /\ k \in upTo(k)
    OBVIOUS
  <2>1. upTo(k) \in SUBSET places /\ k \in upTo(k)
    BY <1>3
  <2> HIDE DEF upTo
  <2>2. IsFiniteSet(upTo(k)) /\ Cardinality(upTo(k)) <= c
    BY <1>2, <2>1, FS_Subset
  <2>3. Cardinality(upTo(k)) \in Nat /\ Cardinality(upTo(k)) # 0
    BY <2>1, <2>2, FS_CardinalityType, FS_EmptySet
  <2>4. QED
    BY <1>2, <2>1, <2>2, <2>3
<1>5. count \in [places -> 1 .. c]
  BY <1>4
<1>6. \A j, k \in places : j < k => count[j] # count[k]
  <2> SUFFICES ASSUME NEW j \in places, NEW k \in places, j < k,
                      count[j] = count[k]
               PROVE  FALSE
    OBVIOUS
  <2>1. upTo(j) \in SUBSET upTo(k) /\ k \notin upTo(j) /\ k \in upTo(k)
    BY <1>3
  <2>2. Cardinality(upTo(j)) = Cardinality(upTo(k)) /\ IsFiniteSet(upTo(k))
    BY <1>4
  <2> HIDE DEF upTo
  <2>3. upTo(j) = upTo(k)
    BY <2>1, <2>2, FS_Subset
  <2>4. QED
    BY <2>1, <2>3
<1>7. count \in Injection(places, 1 .. c)
  <2>1. ASSUME NEW j \in places, NEW k \in places, count[j] = count[k]
        PROVE  j = k
    <3>1. ~(j < k) /\ ~(k < j)
      BY <1>6, <2>1
    <3>2. QED
      BY <1>3, <3>1
  <2> HIDE DEF count, places, c
  <2>2. QED
    BY <1>5, <2>1, Zenon DEF Injection, IsInjective
<1>8. count \in Surjection(places, 1 .. c)
  <2>1. Cardinality(1 .. c) = c /\ IsFiniteSet(1 .. c)
    BY <1>2, FS_Interval
  <2> HIDE DEF count, places
  <2>2. QED
    BY <1>7, <2>1, FS_Injection
<1>9. \A i \in 1 .. c : place(i) \in places /\ Cardinality(upTo(place(i))) = i
  <2> SUFFICES ASSUME NEW i \in 1 .. c
               PROVE  place(i) \in places /\ Cardinality(upTo(place(i))) = i
    OBVIOUS
  <2>1. \E k \in places : count[k] = i
    <3> HIDE DEF count, places, c
    <3>1. QED
      BY <1>8 DEF Surjection
  <2>2. \E k \in places : Cardinality({j \in places : j <= k}) = i
    BY <2>1
  <2> HIDE DEF places
  <2>3. QED
    BY <2>2
<1>10. Kept(s, S) = [i \in 1 .. c |-> s[place(i)]]
  BY DEF Kept
<1> HIDE DEF place, c, upTo
<1>11. Kept(s, S) \in [1 .. c -> T] /\ Kept(s, S) \in Seq(T)
  <2>1. \A i \in 1 .. c : s[place(i)] \in T
    BY <1>1, <1>9
  <2>2. Kept(s, S) \in [1 .. c -> T]
    BY <1>10, <2>1
  <2>3. QED
    BY <1>2, <2>2
<1>12. DOMAIN Kept(s, S) = 1 .. c /\ \A i \in 1 .. c : Kept(s, S)[i] = s[place(i)]
  BY <1>10
<1>13. Elements(Kept(s, S)) \subseteq Elements(s) \cap S
  BY <1>3, <1>9, <1>12 DEF Elements
<1>14. Elements(s) \cap S \subseteq Elements(Kept(s, S))
  <2> SUFFICES ASSUME NEW k \in places
               PROVE  s[k] \in Elements(Kept(s, S))
    BY DEF Elements
  <2>1. count[k] \in 1 .. c /\ place(count[k]) \in places
        /\ count[place(count[k])] = count[k]
    BY <1>5, <1>9
  <2> HIDE DEF count, places
  <2>2. place(count[k]) = k
    BY <1>7, <2>1, Zenon DEF Injection, IsInjective
  <2>3. QED
    BY <1>12, <2>1, <2>2 DEF Elements
<1>15. QED
  BY <1>11, <1>13, <1>14

(* A finite set in some order. *)
LEMMA ListOfSet ==
    ASSUME NEW S, IsFiniteSet(S)
    PROVE  SetToSeq(S) \in Seq(S)
<1>1. Cardinality(S) \in Nat /\ ExistsBijection(1 .. Cardinality(S), S)
  BY FS_CardinalityType
<1>2. PICK g \in [1 .. Cardinality(S) -> S] : IsInjective(g)
  BY <1>1, Zenon DEF ExistsBijection, Bijection, Injection
<1>3. SetToSeq(S) \in [1 .. Cardinality(S) -> S]
  BY <1>2, Zenon DEF SetToSeq
<1>4. QED
  BY <1>1, <1>3

(***************************************************************************)
(* Types of what the operators give                                        *)
(***************************************************************************)

Wires == [Peers -> [Peers -> Seq(Item)]]
OwnTyped(o) == \A n \in DOMAIN o : n \in Nat /\ o[n] \in Own
IncomingTyped(g) == \A n \in DOMAIN g : n \in Nat /\ g[n] \in Incoming

(* What an item holds, by its kind. *)
LEMMA ItemTypes ==
    /\ \A ts \in Nat : [kind |-> "sync", ts |-> ts] \in Item
    /\ \A n \in Nat, type \in Types, s \in Seq(Messages), ts \in Nat :
          [kind |-> "begin1", n |-> n, type |-> type, announced |-> s, ts |-> ts] \in Item
    /\ \A n \in Nat : [kind |-> "begin2", n |-> n] \in Item
                      /\ [kind |-> "end", n |-> n] \in Item
    /\ \A n \in Nat, m \in Messages :
          [kind |-> "item", n |-> n, message |-> m] \in Item
    /\ \A i \in Item :
          /\ i.kind \in {"sync", "begin1", "begin2", "end", "item"}
          /\ i.kind = "sync" => i.ts \in Nat
          /\ i.kind = "begin1" => /\ i.n \in Nat /\ i.type \in Types
                                  /\ i.announced \in Seq(Messages) /\ i.ts \in Nat
          /\ i.kind \in {"begin2", "end"} => i.n \in Nat
          /\ i.kind = "item" => i.n \in Nat /\ i.message \in Messages
BY DEF Item

LEMMA SentType ==
    ASSUME NEW w \in Wires, NEW x \in Peers, NEW y \in Peers,
           NEW items \in Seq(Item)
    PROVE  Sent(w, x, y, items) \in Wires
<1>1. w[x][y] \in Seq(Item) /\ w[x][y] \o items \in Seq(Item)
  BY ConcatProperties DEF Wires
<1>2. [w EXCEPT ![x][y] = @ \o items] \in Wires
  BY <1>1 DEF Wires
<1>3. QED
  BY <1>2 DEF Sent

LEMMA TakenType ==
    ASSUME wire \in Wires, NEW x \in Peers, NEW y \in Peers, wire[y][x] # <<>>
    PROVE  Taken(x, y) \in Wires /\ Head(wire[y][x]) \in Item
<1>1. wire[y][x] \in Seq(Item)
  BY DEF Wires
<1>2. Head(wire[y][x]) \in Item /\ Tail(wire[y][x]) \in Seq(Item)
  BY <1>1, HeadTailProperties
<1>3. Taken(x, y) \in Wires
  BY <1>2 DEF Wires, Taken
<1>4. QED
  BY <1>2, <1>3

LEMMA OpenType ==
    ASSUME NEW w \in Wires, NEW x \in Peers, NEW y \in Peers,
           NEW type \in Types, NEW items \in Seq(Messages), NEW ts \in Nat,
           transN \in [Peers -> Nat], DOMAIN own = Peers, OwnTyped(own[x]),
           Open(w, x, y, type, items, ts)
    PROVE  /\ NextNumber(x) \in Nat
           /\ transN' \in [Peers -> Nat] /\ wire' \in Wires
           /\ DOMAIN own' = Peers /\ OwnTyped(own'[x])
           /\ \A z \in Peers \ {x} : own'[z] = own[z]
<1> DEFINE n == NextNumber(x)
           t == [to |-> y, type |-> type, announced |-> items, ts |-> ts,
                 held |-> TRUE, state |-> "waiting"]
           b == [kind |-> "begin1", n |-> n, type |-> type,
                 announced |-> items, ts |-> ts]
<1>1. n \in Nat
  BY DEF NextNumber
<1>2. /\ transN' = [transN EXCEPT ![x] = n]
      /\ own' = [own EXCEPT ![x] = With(own[x], n, t)]
      /\ wire' = Sent(w, x, y, <<b>>)
  BY DEF Open
<1>3. t \in Own
  BY DEF Own
<1>4. b \in Item
  BY <1>1, ItemTypes
<1> HIDE DEF n, t, b
<1>5. wire' \in Wires
  <2>1. <<b>> \in Seq(Item)
    BY <1>4
  <2>2. QED
    BY <1>2, <2>1, SentType
<1>6. OwnTyped(With(own[x], n, t))
  BY <1>1, <1>3 DEF OwnTyped, With
<1>7. QED
  BY <1>1, <1>2, <1>5, <1>6 DEF n

LEMMA StampServerType ==
    ASSUME NEW x \in Peers, clock \in [Peers -> Nat], serverTS \in [Peers -> Nat],
           StampServer(x)
    PROVE  clock' \in [Peers -> Nat] /\ serverTS' \in [Peers -> Nat]
<1>1. CASE Seekers \subseteq {x}
  BY <1>1 DEF StampServer
<1>2. CASE ~(Seekers \subseteq {x})
  <2>1. PICK t \in {clock[x], clock[x] + 1} :
             /\ clock' = [clock EXCEPT ![x] = t]
             /\ serverTS' = [serverTS EXCEPT ![x] = t]
    BY <1>2 DEF StampServer
  <2>2. t \in Nat
    OBVIOUS
  <2>3. QED
    BY <2>1, <2>2
<1>3. QED
  BY <1>1, <1>2

LEMMA RacingType ==
    ASSUME NEW x, NEW ts, NEW new \in SUBSET Messages,
           excused \in [Peers -> SUBSET Messages]
    PROVE  Racing(x, ts, new) \in [Peers -> SUBSET Messages]
BY DEF Racing

LEMMA AskedType ==
    /\ \A t \in Own : Asked(t) \in SUBSET Messages
    /\ \A t \in Incoming : Asked(t) \in SUBSET Messages
<1>1. \A t \in Own : t.announced \in Seq(Messages)
  BY DEF Own
<1>2. \A t \in Incoming : t.announced \in Seq(Messages)
  BY DEF Incoming
<1>3. \A s \in Seq(Messages) : Elements(s) \in SUBSET Messages
  BY DEF Elements
<1>4. QED
  BY <1>1, <1>2, <1>3 DEF Asked

(* The first of them, MaxRequest at most. *)
LEMMA FirstOf ==
    ASSUME NEW s \in Seq(Messages)
    PROVE  /\ Min({MaxRequest, Len(s)}) \in Nat
           /\ Min({MaxRequest, Len(s)}) <= Len(s)
           /\ SubSeq(s, 1, Min({MaxRequest, Len(s)})) \in Seq(Messages)
<1> DEFINE k == Min({MaxRequest, Len(s)})
<1>1. Len(s) \in Nat /\ MaxRequest \in Nat
  BY GxsAssumption
<1>2. \E a \in {MaxRequest, Len(s)} : \A b \in {MaxRequest, Len(s)} : a <= b
  BY <1>1
<1>3. k \in {MaxRequest, Len(s)} /\ \A b \in {MaxRequest, Len(s)} : k <= b
  BY <1>2 DEF Min
<1>4. k \in Nat /\ k <= Len(s)
  BY <1>1, <1>3
<1> HIDE DEF k
<1>5. \A i \in 1 .. k : s[i] \in Messages
  BY <1>1, <1>4, ElementOfSeq
<1>6. SubSeq(s, 1, k) \in Seq(Messages)
  BY <1>4, <1>5, SubSeqProperties
<1>7. QED
  BY <1>4, <1>6 DEF k

(***************************************************************************)
(* The parts of the type invariant, and what changes them                  *)
(***************************************************************************)

OwnOK(os) == DOMAIN os = Peers /\ \A x \in Peers : OwnTyped(os[x])
IncomingOK(gs) ==
    /\ DOMAIN gs = Peers
    /\ \A x \in Peers : DOMAIN gs[x] = Peers /\ \A y \in Peers : IncomingTyped(gs[x][y])
StampsOK ==
    /\ clock \in [Peers -> Nat] /\ serverTS \in [Peers -> Nat]
    /\ clientTS \in [Peers -> [Peers -> Nat]]
    /\ saved \in [Peers -> [server : Nat, client : [Peers -> Nat]]]
    /\ changed \in [Peers -> BOOLEAN] /\ partial \in [Peers -> SUBSET Peers]
ExchangeOK ==
    /\ store \in [Peers -> SUBSET Messages]
    /\ toNotify \in [Peers -> SUBSET Messages]
    /\ received \in [Peers -> SUBSET Messages]
    /\ pending \in [Peers -> SUBSET Messages]
    /\ rejected \in [Peers -> SUBSET Messages]
    /\ excused \in [Peers -> SUBSET Messages]

LEMMA TypeParts ==
    TypeOK <=> /\ OwnOK(own) /\ IncomingOK(incoming) /\ StampsOK /\ ExchangeOK
               /\ transN \in [Peers -> Nat] /\ wire \in Wires
BY DEF TypeOK, OwnOK, IncomingOK, StampsOK, ExchangeOK, OwnTyped, IncomingTyped, Wires

LEMMA TypePartsNext ==
    /\ OwnOK(own') /\ IncomingOK(incoming') /\ StampsOK' /\ ExchangeOK'
    /\ transN' \in [Peers -> Nat] /\ wire' \in Wires
    => TypeOK'
BY DEF TypeOK, OwnOK, IncomingOK, StampsOK, ExchangeOK, OwnTyped, IncomingTyped, Wires

LEMMA TypeInit == Init => TypeOK
<1> SUFFICES ASSUME Init PROVE TypeOK
  OBVIOUS
<1>1. OwnOK(own)
  BY DEF Init, OwnOK, OwnTyped, NoTransactions
<1>2. IncomingOK(incoming)
  BY DEF Init, IncomingOK, IncomingTyped, NoTransactions
<1>3. StampsOK
  BY DEF Init, StampsOK
<1>4. ExchangeOK
  BY DEF Init, ExchangeOK
<1>5. transN \in [Peers -> Nat] /\ wire \in Wires
  BY DEF Init, Wires
<1>6. QED
  BY <1>1, <1>2, <1>3, <1>4, <1>5, TypeParts

LEMMA OwnChanges ==
    ASSUME OwnOK(own), NEW x \in Peers, NEW n
    PROVE  /\ OwnOK([own EXCEPT ![x] = Without(@, n)])
           /\ n \in DOMAIN own[x] => \A v \in Own : OwnOK([own EXCEPT ![x][n] = v])
<1>1. OwnTyped(Without(own[x], n))
  BY DEF OwnOK, OwnTyped, Without
<1>2. ASSUME n \in DOMAIN own[x], NEW v \in Own
      PROVE  OwnTyped([own[x] EXCEPT ![n] = v])
  BY <1>2 DEF OwnOK, OwnTyped
<1>3. QED
  BY <1>1, <1>2 DEF OwnOK

LEMMA IncomingChanges ==
    ASSUME IncomingOK(incoming), NEW x \in Peers, NEW y \in Peers, NEW n
    PROVE  /\ IncomingOK([incoming EXCEPT ![x][y] = Without(@, n)])
           /\ n \in DOMAIN incoming[x][y] =>
                 \A v \in Incoming : IncomingOK([incoming EXCEPT ![x][y][n] = v])
           /\ n \in Nat =>
                 \A v \in Incoming : IncomingOK([incoming EXCEPT ![x][y] = With(@, n, v)])
<1>1. IncomingTyped(Without(incoming[x][y], n))
  BY DEF IncomingOK, IncomingTyped, Without
<1>2. ASSUME n \in DOMAIN incoming[x][y], NEW v \in Incoming
      PROVE  IncomingTyped([incoming[x][y] EXCEPT ![n] = v])
  BY <1>2 DEF IncomingOK, IncomingTyped
<1>3. ASSUME n \in Nat, NEW v \in Incoming
      PROVE  IncomingTyped(With(incoming[x][y], n, v))
  BY <1>3 DEF IncomingOK, IncomingTyped, With
<1>4. ASSUME NEW g, IncomingTyped(g)
      PROVE  IncomingOK([incoming EXCEPT ![x][y] = g])
  BY <1>4 DEF IncomingOK
<1>5. QED
  BY <1>1, <1>2, <1>3, <1>4

LEMMA OpenKeepsTypes ==
    ASSUME NEW w \in Wires, NEW x \in Peers, NEW y \in Peers,
           NEW type \in Types, NEW items \in Seq(Messages), NEW ts \in Nat,
           transN \in [Peers -> Nat], OwnOK(own),
           Open(w, x, y, type, items, ts)
    PROVE  transN' \in [Peers -> Nat] /\ wire' \in Wires /\ OwnOK(own')
<1>1. DOMAIN own = Peers /\ OwnTyped(own[x])
  BY DEF OwnOK
<1>2. /\ transN' \in [Peers -> Nat] /\ wire' \in Wires
      /\ DOMAIN own' = Peers /\ OwnTyped(own'[x])
      /\ \A z \in Peers \ {x} : own'[z] = own[z]
  BY <1>1, OpenType
<1>3. QED
  BY <1>2 DEF OwnOK

LEMMA ToldType ==
    ASSUME wire \in Wires, NEW x \in Peers, NEW y \in Peers, NEW n \in Nat
    PROVE  /\ Told(x, y, n) \in Wires
           /\ Sent(wire, x, y, <<[kind |-> "begin2", n |-> n]>>) \in Wires
<1>1. [kind |-> "begin2", n |-> n] \in Item /\ [kind |-> "end", n |-> n] \in Item
  BY ItemTypes
<1>2. \A i \in Item : <<i>> \in Seq(Item)
  OBVIOUS
<1>3. \A i \in Item : Sent(wire, x, y, <<i>>) \in Wires
  BY <1>2, SentType
<1>4. QED
  BY <1>1, <1>3 DEF Told

(* The items of a transaction. *)
Items(n, s) == [i \in DOMAIN s |-> [kind |-> "item", n |-> n, message |-> s[i]]]

LEMMA ItemsType ==
    ASSUME NEW n \in Nat, NEW s \in Seq(Messages)
    PROVE  /\ Items(n, s) \in Seq(Item) /\ Len(Items(n, s)) = Len(s)
           /\ \A i \in 1 .. Len(s) : /\ Items(n, s)[i].kind = "item"
                                     /\ Items(n, s)[i].n = n
                                     /\ Items(n, s)[i].message = s[i]
<1>1. DOMAIN s = 1 .. Len(s) /\ Len(s) \in Nat /\ \A i \in 1 .. Len(s) : s[i] \in Messages
  BY LenProperties, ElementOfSeq
<1>2. \A i \in 1 .. Len(s) : [kind |-> "item", n |-> n, message |-> s[i]] \in Item
  BY <1>1, ItemTypes
<1>3. Items(n, s) \in [1 .. Len(s) -> Item]
  BY <1>1, <1>2 DEF Items
<1>4. Items(n, s) \in Seq(Item)
  BY <1>1, <1>3
<1>5. Len(Items(n, s)) = Len(s)
  BY <1>1, <1>3, <1>4, LenProperties
<1>6. QED
  BY <1>1, <1>4, <1>5 DEF Items

(***************************************************************************)
(* Every step keeps the types                                              *)
(***************************************************************************)

LEMMA TypeStep == TypeOK /\ NotToSelf /\ [Next]_vars => TypeOK'
<1> SUFFICES ASSUME TypeOK, NotToSelf, [Next]_vars
             PROVE  TypeOK'
  OBVIOUS
<1> DEFINE Goal == /\ OwnOK(own') /\ IncomingOK(incoming') /\ StampsOK' /\ ExchangeOK'
                   /\ transN' \in [Peers -> Nat] /\ wire' \in Wires
<1>goal. Goal => TypeOK'
  BY TypePartsNext
<1>types. /\ OwnOK(own) /\ IncomingOK(incoming) /\ StampsOK /\ ExchangeOK
          /\ transN \in [Peers -> Nat] /\ wire \in Wires
  BY TypeParts
<1>same. /\ UNCHANGED own => OwnOK(own')
         /\ UNCHANGED incoming => IncomingOK(incoming')
         /\ UNCHANGED stamps => StampsOK'
         /\ UNCHANGED <<store, toNotify, received, pending, rejected, excused>>
               => ExchangeOK'
         /\ UNCHANGED transN => transN' \in [Peers -> Nat]
         /\ UNCHANGED wire => wire' \in Wires
  BY <1>types DEF StampsOK, ExchangeOK, stamps
<1>ex. /\ store \in [Peers -> SUBSET Messages]
       /\ toNotify \in [Peers -> SUBSET Messages]
       /\ received \in [Peers -> SUBSET Messages]
       /\ pending \in [Peers -> SUBSET Messages]
       /\ rejected \in [Peers -> SUBSET Messages]
       /\ excused \in [Peers -> SUBSET Messages]
  BY <1>types DEF ExchangeOK
<1>st. /\ clock \in [Peers -> Nat] /\ serverTS \in [Peers -> Nat]
       /\ clientTS \in [Peers -> [Peers -> Nat]]
       /\ saved \in [Peers -> [server : Nat, client : [Peers -> Nat]]]
       /\ changed \in [Peers -> BOOLEAN] /\ partial \in [Peers -> SUBSET Peers]
  BY <1>types DEF StampsOK
<1>own. /\ DOMAIN own = Peers
        /\ \A x \in Peers : \A n \in DOMAIN own[x] : n \in Nat /\ own[x][n] \in Own
  BY <1>types DEF OwnOK, OwnTyped
<1>in. /\ DOMAIN incoming = Peers
       /\ \A x, y \in Peers : \A n \in DOMAIN incoming[x][y] :
             n \in Nat /\ incoming[x][y][n] \in Incoming
  BY <1>types DEF IncomingOK, IncomingTyped
<1>stamped. ASSUME NEW x \in Peers, NEW y \in Peers, NEW ts \in Nat
            PROVE  /\ [clientTS EXCEPT ![x][y] = ts] \in [Peers -> [Peers -> Nat]]
                   /\ [changed EXCEPT ![x] = TRUE] \in [Peers -> BOOLEAN]
  BY <1>st
<1>server. ASSUME NEW x \in Peers, StampServer(x),
                  clientTS' \in [Peers -> [Peers -> Nat]],
                  changed' \in [Peers -> BOOLEAN], UNCHANGED <<saved, partial>>
           PROVE  StampsOK'
  <2>1. clock' \in [Peers -> Nat] /\ serverTS' \in [Peers -> Nat]
    BY <1>st, <1>server, StampServerType
  <2>2. saved' = saved /\ partial' = partial
    BY <1>server
  <2>3. QED
    BY <1>st, <1>server, <2>1, <2>2 DEF StampsOK
<1>1. ASSUME NEW x \in Peers, NEW m \in Messages, Publish(x, m)
      PROVE  Goal
  <2>1. /\ store' = [store EXCEPT ![x] = @ \cup {m}] /\ StampServer(x)
        /\ excused' = Racing(x, serverTS'[x], {m})
        /\ UNCHANGED <<clientTS, saved, changed, partial, transN, own, incoming,
                       toNotify, received, pending, rejected, wire>>
    BY <1>1 DEF Publish, exchange
  <2>2. StampsOK'
    BY <1>server, <1>st, <2>1
  <2>3. {m} \in SUBSET Messages
    OBVIOUS
  <2>4. excused' \in [Peers -> SUBSET Messages]
    BY <1>ex, <2>1, <2>3, RacingType
  <2>5. store' \in [Peers -> SUBSET Messages]
    BY <1>ex, <2>1
  <2>6. ExchangeOK'
    BY <1>ex, <2>1, <2>4, <2>5 DEF ExchangeOK
  <2>7. QED
    BY <1>same, <2>1, <2>2, <2>6
<1>2. ASSUME NEW x \in Peers, NEW y \in Peers, Sync(x, y)
      PROVE  Goal
  <2>1. /\ wire' = Sent(wire, x, y, <<[kind |-> "sync", ts |-> clientTS[x][y]]>>)
        /\ UNCHANGED <<store, stamps, transN, own, incoming, toNotify, received,
                       pending, rejected, excused>>
    BY <1>2 DEF Sync, exchange
  <2>2. [kind |-> "sync", ts |-> clientTS[x][y]] \in Item
    BY <1>st, ItemTypes
  <2>3. <<[kind |-> "sync", ts |-> clientTS[x][y]]>> \in Seq(Item)
    BY <2>2
  <2>4. wire' \in Wires
    BY <1>types, <2>1, <2>3, SentType
  <2>5. QED
    BY <1>same, <2>1, <2>4
<1>3. ASSUME NEW x \in Peers, NEW y \in Peers, RecvSync(x, y)
      PROVE  Goal
  <2>1. wire[y][x] # <<>> /\ Taken(x, y) \in Wires
    BY <1>3, <1>types, TakenType DEF RecvSync, Arrives
  <2>2. /\ UNCHANGED <<store, stamps, incoming, toNotify, received, pending,
                       rejected, excused>>
        /\ \/ Open(Taken(x, y), x, y, "list", SetToSeq(store[x]), serverTS[x])
           \/ wire' = Taken(x, y) /\ UNCHANGED <<transN, own>>
    BY <1>3 DEF RecvSync, exchange
  <2>3. SetToSeq(store[x]) \in Seq(Messages) /\ serverTS[x] \in Nat /\ "list" \in Types
    <3>1. store[x] \subseteq Messages /\ IsFiniteSet(Messages)
      BY <1>ex, GxsAssumption
    <3>2. IsFiniteSet(store[x])
      BY <3>1, FS_Subset
    <3>3. SetToSeq(store[x]) \in Seq(store[x])
      BY <3>2, ListOfSet
    <3>4. SetToSeq(store[x]) \in Seq(Messages)
      BY <3>1, <3>3, SeqMonotonic
    <3>5. QED
      BY <1>st, <3>4 DEF Types
  <2>4. CASE Open(Taken(x, y), x, y, "list", SetToSeq(store[x]), serverTS[x])
    BY <1>same, <1>types, <2>1, <2>2, <2>3, <2>4, OpenKeepsTypes
  <2>5. CASE wire' = Taken(x, y) /\ UNCHANGED <<transN, own>>
    BY <1>same, <2>1, <2>2, <2>5
  <2>6. QED
    BY <2>2, <2>4, <2>5
<1>4. ASSUME NEW x \in Peers, NEW y \in Peers, RecvBegin1(x, y)
      PROVE  Goal
  <2> DEFINE b == Head(wire[y][x])
             t == [type |-> b.type, announced |-> b.announced, ts |-> b.ts,
                   got |-> <<>>, state |-> "starting"]
  <2>1. Taken(x, y) \in Wires /\ b \in Item /\ b.kind = "begin1"
    BY <1>4, <1>types, TakenType DEF RecvBegin1, Arrives
  <2>2. /\ wire' = Taken(x, y)
        /\ incoming' = IF b.n \in DOMAIN incoming[x][y] THEN incoming
                       ELSE [incoming EXCEPT ![x][y] = With(@, b.n, t)]
        /\ UNCHANGED <<store, stamps, transN, own, toNotify, received, pending,
                       rejected, excused>>
    BY <1>4 DEF RecvBegin1, exchange
  <2>3. /\ b.n \in Nat /\ b.type \in Types /\ b.announced \in Seq(Messages)
        /\ b.ts \in Nat
    BY <2>1, ItemTypes
  <2>4. t \in Incoming
    BY <2>3 DEF Incoming
  <2> HIDE DEF t, b
  <2>5. IncomingOK(incoming')
    BY <1>types, <2>2, <2>3, <2>4, IncomingChanges
  <2>6. QED
    BY <1>same, <2>1, <2>2, <2>5
<1>5. ASSUME NEW x \in Peers, NEW y \in Peers, RecvItem(x, y)
      PROVE  Goal
  <2> DEFINE i == Head(wire[y][x])
             t == incoming[x][y][i.n]
             new == [t EXCEPT !.got = Append(@, i.message)]
  <2>1. Taken(x, y) \in Wires /\ i \in Item /\ i.kind = "item"
    BY <1>5, <1>types, TakenType DEF RecvItem, Arrives
  <2>2. /\ wire' = Taken(x, y)
        /\ incoming' = IF i.n \notin DOMAIN incoming[x][y] THEN incoming
                       ELSE [incoming EXCEPT ![x][y][i.n] = new]
        /\ UNCHANGED <<store, stamps, transN, own, toNotify, received, pending,
                       rejected, excused>>
    BY <1>5, <1>in, <1>types DEF RecvItem, exchange, IncomingOK
  <2>3. i.message \in Messages
    BY <2>1, ItemTypes
  <2>4. i.n \in DOMAIN incoming[x][y] => new \in Incoming
    <3> HIDE DEF i
    <3>1. i.n \in DOMAIN incoming[x][y] => t \in Incoming
      BY <1>in
    <3> HIDE DEF t
    <3>2. t \in Incoming => new \in Incoming
      BY SMTT(30), <2>3 DEF Incoming
    <3>3. QED
      BY <3>1, <3>2
  <2> HIDE DEF i, new
  <2>5. IncomingOK(incoming')
    BY <1>types, <2>2, <2>4, IncomingChanges
  <2>6. QED
    BY <1>same, <2>1, <2>2, <2>5
<1>6. ASSUME NEW x \in Peers, NEW y \in Peers, RecvReply(x, y)
      PROVE  Goal
  <2> DEFINE r == Head(wire[y][x])
             t == own[x][r.n]
             new == [t EXCEPT !.state = IF r.kind = "end" THEN "completed" ELSE "sending"]
  <2>1. Taken(x, y) \in Wires
    BY <1>6, <1>types, TakenType DEF RecvReply, Arrives
  <2>2. /\ wire' = Taken(x, y)
        /\ own' = IF r.n \notin DOMAIN own[x] THEN own
                  ELSE [own EXCEPT ![x][r.n] = new]
        /\ UNCHANGED <<store, stamps, transN, incoming, toNotify, received,
                       pending, rejected, excused>>
    BY <1>6, <1>own DEF RecvReply, exchange
  <2>3. r.n \in DOMAIN own[x] => new \in Own
    <3> HIDE DEF r
    <3>1. r.n \in DOMAIN own[x] => t \in Own
      BY <1>own
    <3> HIDE DEF t
    <3>2. t \in Own => new \in Own
      BY DEF Own
    <3>3. QED
      BY <3>1, <3>2
  <2> HIDE DEF r, new
  <2>4. OwnOK(own')
    BY <1>types, <2>2, <2>3, OwnChanges
  <2>5. QED
    BY <1>same, <2>1, <2>2, <2>4
<1>7. ASSUME NEW x \in Peers, NEW n \in DOMAIN own[x], OwnTick(x, n)
      PROVE  Goal
  <2> DEFINE t == own[x][n]
             new == [t EXCEPT !.held = FALSE, !.state = "waiting"]
  <2>0. n \in Nat /\ t \in Own
    BY <1>own
  <2>1. t.to \in Peers /\ t.announced \in Seq(Messages)
    BY <2>0 DEF Own
  <2>2. /\ UNCHANGED <<store, stamps, transN, incoming, toNotify, received,
                       pending, rejected, excused>>
        /\ \/ /\ wire' = IF t.held THEN Sent(wire, x, t.to, Items(n, t.announced))
                         ELSE wire
              /\ own' = [own EXCEPT ![x][n].held = FALSE, ![x][n].state = "waiting"]
           \/ own' = [own EXCEPT ![x] = Without(@, n)] /\ UNCHANGED wire
    <3>1. t.state \in {"sending", "completed"}
      BY <1>7, <2>0 DEF OwnTick, Own
    <3>2. QED
      BY <1>7, <3>1 DEF OwnTick, exchange, Items
  <2>3. CASE /\ wire' = IF t.held THEN Sent(wire, x, t.to, Items(n, t.announced))
                        ELSE wire
             /\ own' = [own EXCEPT ![x][n].held = FALSE, ![x][n].state = "waiting"]
    <3>1. own' = [own EXCEPT ![x][n] = new]
      BY <1>own, <2>3
    <3> HIDE DEF t
    <3>2. new \in Own
      BY <2>0 DEF Own
    <3>3. Items(n, t.announced) \in Seq(Item)
      BY <2>0, <2>1, ItemsType
    <3>4. wire' \in Wires
      BY <1>types, <2>1, <2>3, <3>3, SentType
    <3> HIDE DEF new
    <3>5. OwnOK(own')
      BY <1>types, <3>1, <3>2, OwnChanges
    <3>6. QED
      BY <1>same, <2>2, <3>4, <3>5
  <2>4. CASE own' = [own EXCEPT ![x] = Without(@, n)] /\ UNCHANGED wire
    BY <1>same, <1>types, <2>2, <2>4, OwnChanges
  <2>5. QED
    BY <2>2, <2>3, <2>4
<1>8. ASSUME NEW x \in Peers, NEW y \in Peers, NEW n \in DOMAIN incoming[x][y],
             Start(x, y, n) \/ AllReceived(x, y, n)
      PROVE  Goal
  <2> DEFINE t == incoming[x][y][n]
             new(s) == [t EXCEPT !.state = s]
  <2>0. n \in Nat /\ t \in Incoming
    BY <1>in
  <2>1. \A s \in {"receiving", "completed"} : new(s) \in Incoming
    <3> HIDE DEF t
    <3>1. QED
      BY <2>0 DEF Incoming
  <2>2. \E s \in {"receiving", "completed"} : incoming' = [incoming EXCEPT ![x][y][n] = new(s)]
    BY <1>8, <1>in, <1>types DEF Start, AllReceived, IncomingOK
  <2>3. IncomingOK(incoming')
    <3>1. \A v \in Incoming : IncomingOK([incoming EXCEPT ![x][y][n] = v])
      BY <1>types, IncomingChanges
    <3> HIDE DEF new
    <3>2. QED
      BY <2>1, <2>2, <3>1
  <2>4. /\ UNCHANGED <<store, stamps, transN, own, toNotify, received, pending,
                       rejected, excused>>
        /\ wire' \in {wire, Sent(wire, x, y, <<[kind |-> "begin2", n |-> n]>>)}
    BY <1>8 DEF Start, AllReceived, exchange
  <2>5. wire' \in Wires
    BY <1>types, <2>0, <2>4, ToldType
  <2>6. QED
    BY <1>same, <2>3, <2>4, <2>5
<1>finish. ASSUME NEW x \in Peers, NEW y \in Peers, NEW n \in DOMAIN incoming[x][y],
                  NEW type, Finish(x, y, n, type)
           PROVE  /\ IncomingOK(incoming') /\ Told(x, y, n) \in Wires
                  /\ n \in Nat /\ incoming[x][y][n].got \in Seq(Messages)
                  /\ incoming[x][y][n].ts \in Nat
  <2>1. n \in Nat /\ incoming[x][y][n] \in Incoming
    BY <1>in
  <2>2. incoming[x][y][n].got \in Seq(Messages) /\ incoming[x][y][n].ts \in Nat
    BY <2>1 DEF Incoming
  <2>3. incoming' = [incoming EXCEPT ![x][y] = Without(@, n)]
    BY <1>finish DEF Finish
  <2>4. QED
    BY <1>types, <2>1, <2>2, <2>3, IncomingChanges, ToldType
<1>9. ASSUME NEW x \in Peers, NEW y \in Peers, NEW n \in DOMAIN incoming[x][y],
             FinishList(x, y, n)
      PROVE  Goal
  <2> DEFINE t == incoming[x][y][n]
             wanted == Kept(t.got, Messages \ (store[x] \cup rejected[x]))
             asked == SubSeq(wanted, 1, Min({MaxRequest, Len(wanted)}))
  <2>1. Finish(x, y, n, "list")
    BY <1>9 DEF FinishList
  <2>2. /\ IncomingOK(incoming') /\ Told(x, y, n) \in Wires
        /\ t.got \in Seq(Messages) /\ t.ts \in Nat
    BY <1>finish, <2>1
  <2>3. asked \in Seq(Messages)
    BY <2>2, KeptIsKept, FirstOf
  <2>4. /\ UNCHANGED <<store, clock, serverTS, saved, toNotify, received, pending,
                       rejected, excused>>
        /\ \/ /\ Open(Told(x, y, n), x, y, "request", asked, 0)
              /\ \/ partial' = [partial EXCEPT ![x] = @ \cup {y}]
                 \/ partial' = [partial EXCEPT ![x] = @ \ {y}]
              /\ UNCHANGED <<clientTS, changed>>
           \/ /\ clientTS' = [clientTS EXCEPT ![x][y] = t.ts]
              /\ changed' = [changed EXCEPT ![x] = TRUE]
              /\ wire' = Told(x, y, n)
              /\ UNCHANGED <<transN, own, partial>>
    BY <1>9 DEF FinishList, exchange
  <2> HIDE DEF asked, t
  <2>5. ExchangeOK'
    BY <1>same, <2>4
  <2>6. CASE /\ Open(Told(x, y, n), x, y, "request", asked, 0)
             /\ \/ partial' = [partial EXCEPT ![x] = @ \cup {y}]
                \/ partial' = [partial EXCEPT ![x] = @ \ {y}]
             /\ UNCHANGED <<clientTS, changed>>
    <3>1. partial' \in [Peers -> SUBSET Peers]
      <4>1. partial \in [Peers -> SUBSET Peers]
        BY <1>st
      <4>2. /\ [partial EXCEPT ![x] = @ \cup {y}] \in [Peers -> SUBSET Peers]
            /\ [partial EXCEPT ![x] = @ \ {y}] \in [Peers -> SUBSET Peers]
        BY <4>1
      <4>3. QED
        BY <2>6, <4>2
    <3>2. StampsOK'
      BY <1>st, <2>4, <2>6, <3>1 DEF StampsOK
    <3>3. "request" \in Types /\ 0 \in Nat
      BY DEF Types
    <3>4. QED
      BY <1>types, <2>2, <2>3, <2>5, <2>6, <3>2, <3>3, OpenKeepsTypes
  <2>7. CASE /\ clientTS' = [clientTS EXCEPT ![x][y] = t.ts]
             /\ changed' = [changed EXCEPT ![x] = TRUE]
             /\ wire' = Told(x, y, n)
             /\ UNCHANGED <<transN, own, partial>>
    <3>1. clientTS' \in [Peers -> [Peers -> Nat]] /\ changed' \in [Peers -> BOOLEAN]
      BY <1>stamped, <2>2, <2>7
    <3>2. StampsOK'
      BY <1>st, <2>4, <2>7, <3>1 DEF StampsOK
    <3>3. QED
      BY <1>same, <2>2, <2>5, <2>7, <3>2
  <2>8. QED
    BY <2>4, <2>6, <2>7
<1>10. ASSUME NEW x \in Peers, NEW y \in Peers, NEW n \in DOMAIN incoming[x][y],
              FinishRequest(x, y, n)
       PROVE  Goal
  <2> DEFINE found == Kept(incoming[x][y][n].got, store[x])
  <2>1. Finish(x, y, n, "request")
    BY <1>10 DEF FinishRequest
  <2>2. /\ IncomingOK(incoming') /\ Told(x, y, n) \in Wires
        /\ incoming[x][y][n].got \in Seq(Messages)
    BY <1>finish, <2>1
  <2>3. found \in Seq(Messages)
    BY <2>2, KeptIsKept
  <2>4. /\ UNCHANGED <<store, stamps, toNotify, received, pending, rejected, excused>>
        /\ \/ Open(Told(x, y, n), x, y, "messages", found, serverTS[x])
           \/ wire' = Told(x, y, n) /\ UNCHANGED <<transN, own>>
    BY <1>10 DEF FinishRequest, exchange
  <2> HIDE DEF found
  <2>5. serverTS[x] \in Nat /\ "messages" \in Types
    BY <1>st DEF Types
  <2>6. CASE Open(Told(x, y, n), x, y, "messages", found, serverTS[x])
    BY <1>same, <1>types, <2>2, <2>3, <2>4, <2>5, <2>6, OpenKeepsTypes
  <2>7. CASE wire' = Told(x, y, n) /\ UNCHANGED <<transN, own>>
    BY <1>same, <2>2, <2>4, <2>7
  <2>8. QED
    BY <2>4, <2>6, <2>7
<1>11. ASSUME NEW x \in Peers, NEW y \in Peers, NEW n \in DOMAIN incoming[x][y],
              FinishMessages(x, y, n)
       PROVE  Goal
  <2> DEFINE t == incoming[x][y][n]
  <2>1. Finish(x, y, n, "messages")
    BY <1>11 DEF FinishMessages
  <2>2. /\ IncomingOK(incoming') /\ Told(x, y, n) \in Wires
        /\ t.got \in Seq(Messages) /\ t.ts \in Nat
    BY <1>finish, <2>1
  <2>3. /\ toNotify' = [toNotify EXCEPT ![x] = @ \cup Elements(t.got)]
        /\ \/ UNCHANGED <<clientTS, changed>>
           \/ /\ clientTS' = [clientTS EXCEPT ![x][y] = t.ts]
              /\ changed' = [changed EXCEPT ![x] = TRUE]
        /\ StampServer(x) /\ wire' = Told(x, y, n)
        /\ UNCHANGED <<store, saved, partial, transN, own, received, pending,
                       rejected, excused>>
    BY <1>11 DEF FinishMessages
  <2> HIDE DEF t
  <2>4. clientTS' \in [Peers -> [Peers -> Nat]] /\ changed' \in [Peers -> BOOLEAN]
    <3>1. CASE UNCHANGED <<clientTS, changed>>
      <4>1. clientTS' = clientTS /\ changed' = changed
        BY <3>1
      <4>2. clientTS \in [Peers -> [Peers -> Nat]] /\ changed \in [Peers -> BOOLEAN]
        BY <1>st
      <4>3. QED
        BY <4>1, <4>2
    <3>2. CASE /\ clientTS' = [clientTS EXCEPT ![x][y] = t.ts]
               /\ changed' = [changed EXCEPT ![x] = TRUE]
      BY <1>stamped, <2>2, <3>2
    <3>3. QED
      BY <2>3, <3>1, <3>2
  <2>5. StampsOK'
    BY <1>server, <2>3, <2>4
  <2>6. Elements(t.got) \subseteq Messages
    BY <2>2 DEF Elements
  <2>7. toNotify' \in [Peers -> SUBSET Messages]
    BY <1>ex, <2>3, <2>6
  <2>8. ExchangeOK'
    BY <1>ex, <2>3, <2>7 DEF ExchangeOK
  <2>9. QED
    BY <1>same, <2>2, <2>3, <2>5, <2>8
<1>12. ASSUME NEW x \in Peers, NEW n \in DOMAIN own[x], OwnTimeout(x, n)
       PROVE  Goal
  <2> DEFINE t == own[x][n]
  <2>1. t \in Own
    BY <1>own
  <2>2. \E z \in Peers : excused' = [excused EXCEPT ![z] = @ \cup Asked(t)]
    <3>1. t.to \in Peers
      BY <2>1 DEF Own
    <3>2. QED
      BY <1>12, <3>1 DEF OwnTimeout
  <2>3. /\ own' = [own EXCEPT ![x] = Without(@, n)]
        /\ UNCHANGED <<store, stamps, transN, incoming, toNotify, received,
                       pending, rejected, wire>>
    BY <1>12 DEF OwnTimeout, exchange
  <2> HIDE DEF t
  <2>4. excused' \in [Peers -> SUBSET Messages]
    <3>1. Asked(t) \in SUBSET Messages
      BY <2>1, AskedType
    <3>2. QED
      BY <1>ex, <2>2, <3>1
  <2>5. ExchangeOK'
    BY <1>ex, <2>3, <2>4 DEF ExchangeOK
  <2>6. OwnOK(own')
    BY <1>types, <2>3, OwnChanges
  <2>7. QED
    BY <1>same, <2>3, <2>5, <2>6
<1>13. ASSUME NEW x \in Peers, NEW y \in Peers, NEW n \in DOMAIN incoming[x][y],
              IncomingTimeout(x, y, n)
       PROVE  Goal
  <2> DEFINE t == incoming[x][y][n]
  <2>1. t \in Incoming
    BY <1>in
  <2>2. \E z \in Peers : excused' = [excused EXCEPT ![z] = @ \cup Asked(t)]
    BY <1>13 DEF IncomingTimeout
  <2>3. /\ incoming' = [incoming EXCEPT ![x][y] = Without(@, n)]
        /\ UNCHANGED <<store, stamps, transN, own, toNotify, received, pending,
                       rejected, wire>>
    BY <1>13 DEF IncomingTimeout, exchange
  <2> HIDE DEF t
  <2>4. excused' \in [Peers -> SUBSET Messages]
    <3>1. Asked(t) \in SUBSET Messages
      BY <2>1, AskedType
    <3>2. QED
      BY <1>ex, <2>2, <3>1
  <2>5. ExchangeOK'
    BY <1>ex, <2>3, <2>4 DEF ExchangeOK
  <2>6. IncomingOK(incoming')
    BY <1>types, <2>3, IncomingChanges
  <2>7. QED
    BY <1>same, <2>3, <2>5, <2>6
<1>14. ASSUME NEW x \in Peers, Notify(x) \/ ProcessReceived(x) \/ Save(x)
       PROVE  Goal
  <2>1. CASE Notify(x)
    <3>1. /\ toNotify' = [toNotify EXCEPT ![x] = {}]
          /\ received' = [received EXCEPT ![x] = @ \cup (toNotify[x] \ pending[x])]
          /\ UNCHANGED <<store, stamps, transN, own, incoming, pending, rejected,
                         wire, excused>>
      BY <2>1 DEF Notify
    <3>2. toNotify' \in [Peers -> SUBSET Messages] /\ received' \in [Peers -> SUBSET Messages]
      BY <1>ex, <3>1
    <3>3. ExchangeOK'
      BY <1>ex, <3>1, <3>2 DEF ExchangeOK
    <3>4. QED
      BY <1>same, <3>1, <3>3
  <2>2. CASE ProcessReceived(x)
    <3>1. PICK expired \in SUBSET pending[x] :
            LET tried == received[x] \cup (pending[x] \ expired)
            IN \E later \in SUBSET (tried \ Invalid) :
              LET new == (tried \ (Invalid \cup later)) \ store[x]
              IN /\ store' = [store EXCEPT ![x] = @ \cup new]
                 /\ received' = [received EXCEPT ![x] = {}]
                 /\ pending' = [pending EXCEPT ![x] = later]
                 /\ rejected' = [rejected EXCEPT ![x] = @ \cup (tried \cap Invalid)]
                 /\ excused' = [Racing(x, serverTS[x], new)
                                   EXCEPT ![x] = @ \cup expired]
                 /\ UNCHANGED <<stamps, transN, own, incoming, toNotify, wire>>
      BY <2>2 DEF ProcessReceived
    <3> DEFINE tried == received[x] \cup (pending[x] \ expired)
    <3>2. PICK later \in SUBSET (tried \ Invalid) :
              LET new == (tried \ (Invalid \cup later)) \ store[x]
              IN /\ store' = [store EXCEPT ![x] = @ \cup new]
                 /\ received' = [received EXCEPT ![x] = {}]
                 /\ pending' = [pending EXCEPT ![x] = later]
                 /\ rejected' = [rejected EXCEPT ![x] = @ \cup (tried \cap Invalid)]
                 /\ excused' = [Racing(x, serverTS[x], new)
                                   EXCEPT ![x] = @ \cup expired]
                 /\ UNCHANGED <<stamps, transN, own, incoming, toNotify, wire>>
      BY <3>1
    <3> DEFINE new == (tried \ (Invalid \cup later)) \ store[x]
    <3>3. tried \in SUBSET Messages /\ expired \in SUBSET Messages
      BY <1>ex
    <3>4. new \in SUBSET Messages /\ later \in SUBSET Messages
      BY <3>3
    <3>5. /\ store' = [store EXCEPT ![x] = @ \cup new]
          /\ received' = [received EXCEPT ![x] = {}]
          /\ pending' = [pending EXCEPT ![x] = later]
          /\ rejected' = [rejected EXCEPT ![x] = @ \cup (tried \cap Invalid)]
          /\ excused' = [Racing(x, serverTS[x], new) EXCEPT ![x] = @ \cup expired]
          /\ UNCHANGED <<stamps, transN, own, incoming, toNotify, wire>>
      BY <3>2
    <3> HIDE DEF tried, new
    <3>6. excused' \in [Peers -> SUBSET Messages]
      <4>1. Racing(x, serverTS[x], new) \in [Peers -> SUBSET Messages]
        BY <1>ex, <3>4, RacingType
      <4>2. QED
        BY <3>3, <3>5, <4>1
    <3>7. store' \in [Peers -> SUBSET Messages] /\ received' \in [Peers -> SUBSET Messages]
      BY <1>ex, <3>4, <3>5
    <3>8. pending' \in [Peers -> SUBSET Messages] /\ rejected' \in [Peers -> SUBSET Messages]
      BY <1>ex, <3>3, <3>4, <3>5
    <3>9. ExchangeOK'
      BY <1>ex, <3>5, <3>6, <3>7, <3>8 DEF ExchangeOK
    <3>10. QED
      BY <1>same, <3>5, <3>9
  <2>3. CASE Save(x)
    <3>1. /\ changed' = [changed EXCEPT ![x] = FALSE]
          /\ saved' = [saved EXCEPT ![x] = [server |-> serverTS[x],
                                            client |-> clientTS[x]]]
          /\ UNCHANGED <<store, clock, serverTS, clientTS, partial, transN, own,
                         incoming, toNotify, received, pending, rejected, wire,
                         excused>>
      BY <2>3 DEF Save, exchange
    <3>2. /\ changed' \in [Peers -> BOOLEAN]
          /\ saved' \in [Peers -> [server : Nat, client : [Peers -> Nat]]]
      BY <1>st, <3>1
    <3>3. StampsOK'
      BY <1>st, <3>1, <3>2 DEF StampsOK
    <3>4. QED
      BY <1>same, <3>1, <3>3
  <2>4. QED
    BY <1>14, <2>1, <2>2, <2>3
<1>15. ASSUME NEW x \in Peers, NEW y \in Peers, Disconnect(x, y) \/ Connect(x, y)
       PROVE  Goal
  <2>1. UNCHANGED <<store, stamps, transN, own, incoming, toNotify, received,
                    pending, rejected, excused>>
    BY <1>15 DEF Disconnect, Connect, exchange
  <2>2. wire' \in Wires
    <3>1. CASE Connect(x, y)
      BY <1>same, <3>1 DEF Connect
    <3>2. CASE Disconnect(x, y)
      <4>1. PICK i \in 0 .. Len(wire[x][y]), j \in 0 .. Len(wire[y][x]) :
              wire' = [wire EXCEPT ![x][y] = SubSeq(@, 1, i), ![y][x] = SubSeq(@, 1, j)]
        BY <3>2 DEF Disconnect
      <4>2. x # y
        BY <3>2 DEF Disconnect, Connected, NotToSelf
      <4>3. wire[x][y] \in Seq(Item) /\ wire[y][x] \in Seq(Item)
        BY <1>types DEF Wires
      <4>4. /\ i \in Int /\ \A k \in 1 .. i : wire[x][y][k] \in Item
            /\ j \in Int /\ \A k \in 1 .. j : wire[y][x][k] \in Item
        BY <4>3, LenProperties, ElementOfSeq
      <4>5. SubSeq(wire[x][y], 1, i) \in Seq(Item) /\ SubSeq(wire[y][x], 1, j) \in Seq(Item)
        BY <4>4, SubSeqProperties
      <4>6. wire' = [wire EXCEPT ![x][y] = SubSeq(wire[x][y], 1, i),
                                 ![y][x] = SubSeq(wire[y][x], 1, j)]
        BY <4>1, <4>2, <1>types DEF Wires
      <4>7. QED
        BY <1>types, <4>5, <4>6 DEF Wires
    <3>3. QED
      BY <1>15, <3>1, <3>2
  <2>3. QED
    BY <1>same, <2>1, <2>2
<1>16. ASSUME NEW x \in Peers, Crash(x)
       PROVE  Goal
  <2>1. /\ wire' = [y \in Peers |-> [z \in Peers |->
                      IF z = x \/ y = x THEN <<>> ELSE wire[y][z]]]
        /\ transN' = [transN EXCEPT ![x] = 0]
        /\ own' = [own EXCEPT ![x] = NoTransactions]
        /\ incoming' = [incoming EXCEPT ![x] = [y \in Peers |-> NoTransactions]]
    BY <1>16 DEF Crash
  <2>2. wire' \in Wires /\ transN' \in [Peers -> Nat]
    <3>1. \A y, z \in Peers : wire[y][z] \in Seq(Item)
      BY <1>types DEF Wires
    <3>2. wire' \in [Peers -> [Peers -> Seq(Item)]]
      BY <2>1, <3>1
    <3>3. QED
      BY <1>types, <2>1, <3>2 DEF Wires
  <2>3. OwnOK(own') /\ IncomingOK(incoming')
    <3>1. OwnOK(own')
      BY <1>types, <2>1 DEF OwnOK, OwnTyped, NoTransactions
    <3>2. DOMAIN incoming' = Peers
          /\ \A z \in Peers : incoming'[z] = IF z = x THEN [y \in Peers |-> NoTransactions]
                                             ELSE incoming[z]
      BY <1>in, <2>1
    <3>3. \A n : n \notin DOMAIN NoTransactions
      BY DEF NoTransactions
    <3>4. IncomingOK(incoming')
      BY <1>types, <3>2, <3>3 DEF IncomingOK, IncomingTyped
    <3>5. QED
      BY <3>1, <3>4
  <2>4. StampsOK'
    <3>1. /\ serverTS' = [serverTS EXCEPT ![x] = saved[x].server]
          /\ clientTS' = [clientTS EXCEPT ![x] = saved[x].client]
          /\ changed' = [changed EXCEPT ![x] = FALSE]
          /\ partial' = [partial EXCEPT ![x] = {}]
          /\ clock' = clock /\ saved' = saved
      BY <1>16 DEF Crash
    <3>2. saved[x].server \in Nat /\ saved[x].client \in [Peers -> Nat]
      BY <1>st
    <3>3. serverTS' \in [Peers -> Nat] /\ clientTS' \in [Peers -> [Peers -> Nat]]
      BY <1>st, <3>1, <3>2
    <3>4. changed' \in [Peers -> BOOLEAN] /\ partial' \in [Peers -> SUBSET Peers]
      BY <1>st, <3>1
    <3>5. QED
      BY <1>st, <3>1, <3>3, <3>4 DEF StampsOK
  <2>5. ExchangeOK'
    <3>1. /\ toNotify' = [toNotify EXCEPT ![x] = {}]
          /\ received' = [received EXCEPT ![x] = {}]
          /\ pending' = [pending EXCEPT ![x] = {}]
          /\ rejected' = [rejected EXCEPT ![x] = {}]
          /\ store' = store
      BY <1>16 DEF Crash
    <3>2. \A y, z \in Peers : Between(y, z) \subseteq Messages
      <4>1. \A y \in Peers : \A n \in DOMAIN own[y] : Asked(own[y][n]) \subseteq Messages
        BY <1>own, AskedType
      <4>2. \A y, z \in Peers : \A n \in DOMAIN incoming[y][z] :
               Asked(incoming[y][z][n]) \subseteq Messages
        BY <1>in, AskedType
      <4>3. QED
        BY <4>1, <4>2 DEF Between
    <3>3. excused' \in [Peers -> SUBSET Messages]
      <4>1. excused' = [z \in Peers |->
              IF z # x
              THEN excused[z] \cup Between(x, z)
                   \cup (IF serverTS[x] # saved[x].server THEN store[x] ELSE {})
              ELSE UNION ({Between(x, y) : y \in Peers}
                          \cup {excused[x], toNotify[x], received[x], pending[x], rejected[x]})]
        BY <1>16 DEF Crash
      <4>2. UNION ({Between(x, y) : y \in Peers}
                   \cup {excused[x], toNotify[x], received[x], pending[x], rejected[x]})
              \subseteq Messages
        BY <1>ex, <3>2
      <4>3. \A z \in Peers :
              excused[z] \cup Between(x, z)
                \cup (IF serverTS[x] # saved[x].server THEN store[x] ELSE {}) \subseteq Messages
        BY <1>ex, <3>2
      <4>4. QED
        BY <4>1, <4>2, <4>3
    <3>4. /\ toNotify' \in [Peers -> SUBSET Messages] /\ received' \in [Peers -> SUBSET Messages]
          /\ pending' \in [Peers -> SUBSET Messages] /\ rejected' \in [Peers -> SUBSET Messages]
      BY <1>ex, <3>1
    <3>5. QED
      BY <1>ex, <3>1, <3>3, <3>4 DEF ExchangeOK
  <2>6. QED
    BY <2>2, <2>3, <2>4, <2>5
<1>17. CASE UNCHANGED vars
  BY <1>goal, <1>same, <1>17 DEF vars, exchange
<1> HIDE DEF Goal
<1>18. CASE Next
  <2>1. ASSUME NEW x \in Peers, DataTick(x) \/ Timeout(x)
        PROVE  Goal
    BY <1>7, <1>8, <1>9, <1>10, <1>11, <1>12, <1>13, <2>1 DEF DataTick, Timeout
  <2>2. ASSUME NEW x \in Peers, NEW y \in Peers, Receive(x, y)
        PROVE  Goal
    BY <1>3, <1>4, <1>5, <1>6, <2>2 DEF Receive
  <2>3. QED
    BY <1>goal, <1>1, <1>2, <1>14, <1>15, <1>16, <1>18, <2>1, <2>2 DEF Next
<1>19. QED
  BY <1>17, <1>18

(***************************************************************************)
(* One direction between two peers, when something of it changes           *)
(***************************************************************************)

LinkTypes(w, r, o, g, m) ==
    /\ w \in Seq(Item) /\ r \in Seq(Item) /\ OwnTyped(o) /\ IncomingTyped(g)
    /\ m \in Nat
LinkOK(w, r, o, g, m, x, cut) ==
    LinkTypes(w, r, o, g, m) /\ Link(w, r, o, g, m, x, cut)

LEMMA SeqIndex ==
    ASSUME NEW w \in Seq(Item)
    PROVE  /\ Len(w) \in Nat /\ DOMAIN w = 1 .. Len(w)
           /\ \A i \in 1 .. Len(w) : w[i] \in Item
BY LenProperties, ElementOfSeq

LEMMA TailIndex ==
    ASSUME NEW w \in Seq(Item), w # <<>>
    PROVE  /\ Len(w) \in Nat \ {0} /\ DOMAIN w = 1 .. Len(w) /\ Head(w) = w[1]
           /\ Head(w) \in Item /\ Tail(w) \in Seq(Item)
           /\ Len(Tail(w)) = Len(w) - 1 /\ DOMAIN Tail(w) = 1 .. Len(w) - 1
           /\ \A i \in 1 .. Len(w) - 1 : Tail(w)[i] = w[i + 1]
<1>1. /\ Head(w) \in Item /\ Tail(w) \in Seq(Item) /\ Len(Tail(w)) = Len(w) - 1
      /\ \A i \in 1 .. Len(Tail(w)) : Tail(w)[i] = w[i + 1]
  BY HeadTailProperties
<1>2. Len(w) \in Nat \ {0} /\ DOMAIN w = 1 .. Len(w)
  BY EmptySeq, LenProperties
<1>3. DOMAIN Tail(w) = 1 .. Len(w) - 1
  BY <1>1, LenProperties
<1>4. QED
  BY <1>1, <1>2, <1>3

LEMMA ConcatIndex ==
    ASSUME NEW w \in Seq(Item), NEW q \in Seq(Item)
    PROVE  /\ Len(w) \in Nat /\ DOMAIN w = 1 .. Len(w)
           /\ Len(q) \in Nat /\ DOMAIN q = 1 .. Len(q)
           /\ w \o q \in Seq(Item) /\ Len(w \o q) = Len(w) + Len(q)
           /\ DOMAIN (w \o q) = 1 .. Len(w) + Len(q)
           /\ \A i \in 1 .. Len(w) : (w \o q)[i] = w[i]
           /\ \A i \in Len(w) + 1 .. Len(w) + Len(q) : (w \o q)[i] = q[i - Len(w)]
<1>1. /\ w \o q \in Seq(Item) /\ Len(w \o q) = Len(w) + Len(q)
      /\ \A i \in 1 .. Len(w) + Len(q) :
            (w \o q)[i] = IF i <= Len(w) THEN w[i] ELSE q[i - Len(w)]
  BY ConcatProperties
<1>2. /\ Len(w) \in Nat /\ DOMAIN w = 1 .. Len(w)
      /\ Len(q) \in Nat /\ DOMAIN q = 1 .. Len(q)
  BY LenProperties
<1>3. DOMAIN (w \o q) = 1 .. Len(w) + Len(q)
  BY <1>1, LenProperties
<1>4. QED
  BY <1>1, <1>2, <1>3

LEMMA StartIndex ==
    ASSUME NEW w \in Seq(Item), NEW j \in 0 .. Len(w)
    PROVE  /\ Len(w) \in Nat /\ DOMAIN w = 1 .. Len(w)
           /\ SubSeq(w, 1, j) \in Seq(Item) /\ Len(SubSeq(w, 1, j)) = j
           /\ DOMAIN SubSeq(w, 1, j) = 1 .. j
           /\ \A i \in 1 .. j : SubSeq(w, 1, j)[i] = w[i]
<1>1. Len(w) \in Nat /\ DOMAIN w = 1 .. Len(w) /\ \A i \in 1 .. j : w[i] \in Item
  BY SeqIndex
<1>2. j \in Int /\ 1 \in Int
  OBVIOUS
<1>3. /\ SubSeq(w, 1, j) \in Seq(Item)
      /\ Len(SubSeq(w, 1, j)) = IF 1 <= j THEN j - 1 + 1 ELSE 0
      /\ \A i \in 1 .. j - 1 + 1 : SubSeq(w, 1, j)[i] = w[1 + i - 1]
  BY <1>1, <1>2, SubSeqProperties
<1>4. DOMAIN SubSeq(w, 1, j) = 1 .. Len(SubSeq(w, 1, j))
  BY <1>3, LenProperties
<1>5. QED
  BY <1>1, <1>3, <1>4

(* What v has of some kinds w has too. *)
FewerOf(v, w, kinds) ==
    \A i \in DOMAIN v : v[i].kind \in kinds => \E j \in DOMAIN w : w[j] = v[i]
Offers == {"begin1", "item"}
Replies == {"begin2", "end"}

LEMMA FewerCarries ==
    ASSUME NEW v, NEW w, NEW kinds, FewerOf(v, w, kinds), NEW kind \in kinds, NEW n,
           Carries(v, kind, n)
    PROVE  Carries(w, kind, n)
BY DEF FewerOf, Carries

LEMMA FewerAnswers ==
    ASSUME NEW q, NEW r, FewerOf(q, r, Replies), NEW n, Answered(q, n)
    PROVE  Answered(r, n)
BY FewerCarries DEF Answered, Replies

(* With fewer replies, nothing that holds of a direction is lost. *)
LEMMA FewerReplies ==
    ASSUME NEW w, NEW r, NEW o, NEW g, NEW m, NEW x, NEW cut,
           LinkOK(w, r, o, g, m, x, cut), NEW q \in Seq(Item), FewerOf(q, r, Replies)
    PROVE  LinkOK(w, q, o, g, m, x, cut)
<1>1. \A n : Answered(q, n) => Answered(r, n)
  BY FewerAnswers
<1>2. Numbered(w, q, o, m, x)
  <2>1. ASSUME NEW i \in DOMAIN q, q[i].kind \in Replies PROVE q[i].n <= m
    BY <2>1 DEF LinkOK, Link, Numbered, FewerOf, Replies
  <2>2. QED
    BY <1>1, <2>1 DEF LinkOK, Link, Numbered, Replies
<1>3. OffersAreNew(w, q, o, g, x)
  BY <1>1 DEF LinkOK, Link, OffersAreNew
<1>4. HeldIsWhole(w, q, o, g, x)
  BY <1>1 DEF LinkOK, Link, HeldIsWhole
<1>5. QED
  BY <1>2, <1>3, <1>4 DEF LinkOK, Link, LinkTypes

(* So it is with fewer offers and items, in the places where they were or  *)
(* k places on, as long as the items still go on from what has come.       *)
LEMMA FewerItems ==
    ASSUME NEW w, NEW r, NEW o, NEW g, NEW m, NEW x, NEW cut,
           LinkOK(w, r, o, g, m, x, cut), NEW v \in Seq(Item), NEW k \in Nat,
           \A i \in DOMAIN v : v[i].kind \in Offers => i + k \in DOMAIN w /\ w[i + k] = v[i],
           ItemsGoOn(v, g)
    PROVE  LinkOK(v, r, o, g, m, x, cut)
<1>1. \A n : Carries(v, "item", n) => Carries(w, "item", n)
  BY DEF Carries, Offers
<1>2. Numbered(v, r, o, m, x)
  BY <1>1 DEF LinkOK, Link, Numbered, Offers
<1>3. OffersAreNew(v, r, o, g, x)
  <2> SUFFICES ASSUME NEW i \in DOMAIN v, v[i].kind = "begin1"
               PROVE  /\ ~Carries(v, "item", v[i].n) /\ ~Answered(r, v[i].n)
                      /\ \A j \in DOMAIN v : v[j].kind = "begin1" /\ v[j].n = v[i].n => j = i
                      /\ v[i].n \in DOMAIN o =>
                            /\ o[v[i].n].to = x /\ o[v[i].n].state = "waiting"
                            /\ o[v[i].n].announced = v[i].announced
                      /\ v[i].n \in DOMAIN g => ~IsDue(g[v[i].n])
    BY DEF OffersAreNew
  <2>1. i + k \in DOMAIN w /\ w[i + k] = v[i]
    BY DEF Offers
  <2>2. ASSUME NEW j \in DOMAIN v, v[j].kind = "begin1", v[j].n = v[i].n
        PROVE  j = i
    <3>1. j + k \in DOMAIN w /\ w[j + k] = v[j]
      BY <2>2 DEF Offers
    <3>2. j + k = i + k
      BY <2>1, <2>2, <3>1 DEF LinkOK, Link, OffersAreNew
    <3>3. i \in Int /\ j \in Int
      BY SeqIndex
    <3>4. QED
      BY <3>2, <3>3
  <2>3. QED
    BY <1>1, <2>1, <2>2 DEF LinkOK, Link, OffersAreNew
<1>4. HeldIsWhole(v, r, o, g, x)
  BY <1>1 DEF LinkOK, Link, HeldIsWhole
<1>5. QED
  BY <1>2, <1>3, <1>4 DEF LinkOK, Link, LinkTypes

(* What is due may be due to nobody when nothing is left between the two. *)
LEMMA LinkCut ==
    ASSUME NEW w, NEW r, NEW o, NEW g, NEW m, NEW x, NEW cut, NEW cut2,
           LinkOK(w, r, o, g, m, x, cut), cut => cut2
    PROVE  LinkOK(w, r, o, g, m, x, cut2)
BY DEF LinkOK, Link, DueIsOpen

(***************************************************************************)
(* What is under way goes on from what has come                            *)
(***************************************************************************)

LEMMA GoesOnSame ==
    ASSUME NEW w, NEW t, NEW t2, NEW n, GoesOn(w, t, n),
           t2.got = t.got, t2.announced = t.announced
    PROVE  GoesOn(w, t2, n)
<1>1. PICK f \in 1 .. Len(w) + 1, l \in 0 .. Len(w) :
          /\ l - f < Len(t.announced) - Len(t.got)
          /\ \A i \in DOMAIN w :
                /\ w[i].kind = "item" /\ w[i].n = n <=> f <= i /\ i <= l
                /\ f <= i /\ i <= l =>
                      w[i].message = t.announced[Len(t.got) + i - f + 1]
  BY DEF GoesOn
<1>2. /\ l - f < Len(t2.announced) - Len(t2.got)
      /\ \A i \in DOMAIN w :
            /\ w[i].kind = "item" /\ w[i].n = n <=> f <= i /\ i <= l
            /\ f <= i /\ i <= l =>
                  w[i].message = t2.announced[Len(t2.got) + i - f + 1]
  BY <1>1
<1>3. /\ Len(t2.got) <= Len(t2.announced)
      /\ \A i \in DOMAIN t2.got : t2.got[i] = t2.announced[i]
  BY DEF GoesOn
<1>4. QED
  BY <1>2, <1>3 DEF GoesOn

LEMMA GoesOnTail ==
    ASSUME NEW w \in Seq(Item), w # <<>>, NEW t \in Incoming, NEW n, GoesOn(w, t, n),
           ~(Head(w).kind = "item" /\ Head(w).n = n)
    PROVE  GoesOn(Tail(w), t, n)
<1> DEFINE a == Len(t.announced) - Len(t.got)
           v == Tail(w)
<1>1. /\ Len(w) \in Nat \ {0} /\ DOMAIN w = 1 .. Len(w) /\ Head(w) = w[1]
      /\ Len(v) = Len(w) - 1 /\ DOMAIN v = 1 .. Len(w) - 1
      /\ \A i \in 1 .. Len(w) - 1 : v[i] = w[i + 1]
  BY TailIndex
<1>2. Len(t.announced) \in Nat /\ Len(t.got) \in Nat
  BY LenProperties DEF Incoming
<1>3. PICK f \in 1 .. Len(w) + 1, l \in 0 .. Len(w) :
          /\ l - f < a
          /\ \A i \in DOMAIN w :
                /\ w[i].kind = "item" /\ w[i].n = n <=> f <= i /\ i <= l
                /\ f <= i /\ i <= l =>
                      w[i].message = t.announced[Len(t.got) + i - f + 1]
  BY DEF GoesOn
<1>4. ~(f <= 1 /\ 1 <= l)
  BY <1>1, <1>3
<1>5. a >= 0 /\ a \in Int
  BY <1>2 DEF GoesOn
<1> HIDE DEF v, a
<1>6. CASE f <= l
  <2>1. f - 1 \in 1 .. Len(v) + 1 /\ l - 1 \in 0 .. Len(v) /\ (l - 1) - (f - 1) < a
    BY <1>1, <1>3, <1>4, <1>5, <1>6
  <2>2. ASSUME NEW i \in DOMAIN v
        PROVE  /\ v[i].kind = "item" /\ v[i].n = n <=> f - 1 <= i /\ i <= l - 1
               /\ f - 1 <= i /\ i <= l - 1 =>
                      v[i].message = t.announced[Len(t.got) + i - (f - 1) + 1]
    <3>1. i \in Int /\ i + 1 \in DOMAIN w /\ v[i] = w[i + 1]
      BY <1>1
    <3>2. f <= i + 1 /\ i + 1 <= l <=> f - 1 <= i /\ i <= l - 1
      BY <3>1
    <3>3. Len(t.got) + (i + 1) - f + 1 = Len(t.got) + i - (f - 1) + 1
      BY <1>2, <3>1
    <3>4. QED
      BY <1>3, <3>1, <3>2, <3>3
  <2>3. QED
    BY <2>1, <2>2 DEF GoesOn, a, v
<1>7. CASE l < f
  <2>1. \A i \in DOMAIN v : ~(v[i].kind = "item" /\ v[i].n = n)
    <3>1. \A i \in DOMAIN v : i + 1 \in DOMAIN w /\ v[i] = w[i + 1] /\ ~(f <= i + 1 /\ i + 1 <= l)
      BY <1>1, <1>7
    <3>2. QED
      BY <1>3, <3>1
  <2>2. 1 \in 1 .. Len(v) + 1 /\ 0 \in 0 .. Len(v) /\ 0 - 1 < a
    BY <1>1, <1>5
  <2>3. \A i \in DOMAIN v : ~(1 <= i /\ i <= 0)
    BY <1>1
  <2>4. QED
    BY <2>1, <2>2, <2>3 DEF GoesOn, a, v
<1>8. QED
  BY <1>1, <1>6, <1>7

LEMMA GoesOnNone ==
    ASSUME NEW w \in Seq(Item), NEW t \in Incoming, NEW n, ~Carries(w, "item", n),
           Len(t.got) <= Len(t.announced),
           \A i \in DOMAIN t.got : t.got[i] = t.announced[i]
    PROVE  GoesOn(w, t, n)
<1>1. Len(w) \in Nat /\ DOMAIN w = 1 .. Len(w)
  BY SeqIndex
<1>2. Len(t.announced) \in Nat /\ Len(t.got) \in Nat
  BY LenProperties DEF Incoming
<1>3. 1 \in 1 .. Len(w) + 1 /\ 0 \in 0 .. Len(w) /\ 0 - 1 < Len(t.announced) - Len(t.got)
  <2> DEFINE k == Len(t.got)
             a == Len(t.announced)
  <2>1. k \in Nat /\ a \in Nat /\ k <= a
    BY <1>2
  <2> HIDE DEF k, a
  <2>2. 0 - 1 < a - k
    BY <2>1
  <2>3. 0 - 1 < Len(t.announced) - Len(t.got)
    BY <2>2 DEF a, k
  <2>4. 1 \in 1 .. Len(w) + 1 /\ 0 \in 0 .. Len(w)
    BY <1>1
  <2>5. QED
    BY <2>3, <2>4
<1>4. \A i \in DOMAIN w : ~(1 <= i /\ i <= 0)
  BY <1>1
<1>5. QED
  BY <1>3, <1>4 DEF GoesOn, Carries

LEMMA GoesOnTaken ==
    ASSUME NEW w \in Seq(Item), w # <<>>, NEW t \in Incoming, NEW n, GoesOn(w, t, n),
           Head(w).kind = "item", Head(w).n = n,
           NEW t2, t2.got = Append(t.got, Head(w).message), t2.announced = t.announced
    PROVE  GoesOn(Tail(w), t2, n)
<1> DEFINE a == Len(t.announced) - Len(t.got)
           v == Tail(w)
           m == Head(w).message
<1>1. /\ Len(w) \in Nat \ {0} /\ DOMAIN w = 1 .. Len(w) /\ Head(w) = w[1]
      /\ Len(v) = Len(w) - 1 /\ DOMAIN v = 1 .. Len(w) - 1
      /\ \A i \in 1 .. Len(w) - 1 : v[i] = w[i + 1]
      /\ Head(w) \in Item
  BY TailIndex
<1>2. t.got \in Seq(Messages) /\ t.announced \in Seq(Messages) /\ m \in Messages
  BY <1>1, ItemTypes DEF Incoming
<1>3. /\ Len(t.announced) \in Nat /\ Len(t.got) \in Nat
      /\ DOMAIN t.got = 1 .. Len(t.got) /\ Len(t2.got) = Len(t.got) + 1
      /\ DOMAIN t2.got = 1 .. Len(t.got) + 1 /\ t2.got[Len(t.got) + 1] = m
      /\ \A i \in 1 .. Len(t.got) : t2.got[i] = t.got[i]
  BY <1>2, LenProperties, AppendProperties
<1>4. PICK f \in 1 .. Len(w) + 1, l \in 0 .. Len(w) :
          /\ l - f < a
          /\ \A i \in DOMAIN w :
                /\ w[i].kind = "item" /\ w[i].n = n <=> f <= i /\ i <= l
                /\ f <= i /\ i <= l =>
                      w[i].message = t.announced[Len(t.got) + i - f + 1]
  BY DEF GoesOn
<1>5. f = 1 /\ 1 <= l
  <2>1. 1 \in DOMAIN w
    BY <1>1
  <2>2. f <= 1 /\ 1 <= l
    BY <1>1, <1>4, <2>1
  <2>3. QED
    BY <2>2
<1>6. m = t.announced[Len(t.got) + 1]
  <2>1. 1 \in DOMAIN w /\ Len(t.got) + 1 - f + 1 = Len(t.got) + 1
    BY <1>1, <1>3, <1>5
  <2>2. QED
    BY <1>1, <1>4, <1>5, <2>1
<1>7. /\ Len(t2.got) <= Len(t2.announced)
      /\ \A i \in DOMAIN t2.got : t2.got[i] = t2.announced[i]
  <2>1. Len(t.got) + 1 <= Len(t.announced)
    <3> DEFINE k == Len(t.got)
               e == Len(t.announced)
    <3>1. k \in Nat /\ e \in Nat /\ l - f < e - k
      BY <1>3, <1>4
    <3> HIDE DEF k, e, a
    <3>2. l \in Int
      BY <1>1
    <3>3. l - 1 < e - k
      BY <1>5, <3>1
    <3>4. k + 1 <= e
      BY <1>5, <3>1, <3>2, <3>3
    <3>5. QED
      BY <3>4 DEF k, e
  <2>2. ASSUME NEW i \in DOMAIN t2.got PROVE t2.got[i] = t2.announced[i]
    <3>1. i \in 1 .. Len(t.got) \/ i = Len(t.got) + 1
      BY <1>3
    <3>2. QED
      BY <1>3, <1>6, <3>1 DEF GoesOn
  <2>3. QED
    BY <1>3, <2>1, <2>2
<1> HIDE DEF v, m
<1>8. 1 \in 1 .. Len(v) + 1 /\ l - 1 \in 0 .. Len(v)
      /\ (l - 1) - 1 < Len(t2.announced) - Len(t2.got)
  <2> DEFINE k == Len(t.got)
             e == Len(t.announced)
  <2>1. /\ k \in Nat /\ e \in Nat /\ l - f < e - k
        /\ Len(t2.got) = k + 1 /\ Len(t2.announced) = e
    BY <1>3, <1>4
  <2> HIDE DEF k, e, a
  <2>2. (l - 1) - 1 < Len(t2.announced) - Len(t2.got)
    <3>1. l \in Int /\ l - 1 < e - k
      BY <1>1, <1>5, <2>1
    <3>2. QED
      BY <2>1, <3>1
  <2>3. 1 \in 1 .. Len(v) + 1 /\ l - 1 \in 0 .. Len(v)
    BY <1>1, <1>5
  <2>4. QED
    BY <2>2, <2>3
<1>9. ASSUME NEW i \in DOMAIN v
      PROVE  /\ v[i].kind = "item" /\ v[i].n = n <=> 1 <= i /\ i <= l - 1
             /\ 1 <= i /\ i <= l - 1 =>
                    v[i].message = t2.announced[Len(t2.got) + i - 1 + 1]
  <2>1. i \in Int /\ i >= 1 /\ i + 1 \in DOMAIN w /\ v[i] = w[i + 1]
    BY <1>1
  <2>2. f <= i + 1 /\ i + 1 <= l <=> 1 <= i /\ i <= l - 1
    BY <1>5, <2>1
  <2>3. Len(t.got) + (i + 1) - f + 1 = Len(t2.got) + i - 1 + 1
    <3> DEFINE k == Len(t.got)
    <3>1. k \in Nat /\ Len(t2.got) = k + 1
      BY <1>3
    <3> HIDE DEF k
    <3>2. k + (i + 1) - f + 1 = Len(t2.got) + i - 1 + 1
      BY <1>5, <2>1, <3>1
    <3>3. QED
      BY <3>2 DEF k
  <2>4. QED
    BY <1>4, <2>1, <2>2, <2>3
<1>10. QED
  BY <1>7, <1>8, <1>9 DEF GoesOn, v

LEMMA GoesOnAppend ==
    ASSUME NEW w \in Seq(Item), NEW q \in Seq(Item), NEW t, NEW n, GoesOn(w, t, n),
           ~Carries(q, "item", n)
    PROVE  GoesOn(w \o q, t, n)
<1> DEFINE v == w \o q
<1>1. /\ Len(w) \in Nat /\ DOMAIN w = 1 .. Len(w)
      /\ Len(q) \in Nat /\ DOMAIN q = 1 .. Len(q)
      /\ Len(v) = Len(w) + Len(q) /\ DOMAIN v = 1 .. Len(w) + Len(q)
      /\ \A i \in 1 .. Len(w) : v[i] = w[i]
      /\ \A i \in Len(w) + 1 .. Len(w) + Len(q) : v[i] = q[i - Len(w)]
  BY ConcatIndex
<1>2. PICK f \in 1 .. Len(w) + 1, l \in 0 .. Len(w) :
          /\ l - f < Len(t.announced) - Len(t.got)
          /\ \A i \in DOMAIN w :
                /\ w[i].kind = "item" /\ w[i].n = n <=> f <= i /\ i <= l
                /\ f <= i /\ i <= l =>
                      w[i].message = t.announced[Len(t.got) + i - f + 1]
  BY DEF GoesOn
<1> HIDE DEF v
<1>3. f \in 1 .. Len(v) + 1 /\ l \in 0 .. Len(v)
  BY <1>1
<1>4. ASSUME NEW i \in DOMAIN v
      PROVE  /\ v[i].kind = "item" /\ v[i].n = n <=> f <= i /\ i <= l
             /\ f <= i /\ i <= l =>
                    v[i].message = t.announced[Len(t.got) + i - f + 1]
  <2>1. CASE i \in 1 .. Len(w)
    BY <1>1, <1>2, <2>1
  <2>2. CASE i \notin 1 .. Len(w)
    <3>1. i \in Len(w) + 1 .. Len(w) + Len(q)
      BY <1>1, <2>2
    <3>2. v[i] = q[i - Len(w)] /\ i - Len(w) \in DOMAIN q /\ ~(i <= l)
      BY <1>1, <3>1
    <3>3. QED
      BY <3>2 DEF Carries
  <2>3. QED
    BY <2>1, <2>2
<1>5. QED
  BY <1>2, <1>3, <1>4 DEF GoesOn, v

LEMMA GoesOnStart ==
    ASSUME NEW w \in Seq(Item), NEW j \in 0 .. Len(w), NEW t \in Incoming, NEW n,
           GoesOn(w, t, n)
    PROVE  GoesOn(SubSeq(w, 1, j), t, n)
<1> DEFINE v == SubSeq(w, 1, j)
           a == Len(t.announced) - Len(t.got)
<1>1. /\ Len(w) \in Nat /\ DOMAIN w = 1 .. Len(w)
      /\ Len(v) = j /\ DOMAIN v = 1 .. j /\ \A i \in 1 .. j : v[i] = w[i]
  BY StartIndex
<1>2. Len(t.announced) \in Nat /\ Len(t.got) \in Nat
  BY LenProperties DEF Incoming
<1>3. PICK f \in 1 .. Len(w) + 1, l \in 0 .. Len(w) :
          /\ l - f < a
          /\ \A i \in DOMAIN w :
                /\ w[i].kind = "item" /\ w[i].n = n <=> f <= i /\ i <= l
                /\ f <= i /\ i <= l =>
                      w[i].message = t.announced[Len(t.got) + i - f + 1]
  BY DEF GoesOn
<1>4. a \in Int /\ a >= 0
  BY <1>2 DEF GoesOn
<1> HIDE DEF v, a
<1>5. CASE f <= j + 1
  <2> DEFINE e == IF l <= j THEN l ELSE j
  <2>1. f \in 1 .. Len(v) + 1 /\ e \in 0 .. Len(v) /\ e - f < a
    BY <1>1, <1>3, <1>4, <1>5
  <2>2. ASSUME NEW i \in DOMAIN v
        PROVE  /\ v[i].kind = "item" /\ v[i].n = n <=> f <= i /\ i <= e
               /\ f <= i /\ i <= e =>
                      v[i].message = t.announced[Len(t.got) + i - f + 1]
    <3>1. i \in DOMAIN w /\ v[i] = w[i] /\ (f <= i /\ i <= l <=> f <= i /\ i <= e)
      BY <1>1
    <3>2. QED
      BY <1>3, <3>1
  <2> HIDE DEF e
  <2>3. QED
    BY <2>1, <2>2 DEF GoesOn, v, a
<1>6. CASE f > j + 1
  <2>1. \A i \in DOMAIN v : i \in DOMAIN w /\ v[i] = w[i] /\ ~(f <= i /\ i <= l)
    BY <1>1, <1>6
  <2>2. ~Carries(v, "item", n)
    BY <1>3, <2>1 DEF Carries
  <2>3. v \in Seq(Item)
    BY StartIndex DEF v
  <2>4. Len(t.got) <= Len(t.announced) /\ \A i \in DOMAIN t.got : t.got[i] = t.announced[i]
    BY DEF GoesOn
  <2>5. QED
    BY <2>2, <2>3, <2>4, GoesOnNone DEF v
<1>7. QED
  BY <1>1, <1>3, <1>5, <1>6

(***************************************************************************)
(* What the steps do to a direction: the receiver x                        *)
(***************************************************************************)

(* x takes what is not an item of a transaction that it knows. *)
LEMMA LinkTail ==
    ASSUME NEW w, NEW r, NEW o, NEW g, NEW m, NEW x, NEW cut,
           LinkOK(w, r, o, g, m, x, cut), w # <<>>,
           Head(w).kind = "item" => Head(w).n \notin DOMAIN g
    PROVE  LinkOK(Tail(w), r, o, g, m, x, cut)
<1>1. w \in Seq(Item) /\ \A n \in DOMAIN g : g[n] \in Incoming
  BY DEF LinkOK, LinkTypes, IncomingTyped
<1>2. ItemsGoOn(Tail(w), g)
  <2>1. \A n \in DOMAIN g : GoesOn(w, g[n], n)
    BY DEF LinkOK, Link, ItemsGoOn
  <2>2. \A n \in DOMAIN g : GoesOn(Tail(w), g[n], n)
    BY <1>1, <2>1, GoesOnTail
  <2>3. QED
    BY <2>2 DEF ItemsGoOn
<1>3. /\ Tail(w) \in Seq(Item)
      /\ \A i \in DOMAIN Tail(w) : i + 1 \in DOMAIN w /\ w[i + 1] = Tail(w)[i]
  BY <1>1, TailIndex
<1>4. 1 \in Nat
  OBVIOUS
<1>5. QED
  BY <1>2, <1>3, <1>4, FewerItems

(* It takes the offer of a transaction that it does not know. *)
LEMMA LinkOffered ==
    ASSUME NEW w, NEW r, NEW o, NEW g, NEW m, NEW x, NEW cut,
           LinkOK(w, r, o, g, m, x, cut), w # <<>>, Head(w).kind = "begin1",
           Head(w).n \notin DOMAIN g,
           NEW t \in Incoming, t.announced = Head(w).announced, t.got = <<>>
    PROVE  LinkOK(Tail(w), r, o, With(g, Head(w).n, t), m, x, cut)
<1> DEFINE n == Head(w).n
           v == Tail(w)
           h == With(g, n, t)
<1>1. LinkOK(v, r, o, g, m, x, cut)
  BY LinkTail
<1>2. /\ w \in Seq(Item) /\ Len(w) \in Nat \ {0} /\ DOMAIN w = 1 .. Len(w)
      /\ Head(w) = w[1] /\ Head(w) \in Item
      /\ v \in Seq(Item) /\ DOMAIN v = 1 .. Len(w) - 1
      /\ \A i \in 1 .. Len(w) - 1 : v[i] = w[i + 1]
  BY TailIndex DEF LinkOK, LinkTypes
<1>3. n \in Nat /\ 1 \in DOMAIN w
  BY <1>2, ItemTypes
<1>4. /\ ~Carries(w, "item", n) /\ ~Answered(r, n) /\ n <= m
      /\ \A j \in DOMAIN w : w[j].kind = "begin1" /\ w[j].n = n => j = 1
      /\ n \in DOMAIN o =>
            o[n].to = x /\ o[n].state = "waiting" /\ o[n].announced = t.announced
  BY <1>2, <1>3 DEF LinkOK, Link, OffersAreNew, Numbered
<1>5. \A i \in DOMAIN v : v[i].kind = "begin1" => v[i].n # n
  <2>1. \A i \in DOMAIN v : i + 1 \in DOMAIN w /\ v[i] = w[i + 1] /\ i + 1 # 1
    BY <1>2
  <2>2. QED
    BY <1>4, <2>1
<1>6. ~Carries(v, "item", n)
  <2>1. \A i \in DOMAIN v : i + 1 \in DOMAIN w /\ v[i] = w[i + 1]
    BY <1>2
  <2>2. QED
    BY <1>4, <2>1 DEF Carries
<1>7. /\ DOMAIN h = DOMAIN g \cup {n} /\ h[n] = t
      /\ \A k \in DOMAIN g : k # n /\ h[k] = g[k]
  BY DEF With
<1> HIDE DEF h, v, n
<1>8. LinkTypes(v, r, o, h, m)
  BY <1>1, <1>3, <1>7 DEF LinkOK, LinkTypes, IncomingTyped
<1>9. Numbered(v, r, o, m, x)
  BY <1>1 DEF LinkOK, Link
<1>10. OffersAreNew(v, r, o, h, x)
  BY <1>1, <1>5, <1>7 DEF LinkOK, Link, OffersAreNew
<1>11. HeldIsWhole(v, r, o, h, x)
  <2> SUFFICES ASSUME NEW k \in DOMAIN o, o[k].to = x, o[k].held
               PROVE  /\ ~Carries(v, "item", k)
                      /\ k \in DOMAIN h =>
                            \/ h[k].got = <<>> /\ h[k].announced = o[k].announced
                            \/ ~IsDue(h[k]) /\ o[k].state = "waiting" /\ ~Answered(r, k)
    BY DEF HeldIsWhole
  <2>1. CASE k = n
    BY <1>4, <1>6, <1>7, <2>1
  <2>2. CASE k # n
    BY <1>1, <1>7, <2>2 DEF LinkOK, Link, HeldIsWhole
  <2>3. QED
    BY <2>1, <2>2
<1>12. ItemsGoOn(v, h)
  <2>1. GoesOn(v, t, n)
    <3>1. Len(t.got) = 0 /\ DOMAIN t.got = {}
      OBVIOUS
    <3>2. Len(t.announced) \in Nat
      BY LenProperties DEF Incoming
    <3>3. Len(t.got) <= Len(t.announced) /\ \A i \in DOMAIN t.got : t.got[i] = t.announced[i]
      BY <3>1, <3>2
    <3>4. QED
      BY <1>2, <1>6, <3>3, GoesOnNone
  <2>2. QED
    BY <1>1, <1>7, <2>1 DEF LinkOK, Link, ItemsGoOn
<1>13. DueIsOpen(o, h, m, x, cut)
  BY <1>1, <1>4, <1>7 DEF LinkOK, Link, DueIsOpen
<1>14. QED
  BY <1>8, <1>9, <1>10, <1>11, <1>12, <1>13 DEF LinkOK, Link, h, v, n

(* It takes an item of a transaction that it knows. *)
LEMMA LinkItem ==
    ASSUME NEW w, NEW r, NEW o, NEW g, NEW m, NEW x, NEW cut,
           LinkOK(w, r, o, g, m, x, cut), w # <<>>, Head(w).kind = "item",
           Head(w).n \in DOMAIN g, NEW t \in Incoming,
           t.announced = g[Head(w).n].announced,
           t.got = Append(g[Head(w).n].got, Head(w).message)
    PROVE  LinkOK(Tail(w), r, o, [g EXCEPT ![Head(w).n] = t], m, x, cut)
<1> DEFINE n == Head(w).n
           v == Tail(w)
           h == [g EXCEPT ![n] = t]
<1>1. /\ w \in Seq(Item) /\ Len(w) \in Nat \ {0} /\ DOMAIN w = 1 .. Len(w)
      /\ Head(w) = w[1] /\ Head(w) \in Item
      /\ v \in Seq(Item) /\ DOMAIN v = 1 .. Len(w) - 1
      /\ \A i \in 1 .. Len(w) - 1 : v[i] = w[i + 1]
  BY TailIndex DEF LinkOK, LinkTypes
<1>2. n \in Nat /\ 1 \in DOMAIN w
  BY <1>1, ItemTypes
<1>3. /\ Carries(w, "item", n) /\ n <= m
      /\ n \in DOMAIN o => o[n].to = x
  <2>1. Carries(w, "item", n)
    BY <1>1, <1>2 DEF Carries
  <2>2. QED
    BY <1>1, <1>2, <2>1 DEF LinkOK, Link, Numbered
<1>4. \A i \in DOMAIN v : i + 1 \in DOMAIN w /\ w[i + 1] = v[i]
  BY <1>1
<1>5. DOMAIN h = DOMAIN g /\ h[n] = t /\ \A k \in DOMAIN g : k # n => h[k] = g[k]
  OBVIOUS
<1>types. \A k \in DOMAIN g : k \in Nat /\ g[k] \in Incoming
  BY DEF LinkOK, LinkTypes, IncomingTyped
<1>6. LinkTypes(w, r, o, h, m)
  BY <1>5, <1>types DEF LinkOK, LinkTypes, IncomingTyped
<1>7. ItemsGoOn(v, h)
  <2> SUFFICES ASSUME NEW k \in DOMAIN g PROVE GoesOn(v, h[k], k)
    BY <1>5 DEF ItemsGoOn
  <2>1. g[k] \in Incoming /\ GoesOn(w, g[k], k)
    BY <1>types DEF LinkOK, Link, ItemsGoOn
  <2>2. CASE k = n
    BY <1>1, <1>5, <2>1, <2>2, GoesOnTaken
  <2>3. CASE k # n
    BY <1>1, <1>5, <2>1, <2>3, GoesOnTail
  <2>4. QED
    BY <2>2, <2>3
<1> HIDE DEF h, v, n
<1>8. Numbered(v, r, o, m, x)
  <2>1. \A k : Carries(v, "item", k) => Carries(w, "item", k)
    BY <1>4 DEF Carries
  <2>2. QED
    BY <1>4, <2>1 DEF LinkOK, Link, Numbered
<1>9. OffersAreNew(v, r, o, h, x)
  <2> SUFFICES ASSUME NEW i \in DOMAIN v, v[i].kind = "begin1"
               PROVE  /\ ~Carries(v, "item", v[i].n) /\ ~Answered(r, v[i].n)
                      /\ \A j \in DOMAIN v : v[j].kind = "begin1" /\ v[j].n = v[i].n => j = i
                      /\ v[i].n \in DOMAIN o =>
                            /\ o[v[i].n].to = x /\ o[v[i].n].state = "waiting"
                            /\ o[v[i].n].announced = v[i].announced
                      /\ v[i].n \in DOMAIN h => ~IsDue(h[v[i].n])
    BY DEF OffersAreNew
  <2>1. i + 1 \in DOMAIN w /\ w[i + 1] = v[i]
    BY <1>4
  <2>2. /\ ~Carries(w, "item", v[i].n) /\ ~Answered(r, v[i].n)
        /\ \A j \in DOMAIN w : w[j].kind = "begin1" /\ w[j].n = v[i].n => j = i + 1
        /\ v[i].n \in DOMAIN o =>
              /\ o[v[i].n].to = x /\ o[v[i].n].state = "waiting"
              /\ o[v[i].n].announced = v[i].announced
        /\ v[i].n \in DOMAIN g => ~IsDue(g[v[i].n])
    BY <2>1 DEF LinkOK, Link, OffersAreNew
  <2>3. ~Carries(v, "item", v[i].n)
    BY <1>4, <2>2 DEF Carries
  <2>4. v[i].n # n
    BY <1>3, <2>2
  <2>5. ASSUME NEW j \in DOMAIN v, v[j].kind = "begin1", v[j].n = v[i].n
        PROVE  j = i
    <3>1. j + 1 = i + 1 /\ i \in Int /\ j \in Int
      BY <1>1, <1>4, <2>2, <2>5
    <3>2. QED
      BY <3>1
  <2>6. QED
    BY <1>5, <2>2, <2>3, <2>4, <2>5
<1>10. HeldIsWhole(v, r, o, h, x)
  <2>1. \A k : Carries(v, "item", k) => Carries(w, "item", k)
    BY <1>4 DEF Carries
  <2>2. \A k \in DOMAIN o : o[k].to = x /\ o[k].held => k # n
    BY <1>3 DEF LinkOK, Link, HeldIsWhole
  <2>3. QED
    BY <1>5, <2>1, <2>2 DEF LinkOK, Link, HeldIsWhole
<1>11. DueIsOpen(o, h, m, x, cut)
  BY <1>3, <1>5 DEF LinkOK, Link, DueIsOpen
<1>12. QED
  BY <1>1, <1>6, <1>7, <1>8, <1>9, <1>10, <1>11 DEF LinkOK, Link, LinkTypes, h, v, n

(* It answers a transaction that it has something to do for. *)
LEMMA LinkAnswered ==
    ASSUME NEW w, NEW r, NEW o, NEW g, NEW m, NEW x, NEW cut,
           LinkOK(w, r, o, g, m, x, cut), ~cut, NEW n \in DOMAIN g, IsDue(g[n]),
           NEW b \in Item, b.kind \in Replies, b.n = n
    PROVE  LinkOK(w, r \o <<b>>, o, g, m, x, cut)
<1> DEFINE q == r \o <<b>>
<1>1. r \in Seq(Item) /\ <<b>> \in Seq(Item)
  BY DEF LinkOK, LinkTypes
<1>2. /\ Len(r) \in Nat /\ DOMAIN r = 1 .. Len(r) /\ q \in Seq(Item)
      /\ DOMAIN q = 1 .. Len(r) + 1 /\ \A i \in 1 .. Len(r) : q[i] = r[i]
      /\ q[Len(r) + 1] = b
  <2>1. Len(<<b>>) = 1 /\ <<b>>[1] = b
    OBVIOUS
  <2>2. /\ Len(r) \in Nat /\ DOMAIN r = 1 .. Len(r) /\ q \in Seq(Item)
        /\ DOMAIN q = 1 .. Len(r) + Len(<<b>>) /\ \A i \in 1 .. Len(r) : q[i] = r[i]
        /\ \A i \in Len(r) + 1 .. Len(r) + Len(<<b>>) : q[i] = <<b>>[i - Len(r)]
    BY <1>1, ConcatIndex
  <2> HIDE DEF q
  <2>3. Len(r) + 1 \in Len(r) + 1 .. Len(r) + Len(<<b>>) /\ (Len(r) + 1) - Len(r) = 1
    BY <2>1, <2>2
  <2>4. q[Len(r) + 1] = b
    BY <2>1, <2>2, <2>3
  <2>5. QED
    BY <2>1, <2>2, <2>4
<1> HIDE DEF q
<1>3. \A i \in DOMAIN q : (i \in DOMAIN r /\ q[i] = r[i]) \/ q[i] = b
  BY <1>2
<1>4. \A k : Answered(q, k) => Answered(r, k) \/ k = n
  BY <1>3 DEF Answered, Carries
<1>5. n <= m /\ (n \in DOMAIN o => o[n].to = x)
  BY DEF LinkOK, Link, DueIsOpen
<1>6. \A i \in DOMAIN w : w[i].kind = "begin1" => w[i].n # n
  BY DEF LinkOK, Link, OffersAreNew
<1>7. Numbered(w, q, o, m, x)
  BY <1>3, <1>4, <1>5 DEF LinkOK, Link, Numbered, Replies
<1>8. OffersAreNew(w, q, o, g, x)
  BY <1>4, <1>6 DEF LinkOK, Link, OffersAreNew
<1>9. HeldIsWhole(w, q, o, g, x)
  BY <1>4 DEF LinkOK, Link, HeldIsWhole
<1>10. QED
  BY <1>2, <1>7, <1>8, <1>9 DEF LinkOK, Link, LinkTypes, q

(* What it does for it changes the state only. *)
LEMMA LinkMovedOn ==
    ASSUME NEW w, NEW r, NEW o, NEW g, NEW m, NEW x, NEW cut,
           LinkOK(w, r, o, g, m, x, cut), NEW n \in DOMAIN g, IsDue(g[n]),
           NEW t \in Incoming, t.announced = g[n].announced, t.got = g[n].got
    PROVE  LinkOK(w, r, o, [g EXCEPT ![n] = t], m, x, cut)
<1> DEFINE h == [g EXCEPT ![n] = t]
<1>1. DOMAIN h = DOMAIN g /\ h[n] = t /\ \A k \in DOMAIN g : k # n => h[k] = g[k]
  OBVIOUS
<1> HIDE DEF h
<1>2. \A k \in DOMAIN g : /\ h[k].announced = g[k].announced /\ h[k].got = g[k].got
                          /\ IsDue(h[k]) => IsDue(g[k])
  BY <1>1
<1>3. LinkTypes(w, r, o, h, m)
  BY <1>1 DEF LinkOK, LinkTypes, IncomingTyped
<1>4. OffersAreNew(w, r, o, h, x)
  BY <1>1, <1>2 DEF LinkOK, Link, OffersAreNew
<1>5. HeldIsWhole(w, r, o, h, x)
  <2> SUFFICES ASSUME NEW k \in DOMAIN o, o[k].to = x, o[k].held
               PROVE  /\ ~Carries(w, "item", k)
                      /\ k \in DOMAIN h =>
                            \/ h[k].got = <<>> /\ h[k].announced = o[k].announced
                            \/ ~IsDue(h[k]) /\ o[k].state = "waiting" /\ ~Answered(r, k)
    BY DEF HeldIsWhole
  <2>1. /\ ~Carries(w, "item", k)
        /\ k \in DOMAIN g =>
              \/ g[k].got = <<>> /\ g[k].announced = o[k].announced
              \/ ~IsDue(g[k]) /\ o[k].state = "waiting" /\ ~Answered(r, k)
    BY DEF LinkOK, Link, HeldIsWhole
  <2>2. QED
    BY <1>1, <1>2, <2>1
<1>6. ItemsGoOn(w, h)
  <2>1. \A k \in DOMAIN g : GoesOn(w, g[k], k)
    BY DEF LinkOK, Link, ItemsGoOn
  <2>2. \A k \in DOMAIN g : GoesOn(w, h[k], k)
    BY <1>2, <2>1, GoesOnSame
  <2>3. QED
    BY <1>1, <2>2 DEF ItemsGoOn
<1>7. DueIsOpen(o, h, m, x, cut)
  BY <1>1, <1>2 DEF LinkOK, Link, DueIsOpen
<1>8. QED
  BY <1>3, <1>4, <1>5, <1>6, <1>7 DEF LinkOK, Link, h

(* It forgets a transaction. *)
LEMMA LinkForgotten ==
    ASSUME NEW w, NEW r, NEW o, NEW g, NEW m, NEW x, NEW cut,
           LinkOK(w, r, o, g, m, x, cut), NEW n
    PROVE  LinkOK(w, r, o, Without(g, n), m, x, cut)
<1> DEFINE h == Without(g, n)
<1>1. DOMAIN h \subseteq DOMAIN g /\ \A k \in DOMAIN h : h[k] = g[k]
  BY DEF Without
<1> HIDE DEF h
<1>2. LinkTypes(w, r, o, h, m)
  BY <1>1 DEF LinkOK, LinkTypes, IncomingTyped
<1>3. OffersAreNew(w, r, o, h, x)
  BY <1>1 DEF LinkOK, Link, OffersAreNew
<1>4. HeldIsWhole(w, r, o, h, x)
  BY <1>1 DEF LinkOK, Link, HeldIsWhole
<1>5. ItemsGoOn(w, h) /\ DueIsOpen(o, h, m, x, cut)
  BY <1>1 DEF LinkOK, Link, ItemsGoOn, DueIsOpen
<1>6. QED
  BY <1>2, <1>3, <1>4, <1>5 DEF LinkOK, Link, h

(***************************************************************************)
(* What the steps do to a direction: the opener y                          *)
(***************************************************************************)

(* y is answered, and goes on with the transaction. *)
LEMMA LinkReplied ==
    ASSUME NEW w, NEW r, NEW o, NEW g, NEW m, NEW x, NEW cut,
           LinkOK(w, r, o, g, m, x, cut), NEW n \in DOMAIN o, Answered(r, n),
           NEW t \in Own, t.to = o[n].to, t.announced = o[n].announced, t.held = o[n].held
    PROVE  LinkOK(w, r, [o EXCEPT ![n] = t], g, m, x, cut)
<1> DEFINE p == [o EXCEPT ![n] = t]
<1>1. DOMAIN p = DOMAIN o /\ p[n] = t /\ \A k \in DOMAIN o : k # n => p[k] = o[k]
  OBVIOUS
<1> HIDE DEF p
<1>2. \A k \in DOMAIN o : /\ p[k].to = o[k].to /\ p[k].held = o[k].held
                          /\ p[k].announced = o[k].announced
                          /\ ~Answered(r, k) => p[k] = o[k]
  BY <1>1
<1>3. LinkTypes(w, r, p, g, m)
  BY <1>1 DEF LinkOK, LinkTypes, OwnTyped
<1>4. Numbered(w, r, p, m, x) /\ OffersAreNew(w, r, p, g, x)
  BY <1>1, <1>2 DEF LinkOK, Link, Numbered, OffersAreNew
<1>5. HeldIsWhole(w, r, p, g, x)
  BY <1>1, <1>2 DEF LinkOK, Link, HeldIsWhole
<1>6. DueIsOpen(p, g, m, x, cut)
  BY <1>1, <1>2 DEF LinkOK, Link, DueIsOpen
<1>7. QED
  BY <1>3, <1>4, <1>5, <1>6 DEF LinkOK, Link, p

(* What it opened to another changes. *)
LEMMA LinkElsewhere ==
    ASSUME NEW w, NEW r, NEW o, NEW g, NEW m, NEW x, NEW cut,
           LinkOK(w, r, o, g, m, x, cut), NEW n \in DOMAIN o, o[n].to # x,
           NEW t \in Own, t.to = o[n].to
    PROVE  LinkOK(w, r, [o EXCEPT ![n] = t], g, m, x, cut)
<1> DEFINE p == [o EXCEPT ![n] = t]
<1>1. DOMAIN p = DOMAIN o /\ p[n] = t /\ \A k \in DOMAIN o : k # n => p[k] = o[k]
  OBVIOUS
<1> HIDE DEF p
<1>2. \A k \in DOMAIN o : p[k].to = o[k].to /\ (o[k].to = x => p[k] = o[k])
  BY <1>1
<1>3. LinkTypes(w, r, p, g, m)
  BY <1>1 DEF LinkOK, LinkTypes, OwnTyped
<1>4. Numbered(w, r, p, m, x)
  BY <1>1, <1>2 DEF LinkOK, Link, Numbered
<1>5. OffersAreNew(w, r, p, g, x)
  BY <1>1, <1>2 DEF LinkOK, Link, OffersAreNew
<1>6. HeldIsWhole(w, r, p, g, x)
  BY <1>1, <1>2 DEF LinkOK, Link, HeldIsWhole
<1>7. DueIsOpen(p, g, m, x, cut)
  BY <1>1, <1>2 DEF LinkOK, Link, DueIsOpen
<1>8. QED
  BY <1>3, <1>4, <1>5, <1>6, <1>7 DEF LinkOK, Link, p

(* It lets go of the items of a transaction that was answered. *)
LEMMA LinkLetGo ==
    ASSUME NEW w, NEW r, NEW o, NEW g, NEW m, NEW x, NEW cut,
           LinkOK(w, r, o, g, m, x, cut), NEW n \in DOMAIN o, o[n].state # "waiting",
           NEW t \in Own, t.to = o[n].to, ~t.held
    PROVE  LinkOK(w, r, [o EXCEPT ![n] = t], g, m, x, cut)
<1> DEFINE p == [o EXCEPT ![n] = t]
<1>1. DOMAIN p = DOMAIN o /\ p[n] = t /\ \A k \in DOMAIN o : k # n => p[k] = o[k]
  OBVIOUS
<1> HIDE DEF p
<1>2. \A k \in DOMAIN o : p[k].to = o[k].to
  BY <1>1
<1>3. LinkTypes(w, r, p, g, m)
  BY <1>1 DEF LinkOK, LinkTypes, OwnTyped
<1>4. Numbered(w, r, p, m, x)
  BY <1>1, <1>2 DEF LinkOK, Link, Numbered
<1>5. OffersAreNew(w, r, p, g, x)
  <2>1. \A i \in DOMAIN w : w[i].kind = "begin1" => w[i].n # n
    BY DEF LinkOK, Link, OffersAreNew
  <2>2. QED
    BY <1>1, <2>1 DEF LinkOK, Link, OffersAreNew
<1>6. HeldIsWhole(w, r, p, g, x)
  BY <1>1 DEF LinkOK, Link, HeldIsWhole
<1>7. DueIsOpen(p, g, m, x, cut)
  BY <1>1, <1>2 DEF LinkOK, Link, DueIsOpen
<1>8. QED
  BY <1>3, <1>4, <1>5, <1>6, <1>7 DEF LinkOK, Link, p

(* It sends them. *)
LEMMA LinkItemsSent ==
    ASSUME NEW w, NEW r, NEW o, NEW g, NEW m, NEW x, NEW cut,
           LinkOK(w, r, o, g, m, x, cut), NEW n \in DOMAIN o, o[n].state # "waiting",
           o[n].to = x, o[n].held, NEW t \in Own, t.to = x, ~t.held
    PROVE  LinkOK(w \o Items(n, o[n].announced), r, [o EXCEPT ![n] = t], g, m, x, cut)
<1> DEFINE p == [o EXCEPT ![n] = t]
           s == o[n].announced
           q == Items(n, s)
           v == w \o q
<1>1. LinkOK(w, r, p, g, m, x, cut)
  BY LinkLetGo
<1>2. DOMAIN p = DOMAIN o /\ p[n] = t /\ \A k \in DOMAIN o : k # n => p[k] = o[k]
  OBVIOUS
<1>3. n \in Nat /\ s \in Seq(Messages) /\ w \in Seq(Item)
  BY DEF LinkOK, LinkTypes, OwnTyped, Own
<1>4. /\ n <= m /\ ~Carries(w, "item", n)
      /\ \A i \in DOMAIN w : w[i].kind = "begin1" => w[i].n # n
      /\ n \in DOMAIN g => g[n].got = <<>> /\ g[n].announced = s
  BY DEF LinkOK, Link, Numbered, HeldIsWhole, OffersAreNew
<1> HIDE DEF s, p
<1>5. /\ q \in Seq(Item) /\ Len(q) = Len(s) /\ Len(s) \in Nat
      /\ \A i \in 1 .. Len(s) : q[i].kind = "item" /\ q[i].n = n /\ q[i].message = s[i]
  BY <1>3, ItemsType, LenProperties
<1> HIDE DEF q
<1>6. /\ Len(w) \in Nat /\ DOMAIN w = 1 .. Len(w)
      /\ v \in Seq(Item) /\ Len(v) = Len(w) + Len(s) /\ DOMAIN v = 1 .. Len(w) + Len(s)
      /\ \A i \in 1 .. Len(w) : v[i] = w[i]
      /\ \A i \in Len(w) + 1 .. Len(w) + Len(s) :
            v[i].kind = "item" /\ v[i].n = n /\ v[i].message = s[i - Len(w)]
  <2>1. /\ Len(w) \in Nat /\ DOMAIN w = 1 .. Len(w)
        /\ v \in Seq(Item) /\ Len(v) = Len(w) + Len(s) /\ DOMAIN v = 1 .. Len(w) + Len(s)
        /\ \A i \in 1 .. Len(w) : v[i] = w[i]
        /\ \A i \in Len(w) + 1 .. Len(w) + Len(s) : v[i] = q[i - Len(w)]
    <3>1. /\ Len(w) \in Nat /\ DOMAIN w = 1 .. Len(w)
          /\ v \in Seq(Item) /\ Len(v) = Len(w) + Len(q)
          /\ DOMAIN v = 1 .. Len(w) + Len(q)
          /\ \A i \in 1 .. Len(w) : v[i] = w[i]
          /\ \A i \in Len(w) + 1 .. Len(w) + Len(q) : v[i] = q[i - Len(w)]
      BY <1>3, <1>5, ConcatIndex
    <3> HIDE DEF v
    <3>2. Len(q) = Len(s)
      BY <1>5
    <3>3. QED
      BY <3>1, <3>2
  <2> HIDE DEF v
  <2>2. \A i \in Len(w) + 1 .. Len(w) + Len(s) : i - Len(w) \in 1 .. Len(s)
    BY <1>5, <2>1
  <2>3. QED
    BY <1>5, <2>1, <2>2
<1>7. \A i \in DOMAIN v : \/ i \in DOMAIN w /\ v[i] = w[i]
                          \/ v[i].kind = "item" /\ v[i].n = n
  <2> HIDE DEF v
  <2>1. \A i \in DOMAIN v : i \in 1 .. Len(w) \/ i \in Len(w) + 1 .. Len(w) + Len(s)
    BY <1>5, <1>6
  <2>2. QED
    BY <1>6, <2>1
<1>8. ItemsGoOn(v, g)
  <2> SUFFICES ASSUME NEW k \in DOMAIN g PROVE GoesOn(v, g[k], k)
    BY DEF ItemsGoOn
  <2>1. CASE k # n
    <3>1. ~Carries(q, "item", k)
      <4>1. DOMAIN q = 1 .. Len(s)
        BY <1>5, LenProperties
      <4>2. QED
        BY <1>5, <2>1, <4>1 DEF Carries
    <3>2. GoesOn(w, g[k], k)
      BY DEF LinkOK, Link, ItemsGoOn
    <3>3. QED
      BY <1>3, <1>5, <3>1, <3>2, GoesOnAppend
  <2>2. CASE k = n
    <3> HIDE DEF v
    <3> DEFINE f == Len(w) + 1
               l == Len(w) + Len(s)
    <3>1. g[k].got = <<>> /\ g[k].announced = s
      BY <1>4, <2>2
    <3>2. Len(g[k].got) = 0 /\ DOMAIN g[k].got = {}
      BY <3>1
    <3>3. f \in 1 .. Len(v) + 1 /\ l \in 0 .. Len(v) /\ l - f < Len(s) - 0
      BY <1>5, <1>6
    <3>4. ASSUME NEW i \in DOMAIN v
          PROVE  /\ v[i].kind = "item" /\ v[i].n = k <=> f <= i /\ i <= l
                 /\ f <= i /\ i <= l => v[i].message = s[0 + i - f + 1]
      <4>1. CASE i \in 1 .. Len(w)
        <5>1. i \in DOMAIN w /\ v[i] = w[i] /\ ~(f <= i)
          BY <1>6, <4>1
        <5>2. QED
          BY <1>4, <2>2, <5>1 DEF Carries
      <4>2. CASE i \in Len(w) + 1 .. Len(w) + Len(s)
        <5>1. f <= i /\ i <= l /\ 0 + i - f + 1 = i - Len(w)
          BY <1>5, <1>6, <4>2
        <5>2. QED
          BY <1>6, <2>2, <4>2, <5>1
      <4>3. QED
        BY <1>5, <1>6, <4>1, <4>2
    <3> HIDE DEF f, l
    <3>5. Len(g[k].got) <= Len(g[k].announced)
      BY <1>5, <3>1, <3>2
    <3>6. QED
      BY <3>1, <3>2, <3>3, <3>4, <3>5 DEF GoesOn
  <2>3. QED
    BY <2>1, <2>2
<1> HIDE DEF v
<1>9. \A k : Carries(v, "item", k) => Carries(w, "item", k) \/ k = n
  BY <1>7 DEF Carries
<1>10. Numbered(v, r, p, m, x)
  <2>1. \A k \in DOMAIN p : k <= m
    BY <1>1 DEF LinkOK, Link, Numbered
  <2>2. \A i \in DOMAIN v : v[i].kind \in {"begin1", "item"} => v[i].n <= m
    BY <1>1, <1>4, <1>7 DEF LinkOK, Link, Numbered
  <2>3. \A k \in DOMAIN p : Carries(v, "item", k) \/ Answered(r, k) => p[k].to = x
    BY <1>1, <1>2, <1>9 DEF LinkOK, Link, Numbered
  <2>4. QED
    BY <1>1, <2>1, <2>2, <2>3 DEF LinkOK, Link, Numbered
<1>11. OffersAreNew(v, r, p, g, x)
  <2>1. \A i \in DOMAIN v : v[i].kind = "begin1" => i \in DOMAIN w /\ v[i] = w[i] /\ v[i].n # n
    BY <1>4, <1>7
  <2>2. QED
    BY <1>1, <1>9, <2>1 DEF LinkOK, Link, OffersAreNew
<1>12. HeldIsWhole(v, r, p, g, x)
  BY <1>1, <1>2, <1>9 DEF LinkOK, Link, HeldIsWhole
<1>13. QED
  BY <1>1, <1>6, <1>8, <1>10, <1>11, <1>12 DEF LinkOK, Link, LinkTypes, p, v, q, s

(* It forgets a transaction. *)
LEMMA LinkDropped ==
    ASSUME NEW w, NEW r, NEW o, NEW g, NEW m, NEW x, NEW cut,
           LinkOK(w, r, o, g, m, x, cut), NEW n
    PROVE  LinkOK(w, r, Without(o, n), g, m, x, cut)
<1> DEFINE p == Without(o, n)
<1>1. DOMAIN p \subseteq DOMAIN o /\ \A k \in DOMAIN p : p[k] = o[k]
  BY DEF Without
<1> HIDE DEF p
<1>2. LinkTypes(w, r, p, g, m)
  BY <1>1 DEF LinkOK, LinkTypes, OwnTyped
<1>3. Numbered(w, r, p, m, x)
  BY <1>1 DEF LinkOK, Link, Numbered
<1>4. OffersAreNew(w, r, p, g, x)
  BY <1>1 DEF LinkOK, Link, OffersAreNew
<1>5. HeldIsWhole(w, r, p, g, x) /\ DueIsOpen(p, g, m, x, cut)
  BY <1>1 DEF LinkOK, Link, HeldIsWhole, DueIsOpen
<1>6. QED
  BY <1>2, <1>3, <1>4, <1>5 DEF LinkOK, Link, p

(* It sends what is neither an offer nor an item. *)
LEMMA LinkAppend ==
    ASSUME NEW w, NEW r, NEW o, NEW g, NEW m, NEW x, NEW cut,
           LinkOK(w, r, o, g, m, x, cut), NEW b \in Item, b.kind \notin Offers
    PROVE  LinkOK(w \o <<b>>, r, o, g, m, x, cut)
<1> DEFINE q == <<b>>
           v == w \o q
<1>1. w \in Seq(Item) /\ q \in Seq(Item) /\ Len(q) = 1 /\ q[1] = b
  BY DEF LinkOK, LinkTypes
<1> HIDE DEF q
<1>2. /\ Len(w) \in Nat /\ DOMAIN w = 1 .. Len(w) /\ DOMAIN q = 1 .. Len(q)
      /\ v \in Seq(Item) /\ DOMAIN v = 1 .. Len(w) + Len(q)
      /\ \A i \in 1 .. Len(w) : v[i] = w[i]
      /\ \A i \in Len(w) + 1 .. Len(w) + Len(q) : v[i] = q[i - Len(w)]
  BY <1>1, ConcatIndex
<1>3. \A n : ~Carries(q, "item", n)
  BY <1>1, <1>2 DEF Carries, Offers
<1>4. ItemsGoOn(v, g)
  <2>1. \A n \in DOMAIN g : GoesOn(w, g[n], n)
    BY DEF LinkOK, Link, ItemsGoOn
  <2>2. \A n \in DOMAIN g : GoesOn(v, g[n], n)
    BY <1>1, <1>3, <2>1, GoesOnAppend
  <2>3. QED
    BY <2>2 DEF ItemsGoOn
<1> HIDE DEF v
<1>5. ASSUME NEW i \in DOMAIN v, v[i].kind \in Offers
      PROVE  i + 0 \in DOMAIN w /\ w[i + 0] = v[i]
  <2>1. CASE i \in 1 .. Len(w)
    BY <1>2, <1>5, <2>1
  <2>2. CASE i \notin 1 .. Len(w)
    <3>1. i - Len(w) = 1 /\ i \in Len(w) + 1 .. Len(w) + Len(q)
      BY <1>1, <1>2, <2>2
    <3>2. v[i] = b
      BY <1>1, <1>2, <3>1
    <3>3. QED
      BY <1>5, <3>2
  <2>3. QED
    BY <2>1, <2>2
<1>6. 0 \in Nat
  OBVIOUS
<1>7. LinkOK(v, r, o, g, m, x, cut)
  BY <1>2, <1>4, <1>5, <1>6, FewerItems
<1>8. QED
  BY <1>7 DEF v, q

(* What comes back is no reply. *)
LEMMA LinkBack ==
    ASSUME NEW w, NEW r, NEW o, NEW g, NEW m, NEW x, NEW cut,
           LinkOK(w, r, o, g, m, x, cut), NEW q \in Seq(Item),
           \A i \in DOMAIN q : q[i].kind \notin Replies
    PROVE  LinkOK(w, r \o q, o, g, m, x, cut)
<1>1. r \in Seq(Item)
  BY DEF LinkOK, LinkTypes
<1> DEFINE v == r \o q
<1>2. /\ Len(r) \in Nat /\ DOMAIN r = 1 .. Len(r)
      /\ Len(q) \in Nat /\ DOMAIN q = 1 .. Len(q)
      /\ v \in Seq(Item) /\ DOMAIN v = 1 .. Len(r) + Len(q)
      /\ \A i \in 1 .. Len(r) : v[i] = r[i]
      /\ \A i \in Len(r) + 1 .. Len(r) + Len(q) : v[i] = q[i - Len(r)]
  BY <1>1, ConcatIndex
<1> HIDE DEF v
<1>3. FewerOf(v, r, Replies)
  <2> SUFFICES ASSUME NEW i \in DOMAIN v, v[i].kind \in Replies
               PROVE  \E j \in DOMAIN r : r[j] = v[i]
    BY DEF FewerOf
  <2>1. CASE i \in 1 .. Len(r)
    BY <1>2, <2>1
  <2>2. CASE i \notin 1 .. Len(r)
    <3>1. i \in Len(r) + 1 .. Len(r) + Len(q) /\ i - Len(r) \in DOMAIN q
      BY <1>2, <2>2
    <3>2. QED
      BY <1>2, <3>1
  <2>3. QED
    BY <2>1, <2>2
<1>4. QED
  BY <1>2, <1>3, FewerReplies DEF v

LEMMA LinkBackTail ==
    ASSUME NEW w, NEW r, NEW o, NEW g, NEW m, NEW x, NEW cut,
           LinkOK(w, r, o, g, m, x, cut), r # <<>>
    PROVE  LinkOK(w, Tail(r), o, g, m, x, cut)
<1>1. r \in Seq(Item)
  BY DEF LinkOK, LinkTypes
<1>2. /\ Tail(r) \in Seq(Item) /\ DOMAIN r = 1 .. Len(r) /\ Len(r) \in Nat \ {0}
      /\ DOMAIN Tail(r) = 1 .. Len(r) - 1
      /\ \A i \in 1 .. Len(r) - 1 : Tail(r)[i] = r[i + 1]
  BY <1>1, TailIndex
<1>3. \A i \in DOMAIN Tail(r) : i + 1 \in DOMAIN r /\ r[i + 1] = Tail(r)[i]
  BY <1>2
<1>4. FewerOf(Tail(r), r, Replies)
  BY <1>3 DEF FewerOf
<1>5. QED
  BY <1>2, <1>4, FewerReplies

(* The number n is new to the direction. *)
Fresh(w, r, o, g, m, n) ==
    \/ n = m + 1
    \/ /\ n = 1 /\ DOMAIN o = {} /\ DOMAIN g = {}
       /\ \A i \in DOMAIN w : w[i].kind \notin Offers
       /\ \A i \in DOMAIN r : r[i].kind \notin Replies

LEMMA FreshNumber ==
    ASSUME NEW w, NEW r, NEW o, NEW g, NEW m, NEW x, NEW cut,
           LinkOK(w, r, o, g, m, x, cut), NEW n, Fresh(w, r, o, g, m, n)
    PROVE  /\ n \in Nat /\ n \notin DOMAIN o
           /\ \A i \in DOMAIN w : w[i].kind \in Offers => w[i].n # n /\ w[i].n <= n
           /\ \A i \in DOMAIN r : r[i].kind \in Replies => r[i].n # n /\ r[i].n <= n
           /\ ~Carries(w, "item", n) /\ ~Answered(r, n)
           /\ \A k \in DOMAIN o : k <= n
           /\ \A k \in DOMAIN g : IsDue(g[k]) =>
                 cut \/ (k <= n /\ k # n /\ (k \in DOMAIN o => o[k].to = x))
<1>1. m \in Nat /\ (\A k \in DOMAIN o : k \in Nat) /\ (\A k \in DOMAIN g : k \in Nat)
  BY DEF LinkOK, LinkTypes, OwnTyped, IncomingTyped
<1>2. /\ \A i \in DOMAIN w : w[i].kind \in Offers => w[i].n \in Nat /\ w[i].n <= m
      /\ \A i \in DOMAIN r : r[i].kind \in Replies => r[i].n \in Nat /\ r[i].n <= m
  <2>1. /\ \A i \in DOMAIN w : w[i] \in Item
        /\ \A i \in DOMAIN r : r[i] \in Item
    BY SeqIndex DEF LinkOK, LinkTypes
  <2>2. /\ \A i \in DOMAIN w : w[i].kind \in Offers => w[i].n \in Nat
        /\ \A i \in DOMAIN r : r[i].kind \in Replies => r[i].n \in Nat
    BY <2>1, ItemTypes DEF Offers, Replies
  <2>3. QED
    BY <2>2 DEF LinkOK, Link, Numbered, Offers, Replies
<1>3. /\ \A k \in DOMAIN o : k <= m
      /\ \A k \in DOMAIN g : IsDue(g[k]) =>
            cut \/ (k <= m /\ (k \in DOMAIN o => o[k].to = x))
  BY DEF LinkOK, Link, Numbered, DueIsOpen
<1>4. /\ n \in Nat /\ n \notin DOMAIN o
      /\ \A i \in DOMAIN w : w[i].kind \in Offers => w[i].n # n /\ w[i].n <= n
      /\ \A i \in DOMAIN r : r[i].kind \in Replies => r[i].n # n /\ r[i].n <= n
      /\ \A k \in DOMAIN o : k <= n
      /\ \A k \in DOMAIN g : IsDue(g[k]) =>
            cut \/ (k <= n /\ k # n /\ (k \in DOMAIN o => o[k].to = x))
  <2>1. CASE n = m + 1
    BY <1>1, <1>2, <1>3, <2>1
  <2>2. CASE n # m + 1
    BY <2>2 DEF Fresh
  <2>3. QED
    BY <2>1, <2>2
<1>5. ~Carries(w, "item", n) /\ ~Answered(r, n)
  BY <1>4 DEF Carries, Answered, Offers, Replies
<1>6. QED
  BY <1>4, <1>5

(* y opens a transaction, to x or to another. *)
LEMMA LinkOpened ==
    ASSUME NEW w, NEW r, NEW o, NEW g, NEW m, NEW x, NEW cut,
           LinkOK(w, r, o, g, m, x, cut), NEW n, Fresh(w, r, o, g, m, n),
           NEW t \in Own, t.to # x \/ (~cut /\ t.state = "waiting")
    PROVE  LinkOK(w, r, With(o, n, t), g, n, x, cut)
<1> DEFINE p == With(o, n, t)
<1>1. /\ DOMAIN p = DOMAIN o \cup {n} /\ p[n] = t
      /\ \A k \in DOMAIN o : k # n => p[k] = o[k]
  BY DEF With
<1> HIDE DEF p
<1>2. /\ n \in Nat /\ n \notin DOMAIN o
      /\ \A i \in DOMAIN w : w[i].kind \in Offers => w[i].n # n /\ w[i].n <= n
      /\ \A i \in DOMAIN r : r[i].kind \in Replies => r[i].n # n /\ r[i].n <= n
      /\ ~Carries(w, "item", n) /\ ~Answered(r, n)
      /\ \A k \in DOMAIN o : k <= n
      /\ \A k \in DOMAIN g : IsDue(g[k]) =>
            cut \/ (k <= n /\ k # n /\ (k \in DOMAIN o => o[k].to = x))
  BY FreshNumber
<1>3. LinkTypes(w, r, p, g, n)
  BY <1>1, <1>2 DEF LinkOK, LinkTypes, OwnTyped
<1>4. Numbered(w, r, p, n, x)
  <2>1. \A k \in DOMAIN p : k <= n
    BY <1>1, <1>2
  <2>2. \A k \in DOMAIN p : Carries(w, "item", k) \/ Answered(r, k) => p[k].to = x
    BY <1>1, <1>2 DEF LinkOK, Link, Numbered
  <2>3. QED
    BY <1>2, <2>1, <2>2 DEF Numbered, Offers, Replies
<1>5. OffersAreNew(w, r, p, g, x)
  <2>1. \A i \in DOMAIN w : w[i].kind = "begin1" => w[i].n # n
    BY <1>2 DEF Offers
  <2>2. QED
    BY <1>1, <2>1 DEF LinkOK, Link, OffersAreNew
<1>6. HeldIsWhole(w, r, p, g, x)
  <2> SUFFICES ASSUME NEW k \in DOMAIN p, p[k].to = x, p[k].held
               PROVE  /\ ~Carries(w, "item", k)
                      /\ k \in DOMAIN g =>
                            \/ g[k].got = <<>> /\ g[k].announced = p[k].announced
                            \/ ~IsDue(g[k]) /\ p[k].state = "waiting" /\ ~Answered(r, k)
    BY DEF HeldIsWhole
  <2>1. CASE k = n
    BY <1>1, <1>2, <2>1
  <2>2. CASE k # n
    BY <1>1, <2>2 DEF LinkOK, Link, HeldIsWhole
  <2>3. QED
    BY <2>1, <2>2
<1>7. DueIsOpen(p, g, n, x, cut)
  BY <1>1, <1>2 DEF DueIsOpen
<1>8. QED
  BY <1>3, <1>4, <1>5, <1>6, <1>7 DEF LinkOK, Link, p

(* It opens one to x and offers it. *)
LEMMA LinkOffering ==
    ASSUME NEW w, NEW r, NEW o, NEW g, NEW m, NEW x, NEW cut,
           LinkOK(w, r, o, g, m, x, cut), NEW n, Fresh(w, r, o, g, m, n),
           NEW t \in Own, t.to = x, ~cut, t.state = "waiting",
           NEW b \in Item, b.kind = "begin1", b.n = n, b.announced = t.announced
    PROVE  LinkOK(w \o <<b>>, r, With(o, n, t), g, n, x, cut)
<1> DEFINE p == With(o, n, t)
           q == <<b>>
           v == w \o q
<1>1. LinkOK(w, r, p, g, n, x, cut)
  BY LinkOpened
<1>2. n \in DOMAIN p /\ p[n] = t
  BY DEF With
<1>3. /\ n \in Nat
      /\ \A i \in DOMAIN w : w[i].kind \in Offers => w[i].n # n
      /\ ~Carries(w, "item", n) /\ ~Answered(r, n)
      /\ n \in DOMAIN g => ~IsDue(g[n])
  BY FreshNumber
<1>4. w \in Seq(Item) /\ q \in Seq(Item) /\ Len(q) = 1 /\ q[1] = b
  BY DEF LinkOK, LinkTypes
<1> HIDE DEF p, q
<1>5. /\ Len(w) \in Nat /\ DOMAIN w = 1 .. Len(w) /\ DOMAIN q = 1 .. Len(q)
      /\ v \in Seq(Item) /\ DOMAIN v = 1 .. Len(w) + Len(q)
      /\ \A i \in 1 .. Len(w) : v[i] = w[i]
      /\ \A i \in Len(w) + 1 .. Len(w) + Len(q) : v[i] = q[i - Len(w)]
  BY <1>4, ConcatIndex
<1>6. ItemsGoOn(v, g)
  <2>1. \A k : ~Carries(q, "item", k)
    BY <1>4, <1>5 DEF Carries
  <2>2. \A k \in DOMAIN g : GoesOn(w, g[k], k)
    BY <1>1 DEF LinkOK, Link, ItemsGoOn
  <2>3. \A k \in DOMAIN g : GoesOn(v, g[k], k)
    BY <1>4, <2>1, <2>2, GoesOnAppend
  <2>4. QED
    BY <2>3 DEF ItemsGoOn
<1> HIDE DEF v
<1>7. \A i \in DOMAIN v : \/ i \in DOMAIN w /\ v[i] = w[i]
                          \/ i = Len(w) + 1 /\ v[i] = b
  <2> SUFFICES ASSUME NEW i \in DOMAIN v, i \notin 1 .. Len(w)
               PROVE  i = Len(w) + 1 /\ v[i] = b
    BY <1>5
  <2>1. i = Len(w) + 1 /\ i - Len(w) = 1 /\ i \in Len(w) + 1 .. Len(w) + Len(q)
    BY <1>4, <1>5
  <2>2. QED
    BY <1>4, <1>5, <2>1
<1>8. \A k : Carries(v, "item", k) => Carries(w, "item", k)
  BY <1>7 DEF Carries
<1>9. Numbered(v, r, p, n, x)
  <2>1. \A i \in DOMAIN v : v[i].kind \in {"begin1", "item"} => v[i].n <= n
    BY <1>1, <1>3, <1>7 DEF LinkOK, Link, Numbered
  <2>2. QED
    BY <1>1, <1>8, <2>1 DEF LinkOK, Link, Numbered
<1>10. OffersAreNew(v, r, p, g, x)
  <2> SUFFICES ASSUME NEW i \in DOMAIN v, v[i].kind = "begin1"
               PROVE  /\ ~Carries(v, "item", v[i].n) /\ ~Answered(r, v[i].n)
                      /\ \A j \in DOMAIN v : v[j].kind = "begin1" /\ v[j].n = v[i].n => j = i
                      /\ v[i].n \in DOMAIN p =>
                            /\ p[v[i].n].to = x /\ p[v[i].n].state = "waiting"
                            /\ p[v[i].n].announced = v[i].announced
                      /\ v[i].n \in DOMAIN g => ~IsDue(g[v[i].n])
    BY DEF OffersAreNew
  <2>1. CASE i \in DOMAIN w /\ v[i] = w[i]
    <3>1. v[i].n # n
      BY <1>3, <2>1 DEF Offers
    <3>2. /\ ~Carries(w, "item", v[i].n) /\ ~Answered(r, v[i].n)
          /\ \A j \in DOMAIN w : w[j].kind = "begin1" /\ w[j].n = v[i].n => j = i
          /\ v[i].n \in DOMAIN p =>
                /\ p[v[i].n].to = x /\ p[v[i].n].state = "waiting"
                /\ p[v[i].n].announced = v[i].announced
          /\ v[i].n \in DOMAIN g => ~IsDue(g[v[i].n])
      BY <1>1, <2>1 DEF LinkOK, Link, OffersAreNew
    <3>3. QED
      BY <1>7, <1>8, <3>1, <3>2
  <2>2. CASE i = Len(w) + 1 /\ v[i] = b
    <3>1. \A j \in DOMAIN v : v[j].kind = "begin1" /\ v[j].n = n => j = i
      BY <1>3, <1>7, <2>2 DEF Offers
    <3>2. QED
      BY <1>2, <1>3, <1>8, <2>2, <3>1
  <2>3. QED
    BY <1>7, <2>1, <2>2
<1>11. HeldIsWhole(v, r, p, g, x)
  BY <1>1, <1>8 DEF LinkOK, Link, HeldIsWhole
<1>12. QED
  BY <1>1, <1>5, <1>6, <1>9, <1>10, <1>11 DEF LinkOK, Link, LinkTypes, p, v, q

(***************************************************************************)
(* What losing the connection or the state does                            *)
(***************************************************************************)

LEMMA LinkStart ==
    ASSUME NEW w, NEW r, NEW o, NEW g, NEW m, NEW x, NEW cut,
           LinkOK(w, r, o, g, m, x, cut), NEW j \in 0 .. Len(w), NEW i \in 0 .. Len(r)
    PROVE  LinkOK(SubSeq(w, 1, j), SubSeq(r, 1, i), o, g, m, x, cut)
<1> DEFINE v == SubSeq(w, 1, j)
           q == SubSeq(r, 1, i)
<1>1. /\ w \in Seq(Item) /\ r \in Seq(Item)
      /\ \A n \in DOMAIN g : g[n] \in Incoming
  BY DEF LinkOK, LinkTypes, IncomingTyped
<1>2. ItemsGoOn(v, g)
  <2>1. \A n \in DOMAIN g : GoesOn(w, g[n], n)
    BY DEF LinkOK, Link, ItemsGoOn
  <2>2. \A n \in DOMAIN g : GoesOn(v, g[n], n)
    BY <1>1, <2>1, GoesOnStart
  <2>3. QED
    BY <2>2 DEF ItemsGoOn
<1>3. /\ Len(w) \in Nat /\ DOMAIN w = 1 .. Len(w) /\ v \in Seq(Item)
      /\ DOMAIN v = 1 .. j /\ \A k \in 1 .. j : v[k] = w[k]
  BY <1>1, StartIndex
<1>4. /\ Len(r) \in Nat /\ DOMAIN r = 1 .. Len(r) /\ q \in Seq(Item)
      /\ DOMAIN q = 1 .. i /\ \A k \in 1 .. i : q[k] = r[k]
  BY <1>1, StartIndex
<1> HIDE DEF v, q
<1>5. \A k \in DOMAIN v : k + 0 \in DOMAIN w /\ w[k + 0] = v[k]
  BY <1>3
<1>6. 0 \in Nat
  OBVIOUS
<1>7. LinkOK(v, r, o, g, m, x, cut)
  BY <1>2, <1>3, <1>5, <1>6, FewerItems
<1>8. \A k \in DOMAIN q : k \in DOMAIN r /\ r[k] = q[k]
  BY <1>4
<1>9. FewerOf(q, r, Replies)
  BY <1>8 DEF FewerOf
<1>10. QED
  BY <1>4, <1>7, <1>9, FewerReplies DEF v, q

LEMMA LinkLost ==
    ASSUME NEW w, NEW r, NEW o, NEW g, NEW m, NEW x, NEW cut,
           LinkOK(w, r, o, g, m, x, cut)
    PROVE  /\ LinkOK(<<>>, <<>>, o, NoTransactions, m, x, cut)
           /\ LinkOK(<<>>, <<>>, NoTransactions, g, 0, x, TRUE)
<1>1. /\ <<>> \in Seq(Item) /\ m \in Nat /\ OwnTyped(o) /\ IncomingTyped(g)
      /\ w \in Seq(Item) /\ r \in Seq(Item)
  BY DEF LinkOK, LinkTypes
<1>2. DOMAIN NoTransactions = {}
  BY DEF NoTransactions
<1>3. OwnTyped(NoTransactions) /\ IncomingTyped(NoTransactions)
  BY <1>2 DEF OwnTyped, IncomingTyped
<1>4. LinkOK(<<>>, <<>>, o, g, m, x, cut)
  <2>1. 0 \in 0 .. Len(w) /\ 0 \in 0 .. Len(r)
    BY <1>1, SeqIndex
  <2>2. SubSeq(w, 1, 0) = <<>> /\ SubSeq(r, 1, 0) = <<>>
    BY SubSeqEmpty
  <2>3. QED
    BY <2>1, <2>2, LinkStart
<1>5. LinkOK(<<>>, <<>>, o, NoTransactions, m, x, cut)
  <2>1. LinkTypes(<<>>, <<>>, o, NoTransactions, m)
    BY <1>1, <1>3 DEF LinkTypes
  <2>2. HeldIsWhole(<<>>, <<>>, o, NoTransactions, x)
    BY <1>2, <1>4 DEF LinkOK, Link, HeldIsWhole
  <2>3. OffersAreNew(<<>>, <<>>, o, NoTransactions, x)
    BY <1>2, <1>4 DEF LinkOK, Link, OffersAreNew
  <2>4. ItemsGoOn(<<>>, NoTransactions) /\ DueIsOpen(o, NoTransactions, m, x, cut)
    BY <1>2 DEF ItemsGoOn, DueIsOpen
  <2>5. QED
    BY <1>4, <2>1, <2>2, <2>3, <2>4 DEF LinkOK, Link
<1>6. LinkOK(<<>>, <<>>, NoTransactions, g, 0, x, TRUE)
  <2>1. LinkTypes(<<>>, <<>>, NoTransactions, g, 0)
    BY <1>1, <1>3 DEF LinkTypes
  <2>2. DOMAIN <<>> = {}
    OBVIOUS
  <2>3. /\ Numbered(<<>>, <<>>, NoTransactions, 0, x)
        /\ OffersAreNew(<<>>, <<>>, NoTransactions, g, x)
        /\ HeldIsWhole(<<>>, <<>>, NoTransactions, g, x)
    BY <1>2, <2>2 DEF Numbered, OffersAreNew, HeldIsWhole
  <2>4. DueIsOpen(NoTransactions, g, 0, x, TRUE)
    BY DEF DueIsOpen
  <2>5. QED
    BY <1>4, <2>1, <2>3, <2>4 DEF LinkOK, Link
<1>7. QED
  BY <1>5, <1>6

(* With nothing due, something may be left again. *)
LEMMA LinkConnected ==
    ASSUME NEW w, NEW r, NEW o, NEW g, NEW m, NEW x, NEW cut, NEW cut2,
           LinkOK(w, r, o, g, m, x, cut), \A n \in DOMAIN g : ~IsDue(g[n])
    PROVE  LinkOK(w, r, o, g, m, x, cut2)
BY DEF LinkOK, Link, DueIsOpen

(***************************************************************************)
(* All directions at once                                                  *)
(***************************************************************************)

Linking(x, y) ==
    LinkOK(wire[y][x], wire[x][y], own[y], incoming[x][y], transN[y], x, Cut(x, y))

LEMMA LinkingHolds ==
    ASSUME IInv, NEW x \in Peers, NEW y \in Peers, x # y
    PROVE  Linking(x, y)
<1>1. /\ OwnOK(own) /\ IncomingOK(incoming) /\ transN \in [Peers -> Nat] /\ wire \in Wires
  BY TypeParts DEF IInv
<1>2. LinkTypes(wire[y][x], wire[x][y], own[y], incoming[x][y], transN[y])
  BY <1>1 DEF LinkTypes, OwnOK, IncomingOK, Wires
<1>3. QED
  BY <1>2 DEF IInv, Linked, Linking, LinkOK

LEMMA Becomes ==
    ASSUME NEW x, NEW y, NEW w, NEW r, NEW o, NEW g, NEW m,
           LinkOK(w, r, o, g, m, x, Cut(x, y)), Cut(x, y) => Cut(x, y)',
           wire'[y][x] = w, wire'[x][y] = r, own'[y] = o, incoming'[x][y] = g,
           transN'[y] = m
    PROVE  Linking(x, y)'
<1>1. LinkOK(w, r, o, g, m, x, Cut(x, y)')
  BY LinkCut
<1>2. QED
  BY <1>1 DEF Linking

(* Nothing becomes of two between whom nothing is left. *)
LEMMA CutKept ==
    ASSUME NEW x, NEW y, Cut(x, y), Connected(x, y)' => Connected(x, y),
           wire'[x][y] = wire[x][y], wire'[y][x] = wire[y][x],
           incoming'[y][x] = incoming[y][x],
           \A n \in DOMAIN own'[y] : own'[y][n].to = x =>
               \E k \in DOMAIN own[y] : own[y][k].to = x
    PROVE  Cut(x, y)'
BY DEF Cut

LEMMA StaysLinked ==
    ASSUME NEW x, NEW y, Linking(x, y), Connected(x, y)' => Connected(x, y),
           wire'[x][y] = wire[x][y], wire'[y][x] = wire[y][x],
           incoming'[x][y] = incoming[x][y], own'[y] = own[y], transN'[y] = transN[y],
           incoming'[y][x] = incoming[y][x]
    PROVE  Linking(x, y)'
<1>1. Cut(x, y) => Cut(x, y)'
  BY CutKept
<1>2. QED
  BY <1>1, Becomes DEF Linking

(* A step of x changes what is between x and others only. *)
LEMMA OfOne ==
    ASSUME IInv, NEW x \in Peers,
           \A a, b \in Peers \ {x} :
               /\ wire'[a][b] = wire[a][b] /\ incoming'[a][b] = incoming[a][b]
               /\ {a, b} \in up' => {a, b} \in up,
           \A b \in Peers \ {x} : own'[b] = own[b] /\ transN'[b] = transN[b],
           \A z \in Peers \ {x} : Linking(x, z)' /\ Linking(z, x)'
    PROVE  Linked'
<1>1. ASSUME NEW p \in Peers, NEW q \in Peers, p # q PROVE Linking(p, q)'
  <2>1. CASE p = x \/ q = x
    BY <1>1, <2>1
  <2>2. CASE p # x /\ q # x
    <3>1. Linking(p, q)
      BY <1>1, LinkingHolds
    <3>2. /\ p \in Peers \ {x} /\ q \in Peers \ {x}
          /\ Connected(p, q)' => Connected(p, q)
      BY <2>2 DEF Connected
    <3>3. QED
      BY <3>1, <3>2, StaysLinked
  <2>3. QED
    BY <2>1, <2>2
<1>2. QED
  BY <1>1 DEF Linked, Linking, LinkOK

LEMMA SentAt ==
    ASSUME NEW w \in Wires, NEW x \in Peers, NEW y \in Peers, NEW items,
           NEW a \in Peers, NEW b \in Peers
    PROVE  Sent(w, x, y, items)[a][b] =
               IF a = x /\ b = y /\ Connected(x, y) THEN w[x][y] \o items ELSE w[a][b]
BY DEF Sent, Wires

LEMMA TakenAt ==
    ASSUME wire \in Wires, NEW x \in Peers, NEW y \in Peers,
           NEW a \in Peers, NEW b \in Peers
    PROVE  Taken(x, y)[a][b] =
               IF a = y /\ b = x THEN Tail(wire[y][x]) ELSE wire[a][b]
BY DEF Taken, Wires

LEMMA Whole ==
    ASSUME IInv
    PROVE  /\ OwnOK(own) /\ IncomingOK(incoming) /\ StampsOK /\ ExchangeOK
           /\ transN \in [Peers -> Nat] /\ wire \in Wires
           /\ DOMAIN own = Peers /\ DOMAIN incoming = Peers
           /\ \A x \in Peers :
                 /\ DOMAIN incoming[x] = Peers
                 /\ {x} \notin up /\ wire[x][x] = <<>> /\ incoming[x][x] = NoTransactions
                 /\ \A n \in DOMAIN own[x] : n \in Nat /\ own[x][n] \in Own
                 /\ \A y \in Peers : \A n \in DOMAIN incoming[x][y] :
                       n \in Nat /\ incoming[x][y][n] \in Incoming
                 /\ \A y \in Peers : wire[x][y] \in Seq(Item)
<1>1. /\ OwnOK(own) /\ IncomingOK(incoming) /\ StampsOK /\ ExchangeOK
      /\ transN \in [Peers -> Nat] /\ wire \in Wires
  BY TypeParts DEF IInv
<1>2. QED
  BY <1>1 DEF OwnOK, IncomingOK, OwnTyped, IncomingTyped, Wires, IInv, NotToSelf

(***************************************************************************)
(* Every step keeps the peers linked                                       *)
(***************************************************************************)

LEMMA LinkedQuiet ==
    ASSUME IInv, UNCHANGED <<transN, own, incoming, wire, up>>
    PROVE  Linked'
<1>1. \A x, y \in Peers : Connected(x, y)' = Connected(x, y)
  BY DEF Connected
<1>2. \A x, y \in Peers : x # y => Linking(x, y)'
  BY <1>1, LinkingHolds, StaysLinked
<1>3. QED
  BY <1>2 DEF Linked, Linking, LinkOK

LEMMA LinkedSync ==
    ASSUME IInv, NEW x \in Peers, NEW y \in Peers, Sync(x, y)
    PROVE  Linked'
<1> DEFINE b == [kind |-> "sync", ts |-> clientTS[x][y]]
<1>1. /\ x # y /\ Connected(x, y) /\ wire' = Sent(wire, x, y, <<b>>)
      /\ UNCHANGED <<transN, own, incoming, up>>
  BY DEF Sync
<1>2. b \in Item /\ b.kind = "sync"
  BY Whole, ItemTypes DEF StampsOK
<1> HIDE DEF b
<1>3. \A a, c \in Peers : wire'[a][c] = IF a = x /\ c = y THEN wire[x][y] \o <<b>> ELSE wire[a][c]
  BY <1>1, Whole, SentAt
<1>4. \A a, c \in Peers : Connected(a, c)' = Connected(a, c)
  BY <1>1 DEF Connected
<1>5. ASSUME NEW z \in Peers \ {x} PROVE Linking(x, z)' /\ Linking(z, x)'
  <2>1. Linking(x, z) /\ Linking(z, x)
    BY LinkingHolds
  <2>2. CASE z # y
    BY <1>1, <1>3, <1>4, <2>1, <2>2, StaysLinked
  <2>3. CASE z = y
    <3>1. wire'[x][z] = wire[x][z] \o <<b>> /\ wire'[z][x] = wire[z][x]
      BY <1>1, <1>3, <2>3
    <3>2. ~Cut(x, z) /\ ~Cut(z, x)
      BY <1>1, <2>3 DEF Cut, Connected
    <3>3. Linking(x, z)'
      <4>1. <<b>> \in Seq(Item) /\ \A i \in DOMAIN <<b>> : <<b>>[i].kind \notin Replies
        BY <1>2 DEF Replies
      <4>2. LinkOK(wire[z][x], wire[x][z] \o <<b>>, own[z], incoming[x][z], transN[z], x, Cut(x, z))
        BY <2>1, <4>1, LinkBack DEF Linking
      <4>3. QED
        BY <1>1, <3>1, <3>2, <4>2, Becomes
    <3>4. Linking(z, x)'
      <4>1. LinkOK(wire[x][z] \o <<b>>, wire[z][x], own[x], incoming[z][x], transN[x], z, Cut(z, x))
        BY <1>2, <2>1, LinkAppend DEF Linking, Offers
      <4>2. QED
        BY <1>1, <3>1, <3>2, <4>1, Becomes
    <3>5. QED
      BY <3>3, <3>4
  <2>4. QED
    BY <2>2, <2>3
<1>6. QED
  BY <1>1, <1>3, <1>5, OfOne

LEMMA LinkedBegin1 ==
    ASSUME IInv, NEW x \in Peers, NEW y \in Peers, RecvBegin1(x, y)
    PROVE  Linked'
<1> DEFINE b == Head(wire[y][x])
           t == [type |-> b.type, announced |-> b.announced, ts |-> b.ts,
                 got |-> <<>>, state |-> "starting"]
<1>1. /\ wire[y][x] # <<>> /\ b.kind = "begin1" /\ wire' = Taken(x, y)
      /\ incoming' = IF b.n \in DOMAIN incoming[x][y] THEN incoming
                     ELSE [incoming EXCEPT ![x][y] = With(@, b.n, t)]
      /\ UNCHANGED <<transN, own, up>>
  BY DEF RecvBegin1, Arrives
<1>2. b \in Item /\ x # y
  BY <1>1, Whole, TailIndex
<1>3. t \in Incoming /\ t.got = <<>> /\ t.announced = b.announced
  BY <1>1, <1>2, ItemTypes DEF Incoming
<1> HIDE DEF t
<1>4. /\ \A a, c \in Peers : wire'[a][c] = IF a = y /\ c = x THEN Tail(wire[y][x]) ELSE wire[a][c]
      /\ \A a, c \in Peers : incoming'[a][c] =
            IF a = x /\ c = y /\ b.n \notin DOMAIN incoming[x][y]
            THEN With(incoming[x][y], b.n, t) ELSE incoming[a][c]
  <2>1. \A a, c \in Peers : wire'[a][c] = IF a = y /\ c = x THEN Tail(wire[y][x]) ELSE wire[a][c]
    BY <1>1, Whole, TakenAt
  <2> HIDE DEF b
  <2>2. \A a, c \in Peers : incoming'[a][c] =
            IF a = x /\ c = y /\ b.n \notin DOMAIN incoming[x][y]
            THEN With(incoming[x][y], b.n, t) ELSE incoming[a][c]
    BY <1>1, Whole
  <2>3. QED
    BY <2>1, <2>2
<1>5. \A a, c \in Peers : Connected(a, c)' = Connected(a, c)
  BY <1>1 DEF Connected
<1>6. ASSUME NEW z \in Peers \ {x} PROVE Linking(x, z)' /\ Linking(z, x)'
  <2>1. Linking(x, z) /\ Linking(z, x)
    BY LinkingHolds
  <2>2. CASE z # y
    BY <1>1, <1>4, <1>5, <2>1, <2>2, StaysLinked
  <2>3. CASE z = y
    <3>1. /\ wire'[x][z] = wire[x][z] /\ wire'[z][x] = Tail(wire[z][x])
          /\ incoming'[z][x] = incoming[z][x]
      BY <1>2, <1>4, <2>3
    <3>2. ~Cut(x, z) /\ ~Cut(z, x)
      BY <1>1, <2>3 DEF Cut
    <3>3. Linking(x, z)'
      <4>1. LinkOK(Tail(wire[z][x]), wire[x][z], own[z], incoming'[x][z], transN[z], x, Cut(x, z))
        <5>1. CASE b.n \in DOMAIN incoming[x][z]
          <6>1. incoming'[x][z] = incoming[x][z]
            BY <1>4, <2>3, <5>1
          <6>2. QED
            BY <1>1, <2>1, <2>3, <6>1, LinkTail DEF Linking
        <5>2. CASE b.n \notin DOMAIN incoming[x][z]
          <6>1. incoming'[x][z] = With(incoming[x][z], b.n, t)
            BY <1>4, <2>3, <5>2
          <6>2. QED
            BY <1>1, <1>3, <2>1, <2>3, <5>2, <6>1, LinkOffered DEF Linking
        <5>3. QED
          BY <5>1, <5>2
      <4>2. QED
        BY <1>1, <3>1, <3>2, <4>1, Becomes
    <3>4. Linking(z, x)'
      <4>1. LinkOK(wire[x][z], Tail(wire[z][x]), own[x], incoming[z][x], transN[x], z, Cut(z, x))
        BY <1>1, <2>1, <2>3, LinkBackTail DEF Linking
      <4>2. QED
        BY <1>1, <3>1, <3>2, <4>1, Becomes
    <3>5. QED
      BY <3>3, <3>4
  <2>4. QED
    BY <2>2, <2>3
<1>7. QED
  BY <1>1, <1>2, <1>4, <1>6, OfOne

LEMMA LinkedItem ==
    ASSUME IInv, NEW x \in Peers, NEW y \in Peers, RecvItem(x, y)
    PROVE  Linked'
<1> DEFINE b == Head(wire[y][x])
           u == incoming[x][y][b.n]
           t == [u EXCEPT !.got = Append(@, b.message)]
<1>1. /\ wire[y][x] # <<>> /\ b.kind = "item" /\ wire' = Taken(x, y)
      /\ incoming' = IF b.n \notin DOMAIN incoming[x][y] THEN incoming
                     ELSE [incoming EXCEPT ![x][y][b.n] = t]
      /\ UNCHANGED <<transN, own, up>>
  BY Whole DEF RecvItem, Arrives
<1>2. b \in Item /\ x # y
  BY <1>1, Whole, TailIndex
<1>3. b.n \in DOMAIN incoming[x][y] =>
        t \in Incoming /\ t.announced = u.announced /\ t.got = Append(u.got, b.message)
  <2>1. b.message \in Messages
    BY <1>1, <1>2, ItemTypes
  <2>2. b.n \in DOMAIN incoming[x][y] => u \in Incoming
    BY Whole
  <2> HIDE DEF b, u
  <2>3. u \in Incoming => /\ t \in Incoming /\ t.announced = u.announced
                          /\ t.got = Append(u.got, b.message)
    BY <2>1 DEF Incoming
  <2>4. QED
    BY <2>2, <2>3
<1> HIDE DEF t
<1>4. /\ \A a, c \in Peers : wire'[a][c] = IF a = y /\ c = x THEN Tail(wire[y][x]) ELSE wire[a][c]
      /\ \A a, c \in Peers : incoming'[a][c] =
            IF a = x /\ c = y /\ b.n \in DOMAIN incoming[x][y]
            THEN [incoming[x][y] EXCEPT ![b.n] = t] ELSE incoming[a][c]
  <2>1. \A a, c \in Peers : wire'[a][c] = IF a = y /\ c = x THEN Tail(wire[y][x]) ELSE wire[a][c]
    BY <1>1, Whole, TakenAt
  <2> HIDE DEF b
  <2>2. \A a, c \in Peers : incoming'[a][c] =
            IF a = x /\ c = y /\ b.n \in DOMAIN incoming[x][y]
            THEN [incoming[x][y] EXCEPT ![b.n] = t] ELSE incoming[a][c]
    BY <1>1, Whole
  <2>3. QED
    BY <2>1, <2>2
<1>5. \A a, c \in Peers : Connected(a, c)' = Connected(a, c)
  BY <1>1 DEF Connected
<1>6. ASSUME NEW z \in Peers \ {x} PROVE Linking(x, z)' /\ Linking(z, x)'
  <2>1. Linking(x, z) /\ Linking(z, x)
    BY LinkingHolds
  <2>2. CASE z # y
    BY <1>1, <1>4, <1>5, <2>1, <2>2, StaysLinked
  <2>3. CASE z = y
    <3>1. /\ wire'[x][z] = wire[x][z] /\ wire'[z][x] = Tail(wire[z][x])
          /\ incoming'[z][x] = incoming[z][x]
      BY <1>2, <1>4, <2>3
    <3>2. ~Cut(x, z) /\ ~Cut(z, x)
      BY <1>1, <2>3 DEF Cut
    <3>3. Linking(x, z)'
      <4>1. LinkOK(Tail(wire[z][x]), wire[x][z], own[z], incoming'[x][z], transN[z], x, Cut(x, z))
        <5>1. CASE b.n \notin DOMAIN incoming[x][z]
          <6>1. incoming'[x][z] = incoming[x][z]
            BY <1>4, <2>3, <5>1
          <6>2. QED
            BY <1>1, <2>1, <2>3, <5>1, <6>1, LinkTail DEF Linking
        <5>2. CASE b.n \in DOMAIN incoming[x][z]
          <6>1. incoming'[x][z] = [incoming[x][z] EXCEPT ![b.n] = t]
            BY <1>4, <2>3, <5>2
          <6> DEFINE w == wire[z][x]
                     g == incoming[x][z]
          <6>2. /\ w # <<>> /\ Head(w).kind = "item" /\ Head(w).n \in DOMAIN g
                /\ t \in Incoming /\ t.announced = g[Head(w).n].announced
                /\ t.got = Append(g[Head(w).n].got, Head(w).message)
            BY <1>1, <1>3, <2>3, <5>2
          <6>3. LinkOK(w, wire[x][z], own[z], g, transN[z], x, Cut(x, z))
            BY <2>1 DEF Linking
          <6>4. incoming'[x][z] = [g EXCEPT ![Head(w).n] = t]
            BY <2>3, <6>1
          <6> HIDE DEF w, g
          <6>5. LinkOK(Tail(w), wire[x][z], own[z], [g EXCEPT ![Head(w).n] = t],
                       transN[z], x, Cut(x, z))
            BY <6>2, <6>3, LinkItem
          <6>6. QED
            BY <6>4, <6>5 DEF w
        <5>3. QED
          BY <5>1, <5>2
      <4>2. QED
        BY <1>1, <3>1, <3>2, <4>1, Becomes
    <3>4. Linking(z, x)'
      <4>1. LinkOK(wire[x][z], Tail(wire[z][x]), own[x], incoming[z][x], transN[x], z, Cut(z, x))
        BY <1>1, <2>1, <2>3, LinkBackTail DEF Linking
      <4>2. QED
        BY <1>1, <3>1, <3>2, <4>1, Becomes
    <3>5. QED
      BY <3>3, <3>4
  <2>4. QED
    BY <2>2, <2>3
<1>7. QED
  BY <1>1, <1>2, <1>4, <1>6, OfOne

LEMMA LinkedReply ==
    ASSUME IInv, NEW x \in Peers, NEW y \in Peers, RecvReply(x, y)
    PROVE  Linked'
<1> DEFINE r == Head(wire[y][x])
           t == [own[x][r.n] EXCEPT !.state = IF r.kind = "end" THEN "completed" ELSE "sending"]
<1>1. /\ wire[y][x] # <<>> /\ r.kind \in Replies /\ wire' = Taken(x, y)
      /\ own' = IF r.n \notin DOMAIN own[x] THEN own ELSE [own EXCEPT ![x][r.n] = t]
      /\ UNCHANGED <<transN, incoming, up>>
  BY Whole DEF RecvReply, Arrives, Replies
<1>2. x # y /\ Answered(wire[y][x], r.n)
  <2>1. x # y
    BY <1>1, Whole
  <2>2. r = wire[y][x][1] /\ 1 \in DOMAIN wire[y][x]
    <3>1. wire[y][x] \in Seq(Item)
      BY Whole
    <3>2. Len(wire[y][x]) \in Nat \ {0} /\ DOMAIN wire[y][x] = 1 .. Len(wire[y][x])
          /\ Head(wire[y][x]) = wire[y][x][1]
      BY <1>1, <3>1, TailIndex
    <3>3. QED
      BY <3>2
  <2>3. QED
    BY <1>1, <2>1, <2>2 DEF Answered, Carries, Replies
<1>3. r.n \in DOMAIN own[x] =>
        /\ t \in Own /\ t.to = own[x][r.n].to /\ t.announced = own[x][r.n].announced
        /\ t.held = own[x][r.n].held /\ own[x][r.n].to = y
  <2>1. r.n \in DOMAIN own[x] => own[x][r.n] \in Own
    BY Whole
  <2>2. r.n \in DOMAIN own[x] => own[x][r.n].to = y
    <3>1. Linking(y, x)
      BY <1>2, LinkingHolds
    <3>2. QED
      BY <1>2, <3>1 DEF Linking, LinkOK, Link, Numbered
  <2> HIDE DEF r
  <2>3. QED
    BY <2>1, <2>2 DEF Own
<1> HIDE DEF t
<1>4. /\ \A a, c \in Peers : wire'[a][c] = IF a = y /\ c = x THEN Tail(wire[y][x]) ELSE wire[a][c]
      /\ \A a \in Peers : own'[a] =
            IF a = x /\ r.n \in DOMAIN own[x] THEN [own[x] EXCEPT ![r.n] = t] ELSE own[a]
  <2>1. \A a, c \in Peers : wire'[a][c] = IF a = y /\ c = x THEN Tail(wire[y][x]) ELSE wire[a][c]
    BY <1>1, Whole, TakenAt
  <2> HIDE DEF r
  <2>2. \A a \in Peers : own'[a] =
            IF a = x /\ r.n \in DOMAIN own[x] THEN [own[x] EXCEPT ![r.n] = t] ELSE own[a]
    BY <1>1, Whole
  <2>3. QED
    BY <2>1, <2>2
<1>5. \A a, c \in Peers : Connected(a, c)' = Connected(a, c)
  BY <1>1 DEF Connected
<1> HIDE DEF r
<1>6. ASSUME NEW z \in Peers \ {x} PROVE Linking(x, z)' /\ Linking(z, x)'
  <2>1. Linking(x, z) /\ Linking(z, x)
    BY LinkingHolds
  <2>2. CASE z # y
    <3>1. wire'[x][z] = wire[x][z] /\ wire'[z][x] = wire[z][x] /\ own'[z] = own[z]
      BY <1>2, <1>4, <2>2
    <3>2. Linking(x, z)'
      BY <1>1, <1>5, <2>1, <3>1, StaysLinked
    <3>3. Linking(z, x)'
      <4>1. LinkOK(wire[x][z], wire[z][x], own'[x], incoming[z][x], transN[x], z, Cut(z, x))
        <5>1. CASE r.n \notin DOMAIN own[x]
          BY <1>4, <2>1, <5>1 DEF Linking
        <5>2. CASE r.n \in DOMAIN own[x]
          <6>1. own'[x] = [own[x] EXCEPT ![r.n] = t]
            BY <1>4, <5>2
          <6>2. QED
            BY <1>3, <2>1, <2>2, <5>2, <6>1, LinkElsewhere DEF Linking
        <5>3. QED
          BY <5>1, <5>2
      <4>2. Cut(z, x) => Cut(z, x)'
        <5>1. \A n \in DOMAIN own'[x] : n \in DOMAIN own[x] /\ own'[x][n].to = own[x][n].to
          BY <1>3, <1>4
        <5>2. incoming'[x][z] = incoming[x][z] /\ (Connected(z, x)' => Connected(z, x))
          BY <1>1, <1>5
        <5>3. QED
          BY <3>1, <5>1, <5>2, CutKept
      <4>3. QED
        BY <1>1, <3>1, <4>1, <4>2, Becomes
    <3>4. QED
      BY <3>2, <3>3
  <2>3. CASE z = y
    <3>1. wire'[x][z] = wire[x][z] /\ wire'[z][x] = Tail(wire[z][x]) /\ own'[z] = own[z]
      BY <1>2, <1>4, <2>3
    <3>2. ~Cut(x, z) /\ ~Cut(z, x)
      BY <1>1, <2>3 DEF Cut
    <3>3. Linking(x, z)'
      <4>1. Head(wire[z][x]).kind # "item"
        BY <1>1, <2>3 DEF Replies, r
      <4>2. LinkOK(Tail(wire[z][x]), wire[x][z], own[z], incoming[x][z], transN[z], x, Cut(x, z))
        BY <1>1, <2>1, <2>3, <4>1, LinkTail DEF Linking
      <4>3. QED
        BY <1>1, <3>1, <3>2, <4>2, Becomes
    <3>4. Linking(z, x)'
      <4>1. LinkOK(wire[x][z], wire[z][x], own'[x], incoming[z][x], transN[x], z, Cut(z, x))
        <5>1. CASE r.n \notin DOMAIN own[x]
          BY <1>4, <2>1, <5>1 DEF Linking
        <5>2. CASE r.n \in DOMAIN own[x]
          <6>1. own'[x] = [own[x] EXCEPT ![r.n] = t] /\ Answered(wire[z][x], r.n)
            BY <1>2, <1>4, <2>3, <5>2
          <6>2. QED
            BY <1>3, <2>1, <5>2, <6>1, LinkReplied DEF Linking
        <5>3. QED
          BY <5>1, <5>2
      <4>2. LinkOK(wire[x][z], Tail(wire[z][x]), own'[x], incoming[z][x], transN[x], z, Cut(z, x))
        BY <1>1, <2>3, <4>1, LinkBackTail
      <4>3. QED
        BY <1>1, <3>1, <3>2, <4>2, Becomes
    <3>5. QED
      BY <3>3, <3>4
  <2>4. QED
    BY <2>2, <2>3
<1>7. QED
  BY <1>1, <1>2, <1>4, <1>6, OfOne

(* What x has opened is forgotten. *)
LEMMA LinkedDropped ==
    ASSUME IInv, NEW x \in Peers, NEW n, own' = [own EXCEPT ![x] = Without(@, n)],
           UNCHANGED <<transN, incoming, wire, up>>
    PROVE  Linked'
<1>1. \A a \in Peers : own'[a] = IF a = x THEN Without(own[x], n) ELSE own[a]
  BY Whole
<1>2. \A a, c \in Peers : Connected(a, c)' = Connected(a, c)
  BY DEF Connected
<1>3. ASSUME NEW z \in Peers \ {x} PROVE Linking(x, z)' /\ Linking(z, x)'
  <2>1. Linking(x, z) /\ Linking(z, x)
    BY LinkingHolds
  <2>2. Linking(x, z)'
    BY <1>1, <1>2, <2>1, StaysLinked
  <2>3. LinkOK(wire[x][z], wire[z][x], own'[x], incoming[z][x], transN[x], z, Cut(z, x))
    BY <1>1, <2>1, LinkDropped DEF Linking
  <2>4. Cut(z, x) => Cut(z, x)'
    <3>1. \A k \in DOMAIN own'[x] : k \in DOMAIN own[x] /\ own'[x][k] = own[x][k]
      BY <1>1 DEF Without
    <3>2. QED
      BY <1>2, <3>1, CutKept
  <2>5. Linking(z, x)'
    BY <2>3, <2>4, Becomes
  <2>6. QED
    BY <2>2, <2>5
<1>4. QED
  BY <1>1, <1>3, OfOne

LEMMA LinkedOwnTick ==
    ASSUME IInv, NEW x \in Peers, NEW n \in DOMAIN own[x], OwnTick(x, n)
    PROVE  Linked'
<1> DEFINE t == own[x][n]
           new == [t EXCEPT !.held = FALSE, !.state = "waiting"]
           s == Items(n, t.announced)
<1>1. n \in Nat /\ t \in Own
  BY Whole
<1>2. t.to \in Peers /\ t.announced \in Seq(Messages)
  BY <1>1 DEF Own
<1>3. t.state \in {"sending", "completed"} /\ UNCHANGED <<transN, incoming, up>>
  BY <1>1 DEF OwnTick, Own
<1>4. CASE t.state = "completed"
  <2>1. own' = [own EXCEPT ![x] = Without(@, n)] /\ UNCHANGED wire
    BY <1>4 DEF OwnTick
  <2>2. QED
    BY <1>3, <2>1, LinkedDropped
<1>5. CASE t.state = "sending"
  <2>1. /\ wire' = IF t.held THEN Sent(wire, x, t.to, s) ELSE wire
        /\ own' = [own EXCEPT ![x][n] = new]
    <3>1. /\ wire' = IF t.held THEN Sent(wire, x, t.to, s) ELSE wire
          /\ own' = [own EXCEPT ![x][n].held = FALSE, ![x][n].state = "waiting"]
      BY <1>5 DEF OwnTick, Items
    <3>2. QED
      BY <3>1, Whole
  <2>2. s \in Seq(Item) /\ \A i \in DOMAIN s : s[i].kind \notin Replies
    <3>1. DOMAIN s = DOMAIN t.announced /\ \A i \in DOMAIN s : s[i].kind = "item"
      BY DEF Items
    <3>2. QED
      BY <1>1, <1>2, <3>1, ItemsType DEF Replies
  <2>3. \A a \in Peers : own'[a] = IF a = x THEN [own[x] EXCEPT ![n] = new] ELSE own[a]
    BY <2>1, Whole
  <2>4. new \in Own /\ new.to = t.to /\ ~new.held /\ t.state # "waiting"
    <3> HIDE DEF t
    <3>1. QED
      BY <1>1, <1>5 DEF Own
  <2> HIDE DEF new, s
  <2>5. \A a, c \in Peers : wire'[a][c] =
           IF t.held /\ a = x /\ c = t.to /\ Connected(x, t.to) THEN wire[a][c] \o s
           ELSE wire[a][c]
    <3> HIDE DEF t
    <3>1. QED
      BY <1>2, <2>1, Whole, SentAt
  <2>6. \A a, c \in Peers : Connected(a, c)' = Connected(a, c)
    BY <1>3 DEF Connected
  <2>7. ASSUME NEW z \in Peers \ {x} PROVE Linking(x, z)' /\ Linking(z, x)'
    <3>1. Linking(x, z) /\ Linking(z, x)
      BY LinkingHolds
    <3> DEFINE sent == t.held /\ z = t.to /\ Connected(x, z)
    <3>2. /\ wire'[z][x] = wire[z][x]
          /\ wire'[x][z] = IF sent THEN wire[x][z] \o s ELSE wire[x][z]
          /\ own'[z] = own[z] /\ own'[x] = [own[x] EXCEPT ![n] = new]
      BY <2>3, <2>5
    <3>3. Cut(x, z) => Cut(x, z)'
      <4>1. Cut(x, z) => ~sent
        BY DEF Cut
      <4>2. QED
        BY <1>3, <2>6, <3>2, <4>1, CutKept
    <3>4. Cut(z, x) => Cut(z, x)'
      <4>1. Cut(z, x) => ~sent
        BY DEF Cut, Connected
      <4>2. \A k \in DOMAIN own'[x] : k \in DOMAIN own[x] /\ own'[x][k].to = own[x][k].to
        BY <2>4, <3>2
      <4>3. QED
        BY <1>3, <2>6, <3>2, <4>1, <4>2, CutKept
    <3>5. Linking(x, z)'
      <4>1. LinkOK(wire[z][x], wire'[x][z], own[z], incoming[x][z], transN[z], x, Cut(x, z))
        BY <2>2, <3>1, <3>2, LinkBack DEF Linking
      <4>2. QED
        BY <1>3, <3>2, <3>3, <4>1, Becomes
    <3>6. Linking(z, x)'
      <4>1. LinkOK(wire'[x][z], wire[z][x], own'[x], incoming[z][x], transN[x], z, Cut(z, x))
        <5>1. CASE sent
          <6> DEFINE o == own[x]
          <6>1. /\ wire'[x][z] = wire[x][z] \o Items(n, o[n].announced)
                /\ own'[x] = [o EXCEPT ![n] = new]
            BY <3>2, <5>1 DEF s
          <6>2. /\ n \in DOMAIN o /\ o[n].state # "waiting" /\ o[n].to = z /\ o[n].held
                /\ new \in Own /\ new.to = z /\ ~new.held
            BY <2>4, <5>1
          <6>3. LinkOK(wire[x][z], wire[z][x], o, incoming[z][x], transN[x], z, Cut(z, x))
            BY <3>1 DEF Linking
          <6> HIDE DEF o, t, sent
          <6>4. LinkOK(wire[x][z] \o Items(n, o[n].announced), wire[z][x],
                       [o EXCEPT ![n] = new], incoming[z][x], transN[x], z, Cut(z, x))
            BY <6>2, <6>3, LinkItemsSent
          <6>5. QED
            BY <6>1, <6>4
        <5>2. CASE ~sent
          BY <2>4, <3>1, <3>2, <5>2, LinkLetGo DEF Linking
        <5>3. QED
          BY <5>1, <5>2
      <4>2. QED
        BY <1>3, <3>2, <3>4, <4>1, Becomes
    <3>7. QED
      BY <3>5, <3>6
  <2>8. QED
    BY <1>3, <2>3, <2>5, <2>7, OfOne
<1>6. QED
  BY <1>3, <1>4, <1>5

(* x moves a transaction of y on, with or without a word to y. *)
LEMMA LinkedMovedOn ==
    ASSUME IInv, NEW x \in Peers, NEW y \in Peers, NEW n \in DOMAIN incoming[x][y],
           Start(x, y, n) \/ AllReceived(x, y, n)
    PROVE  Linked'
<1> DEFINE t == incoming[x][y][n]
           new(s) == [t EXCEPT !.state = s]
           b == [kind |-> "begin2", n |-> n]
<1>1. n \in Nat /\ t \in Incoming /\ x # y
  <2>1. n \in Nat /\ t \in Incoming
    BY Whole
  <2>2. incoming[x][x] = NoTransactions
    BY Whole
  <2>3. DOMAIN NoTransactions = {}
    BY DEF NoTransactions
  <2> HIDE DEF t
  <2>4. QED
    BY <2>1, <2>2, <2>3
<1>2. /\ IsDue(t) /\ UNCHANGED <<transN, own, up>>
      /\ wire' = wire \/ wire' = Sent(wire, x, y, <<b>>)
  BY DEF Start, AllReceived, IncomingTick
<1>3. PICK s \in {"receiving", "completed"} : incoming' = [incoming EXCEPT ![x][y][n] = new(s)]
  BY Whole DEF Start, AllReceived
<1>4. new(s) \in Incoming /\ new(s).got = t.got /\ new(s).announced = t.announced
  <2> HIDE DEF t
  <2>1. QED
    BY <1>1 DEF Incoming
<1>5. b \in Item /\ b.kind \in Replies /\ b.n = n
  BY <1>1, ItemTypes DEF Replies
<1>6. \A a, c \in Peers : incoming'[a][c] =
        IF a = x /\ c = y THEN [incoming[x][y] EXCEPT ![n] = new(s)] ELSE incoming[a][c]
  BY <1>3, Whole
<1> HIDE DEF new, b
<1> DEFINE sent == wire' # wire /\ Connected(x, y)
<1>7. \A a, c \in Peers : wire'[a][c] =
         IF sent /\ a = x /\ c = y THEN wire[a][c] \o <<b>> ELSE wire[a][c]
  <2>1. CASE wire' = wire
    BY <2>1
  <2>2. CASE wire' = Sent(wire, x, y, <<b>>) /\ wire' # wire
    BY <2>2, Whole, SentAt
  <2>3. QED
    BY <1>2, <2>1, <2>2
<1> HIDE DEF sent
<1>8. \A a, c \in Peers : Connected(a, c)' = Connected(a, c)
  BY <1>2 DEF Connected
<1>9. ASSUME NEW z \in Peers \ {x} PROVE Linking(x, z)' /\ Linking(z, x)'
  <2>1. Linking(x, z) /\ Linking(z, x)
    BY LinkingHolds
  <2>2. CASE z # y
    BY <1>2, <1>6, <1>7, <1>8, <2>1, <2>2, StaysLinked
  <2>3. CASE z = y
    <3>1. /\ wire'[z][x] = wire[z][x]
          /\ wire'[x][z] = IF sent THEN wire[x][z] \o <<b>> ELSE wire[x][z]
          /\ incoming'[x][z] = [incoming[x][z] EXCEPT ![n] = new(s)]
          /\ incoming'[z][x] = incoming[z][x]
      BY <1>1, <1>6, <1>7, <2>3
    <3>2. sent => ~Cut(x, z)
      BY <2>3 DEF Cut, sent
    <3>3. Cut(x, z) => Cut(x, z)'
      BY <1>2, <1>8, <3>1, <3>2, CutKept
    <3>4. ~Cut(z, x)
      BY <2>3 DEF Cut, NoTransactions
    <3>5. Linking(x, z)'
      <4>1. LinkOK(wire[z][x], wire'[x][z], own[z], incoming[x][z], transN[z], x, Cut(x, z))
        BY <1>2, <1>5, <2>1, <2>3, <3>1, <3>2, LinkAnswered DEF Linking
      <4>2. LinkOK(wire[z][x], wire'[x][z], own[z], incoming'[x][z], transN[z], x, Cut(x, z))
        BY <1>2, <1>4, <2>3, <3>1, <4>1, LinkMovedOn
      <4>3. QED
        BY <1>2, <3>1, <3>3, <4>2, Becomes
    <3>6. Linking(z, x)'
      <4>1. LinkOK(wire'[x][z], wire[z][x], own[x], incoming[z][x], transN[x], z, Cut(z, x))
        BY <1>5, <2>1, <3>1, LinkAppend DEF Linking, Offers, Replies
      <4>2. QED
        BY <1>2, <3>1, <3>4, <4>1, Becomes
    <3>7. QED
      BY <3>5, <3>6
  <2>4. QED
    BY <2>2, <2>3
<1>10. QED
  BY <1>2, <1>6, <1>7, <1>9, OfOne

(* x forgets a transaction of y. *)
LEMMA LinkedForgotten ==
    ASSUME IInv, NEW x \in Peers, NEW y \in Peers, NEW n \in DOMAIN incoming[x][y],
           incoming' = [incoming EXCEPT ![x][y] = Without(@, n)],
           UNCHANGED <<transN, own, up>>,
           wire' = wire \/ (wire' = Told(x, y, n) /\ IsDue(incoming[x][y][n]))
    PROVE  Linked'
<1> DEFINE b == [kind |-> "end", n |-> n]
<1>1. n \in Nat /\ x # y
  <2>1. n \in Nat
    BY Whole
  <2>2. incoming[x][x] = NoTransactions
    BY Whole
  <2>3. DOMAIN NoTransactions = {}
    BY DEF NoTransactions
  <2>4. QED
    BY <2>1, <2>2, <2>3
<1>2. b \in Item /\ b.kind \in Replies /\ b.n = n
  BY <1>1, ItemTypes DEF Replies
<1>3. \A a, c \in Peers : incoming'[a][c] =
        IF a = x /\ c = y THEN Without(incoming[x][y], n) ELSE incoming[a][c]
  BY Whole
<1> DEFINE sent == wire' # wire /\ Connected(x, y)
<1>4. sent => IsDue(incoming[x][y][n])
  OBVIOUS
<1>5. \A a, c \in Peers : wire'[a][c] =
         IF sent /\ a = x /\ c = y THEN wire[a][c] \o <<b>> ELSE wire[a][c]
  <2>1. CASE wire' = wire
    BY <2>1
  <2>2. CASE wire' = Sent(wire, x, y, <<b>>) /\ wire' # wire
    <3> HIDE DEF b
    <3>1. QED
      BY <2>2, Whole, SentAt
  <2>3. QED
    BY <2>1, <2>2 DEF Told
<1> HIDE DEF sent, b
<1>6. \A a, c \in Peers : Connected(a, c)' = Connected(a, c)
  BY DEF Connected
<1>7. ASSUME NEW z \in Peers \ {x} PROVE Linking(x, z)' /\ Linking(z, x)'
  <2>1. Linking(x, z) /\ Linking(z, x)
    BY LinkingHolds
  <2>2. CASE z # y
    BY <1>3, <1>5, <1>6, <2>1, <2>2, StaysLinked
  <2>3. CASE z = y
    <3>1. /\ wire'[z][x] = wire[z][x]
          /\ wire'[x][z] = IF sent THEN wire[x][z] \o <<b>> ELSE wire[x][z]
          /\ incoming'[x][z] = Without(incoming[x][z], n)
          /\ incoming'[z][x] = incoming[z][x]
      BY <1>1, <1>3, <1>5, <2>3
    <3>2. sent => ~Cut(x, z)
      BY <2>3 DEF Cut, sent
    <3>3. Cut(x, z) => Cut(x, z)'
      BY <1>6, <3>1, <3>2, CutKept
    <3>4. ~Cut(z, x)
      BY <2>3 DEF Cut, NoTransactions
    <3>5. Linking(x, z)'
      <4>1. LinkOK(wire[z][x], wire'[x][z], own[z], incoming[x][z], transN[z], x, Cut(x, z))
        BY <1>2, <1>4, <2>1, <2>3, <3>1, <3>2, LinkAnswered DEF Linking
      <4>2. LinkOK(wire[z][x], wire'[x][z], own[z], incoming'[x][z], transN[z], x, Cut(x, z))
        BY <3>1, <4>1, LinkForgotten
      <4>3. QED
        BY <3>1, <3>3, <4>2, Becomes
    <3>6. Linking(z, x)'
      <4>1. LinkOK(wire'[x][z], wire[z][x], own[x], incoming[z][x], transN[x], z, Cut(z, x))
        BY <1>2, <2>1, <3>1, LinkAppend DEF Linking, Offers, Replies
      <4>2. QED
        BY <3>1, <3>4, <4>1, Becomes
    <3>7. QED
      BY <3>5, <3>6
  <2>4. QED
    BY <2>2, <2>3
<1>8. QED
  BY <1>3, <1>5, <1>7, OfOne

(* The number that x gives next is new to all directions. *)
LEMMA FreshAt ==
    ASSUME IInv, NEW x \in Peers, NEW y \in Peers, x # y
    PROVE  Fresh(wire[x][y], wire[y][x], own[x], incoming[y][x], transN[x], NextNumber(x))
<1>1. CASE InUse(x)
  BY <1>1 DEF NextNumber, Fresh
<1>2. CASE ~InUse(x)
  <2>1. /\ NextNumber(x) = 1
        /\ own[x] = NoTransactions /\ incoming[y][x] = NoTransactions
        /\ \A i \in DOMAIN wire[x][y] : wire[x][y][i].kind \notin Offers
        /\ \A i \in DOMAIN wire[y][x] : wire[y][x][i].kind \notin Replies
    BY <1>2 DEF NextNumber, InUse, Offers, Replies
  <2>2. DOMAIN NoTransactions = {}
    BY DEF NoTransactions
  <2>3. QED
    BY <2>1, <2>2 DEF Fresh
<1>3. QED
  BY <1>1, <1>2

LEMMA FreshStays ==
    ASSUME NEW w \in Seq(Item), NEW r \in Seq(Item), NEW o, NEW g, NEW m, NEW n,
           Fresh(w, r, o, g, m, n)
    PROVE  /\ \A b \in Item : b.kind \notin Offers => Fresh(w \o <<b>>, r, o, g, m, n)
           /\ r # <<>> => Fresh(w, Tail(r), o, g, m, n)
<1>1. CASE n = m + 1
  BY <1>1 DEF Fresh
<1>2. CASE /\ n = 1 /\ DOMAIN o = {} /\ DOMAIN g = {}
           /\ \A i \in DOMAIN w : w[i].kind \notin Offers
           /\ \A i \in DOMAIN r : r[i].kind \notin Replies
  <2>1. ASSUME NEW b \in Item, b.kind \notin Offers
        PROVE  \A i \in DOMAIN (w \o <<b>>) : (w \o <<b>>)[i].kind \notin Offers
    <3>1. <<b>> \in Seq(Item) /\ Len(<<b>>) = 1 /\ <<b>>[1] = b
      OBVIOUS
    <3> DEFINE q == <<b>>
    <3>2. /\ Len(w) \in Nat /\ DOMAIN w = 1 .. Len(w)
          /\ DOMAIN (w \o q) = 1 .. Len(w) + Len(q)
          /\ \A i \in 1 .. Len(w) : (w \o q)[i] = w[i]
          /\ \A i \in Len(w) + 1 .. Len(w) + Len(q) : (w \o q)[i] = q[i - Len(w)]
      BY <3>1, ConcatIndex
    <3>3. Len(q) = 1 /\ q[1] = b
      BY <3>1
    <3> DEFINE v == w \o q
               k == Len(w)
    <3>4. /\ k \in Nat /\ DOMAIN w = 1 .. k /\ DOMAIN v = 1 .. k + 1
          /\ \A i \in 1 .. k : v[i] = w[i]
          /\ v[k + 1] = b
      <4>1. k + 1 \in k + 1 .. k + Len(q) /\ (k + 1) - k = 1
        BY <3>2, <3>3
      <4>2. v[k + 1] = q[(k + 1) - k]
        BY <3>2, <4>1
      <4>3. QED
        BY <3>2, <3>3, <4>1, <4>2
    <3> HIDE DEF v, k, q
    <3>5. \A i \in DOMAIN v : v[i].kind \notin Offers
      BY <1>2, <2>1, <3>4
    <3>6. QED
      BY <3>5 DEF v, q
  <2>2. ASSUME r # <<>> PROVE \A i \in DOMAIN Tail(r) : Tail(r)[i].kind \notin Replies
    <3> DEFINE k == Len(r)
               v == Tail(r)
    <3>1. /\ k \in Nat \ {0} /\ DOMAIN r = 1 .. k /\ DOMAIN v = 1 .. k - 1
          /\ \A i \in 1 .. k - 1 : v[i] = r[i + 1]
      BY <2>2, TailIndex
    <3> HIDE DEF k, v
    <3>2. \A i \in DOMAIN v : i + 1 \in DOMAIN r /\ v[i] = r[i + 1]
      BY <3>1
    <3>3. \A i \in DOMAIN v : v[i].kind \notin Replies
      BY <1>2, <3>2
    <3>4. QED
      BY <3>3 DEF v
  <2>3. QED
    BY <1>2, <2>1, <2>2 DEF Fresh
<1>3. QED
  BY <1>1, <1>2 DEF Fresh

(* x opens a transaction to y when w is under way. *)
LEMMA LinkedOpening ==
    ASSUME IInv, NEW x \in Peers, NEW y \in Peers, x # y, NEW w \in Wires,
           NEW type \in Types, NEW items \in Seq(Messages), NEW ts \in Nat,
           Open(w, x, y, type, items, ts), UNCHANGED up,
           \A a, c \in Peers : ~(a = x /\ c = y) /\ ~(a = y /\ c = x) => w[a][c] = wire[a][c],
           \A a, c \in Peers : ~(a = x /\ c = y) => incoming'[a][c] = incoming[a][c],
           LinkOK(w[y][x], w[x][y], own[y], incoming'[x][y], transN[y], x, Cut(x, y)),
           LinkOK(w[x][y], w[y][x], own[x], incoming[y][x], transN[x], y, Cut(y, x)),
           Fresh(w[x][y], w[y][x], own[x], incoming[y][x], transN[x], NextNumber(x)),
           Cut(x, y) => w[x][y] = wire[x][y] /\ w[y][x] = wire[y][x],
           ~Cut(y, x)
    PROVE  Linked'
<1> DEFINE n == NextNumber(x)
           t == [to |-> y, type |-> type, announced |-> items, ts |-> ts,
                 held |-> TRUE, state |-> "waiting"]
           b == [kind |-> "begin1", n |-> n, type |-> type, announced |-> items, ts |-> ts]
<1>1. n \in Nat
  BY Whole, OpenType DEF OwnOK
<1>2. t \in Own /\ t.to = y /\ t.state = "waiting" /\ t.announced = items
  BY DEF Own
<1>3. b \in Item /\ b.kind = "begin1" /\ b.n = n /\ b.announced = items
  BY <1>1, ItemTypes
<1>4. /\ transN' = [transN EXCEPT ![x] = n] /\ own' = [own EXCEPT ![x] = With(@, n, t)]
      /\ wire' = Sent(w, x, y, <<b>>)
  BY DEF Open
<1> HIDE DEF n, t, b
<1>5. /\ \A a \in Peers : transN'[a] = IF a = x THEN n ELSE transN[a]
      /\ \A a \in Peers : own'[a] = IF a = x THEN With(own[x], n, t) ELSE own[a]
  BY <1>4, Whole
<1>6. \A a, c \in Peers : wire'[a][c] =
         IF a = x /\ c = y /\ Connected(x, y) THEN w[x][y] \o <<b>> ELSE w[a][c]
  BY <1>4, SentAt
<1>7. \A a, c \in Peers : Connected(a, c)' = Connected(a, c)
  BY DEF Connected
<1>8. ASSUME NEW z \in Peers \ {x} PROVE Linking(x, z)' /\ Linking(z, x)'
  <2>1. Linking(x, z) /\ Linking(z, x)
    BY LinkingHolds
  <2>2. CASE z # y
    <3>1. /\ wire'[x][z] = wire[x][z] /\ wire'[z][x] = wire[z][x]
          /\ incoming'[x][z] = incoming[x][z] /\ incoming'[z][x] = incoming[z][x]
          /\ own'[z] = own[z] /\ transN'[z] = transN[z]
          /\ own'[x] = With(own[x], n, t) /\ transN'[x] = n
      <4>1. wire'[x][z] = wire[x][z] /\ wire'[z][x] = wire[z][x]
        BY <1>6, <2>2
      <4>2. QED
        BY <1>5, <2>2, <4>1
    <3>2. Linking(x, z)'
      BY <1>7, <2>1, <3>1, StaysLinked
    <3>3. Fresh(wire[x][z], wire[z][x], own[x], incoming[z][x], transN[x], n)
      BY FreshAt DEF n
    <3>4. LinkOK(wire[x][z], wire[z][x], With(own[x], n, t), incoming[z][x], n, z, Cut(z, x))
      BY <1>2, <2>1, <2>2, <3>3, LinkOpened DEF Linking
    <3>5. Cut(z, x) => Cut(z, x)'
      <4>1. \A k \in DOMAIN own'[x] : own'[x][k].to = z =>
                \E j \in DOMAIN own[x] : own[x][j].to = z
        BY <1>2, <2>2, <3>1 DEF With
      <4>2. QED
        BY <1>7, <3>1, <4>1, CutKept
    <3>6. Linking(z, x)'
      BY <3>1, <3>4, <3>5, Becomes
    <3>7. QED
      BY <3>2, <3>6
  <2>3. CASE z = y
    <3>1. /\ wire'[x][y] = IF Connected(x, y) THEN w[x][y] \o <<b>> ELSE w[x][y]
          /\ wire'[y][x] = w[y][x] /\ incoming'[y][x] = incoming[y][x]
          /\ own'[y] = own[y] /\ transN'[y] = transN[y]
          /\ own'[x] = With(own[x], n, t) /\ transN'[x] = n
      BY <1>5, <1>6
    <3>2. Cut(x, y) => Cut(x, y)'
      <4>1. ASSUME Cut(x, y)
            PROVE  wire'[x][y] = wire[x][y] /\ wire'[y][x] = wire[y][x]
        <5>1. ~Connected(x, y)
          BY <4>1 DEF Cut
        <5>2. QED
          BY <3>1, <4>1, <5>1
      <4>2. QED
        BY <1>7, <3>1, <4>1, CutKept
    <3>3. Linking(x, y)'
      <4>1. <<b>> \in Seq(Item) /\ \A i \in DOMAIN <<b>> : <<b>>[i].kind \notin Replies
        BY <1>3 DEF Replies
      <4>2. LinkOK(w[y][x], wire'[x][y], own[y], incoming'[x][y], transN[y], x, Cut(x, y))
        <5>1. CASE Connected(x, y)
          <6> DEFINE q == <<b>>
          <6>1. wire'[x][y] = w[x][y] \o q /\ q \in Seq(Item)
                /\ \A i \in DOMAIN q : q[i].kind \notin Replies
            BY <3>1, <4>1, <5>1
          <6> HIDE DEF q
          <6>2. LinkOK(w[y][x], w[x][y] \o q, own[y], incoming'[x][y], transN[y], x, Cut(x, y))
            BY <6>1, LinkBack
          <6>3. QED
            BY <6>1, <6>2
        <5>2. CASE ~Connected(x, y)
          BY <3>1, <5>2
        <5>3. QED
          BY <5>1, <5>2
      <4>3. QED
        BY <3>1, <3>2, <4>2, Becomes
    <3>4. Linking(y, x)'
      <4>1. Fresh(w[x][y], w[y][x], own[x], incoming[y][x], transN[x], n)
        BY DEF n
      <4>2. LinkOK(wire'[x][y], w[y][x], With(own[x], n, t), incoming[y][x], n, y, Cut(y, x))
        <5>1. CASE Connected(x, y)
          <6>1. wire'[x][y] = w[x][y] \o <<b>>
            BY <3>1, <5>1
          <6>2. QED
            BY <1>2, <1>3, <4>1, <6>1, LinkOffering
        <5>2. CASE ~Connected(x, y)
          <6>1. wire'[x][y] = w[x][y]
            BY <3>1, <5>2
          <6>2. QED
            BY <1>2, <4>1, <6>1, LinkOpened
        <5>3. QED
          BY <5>1, <5>2
      <4>3. QED
        BY <3>1, <4>2, Becomes
    <3>5. QED
      BY <2>3, <3>3, <3>4
  <2>4. QED
    BY <2>2, <2>3
<1>9. \A a, c \in Peers \ {x} :
        /\ wire'[a][c] = wire[a][c] /\ incoming'[a][c] = incoming[a][c]
        /\ {a, c} \in up' => {a, c} \in up
  BY <1>6
<1>10. QED
  BY <1>5, <1>8, <1>9, OfOne

LEMMA LinkedRecvSync ==
    ASSUME IInv, NEW x \in Peers, NEW y \in Peers, RecvSync(x, y)
    PROVE  Linked'
<1> DEFINE w == Taken(x, y)
<1>1. /\ wire[y][x] # <<>> /\ Head(wire[y][x]).kind = "sync"
      /\ UNCHANGED <<incoming, up>>
      /\ \/ Open(w, x, y, "list", SetToSeq(store[x]), serverTS[x])
         \/ wire' = w /\ UNCHANGED <<transN, own>>
  BY DEF RecvSync, Arrives
<1>2. x # y
  BY <1>1, Whole
<1>3. w \in Wires
  BY <1>1, Whole, TakenType
<1>4. \A a, c \in Peers : w[a][c] = IF a = y /\ c = x THEN Tail(wire[y][x]) ELSE wire[a][c]
  BY Whole, TakenAt
<1> HIDE DEF w
<1>5. /\ w[y][x] = Tail(wire[y][x]) /\ w[x][y] = wire[x][y]
      /\ \A a, c \in Peers : ~(a = y /\ c = x) => w[a][c] = wire[a][c]
  BY <1>2, <1>4
<1>6. ~Cut(x, y) /\ ~Cut(y, x)
  BY <1>1 DEF Cut
<1>7. LinkOK(w[y][x], w[x][y], own[y], incoming'[x][y], transN[y], x, Cut(x, y))
  <2>1. LinkOK(wire[y][x], wire[x][y], own[y], incoming[x][y], transN[y], x, Cut(x, y))
    BY <1>2, LinkingHolds DEF Linking
  <2>2. QED
    BY <1>1, <1>5, <2>1, LinkTail
<1>8. LinkOK(w[x][y], w[y][x], own[x], incoming[y][x], transN[x], y, Cut(y, x))
  <2>1. LinkOK(wire[x][y], wire[y][x], own[x], incoming[y][x], transN[x], y, Cut(y, x))
    BY <1>2, LinkingHolds DEF Linking
  <2>2. QED
    BY <1>1, <1>5, <2>1, LinkBackTail
<1>9. CASE Open(w, x, y, "list", SetToSeq(store[x]), serverTS[x])
  <2>1. SetToSeq(store[x]) \in Seq(Messages) /\ serverTS[x] \in Nat /\ "list" \in Types
    <3>1. store[x] \subseteq Messages /\ IsFiniteSet(Messages)
      BY Whole, GxsAssumption DEF ExchangeOK
    <3>2. IsFiniteSet(store[x])
      BY <3>1, FS_Subset
    <3>3. SetToSeq(store[x]) \in Seq(store[x])
      BY <3>2, ListOfSet
    <3>4. SetToSeq(store[x]) \in Seq(Messages)
      BY <3>1, <3>3, SeqMonotonic
    <3>5. QED
      BY <3>4, Whole DEF StampsOK, Types
  <2>2. Fresh(w[x][y], w[y][x], own[x], incoming[y][x], transN[x], NextNumber(x))
    <3>1. Fresh(wire[x][y], wire[y][x], own[x], incoming[y][x], transN[x], NextNumber(x))
      BY <1>2, FreshAt
    <3>2. wire[x][y] \in Seq(Item) /\ wire[y][x] \in Seq(Item)
      BY Whole
    <3>3. QED
      BY <1>1, <1>5, <3>1, <3>2, FreshStays
  <2> DEFINE s == SetToSeq(store[x])
  <2> HIDE DEF s
  <2>3. s \in Seq(Messages) /\ Open(w, x, y, "list", s, serverTS[x])
    BY <1>9, <2>1 DEF s
  <2>4. QED
    BY <1>1, <1>2, <1>3, <1>5, <1>6, <1>7, <1>8, <2>1, <2>2, <2>3, LinkedOpening
<1>10. CASE wire' = w /\ UNCHANGED <<transN, own>>
  <2>1. \A a, c \in Peers : Connected(a, c)' = Connected(a, c)
    BY <1>1 DEF Connected
  <2>2. ASSUME NEW z \in Peers \ {x} PROVE Linking(x, z)' /\ Linking(z, x)'
    <3>1. CASE z # y
      <4>1. Linking(x, z) /\ Linking(z, x)
        BY LinkingHolds
      <4>2. QED
        BY <1>1, <1>5, <1>10, <2>1, <3>1, <4>1, StaysLinked
    <3>2. CASE z = y
      <4>1. Linking(x, y)'
        BY <1>1, <1>6, <1>7, <1>10, Becomes
      <4>2. Linking(y, x)'
        BY <1>1, <1>6, <1>8, <1>10, Becomes
      <4>3. QED
        BY <3>2, <4>1, <4>2
    <3>3. QED
      BY <3>1, <3>2
  <2>3. QED
    BY <1>1, <1>5, <1>10, <2>2, OfOne
<1>11. QED
  BY <1>1, <1>9, <1>10

(* x is done with a transaction of y, tells it and opens one to it. *)
LEMMA LinkedNextOpened ==
    ASSUME IInv, NEW x \in Peers, NEW y \in Peers, NEW n \in DOMAIN incoming[x][y],
           IsDue(incoming[x][y][n]),
           incoming' = [incoming EXCEPT ![x][y] = Without(@, n)], UNCHANGED up,
           NEW type \in Types, NEW items \in Seq(Messages), NEW ts \in Nat,
           Open(Told(x, y, n), x, y, type, items, ts)
    PROVE  Linked'
<1> DEFINE b == [kind |-> "end", n |-> n]
           w == Told(x, y, n)
<1>1. n \in Nat /\ x # y
  <2>1. n \in Nat
    BY Whole
  <2>2. incoming[x][x] = NoTransactions
    BY Whole
  <2>3. DOMAIN NoTransactions = {}
    BY DEF NoTransactions
  <2>4. QED
    BY <2>1, <2>2, <2>3
<1>2. b \in Item /\ b.kind \in Replies /\ b.n = n
  BY <1>1, ItemTypes DEF Replies
<1>3. w \in Wires
  BY <1>1, Whole, ToldType
<1> HIDE DEF b
<1>4. \A a, c \in Peers : w[a][c] =
         IF a = x /\ c = y /\ Connected(x, y) THEN wire[x][y] \o <<b>> ELSE wire[a][c]
  BY Whole, SentAt DEF Told, b
<1>5. Open(w, x, y, type, items, ts)
  OBVIOUS
<1> HIDE DEF w
<1>6. /\ w[y][x] = wire[y][x]
      /\ w[x][y] = IF Connected(x, y) THEN wire[x][y] \o <<b>> ELSE wire[x][y]
      /\ \A a, c \in Peers : ~(a = x /\ c = y) => w[a][c] = wire[a][c]
  BY <1>1, <1>4
<1>7. /\ \A a, c \in Peers : ~(a = x /\ c = y) => incoming'[a][c] = incoming[a][c]
      /\ incoming'[x][y] = Without(incoming[x][y], n)
  BY Whole
<1>8. ~Cut(y, x) /\ (Cut(x, y) => ~Connected(x, y))
  <2>1. DOMAIN NoTransactions = {}
    BY DEF NoTransactions
  <2>2. QED
    BY <2>1 DEF Cut
<1>9. LinkOK(w[y][x], w[x][y], own[y], incoming'[x][y], transN[y], x, Cut(x, y))
  <2>1. LinkOK(wire[y][x], wire[x][y], own[y], incoming[x][y], transN[y], x, Cut(x, y))
    BY <1>1, LinkingHolds DEF Linking
  <2>2. LinkOK(w[y][x], w[x][y], own[y], incoming[x][y], transN[y], x, Cut(x, y))
    <3>1. CASE Connected(x, y)
      BY <1>2, <1>6, <1>8, <2>1, <3>1, LinkAnswered
    <3>2. CASE ~Connected(x, y)
      BY <1>6, <2>1, <3>2
    <3>3. QED
      BY <3>1, <3>2
  <2>3. QED
    BY <1>7, <2>2, LinkForgotten
<1>10. b.kind \notin Offers
  BY <1>2 DEF Replies, Offers
<1>11. LinkOK(w[x][y], w[y][x], own[x], incoming[y][x], transN[x], y, Cut(y, x))
  <2>1. LinkOK(wire[x][y], wire[y][x], own[x], incoming[y][x], transN[x], y, Cut(y, x))
    BY <1>1, LinkingHolds DEF Linking
  <2>2. CASE Connected(x, y)
    BY <1>2, <1>6, <1>10, <2>1, <2>2, LinkAppend
  <2>3. CASE ~Connected(x, y)
    BY <1>6, <2>1, <2>3
  <2>4. QED
    BY <2>2, <2>3
<1>12. Fresh(w[x][y], w[y][x], own[x], incoming[y][x], transN[x], NextNumber(x))
  <2>1. Fresh(wire[x][y], wire[y][x], own[x], incoming[y][x], transN[x], NextNumber(x))
    BY <1>1, FreshAt
  <2>2. wire[x][y] \in Seq(Item) /\ wire[y][x] \in Seq(Item)
    BY Whole
  <2>3. CASE Connected(x, y)
    BY <1>2, <1>6, <1>10, <2>1, <2>2, <2>3, FreshStays
  <2>4. CASE ~Connected(x, y)
    BY <1>6, <2>1, <2>4
  <2>5. QED
    BY <2>3, <2>4
<1>13. Cut(x, y) => w[x][y] = wire[x][y] /\ w[y][x] = wire[y][x]
  BY <1>6, <1>8
<1>14. QED
  BY <1>1, <1>3, <1>5, <1>6, <1>7, <1>8, <1>9, <1>11, <1>12, <1>13, LinkedOpening

LEMMA LinkedFinish ==
    ASSUME IInv, NEW x \in Peers, NEW y \in Peers, NEW n \in DOMAIN incoming[x][y],
           FinishList(x, y, n) \/ FinishRequest(x, y, n) \/ FinishMessages(x, y, n)
    PROVE  Linked'
<1> DEFINE t == incoming[x][y][n]
           wanted == Kept(t.got, Messages \ (store[x] \cup rejected[x]))
           asked == SubSeq(wanted, 1, Min({MaxRequest, Len(wanted)}))
           found == Kept(t.got, store[x])
<1>1. /\ IsDue(t) /\ incoming' = [incoming EXCEPT ![x][y] = Without(@, n)]
      /\ UNCHANGED up
  BY DEF FinishList, FinishRequest, FinishMessages, Finish, IncomingTick
<1>2. t.got \in Seq(Messages)
  BY Whole DEF Incoming
<1>3. asked \in Seq(Messages) /\ found \in Seq(Messages)
  BY <1>2, KeptIsKept, FirstOf
<1>4. \/ Open(Told(x, y, n), x, y, "request", asked, 0)
      \/ Open(Told(x, y, n), x, y, "messages", found, serverTS[x])
      \/ wire' = Told(x, y, n) /\ UNCHANGED <<transN, own>>
  BY DEF FinishList, FinishRequest, FinishMessages
<1> HIDE DEF t, asked, found
<1>5. {"request", "messages"} \subseteq Types /\ 0 \in Nat /\ serverTS[x] \in Nat
  BY Whole DEF Types, StampsOK
<1>6. IsDue(incoming[x][y][n])
  BY <1>1 DEF t
<1>7. CASE Open(Told(x, y, n), x, y, "request", asked, 0)
  BY <1>1, <1>3, <1>5, <1>6, <1>7, LinkedNextOpened
<1>8. CASE Open(Told(x, y, n), x, y, "messages", found, serverTS[x])
  BY <1>1, <1>3, <1>5, <1>6, <1>8, LinkedNextOpened
<1>9. CASE wire' = Told(x, y, n) /\ UNCHANGED <<transN, own>>
  BY <1>1, <1>6, <1>9, LinkedForgotten
<1>10. QED
  BY <1>4, <1>7, <1>8, <1>9

(* A step of x and y changes what is between the two only. *)
LEMMA OfTwo ==
    ASSUME IInv, NEW x \in Peers, NEW y \in Peers, UNCHANGED <<transN, own, incoming>>,
           \A a, c \in Peers : ~(a = x /\ c = y) /\ ~(a = y /\ c = x) =>
               wire'[a][c] = wire[a][c] /\ (Connected(a, c)' => Connected(a, c)),
           Linking(x, y)', Linking(y, x)'
    PROVE  Linked'
<1>1. ASSUME NEW p \in Peers, NEW q \in Peers, p # q PROVE Linking(p, q)'
  <2>1. CASE p = x /\ q = y
    BY <2>1
  <2>2. CASE p = y /\ q = x
    BY <2>2
  <2>3. CASE ~(p = x /\ q = y) /\ ~(p = y /\ q = x)
    <3>1. Linking(p, q)
      BY <1>1, LinkingHolds
    <3>2. /\ wire'[p][q] = wire[p][q] /\ wire'[q][p] = wire[q][p]
          /\ Connected(p, q)' => Connected(p, q)
      BY <2>3
    <3>3. QED
      BY <3>1, <3>2, StaysLinked
  <2>4. QED
    BY <2>1, <2>2, <2>3
<1>2. QED
  BY <1>1 DEF Linked, Linking, LinkOK

LEMMA LinkedDisconnect ==
    ASSUME IInv, NEW x \in Peers, NEW y \in Peers, Disconnect(x, y)
    PROVE  Linked'
<1>1. /\ Connected(x, y) /\ up' = up \ {{x, y}}
      /\ UNCHANGED <<transN, own, incoming>>
  BY DEF Disconnect
<1>2. PICK i \in 0 .. Len(wire[x][y]), j \in 0 .. Len(wire[y][x]) :
         wire' = [wire EXCEPT ![x][y] = SubSeq(@, 1, i), ![y][x] = SubSeq(@, 1, j)]
  BY DEF Disconnect
<1>3. x # y
  <2>1. {x} \notin up
    BY Whole
  <2>2. x = y => {x, y} = {x}
    OBVIOUS
  <2>3. QED
    BY <1>1, <2>1, <2>2 DEF Connected
<1> DEFINE v == SubSeq(wire[x][y], 1, i)
           w == SubSeq(wire[y][x], 1, j)
<1>4. wire' = [wire EXCEPT ![x][y] = v, ![y][x] = w]
  BY <1>2, <1>3, Whole DEF Wires
<1> HIDE DEF v, w
<1>5. /\ wire'[x][y] = v /\ wire'[y][x] = w
      /\ \A a, c \in Peers : ~(a = x /\ c = y) /\ ~(a = y /\ c = x) =>
            wire'[a][c] = wire[a][c]
  BY <1>3, <1>4, Whole DEF Wires
<1>6. \A a, c \in Peers : Connected(a, c)' => Connected(a, c)
  BY <1>1 DEF Connected
<1>7. ~Cut(x, y) /\ ~Cut(y, x)
  <2>1. {y, x} = {x, y}
    OBVIOUS
  <2>2. QED
    BY <1>1, <2>1 DEF Cut, Connected
<1>8. Linking(x, y) /\ Linking(y, x)
  BY <1>3, LinkingHolds
<1>9. Linking(x, y)'
  <2>1. LinkOK(w, v, own[y], incoming[x][y], transN[y], x, Cut(x, y))
    BY <1>8, LinkStart DEF Linking, v, w
  <2>2. QED
    BY <1>1, <1>5, <1>7, <2>1, Becomes
<1>10. Linking(y, x)'
  <2>1. LinkOK(v, w, own[x], incoming[y][x], transN[x], y, Cut(y, x))
    BY <1>8, LinkStart DEF Linking, v, w
  <2>2. QED
    BY <1>1, <1>5, <1>7, <2>1, Becomes
<1>11. QED
  BY <1>1, <1>5, <1>6, <1>9, <1>10, OfTwo

LEMMA LinkedConnect ==
    ASSUME IInv, NEW x \in Peers, NEW y \in Peers, Connect(x, y)
    PROVE  Linked'
<1>1. /\ x # y /\ up' = up \cup {{x, y}}
      /\ \A n \in DOMAIN incoming[x][y] : ~IsDue(incoming[x][y][n])
      /\ \A n \in DOMAIN incoming[y][x] : ~IsDue(incoming[y][x][n])
      /\ UNCHANGED <<transN, own, incoming, wire>>
  BY DEF Connect, Settled
<1>2. \A a, c \in Peers : ~(a = x /\ c = y) /\ ~(a = y /\ c = x) =>
         (Connected(a, c)' => Connected(a, c))
  <2>1. \A a, c \in Peers : {a, c} = {x, y} => (a = x /\ c = y) \/ (a = y /\ c = x)
    OBVIOUS
  <2>2. QED
    BY <1>1, <2>1 DEF Connected
<1>3. LinkOK(wire[y][x], wire[x][y], own[y], incoming[x][y], transN[y], x, Cut(x, y)')
  <2>1. LinkOK(wire[y][x], wire[x][y], own[y], incoming[x][y], transN[y], x, Cut(x, y))
    BY <1>1, LinkingHolds DEF Linking
  <2>2. QED
    BY <1>1, <2>1, LinkConnected
<1>4. LinkOK(wire[x][y], wire[y][x], own[x], incoming[y][x], transN[x], y, Cut(y, x)')
  <2>1. LinkOK(wire[x][y], wire[y][x], own[x], incoming[y][x], transN[x], y, Cut(y, x))
    BY <1>1, LinkingHolds DEF Linking
  <2>2. QED
    BY <1>1, <2>1, LinkConnected
<1>5. Linking(x, y)' /\ Linking(y, x)'
  BY <1>1, <1>3, <1>4 DEF Linking
<1>6. QED
  BY <1>1, <1>2, <1>5, OfTwo

LEMMA LinkedCrash ==
    ASSUME IInv, NEW x \in Peers, Crash(x)
    PROVE  Linked'
<1>1. /\ up' = {p \in up : x \notin p}
      /\ wire' = [y \in Peers |-> [z \in Peers |->
                     IF z = x \/ y = x THEN <<>> ELSE wire[y][z]]]
      /\ transN' = [transN EXCEPT ![x] = 0]
      /\ own' = [own EXCEPT ![x] = NoTransactions]
      /\ incoming' = [incoming EXCEPT ![x] = [y \in Peers |-> NoTransactions]]
  BY DEF Crash
<1>2. /\ \A a, c \in Peers : wire'[a][c] = IF a = x \/ c = x THEN <<>> ELSE wire[a][c]
      /\ \A a \in Peers : transN'[a] = IF a = x THEN 0 ELSE transN[a]
      /\ \A a \in Peers : own'[a] = IF a = x THEN NoTransactions ELSE own[a]
      /\ \A a, c \in Peers : incoming'[a][c] =
            IF a = x THEN NoTransactions ELSE incoming[a][c]
  BY <1>1, Whole
<1>3. \A a, c \in Peers : Connected(a, c)' => Connected(a, c) /\ a # x /\ c # x
  BY <1>1 DEF Connected
<1>4. ASSUME NEW z \in Peers \ {x} PROVE Linking(x, z)' /\ Linking(z, x)'
  <2>1. Linking(x, z) /\ Linking(z, x)
    BY LinkingHolds
  <2>2. /\ wire'[x][z] = <<>> /\ wire'[z][x] = <<>>
        /\ own'[z] = own[z] /\ own'[x] = NoTransactions
        /\ incoming'[x][z] = NoTransactions /\ incoming'[z][x] = incoming[z][x]
        /\ transN'[z] = transN[z] /\ transN'[x] = 0
        /\ ~Connected(x, z)' /\ ~Connected(z, x)'
    BY <1>2, <1>3
  <2>3. Linking(x, z)'
    <3>1. LinkOK(<<>>, <<>>, own[z], NoTransactions, transN[z], x, Cut(x, z))
      BY <2>1, LinkLost DEF Linking
    <3>2. Cut(x, z) => Cut(x, z)'
      BY <2>2 DEF Cut
    <3>3. QED
      BY <2>2, <3>1, <3>2, Becomes
  <2>4. Linking(z, x)'
    <3>1. LinkOK(<<>>, <<>>, NoTransactions, incoming[z][x], 0, z, TRUE)
      BY <2>1, LinkLost DEF Linking
    <3>2. Cut(z, x)'
      <4>1. DOMAIN NoTransactions = {}
        BY DEF NoTransactions
      <4>2. QED
        BY <2>2, <4>1 DEF Cut
    <3>3. LinkOK(<<>>, <<>>, NoTransactions, incoming[z][x], 0, z, Cut(z, x)')
      BY <3>1, <3>2, LinkCut
    <3>4. QED
      BY <2>2, <3>3 DEF Linking
  <2>5. QED
    BY <2>3, <2>4
<1>5. \A a, c \in Peers \ {x} :
        /\ wire'[a][c] = wire[a][c] /\ incoming'[a][c] = incoming[a][c]
        /\ {a, c} \in up' => {a, c} \in up
  BY <1>1, <1>2
<1>6. QED
  BY <1>2, <1>4, <1>5, OfOne

LEMMA LinkedInit == Init => Linked
<1> SUFFICES ASSUME Init, NEW x \in Peers, NEW y \in Peers, x # y
             PROVE  Link(wire[y][x], wire[x][y], own[y], incoming[x][y], transN[y],
                         x, Cut(x, y))
  BY DEF Linked
<1>1. /\ wire[y][x] = <<>> /\ wire[x][y] = <<>> /\ own[y] = NoTransactions
      /\ incoming[x][y] = NoTransactions /\ transN[y] = 0
  BY DEF Init
<1>2. DOMAIN NoTransactions = {} /\ \A i : i \notin DOMAIN <<>>
  BY DEF NoTransactions
<1>3. QED
  BY <1>1, <1>2 DEF Link, Numbered, OffersAreNew, HeldIsWhole, ItemsGoOn, DueIsOpen, Carries

LEMMA ToSelfInit == Init => NotToSelf
<1> SUFFICES ASSUME Init, NEW x \in Peers
             PROVE  {x} \notin up /\ wire[x][x] = <<>> /\ incoming[x][x] = NoTransactions
  BY DEF NotToSelf
<1>1. Cardinality({x}) = 1
  BY FS_Singleton
<1>2. wire[x][x] = <<>> /\ incoming[x][x] = NoTransactions
  BY DEF Init
<1>3. {x} \notin up
  BY <1>1 DEF Init
<1>4. QED
  BY <1>2, <1>3

(* Nothing is sent to oneself, who is not connected to oneself. *)
LEMMA SentToOthers ==
    ASSUME IInv, NEW x \in Peers, NEW y \in Peers, NEW items
    PROVE  /\ x = y => ~Connected(x, y)
           /\ \A w \in Wires : (\A a \in Peers : w[a][a] = <<>>) =>
                 \A a \in Peers : Sent(w, x, y, items)[a][a] = <<>>
<1>1. x = y => ~Connected(x, y)
  <2>1. {x} \notin up
    BY Whole
  <2>2. x = y => {x, y} = {x}
    OBVIOUS
  <2>3. QED
    BY <2>1, <2>2 DEF Connected
<1>2. ASSUME NEW w \in Wires, \A a \in Peers : w[a][a] = <<>>, NEW a \in Peers
      PROVE  Sent(w, x, y, items)[a][a] = <<>>
  BY <1>1, <1>2, SentAt
<1>3. QED
  BY <1>1, <1>2

(* A friend that something of is known, or comes from, is not oneself. *)
LEMMA FromOthers ==
    ASSUME IInv, NEW x \in Peers, NEW y \in Peers
    PROVE  /\ \A n \in DOMAIN incoming[x][y] : x # y
           /\ wire[y][x] # <<>> => x # y
<1>1. incoming[x][x] = NoTransactions /\ wire[x][x] = <<>>
  BY Whole
<1>2. DOMAIN NoTransactions = {}
  BY DEF NoTransactions
<1>3. QED
  BY <1>1, <1>2

LEMMA ToSelfStep == IInv /\ [Next]_vars => NotToSelf'
<1> SUFFICES ASSUME IInv, [Next]_vars
             PROVE  NotToSelf'
  OBVIOUS
<1> DEFINE NoUp == \A a \in Peers : {a} \notin up'
           NoWire == \A a \in Peers : wire'[a][a] = <<>>
           NoIncoming == \A a \in Peers : incoming'[a][a] = NoTransactions
           Goal == NoUp /\ NoWire /\ NoIncoming
<1>goal. Goal => NotToSelf'
  BY DEF NotToSelf
<1>same. /\ UNCHANGED up => NoUp
         /\ UNCHANGED wire => NoWire
         /\ UNCHANGED incoming => NoIncoming
  BY Whole
<1>wire. wire \in Wires /\ \A a \in Peers : wire[a][a] = <<>>
  BY Whole
<1>sent. ASSUME NEW x \in Peers, NEW y \in Peers, NEW items, wire' = Sent(wire, x, y, items)
         PROVE  NoWire
  <2>1. \A a \in Peers : Sent(wire, x, y, items)[a][a] = <<>>
    BY <1>wire, SentToOthers
  <2>2. QED
    BY <1>sent, <2>1
<1>taken. ASSUME NEW x \in Peers, NEW y \in Peers, wire[y][x] # <<>>
          PROVE  Taken(x, y) \in Wires /\ \A a \in Peers : Taken(x, y)[a][a] = <<>>
  <2>1. x # y /\ Taken(x, y) \in Wires
    BY <1>taken, <1>wire, FromOthers, TakenType
  <2>2. \A a \in Peers : Taken(x, y)[a][a] =
           IF a = y /\ a = x THEN Tail(wire[y][x]) ELSE wire[a][a]
    BY <1>wire, TakenAt
  <2>3. QED
    BY <1>wire, <2>1, <2>2
<1>told. ASSUME NEW x \in Peers, NEW y \in Peers, NEW n \in DOMAIN incoming[x][y]
         PROVE  Told(x, y, n) \in Wires /\ \A a \in Peers : Told(x, y, n)[a][a] = <<>>
  <2>1. n \in Nat
    BY Whole
  <2>2. Told(x, y, n) \in Wires
    BY <1>wire, <2>1, ToldType
  <2> DEFINE b == <<[kind |-> "end", n |-> n]>>
  <2>3. Told(x, y, n) = Sent(wire, x, y, b)
    BY DEF Told
  <2> HIDE DEF b
  <2>4. \A a \in Peers : Sent(wire, x, y, b)[a][a] = <<>>
    BY <1>wire, SentToOthers
  <2>5. QED
    BY <2>2, <2>3, <2>4
<1>open. ASSUME NEW x \in Peers, NEW y \in Peers, NEW w \in Wires,
                \A a \in Peers : w[a][a] = <<>>,
                NEW type, NEW items, NEW ts, Open(w, x, y, type, items, ts)
         PROVE  NoWire
  BY <1>open, SentToOthers DEF Open
<1>known. ASSUME NEW x \in Peers, NEW y \in Peers, NEW n \in DOMAIN incoming[x][y],
                 NEW g, incoming' = [incoming EXCEPT ![x][y] = g]
          PROVE  NoIncoming
  BY <1>known, FromOthers, Whole
<1>1. ASSUME NEW x \in Peers,
             \/ \E m \in Messages : Publish(x, m)
             \/ Notify(x) \/ ProcessReceived(x) \/ Save(x)
      PROVE  Goal
  <2>1. UNCHANGED <<up, wire, incoming>>
    BY <1>1 DEF Publish, Notify, ProcessReceived, Save
  <2>2. QED
    BY <1>same, <2>1
<1>2. ASSUME NEW x \in Peers, Crash(x) PROVE Goal
  <2>1. /\ up' = {p \in up : x \notin p}
        /\ wire' = [y \in Peers |-> [z \in Peers |->
                       IF z = x \/ y = x THEN <<>> ELSE wire[y][z]]]
        /\ incoming' = [incoming EXCEPT ![x] = [y \in Peers |-> NoTransactions]]
    BY <1>2 DEF Crash
  <2>2. QED
    BY <2>1, Whole
<1>3. ASSUME NEW x \in Peers, NEW n \in DOMAIN own[x], OwnTick(x, n) PROVE Goal
  <2> DEFINE t == own[x][n]
  <2>1. t \in Own
    BY Whole
  <2>2. t.to \in Peers /\ t.state \in {"sending", "completed"}
    BY <1>3, <2>1 DEF OwnTick, Own
  <2>3. /\ UNCHANGED <<incoming, up>>
        /\ (wire' = wire \/ wire' = Sent(wire, x, t.to, Items(n, t.announced)))
    BY <1>3, <2>2 DEF OwnTick, Items
  <2> HIDE DEF t
  <2>4. NoWire
    BY <1>same, <1>sent, <2>2, <2>3
  <2>5. QED
    BY <1>same, <2>3, <2>4
<1>4. ASSUME NEW x \in Peers, NEW y \in Peers, NEW n \in DOMAIN incoming[x][y],
             Start(x, y, n) \/ AllReceived(x, y, n)
      PROVE  Goal
  <2> DEFINE b == <<[kind |-> "begin2", n |-> n]>>
  <2>1. /\ UNCHANGED up
        /\ (wire' = wire \/ wire' = Sent(wire, x, y, b))
        /\ \E g : incoming' = [incoming EXCEPT ![x][y] = g]
    BY <1>4 DEF Start, AllReceived
  <2> HIDE DEF b
  <2>2. NoWire
    BY <1>same, <1>sent, <2>1
  <2>3. PICK g : incoming' = [incoming EXCEPT ![x][y] = g]
    BY <2>1
  <2>4. NoIncoming
    BY <1>known, <2>3
  <2>5. UNCHANGED up
    BY <1>4 DEF Start, AllReceived
  <2>6. NoUp
    BY <1>same, <2>5
  <2>7. QED
    BY <2>2, <2>4, <2>6
<1>5. ASSUME NEW x \in Peers, NEW y \in Peers, NEW n \in DOMAIN incoming[x][y],
             FinishList(x, y, n) \/ FinishRequest(x, y, n) \/ FinishMessages(x, y, n)
      PROVE  Goal
  <2>1. UNCHANGED up /\ incoming' = [incoming EXCEPT ![x][y] = Without(@, n)]
    BY <1>5 DEF FinishList, FinishRequest, FinishMessages, Finish
  <2>2. NoIncoming
    BY <1>known, <2>1
  <2>3. \/ wire' = Told(x, y, n)
        \/ \E type, items, ts : Open(Told(x, y, n), x, y, type, items, ts)
    <3>1. CASE FinishList(x, y, n)
      BY <3>1 DEF FinishList
    <3>2. CASE FinishRequest(x, y, n)
      BY <3>2 DEF FinishRequest
    <3>3. CASE FinishMessages(x, y, n)
      BY <3>3 DEF FinishMessages
    <3>4. QED
      BY <1>5, <3>1, <3>2, <3>3
  <2>4. NoWire
    BY <1>told, <1>open, <2>3
  <2>5. QED
    BY <1>same, <2>1, <2>2, <2>4
<1>6. ASSUME NEW x \in Peers, NEW n \in DOMAIN own[x], OwnTimeout(x, n) PROVE Goal
  <2>1. UNCHANGED <<up, wire, incoming>>
    BY <1>6 DEF OwnTimeout
  <2>2. QED
    BY <1>same, <2>1
<1>7. ASSUME NEW x \in Peers, NEW y \in Peers, NEW n \in DOMAIN incoming[x][y],
             IncomingTimeout(x, y, n)
      PROVE  Goal
  <2>1. UNCHANGED <<up, wire>> /\ incoming' = [incoming EXCEPT ![x][y] = Without(@, n)]
    BY <1>7 DEF IncomingTimeout
  <2>2. QED
    BY <1>same, <1>known, <2>1
<1>8. ASSUME NEW x \in Peers, NEW y \in Peers, Sync(x, y) PROVE Goal
  <2> DEFINE b == <<[kind |-> "sync", ts |-> clientTS[x][y]]>>
  <2>1. UNCHANGED <<up, incoming>> /\ wire' = Sent(wire, x, y, b)
    BY <1>8 DEF Sync
  <2> HIDE DEF b
  <2>2. NoWire
    BY <1>sent, <2>1
  <2>3. QED
    BY <1>same, <2>1, <2>2
<1>9. ASSUME NEW x \in Peers, NEW y \in Peers, Receive(x, y) PROVE Goal
  <2>1. wire[y][x] # <<>> /\ UNCHANGED up
    BY <1>9 DEF Receive, RecvSync, RecvBegin1, RecvItem, RecvReply, Arrives
  <2>2. x # y
    BY <2>1, FromOthers
  <2>3. NoIncoming
    <3>1. UNCHANGED incoming \/ \E g : incoming' = [incoming EXCEPT ![x][y] = g]
      BY <1>9 DEF Receive, RecvSync, RecvBegin1, RecvItem, RecvReply
    <3>2. CASE UNCHANGED incoming
      BY <1>same, <3>2
    <3>3. ASSUME NEW g, incoming' = [incoming EXCEPT ![x][y] = g]
          PROVE  NoIncoming
      <4>1. \A a \in Peers : incoming'[a][a] = incoming[a][a]
        BY <2>2, <3>3, Whole
      <4>2. QED
        BY <4>1, Whole
    <3>4. QED
      BY <3>1, <3>2, <3>3
  <2>4. NoWire
    <3>1. \/ wire' = Taken(x, y)
          \/ \E type, items, ts : Open(Taken(x, y), x, y, type, items, ts)
      <4>1. CASE RecvSync(x, y)
        BY <4>1 DEF RecvSync
      <4>2. CASE RecvBegin1(x, y) \/ RecvItem(x, y) \/ RecvReply(x, y)
        BY <4>2 DEF RecvBegin1, RecvItem, RecvReply
      <4>3. QED
        BY <1>9, <4>1, <4>2 DEF Receive
    <3>2. QED
      BY <1>taken, <1>open, <2>1, <3>1
  <2>5. QED
    BY <1>same, <2>1, <2>3, <2>4
<1>10. ASSUME NEW x \in Peers, NEW y \in Peers, Disconnect(x, y) PROVE Goal
  <2>1. Connected(x, y) /\ up' = up \ {{x, y}} /\ UNCHANGED incoming
    BY <1>10 DEF Disconnect
  <2>2. PICK v, w : wire' = [wire EXCEPT ![x][y] = v, ![y][x] = w]
    BY <1>10 DEF Disconnect
  <2>3. x # y
    BY <2>1, SentToOthers
  <2>4. NoWire
    BY <2>2, <2>3, Whole DEF Wires
  <2>5. NoUp
    BY <2>1, Whole
  <2>6. QED
    BY <1>same, <2>1, <2>4, <2>5
<1>11. ASSUME NEW x \in Peers, NEW y \in Peers, Connect(x, y) PROVE Goal
  <2>1. x # y /\ up' = up \cup {{x, y}} /\ UNCHANGED <<wire, incoming>>
    BY <1>11 DEF Connect
  <2>2. \A a : {a} # {x, y}
    BY <2>1
  <2>3. NoUp
    BY <2>1, <2>2, Whole
  <2>4. QED
    BY <1>same, <2>1, <2>3
<1>12. UNCHANGED vars => Goal
  BY <1>same DEF vars
<1> HIDE DEF Goal
<1>13. CASE \E x \in Peers : DataTick(x) \/ Timeout(x)
  BY <1>goal, <1>3, <1>4, <1>5, <1>6, <1>7, <1>13 DEF DataTick, Timeout
<1>14. CASE UNCHANGED vars
  BY <1>goal, <1>12, <1>14
<1>15. QED
  BY <1>goal, <1>1, <1>2, <1>8, <1>9, <1>10, <1>11, <1>13, <1>14 DEF Next

LEMMA LinkedStep == IInv /\ [Next]_vars => Linked'
<1> SUFFICES ASSUME IInv, [Next]_vars
             PROVE  Linked'
  OBVIOUS
<1>1. ASSUME NEW x \in Peers,
             \/ \E m \in Messages : Publish(x, m)
             \/ Notify(x) \/ ProcessReceived(x) \/ Save(x)
      PROVE  Linked'
  <2>1. UNCHANGED <<transN, own, incoming, wire, up>>
    BY <1>1 DEF Publish, Notify, ProcessReceived, Save
  <2>2. QED
    BY <2>1, LinkedQuiet
<1>2. ASSUME NEW x \in Peers, NEW n \in DOMAIN own[x], OwnTimeout(x, n)
      PROVE  Linked'
  <2>1. /\ own' = [own EXCEPT ![x] = Without(@, n)]
        /\ UNCHANGED <<transN, incoming, wire, up>>
    BY <1>2 DEF OwnTimeout
  <2>2. QED
    BY <2>1, LinkedDropped
<1>3. ASSUME NEW x \in Peers, NEW y \in Peers, NEW n \in DOMAIN incoming[x][y],
             IncomingTimeout(x, y, n)
      PROVE  Linked'
  <2>1. /\ incoming' = [incoming EXCEPT ![x][y] = Without(@, n)]
        /\ UNCHANGED <<transN, own, wire, up>>
    BY <1>3 DEF IncomingTimeout
  <2>2. QED
    BY <2>1, LinkedForgotten
<1>4. CASE UNCHANGED vars
  BY <1>4, LinkedQuiet DEF vars
<1>5. QED
  BY <1>1, <1>2, <1>3, <1>4, LinkedCrash, LinkedOwnTick, LinkedMovedOn, LinkedFinish,
     LinkedSync, LinkedRecvSync, LinkedBegin1, LinkedItem, LinkedReply, LinkedDisconnect,
     LinkedConnect
     DEF Next, DataTick, Timeout, Receive

(***************************************************************************)
(* The theorems                                                            *)
(***************************************************************************)

LEMMA Inductive == Spec => []IInv
<1>1. Init => IInv
  BY TypeInit, ToSelfInit, LinkedInit DEF IInv
<1>2. IInv /\ [Next]_vars => IInv'
  <2>1. IInv /\ [Next]_vars => TypeOK'
    BY TypeStep DEF IInv
  <2>2. IInv /\ [Next]_vars => NotToSelf' /\ Linked'
    BY ToSelfStep, LinkedStep
  <2>3. QED
    BY <2>1, <2>2 DEF IInv
<1>3. QED
  BY <1>1, <1>2, PTL DEF Spec

(* The state has its type: what is announced, asked for, sent, stored and  *)
(* rejected are messages, under numbers and stamps that were given         *)
(* (RsGxsNetService's tables, transactions and items).                     *)
THEOREM SyncTypes == Spec => []TypeOK
BY Inductive, PTL DEF IInv

(* What is received in a transaction is what was announced for it, in that *)
(* order, though items are assigned by the number of the transaction only  *)
(* (handleTransaction) and numbers are given again: for any peers, time-   *)
(* outs, lost connections and crashes.                                     *)
THEOREM SyncNeverMixes == Spec => []NoMixing
<1>1. IInv => NoMixing
  <2> SUFFICES ASSUME IInv, NEW x \in Peers, NEW y \in Peers,
                      NEW n \in DOMAIN incoming[x][y]
               PROVE  IsPrefix(incoming[x][y][n].got, incoming[x][y][n].announced)
    BY DEF NoMixing
  <2> DEFINE s == incoming[x][y][n].got
             t == incoming[x][y][n].announced
  <2>1. x # y
    BY FromOthers
  <2>2. GoesOn(wire[y][x], incoming[x][y][n], n)
    BY <2>1, LinkingHolds DEF Linking, LinkOK, Link, ItemsGoOn
  <2>3. s \in Seq(Messages) /\ t \in Seq(Messages)
    BY Whole DEF Incoming
  <2>4. Len(s) <= Len(t) /\ \A i \in DOMAIN s : s[i] = t[i]
    BY <2>2 DEF GoesOn
  <2> HIDE DEF s, t
  <2>5. /\ Len(s) \in Nat /\ Len(t) \in Nat /\ DOMAIN s = 1 .. Len(s)
    BY <2>3, LenProperties
  <2>6. SubSeq(s, 1, Len(s)) = SubSeq(t, 1, Len(s))
    <3>1. /\ \A i \in 1 .. Len(s) : s[i] \in Messages
          /\ \A i \in 1 .. Len(s) : t[i] \in Messages
      BY <2>3, <2>4, <2>5, ElementOfSeq
    <3> DEFINE k == Len(s)
    <3>2. /\ SubSeq(s, 1, k) = [i \in 1 .. k |-> s[i]]
          /\ SubSeq(t, 1, k) = [i \in 1 .. k |-> t[i]]
      BY <2>3, <2>5, <3>1 DEF SubSeq
    <3>3. QED
      BY <2>4, <2>5, <3>2
  <2>7. QED
    BY <2>4, <2>6 DEF IsPrefix, s, t
<1>2. QED
  BY <1>1, Inductive, PTL
=============================================================================
