-------------------------- MODULE FileChunksProofs --------------------------
(***************************************************************************)
(* Theorems about FileChunks: the types, that no part of a chunk is        *)
(* forgotten while it is downloaded, that a chunk is whole when it leaves  *)
(* the download, and that the counts of what remains and of what is held   *)
(* are those of the slices and of the chunks.                              *)
(*                                                                         *)
(* They are about downloads that are Plain.  The invariant says of the     *)
(* sources' feeds, of the slices, of the parts of slices and of their      *)
(* counters how they divide a chunk; each way in which an operation        *)
(* changes these is a lemma, and a step of the model puts them together.   *)
(***************************************************************************)
EXTENDS FileChunks, FiniteSetTheorems, TLAPS

(* A cell is what a packet carries, so that slices are cut by whole        *)
(* packets; and nobody forces a check while chunks are downloaded.         *)
Plain == Packet = 1 /\ ~CheckWhileOpen

Budgets == {"lost", "bad", "idle", "leave", "forced"}
Slice == [size : 1 .. FileSize, id : Cells, ref : 0 .. FileSize + 1, peer : Sources]

IsFcn(g) == g = [x \in DOMAIN g |-> g[x]]

(* Each feed of f goes on in a chunk of o that is being downloaded, and no *)
(* two are in the same.                                                    *)
Feeding(f, o) ==
    /\ DOMAIN f \subseteq Sources
    /\ f \in [DOMAIN f -> [start : Chunks, offset : Cells]]
    /\ \A q \in DOMAIN f :
          /\ f[q].start \in DOMAIN o
          /\ ChunkOf(f[q].offset) = f[q].start
          /\ \A r \in DOMAIN f : f[q].start = f[r].start => q = r

(* The slices of a chunk lie in it, one after the other, and before what   *)
(* is left to be cut.                                                      *)
InOrder(f, c, s) ==
    /\ DOMAIN s \subseteq CellsOf(c)
    /\ s \in [DOMAIN s -> 1 .. FileSize]
    /\ \A i \in DOMAIN s :
          /\ i + s[i] <= EndOf(c)
          /\ \A j \in DOMAIN s : i < j => i + s[i] <= j
          /\ \A q \in DOMAIN f : f[q].start = c => i + s[i] <= f[q].offset

Slicing(f, o) ==
    /\ DOMAIN o \subseteq Chunks
    /\ IsFcn(o)
    /\ \A c \in DOMAIN o :
          /\ o[c] = [slices |-> o[c].slices, remains |-> o[c].remains]
          /\ o[c].remains \in 0 .. FileSize
          /\ InOrder(f, c, o[c].slices)

(* What is left to be cut of chunk c.                                      *)
Uncut(f, c) == [q \in {r \in DOMAIN f : f[r].start = c} |-> EndOf(c) - f[q].offset]

Remaining(f, o) ==
    \A c \in DOMAIN o : o[c].remains = SumOver(o[c].slices) + SumOver(Uncut(f, c))

(* i is a part of a slice of o.                                            *)
PartOf(o, i, part) ==
    LET c == ChunkOf(part.id)
    IN  /\ c \in DOMAIN o /\ part.id \in DOMAIN o[c].slices
        /\ part.id <= i /\ i + part.size <= part.id + o[c].slices[part.id]

(* The parts m are parts of the slices of o, do not overlap, share their   *)
(* counter if they are of the same slice, and leave no slice out.          *)
Dividing(o, m) ==
    /\ DOMAIN m \subseteq Cells
    /\ m \in [DOMAIN m -> Slice]
    /\ \A i \in DOMAIN m :
          /\ PartOf(o, i, m[i])
          /\ \A j \in DOMAIN m : /\ i < j => i + m[i].size <= j
                                 /\ m[i].id = m[j].id <=> m[i].ref = m[j].ref
    /\ \A c \in DOMAIN o : \A id \in DOMAIN o[c].slices : \E i \in DOMAIN m : m[i].id = id

PartsOf(m, r) == {i \in DOMAIN m : m[i].ref = r}

Counting(m, n) ==
    /\ n \in [InUse(m) -> Nat]
    /\ \A r \in InUse(m) : n[r] = Cardinality(PartsOf(m, r))

(* What of the chunks of o is not in w is in a part, or to be cut.         *)
Missing(f, o, m, w) ==
    \A c \in DOMAIN o : \A i \in CellsOf(c) \ w :
       \/ \E j \in DOMAIN m : i \in j .. j + m[j].size - 1
       \/ \E q \in DOMAIN f : i \in f[q].offset .. EndOf(f[q].start) - 1

Divided(f, o, m, n, w) ==
    /\ Feeding(f, o) /\ Slicing(f, o) /\ Remaining(f, o)
    /\ Dividing(o, m) /\ Counting(m, n) /\ Missing(f, o, m, w)

(* What a source has been asked lies in the file.                          *)
Request == {r \in [offset : Cells, size : 1 .. FileSize] : r.offset + r.size <= FileSize}

SimpleTypes ==
    /\ map \in [Chunks -> ChunkState]
    /\ complete \in BOOLEAN
    /\ queue \subseteq Chunks /\ toAsk \subseteq Chunks /\ received \subseteq Chunks
    /\ cmap \in [Sources -> SUBSET Chunks]
    /\ perPeer \in [Sources -> 0 .. Word - 1]
    /\ flag \in {"downloading", "checking", "complete", "closed"}
    /\ hash \in {None, "running", "right", "wrong"}
    /\ sources \subseteq Sources
    /\ requests \in [Sources -> Seq(Request)]
    /\ \A p \in Sources : Len(requests[p]) <= MaxRequests
    /\ data \in [Cells -> {None, "good", "bad"}]
    /\ fresh \subseteq Cells

OpenIsActive(m, o) == \A c \in Chunks : m[c] = "active" <=> c \in DOMAIN o

FileInv ==
    /\ SimpleTypes
    /\ Divided(feed, open, mChunks, refCnt, fresh)
    /\ OpenIsActive(map, open)
    /\ complete <=> IsComplete(map)
    /\ flag # "downloading" => complete
    /\ total = Counted(map, open)

(***************************************************************************)
(* Chunks and cells                                                        *)
(***************************************************************************)

LEMMA Division ==
  ASSUME NEW a \in Nat, NEW b \in Nat \ {0}
  PROVE  /\ a \div b \in Nat
         /\ (a \div b) * b <= a
         /\ a < (a \div b) * b + b
OBVIOUS

(* The quotient is the only number that fits.                              *)
LEMMA Quotient ==
  ASSUME NEW a \in Nat, NEW b \in Nat \ {0}, NEW q \in Nat, q * b <= a, a < q * b + b
  PROVE  a \div b = q
OBVIOUS

LEMMA Before ==
  ASSUME NEW a \in Int, NEW b \in Int, NEW k \in Nat, a < b
  PROVE  a * k + k <= b * k
<1>1. b - a - 1 >= 0 /\ b - a - 1 \in Nat
  OBVIOUS
<1>2. (b - a - 1) * k >= 0
  BY <1>1
<1>3. (b - a - 1) * k = b * k - a * k - k
  OBVIOUS
<1> QED BY <1>2, <1>3

LEMMA Sizes ==
  /\ FileSize \in Nat \ {0} /\ ChunkSize \in Nat \ {0} /\ Word \in Nat \ {0}
  /\ MaxPerPeer \in Nat \ {0} /\ FileSize < Word /\ MaxPerPeer < Word
  /\ FileSize - 1 \in Nat /\ SizeHints \subseteq Nat \ {0} /\ MaxRequests \in Nat
  /\ Holds \in [Sources -> SUBSET Chunks] /\ IsFiniteSet(Sources)
BY FileChunksAssumption

LEMMA ChunkFacts ==
  ASSUME NEW c \in Chunks
  PROVE  /\ c \in Nat
         /\ c * ChunkSize \in Nat
         /\ SizeOfChunk(c) \in 1 .. FileSize
         /\ EndOf(c) \in 1 .. FileSize
         /\ EndOf(c) = c * ChunkSize + SizeOfChunk(c)
         /\ CellsOf(c) = c * ChunkSize .. EndOf(c) - 1
<1> DEFINE L == ChunkOf(FileSize - 1)
           m == c * ChunkSize
<1>1. L \in Nat /\ L * ChunkSize < FileSize /\ FileSize <= L * ChunkSize + ChunkSize
  BY Division, Sizes DEF ChunkOf
<1>2. c \in Nat /\ c <= L
  BY <1>1 DEF Chunks
<1> HIDE DEF L
<1>3. m \in Nat
  BY <1>2, Sizes
<1>4. c < L => m + ChunkSize <= L * ChunkSize
  BY <1>1, <1>2, Before, Sizes
<1>5. SizeOfChunk(c) = IF c = L THEN FileSize - m ELSE ChunkSize
  BY DEF SizeOfChunk, L
<1>6. EndOf(c) = m + SizeOfChunk(c)
  BY DEF EndOf
<1> HIDE DEF m
<1>7. /\ SizeOfChunk(c) \in 1 .. FileSize /\ EndOf(c) \in 1 .. FileSize
      /\ SizeOfChunk(c) <= ChunkSize
  <2>1. CASE c = L
    <3>1. m = L * ChunkSize
      BY <2>1 DEF m
    <3> QED BY <1>1, <1>3, <1>5, <1>6, <2>1, <3>1, Sizes
  <2>2. CASE c # L
    <3>1. L * ChunkSize \in Nat /\ m + ChunkSize < FileSize
      BY <1>1, <1>2, <1>3, <1>4, <2>2, Sizes
    <3> QED BY <1>1, <1>2, <1>3, <1>5, <1>6, <2>2, <3>1, Sizes
  <2> QED BY <2>1, <2>2
<1>8. CellsOf(c) = m .. EndOf(c) - 1
  <2>1. ASSUME NEW i \in CellsOf(c) PROVE i \in m .. EndOf(c) - 1
    <3>1. i \in Nat /\ i <= FileSize - 1 /\ i \div ChunkSize = c
      BY <2>1, Sizes DEF CellsOf, Cells, ChunkOf
    <3>2. m <= i /\ i < m + ChunkSize
      BY <3>1, Division, Sizes DEF m
    <3>3. c = L => EndOf(c) = FileSize
      BY <1>3, <1>5, <1>6, Sizes
    <3> QED BY <1>3, <1>5, <1>6, <1>7, <3>1, <3>2, <3>3, Sizes
  <2>2. ASSUME NEW i \in m .. EndOf(c) - 1 PROVE i \in CellsOf(c)
    <3>1. i \in Nat /\ i <= FileSize - 1 /\ m <= i /\ i < m + ChunkSize
      BY <1>3, <1>6, <1>7, <2>2, Sizes
    <3>2. i \div ChunkSize = c
      BY <1>2, <3>1, Quotient, Sizes DEF m
    <3> QED BY <3>1, <3>2, Sizes DEF CellsOf, Cells, ChunkOf
  <2> QED BY <2>1, <2>2
<1> QED BY <1>2, <1>3, <1>6, <1>7, <1>8 DEF m

(* Every cell is of one chunk.                                             *)
LEMMA CellFacts ==
  ASSUME NEW i \in Cells
  PROVE  ChunkOf(i) \in Chunks /\ i \in CellsOf(ChunkOf(i)) /\ i \in 0 .. FileSize - 1
<1> DEFINE L == ChunkOf(FileSize - 1)
           k == ChunkOf(i)
<1>1. i \in Nat /\ i <= FileSize - 1
  BY Sizes DEF Cells
<1>2. L \in Nat /\ L * ChunkSize \in Int /\ FileSize <= L * ChunkSize + ChunkSize
  BY Division, Sizes DEF ChunkOf
<1>3. k \in Nat /\ k * ChunkSize \in Int /\ k * ChunkSize <= i
  BY <1>1, Division, Sizes DEF ChunkOf
<1> HIDE DEF L, k
<1>4. k <= L
  <2> SUFFICES ASSUME L < k PROVE FALSE
    BY <1>2, <1>3
  <2>1. L * ChunkSize + ChunkSize <= k * ChunkSize
    BY <1>2, <1>3, Before, Sizes
  <2> QED BY <1>1, <1>2, <1>3, <2>1, Sizes
<1> QED BY <1>1, <1>2, <1>3, <1>4 DEF k, L, Chunks, CellsOf, Cells

LEMMA CellsOfChunk ==
  ASSUME NEW c \in Chunks, NEW i \in CellsOf(c)
  PROVE  i \in Cells /\ ChunkOf(i) = c
BY DEF CellsOf

LEMMA FiniteSets ==
  IsFiniteSet(Chunks) /\ IsFiniteSet(Cells) /\ Cardinality(Cells) = FileSize
<1>1. ChunkOf(FileSize - 1) \in Nat
  BY Division, Sizes DEF ChunkOf
<1>2. IsFiniteSet(0 .. ChunkOf(FileSize - 1))
  BY <1>1, FS_Interval, 0 \in Int
<1>3. IsFiniteSet(0 .. FileSize - 1) /\ Cardinality(0 .. FileSize - 1) = FileSize
  BY FS_Interval, 0 \in Int, Sizes
<1> QED BY <1>2, <1>3 DEF Chunks, Cells

(***************************************************************************)
(* Sums                                                                    *)
(***************************************************************************)

Below(f) == {p \in (DOMAIN f) \X (1 .. Word) : p[2] <= f[p[1]]}

LEMMA SumFinite ==
  ASSUME NEW f, IsFiniteSet(DOMAIN f)
  PROVE  IsFiniteSet(Below(f)) /\ SumOver(f) \in Nat /\ SumOver(f) = Cardinality(Below(f))
<1>1. IsFiniteSet(1 .. Word)
  BY FS_Interval, 1 \in Int, Sizes
<1>2. IsFiniteSet((DOMAIN f) \X (1 .. Word))
  BY <1>1, FS_Product
<1>3. IsFiniteSet(Below(f))
  BY <1>2, FS_Subset DEF Below
<1>4. SumOver(f) = Cardinality(Below(f))
  BY DEF SumOver, Below
<1> QED BY <1>3, <1>4, FS_CardinalityType

LEMMA SumSame ==
  ASSUME NEW f, NEW g, DOMAIN f = DOMAIN g, \A y \in DOMAIN f : f[y] = g[y]
  PROVE  SumOver(f) = SumOver(g)
<1>1. Below(f) = Below(g)
  BY DEF Below
<1> QED BY <1>1 DEF SumOver, Below

LEMMA SumEmpty ==
  ASSUME NEW f, DOMAIN f = {}
  PROVE  SumOver(f) = 0
<1>1. Below(f) = {}
  BY DEF Below
<1> QED BY <1>1, FS_EmptySet DEF SumOver, Below

LEMMA SumPlus ==
  ASSUME NEW f, NEW g, NEW x, IsFiniteSet(DOMAIN f), x \notin DOMAIN f,
         DOMAIN g = DOMAIN f \cup {x}, \A y \in DOMAIN f : g[y] = f[y],
         g[x] \in 0 .. Word
  PROVE  SumOver(g) = SumOver(f) + g[x] /\ SumOver(f) \in Nat
<1> DEFINE n == g[x]
           B == {p \in {x} \X (1 .. Word) : p[2] <= n}
<1>1. Below(g) = Below(f) \cup B
  BY DEF Below
<1>2. Below(f) \cap B = {}
  BY DEF Below
<1>3. n \in 0 .. Word
  OBVIOUS
<1> HIDE DEF n
<1>4. IsFiniteSet(B) /\ Cardinality(B) = n
  <2> DEFINE h == [k \in 1 .. n |-> <<x, k>>]
  <2>1. h \in Bijection(1 .. n, B)
    <3>1. \A k \in 1 .. n : k \in 1 .. Word /\ <<x, k>> \in B
      BY <1>3, Sizes
    <3>2. \A p \in B : p[2] \in 1 .. n /\ h[p[2]] = p
      BY <1>3, Sizes
    <3>3. h \in Injection(1 .. n, B)
      <4>1. h \in [1 .. n -> B]
        BY <3>1
      <4>2. \A j, k \in 1 .. n : h[j] = h[k] => j = k
        OBVIOUS
      <4> QED BY <4>1, <4>2 DEF Injection, IsInjective
    <3>4. h \in Surjection(1 .. n, B)
      BY <3>1, <3>2 DEF Surjection
    <3> QED BY <3>3, <3>4 DEF Bijection
  <2>2. IsFiniteSet(1 .. n) /\ Cardinality(1 .. n) = n
    <3>1. n \in Int /\ n >= 0
      BY <1>3, Sizes
    <3>2. /\ IsFiniteSet(1 .. n)
          /\ Cardinality(1 .. n) = IF 1 > n THEN 0 ELSE n - 1 + 1
      BY <3>1, FS_Interval, 1 \in Int
    <3> QED BY <3>1, <3>2
  <2>3. ExistsBijection(1 .. n, B)
    BY <2>1 DEF ExistsBijection
  <2> QED BY <2>2, <2>3, FS_Bijection
<1> HIDE DEF B
<1>5. IsFiniteSet(Below(f)) /\ SumOver(f) \in Nat /\ SumOver(f) = Cardinality(Below(f))
  BY SumFinite
<1>6. Cardinality(Below(f) \cup B) = Cardinality(Below(f)) + Cardinality(B) - Cardinality({})
  BY <1>2, <1>4, <1>5, FS_Union
<1>7. SumOver(g) = Cardinality(Below(f) \cup B)
  BY <1>1 DEF SumOver, Below
<1>8. n \in Nat
  BY <1>3, Sizes
<1>9. Cardinality({}) = 0
  BY FS_EmptySet
<1>10. SumOver(g) = SumOver(f) + n
  BY <1>4, <1>5, <1>6, <1>7, <1>8, <1>9
<1> QED BY <1>5, <1>10 DEF n

LEMMA SumSplit ==
  ASSUME NEW f, NEW x, IsFiniteSet(DOMAIN f), x \in DOMAIN f, f[x] \in 0 .. Word
  PROVE  /\ SumOver([y \in DOMAIN f \ {x} |-> f[y]]) = SumOver(f) - f[x]
         /\ SumOver(f) >= f[x] /\ SumOver(f) \in Nat
         /\ SumOver([y \in DOMAIN f \ {x} |-> f[y]]) \in Nat
<1> DEFINE g == [y \in DOMAIN f \ {x} |-> f[y]]
<1>1. DOMAIN g = DOMAIN f \ {x} /\ \A y \in DOMAIN g : f[y] = g[y]
  OBVIOUS
<1> HIDE DEF g
<1>2. IsFiniteSet(DOMAIN g) /\ x \notin DOMAIN g /\ DOMAIN f = DOMAIN g \cup {x}
  BY <1>1, FS_RemoveElement
<1>3. SumOver(f) = SumOver(g) + f[x] /\ SumOver(g) \in Nat
  BY <1>1, <1>2, SumPlus
<1>4. SumOver(f) \in Nat
  BY SumFinite
<1> QED BY <1>3, <1>4 DEF g

(* f and g differ at x only.                                               *)
LEMMA SumChange ==
  ASSUME NEW f, NEW g, NEW x, IsFiniteSet(DOMAIN f), x \in DOMAIN f,
         DOMAIN g = DOMAIN f, \A y \in DOMAIN f \ {x} : g[y] = f[y],
         f[x] \in 0 .. Word, g[x] \in 0 .. Word
  PROVE  SumOver(g) = SumOver(f) - f[x] + g[x] /\ SumOver(f) \in Nat
<1> DEFINE h == [y \in DOMAIN f \ {x} |-> f[y]]
<1>1. SumOver(h) = SumOver(f) - f[x] /\ SumOver(f) \in Nat
  BY SumSplit
<1>2. [y \in DOMAIN g \ {x} |-> g[y]] = h
  OBVIOUS
<1>3. SumOver(h) = SumOver(g) - g[x] /\ SumOver(g) \in Nat
  BY <1>2, SumSplit
<1> HIDE DEF h
<1> QED BY <1>1, <1>3

(***************************************************************************)
(* Counters                                                                *)
(***************************************************************************)

LEMMA Remainder ==
  ASSUME NEW x \in Int
  PROVE  /\ x % Word \in 0 .. Word - 1
         /\ x \in 0 .. Word - 1 => x % Word = x
         /\ \E k \in Int : x = k * Word + (x % Word)
<1>1. Word \in Nat /\ Word > 0
  BY Sizes
<1>2. x \div Word \in Int /\ x = (x \div Word) * Word + (x % Word)
  BY <1>1
<1>3. x % Word \in 0 .. Word - 1
  BY <1>1
<1>4. x \in 0 .. Word - 1 => x % Word = x
  BY <1>1
<1> QED BY <1>2, <1>3, <1>4

(* Words that are apart by a multiple of Word are the same.                *)
LEMMA SameRemainder ==
  ASSUME NEW a \in 0 .. Word - 1, NEW b \in 0 .. Word - 1,
         NEW k \in Int, NEW l \in Int, k * Word + a = l * Word + b
  PROVE  a = b
<1>1. k < l => k * Word + Word <= l * Word
  BY Before, Sizes
<1>2. l < k => l * Word + Word <= k * Word
  BY Before, Sizes
<1>3. k * Word \in Int /\ l * Word \in Int
  BY Sizes
<1>4. k = l \/ k < l \/ l < k
  OBVIOUS
<1> QED BY <1>1, <1>2, <1>3, <1>4, Sizes

LEMMA WrapOnce ==
  ASSUME NEW x \in Int, NEW y \in Int
  PROVE  ((x % Word) + y) % Word = (x + y) % Word
<1> DEFINE z == (x % Word) + y
<1>1. PICK k \in Int : x = k * Word + (x % Word)
  BY Remainder
<1>2. x % Word \in Int /\ z \in Int
  BY Remainder
<1>3. PICK l \in Int : z = l * Word + (z % Word)
  BY <1>2, Remainder
<1>4. x + y \in Int
  OBVIOUS
<1>5. PICK n \in Int : x + y = n * Word + ((x + y) % Word)
  BY <1>4, Remainder
<1>6. z % Word \in 0 .. Word - 1 /\ (x + y) % Word \in 0 .. Word - 1
  BY <1>2, <1>4, Remainder
<1>7. x + y = k * Word + z
  BY <1>1, <1>2, Sizes
<1>8. (k + l) * Word = k * Word + l * Word
  BY Sizes
<1>9. k * Word \in Int /\ l * Word \in Int /\ n * Word \in Int /\ k + l \in Int
  BY Sizes
<1> DEFINE a == z % Word
           b == (x + y) % Word
           kw == k * Word
           lw == l * Word
<1>10. a \in Int /\ b \in Int
  BY <1>6, Sizes
<1>11. z = lw + a /\ x + y = kw + z /\ kw \in Int /\ lw \in Int /\ (k + l) * Word = kw + lw
  BY <1>3, <1>7, <1>8, <1>9
<1>12. x + y = (kw + lw) + a
  <2> HIDE DEF a, kw, lw, z
  <2> QED BY <1>2, <1>10, <1>11
<1>13. (k + l) * Word + a = n * Word + b
  BY <1>5, <1>11, <1>12
<1> HIDE DEF a, b
<1>14. a = b
  BY <1>6, <1>9, <1>13, SameRemainder DEF a, b
<1> QED BY <1>14 DEF a, b

LEMMA Exact ==
  ASSUME NEW a \in Int, NEW b \in Int
  PROVE  /\ a - b \in 0 .. Word - 1 => Minus(a, b) = a - b
         /\ a + b \in 0 .. Word - 1 => Plus(a, b) = a + b
         /\ Minus(a, b) \in 0 .. Word - 1 /\ Plus(a, b) \in 0 .. Word - 1
BY Remainder, a - b \in Int, a + b \in Int DEF Minus, Plus

LEMMA Wrapped ==
  ASSUME NEW x \in Int, NEW y \in Int
  PROVE  Plus(x % Word, y) = (x + y) % Word /\ Minus(x % Word, y) = (x - y) % Word
<1>1. Plus(x % Word, y) = (x + y) % Word
  BY WrapOnce DEF Plus
<1>2. Minus(x % Word, y) = (x - y) % Word
  <2>1. -y \in Int /\ x % Word \in Int
    BY Remainder
  <2>2. ((x % Word) + (-y)) % Word = (x + (-y)) % Word
    BY <2>1, WrapOnce
  <2>3. (x % Word) + (-y) = (x % Word) - y /\ x + (-y) = x - y
    BY <2>1
  <2> QED BY <2>2, <2>3 DEF Minus
<1> QED BY <1>1, <1>2

(***************************************************************************)
(* Functions, parts and counters                                           *)
(***************************************************************************)

LEMMA IsFunction ==
  ASSUME NEW D, NEW S, NEW g \in [D -> S]
  PROVE  IsFcn(g) /\ DOMAIN g = D
BY DEF IsFcn

LEMMA Extended ==
  ASSUME NEW g, NEW x, NEW v
  PROVE  /\ DOMAIN With(g, x, v) = DOMAIN g \cup {x}
         /\ \A y \in DOMAIN g \ {x} : With(g, x, v)[y] = g[y]
         /\ IsFcn(With(g, x, v))
BY DEF With, IsFcn

LEMMA ExtendedAt ==
  ASSUME NEW g, NEW x, NEW v
  PROVE  With(g, x, v)[x] = v
BY DEF With

LEMMA Lessened ==
  ASSUME NEW g, NEW S
  PROVE  /\ DOMAIN Without(g, S) = DOMAIN g \ S
         /\ \A x \in DOMAIN g \ S : Without(g, S)[x] = g[x]
         /\ IsFcn(Without(g, S))
BY DEF Without, Restrict, IsFcn

(* A part lies in the chunk of its slice.                                  *)
LEMMA PartPlace ==
  ASSUME NEW f, NEW o, NEW m, Slicing(f, o), Dividing(o, m), NEW i \in DOMAIN m
  PROVE  LET d == m[i]
             c == ChunkOf(d.id)
         IN  /\ i \in Cells /\ d.id \in Cells /\ c \in Chunks /\ c \in DOMAIN o
             /\ d.size \in 1 .. FileSize /\ d.ref \in 0 .. FileSize + 1
             /\ d.peer \in Sources
             /\ d = [size |-> d.size, id |-> d.id, ref |-> d.ref, peer |-> d.peer]
             /\ ChunkOf(i) = c
             /\ i + d.size <= EndOf(c)
             /\ d.id \in DOMAIN o[c].slices
             /\ d.id <= i /\ i + d.size <= d.id + o[c].slices[d.id]
<1> DEFINE d == m[i]
           c == ChunkOf(d.id)
           s == o[c].slices
<1>1. i \in Cells /\ d \in Slice
  BY DEF Dividing
<1>2. /\ d.id \in Cells /\ d.size \in 1 .. FileSize /\ d.ref \in 0 .. FileSize + 1
      /\ d.peer \in Sources
      /\ d = [size |-> d.size, id |-> d.id, ref |-> d.ref, peer |-> d.peer]
  BY <1>1 DEF Slice
<1>3. /\ c \in DOMAIN o /\ d.id \in DOMAIN s
      /\ d.id <= i /\ i + d.size <= d.id + s[d.id]
  BY DEF Dividing, PartOf
<1>4. c \in Chunks /\ InOrder(f, c, s)
  BY <1>3 DEF Slicing
<1>5. d.id + s[d.id] <= EndOf(c) /\ s[d.id] \in 1 .. FileSize
  BY <1>3, <1>4 DEF InOrder
<1>6. i \in 0 .. FileSize - 1 /\ d.id \in 0 .. FileSize - 1
  BY <1>1, <1>2, CellFacts
<1>7. EndOf(c) \in Nat /\ CellsOf(c) = c * ChunkSize .. EndOf(c) - 1 /\ c * ChunkSize \in Nat
  BY <1>4, ChunkFacts, Sizes
<1>8. d.id \in CellsOf(c)
  BY <1>2 DEF CellsOf
<1> HIDE DEF d, c, s
<1>9. i + d.size <= EndOf(c) /\ i \in CellsOf(c)
  BY SMTT(30), <1>2, <1>3, <1>5, <1>6, <1>7, <1>8, Sizes
<1>10. ChunkOf(i) = c
  BY <1>4, <1>9, CellsOfChunk
<1> QED BY <1>1, <1>2, <1>3, <1>4, <1>9, <1>10 DEF d, c, s

(* Two stretches in different chunks, or the same, that do not overlap.    *)
LEMMA OtherChunk ==
  ASSUME NEW i \in Cells, NEW j \in Cells, ChunkOf(i) # ChunkOf(j),
         NEW n \in Nat, i + n <= EndOf(ChunkOf(i)), i < j
  PROVE  i + n <= j
<1> DEFINE c == ChunkOf(i)
<1>1. /\ c \in Chunks /\ i \in CellsOf(c) /\ i \in 0 .. FileSize - 1
      /\ j \in 0 .. FileSize - 1
  BY CellFacts
<1>2. EndOf(c) \in Nat /\ CellsOf(c) = c * ChunkSize .. EndOf(c) - 1 /\ c * ChunkSize \in Nat
  BY <1>1, ChunkFacts, Sizes
<1>3. j \notin CellsOf(c)
  BY <1>1, CellsOfChunk
<1> QED BY <1>1, <1>2, <1>3, Sizes

LEMMA FreeCounter ==
  ASSUME DOMAIN mChunks \subseteq Cells
  PROVE  FreeRef \in 0 .. FileSize + 1 /\ FreeRef \notin InUse(mChunks)
<1>1. IsFiniteSet(DOMAIN mChunks) /\ Cardinality(DOMAIN mChunks) <= FileSize
  BY FiniteSets, FS_Subset
<1>2. IsFiniteSet(InUse(mChunks)) /\ Cardinality(InUse(mChunks)) <= FileSize
  <2> DEFINE g == [i \in DOMAIN mChunks |-> mChunks[i].ref]
  <2>1. g \in Surjection(DOMAIN mChunks, InUse(mChunks))
    BY DEF InUse, Surjection
  <2>2. /\ IsFiniteSet(InUse(mChunks))
        /\ Cardinality(InUse(mChunks)) <= Cardinality(DOMAIN mChunks)
    BY <1>1, <2>1, FS_Surjection
  <2>3. Cardinality(InUse(mChunks)) \in Nat /\ Cardinality(DOMAIN mChunks) \in Nat
    BY <1>1, <2>2, FS_CardinalityType
  <2> QED BY <1>1, <2>2, <2>3, Sizes
<1>3. Cardinality(0 .. FileSize + 1) = FileSize + 2 /\ IsFiniteSet(0 .. FileSize + 1)
  <2>1. FileSize + 1 \in Int /\ ~(0 > FileSize + 1)
    BY Sizes
  <2> QED BY <2>1, FS_Interval, 0 \in Int, Sizes
<1>4. \E r \in 0 .. FileSize + 1 : r \notin InUse(mChunks)
  <2> SUFFICES ASSUME 0 .. FileSize + 1 \subseteq InUse(mChunks) PROVE FALSE
    OBVIOUS
  <2>1. Cardinality(0 .. FileSize + 1) <= Cardinality(InUse(mChunks))
    BY <1>2, FS_Subset
  <2>2. Cardinality(InUse(mChunks)) \in Nat
    BY <1>2, FS_CardinalityType
  <2> QED BY <1>2, <1>3, <2>1, <2>2, Sizes
<1> QED BY <1>4 DEF FreeRef

(***************************************************************************)
(* Cutting a slice                                                         *)
(***************************************************************************)

LEMMA SumOne ==
  ASSUME NEW g, NEW x, DOMAIN g = {x}, g[x] \in 0 .. Word
  PROVE  SumOver(g) = g[x]
<1> DEFINE e == [y \in {} |-> 0]
<1>1. DOMAIN e = {}
  OBVIOUS
<1> HIDE DEF e
<1>2. SumOver(e) = 0 /\ IsFiniteSet(DOMAIN e)
  BY <1>1, SumEmpty, FS_EmptySet
<1>3. x \notin DOMAIN e /\ DOMAIN g = DOMAIN e \cup {x} /\ \A y \in DOMAIN e : g[y] = e[y]
  BY <1>1
<1>4. SumOver(g) = SumOver(e) + g[x]
  BY ONLY g[x] \in 0 .. Word, <1>2, <1>3, SumPlus
<1> QED BY <1>2, <1>4, Sizes

(* What a feed is at, in numbers.                                          *)
LEMMA FeedPlace ==
  ASSUME NEW f, NEW o, Feeding(f, o), Slicing(f, o), NEW q \in DOMAIN f
  PROVE  LET c == f[q].start
         IN  /\ q \in Sources /\ c \in Chunks /\ c \in DOMAIN o
             /\ f[q] = [start |-> c, offset |-> f[q].offset]
             /\ f[q].offset \in Cells /\ f[q].offset \in 0 .. FileSize - 1
             /\ f[q].offset \in CellsOf(c) /\ ChunkOf(f[q].offset) = c
             /\ EndOf(c) \in 1 .. FileSize /\ f[q].offset < EndOf(c)
             /\ c * ChunkSize \in Nat /\ c * ChunkSize <= f[q].offset
<1> DEFINE c == f[q].start
<1>1. q \in Sources /\ f[q] \in [start : Chunks, offset : Cells]
  BY DEF Feeding
<1>2. c \in Chunks /\ f[q].offset \in Cells /\ f[q] = [start |-> c, offset |-> f[q].offset]
  BY <1>1
<1>3. c \in DOMAIN o /\ ChunkOf(f[q].offset) = c
  BY DEF Feeding
<1>4. f[q].offset \in CellsOf(c) /\ f[q].offset \in 0 .. FileSize - 1
  BY <1>2, <1>3, CellFacts
<1>5. EndOf(c) \in 1 .. FileSize /\ CellsOf(c) = c * ChunkSize .. EndOf(c) - 1 /\ c * ChunkSize \in Nat
  BY <1>2, ChunkFacts
<1> HIDE DEF c
<1>6. f[q].offset < EndOf(c) /\ c * ChunkSize <= f[q].offset
  BY <1>4, <1>5, Sizes
<1> QED BY <1>1, <1>2, <1>3, <1>4, <1>5, <1>6 DEF c

FeedAfter(f, q, size) ==
    IF f[q].offset + size = EndOf(f[q].start) THEN Without(f, {q})
    ELSE [f EXCEPT ![q].offset = @ + size]
OpenAfter(f, o, q, size) ==
    With(o, f[q].start, [o[f[q].start] EXCEPT !.slices = With(@, f[q].offset, size)])

LEMMA FeedGoesOn ==
  ASSUME NEW f, NEW o, Feeding(f, o), Slicing(f, o), NEW q \in DOMAIN f,
         NEW size \in 1 .. FileSize, f[q].offset + size <= EndOf(f[q].start)
  PROVE  LET g == FeedAfter(f, q, size)
             off == f[q].offset
             c == f[q].start
         IN  /\ DOMAIN g \subseteq DOMAIN f /\ DOMAIN f \ {q} \subseteq DOMAIN g
             /\ IsFcn(g)
             /\ \A r \in DOMAIN f \ {q} : g[r] = f[r]
             /\ q \notin DOMAIN g => off + size = EndOf(c)
             /\ q \in DOMAIN g =>
                  /\ off + size < EndOf(c) /\ off + size \in CellsOf(c)
                  /\ g[q] = [start |-> c, offset |-> off + size]
<1> DEFINE g == FeedAfter(f, q, size)
           off == f[q].offset
           c == f[q].start
<1>1. /\ f[q] = [start |-> c, offset |-> off] /\ off \in 0 .. FileSize - 1
      /\ c * ChunkSize \in Nat /\ c * ChunkSize <= off /\ EndOf(c) \in 1 .. FileSize
      /\ c \in Chunks
  BY FeedPlace
<1>2. CellsOf(c) = c * ChunkSize .. EndOf(c) - 1
  BY <1>1, ChunkFacts
<1>3. CASE off + size = EndOf(c)
  <2>1. g = Without(f, {q})
    BY <1>3 DEF FeedAfter
  <2> HIDE DEF g, c, off
  <2>2. DOMAIN g = DOMAIN f \ {q} /\ \A r \in DOMAIN f \ {q} : g[r] = f[r]
    BY <2>1, Lessened
  <2>3. IsFcn(g)
    BY <2>1, Lessened
  <2> QED BY <1>3, <2>2, <2>3 DEF g, c, off
<1>4. CASE off + size # EndOf(c)
  <2>1. g = [f EXCEPT ![q].offset = @ + size]
    BY <1>4 DEF FeedAfter
  <2>2. f = [r \in DOMAIN f |-> f[r]]
    BY DEF Feeding
  <2> HIDE DEF g
  <2>3. DOMAIN g = DOMAIN f /\ \A r \in DOMAIN f \ {q} : g[r] = f[r]
    BY <2>1, <2>2
  <2>5. g[q] = [f[q] EXCEPT !.offset = @ + size]
    BY <2>1, <2>2
  <2> HIDE DEF c, off
  <2>6. g[q] = [start |-> c, offset |-> off + size]
    BY <1>1, <2>5
  <2>7. off + size < EndOf(c)
    BY <1>1, <1>4, Sizes DEF c, off
  <2>8. off + size \in CellsOf(c)
    BY <1>1, <1>2, <2>7, Sizes
  <2>9. g \in [DOMAIN f -> [start : Chunks, offset : Cells]]
    <3>1. g[q] \in [start : Chunks, offset : Cells]
      BY <1>1, <2>6, <2>8, CellsOfChunk
    <3>2. f \in [DOMAIN f -> [start : Chunks, offset : Cells]]
      BY DEF Feeding
    <3>3. [f EXCEPT ![q] = g[q]] \in [DOMAIN f -> [start : Chunks, offset : Cells]]
      BY <3>1, <3>2
    <3>4. g = [f EXCEPT ![q] = g[q]]
      BY <2>1, <2>5
    <3> QED BY <3>3, <3>4
  <2>10. IsFcn(g)
    BY <2>9, IsFunction
  <2> QED BY <2>3, <2>6, <2>7, <2>8, <2>10 DEF g, c, off
<1> QED BY <1>3, <1>4

LEMMA OpenGoesOn ==
  ASSUME NEW f, NEW o, Feeding(f, o), Slicing(f, o), NEW q \in DOMAIN f, NEW size
  PROVE  LET h == OpenAfter(f, o, q, size)
             c == f[q].start
         IN  /\ DOMAIN h = DOMAIN o /\ IsFcn(h)
             /\ \A d \in DOMAIN o \ {c} : h[d] = o[d]
             /\ h[c] = [slices |-> With(o[c].slices, f[q].offset, size),
                        remains |-> o[c].remains]
<1> DEFINE h == OpenAfter(f, o, q, size)
           c == f[q].start
           s == o[c].slices
<1>1. c \in DOMAIN o
  BY FeedPlace
<1>2. o[c] = [slices |-> s, remains |-> o[c].remains]
  BY <1>1 DEF Slicing
<1>3. h = With(o, c, [o[c] EXCEPT !.slices = With(@, f[q].offset, size)])
  BY DEF OpenAfter
<1> HIDE DEF h, s, c
<1>8. PICK v : v = [o[c] EXCEPT !.slices = With(@, f[q].offset, size)]
  OBVIOUS
<1>7. h = With(o, c, v)
  BY <1>8, <1>3
<1>4. DOMAIN h = DOMAIN o /\ IsFcn(h) /\ \A d \in DOMAIN o \ {c} : h[d] = o[d]
  BY <1>1, <1>7, Extended
<1>5. h[c] = [o[c] EXCEPT !.slices = With(@, f[q].offset, size)]
  <2>1. h[c] = v
    BY <1>7, ExtendedAt
  <2> QED BY <1>8, <2>1
<1>6. h[c] = [slices |-> With(s, f[q].offset, size), remains |-> o[c].remains]
  BY <1>2, <1>5
<1> QED BY <1>4, <1>6 DEF h, c, s

(* The slices of a chunk after one more is cut.                            *)
LEMMA SliceAdded ==
  ASSUME NEW f, NEW o, Feeding(f, o), Slicing(f, o), NEW q \in DOMAIN f,
         NEW size \in 1 .. FileSize, f[q].offset + size <= EndOf(f[q].start)
  PROVE  LET c == f[q].start
             s == o[c].slices
             off == f[q].offset
         IN  /\ off \notin DOMAIN s
             /\ InOrder(FeedAfter(f, q, size), c, With(s, off, size))
             /\ SumOver(With(s, off, size)) = SumOver(s) + size
             /\ SumOver(s) \in Nat
<1> DEFINE c == f[q].start
           s == o[c].slices
           off == f[q].offset
           g == FeedAfter(f, q, size)
           t == With(s, off, size)
<1>1. c \in DOMAIN o /\ off \in CellsOf(c) /\ c \in Chunks
  BY FeedPlace
<1>2. InOrder(f, c, s)
  BY <1>1 DEF Slicing
<1>3. CellsOf(c) \subseteq 0 .. FileSize - 1 /\ off \in 0 .. FileSize - 1 /\ EndOf(c) \in Nat
  <2> HIDE DEF c, off
  <2>1. CellsOf(c) \subseteq Cells
    BY DEF CellsOf
  <2>2. \A i \in Cells : i \in 0 .. FileSize - 1
    BY CellFacts
  <2>3. EndOf(c) \in 1 .. FileSize
    BY <1>1, ChunkFacts
  <2> QED BY <1>1, <2>1, <2>2, <2>3, Sizes
<1>4. \A i \in DOMAIN s : i \in CellsOf(c) /\ s[i] \in 1 .. FileSize /\ i + s[i] <= off
  BY <1>2 DEF InOrder
<1>5. off \notin DOMAIN s
  BY <1>3, <1>4, Sizes
<1>6. /\ DOMAIN t = DOMAIN s \cup {off} /\ IsFcn(t)
      /\ t[off] = size /\ \A i \in DOMAIN s : t[i] = s[i]
  <2> HIDE DEF s, off
  <2>1. /\ DOMAIN t = DOMAIN s \cup {off} /\ IsFcn(t)
        /\ t[off] = size /\ \A i \in DOMAIN s \ {off} : t[i] = s[i]
    <3>1. t = With(s, off, size)
      OBVIOUS
    <3> HIDE DEF t
    <3>2. t[off] = size
      BY <3>1, ExtendedAt
    <3>3. DOMAIN t = DOMAIN s \cup {off} /\ IsFcn(t)
      BY <3>1, Extended
    <3>4. \A i \in DOMAIN s \ {off} : t[i] = s[i]
      BY <3>1 DEF With
    <3> QED BY <3>2, <3>3, <3>4
  <2> HIDE DEF t
  <2> QED BY <1>5, <2>1
<1>7. /\ DOMAIN g \subseteq DOMAIN f /\ \A r \in DOMAIN g \ {q} : g[r] = f[r]
      /\ q \in DOMAIN g => g[q].offset = off + size /\ g[q].start = c
  <2>1. /\ DOMAIN g \subseteq DOMAIN f /\ \A r \in DOMAIN f \ {q} : g[r] = f[r]
        /\ q \in DOMAIN g => g[q] = [start |-> c, offset |-> off + size]
    BY FeedGoesOn
  <2> HIDE DEF g, c, off
  <2> QED BY <2>1
<1>8. \A r \in DOMAIN g : g[r].start = c => r = q
  BY <1>7 DEF Feeding
<1>9. InOrder(g, c, t)
  <2> HIDE DEF g, t, c, s, off
  <2>1. DOMAIN t \subseteq CellsOf(c)
    BY <1>1, <1>4, <1>6
  <2>2. t \in [DOMAIN t -> 1 .. FileSize]
    BY <1>4, <1>6 DEF IsFcn
  <2>3. ASSUME NEW i \in DOMAIN t
        PROVE  /\ i + t[i] <= EndOf(c)
               /\ \A j \in DOMAIN t : i < j => i + t[i] <= j
               /\ \A r \in DOMAIN g : g[r].start = c => i + t[i] <= g[r].offset
    <3>1. CASE i = off
      <4>1. t[i] = size /\ off + size <= EndOf(c)
        BY <1>6, <3>1 DEF off, c
      <4>2. \A j \in DOMAIN t : ~(off < j)
        BY <1>3, <1>4, <1>6, Sizes
      <4>3. \A r \in DOMAIN g : g[r].start = c => off + size <= g[r].offset
        BY <1>3, <1>7, <1>8, Sizes
      <4> QED BY <3>1, <4>1, <4>2, <4>3
    <3>2. CASE i # off
      <4>1. i \in DOMAIN s /\ t[i] = s[i]
        BY <1>6, <3>2
      <4>2. i + t[i] <= EndOf(c) /\ \A j \in DOMAIN s : i < j => i + t[i] <= j
        BY <1>2, <4>1 DEF InOrder
      <4>3. i + t[i] <= off
        BY <1>4, <4>1
      <4>4. i + t[i] <= off + size
        BY <1>3, <1>4, <4>1, <4>3, Sizes
      <4> QED BY <1>6, <1>7, <1>8, <4>2, <4>3, <4>4
    <3> QED BY <3>1, <3>2
  <2> QED BY <2>1, <2>2, <2>3 DEF InOrder
<1>10. SumOver(t) = SumOver(s) + size /\ SumOver(s) \in Nat
  <2>1. IsFiniteSet(DOMAIN s)
    <3>1. CellsOf(c) \subseteq Cells
      BY DEF CellsOf
    <3>2. DOMAIN s \subseteq Cells
      BY <1>4, <3>1
    <3> QED BY <3>2, FiniteSets, FS_Subset
  <2>2. t[off] \in 0 .. Word
    BY <1>6, Sizes
  <2> HIDE DEF t, s, off
  <2>3. SumOver(t) = SumOver(s) + t[off] /\ SumOver(s) \in Nat
    BY ONLY <1>5, <1>6, <2>1, <2>2, SumPlus
  <2> QED BY <1>6, <2>3
<1> QED BY <1>5, <1>9, <1>10

LEMMA CutFeeds ==
  ASSUME NEW f, NEW o, Feeding(f, o), Slicing(f, o), NEW q \in DOMAIN f,
         NEW size \in 1 .. FileSize, f[q].offset + size <= EndOf(f[q].start)
  PROVE  LET g == FeedAfter(f, q, size)
             h == OpenAfter(f, o, q, size)
         IN  Feeding(g, h) /\ Slicing(g, h)
<1> DEFINE g == FeedAfter(f, q, size)
           h == OpenAfter(f, o, q, size)
           c == f[q].start
           off == f[q].offset
           t == With(o[c].slices, off, size)
<1>1. /\ DOMAIN g \subseteq DOMAIN f /\ IsFcn(g)
      /\ \A r \in DOMAIN f \ {q} : g[r] = f[r]
      /\ q \in DOMAIN g => /\ off + size \in CellsOf(c)
                           /\ g[q] = [start |-> c, offset |-> off + size]
  BY FeedGoesOn
<1>2. /\ DOMAIN h = DOMAIN o /\ IsFcn(h) /\ \A d \in DOMAIN o \ {c} : h[d] = o[d]
      /\ h[c] = [slices |-> t, remains |-> o[c].remains]
  BY OpenGoesOn
<1>3. c \in DOMAIN o /\ c \in Chunks
  BY FeedPlace
<1>4. InOrder(g, c, t)
  BY SliceAdded
<1> HIDE DEF g, h, t, off, c
<1>5. \A r \in DOMAIN g : r \in DOMAIN f /\ g[r].start = f[r].start
  <2> TAKE r \in DOMAIN g
  <2>1. CASE r = q
    BY <1>1, <2>1 DEF c
  <2>2. CASE r # q
    BY <1>1, <2>2
  <2> QED BY <2>1, <2>2
<1>6. \A r \in DOMAIN f : r \in Sources /\ f[r] \in [start : Chunks, offset : Cells]
  BY DEF Feeding
<1>7. \A r \in DOMAIN g : /\ g[r] \in [start : Chunks, offset : Cells]
                          /\ ChunkOf(g[r].offset) = g[r].start
  <2> TAKE r \in DOMAIN g
  <2>1. CASE r = q
    <3>1. off + size \in Cells /\ ChunkOf(off + size) = c
      BY <1>1, <1>3, <2>1, CellsOfChunk
    <3> QED BY <1>1, <1>3, <2>1, <3>1
  <2>2. CASE r # q
    <3>1. g[r] = f[r] /\ r \in DOMAIN f
      BY <1>1, <2>2
    <3> QED BY <1>6, <3>1 DEF Feeding
  <2> QED BY <2>1, <2>2
<1>8. Feeding(g, h)
  <2>1. DOMAIN g \subseteq Sources
    BY <1>5, <1>6
  <2>2. g \in [DOMAIN g -> [start : Chunks, offset : Cells]]
    BY <1>1, <1>7 DEF IsFcn
  <2>3. \A r \in DOMAIN g : g[r].start \in DOMAIN h
    BY <1>2, <1>5 DEF Feeding
  <2>4. \A r, z \in DOMAIN g : g[r].start = g[z].start => r = z
    BY <1>5 DEF Feeding
  <2> QED BY <1>7, <2>1, <2>2, <2>3, <2>4 DEF Feeding
<1>9. Slicing(g, h)
  <2>1. DOMAIN h \subseteq Chunks
    BY <1>2 DEF Slicing
  <2>2. ASSUME NEW d \in DOMAIN h
        PROVE  /\ h[d] = [slices |-> h[d].slices, remains |-> h[d].remains]
               /\ h[d].remains \in 0 .. FileSize
               /\ InOrder(g, d, h[d].slices)
    <3>1. CASE d = c
      <4>1. h[d].slices = t /\ h[d].remains = o[c].remains
        BY <1>2, <3>1
      <4>2. o[c].remains \in 0 .. FileSize
        BY <1>3 DEF Slicing
      <4>3. h[d] = [slices |-> h[d].slices, remains |-> h[d].remains]
        BY <1>2, <3>1, <4>1
      <4> QED BY <1>4, <3>1, <4>1, <4>2, <4>3
    <3>2. CASE d # c
      <4>1. h[d] = o[d] /\ d \in DOMAIN o
        BY <1>2, <3>2
      <4>2. /\ o[d] = [slices |-> o[d].slices, remains |-> o[d].remains]
            /\ o[d].remains \in 0 .. FileSize /\ InOrder(f, d, o[d].slices)
        BY <4>1 DEF Slicing
      <4>3. \A r \in DOMAIN g : g[r].start = d => r \in DOMAIN f /\ g[r] = f[r]
        BY <1>1, <1>5, <3>2 DEF c
      <4>4. PICK s : s = o[d].slices
        OBVIOUS
      <4>5. InOrder(g, d, s)
        <5>1. InOrder(f, d, s)
          BY <4>2, <4>4
        <5> QED BY <4>3, <5>1 DEF InOrder
      <4> QED BY <4>1, <4>2, <4>4, <4>5
    <3> QED BY <3>1, <3>2
  <2> QED BY <1>2, <2>1, <2>2 DEF Slicing
<1> QED BY <1>8, <1>9 DEF g, h

LEMMA CutRemaining ==
  ASSUME NEW f, NEW o, Feeding(f, o), Slicing(f, o), Remaining(f, o), NEW q \in DOMAIN f,
         NEW size \in 1 .. FileSize, f[q].offset + size <= EndOf(f[q].start)
  PROVE  Remaining(FeedAfter(f, q, size), OpenAfter(f, o, q, size))
<1> DEFINE g == FeedAfter(f, q, size)
           h == OpenAfter(f, o, q, size)
           c == f[q].start
           off == f[q].offset
           t == With(o[c].slices, off, size)
           u == Uncut(f, c)
           v == Uncut(g, c)
<1>1. /\ DOMAIN g \subseteq DOMAIN f /\ DOMAIN f \ {q} \subseteq DOMAIN g
      /\ \A r \in DOMAIN f \ {q} : g[r] = f[r]
      /\ q \notin DOMAIN g => off + size = EndOf(c)
      /\ q \in DOMAIN g => /\ off + size < EndOf(c)
                           /\ g[q] = [start |-> c, offset |-> off + size]
  BY FeedGoesOn
<1>2. /\ DOMAIN h = DOMAIN o /\ \A d \in DOMAIN o \ {c} : h[d] = o[d]
      /\ h[c] = [slices |-> t, remains |-> o[c].remains]
  BY OpenGoesOn
<1>3. /\ c \in DOMAIN o /\ c \in Chunks /\ off \in 0 .. FileSize - 1
      /\ EndOf(c) \in 1 .. FileSize /\ off < EndOf(c)
  BY FeedPlace
<1>4. SumOver(t) = SumOver(o[c].slices) + size /\ SumOver(o[c].slices) \in Nat
  BY SliceAdded
<1>5. DOMAIN u = {q} /\ u[q] = EndOf(c) - off
  BY DEF Uncut, Feeding
<1>6. SumOver(u) = EndOf(c) - off
  <2>1. u[q] \in 0 .. Word
    BY <1>3, <1>5, Sizes
  <2> HIDE DEF u
  <2> QED BY <1>5, <2>1, SumOne
<1>7. SumOver(v) = EndOf(c) - off - size
  <2> HIDE DEF g, c, off
  <2>1. \A r \in DOMAIN g : g[r].start = c => r = q
    BY <1>1 DEF c, Feeding
  <2>2. CASE q \in DOMAIN g
    <3>1. DOMAIN v = {q} /\ v[q] = EndOf(c) - (off + size)
      BY <1>1, <2>1, <2>2 DEF Uncut
    <3>2. v[q] \in 0 .. Word
      BY <1>1, <1>3, <2>2, <3>1, Sizes
    <3> HIDE DEF v
    <3>3. SumOver(v) = v[q]
      BY <3>1, <3>2, SumOne
    <3> QED BY <1>3, <3>1, <3>3, Sizes
  <2>3. CASE q \notin DOMAIN g
    <3>1. DOMAIN v = {}
      BY <2>1, <2>3 DEF Uncut
    <3> HIDE DEF v
    <3>2. SumOver(v) = 0
      BY <3>1, SumEmpty
    <3> QED BY <1>1, <1>3, <2>3, <3>2, Sizes
  <2> QED BY <2>2, <2>3
<1>8. o[c].remains = SumOver(o[c].slices) + SumOver(u)
  BY <1>3 DEF Remaining
<1> HIDE DEF g, h, c, off, u, v, t
<1>9. ASSUME NEW d \in DOMAIN h
      PROVE  h[d].remains = SumOver(h[d].slices) + SumOver(Uncut(g, d))
  <2>1. CASE d = c
    <3>1. h[d].slices = t /\ h[d].remains = o[c].remains
      BY <1>2, <2>1
    <3>2. Uncut(g, d) = v
      BY <2>1 DEF v
    <3> DEFINE x == SumOver(o[c].slices)
    <3> HIDE DEF x
    <3>3. h[d].remains = x + (EndOf(c) - off)
      BY <1>6, <1>8, <3>1 DEF x
    <3>4. SumOver(t) + SumOver(v) = (x + size) + (EndOf(c) - off - size)
      BY <1>4, <1>7 DEF x
    <3>5. x \in Nat
      BY <1>4 DEF x
    <3>6. (x + size) + (EndOf(c) - off - size) = x + (EndOf(c) - off)
      BY <1>3, <3>5, Sizes
    <3> QED BY <3>1, <3>2, <3>3, <3>4, <3>6
  <2>2. CASE d # c
    <3>1. h[d] = o[d] /\ d \in DOMAIN o
      BY <1>2, <2>2
    <3>2. \A r \in DOMAIN g : g[r].start = d <=> r # q /\ f[r].start = d
      BY <1>1, <2>2 DEF c
    <3>3. {r \in DOMAIN g : g[r].start = d} = {r \in DOMAIN f : f[r].start = d}
      BY <1>1, <2>2, <3>2 DEF c
    <3>4. \A r \in {z \in DOMAIN f : f[z].start = d} : g[r] = f[r]
      BY <1>1, <2>2 DEF c
    <3>5. DOMAIN Uncut(g, d) = DOMAIN Uncut(f, d)
      BY <3>3 DEF Uncut
    <3>6. \A r \in DOMAIN Uncut(g, d) : Uncut(g, d)[r] = Uncut(f, d)[r]
      BY <3>3, <3>4 DEF Uncut
    <3>7. SumOver(Uncut(g, d)) = SumOver(Uncut(f, d))
      BY <3>5, <3>6, SumSame
    <3> QED BY <3>1, <3>7 DEF Remaining
  <2> QED BY <2>1, <2>2
<1> QED BY <1>9 DEF Remaining, g, h

(* Every part lies before or behind what is cut.                           *)
LEMMA CutApart ==
  ASSUME NEW f, NEW o, NEW m, Feeding(f, o), Slicing(f, o), Dividing(o, m),
         NEW q \in DOMAIN f, NEW size \in 1 .. FileSize,
         f[q].offset + size <= EndOf(f[q].start), NEW i \in DOMAIN m
  PROVE  \/ i + m[i].size <= f[q].offset
         \/ f[q].offset + size <= i
<1> DEFINE off == f[q].offset
           c == f[q].start
           d == ChunkOf(m[i].id)
<1>1. /\ c \in Chunks /\ off \in Cells /\ off \in 0 .. FileSize - 1 /\ ChunkOf(off) = c
      /\ c \in DOMAIN o
  BY FeedPlace
<1>2. /\ i \in Cells /\ d \in DOMAIN o /\ m[i].size \in 1 .. FileSize /\ ChunkOf(i) = d
      /\ i + m[i].size <= EndOf(d) /\ m[i].id \in DOMAIN o[d].slices
      /\ i + m[i].size <= m[i].id + o[d].slices[m[i].id]
  BY PartPlace
<1>3. i \in 0 .. FileSize - 1
  BY <1>2, CellFacts
<1>4. CASE d = c
  <2>1. InOrder(f, c, o[c].slices)
    BY <1>1 DEF Slicing
  <2>2. /\ m[i].id + o[c].slices[m[i].id] <= off
        /\ m[i].id \in CellsOf(c) /\ o[c].slices[m[i].id] \in 1 .. FileSize
    BY <1>2, <1>4, <2>1 DEF InOrder
  <2>3. m[i].id \in 0 .. FileSize - 1
    BY <1>1, <2>2, CellsOfChunk, CellFacts
  <2> DEFINE e == m[i].id + o[c].slices[m[i].id]
             z == i + m[i].size
  <2>4. e \in Int /\ z \in Int /\ off \in Int
    BY <1>1, <1>2, <1>3, <2>2, <2>3, Sizes
  <2>5. z <= e /\ e <= off
    BY <1>2, <1>4, <2>2
  <2> HIDE DEF e, z, off
  <2>6. z <= off
    BY <2>4, <2>5
  <2> QED BY <2>6 DEF z, off
<1>5. CASE d # c
  <2>1. i < off => i + m[i].size <= off
    BY <1>1, <1>2, <1>5, OtherChunk, Sizes
  <2>2. off < i => off + size <= i
    BY <1>1, <1>2, <1>5, OtherChunk, Sizes
  <2>3. i # off
    BY <1>1, <1>2, <1>5
  <2> QED BY <1>1, <1>3, <2>1, <2>2, <2>3
<1> QED BY <1>4, <1>5

LEMMA CutParts ==
  ASSUME NEW f, NEW o, NEW m, Feeding(f, o), Slicing(f, o), Dividing(o, m),
         NEW q \in DOMAIN f, NEW size \in 1 .. FileSize,
         f[q].offset + size <= EndOf(f[q].start),
         NEW r \in 0 .. FileSize + 1, r \notin InUse(m), NEW p \in Sources, NEW d,
         d = [size |-> size, id |-> f[q].offset, ref |-> r, peer |-> p]
  PROVE  /\ f[q].offset \notin DOMAIN m
         /\ Dividing(OpenAfter(f, o, q, size), With(m, f[q].offset, d))
<1> DEFINE h == OpenAfter(f, o, q, size)
           c == f[q].start
           off == f[q].offset
           s == o[c].slices
           t == With(s, off, size)
           n == With(m, off, d)
<1>1. /\ DOMAIN h = DOMAIN o /\ \A e \in DOMAIN o \ {c} : h[e] = o[e]
      /\ h[c] = [slices |-> t, remains |-> o[c].remains]
  BY OpenGoesOn
<1>2. /\ c \in Chunks /\ off \in Cells /\ off \in 0 .. FileSize - 1 /\ ChunkOf(off) = c
      /\ c \in DOMAIN o
  BY FeedPlace
<1>3. off \notin DOMAIN s
  BY SliceAdded
<1>4. DOMAIN t = DOMAIN s \cup {off} /\ t[off] = size /\ \A i \in DOMAIN s : t[i] = s[i]
  <2> HIDE DEF s, off
  <2> QED BY <1>3 DEF With
<1>5. \A i \in DOMAIN m : /\ i \in Cells /\ i \in 0 .. FileSize - 1
                          /\ m[i].size \in 1 .. FileSize /\ m[i] \in Slice
  <2> TAKE i \in DOMAIN m
  <2>1. i \in Cells /\ m[i].size \in 1 .. FileSize
    BY PartPlace
  <2> QED BY <2>1, CellFacts DEF Dividing
<1>6. \A i \in DOMAIN m : i + m[i].size <= off \/ off + size <= i
  <2> TAKE i \in DOMAIN m
  <2> QED BY CutApart
<1>7. off \notin DOMAIN m
  <2> HIDE DEF off
  <2> QED BY <1>2, <1>5, <1>6, Sizes
<1>8. \A i \in DOMAIN m : m[i].id # off /\ m[i].ref # r
  <2> TAKE i \in DOMAIN m
  <2>1. m[i].ref # r
    BY DEF InUse
  <2>2. m[i].id \in DOMAIN o[ChunkOf(m[i].id)].slices
    BY PartPlace
  <2>3. m[i].id # off
    BY <1>2, <1>3, <2>2
  <2> QED BY <2>1, <2>3
<1>9. /\ d.size = size /\ d.id = off /\ d.ref = r /\ d.peer = p /\ d \in Slice
  BY <1>2 DEF Slice
<1>10. \A i \in DOMAIN m : PartOf(o, i, m[i])
  BY DEF Dividing
<1> HIDE DEF h, c, s, t, off
<1>11. DOMAIN n = DOMAIN m \cup {off} /\ n[off] = d /\ \A i \in DOMAIN m : n[i] = m[i]
  BY <1>7 DEF With
<1>12. n \in [DOMAIN n -> Slice]
  <2>1. IsFcn(n)
    <3>1. n = With(m, off, d)
      OBVIOUS
    <3> HIDE DEF n
    <3> QED BY <3>1, Extended
  <2> HIDE DEF n
  <2> QED BY <1>5, <1>9, <1>11, <2>1 DEF IsFcn
<1> HIDE DEF n
<1>13. ASSUME NEW i \in DOMAIN n
       PROVE  PartOf(h, i, n[i])
  <2>1. CASE i = off
    <3>1. c \in DOMAIN h /\ h[c].slices = t
      BY <1>1, <1>2
    <3>2. off \in DOMAIN t /\ off <= off /\ off + size <= off + t[off]
      BY <1>2, <1>4, Sizes
    <3>3. n[i].id = off /\ n[i].size = size
      BY <1>9, <1>11, <2>1
    <3> QED BY <1>2, <2>1, <3>1, <3>2, <3>3 DEF PartOf
  <2>2. CASE i # off
    <3>1. i \in DOMAIN m /\ n[i] = m[i]
      BY <1>11, <2>2
    <3>2. PartOf(o, i, n[i])
      BY <1>10, <3>1
    <3> DEFINE e == ChunkOf(n[i].id)
               id == n[i].id
    <3>3. /\ e \in DOMAIN o /\ id \in DOMAIN o[e].slices
          /\ id <= i /\ i + n[i].size <= id + o[e].slices[id]
      BY <3>2 DEF PartOf
    <3>4. e \in DOMAIN h /\ id \in DOMAIN h[e].slices /\ h[e].slices[id] = o[e].slices[id]
      <4> HIDE DEF e, id
      <4>1. CASE e = c
        <5>1. h[e].slices = t /\ o[e].slices = s
          BY <1>1, <4>1 DEF s
        <5> QED BY <1>1, <1>4, <3>3, <5>1
      <4>2. CASE e # c
        BY <1>1, <3>3, <4>2
      <4> QED BY <4>1, <4>2
    <3> QED BY <3>3, <3>4 DEF PartOf
  <2> QED BY <2>1, <2>2
<1>14. ASSUME NEW i \in DOMAIN n, NEW j \in DOMAIN n
       PROVE  /\ i < j => i + n[i].size <= j
              /\ n[i].id = n[j].id <=> n[i].ref = n[j].ref
  <2>1. CASE i = off /\ j = off
    BY <1>2, <2>1
  <2>2. CASE i = off /\ j # off
    <3>1. j \in DOMAIN m /\ n[j] = m[j] /\ n[i].size = size /\ n[i].id = off /\ n[i].ref = r
      BY <1>9, <1>11, <2>2
    <3>2. j + m[j].size <= off \/ off + size <= j
      BY <1>6, <3>1
    <3>3. off < j => off + size <= j
      BY <1>2, <1>5, <3>1, <3>2, Sizes
    <3> QED BY <1>8, <2>2, <3>1, <3>3
  <2>3. CASE i # off /\ j = off
    <3>1. i \in DOMAIN m /\ n[i] = m[i] /\ n[j].id = off /\ n[j].ref = r
      BY <1>9, <1>11, <2>3
    <3>2. i + m[i].size <= off \/ off + size <= i
      BY <1>6, <3>1
    <3>3. i < off => i + m[i].size <= off
      BY <1>2, <1>5, <3>1, <3>2, Sizes
    <3> QED BY <1>8, <2>3, <3>1, <3>3
  <2>4. CASE i # off /\ j # off
    <3>1. i \in DOMAIN m /\ n[i] = m[i] /\ j \in DOMAIN m /\ n[j] = m[j]
      BY <1>11, <2>4
    <3> QED BY <3>1 DEF Dividing
  <2> QED BY <2>1, <2>2, <2>3, <2>4
<1>15. ASSUME NEW e \in DOMAIN h, NEW id \in DOMAIN h[e].slices
       PROVE  \E i \in DOMAIN n : n[i].id = id
  <2>1. CASE id = off
    BY <1>9, <1>11, <2>1
  <2>2. CASE id # off
    <3>1. e \in DOMAIN o /\ id \in DOMAIN o[e].slices
      <4>1. CASE e = c
        <5>1. h[e].slices = t /\ o[e].slices = s
          BY <1>1, <4>1 DEF s
        <5> QED BY <1>1, <1>4, <2>2, <5>1
      <4>2. CASE e # c
        BY <1>1, <4>2
      <4> QED BY <4>1, <4>2
    <3>2. \E i \in DOMAIN m : m[i].id = id
      BY <3>1 DEF Dividing
    <3> QED BY <1>11, <3>2
  <2> QED BY <2>1, <2>2
<1>16. DOMAIN n \subseteq Cells
  BY <1>2, <1>5, <1>11
<1>17. Dividing(h, n)
  BY <1>12, <1>13, <1>14, <1>15, <1>16 DEF Dividing
<1> QED BY <1>7, <1>17 DEF h, n, off

LEMMA CutCounts ==
  ASSUME NEW m, NEW n, Counting(m, n), NEW off, off \notin DOMAIN m,
         NEW r, r \notin InUse(m), NEW d, d.ref = r
  PROVE  Counting(With(m, off, d),
                  [x \in InUse(With(m, off, d)) |-> IF x = r THEN 1 ELSE n[x]])
<1> DEFINE m1 == With(m, off, d)
           n1 == [x \in InUse(m1) |-> IF x = r THEN 1 ELSE n[x]]
<1>1. DOMAIN m1 = DOMAIN m \cup {off} /\ m1[off] = d /\ \A i \in DOMAIN m : m1[i] = m[i]
  BY DEF With
<1> HIDE DEF m1
<1>2. InUse(m1) = InUse(m) \cup {r}
  BY <1>1 DEF InUse
<1>3. \A i \in DOMAIN m : m[i].ref # r
  BY DEF InUse
<1>4. PartsOf(m1, r) = {off}
  BY <1>1, <1>3 DEF PartsOf
<1>5. \A x \in InUse(m) : PartsOf(m1, x) = PartsOf(m, x)
  BY <1>1 DEF PartsOf
<1>6. n1[r] = 1 /\ \A x \in InUse(m) : n1[x] = n[x] /\ n[x] \in Nat
  BY <1>2 DEF Counting
<1>7. n1 \in [InUse(m1) -> Nat]
  BY <1>2, <1>6
<1> HIDE DEF n1
<1>8. ASSUME NEW x \in InUse(m1) PROVE n1[x] = Cardinality(PartsOf(m1, x))
  <2>1. CASE x = r
    BY <1>4, <1>6, <2>1, FS_Singleton
  <2>2. CASE x # r
    BY <1>2, <1>5, <1>6, <2>2 DEF Counting
  <2> QED BY <2>1, <2>2
<1>9. Counting(m1, n1)
  BY <1>7, <1>8 DEF Counting
<1> QED BY <1>9 DEF m1, n1

LEMMA CutMissing ==
  ASSUME NEW f, NEW o, NEW m, NEW w, Feeding(f, o), Slicing(f, o), Missing(f, o, m, w),
         NEW q \in DOMAIN f, NEW size \in 1 .. FileSize,
         f[q].offset + size <= EndOf(f[q].start), f[q].offset \notin DOMAIN m,
         NEW d, d.size = size
  PROVE  Missing(FeedAfter(f, q, size), OpenAfter(f, o, q, size),
                 With(m, f[q].offset, d), w)
<1> DEFINE g == FeedAfter(f, q, size)
           h == OpenAfter(f, o, q, size)
           c == f[q].start
           off == f[q].offset
           n == With(m, off, d)
<1>1. /\ DOMAIN f \ {q} \subseteq DOMAIN g /\ \A r \in DOMAIN f \ {q} : g[r] = f[r]
      /\ q \notin DOMAIN g => off + size = EndOf(c)
      /\ q \in DOMAIN g => g[q] = [start |-> c, offset |-> off + size]
  BY FeedGoesOn
<1>2. DOMAIN h = DOMAIN o
  <2>1. /\ DOMAIN h = DOMAIN o /\ IsFcn(h) /\ \A e \in DOMAIN o \ {c} : h[e] = o[e]
        /\ h[c] = [slices |-> With(o[c].slices, off, size), remains |-> o[c].remains]
    BY OpenGoesOn
  <2> QED BY <2>1
<1>3. off \in 0 .. FileSize - 1 /\ EndOf(c) \in 1 .. FileSize
  BY FeedPlace
<1>4. DOMAIN n = DOMAIN m \cup {off} /\ n[off] = d /\ \A j \in DOMAIN m : n[j] = m[j]
  BY DEF With
<1>5. ASSUME NEW e \in DOMAIN h, NEW i \in CellsOf(e) \ w
      PROVE  \/ \E j \in DOMAIN n : i \in j .. j + n[j].size - 1
             \/ \E r \in DOMAIN g : i \in g[r].offset .. EndOf(g[r].start) - 1
  <2> HIDE DEF g, h, c, off, n
  <2>1. \/ \E j \in DOMAIN m : i \in j .. j + m[j].size - 1
        \/ \E r \in DOMAIN f : i \in f[r].offset .. EndOf(f[r].start) - 1
    BY <1>2, <1>5 DEF Missing
  <2>2. CASE \E j \in DOMAIN m : i \in j .. j + m[j].size - 1
    BY <1>4, <2>2
  <2>3. CASE \E r \in DOMAIN f \ {q} : i \in f[r].offset .. EndOf(f[r].start) - 1
    BY <1>1, <2>3
  <2>4. CASE i \in off .. EndOf(c) - 1
    <3>1. CASE i < off + size
      <4>1. i \in off .. off + size - 1
        BY <1>3, <2>4, <3>1, Sizes
      <4> QED BY <1>4, <4>1
    <3>2. CASE ~(i < off + size)
      <4>1. q \in DOMAIN g
        BY <1>1, <1>3, <2>4, <3>2, Sizes
      <4>2. i \in g[q].offset .. EndOf(g[q].start) - 1
        BY <1>1, <1>3, <2>4, <3>2, <4>1, Sizes
      <4> QED BY <4>1, <4>2
    <3> QED BY <3>1, <3>2
  <2> QED BY <2>1, <2>2, <2>3, <2>4 DEF c, off
<1> QED BY <1>5 DEF Missing, g, h, n, off

(* A slice is cut: what is divided remains divided.                        *)
LEMMA CutDivided ==
  ASSUME NEW f, NEW o, NEW m, NEW n, NEW w, Divided(f, o, m, n, w),
         NEW q \in DOMAIN f, NEW size \in 1 .. FileSize,
         f[q].offset + size <= EndOf(f[q].start),
         NEW r \in 0 .. FileSize + 1, r \notin InUse(m), NEW p \in Sources, NEW d,
         d = [size |-> size, id |-> f[q].offset, ref |-> r, peer |-> p]
  PROVE  LET m1 == With(m, f[q].offset, d)
         IN  Divided(FeedAfter(f, q, size), OpenAfter(f, o, q, size), m1,
                     [x \in InUse(m1) |-> IF x = r THEN 1 ELSE n[x]], w)
<1>1. /\ Feeding(f, o) /\ Slicing(f, o) /\ Remaining(f, o)
      /\ Dividing(o, m) /\ Counting(m, n) /\ Missing(f, o, m, w)
  BY DEF Divided
<1> DEFINE g == FeedAfter(f, q, size)
           h == OpenAfter(f, o, q, size)
           m1 == With(m, f[q].offset, d)
           n1 == [x \in InUse(m1) |-> IF x = r THEN 1 ELSE n[x]]
<1>2. Feeding(g, h) /\ Slicing(g, h)
  BY <1>1, CutFeeds
<1>3. Remaining(g, h)
  BY <1>1, CutRemaining
<1>4. f[q].offset \notin DOMAIN m /\ Dividing(h, m1)
  BY <1>1, CutParts
<1>5. d.ref = r /\ d.size = size
  OBVIOUS
<1>6. Counting(m1, n1)
  BY <1>1, <1>4, <1>5, CutCounts
<1>7. Missing(g, h, m1, w)
  BY <1>1, <1>4, <1>5, CutMissing
<1> QED BY <1>2, <1>3, <1>4, <1>6, <1>7 DEF Divided

(***************************************************************************)
(* Taking up a chunk                                                       *)
(***************************************************************************)

LEMMA TakeDivided ==
  ASSUME NEW f, NEW o, NEW m, NEW n, NEW w, Divided(f, o, m, n, w),
         NEW c \in Chunks, c \notin DOMAIN o, NEW p \in Sources, p \notin DOMAIN f,
         NEW s, DOMAIN s = {}, IsFcn(s), NEW taken, NEW mine,
         taken = [slices |-> s, remains |-> SizeOfChunk(c)],
         mine = [start |-> c, offset |-> c * ChunkSize]
  PROVE  Divided(With(f, p, mine), With(o, c, taken), m, n, w \ CellsOf(c))
<1> DEFINE g == With(f, p, mine)
           h == With(o, c, taken)
           v == w \ CellsOf(c)
<1>1. /\ Feeding(f, o) /\ Slicing(f, o) /\ Remaining(f, o)
      /\ Dividing(o, m) /\ Counting(m, n) /\ Missing(f, o, m, w)
  BY DEF Divided
<1>2. DOMAIN g = DOMAIN f \cup {p} /\ g[p] = mine /\ \A r \in DOMAIN f : g[r] = f[r]
  BY DEF With
<1>3. DOMAIN h = DOMAIN o \cup {c} /\ h[c] = taken /\ \A e \in DOMAIN o : h[e] = o[e]
  BY DEF With
<1>4. IsFcn(g) /\ IsFcn(h)
  BY Extended
<1>5. /\ c * ChunkSize \in Nat /\ SizeOfChunk(c) \in 1 .. FileSize /\ EndOf(c) \in 1 .. FileSize
      /\ EndOf(c) = c * ChunkSize + SizeOfChunk(c)
      /\ CellsOf(c) = c * ChunkSize .. EndOf(c) - 1
  BY ChunkFacts
<1>6. c * ChunkSize \in CellsOf(c)
  BY <1>5, Sizes
<1>7. c * ChunkSize \in Cells /\ ChunkOf(c * ChunkSize) = c
  BY <1>6, CellsOfChunk
<1>8. mine.start = c /\ mine.offset = c * ChunkSize /\ taken.slices = s /\ taken.remains = SizeOfChunk(c)
  OBVIOUS
<1>9. \A r \in DOMAIN f : /\ f[r].start \in DOMAIN o /\ f[r].start # c
                          /\ r \in Sources /\ f[r] \in [start : Chunks, offset : Cells]
  BY <1>1 DEF Feeding
<1> HIDE DEF g, h
<1>10. Feeding(g, h)
  <2>1. DOMAIN g \subseteq Sources
    BY <1>2, <1>9
  <2>2. mine \in [start : Chunks, offset : Cells]
    BY <1>7
  <2>3. g \in [DOMAIN g -> [start : Chunks, offset : Cells]]
    BY <1>2, <1>4, <1>9, <2>2 DEF IsFcn
  <2>4. ASSUME NEW r \in DOMAIN g
        PROVE  /\ g[r].start \in DOMAIN h
               /\ ChunkOf(g[r].offset) = g[r].start
               /\ \A z \in DOMAIN g : g[r].start = g[z].start => r = z
    <3>1. CASE r = p
      BY <1>2, <1>3, <1>7, <1>8, <1>9, <3>1
    <3>2. CASE r # p
      <4>1. r \in DOMAIN f /\ g[r] = f[r] /\ \A z \in DOMAIN g \ {p} : z \in DOMAIN f /\ g[z] = f[z]
        BY <1>2, <3>2
      <4>2. /\ f[r].start \in DOMAIN o /\ ChunkOf(f[r].offset) = f[r].start
            /\ \A z \in DOMAIN f : f[r].start = f[z].start => r = z
        BY <1>1, <4>1 DEF Feeding
      <4> QED BY <1>2, <1>3, <1>8, <1>9, <4>1, <4>2
    <3> QED BY <3>1, <3>2
  <2> QED BY <2>1, <2>3, <2>4 DEF Feeding
<1>11. Slicing(g, h)
  <2>1. DOMAIN h \subseteq Chunks
    BY <1>1, <1>3 DEF Slicing
  <2>2. ASSUME NEW e \in DOMAIN h
        PROVE  /\ h[e] = [slices |-> h[e].slices, remains |-> h[e].remains]
               /\ h[e].remains \in 0 .. FileSize
               /\ InOrder(g, e, h[e].slices)
    <3>1. CASE e = c
      <4>1. h[e].slices = s /\ h[e].remains = SizeOfChunk(c)
        BY <1>3, <1>8, <3>1
      <4>2. h[e] = [slices |-> h[e].slices, remains |-> h[e].remains]
        BY <1>3, <3>1, <4>1
      <4>3. InOrder(g, c, s)
        BY DEF InOrder, IsFcn
      <4> QED BY <1>5, <3>1, <4>1, <4>2, <4>3, Sizes
    <3>2. CASE e # c
      <4>1. e \in DOMAIN o /\ h[e] = o[e]
        BY <1>3, <3>2
      <4>2. /\ o[e] = [slices |-> o[e].slices, remains |-> o[e].remains]
            /\ o[e].remains \in 0 .. FileSize /\ InOrder(f, e, o[e].slices)
        BY <1>1, <4>1 DEF Slicing
      <4>3. \A r \in DOMAIN g : g[r].start = e => r \in DOMAIN f /\ g[r] = f[r]
        BY <1>2, <1>8, <3>2
      <4>4. PICK t : t = o[e].slices
        OBVIOUS
      <4>5. InOrder(g, e, t)
        <5>1. InOrder(f, e, t)
          BY <4>2, <4>4
        <5> QED BY <4>3, <5>1 DEF InOrder
      <4> QED BY <4>1, <4>2, <4>4, <4>5
    <3> QED BY <3>1, <3>2
  <2> QED BY <1>4, <2>1, <2>2 DEF Slicing
<1>12. Remaining(g, h)
  <2> SUFFICES ASSUME NEW e \in DOMAIN h
               PROVE  h[e].remains = SumOver(h[e].slices) + SumOver(Uncut(g, e))
    BY DEF Remaining
  <2>1. CASE e = c
    <3>1. h[e].slices = s /\ h[e].remains = SizeOfChunk(c)
      BY <1>3, <1>8, <2>1
    <3>2. SumOver(s) = 0
      BY SumEmpty
    <3>3. DOMAIN Uncut(g, c) = {p} /\ Uncut(g, c)[p] = EndOf(c) - c * ChunkSize
      BY <1>2, <1>8, <1>9 DEF Uncut
    <3>4. Uncut(g, c)[p] = SizeOfChunk(c) /\ Uncut(g, c)[p] \in 0 .. Word
      BY <1>5, <3>3, Sizes
    <3>5. SumOver(Uncut(g, c)) = SizeOfChunk(c)
      BY <3>3, <3>4, SumOne
    <3> QED BY <1>5, <2>1, <3>1, <3>2, <3>5
  <2>2. CASE e # c
    <3>1. h[e] = o[e] /\ e \in DOMAIN o
      BY <1>3, <2>2
    <3>2. {r \in DOMAIN g : g[r].start = e} = {r \in DOMAIN f : f[r].start = e}
      BY <1>2, <1>8, <2>2
    <3>3. DOMAIN Uncut(g, e) = DOMAIN Uncut(f, e)
      BY <3>2 DEF Uncut
    <3>4. \A r \in DOMAIN Uncut(g, e) : Uncut(g, e)[r] = Uncut(f, e)[r]
      BY <1>2, <3>2 DEF Uncut
    <3>5. SumOver(Uncut(g, e)) = SumOver(Uncut(f, e))
      BY <3>3, <3>4, SumSame
    <3> QED BY <1>1, <3>1, <3>5 DEF Remaining
  <2> QED BY <2>1, <2>2
<1>13. Dividing(h, m)
  <2>1. ASSUME NEW i \in DOMAIN m PROVE PartOf(h, i, m[i])
    <3>1. PartOf(o, i, m[i])
      BY <1>1 DEF Dividing
    <3> QED BY <1>3, <3>1 DEF PartOf
  <2>2. ASSUME NEW e \in DOMAIN h, NEW id \in DOMAIN h[e].slices
        PROVE  \E i \in DOMAIN m : m[i].id = id
    <3>1. e # c
      BY <1>3, <1>8
    <3>2. e \in DOMAIN o /\ id \in DOMAIN o[e].slices
      BY <1>3, <3>1
    <3> QED BY <1>1, <3>2 DEF Dividing
  <2> QED BY <1>1, <2>1, <2>2 DEF Dividing
<1>14. Missing(g, h, m, v)
  <2> SUFFICES ASSUME NEW e \in DOMAIN h, NEW i \in CellsOf(e) \ v
               PROVE  \/ \E j \in DOMAIN m : i \in j .. j + m[j].size - 1
                      \/ \E r \in DOMAIN g : i \in g[r].offset .. EndOf(g[r].start) - 1
    BY DEF Missing
  <2>1. CASE e = c
    <3>1. i \in g[p].offset .. EndOf(g[p].start) - 1
      BY <1>2, <1>5, <1>8, <2>1
    <3> QED BY <1>2, <3>1
  <2>2. CASE e # c
    <3>1. e \in DOMAIN o /\ e \in Chunks
      BY <1>1, <1>3, <2>2 DEF Slicing
    <3>2. i \notin CellsOf(c)
      BY <2>2 DEF CellsOf
    <3>3. i \in CellsOf(e) \ w
      BY <3>2
    <3>4. \/ \E j \in DOMAIN m : i \in j .. j + m[j].size - 1
          \/ \E r \in DOMAIN f : i \in f[r].offset .. EndOf(f[r].start) - 1
      BY <1>1, <3>1, <3>3 DEF Missing
    <3> QED BY <1>2, <3>4
  <2> QED BY <2>1, <2>2
<1> QED BY <1>1, <1>10, <1>11, <1>12, <1>13, <1>14 DEF Divided, g, h

(***************************************************************************)
(* What is counted                                                         *)
(***************************************************************************)

SizesOf(S) == SumOver([c \in S |-> SizeOfChunk(c)])
RemainsOf(o) == SumOver([c \in DOMAIN o |-> o[c].remains])
Kept(m) == {c \in Chunks : m[c] \in {"checking", "done"}}
Twice(m, o) == {c \in DOMAIN o : m[c] = "checking"}

LEMMA CountedIs ==
  ASSUME NEW m, NEW o
  PROVE  Counted(m, o) = (SizesOf(Kept(m)) + (SizesOf(DOMAIN o) - RemainsOf(o))
                          - SizesOf(Twice(m, o))) % Word
BY DEF Counted, SizesOf, RemainsOf, Kept, Twice

LEMMA SizesNat ==
  ASSUME NEW S, S \subseteq Chunks
  PROVE  SizesOf(S) \in Nat
<1> DEFINE f == [c \in S |-> SizeOfChunk(c)]
<1>1. IsFiniteSet(S) /\ DOMAIN f = S
  BY FiniteSets, FS_Subset
<1> HIDE DEF f
<1>2. SumOver(f) \in Nat
  BY <1>1, SumFinite
<1> QED BY <1>2 DEF SizesOf, f

LEMMA SizesPlus ==
  ASSUME NEW S, S \subseteq Chunks, NEW c \in Chunks, c \notin S
  PROVE  SizesOf(S \cup {c}) = SizesOf(S) + SizeOfChunk(c)
<1> DEFINE f == [d \in S |-> SizeOfChunk(d)]
           g == [d \in S \cup {c} |-> SizeOfChunk(d)]
<1>1. IsFiniteSet(DOMAIN f) /\ c \notin DOMAIN f /\ DOMAIN g = DOMAIN f \cup {c}
  BY FiniteSets, FS_Subset
<1>2. /\ \A d \in DOMAIN f : g[d] = f[d]
      /\ g[c] = SizeOfChunk(c) /\ SizeOfChunk(c) \in 0 .. Word
  BY ChunkFacts, Sizes
<1> HIDE DEF f, g
<1>3. SumOver(g) = SumOver(f) + g[c]
  BY <1>1, <1>2, SumPlus
<1> QED BY <1>2, <1>3 DEF SizesOf, f, g

LEMMA RemainsNat ==
  ASSUME NEW o, DOMAIN o \subseteq Chunks
  PROVE  RemainsOf(o) \in Nat
<1> DEFINE f == [c \in DOMAIN o |-> o[c].remains]
<1>1. IsFiniteSet(DOMAIN f)
  BY FiniteSets, FS_Subset
<1> HIDE DEF f
<1>2. SumOver(f) \in Nat
  BY <1>1, SumFinite
<1> QED BY <1>2 DEF RemainsOf, f

LEMMA RemainsPlus ==
  ASSUME NEW o, DOMAIN o \subseteq Chunks, NEW c, c \notin DOMAIN o, NEW h,
         DOMAIN h = DOMAIN o \cup {c}, \A d \in DOMAIN o : h[d].remains = o[d].remains,
         h[c].remains \in 0 .. FileSize
  PROVE  RemainsOf(h) = RemainsOf(o) + h[c].remains
<1> DEFINE f == [d \in DOMAIN o |-> o[d].remains]
           g == [d \in DOMAIN h |-> h[d].remains]
<1>1. IsFiniteSet(DOMAIN f) /\ c \notin DOMAIN f /\ DOMAIN g = DOMAIN f \cup {c}
  BY FiniteSets, FS_Subset
<1>2. /\ \A d \in DOMAIN f : g[d] = f[d]
      /\ g[c] = h[c].remains /\ h[c].remains \in 0 .. Word
  BY Sizes
<1> HIDE DEF f, g
<1>3. SumOver(g) = SumOver(f) + g[c]
  BY <1>1, <1>2, SumPlus
<1> QED BY <1>2, <1>3 DEF RemainsOf, f, g

LEMMA RemainsSame ==
  ASSUME NEW o, NEW h, DOMAIN h = DOMAIN o,
         \A d \in DOMAIN o : h[d].remains = o[d].remains
  PROVE  RemainsOf(h) = RemainsOf(o)
<1> DEFINE f == [d \in DOMAIN o |-> o[d].remains]
           g == [d \in DOMAIN h |-> h[d].remains]
<1>1. DOMAIN f = DOMAIN g /\ \A d \in DOMAIN f : f[d] = g[d]
  OBVIOUS
<1> HIDE DEF f, g
<1>2. SumOver(f) = SumOver(g)
  BY <1>1, SumSame
<1> QED BY <1>2 DEF RemainsOf, f, g

LEMMA RemainsChange ==
  ASSUME NEW o, DOMAIN o \subseteq Chunks, NEW c \in DOMAIN o, NEW h,
         DOMAIN h = DOMAIN o, \A d \in DOMAIN o \ {c} : h[d].remains = o[d].remains,
         o[c].remains \in 0 .. FileSize, h[c].remains \in 0 .. FileSize
  PROVE  RemainsOf(h) = RemainsOf(o) - o[c].remains + h[c].remains
<1> DEFINE f == [d \in DOMAIN o |-> o[d].remains]
           g == [d \in DOMAIN h |-> h[d].remains]
<1>1. IsFiniteSet(DOMAIN f) /\ c \in DOMAIN f /\ DOMAIN g = DOMAIN f
  BY FiniteSets, FS_Subset
<1>2. /\ \A d \in DOMAIN f \ {c} : g[d] = f[d]
      /\ f[c] = o[c].remains /\ f[c] \in 0 .. Word
      /\ g[c] = h[c].remains /\ g[c] \in 0 .. Word
  BY Sizes
<1> HIDE DEF f, g
<1>3. SumOver(g) = SumOver(f) - f[c] + g[c]
  BY <1>1, <1>2, SumChange
<1> QED BY <1>2, <1>3 DEF RemainsOf, f, g

(* No chunk in download is counted twice: it is neither checked nor done.  *)
LEMMA CountedOpen ==
  ASSUME NEW m, NEW o, DOMAIN o \subseteq Chunks, OpenIsActive(m, o)
  PROVE  /\ Counted(m, o) = (SizesOf(Kept(m)) + SizesOf(DOMAIN o) - RemainsOf(o)) % Word
         /\ SizesOf(Kept(m)) \in Nat /\ SizesOf(DOMAIN o) \in Nat /\ RemainsOf(o) \in Nat
         /\ Kept(m) \subseteq Chunks
<1>1. Twice(m, o) = {}
  BY DEF Twice, OpenIsActive
<1>2. SizesOf({}) = 0
  <2> DEFINE e == [c \in {} |-> SizeOfChunk(c)]
  <2>1. DOMAIN e = {}
    OBVIOUS
  <2> HIDE DEF e
  <2>2. SumOver(e) = 0
    BY <2>1, SumEmpty
  <2> QED BY <2>2 DEF SizesOf, e
<1>3. Kept(m) \subseteq Chunks
  BY DEF Kept
<1>4. SizesOf(Kept(m)) \in Nat /\ SizesOf(DOMAIN o) \in Nat /\ RemainsOf(o) \in Nat
  BY <1>3, SizesNat, RemainsNat
<1> DEFINE a == SizesOf(Kept(m))
           b == SizesOf(DOMAIN o)
           r == RemainsOf(o)
<1>5. Counted(m, o) = (a + (b - r) - 0) % Word
  BY <1>1, <1>2, CountedIs
<1> HIDE DEF a, b, r
<1>6. a + (b - r) - 0 = a + b - r
  BY <1>4 DEF a, b, r
<1> QED BY <1>3, <1>4, <1>5, <1>6 DEF a, b, r

LEMMA CountedType ==
  ASSUME NEW m, NEW o, DOMAIN o \subseteq Chunks
  PROVE  Counted(m, o) \in 0 .. Word - 1
<1>1. Kept(m) \subseteq Chunks /\ Twice(m, o) \subseteq Chunks
  BY DEF Kept, Twice
<1>2. /\ SizesOf(Kept(m)) \in Nat /\ SizesOf(DOMAIN o) \in Nat /\ RemainsOf(o) \in Nat
      /\ SizesOf(Twice(m, o)) \in Nat
  BY <1>1, SizesNat, RemainsNat
<1>3. SizesOf(Kept(m)) + (SizesOf(DOMAIN o) - RemainsOf(o)) - SizesOf(Twice(m, o)) \in Int
  BY <1>2
<1> QED BY <1>3, CountedIs, Remainder

LEMMA CountedSame ==
  ASSUME NEW m, NEW o, NEW h, DOMAIN h = DOMAIN o,
         \A d \in DOMAIN o : h[d].remains = o[d].remains
  PROVE  Counted(m, h) = Counted(m, o)
<1>1. RemainsOf(h) = RemainsOf(o)
  BY RemainsSame
<1>2. Twice(m, h) = Twice(m, o)
  BY DEF Twice
<1> QED BY <1>1, <1>2, CountedIs

(***************************************************************************)
(* New slices                                                              *)
(***************************************************************************)

LEMMA AskTypes ==
  ASSUME requests \in [Sources -> Seq(Request)],
         \A p \in Sources : Len(requests[p]) <= MaxRequests,
         NEW p \in Sources, NEW offset \in Cells, NEW size \in 1 .. FileSize,
         offset + size <= FileSize, Ask(p, offset, size)
  PROVE  /\ requests' \in [Sources -> Seq(Request)]
         /\ \A x \in Sources : Len(requests'[x]) <= MaxRequests
<1> DEFINE r == [offset |-> offset, size |-> size]
           s == requests[p]
<1>1. r \in Request
  BY DEF Request
<1>2. s \in Seq(Request) /\ Len(s) < MaxRequests
  BY DEF Ask
<1>3. \/ requests' = requests
      \/ requests' = [requests EXCEPT ![p] = Append(s, r)]
  BY DEF Ask
<1> HIDE DEF r, s
<1>4. Append(s, r) \in Seq(Request) /\ Len(Append(s, r)) = Len(s) + 1 /\ Len(s) \in Nat
  BY <1>1, <1>2
<1>5. Len(Append(s, r)) <= MaxRequests
  BY <1>2, <1>4, Sizes
<1> QED BY <1>3, <1>4, <1>5

LEMMA GetSliceDivides ==
  ASSUME NEW p \in Sources, NEW hint \in Nat \ {0}, NEW f, NEW o, NEW w,
         NEW q \in DOMAIN f, Divided(f, o, mChunks, refCnt, w),
         requests \in [Sources -> Seq(Request)],
         \A x \in Sources : Len(requests[x]) <= MaxRequests,
         perPeer \in [Sources -> 0 .. Word - 1], perPeer[p] < MaxPerPeer,
         GetSlice(p, q, hint, f, o)
  PROVE  /\ Divided(feed', open', mChunks', refCnt', w)
         /\ DOMAIN open' = DOMAIN o /\ \A d \in DOMAIN o : open'[d].remains = o[d].remains
         /\ requests' \in [Sources -> Seq(Request)]
         /\ \A x \in Sources : Len(requests'[x]) <= MaxRequests
         /\ perPeer' \in [Sources -> 0 .. Word - 1]
<1> DEFINE c == f[q].start
           off == f[q].offset
           size == IF hint < EndOf(c) - off THEN hint ELSE EndOf(c) - off
           r == FreeRef
           d == [size |-> size, id |-> off, ref |-> r, peer |-> p]
<1>1. Feeding(f, o) /\ Slicing(f, o) /\ Dividing(o, mChunks)
  BY DEF Divided
<1>2. /\ c \in DOMAIN o /\ off \in 0 .. FileSize - 1 /\ EndOf(c) \in 1 .. FileSize
      /\ off < EndOf(c) /\ off \in Cells
  BY <1>1, FeedPlace
<1>3. r \in 0 .. FileSize + 1 /\ r \notin InUse(mChunks)
  BY <1>1, FreeCounter DEF Dividing
<1>4. /\ feed' = IF off + size = EndOf(c) THEN Without(f, {q})
                 ELSE [f EXCEPT ![q].offset = @ + size]
      /\ open' = With(o, c, [Download(o, c) EXCEPT !.slices = With(@, off, size)])
      /\ mChunks' = With(mChunks, off, d)
      /\ refCnt' = [x \in InUse(mChunks') |-> IF x = r THEN 1 ELSE refCnt[x]]
      /\ perPeer' = [perPeer EXCEPT ![p] = @ + 1]
      /\ Ask(p, off, size)
  BY DEF GetSlice
<1>5. Download(o, c) = o[c]
  BY <1>2 DEF Download
<1> HIDE DEF r
<1>6. size \in 1 .. FileSize /\ off + size <= EndOf(c) /\ off + size <= FileSize
  <2> HIDE DEF c, off
  <2> QED BY <1>2, Sizes
<1>7. PICK sz : sz = size
  OBVIOUS
<1> HIDE DEF size
<1>8. PICK e : e = d
  OBVIOUS
<1> HIDE DEF d
<1>9. feed' = FeedAfter(f, q, sz)
  BY <1>4, <1>7 DEF FeedAfter
<1>10. open' = OpenAfter(f, o, q, sz)
  BY <1>4, <1>5, <1>7 DEF OpenAfter
<1>11. mChunks' = With(mChunks, off, e)
  BY <1>4, <1>8
<1>12. PICK k : k = r
  OBVIOUS
<1>13. refCnt' = [x \in InUse(With(mChunks, off, e)) |-> IF x = k THEN 1 ELSE refCnt[x]]
  BY <1>4, <1>11, <1>12
<1>14. e = [size |-> sz, id |-> f[q].offset, ref |-> k, peer |-> p]
  BY <1>7, <1>8, <1>12 DEF d
<1>15. Divided(feed', open', mChunks', refCnt', w)
  <2>1. /\ sz \in 1 .. FileSize /\ f[q].offset + sz <= EndOf(f[q].start)
        /\ k \in 0 .. FileSize + 1 /\ k \notin InUse(mChunks)
    BY <1>3, <1>6, <1>7, <1>12
  <2>2. Divided(FeedAfter(f, q, sz), OpenAfter(f, o, q, sz), With(mChunks, f[q].offset, e),
                [x \in InUse(With(mChunks, f[q].offset, e)) |-> IF x = k THEN 1 ELSE refCnt[x]], w)
    BY <1>14, <2>1, CutDivided
  <2> QED BY <1>9, <1>10, <1>11, <1>13, <2>2
<1>16. DOMAIN open' = DOMAIN o /\ \A z \in DOMAIN o : open'[z].remains = o[z].remains
  <2> DEFINE h == OpenAfter(f, o, q, sz)
  <2>1. /\ DOMAIN h = DOMAIN o /\ IsFcn(h) /\ \A z \in DOMAIN o \ {c} : h[z] = o[z]
        /\ h[c] = [slices |-> With(o[c].slices, off, sz), remains |-> o[c].remains]
    BY <1>1, OpenGoesOn
  <2> HIDE DEF h, c, off
  <2>2. h[c].remains = o[c].remains
    BY <2>1
  <2>3. open' = h
    BY <1>10 DEF h
  <2> QED BY <2>1, <2>2, <2>3
<1>17. /\ requests' \in [Sources -> Seq(Request)]
       /\ \A x \in Sources : Len(requests'[x]) <= MaxRequests
  <2>1. off \in Cells /\ size \in 1 .. FileSize /\ off + size <= FileSize /\ Ask(p, off, size)
    BY <1>2, <1>4, <1>6
  <2> HIDE DEF off
  <2> QED BY <2>1, AskTypes
<1>18. perPeer' \in [Sources -> 0 .. Word - 1]
  <2>1. perPeer[p] + 1 \in 0 .. Word - 1
    BY Sizes
  <2> QED BY <1>4, <2>1
<1> QED BY <1>15, <1>16, <1>17, <1>18

(* A look at the chunks being cut makes no entry that is not there.        *)
LEMMA SeenIsOpen ==
  ASSUME Feeding(feed, open), Slicing(feed, open), NEW S, S \subseteq DOMAIN feed
  PROVE  Seen(S) = open
<1>1. DOMAIN open \cup {feed[q].start : q \in S} = DOMAIN open
  BY DEF Feeding
<1>2. open = [c \in DOMAIN open |-> open[c]]
  BY DEF Slicing, IsFcn
<1>3. Seen(S) = [c \in DOMAIN open |-> Download(open, c)]
  BY <1>1 DEF Seen
<1>4. \A c \in DOMAIN open : Download(open, c) = open[c]
  BY DEF Download
<1> QED BY <1>2, <1>3, <1>4

LEMMA NewSliceKeeps ==
  ASSUME FileInv, NEW p \in Sources, NEW hint \in SizeHints, NewSlice(p, hint)
  PROVE  FileInv'
<1> DEFINE common == Common(p)
           sharable == {q \in common : Sharable(q, hint)}
<1>1. /\ SimpleTypes /\ Divided(feed, open, mChunks, refCnt, fresh)
      /\ OpenIsActive(map, open) /\ (complete <=> IsComplete(map))
      /\ (flag # "downloading" => complete) /\ total = Counted(map, open)
  BY DEF FileInv
<1>2. Feeding(feed, open) /\ Slicing(feed, open) /\ common \subseteq DOMAIN feed
  BY <1>1 DEF Divided, Common
<1>3. /\ requests \in [Sources -> Seq(Request)]
      /\ \A x \in Sources : Len(requests[x]) <= MaxRequests
      /\ perPeer \in [Sources -> 0 .. Word - 1]
  BY <1>1 DEF SimpleTypes
<1>4. hint \in Nat \ {0}
  BY Sizes
<1>5. /\ perPeer[p] < MaxPerPeer /\ flag = "downloading"
      /\ UNCHANGED <<total, complete, queue, cmap, toAsk, received, flag, hash, sources, data, budget>>
  BY DEF NewSlice, Ticked, checks, module
<1>6. \A S : S \subseteq DOMAIN feed => Seen(S) = open
  BY <1>2, SeenIsOpen
<1>7. ASSUME NEW q \in DOMAIN feed, NEW o, o = open, GetSlice(p, q, hint, feed, o),
             UNCHANGED <<map, fresh>>
      PROVE  FileInv'
  <2>1. /\ Divided(feed', open', mChunks', refCnt', fresh)
        /\ DOMAIN open' = DOMAIN open
        /\ \A d \in DOMAIN open : open'[d].remains = open[d].remains
        /\ requests' \in [Sources -> Seq(Request)]
        /\ \A x \in Sources : Len(requests'[x]) <= MaxRequests
        /\ perPeer' \in [Sources -> 0 .. Word - 1]
    <3>1. GetSlice(p, q, hint, feed, open)
      BY <1>7
    <3> QED BY <1>1, <1>3, <1>4, <1>5, <3>1, GetSliceDivides
  <2>2. Counted(map, open') = Counted(map, open)
    BY <2>1, CountedSame
  <2>3. SimpleTypes'
    BY <1>1, <1>5, <1>7, <2>1 DEF SimpleTypes
  <2>4. OpenIsActive(map', open')
    BY <1>1, <1>7, <2>1 DEF OpenIsActive
  <2>5. IsComplete(map') <=> IsComplete(map)
    BY <1>7
  <2> QED BY <1>1, <1>5, <1>7, <2>1, <2>2, <2>3, <2>4, <2>5 DEF FileInv
<1>8. ASSUME p \notin DOMAIN feed, sharable = {}, NEW c \in Available(p),
             LET mine == [start |-> c, offset |-> c * ChunkSize]
                 taken == [Download(Seen(common), c) EXCEPT !.remains = SizeOfChunk(c)]
             IN  /\ map' = [map EXCEPT ![c] = "active"]
                 /\ GetSlice(p, p, hint, With(feed, p, mine), With(Seen(common), c, taken))
                 /\ fresh' = fresh \ CellsOf(c)
      PROVE  FileInv'
  <2> DEFINE m1 == [start |-> c, offset |-> c * ChunkSize]
             t1 == [Download(Seen(common), c) EXCEPT !.remains = SizeOfChunk(c)]
             s == [x \in {} |-> 0]
  <2>1. PICK mine : mine = m1
    OBVIOUS
  <2>2. PICK taken : taken = t1
    OBVIOUS
  <2>3. Seen(common) = open
    BY <1>2, <1>6
  <2>4. /\ map' = [map EXCEPT ![c] = "active"]
        /\ GetSlice(p, p, hint, With(feed, p, mine), With(open, c, taken))
        /\ fresh' = fresh \ CellsOf(c)
    BY <1>8, <2>1, <2>2, <2>3
  <2>5. c \in Chunks /\ map[c] = "outstanding" /\ map \in [Chunks -> ChunkState]
    BY <1>1 DEF Available, SimpleTypes
  <2>6. c \notin DOMAIN open
    BY <1>1, <2>5 DEF OpenIsActive
  <2>7. taken = [slices |-> s, remains |-> SizeOfChunk(c)]
    BY <2>2, <2>3, <2>6 DEF Download, NoDownload
  <2>8. DOMAIN s = {} /\ IsFcn(s)
    BY DEF IsFcn
  <2> DEFINE f == With(feed, p, mine)
             o == With(open, c, taken)
  <2>9. Divided(f, o, mChunks, refCnt, fresh \ CellsOf(c))
    <3> HIDE DEF s
    <3> QED BY <1>1, <1>8, <2>1, <2>5, <2>6, <2>7, <2>8, TakeDivided
  <2>10. p \in DOMAIN f
    BY DEF With
  <2>11. DOMAIN o = DOMAIN open \cup {c} /\ o[c] = taken /\ \A d \in DOMAIN open : o[d] = open[d]
    BY <2>6 DEF With
  <2>12. taken.remains = SizeOfChunk(c)
    BY <2>7
  <2>13. PICK g : g = f
    OBVIOUS
  <2>14. PICK h : h = o
    OBVIOUS
  <2>15. PICK w : w = fresh \ CellsOf(c)
    OBVIOUS
  <2> HIDE DEF f, o, m1, t1, s
  <2>16. /\ Divided(feed', open', mChunks', refCnt', w)
         /\ DOMAIN open' = DOMAIN h
         /\ \A d \in DOMAIN h : open'[d].remains = h[d].remains
         /\ requests' \in [Sources -> Seq(Request)]
         /\ \A x \in Sources : Len(requests'[x]) <= MaxRequests
         /\ perPeer' \in [Sources -> 0 .. Word - 1]
    <3>1. GetSlice(p, p, hint, g, h) /\ Divided(g, h, mChunks, refCnt, w) /\ p \in DOMAIN g
      BY <2>4, <2>9, <2>10, <2>13, <2>14, <2>15 DEF f, o
    <3> QED BY <1>3, <1>4, <1>5, <3>1, GetSliceDivides
  <2>17. SimpleTypes'
    <3>1. map' \in [Chunks -> ChunkState]
      BY <2>4, <2>5 DEF ChunkState
    <3>2. fresh' \subseteq Cells
      BY <1>1, <2>4 DEF SimpleTypes
    <3> QED BY <1>1, <1>5, <2>16, <3>1, <3>2 DEF SimpleTypes
  <2>18. OpenIsActive(map', open')
    <3>1. map'[c] = "active" /\ \A d \in Chunks \ {c} : map'[d] = map[d]
      BY <2>4, <2>5
    <3>2. DOMAIN open' = DOMAIN open \cup {c}
      BY <2>11, <2>14, <2>16
    <3> QED BY <1>1, <3>1, <3>2 DEF OpenIsActive
  <2>19. ~complete /\ ~IsComplete(map')
    <3>1. map'[c] = "active"
      BY <2>4, <2>5
    <3> QED BY <1>1, <2>5, <3>1 DEF IsComplete
  <2>20. Counted(map', open') = Counted(map, open)
    <3>1. Kept(map') = Kept(map)
      BY <2>4, <2>5 DEF Kept
    <3>2. DOMAIN open \subseteq Chunks
      BY <1>2 DEF Slicing
    <3>3. DOMAIN open' = DOMAIN open \cup {c} /\ DOMAIN open' \subseteq Chunks
      BY <2>5, <2>11, <2>14, <2>16, <3>2
    <3>4. SizesOf(DOMAIN open') = SizesOf(DOMAIN open) + SizeOfChunk(c)
      BY <2>5, <2>6, <3>2, <3>3, SizesPlus
    <3>5. /\ open'[c].remains = SizeOfChunk(c)
          /\ \A d \in DOMAIN open : open'[d].remains = open[d].remains
      BY <2>6, <2>11, <2>12, <2>14, <2>16
    <3>6. SizeOfChunk(c) \in 1 .. FileSize
      BY <2>5, ChunkFacts
    <3>7. RemainsOf(open') = RemainsOf(open) + SizeOfChunk(c)
      <4>1. open'[c].remains \in 0 .. FileSize
        BY <3>5, <3>6, Sizes
      <4>2. PICK h1 : h1 = open'
        OBVIOUS
      <4>3. /\ DOMAIN h1 = DOMAIN open \cup {c} /\ h1[c].remains \in 0 .. FileSize
            /\ \A d \in DOMAIN open : h1[d].remains = open[d].remains
        BY <3>3, <3>5, <4>1, <4>2
      <4>4. RemainsOf(h1) = RemainsOf(open) + h1[c].remains
        BY <2>6, <3>2, <4>3, RemainsPlus
      <4> QED BY <3>5, <4>2, <4>4
    <3>8. /\ Counted(map, open) = (SizesOf(Kept(map)) + SizesOf(DOMAIN open) - RemainsOf(open)) % Word
          /\ SizesOf(Kept(map)) \in Nat /\ SizesOf(DOMAIN open) \in Nat /\ RemainsOf(open) \in Nat
      BY <1>1, <3>2, CountedOpen
    <3>9. Counted(map', open')
            = (SizesOf(Kept(map')) + SizesOf(DOMAIN open') - RemainsOf(open')) % Word
      BY <2>18, <3>3, CountedOpen
    <3>10. SizesOf(Kept(map)) + (SizesOf(DOMAIN open) + SizeOfChunk(c)) - (RemainsOf(open) + SizeOfChunk(c))
             = SizesOf(Kept(map)) + SizesOf(DOMAIN open) - RemainsOf(open)
      BY <3>6, <3>8, Sizes
    <3> QED BY <3>1, <3>4, <3>7, <3>8, <3>9, <3>10
  <2> QED BY <1>1, <1>5, <2>4, <2>15, <2>16, <2>17, <2>18, <2>19, <2>20 DEF FileInv
<1>9. CASE p \in DOMAIN feed /\ GetSlice(p, p, hint, feed, open) /\ UNCHANGED <<map, fresh>>
  BY <1>7, <1>9
<1>10. CASE /\ p \notin DOMAIN feed /\ UNCHANGED <<map, fresh>>
            /\ \E q \in sharable, S \in SUBSET (common \ sharable) :
                  GetSlice(p, q, hint, feed, Seen(S))
  <2>1. PICK q \in sharable, S \in SUBSET (common \ sharable) : GetSlice(p, q, hint, feed, Seen(S))
    BY <1>10
  <2>2. q \in DOMAIN feed /\ Seen(S) = open
    BY <1>2, <1>6, <2>1
  <2> QED BY <1>7, <1>10, <2>1, <2>2
<1>11. CASE /\ p \notin DOMAIN feed /\ UNCHANGED <<map, fresh>>
            /\ \E q \in common : GetSlice(p, q, hint, feed, Seen(common))
  <2>1. PICK q \in common : GetSlice(p, q, hint, feed, Seen(common))
    BY <1>11
  <2>2. q \in DOMAIN feed /\ Seen(common) = open
    BY <1>2, <1>6, <2>1
  <2> QED BY <1>7, <1>11, <2>1, <2>2
<1> QED BY <1>8, <1>9, <1>10, <1>11 DEF NewSlice

(***************************************************************************)
(* Packets                                                                 *)
(***************************************************************************)

(* What a part is, in numbers, and that it does not overlap the others.    *)
LEMMA PartNumbers ==
  ASSUME NEW f, NEW o, NEW m, Slicing(f, o), Dividing(o, m), NEW i \in DOMAIN m
  PROVE  /\ i \in 0 .. FileSize - 1 /\ m[i].size \in 1 .. FileSize
         /\ i + m[i].size \in 1 .. FileSize
         /\ \A j \in DOMAIN m : i < j => i + m[i].size <= j
<1> DEFINE c == ChunkOf(m[i].id)
<1>1. i \in Cells /\ m[i].size \in 1 .. FileSize /\ c \in Chunks /\ i + m[i].size <= EndOf(c)
  BY PartPlace
<1>2. EndOf(c) \in 1 .. FileSize
  BY <1>1, ChunkFacts
<1> HIDE DEF c
<1>3. i \in 0 .. FileSize - 1
  BY <1>1, CellFacts
<1>4. i + m[i].size \in 1 .. FileSize
  BY <1>1, <1>2, <1>3, Sizes
<1> QED BY <1>1, <1>3, <1>4 DEF Dividing

(* The parts when the first cell of part k has come, and their counters.   *)
Shrunk(m, k) == With(Without(m, {k}), k + 1, [m[k] EXCEPT !.size = Minus(@, 1)])
CountsOver(m, n) == [r \in InUse(m) |-> n[r]]

(* The counters of the parts m, of which the counter r was written.        *)
CountsAfter(m, n, r, v) == [x \in InUse(m) |-> IF x = r THEN v ELSE n[x]]

(* Of a part of more than one cell, the first has come.                    *)
LEMMA PartShrinks ==
  ASSUME NEW f, NEW o, NEW m, NEW n, NEW w, Slicing(f, o), Dividing(o, m), Counting(m, n),
         Missing(f, o, m, w), NEW k \in DOMAIN m, m[k].size # 1
  PROVE  /\ Dividing(o, Shrunk(m, k))
         /\ Counting(Shrunk(m, k), CountsOver(Shrunk(m, k), n))
         /\ Missing(f, o, Shrunk(m, k), w \cup {k})
<1> PICK d : d = [size |-> m[k].size - 1, id |-> m[k].id, ref |-> m[k].ref, peer |-> m[k].peer]
  OBVIOUS
<1> DEFINE m0 == Without(m, {k})
           m1 == With(m0, k + 1, d)
           n1 == [r \in InUse(m1) |-> n[r]]
<1>1. /\ k \in 0 .. FileSize - 1 /\ m[k].size \in 1 .. FileSize
      /\ k + m[k].size \in 1 .. FileSize
      /\ \A j \in DOMAIN m : k < j => k + m[k].size <= j
  BY PartNumbers
<1>2. /\ d.size = m[k].size - 1 /\ d.id = m[k].id /\ d.ref = m[k].ref /\ d.peer = m[k].peer
  OBVIOUS
<1>3. /\ m[k].id \in Cells /\ m[k].ref \in 0 .. FileSize + 1 /\ m[k].peer \in Sources
      /\ m[k].id <= k
  BY PartPlace
<1>4. d.size \in 1 .. FileSize /\ d \in Slice
  BY <1>1, <1>3, Sizes DEF Slice
<1>5. \A j \in DOMAIN m : /\ j \in Cells /\ j \in 0 .. FileSize - 1
                          /\ m[j].size \in 1 .. FileSize /\ m[j] \in Slice
  <2> TAKE j \in DOMAIN m
  <2>1. j \in 0 .. FileSize - 1 /\ m[j].size \in 1 .. FileSize
    BY PartNumbers
  <2> QED BY <2>1 DEF Dividing
<1>6. k + 1 \notin DOMAIN m
  BY <1>1, <1>4, <1>5, Sizes
<1>7. k + 1 \in Cells
  BY <1>1, <1>4, Sizes DEF Cells
<1>8. /\ DOMAIN m0 = DOMAIN m \ {k} /\ \A j \in DOMAIN m \ {k} : m0[j] = m[j]
  BY Lessened
<1> HIDE DEF m0
<1>9. /\ DOMAIN m1 = (DOMAIN m \ {k}) \cup {k + 1} /\ m1[k + 1] = d
      /\ \A j \in DOMAIN m \ {k} : m1[j] = m[j]
  BY <1>6, <1>8 DEF With
<1>10. IsFcn(m1)
  BY Extended
<1> HIDE DEF m1
<1>11. \A i \in DOMAIN m : PartOf(o, i, m[i])
  BY DEF Dividing
<1>12. Dividing(o, m1)
  <2>1. DOMAIN m1 \subseteq Cells
    BY <1>5, <1>7, <1>9
  <2>2. m1 \in [DOMAIN m1 -> Slice]
    BY <1>4, <1>5, <1>9, <1>10 DEF IsFcn
  <2>3. ASSUME NEW i \in DOMAIN m1 PROVE PartOf(o, i, m1[i])
    <3>1. CASE i = k + 1
      <4>1. PartOf(o, k, m[k])
        BY <1>11
      <4>2. m1[i].id = m[k].id /\ i + m1[i].size = k + m[k].size
        BY <1>1, <1>2, <1>9, <3>1, Sizes
      <4>3. m[k].id \in 0 .. FileSize - 1
        BY <1>3, CellFacts
      <4>4. m[k].id <= i
        BY <1>1, <1>3, <3>1, <4>3, Sizes
      <4> QED BY <4>1, <4>2, <4>4 DEF PartOf
    <3>2. CASE i # k + 1
      <4>1. i \in DOMAIN m /\ m1[i] = m[i]
        BY <1>9, <3>2
      <4> QED BY <1>11, <4>1
    <3> QED BY <3>1, <3>2
  <2>4. ASSUME NEW i \in DOMAIN m1, NEW j \in DOMAIN m1
        PROVE  /\ i < j => i + m1[i].size <= j
               /\ m1[i].id = m1[j].id <=> m1[i].ref = m1[j].ref
    <3> DEFINE a == IF i = k + 1 THEN k ELSE i
               b == IF j = k + 1 THEN k ELSE j
    <3>1. a \in DOMAIN m /\ m1[i].id = m[a].id /\ m1[i].ref = m[a].ref /\ i + m1[i].size = a + m[a].size
      <4>1. CASE i = k + 1
        BY <1>1, <1>2, <1>9, <4>1, Sizes
      <4>2. CASE i # k + 1
        BY <1>9, <4>2
      <4> QED BY <4>1, <4>2
    <3>2. b \in DOMAIN m /\ m1[j].id = m[b].id /\ m1[j].ref = m[b].ref
      BY <1>2, <1>9
    <3>3. i < j /\ i # j => a < b
      <4>1. CASE j = k + 1
        <5>1. i # k + 1 => i # k /\ i \in DOMAIN m
          BY <1>9
        <5> QED BY <1>1, <1>5, <4>1, <5>1, Sizes
      <4>2. CASE j # k + 1
        <5>1. j \in DOMAIN m /\ j # k
          BY <1>9, <4>2
        <5>2. CASE i = k + 1
          BY <1>1, <1>5, <4>2, <5>1, <5>2, Sizes
        <5>3. CASE i # k + 1
          BY <4>2, <5>3
        <5> QED BY <5>2, <5>3
      <4> QED BY <4>1, <4>2
    <3>4. b <= j /\ i \in Int /\ j \in Int
      BY <1>1, <1>5, <1>9, Sizes
    <3>5. /\ a < b => a + m[a].size <= b
          /\ m[a].id = m[b].id <=> m[a].ref = m[b].ref
      BY <3>1, <3>2 DEF Dividing
    <3>6. a \in Int /\ b \in Int /\ m[a].size \in Int
      BY <1>5, <3>1, <3>2, Sizes
    <3> HIDE DEF a, b
    <3>7. i < j => i + m1[i].size <= j
      BY <3>1, <3>3, <3>4, <3>5, <3>6
    <3> QED BY <3>1, <3>2, <3>5, <3>7
  <2>5. ASSUME NEW c \in DOMAIN o, NEW id \in DOMAIN o[c].slices
        PROVE  \E i \in DOMAIN m1 : m1[i].id = id
    <3>1. PICK i \in DOMAIN m : m[i].id = id
      BY DEF Dividing
    <3>2. CASE i = k
      BY <1>2, <1>9, <3>1, <3>2
    <3>3. CASE i # k
      BY <1>9, <3>1, <3>3
    <3> QED BY <3>2, <3>3
  <2> QED BY <2>1, <2>2, <2>3, <2>4, <2>5 DEF Dividing
<1>13. InUse(m1) = InUse(m)
  <2>1. \A r : r \in InUse(m) => r \in InUse(m1)
    <3> TAKE r
    <3> HAVE r \in InUse(m)
    <3>1. PICK i \in DOMAIN m : m[i].ref = r
      BY DEF InUse
    <3>2. CASE i = k
      BY <1>2, <1>9, <3>1, <3>2 DEF InUse
    <3>3. CASE i # k
      BY <1>9, <3>1, <3>3 DEF InUse
    <3> QED BY <3>2, <3>3
  <2>2. \A r : r \in InUse(m1) => r \in InUse(m)
    BY <1>2, <1>9 DEF InUse
  <2> QED BY <2>1, <2>2
<1>14. \A r : IsFiniteSet(PartsOf(m, r))
  <2> TAKE r
  <2>1. PartsOf(m, r) \subseteq Cells
    BY <1>5 DEF PartsOf
  <2> QED BY <2>1, FiniteSets, FS_Subset
<1>15. ASSUME NEW r PROVE Cardinality(PartsOf(m1, r)) = Cardinality(PartsOf(m, r))
  <2>1. CASE r = m[k].ref
    <3>1. PartsOf(m1, r) = (PartsOf(m, r) \ {k}) \cup {k + 1}
      BY <1>2, <1>9, <2>1 DEF PartsOf
    <3>2. k \in PartsOf(m, r) /\ k + 1 \notin PartsOf(m, r)
      BY <1>6, <2>1 DEF PartsOf
    <3> DEFINE P == PartsOf(m, r)
    <3>3. IsFiniteSet(P \ {k}) /\ Cardinality(P \ {k}) = Cardinality(P) - 1
      BY <1>14, <3>2, FS_RemoveElement
    <3>4. Cardinality((P \ {k}) \cup {k + 1}) = Cardinality(P \ {k}) + 1
      BY <3>2, <3>3, FS_AddElement
    <3>5. Cardinality(P) \in Nat
      BY <1>14, FS_CardinalityType
    <3> QED BY <3>1, <3>3, <3>4, <3>5
  <2>2. CASE r # m[k].ref
    <3>1. PartsOf(m1, r) = PartsOf(m, r)
      BY <1>2, <1>9, <2>2 DEF PartsOf
    <3> QED BY <3>1
  <2> QED BY <2>1, <2>2
<1>16. Counting(m1, n1)
  <2>1. n \in [InUse(m) -> Nat] /\ \A r \in InUse(m) : n[r] = Cardinality(PartsOf(m, r))
    BY DEF Counting
  <2>2. n1 \in [InUse(m1) -> Nat]
    BY <1>13, <2>1
  <2>3. \A r \in InUse(m1) : n1[r] = Cardinality(PartsOf(m1, r))
    BY <1>13, <1>15, <2>1
  <2> QED BY <2>2, <2>3 DEF Counting
<1>17. Missing(f, o, m1, w \cup {k})
  <2> SUFFICES ASSUME NEW c \in DOMAIN o, NEW i \in CellsOf(c) \ (w \cup {k})
               PROVE  \/ \E j \in DOMAIN m1 : i \in j .. j + m1[j].size - 1
                      \/ \E q \in DOMAIN f : i \in f[q].offset .. EndOf(f[q].start) - 1
    BY DEF Missing
  <2>1. \/ \E j \in DOMAIN m : i \in j .. j + m[j].size - 1
        \/ \E q \in DOMAIN f : i \in f[q].offset .. EndOf(f[q].start) - 1
    BY DEF Missing
  <2>2. CASE \E j \in DOMAIN m \ {k} : i \in j .. j + m[j].size - 1
    BY <1>9, <2>2
  <2>3. CASE i \in k .. k + m[k].size - 1
    <3>1. i \in k + 1 .. (k + 1) + d.size - 1
      BY <1>1, <1>2, <2>3, Sizes
    <3> QED BY <1>9, <3>1
  <2> QED BY <2>1, <2>2, <2>3
<1>18. Shrunk(m, k) = m1
  <2>1. Minus(m[k].size, 1) = m[k].size - 1
    <3>1. PICK z : z = m[k].size
      OBVIOUS
    <3>2. z \in Int /\ z - 1 \in 0 .. Word - 1
      BY <1>1, <3>1, Sizes
    <3>3. Minus(z, 1) = z - 1
      BY <3>2, 1 \in Int, Exact
    <3> QED BY <3>1, <3>3
  <2>2. m[k] = [size |-> m[k].size, id |-> m[k].id, ref |-> m[k].ref, peer |-> m[k].peer]
    BY PartPlace
  <2>3. [m[k] EXCEPT !.size = Minus(@, 1)] = d
    BY <2>1, <2>2
  <2> QED BY <2>3 DEF Shrunk, m1, m0
<1> QED BY <1>12, <1>16, <1>17, <1>18 DEF CountsOver

(* A part is complete, and its slice has others.                           *)
LEMMA PartEnds ==
  ASSUME NEW f, NEW o, NEW m, NEW n, NEW w, Slicing(f, o), Dividing(o, m), Counting(m, n),
         Missing(f, o, m, w), NEW k \in DOMAIN m, m[k].size = 1, n[m[k].ref] - 1 # 0
  PROVE  /\ Dividing(o, Without(m, {k}))
         /\ Counting(Without(m, {k}),
                     CountsAfter(Without(m, {k}), n, m[k].ref, n[m[k].ref] - 1))
         /\ Missing(f, o, Without(m, {k}), w \cup {k})
<1> DEFINE m1 == Without(m, {k})
           n1 == [r \in InUse(m1) |-> IF r = m[k].ref THEN n[m[k].ref] - 1 ELSE n[r]]
<1>1. DOMAIN m1 = DOMAIN m \ {k} /\ \A j \in DOMAIN m \ {k} : m1[j] = m[j]
  BY Lessened
<1>2. IsFcn(m1)
  BY Lessened
<1> HIDE DEF m1
<1>3. n \in [InUse(m) -> Nat] /\ \A r \in InUse(m) : n[r] = Cardinality(PartsOf(m, r))
  BY DEF Counting
<1>4. \A r : IsFiniteSet(PartsOf(m, r)) /\ Cardinality(PartsOf(m, r)) \in Nat
  <2> TAKE r
  <2>1. PartsOf(m, r) \subseteq Cells
    BY DEF PartsOf, Dividing
  <2> QED BY <2>1, FiniteSets, FS_Subset, FS_CardinalityType
<1> DEFINE P == PartsOf(m, m[k].ref)
<1>5. m[k].ref \in InUse(m) /\ k \in P
  BY DEF InUse, PartsOf
<1>6. IsFiniteSet(P \ {k}) /\ Cardinality(P \ {k}) = n[m[k].ref] - 1
  BY SMTT(30), <1>3, <1>4, <1>5, FS_RemoveElement
<1>7. PICK l \in P : l # k
  <2>1. P \ {k} # {}
    BY <1>6, FS_EmptySet
  <2> QED BY <2>1
<1>8. l \in DOMAIN m1 /\ m1[l].ref = m[k].ref /\ m1[l].id = m[k].id
  <2>1. l \in DOMAIN m /\ m[l].ref = m[k].ref
    BY <1>7 DEF PartsOf
  <2>2. m[l].id = m[k].id
    BY <2>1 DEF Dividing
  <2> QED BY <1>1, <1>7, <2>1, <2>2
<1>9. Dividing(o, m1)
  <2>1. DOMAIN m1 \subseteq Cells /\ m1 \in [DOMAIN m1 -> Slice]
    BY <1>1, <1>2 DEF Dividing, IsFcn
  <2>2. \A i \in DOMAIN m1 :
           /\ PartOf(o, i, m1[i])
           /\ \A j \in DOMAIN m1 : /\ i < j => i + m1[i].size <= j
                                   /\ m1[i].id = m1[j].id <=> m1[i].ref = m1[j].ref
    BY <1>1 DEF Dividing
  <2>3. ASSUME NEW c \in DOMAIN o, NEW id \in DOMAIN o[c].slices
        PROVE  \E i \in DOMAIN m1 : m1[i].id = id
    <3>1. PICK i \in DOMAIN m : m[i].id = id
      BY DEF Dividing
    <3>2. CASE i = k
      BY <1>8, <3>1, <3>2
    <3>3. CASE i # k
      BY <1>1, <3>1, <3>3
    <3> QED BY <3>2, <3>3
  <2> QED BY <2>1, <2>2, <2>3 DEF Dividing
<1>10. InUse(m1) = InUse(m)
  <2>1. \A r : r \in InUse(m) => r \in InUse(m1)
    <3> TAKE r
    <3> HAVE r \in InUse(m)
    <3>1. PICK i \in DOMAIN m : m[i].ref = r
      BY DEF InUse
    <3>2. CASE i = k
      BY <1>8, <3>1, <3>2 DEF InUse
    <3>3. CASE i # k
      BY <1>1, <3>1, <3>3 DEF InUse
    <3> QED BY <3>2, <3>3
  <2>2. \A r : r \in InUse(m1) => r \in InUse(m)
    BY <1>1 DEF InUse
  <2> QED BY <2>1, <2>2
<1>11. Counting(m1, n1)
  <2>1. PartsOf(m1, m[k].ref) = P \ {k} /\ \A r : r # m[k].ref => PartsOf(m1, r) = PartsOf(m, r)
    BY <1>1 DEF PartsOf
  <2>2. ASSUME NEW r \in InUse(m1)
        PROVE  n1[r] = Cardinality(PartsOf(m1, r)) /\ n1[r] \in Nat
    <3>1. CASE r = m[k].ref
      <4>1. n1[r] = Cardinality(PartsOf(m1, r))
        BY <1>6, <2>1, <3>1
      <4>2. Cardinality(PartsOf(m1, r)) \in Nat
        BY <1>6, <2>1, <3>1, FS_CardinalityType
      <4> QED BY <4>1, <4>2
    <3>2. CASE r # m[k].ref
      BY <1>3, <1>10, <2>1, <3>2
    <3> QED BY <3>1, <3>2
  <2>3. n1 \in [InUse(m1) -> Nat]
    <3>1. n1 = [r \in InUse(m1) |-> n1[r]]
      OBVIOUS
    <3> HIDE DEF n1
    <3> QED BY <2>2, <3>1
  <2> QED BY <2>2, <2>3 DEF Counting
<1>12. Missing(f, o, m1, w \cup {k})
  <2> SUFFICES ASSUME NEW c \in DOMAIN o, NEW i \in CellsOf(c) \ (w \cup {k})
               PROVE  \/ \E j \in DOMAIN m1 : i \in j .. j + m1[j].size - 1
                      \/ \E q \in DOMAIN f : i \in f[q].offset .. EndOf(f[q].start) - 1
    BY DEF Missing
  <2>1. \/ \E j \in DOMAIN m : i \in j .. j + m[j].size - 1
        \/ \E q \in DOMAIN f : i \in f[q].offset .. EndOf(f[q].start) - 1
    BY DEF Missing
  <2>2. k \in 0 .. FileSize - 1
    BY PartNumbers
  <2>3. ~(i \in k .. k + m[k].size - 1)
    BY <2>2, Sizes
  <2> QED BY <1>1, <2>1, <2>3
<1> QED BY <1>9, <1>11, <1>12 DEF m1, CountsAfter

(* k is the last part of its slice.                                        *)
Ended(f, o, m, n, k) ==
  LET id == m[k].id
      c == ChunkOf(id)
      s == o[c].slices
      m1 == Without(m, {k})
  IN  /\ c \in Chunks /\ c \in DOMAIN o /\ id \in DOMAIN s /\ s[id] \in 1 .. FileSize
      /\ DOMAIN m1 = DOMAIN m \ {k}
      /\ \A j \in DOMAIN m1 : m1[j] = m[j] /\ m[j].id # id
      /\ Counting(m1, CountsAfter(m1, n, m[k].ref, 0))
      /\ SumOver(Without(s, {id})) = SumOver(s) - s[id]
      /\ SumOver(Without(s, {id})) \in Nat /\ SumOver(s) \in Nat
      /\ SumOver(Uncut(f, c)) \in Nat
      /\ o[c].remains - s[id] \in 0 .. FileSize
      /\ o[c].remains - s[id] = SumOver(Without(s, {id})) + SumOver(Uncut(f, c))

(* The last part of a slice is complete: no other is of the slice, and     *)
(* what remains of the chunk is what else there is.                        *)
LEMMA SliceEnds ==
  ASSUME NEW f, NEW o, NEW m, NEW n, NEW w, Divided(f, o, m, n, w),
         NEW k \in DOMAIN m, m[k].size = 1, n[m[k].ref] - 1 = 0
  PROVE  Ended(f, o, m, n, k)
<1> DEFINE id == m[k].id
           c == ChunkOf(id)
           s == o[c].slices
           m1 == Without(m, {k})
           n1 == CountsAfter(m1, n, m[k].ref, 0)
           u == Uncut(f, c)
           P == PartsOf(m, m[k].ref)
<1>1. /\ Feeding(f, o) /\ Slicing(f, o) /\ Remaining(f, o)
      /\ Dividing(o, m) /\ Counting(m, n)
  BY DEF Divided
<1>2. c \in Chunks /\ c \in DOMAIN o /\ id \in DOMAIN s
  BY <1>1, PartPlace
<1>3. InOrder(f, c, s)
  BY <1>1, <1>2 DEF Slicing
<1>4. DOMAIN s \subseteq CellsOf(c) /\ s \in [DOMAIN s -> 1 .. FileSize] /\ s[id] \in 1 .. FileSize
  BY <1>2, <1>3 DEF InOrder
<1>5. DOMAIN m1 = DOMAIN m \ {k} /\ \A j \in DOMAIN m1 : m1[j] = m[j]
  BY DEF Without, Restrict
<1>6. m[k].ref \in InUse(m) /\ k \in P
  BY DEF InUse, PartsOf
<1>7. n \in [InUse(m) -> Nat] /\ \A r \in InUse(m) : n[r] = Cardinality(PartsOf(m, r))
  BY <1>1 DEF Counting
<1>8. P = {k}
  <2>1. P \subseteq Cells
    BY <1>1 DEF PartsOf, Dividing
  <2>2. IsFiniteSet(P) /\ Cardinality(P) = 1
    BY <1>6, <1>7, <2>1, FiniteSets, FS_Subset
  <2> HIDE DEF P
  <2>3. \E x : P = {x}
    BY <2>2, FS_Singleton
  <2> QED BY <1>6, <2>3
<1>9. \A j \in DOMAIN m1 : m[j].ref # m[k].ref /\ m[j].id # id
  <2> TAKE j \in DOMAIN m1
  <2>1. j \in DOMAIN m /\ j # k
    BY <1>5
  <2>2. m[j].ref # m[k].ref
    BY <1>8, <2>1 DEF PartsOf
  <2> QED BY <1>1, <2>1, <2>2 DEF Dividing
<1>10. Counting(m1, n1)
  <2> HIDE DEF m1
  <2>1. InUse(m1) \subseteq InUse(m) /\ \A r \in InUse(m1) : r # m[k].ref
    BY <1>5, <1>9 DEF InUse
  <2>2. \A r : r # m[k].ref => PartsOf(m1, r) = PartsOf(m, r)
    BY <1>5 DEF PartsOf
  <2>3. n1 \in [InUse(m1) -> Nat] /\ \A r \in InUse(m1) : n1[r] = n[r]
    BY <1>7, <2>1 DEF CountsAfter
  <2> HIDE DEF n1
  <2>4. \A r \in InUse(m1) : n1[r] = Cardinality(PartsOf(m1, r))
    BY <1>7, <2>1, <2>2, <2>3
  <2> QED BY <2>3, <2>4 DEF Counting
<1>11. IsFiniteSet(DOMAIN s)
  <2>1. DOMAIN s \subseteq Cells
    BY <1>4 DEF CellsOf
  <2> QED BY <2>1, FiniteSets, FS_Subset
<1>12. IsFiniteSet(DOMAIN u)
  <2>1. DOMAIN u \subseteq Sources
    BY <1>1 DEF Uncut, Feeding
  <2> QED BY <2>1, Sizes, FS_Subset
<1>13. SumOver(u) \in Nat
  <2> HIDE DEF u
  <2> QED BY <1>12, SumFinite
<1>14. o[c].remains = SumOver(s) + SumOver(u) /\ o[c].remains \in 0 .. FileSize
  BY <1>1, <1>2 DEF Remaining, Slicing
<1>15. /\ SumOver(Without(s, {id})) = SumOver(s) - s[id]
       /\ SumOver(s) >= s[id] /\ SumOver(s) \in Nat /\ SumOver(Without(s, {id})) \in Nat
  <2>1. s[id] \in 0 .. Word
    BY <1>4, Sizes
  <2>2. Without(s, {id}) = [y \in DOMAIN s \ {id} |-> s[y]]
    BY DEF Without, Restrict
  <2> HIDE DEF s, id, c
  <2> QED BY <1>2, <1>11, <2>1, <2>2, SumSplit
<1> HIDE DEF u, s, c, id, m1, n1
<1>16. /\ o[c].remains - s[id] \in 0 .. FileSize
       /\ o[c].remains - s[id] = SumOver(Without(s, {id})) + SumOver(u)
  <2> DEFINE a == SumOver(s)
             b == SumOver(u)
             r == o[c].remains
             z == s[id]
  <2>1. a \in Nat /\ b \in Nat /\ r = a + b /\ r \in 0 .. FileSize /\ z \in 1 .. FileSize /\ a >= z
    BY <1>4, <1>13, <1>14, <1>15
  <2> HIDE DEF a, b, r, z
  <2>2. r - z \in 0 .. FileSize /\ r - z = (a - z) + b
    BY <2>1, Sizes
  <2> QED BY <1>15, <2>2 DEF a, b, r, z
<1> QED BY <1>2, <1>4, <1>5, <1>9, <1>10, <1>13, <1>15, <1>16 DEF Ended, u, s, c, id, m1, n1

(* What remains of the chunk of slice id when the slice is over, and the   *)
(* chunks in download then.                                                *)
LeftAfter(o, id) == o[ChunkOf(id)].remains - o[ChunkOf(id)].slices[id]
SliceOver(o, id) ==
    LET c == ChunkOf(id)
        s == o[c].slices
    IN  [o EXCEPT ![c] = [slices |-> Without(s, {id}), remains |-> o[c].remains - s[id]]]

(* A slice ends, the chunk does not.                                       *)
LEMMA SliceEndsDivided ==
  ASSUME NEW f, NEW o, NEW m, NEW n, NEW w, Divided(f, o, m, n, w),
         NEW k \in DOMAIN m, m[k].size = 1, n[m[k].ref] - 1 = 0
  PROVE  Divided(f, SliceOver(o, m[k].id), Without(m, {k}),
                 CountsAfter(Without(m, {k}), n, m[k].ref, 0), w \cup {k})
<1> DEFINE id == m[k].id
           c == ChunkOf(id)
           s == o[c].slices
           v == [slices |-> Without(s, {id}), remains |-> o[c].remains - s[id]]
           t == Without(s, {id})
           m1 == Without(m, {k})
           n1 == CountsAfter(m1, n, m[k].ref, 0)
           h == [o EXCEPT ![c] = v]
<1>1. /\ Feeding(f, o) /\ Slicing(f, o) /\ Remaining(f, o)
      /\ Dividing(o, m) /\ Counting(m, n) /\ Missing(f, o, m, w)
  BY DEF Divided
<1>2. /\ c \in Chunks /\ c \in DOMAIN o /\ id \in DOMAIN s /\ s[id] \in 1 .. FileSize
      /\ DOMAIN m1 = DOMAIN m \ {k}
      /\ \A j \in DOMAIN m1 : m1[j] = m[j] /\ m[j].id # id
      /\ Counting(m1, n1)
      /\ o[c].remains - s[id] \in 0 .. FileSize
      /\ o[c].remains - s[id] = SumOver(t) + SumOver(Uncut(f, c))
  <2>1. Ended(f, o, m, n, k)
    BY SliceEnds
  <2> QED BY <2>1 DEF Ended
<1>3. /\ DOMAIN h = DOMAIN o /\ h[c] = v /\ \A e \in DOMAIN o \ {c} : h[e] = o[e]
      /\ IsFcn(h)
  <2>1. IsFcn(o)
    BY <1>1 DEF Slicing
  <2>2. h = [e \in DOMAIN o |-> IF e = c THEN v ELSE o[e]]
    BY <2>1 DEF IsFcn
  <2>3. DOMAIN h = DOMAIN o /\ h[c] = v /\ \A e \in DOMAIN o \ {c} : h[e] = o[e]
    BY <1>2, <2>2
  <2>4. IsFcn(h)
    <3>1. PICK g : g = [e \in DOMAIN o |-> IF e = c THEN v ELSE o[e]]
      OBVIOUS
    <3>2. DOMAIN g = DOMAIN o /\ \A e \in DOMAIN o : g[e] = IF e = c THEN v ELSE o[e]
      BY <3>1
    <3>3. IsFcn(g)
      BY <3>1, <3>2 DEF IsFcn
    <3> QED BY <2>2, <3>1, <3>3
  <2> QED BY <2>3, <2>4
<1>4. v.slices = t /\ v.remains = o[c].remains - s[id]
  OBVIOUS
<1>5. DOMAIN t = DOMAIN s \ {id} /\ \A i \in DOMAIN t : t[i] = s[i]
  BY DEF Without, Restrict
<1>6. IsFcn(t) /\ IsFcn(m1)
  BY Lessened
<1> HIDE DEF h, t, m1, n1, s, id, v, c
<1>7. Feeding(f, h)
  BY <1>1, <1>3 DEF Feeding
<1>8. Slicing(f, h)
  <2>1. ASSUME NEW e \in DOMAIN h
        PROVE  /\ h[e] = [slices |-> h[e].slices, remains |-> h[e].remains]
               /\ h[e].remains \in 0 .. FileSize
               /\ InOrder(f, e, h[e].slices)
    <3>1. CASE e = c
      <4>1. h[e].slices = t /\ h[e].remains = o[c].remains - s[id]
        BY <1>3, <1>4, <3>1
      <4>2. h[e] = [slices |-> h[e].slices, remains |-> h[e].remains]
        BY <1>3, <3>1, <4>1 DEF v, s, t, id
      <4>3. InOrder(f, c, s)
        BY <1>1, <1>2 DEF Slicing, s
      <4>4. t \in [DOMAIN t -> 1 .. FileSize]
        BY <1>5, <1>6, <4>3 DEF InOrder, IsFcn
      <4>5. InOrder(f, c, t)
        BY <1>5, <4>3, <4>4 DEF InOrder
      <4> QED BY <1>2, <3>1, <4>1, <4>2, <4>5
    <3>2. CASE e # c
      BY <1>1, <1>3, <3>2 DEF Slicing
    <3> QED BY <3>1, <3>2
  <2> QED BY <1>1, <1>3, <2>1 DEF Slicing
<1>9. Remaining(f, h)
  <2> SUFFICES ASSUME NEW e \in DOMAIN h
               PROVE  h[e].remains = SumOver(h[e].slices) + SumOver(Uncut(f, e))
    BY DEF Remaining
  <2>1. CASE e = c
    BY <1>2, <1>3, <1>4, <2>1
  <2>2. CASE e # c
    BY <1>1, <1>3, <2>2 DEF Remaining
  <2> QED BY <2>1, <2>2
<1>10. Dividing(h, m1)
  <2>1. DOMAIN m1 \subseteq Cells /\ m1 \in [DOMAIN m1 -> Slice]
    BY <1>1, <1>2, <1>6 DEF Dividing, IsFcn
  <2>2. \A i, j \in DOMAIN m1 : /\ i < j => i + m1[i].size <= j
                                /\ m1[i].id = m1[j].id <=> m1[i].ref = m1[j].ref
    BY <1>1, <1>2 DEF Dividing
  <2>3. ASSUME NEW i \in DOMAIN m1 PROVE PartOf(h, i, m1[i])
    <3> DEFINE e == ChunkOf(m[i].id)
    <3>1. m1[i] = m[i] /\ m[i].id # id /\ i \in DOMAIN m
      BY <1>2
    <3>2. PartOf(o, i, m[i])
      BY <1>1, <3>1 DEF Dividing
    <3>3. /\ e \in DOMAIN o /\ m[i].id \in DOMAIN o[e].slices /\ m[i].id <= i
          /\ i + m[i].size <= m[i].id + o[e].slices[m[i].id]
      BY <3>2 DEF PartOf
    <3>4. /\ e \in DOMAIN h /\ m[i].id \in DOMAIN h[e].slices
          /\ h[e].slices[m[i].id] = o[e].slices[m[i].id]
      <4> HIDE DEF e
      <4>1. CASE e = c
        <5>1. h[e].slices = t /\ o[e].slices = s
          BY <1>3, <1>4, <4>1 DEF s
        <5> QED BY <1>3, <1>5, <3>1, <3>3, <5>1
      <4>2. CASE e # c
        BY <1>3, <3>3, <4>2
      <4> QED BY <4>1, <4>2
    <3> QED BY <3>1, <3>3, <3>4 DEF PartOf
  <2>4. ASSUME NEW e \in DOMAIN h, NEW x \in DOMAIN h[e].slices
        PROVE  \E i \in DOMAIN m1 : m1[i].id = x
    <3>1. e \in DOMAIN o /\ x \in DOMAIN o[e].slices /\ x # id
      <4>1. CASE e = c
        <5>1. h[e].slices = t /\ o[e].slices = s
          BY <1>3, <1>4, <4>1 DEF s
        <5> QED BY <1>3, <1>5, <5>1
      <4>2. CASE e # c
        <5>1. e \in DOMAIN o /\ x \in DOMAIN o[e].slices /\ e \in Chunks
          BY <1>1, <1>3, <4>2 DEF Slicing
        <5>2. ChunkOf(x) = e
          <6>1. InOrder(f, e, o[e].slices)
            BY <1>1, <5>1 DEF Slicing
          <6>2. x \in CellsOf(e)
            BY <5>1, <6>1 DEF InOrder
          <6> QED BY <6>2 DEF CellsOf
        <5> QED BY <4>2, <5>1, <5>2 DEF c, id
      <4> QED BY <4>1, <4>2
    <3>2. PICK i \in DOMAIN m : m[i].id = x
      BY <1>1, <3>1 DEF Dividing
    <3>3. i # k
      BY <3>1, <3>2 DEF id
    <3> QED BY <1>2, <3>2, <3>3
  <2> QED BY <2>1, <2>2, <2>3, <2>4 DEF Dividing
<1>11. Missing(f, h, m1, w \cup {k})
  <2> SUFFICES ASSUME NEW e \in DOMAIN h, NEW i \in CellsOf(e) \ (w \cup {k})
               PROVE  \/ \E j \in DOMAIN m1 : i \in j .. j + m1[j].size - 1
                      \/ \E q \in DOMAIN f : i \in f[q].offset .. EndOf(f[q].start) - 1
    BY DEF Missing
  <2>1. \/ \E j \in DOMAIN m : i \in j .. j + m[j].size - 1
        \/ \E q \in DOMAIN f : i \in f[q].offset .. EndOf(f[q].start) - 1
    BY <1>1, <1>3 DEF Missing
  <2>2. k \in 0 .. FileSize - 1
    BY <1>1, PartNumbers
  <2>3. ~(i \in k .. k + m[k].size - 1)
    BY <2>2, Sizes
  <2> QED BY <1>2, <2>1, <2>3
<1> QED BY <1>2, <1>7, <1>8, <1>9, <1>10, <1>11 DEF Divided, SliceOver, h, m1, n1, v, c, s, id

(* The last slice of a chunk ends: every cell of the chunk has come.       *)
LEMMA ChunkEndsDivided ==
  ASSUME NEW f, NEW o, NEW m, NEW n, NEW w, Divided(f, o, m, n, w),
         NEW k \in DOMAIN m, m[k].size = 1, n[m[k].ref] - 1 = 0,
         LeftAfter(o, m[k].id) = 0
  PROVE  /\ Divided(f, Without(o, {ChunkOf(m[k].id)}), Without(m, {k}),
                    CountsAfter(Without(m, {k}), n, m[k].ref, 0), w \cup {k})
         /\ CellsOf(ChunkOf(m[k].id)) \subseteq w \cup {k}
<1> DEFINE id == m[k].id
           c == ChunkOf(id)
           s == o[c].slices
           t == Without(s, {id})
           u == Uncut(f, c)
           m1 == Without(m, {k})
           n1 == CountsAfter(m1, n, m[k].ref, 0)
           h == Without(o, {c})
<1>1. /\ Feeding(f, o) /\ Slicing(f, o) /\ Remaining(f, o)
      /\ Dividing(o, m) /\ Counting(m, n) /\ Missing(f, o, m, w)
  BY DEF Divided
<1>2. /\ c \in Chunks /\ c \in DOMAIN o /\ id \in DOMAIN s /\ s[id] \in 1 .. FileSize
      /\ DOMAIN m1 = DOMAIN m \ {k}
      /\ \A j \in DOMAIN m1 : m1[j] = m[j] /\ m[j].id # id
      /\ Counting(m1, n1)
      /\ SumOver(t) \in Nat /\ SumOver(u) \in Nat
      /\ o[c].remains - s[id] = SumOver(t) + SumOver(u)
  <2>1. Ended(f, o, m, n, k)
    BY SliceEnds
  <2> QED BY <2>1 DEF Ended
<1>3. SumOver(t) = 0 /\ SumOver(u) = 0
  BY <1>2 DEF LeftAfter
<1>4. DOMAIN t = DOMAIN s \ {id} /\ \A i \in DOMAIN t : t[i] = s[i]
  BY DEF Without, Restrict
<1>5. IsFcn(h) /\ IsFcn(m1)
  BY Lessened
<1>6. DOMAIN h = DOMAIN o \ {c} /\ \A e \in DOMAIN h : h[e] = o[e]
  BY DEF Without, Restrict
<1>7. InOrder(f, c, s)
  BY <1>1, <1>2 DEF Slicing
<1>8. DOMAIN s = {id}
  <2> SUFFICES ASSUME NEW i \in DOMAIN t PROVE FALSE
    BY <1>2, <1>4
  <2>1. DOMAIN t \subseteq Cells
    BY <1>4, <1>7 DEF InOrder, CellsOf
  <2>2. IsFiniteSet(DOMAIN t)
    BY <2>1, FiniteSets, FS_Subset
  <2>3. t[i] \in 1 .. FileSize
    BY <1>4, <1>7 DEF InOrder
  <2> HIDE DEF t
  <2>4. t[i] \in 0 .. Word
    BY <2>3, Sizes
  <2>5. SumOver(t) >= t[i]
    BY <2>2, <2>4, SumSplit
  <2> QED BY <1>3, <2>3, <2>5, Sizes
<1>9. \A q \in DOMAIN f : f[q].start # c
  <2> SUFFICES ASSUME NEW q \in DOMAIN f, f[q].start = c PROVE FALSE
    OBVIOUS
  <2>1. DOMAIN u \subseteq Sources
    BY <1>1 DEF Uncut, Feeding
  <2>2. IsFiniteSet(DOMAIN u)
    BY <2>1, Sizes, FS_Subset
  <2>3. f[q].offset \in 0 .. FileSize - 1 /\ EndOf(c) \in 1 .. FileSize /\ f[q].offset < EndOf(c)
    BY <1>1, <2>1, FeedPlace
  <2>4. q \in DOMAIN u /\ u[q] = EndOf(c) - f[q].offset
    BY DEF Uncut
  <2>5. u[q] \in 1 .. FileSize /\ u[q] \in 0 .. Word
    BY <2>3, <2>4, Sizes
  <2> HIDE DEF u
  <2>6. SumOver(u) >= u[q]
    BY <2>2, <2>4, <2>5, SumSplit
  <2> QED BY <1>3, <2>5, <2>6, Sizes
<1> HIDE DEF h, t, m1, n1, s, u, c
<1>10. \A j \in DOMAIN m1 : ChunkOf(m[j].id) # c
  <2> SUFFICES ASSUME NEW j \in DOMAIN m1, ChunkOf(m[j].id) = c PROVE FALSE
    OBVIOUS
  <2>1. j \in DOMAIN m /\ m[j].id # id
    BY <1>2
  <2>2. m[j].id \in DOMAIN o[ChunkOf(m[j].id)].slices
    BY <1>1, <2>1, PartPlace
  <2> QED BY <1>8, <2>1, <2>2 DEF s
<1>11. Feeding(f, h)
  BY <1>1, <1>6, <1>9 DEF Feeding
<1>12. Slicing(f, h)
  BY <1>1, <1>5, <1>6 DEF Slicing
<1>13. Remaining(f, h)
  BY <1>1, <1>6 DEF Remaining
<1>14. Dividing(h, m1)
  <2>1. DOMAIN m1 \subseteq Cells /\ m1 \in [DOMAIN m1 -> Slice]
    BY <1>1, <1>2, <1>5 DEF Dividing, IsFcn
  <2>2. \A i, j \in DOMAIN m1 : /\ i < j => i + m1[i].size <= j
                                /\ m1[i].id = m1[j].id <=> m1[i].ref = m1[j].ref
    BY <1>1, <1>2 DEF Dividing
  <2>3. ASSUME NEW i \in DOMAIN m1 PROVE PartOf(h, i, m1[i])
    <3>1. m1[i] = m[i] /\ i \in DOMAIN m
      BY <1>2
    <3>2. PartOf(o, i, m[i])
      BY <1>1, <3>1 DEF Dividing
    <3> QED BY <1>6, <1>10, <3>1, <3>2 DEF PartOf
  <2>4. ASSUME NEW e \in DOMAIN h, NEW x \in DOMAIN h[e].slices
        PROVE  \E i \in DOMAIN m1 : m1[i].id = x
    <3>1. e \in DOMAIN o /\ e # c /\ x \in DOMAIN o[e].slices
      BY <1>6
    <3>2. PICK i \in DOMAIN m : m[i].id = x
      BY <1>1, <3>1 DEF Dividing
    <3>3. x \in CellsOf(e)
      <4>1. InOrder(f, e, o[e].slices)
        BY <1>1, <3>1 DEF Slicing
      <4> QED BY <3>1, <4>1 DEF InOrder
    <3>4. i # k
      BY <3>1, <3>2, <3>3 DEF CellsOf, c, id
    <3> QED BY <1>2, <3>2, <3>4
  <2> QED BY <2>1, <2>2, <2>3, <2>4 DEF Dividing
<1>15. ASSUME NEW e \in DOMAIN o, NEW i \in CellsOf(e) \ (w \cup {k})
       PROVE  \/ \E j \in DOMAIN m1 : i \in j .. j + m1[j].size - 1
              \/ \E q \in DOMAIN f : i \in f[q].offset .. EndOf(f[q].start) - 1
  <2>1. \/ \E j \in DOMAIN m : i \in j .. j + m[j].size - 1
        \/ \E q \in DOMAIN f : i \in f[q].offset .. EndOf(f[q].start) - 1
    BY <1>1 DEF Missing
  <2>2. k \in 0 .. FileSize - 1
    BY <1>1, PartNumbers
  <2>3. ~(i \in k .. k + m[k].size - 1)
    BY <2>2, Sizes
  <2> QED BY <1>2, <2>1, <2>3
<1>16. Missing(f, h, m1, w \cup {k})
  BY <1>6, <1>15 DEF Missing
<1>17. CellsOf(c) \subseteq w \cup {k}
  <2> SUFFICES ASSUME NEW i \in CellsOf(c) \ (w \cup {k}) PROVE FALSE
    OBVIOUS
  <2>1. ChunkOf(i) = c /\ i \in Cells
    BY DEF CellsOf
  <2>2. ASSUME NEW j \in DOMAIN m1, i \in j .. j + m1[j].size - 1 PROVE FALSE
    <3>1. j \in DOMAIN m /\ m1[j] = m[j]
      BY <1>2
    <3> DEFINE e == ChunkOf(m[j].id)
    <3>2. e \in Chunks /\ j \in Cells /\ ChunkOf(j) = e /\ j + m[j].size <= EndOf(e)
      BY <1>1, <3>1, PartPlace
    <3>3. j \in CellsOf(e) /\ CellsOf(e) = e * ChunkSize .. EndOf(e) - 1 /\ e * ChunkSize \in Nat
          /\ EndOf(e) \in 1 .. FileSize
      BY <3>2, CellFacts, ChunkFacts
    <3>4. j \in 0 .. FileSize - 1 /\ m[j].size \in 1 .. FileSize
      BY <1>1, <3>1, PartNumbers
    <3>5. e # c
      BY <1>10, <2>2
    <3> HIDE DEF e
    <3>6. i \in CellsOf(e)
      BY SMTT(30), <2>2, <3>1, <3>2, <3>3, <3>4, Sizes
    <3> QED BY <2>1, <3>5, <3>6 DEF CellsOf
  <2>3. ASSUME NEW q \in DOMAIN f, i \in f[q].offset .. EndOf(f[q].start) - 1 PROVE FALSE
    <3> DEFINE e == f[q].start
    <3>1. /\ e \in Chunks /\ f[q].offset \in 0 .. FileSize - 1 /\ EndOf(e) \in 1 .. FileSize
          /\ e * ChunkSize \in Nat /\ e * ChunkSize <= f[q].offset
      BY <1>1, FeedPlace
    <3>2. CellsOf(e) = e * ChunkSize .. EndOf(e) - 1
      BY <3>1, ChunkFacts
    <3>3. i \in CellsOf(e)
      BY <2>3, <3>1, <3>2, Sizes
    <3> QED BY <1>9, <2>1, <3>3 DEF CellsOf
  <2> QED BY <1>2, <1>15, <2>2, <2>3
<1> QED BY <1>2, <1>11, <1>12, <1>13, <1>14, <1>16, <1>17 DEF Divided, h, m1, n1, c, id

(***************************************************************************)
(* A packet in the middle of a part: the part is split                     *)
(***************************************************************************)

FirstPart(m, i, k) == [m EXCEPT ![i].size = k - i]
SecondPart(m, i, k) == [m[i] EXCEPT !.size = @ - (k - i)]
SplitAt(m, i, k) == With(FirstPart(m, i, k), k, SecondPart(m, i, k))

(* What the parts are after the split.                                     *)
IsSplit(m, i, k) ==
  /\ k \in Cells /\ k \notin DOMAIN m
  /\ DOMAIN SplitAt(m, i, k) = DOMAIN m \cup {k}
  /\ IsFcn(SplitAt(m, i, k))
  /\ SplitAt(m, i, k)[k] = SecondPart(m, i, k)
  /\ Without(SplitAt(m, i, k), {k}) = FirstPart(m, i, k)
  /\ \A j \in DOMAIN m \ {i} : SplitAt(m, i, k)[j] = m[j]
  /\ SplitAt(m, i, k)[i] = [size |-> k - i, id |-> m[i].id,
                                ref |-> m[i].ref, peer |-> m[i].peer]
  /\ SplitAt(m, i, k)[k] = [size |-> m[i].size - (k - i), id |-> m[i].id,
                                ref |-> m[i].ref, peer |-> m[i].peer]

LEMMA SplitParts ==
  ASSUME NEW f, NEW o, NEW m, Slicing(f, o), Dividing(o, m), NEW i \in DOMAIN m,
         NEW k \in Int, i < k, k < i + m[i].size
  PROVE  IsSplit(m, i, k)
<1> DEFINE d == SecondPart(m, i, k)
           e == [size |-> k - i, id |-> m[i].id, ref |-> m[i].ref, peer |-> m[i].peer]
           g == [size |-> m[i].size - (k - i), id |-> m[i].id, ref |-> m[i].ref, peer |-> m[i].peer]
           m0 == FirstPart(m, i, k)
           m2 == With(m0, k, d)
<1>1. /\ i \in 0 .. FileSize - 1 /\ m[i].size \in 1 .. FileSize
      /\ i + m[i].size \in 1 .. FileSize
      /\ \A j \in DOMAIN m : i < j => i + m[i].size <= j
  BY PartNumbers
<1>2. k \in Cells
  BY <1>1, Sizes DEF Cells
<1>3. k \notin DOMAIN m
  BY <1>1, Sizes
<1>4. m[i] = [size |-> m[i].size, id |-> m[i].id, ref |-> m[i].ref, peer |-> m[i].peer]
  BY PartPlace
<1>5. d = g
  BY <1>4 DEF SecondPart
<1>6. IsFcn(m)
  BY DEF Dividing, IsFcn
<1>7. m0 = [j \in DOMAIN m |-> IF j = i THEN e ELSE m[j]]
  <2>1. [m[i] EXCEPT !.size = k - i] = e
    BY <1>4
  <2> HIDE DEF e
  <2>2. m0 = [m EXCEPT ![i] = e]
    BY <2>1 DEF FirstPart
  <2> QED BY <1>6, <2>2 DEF IsFcn
<1> HIDE DEF m0, d, e, g
<1>8. DOMAIN m0 = DOMAIN m /\ m0[i] = e /\ \A j \in DOMAIN m \ {i} : m0[j] = m[j]
  BY <1>7
<1>9. IsFcn(m0)
  <2>1. PICK h : h = [j \in DOMAIN m |-> IF j = i THEN e ELSE m[j]]
    OBVIOUS
  <2>2. IsFcn(h)
    BY <2>1 DEF IsFcn
  <2> QED BY <1>7, <2>1, <2>2
<1>10. DOMAIN m2 = DOMAIN m \cup {k} /\ m2[k] = d /\ \A j \in DOMAIN m : m2[j] = m0[j]
  BY <1>3, <1>8 DEF With
<1>11. IsFcn(m2)
  BY Extended
<1>12. m2 = SplitAt(m, i, k)
  BY DEF SplitAt, m0, d
<1> HIDE DEF m2
<1>13. Without(m2, {k}) = m0
  <2>1. Without(m2, {k}) = [j \in DOMAIN m |-> m2[j]]
    BY <1>3, <1>10 DEF Without, Restrict
  <2>2. m0 = [j \in DOMAIN m |-> m0[j]]
    BY <1>8, <1>9 DEF IsFcn
  <2>3. \A j \in DOMAIN m : m2[j] = m0[j]
    BY <1>10
  <2> QED BY <2>1, <2>2, <2>3
<1> QED BY <1>2, <1>3, <1>5, <1>8, <1>10, <1>11, <1>12, <1>13 DEF IsSplit, m0, d, e, g

LEMMA SplitDivided ==
  ASSUME NEW f, NEW o, NEW m, NEW n, NEW w, Divided(f, o, m, n, w), NEW i \in DOMAIN m,
         NEW k \in Int, i < k, k < i + m[i].size
  PROVE  Divided(f, o, SplitAt(m, i, k), [n EXCEPT ![m[i].ref] = @ + 1], w)
<1> DEFINE m2 == SplitAt(m, i, k)
           n2 == [n EXCEPT ![m[i].ref] = @ + 1]
<1>1. /\ Feeding(f, o) /\ Slicing(f, o) /\ Remaining(f, o)
      /\ Dividing(o, m) /\ Counting(m, n) /\ Missing(f, o, m, w)
  BY DEF Divided
<1>2. /\ i \in 0 .. FileSize - 1 /\ m[i].size \in 1 .. FileSize
      /\ i + m[i].size \in 1 .. FileSize
      /\ \A j \in DOMAIN m : i < j => i + m[i].size <= j
  BY <1>1, PartNumbers
<1>3. /\ k \in Cells /\ k \notin DOMAIN m /\ DOMAIN m2 = DOMAIN m \cup {k} /\ IsFcn(m2)
      /\ \A j \in DOMAIN m \ {i} : m2[j] = m[j]
      /\ m2[i] = [size |-> k - i, id |-> m[i].id, ref |-> m[i].ref, peer |-> m[i].peer]
      /\ m2[k] = [size |-> m[i].size - (k - i), id |-> m[i].id,
                  ref |-> m[i].ref, peer |-> m[i].peer]
  <2>1. IsSplit(m, i, k)
    BY <1>1, SplitParts
  <2> QED BY <2>1 DEF IsSplit
<1> HIDE DEF m2
<1>4. /\ m2[i].size = k - i /\ m2[i].id = m[i].id /\ m2[i].ref = m[i].ref
      /\ m2[k].size = m[i].size - (k - i) /\ m2[k].id = m[i].id /\ m2[k].ref = m[i].ref
  BY <1>3
<1>5. /\ m[i].id \in Cells /\ m[i].ref \in 0 .. FileSize + 1 /\ m[i].peer \in Sources
  BY <1>1, PartPlace
<1>6. m2[i] \in Slice /\ m2[k] \in Slice
  <2>1. k - i \in 1 .. FileSize /\ m[i].size - (k - i) \in 1 .. FileSize
    BY <1>2, Sizes
  <2> QED BY <1>3, <1>5, <2>1 DEF Slice
<1>7. \A j \in DOMAIN m : /\ j \in Cells /\ j \in 0 .. FileSize - 1
                          /\ m[j].size \in 1 .. FileSize /\ m[j] \in Slice
                          /\ m[j].id \in 0 .. FileSize - 1
  <2> TAKE j \in DOMAIN m
  <2>1. j \in 0 .. FileSize - 1 /\ m[j].size \in 1 .. FileSize
    BY <1>1, PartNumbers
  <2>2. m[j].id \in Cells
    BY <1>1, PartPlace
  <2>3. m[j].id \in 0 .. FileSize - 1
    BY <2>2, CellFacts
  <2> QED BY <1>1, <2>1, <2>3 DEF Dividing
<1>8. ASSUME NEW x \in DOMAIN m2
      PROVE  \E a \in DOMAIN m : /\ m2[x].id = m[a].id /\ m2[x].ref = m[a].ref
                                 /\ a <= x /\ x + m2[x].size <= a + m[a].size
  <2>1. CASE x = k
    BY <1>2, <1>3, <1>4, <2>1, Sizes
  <2>2. CASE x = i
    BY <1>2, <1>3, <1>4, <2>2, Sizes
  <2>3. CASE x # k /\ x # i
    <3>1. x \in DOMAIN m /\ m2[x] = m[x]
      BY <1>3, <2>3
    <3>2. x <= x /\ x + m2[x].size <= x + m[x].size
      BY <1>7, <3>1, Sizes
    <3> QED BY <3>1, <3>2
  <2> QED BY <2>1, <2>2, <2>3
<1>9. ASSUME NEW x \in DOMAIN m2, NEW y \in DOMAIN m2, x < y PROVE x + m2[x].size <= y
  <2>1. \A a, b \in DOMAIN m : a < b => a + m[a].size <= b
    BY <1>1 DEF Dividing
  <2>2. CASE x = k
    <3>1. y \in DOMAIN m /\ i < y
      BY <1>2, <1>3, <1>7, <1>9, <2>2
    <3> QED BY <1>2, <1>4, <1>7, <2>2, <3>1
  <2>3. CASE y = k /\ x # i
    <3>1. x \in DOMAIN m /\ m2[x] = m[x] /\ x # k
      BY <1>3, <1>9, <2>3
    <3>2. ~(i < x)
      BY <1>2, <1>7, <1>9, <2>3, <3>1
    <3>3. x < i
      BY <1>2, <1>7, <2>3, <3>1, <3>2
    <3> QED BY <1>2, <1>7, <2>1, <2>3, <3>1, <3>3
  <2>4. CASE y = k /\ x = i
    BY <1>2, <1>4, <2>4
  <2>5. CASE x # k /\ y # k /\ x = i
    <3>1. y \in DOMAIN m /\ i + m[i].size <= y
      BY <1>2, <1>3, <1>9, <2>5
    <3> QED BY <1>2, <1>4, <1>7, <2>5, <3>1
  <2>6. CASE x # k /\ y # k /\ x # i
    <3>1. x \in DOMAIN m /\ y \in DOMAIN m /\ m2[x] = m[x]
      BY <1>3, <2>6
    <3> QED BY <1>9, <2>1, <3>1
  <2> QED BY <2>2, <2>3, <2>4, <2>5, <2>6
<1>10. Dividing(o, m2)
  <2>1. DOMAIN m2 \subseteq Cells
    BY <1>3, <1>7
  <2>2. m2 \in [DOMAIN m2 -> Slice]
    BY <1>3, <1>6, <1>7 DEF IsFcn
  <2>3. ASSUME NEW x \in DOMAIN m2 PROVE PartOf(o, x, m2[x])
    <3>1. PICK a \in DOMAIN m : /\ m2[x].id = m[a].id /\ m2[x].ref = m[a].ref
                                /\ a <= x /\ x + m2[x].size <= a + m[a].size
      BY <1>8
    <3> DEFINE c == ChunkOf(m[a].id)
    <3>2. /\ c \in DOMAIN o /\ m[a].id \in DOMAIN o[c].slices /\ m[a].id <= a
          /\ a + m[a].size <= m[a].id + o[c].slices[m[a].id] /\ c \in Chunks
      BY <1>1, PartPlace
    <3>3. o[c].slices[m[a].id] \in Int
      <4>1. InOrder(f, c, o[c].slices)
        BY <1>1, <3>2 DEF Slicing
      <4>2. o[c].slices[m[a].id] \in 1 .. FileSize
        BY <3>2, <4>1 DEF InOrder
      <4> QED BY <4>2, Sizes
    <3>4. x \in Int /\ m2[x].size \in Int
      BY <1>2, <1>3, <1>4, <1>7, Sizes
    <3>5. a \in Int /\ m[a].size \in Int /\ m[a].id \in Int
      BY <1>7, Sizes
    <3> HIDE DEF c
    <3>6. m[a].id <= x /\ x + m2[x].size <= m[a].id + o[c].slices[m[a].id]
      BY <3>1, <3>2, <3>3, <3>4, <3>5
    <3> QED BY <3>1, <3>2, <3>6 DEF PartOf, c
  <2>4. ASSUME NEW x \in DOMAIN m2, NEW y \in DOMAIN m2
        PROVE  m2[x].id = m2[y].id <=> m2[x].ref = m2[y].ref
    BY <1>1, <1>8 DEF Dividing
  <2>5. ASSUME NEW c \in DOMAIN o, NEW id \in DOMAIN o[c].slices
        PROVE  \E x \in DOMAIN m2 : m2[x].id = id
    <3>1. PICK x \in DOMAIN m : m[x].id = id
      BY <1>1 DEF Dividing
    <3>2. x \in DOMAIN m2 /\ m2[x].id = m[x].id
      BY <1>3, <1>4
    <3> QED BY <3>1, <3>2
  <2> QED BY <1>9, <2>1, <2>2, <2>3, <2>4, <2>5 DEF Dividing
<1>11. InUse(m2) = InUse(m)
  <2>1. \A x \in DOMAIN m : x \in DOMAIN m2 /\ m2[x].ref = m[x].ref
    BY <1>3, <1>4
  <2>2. \A x \in DOMAIN m2 : \E a \in DOMAIN m : m2[x].ref = m[a].ref
    BY <1>8
  <2> QED BY <2>1, <2>2 DEF InUse
<1>12. Counting(m2, n2)
  <2>1. n \in [InUse(m) -> Nat] /\ \A r \in InUse(m) : n[r] = Cardinality(PartsOf(m, r))
    BY <1>1 DEF Counting
  <2>2. m[i].ref \in InUse(m)
    BY DEF InUse
  <2>3. n2 \in [InUse(m2) -> Nat] /\ n2[m[i].ref] = n[m[i].ref] + 1
        /\ \A r \in InUse(m) \ {m[i].ref} : n2[r] = n[r]
    BY <1>11, <2>1, <2>2
  <2>4. PartsOf(m2, m[i].ref) = PartsOf(m, m[i].ref) \cup {k}
    BY <1>3, <1>4 DEF PartsOf
  <2>5. k \notin PartsOf(m, m[i].ref)
    BY <1>3 DEF PartsOf
  <2>6. IsFiniteSet(PartsOf(m, m[i].ref))
    <3>1. PartsOf(m, m[i].ref) \subseteq Cells
      BY <1>7 DEF PartsOf
    <3> QED BY <3>1, FiniteSets, FS_Subset
  <2>7. Cardinality(PartsOf(m2, m[i].ref)) = Cardinality(PartsOf(m, m[i].ref)) + 1
    BY <2>4, <2>5, <2>6, FS_AddElement
  <2>8. \A r : r # m[i].ref => PartsOf(m2, r) = PartsOf(m, r)
    BY <1>3, <1>4 DEF PartsOf
  <2> HIDE DEF n2
  <2>9. \A r \in InUse(m2) : n2[r] = Cardinality(PartsOf(m2, r))
    BY <1>11, <2>1, <2>2, <2>3, <2>7, <2>8
  <2> QED BY <2>3, <2>9 DEF Counting
<1>13. Missing(f, o, m2, w)
  <2> SUFFICES ASSUME NEW c \in DOMAIN o, NEW x \in CellsOf(c) \ w
               PROVE  \/ \E j \in DOMAIN m2 : x \in j .. j + m2[j].size - 1
                      \/ \E q \in DOMAIN f : x \in f[q].offset .. EndOf(f[q].start) - 1
    BY DEF Missing
  <2>1. \/ \E j \in DOMAIN m : x \in j .. j + m[j].size - 1
        \/ \E q \in DOMAIN f : x \in f[q].offset .. EndOf(f[q].start) - 1
    BY <1>1 DEF Missing
  <2>2. CASE \E j \in DOMAIN m \ {i} : x \in j .. j + m[j].size - 1
    BY <1>3, <2>2
  <2>3. CASE x \in i .. i + m[i].size - 1
    <3>1. CASE x < k
      <4>1. x \in i .. i + m2[i].size - 1
        BY <1>2, <1>4, <2>3, <3>1
      <4> QED BY <1>3, <4>1
    <3>2. CASE ~(x < k)
      <4>1. x \in k .. k + m2[k].size - 1
        BY <1>2, <1>4, <2>3, <3>2
      <4> QED BY <1>3, <4>1
    <3> QED BY <3>1, <3>2
  <2> QED BY <2>1, <2>2, <2>3
<1> QED BY <1>1, <1>10, <1>12, <1>13 DEF Divided, m2

(* What a packet leaves true, whatever it ends.                            *)
Accounted ==
    /\ Divided(feed', open', mChunks', refCnt', fresh')
    /\ OpenIsActive(map', open')
    /\ complete' <=> IsComplete(map')
    /\ flag # "downloading" => complete'
    /\ total' = Counted(map', open')
    /\ map' \in [Chunks -> ChunkState] /\ complete' \in BOOLEAN
    /\ queue' \subseteq Chunks /\ perPeer' \in [Sources -> 0 .. Word - 1]
    /\ \A c \in Chunks : map[c] = "active" /\ map'[c] \in {"checking", "done"} =>
          CellsOf(c) \subseteq fresh'

LEMMA ShrinkAccounts ==
  ASSUME SimpleTypes, OpenIsActive(map, open), complete <=> IsComplete(map),
         flag # "downloading" => complete, total = Counted(map, open),
         NEW m, NEW n, Divided(feed, open, m, n, fresh), NEW k \in DOMAIN m,
         Shrink(m[k], k, 1, Without(m, {k}), n), fresh' = fresh \cup {k}, feed' = feed
  PROVE  Accounted
<1> DEFINE id == m[k].id
           c == ChunkOf(id)
           s == open[c].slices
           m1 == Without(m, {k})
           left == n[m[k].ref] - 1
<1>1. /\ Feeding(feed, open) /\ Slicing(feed, open) /\ Remaining(feed, open)
      /\ Dividing(open, m) /\ Counting(m, n) /\ Missing(feed, open, m, fresh)
  BY DEF Divided
<1>2. /\ c \in Chunks /\ c \in DOMAIN open /\ id \in DOMAIN s /\ m[k].peer \in Sources
      /\ m[k].size \in 1 .. FileSize
  BY <1>1, PartPlace
<1>3. /\ map \in [Chunks -> ChunkState] /\ complete \in BOOLEAN /\ queue \subseteq Chunks
      /\ perPeer \in [Sources -> 0 .. Word - 1]
  BY DEF SimpleTypes
<1>4. map[c] = "active" /\ ~complete /\ flag = "downloading"
  <2>1. map[c] = "active"
    BY <1>2 DEF OpenIsActive
  <2> QED BY <1>2, <2>1 DEF IsComplete
<1>5. CASE m[k].size # 1
  <2>1. mChunks' = Shrunk(m, k)
    BY <1>5 DEF Shrink, Shrunk
  <2>2. refCnt' = [r \in InUse(mChunks') |-> n[r]]
    BY <1>5 DEF Shrink
  <2>3. refCnt' = CountsOver(mChunks', n)
    BY <2>2 DEF CountsOver
  <2>4. UNCHANGED <<map, open, total, complete, queue, perPeer>>
    BY <1>5 DEF Shrink
  <2>5. /\ Dividing(open, Shrunk(m, k)) /\ Counting(Shrunk(m, k), CountsOver(Shrunk(m, k), n))
        /\ Missing(feed, open, Shrunk(m, k), fresh \cup {k})
    BY <1>1, <1>5, PartShrinks
  <2>6. Divided(feed', open', mChunks', refCnt', fresh')
    <3>1. Divided(feed, open, Shrunk(m, k), CountsOver(Shrunk(m, k), n), fresh \cup {k})
      BY <1>1, <2>5 DEF Divided
    <3> QED BY <2>1, <2>3, <2>4, <3>1
  <2> QED BY <1>3, <1>4, <2>4, <2>6 DEF Accounted
<1>6. CASE m[k].size = 1 /\ left # 0
  <2>1. mChunks' = m1
    BY <1>6 DEF Shrink
  <2>2. refCnt' = [r \in InUse(mChunks') |-> IF r = m[k].ref THEN left ELSE n[r]]
    BY <1>6 DEF Shrink
  <2>3. refCnt' = CountsAfter(mChunks', n, m[k].ref, left)
    BY <2>2 DEF CountsAfter
  <2>4. UNCHANGED <<map, open, total, complete, queue, perPeer>>
    BY <1>6 DEF Shrink
  <2>5. /\ Dividing(open, m1) /\ Counting(m1, CountsAfter(m1, n, m[k].ref, left))
        /\ Missing(feed, open, m1, fresh \cup {k})
    BY <1>1, <1>6, PartEnds
  <2>6. Divided(feed', open', mChunks', refCnt', fresh')
    <3>1. Divided(feed, open, m1, CountsAfter(m1, n, m[k].ref, left), fresh \cup {k})
      BY <1>1, <2>5 DEF Divided
    <3> QED BY <2>1, <2>3, <2>4, <3>1
  <2> QED BY <1>3, <1>4, <2>4, <2>6 DEF Accounted
<1>7. CASE m[k].size = 1 /\ left = 0
  <2>1. mChunks' = m1
    BY <1>7 DEF Shrink
  <2>2. refCnt' = [r \in InUse(mChunks') |-> IF r = m[k].ref THEN 0 ELSE n[r]]
    BY <1>7 DEF Shrink
  <2>3. refCnt' = CountsAfter(mChunks', n, m[k].ref, 0)
    BY <2>2 DEF CountsAfter
  <2>4. DataReceived(id) /\ perPeer' = [perPeer EXCEPT ![m[k].peer] = Minus(@, 1)]
    BY <1>7 DEF Shrink
  <2>5. perPeer' \in [Sources -> 0 .. Word - 1]
    <3>1. Minus(perPeer[m[k].peer], 1) \in 0 .. Word - 1
      <4>1. PICK z : z = perPeer[m[k].peer]
        OBVIOUS
      <4>2. z \in Int
        BY <1>2, <1>3, <4>1, Sizes
      <4>3. Minus(z, 1) \in 0 .. Word - 1
        BY <4>2, 1 \in Int, Exact
      <4> QED BY <4>1, <4>3
    <3> QED BY <1>2, <1>3, <2>4, <3>1
  <2>6. /\ s[id] \in 1 .. FileSize /\ open[c].remains - s[id] \in 0 .. FileSize
        /\ open[c].remains \in 0 .. FileSize
    <3>1. Ended(feed, open, m, n, k)
      BY <1>7, SliceEnds
    <3>2. s[id] \in 1 .. FileSize /\ open[c].remains - s[id] \in 0 .. FileSize
      BY <3>1 DEF Ended
    <3> QED BY <1>1, <1>2, <3>2 DEF Slicing
  <2>7. Minus(open[c].remains, s[id]) = open[c].remains - s[id]
    <3> DEFINE a == open[c].remains
               b == s[id]
    <3>1. a \in Int /\ b \in Int /\ a - b \in 0 .. Word - 1
      BY <2>6, Sizes
    <3> HIDE DEF a, b
    <3>2. Minus(a, b) = a - b
      BY <3>1, Exact
    <3> QED BY <3>2 DEF a, b
  <2>8. CASE open[c].remains - s[id] # 0
    <3> DEFINE h == SliceOver(open, id)
    <3>1. open' = [open EXCEPT ![c] = [slices |-> Without(@.slices, {id}),
                                       remains |-> open[c].remains - s[id]]]
      BY <1>2, <2>4, <2>7, <2>8 DEF DataReceived
    <3>2. open' = h
      BY <3>1 DEF SliceOver
    <3>3. UNCHANGED <<map, queue, complete>> /\ total' = Plus(total, s[id])
      BY <1>2, <2>4, <2>7, <2>8 DEF DataReceived
    <3>4. Divided(feed, h, m1, CountsAfter(m1, n, m[k].ref, 0), fresh \cup {k})
      BY <1>7, SliceEndsDivided
    <3>5. Divided(feed', open', mChunks', refCnt', fresh')
      BY <2>1, <2>3, <3>2, <3>4
    <3>6. /\ DOMAIN h = DOMAIN open /\ h[c].remains = open[c].remains - s[id]
          /\ \A d \in DOMAIN open \ {c} : h[d] = open[d]
      <4>1. open = [d \in DOMAIN open |-> open[d]]
        BY <1>1 DEF Slicing, IsFcn
      <4> QED BY <1>2, <4>1 DEF SliceOver
    <3> HIDE DEF h
    <3>7. OpenIsActive(map', open')
      BY <3>2, <3>3, <3>6 DEF OpenIsActive
    <3>8. total' = Counted(map', open')
      <4>1. DOMAIN open \subseteq Chunks
        BY <1>1 DEF Slicing
      <4>2. RemainsOf(h) = RemainsOf(open) - open[c].remains + h[c].remains
        BY <1>2, <2>6, <3>6, <4>1, RemainsChange
      <4> DEFINE a == SizesOf(Kept(map))
                 b == SizesOf(DOMAIN open)
                 r == RemainsOf(open)
                 g == open[c].remains
                 z == s[id]
      <4>3. /\ Counted(map, open) = (a + b - r) % Word
            /\ a \in Nat /\ b \in Nat /\ r \in Nat
        BY <4>1, CountedOpen
      <4>4. Counted(map, h) = (a + b - RemainsOf(h)) % Word
        <5>1. OpenIsActive(map, h) /\ DOMAIN h \subseteq Chunks
          BY <3>2, <3>3, <3>6, <3>7, <4>1
        <5> QED BY <3>6, <5>1, CountedOpen
      <4>5. RemainsOf(h) = r - g + (g - z)
        BY <3>6, <4>2
      <4>6. g \in Int /\ z \in Int
        BY <2>6, Sizes
      <4>7. total' = Plus((a + b - r) % Word, z)
        BY <3>3, <4>3
      <4> HIDE DEF a, b, r, g, z
      <4>8. a + b - r \in Int
        BY <4>3
      <4>9. Plus((a + b - r) % Word, z) = ((a + b - r) + z) % Word
        BY <4>6, <4>8, Wrapped
      <4>10. (a + b - r) + z = a + b - RemainsOf(h)
        BY <4>3, <4>5, <4>6
      <4> QED BY <3>2, <3>3, <4>4, <4>7, <4>9, <4>10
    <3> QED BY <1>3, <1>4, <2>5, <3>3, <3>5, <3>7, <3>8 DEF Accounted
  <2>9. CASE open[c].remains - s[id] = 0
    <3>1. open' = Without(open, {c})
      BY <1>2, <2>4, <2>7, <2>9 DEF DataReceived
    <3>2. map' = [map EXCEPT ![c] = IF FileSize > ChunkSize THEN "checking" ELSE "done"]
      BY <1>2, <2>4, <2>7, <2>9 DEF DataReceived
    <3>3. queue' \in {queue, queue \cup {c}}
      BY <1>2, <2>4, <2>7, <2>9 DEF DataReceived
    <3>4. total' = Counted(map', open') /\ complete' = IsComplete(map')
      BY <1>2, <2>4, <2>7, <2>9 DEF DataReceived
    <3>5. LeftAfter(open, id) = 0
      BY <2>9 DEF LeftAfter
    <3>6. /\ Divided(feed, Without(open, {c}), m1, CountsAfter(m1, n, m[k].ref, 0), fresh \cup {k})
          /\ CellsOf(c) \subseteq fresh \cup {k}
      BY <1>7, <3>5, ChunkEndsDivided
    <3>7. Divided(feed', open', mChunks', refCnt', fresh')
      BY <2>1, <2>3, <3>1, <3>6
    <3>8. DOMAIN open' = DOMAIN open \ {c}
      BY <3>1 DEF Without, Restrict
    <3>9. /\ map' \in [Chunks -> ChunkState] /\ map'[c] \in {"checking", "done"}
          /\ \A d \in Chunks \ {c} : map'[d] = map[d]
      BY <1>2, <1>3, <3>2 DEF ChunkState
    <3>10. OpenIsActive(map', open')
      BY <3>8, <3>9 DEF OpenIsActive
    <3>11. complete' \in BOOLEAN /\ (complete' <=> IsComplete(map'))
      BY <3>4 DEF IsComplete
    <3>12. \A d \in Chunks : map[d] = "active" /\ map'[d] \in {"checking", "done"} =>
             CellsOf(d) \subseteq fresh'
      BY <3>6, <3>9
    <3>13. queue' \subseteq Chunks
      BY <1>2, <1>3, <3>3
    <3> QED BY <1>4, <2>5, <3>4, <3>7, <3>9, <3>10, <3>11, <3>12, <3>13 DEF Accounted
  <2> QED BY <2>8, <2>9
<1> QED BY <1>5, <1>6, <1>7

(* A request of which one packet was answered.                             *)
LEMMA AnsweredType ==
  ASSUME Plain, NEW rs \in Seq(Request), rs # <<>>
  PROVE  /\ Answered(rs) \in Seq(Request) /\ Len(Answered(rs)) <= Len(rs)
         /\ Head(rs).offset \in Cells /\ PacketSize(Head(rs)) = 1
<1>1. PICK r : r = Head(rs)
  OBVIOUS
<1>2. r \in Request /\ Tail(rs) \in Seq(Request) /\ Len(Tail(rs)) = Len(rs) - 1
      /\ Len(rs) \in Nat
  BY <1>1
<1>3. /\ r.offset \in Cells /\ r.offset \in 0 .. FileSize - 1
      /\ r.size \in 1 .. FileSize /\ r.offset + r.size <= FileSize
  <2>1. r.offset \in Cells /\ r.size \in 1 .. FileSize /\ r.offset + r.size <= FileSize
    BY <1>2 DEF Request
  <2> QED BY <2>1, CellFacts
<1>4. PacketSize(r) = 1
  BY <1>3, Sizes DEF PacketSize, Plain
<1>5. CASE r.size = 1
  <2>1. Answered(rs) = Tail(rs)
    BY <1>1, <1>4, <1>5 DEF Answered
  <2> QED BY <1>1, <1>2, <1>3, <1>4, <2>1
<1>6. CASE r.size # 1
  <2>1. PICK e : e = [offset |-> r.offset + 1, size |-> r.size - 1]
    OBVIOUS
  <2>2. Answered(rs) = <<e>> \o Tail(rs)
    BY <1>1, <1>4, <1>6, <2>1 DEF Answered
  <2>3. e \in Request
    <3>1. r.offset + 1 \in Cells /\ r.size - 1 \in 1 .. FileSize
          /\ (r.offset + 1) + (r.size - 1) <= FileSize
      BY <1>3, <1>6, Sizes DEF Cells
    <3> QED BY <2>1, <3>1 DEF Request
  <2>4. <<e>> \o Tail(rs) \in Seq(Request) /\ Len(<<e>> \o Tail(rs)) = 1 + Len(Tail(rs))
    BY <1>2, <2>3
  <2> QED BY <1>1, <1>2, <1>3, <1>4, <2>2, <2>4
<1> QED BY <1>5, <1>6

(* At most one part has cell k inside.                                     *)
LEMMA AroundFacts ==
  ASSUME NEW f, NEW o, Slicing(f, o), Dividing(o, mChunks), NEW k \in Cells,
         Around(k, 1) # {}
  PROVE  LET i == Min(Around(k, 1))
         IN  /\ i \in DOMAIN mChunks /\ i < k /\ k < i + mChunks[i].size
             /\ k \in Int
<1>1. k \in 0 .. FileSize - 1
  BY CellFacts
<1>2. ASSUME NEW i \in Around(k, 1)
      PROVE  /\ i \in DOMAIN mChunks /\ i < k /\ k < i + mChunks[i].size /\ i \in Int
             /\ \A j \in DOMAIN mChunks : i < j => i + mChunks[i].size <= j
  <2>1. i \in DOMAIN mChunks /\ i < k /\ Plus(i, mChunks[i].size) >= k + 1
    BY DEF Around
  <2>2. /\ i \in 0 .. FileSize - 1 /\ mChunks[i].size \in 1 .. FileSize
        /\ i + mChunks[i].size \in 1 .. FileSize
        /\ \A j \in DOMAIN mChunks : i < j => i + mChunks[i].size <= j
    BY <2>1, PartNumbers
  <2>3. PICK z : z = mChunks[i].size
    OBVIOUS
  <2>4. i \in Int /\ z \in Int /\ i + z \in 0 .. Word - 1
    BY <2>2, <2>3, Sizes
  <2>5. Plus(i, z) = i + z
    BY <2>4, Exact
  <2> QED BY <1>1, <2>1, <2>2, <2>3, <2>4, <2>5, Sizes
<1>3. PICK i : i \in Around(k, 1)
  OBVIOUS
<1>4. ASSUME NEW j \in Around(k, 1) PROVE j = i
  <2>1. /\ i \in DOMAIN mChunks /\ i < k /\ k < i + mChunks[i].size /\ i \in Int
        /\ i < j => i + mChunks[i].size <= j
    BY <1>2, <1>3
  <2>2. /\ j \in DOMAIN mChunks /\ j < k /\ k < j + mChunks[j].size /\ j \in Int
        /\ j < i => j + mChunks[j].size <= i
    BY <1>2, <1>3
  <2>3. ~(i < j) /\ ~(j < i)
    <3>1. mChunks[i].size \in Int /\ mChunks[j].size \in Int
      <4>1. mChunks[i].size \in 1 .. FileSize /\ mChunks[j].size \in 1 .. FileSize
        BY <2>1, <2>2, PartNumbers
      <4> QED BY <4>1, Sizes
    <3> QED BY <1>1, <2>1, <2>2, <3>1, Sizes
  <2> QED BY <2>1, <2>2, <2>3
<1>5. Min(Around(k, 1)) = i
  <2>1. i <= i
    BY <1>2, <1>3
  <2> QED BY <1>3, <1>4, <2>1 DEF Min
<1> QED BY <1>1, <1>2, <1>3, <1>5, Sizes

LEMMA NotifyAccounts ==
  ASSUME FileInv, NEW k \in Cells, NotifyReceived(k, 1), fresh' = fresh \cup {k},
         feed' = feed
  PROVE  Accounted
<1>1. /\ SimpleTypes /\ Divided(feed, open, mChunks, refCnt, fresh)
      /\ OpenIsActive(map, open) /\ (complete <=> IsComplete(map))
      /\ (flag # "downloading" => complete) /\ total = Counted(map, open)
  BY DEF FileInv
<1>2. Slicing(feed, open) /\ Dividing(open, mChunks)
  BY <1>1 DEF Divided
<1>3. CASE k \in DOMAIN mChunks /\ Shrink(mChunks[k], k, 1, Without(mChunks, {k}), refCnt)
  BY <1>1, <1>3, ShrinkAccounts
<1>4. CASE k \notin DOMAIN mChunks /\ Around(k, 1) # {} /\ Split(Min(Around(k, 1)), k, 1)
  <2>1. PICK i : i = Min(Around(k, 1))
    OBVIOUS
  <2>2. i \in DOMAIN mChunks /\ i < k /\ k < i + mChunks[i].size /\ k \in Int
    BY <1>2, <1>4, <2>1, AroundFacts
  <2>3. PICK n : n = [refCnt EXCEPT ![mChunks[i].ref] = @ + 1]
    OBVIOUS
  <2>4. PICK m : m = SplitAt(mChunks, i, k)
    OBVIOUS
  <2>5. Divided(feed, open, m, n, fresh)
    BY <1>1, <2>2, <2>3, <2>4, SplitDivided
  <2>6. IsSplit(mChunks, i, k)
    BY <1>2, <2>2, SplitParts
  <2>7. /\ k \in DOMAIN m /\ m[k] = SecondPart(mChunks, i, k)
        /\ Without(m, {k}) = FirstPart(mChunks, i, k)
    BY <2>4, <2>6 DEF IsSplit
  <2>8. Split(i, k, 1)
    BY <1>4, <2>1
  <2>9. Shrink(SecondPart(mChunks, i, k), k, 1, FirstPart(mChunks, i, k), n)
    BY <2>3, <2>8 DEF Split, SecondPart, FirstPart
  <2>10. Shrink(m[k], k, 1, Without(m, {k}), n)
    BY <2>7, <2>9
  <2> QED BY <1>1, <2>5, <2>7, <2>10, ShrinkAccounts
<1>5. CASE UNCHANGED <<map, open, total, complete, queue, mChunks, refCnt, perPeer>>
  <2>1. Missing(feed, open, mChunks, fresh \cup {k})
    BY <1>1 DEF Divided, Missing
  <2>2. Divided(feed', open', mChunks', refCnt', fresh')
    BY <1>1, <1>5, <2>1 DEF Divided
  <2>3. /\ map' \in [Chunks -> ChunkState] /\ complete' \in BOOLEAN
        /\ queue' \subseteq Chunks /\ perPeer' \in [Sources -> 0 .. Word - 1]
    BY <1>1, <1>5 DEF SimpleTypes
  <2> QED BY <1>1, <1>5, <2>2, <2>3 DEF Accounted
<1> QED BY <1>3, <1>4, <1>5 DEF NotifyReceived

(* A packet of a source: the invariant, and a chunk that leaves the        *)
(* download is whole.                                                      *)
LEMMA RecvFileDataKeeps ==
  ASSUME Plain, FileInv, NEW p \in Sources, NEW what \in {"good", "bad"},
         RecvFileData(p, what)
  PROVE  /\ FileInv'
         /\ \A c \in Chunks : map[c] = "active" /\ map'[c] \in {"checking", "done"} =>
               CellsOf(c) \subseteq fresh'
<1>1. SimpleTypes
  BY DEF FileInv
<1>2. PICK r : r = Head(requests[p])
  OBVIOUS
<1>3. requests[p] \in Seq(Request) /\ requests[p] # <<>>
  BY <1>1 DEF SimpleTypes, RecvFileData
<1>4. /\ Answered(requests[p]) \in Seq(Request)
      /\ Len(Answered(requests[p])) <= Len(requests[p])
      /\ r.offset \in Cells /\ PacketSize(r) = 1
  BY <1>2, <1>3, AnsweredType
<1>5. PICK k : k = r.offset
  OBVIOUS
<1>6. k .. k + 1 - 1 = {k}
  <2>1. k \in 0 .. FileSize - 1
    BY <1>4, <1>5, CellFacts
  <2> QED BY <2>1, Sizes
<1>7. /\ data' = [i \in Cells |-> IF i \in {k} THEN what ELSE data[i]]
      /\ fresh' = fresh \cup {k}
      /\ NotifyReceived(k, 1)
      /\ requests' = [requests EXCEPT ![p] = Answered(@)]
      /\ UNCHANGED <<feed, cmap, toAsk, received, flag, hash, sources>>
  BY <1>2, <1>4, <1>5, <1>6 DEF RecvFileData, checks, module
<1>8. Accounted
  BY <1>4, <1>5, <1>7, NotifyAccounts
<1>9. SimpleTypes'
  <2>1. /\ map' \in [Chunks -> ChunkState] /\ complete' \in BOOLEAN
        /\ queue' \subseteq Chunks /\ perPeer' \in [Sources -> 0 .. Word - 1]
    BY <1>8 DEF Accounted
  <2>2. data' \in [Cells -> {None, "good", "bad"}]
    BY <1>1, <1>7 DEF SimpleTypes
  <2>3. fresh' \subseteq Cells
    BY <1>1, <1>4, <1>5, <1>7 DEF SimpleTypes
  <2>4. requests' \in [Sources -> Seq(Request)]
    BY <1>1, <1>4, <1>7 DEF SimpleTypes
  <2>5. \A x \in Sources : Len(requests'[x]) <= MaxRequests
    <3>1. Len(requests[p]) \in Nat /\ Len(Answered(requests[p])) \in Nat
          /\ Len(requests[p]) <= MaxRequests
      BY <1>1, <1>3, <1>4 DEF SimpleTypes
    <3>2. Len(Answered(requests[p])) <= MaxRequests
      BY <1>4, <3>1, Sizes
    <3> QED BY <1>1, <1>7, <3>2 DEF SimpleTypes
  <2>6. /\ toAsk' \subseteq Chunks /\ received' \subseteq Chunks
        /\ cmap' \in [Sources -> SUBSET Chunks]
        /\ flag' \in {"downloading", "checking", "complete", "closed"}
        /\ hash' \in {None, "running", "right", "wrong"}
        /\ sources' \subseteq Sources
    BY <1>1, <1>7 DEF SimpleTypes
  <2> QED BY <2>1, <2>2, <2>3, <2>4, <2>5, <2>6 DEF SimpleTypes
<1>10. FileInv'
  <2>1. flag' = flag
    BY <1>7
  <2> QED BY <1>8, <1>9, <2>1 DEF FileInv, Accounted
<1> QED BY <1>8, <1>10 DEF Accounted

LEMMA LoseKeeps ==
  ASSUME Plain, FileInv, NEW p \in Sources, Lose(p)
  PROVE  FileInv'
<1>1. /\ requests[p] # <<>> /\ requests' = [requests EXCEPT ![p] = Answered(@)]
      /\ UNCHANGED <<map, feed, open, total, complete, queue, cmap, mChunks, refCnt, perPeer,
                     toAsk, received, flag, hash, sources, data, fresh>>
  BY DEF Lose, creator, chunkMap, checks, module, file
<1>2. SimpleTypes
  BY DEF FileInv
<1>3. requests[p] \in Seq(Request) /\ Len(requests[p]) <= MaxRequests
  BY <1>2 DEF SimpleTypes
<1>4. /\ Answered(requests[p]) \in Seq(Request)
      /\ Len(Answered(requests[p])) <= Len(requests[p])
  BY <1>1, <1>3, AnsweredType
<1>5. Len(Answered(requests[p])) <= MaxRequests
  <2>1. Len(requests[p]) \in Nat /\ Len(Answered(requests[p])) \in Nat
    BY <1>3, <1>4
  <2> QED BY <1>3, <1>4, <2>1, Sizes
<1>6. /\ requests' \in [Sources -> Seq(Request)]
      /\ \A x \in Sources : Len(requests'[x]) <= MaxRequests
  BY <1>1, <1>2, <1>4, <1>5 DEF SimpleTypes
<1>7. SimpleTypes'
  BY <1>1, <1>2, <1>6 DEF SimpleTypes
<1> QED BY <1>1, <1>7 DEF FileInv

(***************************************************************************)
(* Chunks that see no data                                                 *)
(***************************************************************************)

(* What part j covers, and what a feed has left to cut, is of one chunk.   *)
LEMMA PartCells ==
  ASSUME NEW f, NEW o, NEW m, Slicing(f, o), Dividing(o, m), NEW j \in DOMAIN m,
         NEW i \in j .. j + m[j].size - 1
  PROVE  ChunkOf(i) = ChunkOf(m[j].id)
<1> DEFINE e == ChunkOf(m[j].id)
<1>1. e \in Chunks /\ j \in Cells /\ ChunkOf(j) = e /\ j + m[j].size <= EndOf(e)
  BY PartPlace
<1>2. /\ j \in CellsOf(e) /\ CellsOf(e) = e * ChunkSize .. EndOf(e) - 1
      /\ e * ChunkSize \in Nat /\ EndOf(e) \in 1 .. FileSize
  BY <1>1, CellFacts, ChunkFacts
<1>3. j \in 0 .. FileSize - 1 /\ m[j].size \in 1 .. FileSize
  BY PartNumbers
<1> HIDE DEF e
<1>4. i \in CellsOf(e)
  BY <1>1, <1>2, <1>3, Sizes
<1> QED BY <1>4 DEF CellsOf, e

LEMMA FeedCells ==
  ASSUME NEW f, NEW o, Feeding(f, o), Slicing(f, o), NEW q \in DOMAIN f,
         NEW i \in f[q].offset .. EndOf(f[q].start) - 1
  PROVE  ChunkOf(i) = f[q].start
<1> DEFINE e == f[q].start
<1>1. /\ e \in Chunks /\ f[q].offset \in 0 .. FileSize - 1 /\ EndOf(e) \in 1 .. FileSize
      /\ e * ChunkSize \in Nat /\ e * ChunkSize <= f[q].offset
  BY FeedPlace
<1>2. CellsOf(e) = e * ChunkSize .. EndOf(e) - 1
  BY <1>1, ChunkFacts
<1>3. i \in CellsOf(e)
  BY <1>1, <1>2, Sizes
<1> QED BY <1>3 DEF CellsOf

FeedsAt(f, c) == {q \in DOMAIN f : f[q].start = c}
PartsIn(o, m, c) == {i \in DOMAIN m : m[i].id \in DOMAIN o[c].slices}
CountsLess(m1, n, m, gone) ==
    [r \in InUse(m1) |-> n[r] - Cardinality({i \in gone : m[i].ref = r})]

LEMMA DropDivided ==
  ASSUME NEW f, NEW o, NEW m, NEW n, NEW w, Divided(f, o, m, n, w), NEW c \in DOMAIN o
  PROVE  Divided(Without(f, FeedsAt(f, c)), Without(o, {c}), Without(m, PartsIn(o, m, c)),
                 CountsLess(Without(m, PartsIn(o, m, c)), n, m, PartsIn(o, m, c)),
                 w \ CellsOf(c))
<1> DEFINE g == Without(f, FeedsAt(f, c))
           h == Without(o, {c})
           gone == PartsIn(o, m, c)
           m1 == Without(m, gone)
           n1 == CountsLess(m1, n, m, gone)
           v == w \ CellsOf(c)
<1>1. /\ Feeding(f, o) /\ Slicing(f, o) /\ Remaining(f, o)
      /\ Dividing(o, m) /\ Counting(m, n) /\ Missing(f, o, m, w)
  BY DEF Divided
<1>2. IsFcn(g) /\ IsFcn(h) /\ IsFcn(m1)
  BY Lessened
<1>3. DOMAIN g = {q \in DOMAIN f : f[q].start # c} /\ \A q \in DOMAIN g : g[q] = f[q]
  BY DEF Without, Restrict, FeedsAt
<1>4. DOMAIN h = DOMAIN o \ {c} /\ \A e \in DOMAIN h : h[e] = o[e]
  BY DEF Without, Restrict
<1>5. DOMAIN m1 = DOMAIN m \ gone /\ \A i \in DOMAIN m1 : m1[i] = m[i]
  BY DEF Without, Restrict
<1>6. c \in Chunks /\ InOrder(f, c, o[c].slices)
  BY <1>1 DEF Slicing
<1>7. \A i \in DOMAIN m : i \in gone <=> ChunkOf(m[i].id) = c
  <2> TAKE i \in DOMAIN m
  <2>1. ASSUME i \in gone PROVE ChunkOf(m[i].id) = c
    <3>1. m[i].id \in CellsOf(c)
      BY <1>6, <2>1 DEF PartsIn, InOrder
    <3> QED BY <3>1 DEF CellsOf
  <2>2. m[i].id \in DOMAIN o[ChunkOf(m[i].id)].slices
    BY <1>1, PartPlace
  <2> QED BY <2>1, <2>2 DEF PartsIn
<1>8. gone \subseteq DOMAIN m
  BY DEF PartsIn
<1> HIDE DEF g, h, m1, gone
<1>9. Feeding(g, h)
  <2>1. DOMAIN g \subseteq Sources
    BY <1>1, <1>3 DEF Feeding
  <2>2. g \in [DOMAIN g -> [start : Chunks, offset : Cells]]
    BY <1>1, <1>2, <1>3 DEF Feeding, IsFcn
  <2> QED BY <1>1, <1>3, <1>4, <2>1, <2>2 DEF Feeding
<1>10. Slicing(g, h)
  <2>1. ASSUME NEW e \in DOMAIN h PROVE InOrder(g, e, h[e].slices)
    <3>1. InOrder(f, e, o[e].slices) /\ h[e] = o[e]
      BY <1>1, <1>4 DEF Slicing
    <3> QED BY <1>3, <3>1 DEF InOrder
  <2> QED BY <1>1, <1>2, <1>4, <2>1 DEF Slicing
<1>11. Remaining(g, h)
  <2> SUFFICES ASSUME NEW e \in DOMAIN h
               PROVE  h[e].remains = SumOver(h[e].slices) + SumOver(Uncut(g, e))
    BY DEF Remaining
  <2>1. o[e].remains = SumOver(o[e].slices) + SumOver(Uncut(f, e)) /\ e # c /\ h[e] = o[e]
    BY <1>1, <1>4 DEF Remaining
  <2>2. {r \in DOMAIN f : f[r].start = e} = {r \in DOMAIN g : g[r].start = e}
    BY <1>3, <2>1
  <2>3. DOMAIN Uncut(f, e) = DOMAIN Uncut(g, e)
        /\ \A q \in DOMAIN Uncut(f, e) : Uncut(f, e)[q] = Uncut(g, e)[q]
    BY <1>3, <2>2 DEF Uncut
  <2>4. SumOver(Uncut(f, e)) = SumOver(Uncut(g, e))
    BY <2>3, SumSame
  <2> QED BY <2>1, <2>4
<1>12. Dividing(h, m1)
  <2>1. DOMAIN m1 \subseteq Cells /\ m1 \in [DOMAIN m1 -> Slice]
    BY <1>1, <1>2, <1>5 DEF Dividing, IsFcn
  <2>2. \A i, j \in DOMAIN m1 : /\ i < j => i + m1[i].size <= j
                                /\ m1[i].id = m1[j].id <=> m1[i].ref = m1[j].ref
    BY <1>1, <1>5 DEF Dividing
  <2>3. ASSUME NEW i \in DOMAIN m1 PROVE PartOf(h, i, m1[i])
    <3>1. m1[i] = m[i] /\ i \in DOMAIN m /\ ChunkOf(m[i].id) # c
      BY <1>5, <1>7
    <3>2. PartOf(o, i, m[i])
      BY <1>1, <3>1 DEF Dividing
    <3> QED BY <1>4, <3>1, <3>2 DEF PartOf
  <2>4. ASSUME NEW e \in DOMAIN h, NEW x \in DOMAIN h[e].slices
        PROVE  \E i \in DOMAIN m1 : m1[i].id = x
    <3>1. e \in DOMAIN o /\ e # c /\ x \in DOMAIN o[e].slices
      BY <1>4
    <3>2. PICK i \in DOMAIN m : m[i].id = x
      BY <1>1, <3>1 DEF Dividing
    <3>3. x \in CellsOf(e)
      <4>1. InOrder(f, e, o[e].slices)
        BY <1>1, <3>1 DEF Slicing
      <4> QED BY <3>1, <4>1 DEF InOrder
    <3>4. i \notin gone
      BY <1>7, <3>1, <3>2, <3>3 DEF CellsOf
    <3> QED BY <1>5, <3>2, <3>4
  <2> QED BY <2>1, <2>2, <2>3, <2>4 DEF Dividing
<1>13. Counting(m1, n1)
  <2>1. n \in [InUse(m) -> Nat] /\ \A r \in InUse(m) : n[r] = Cardinality(PartsOf(m, r))
    BY <1>1 DEF Counting
  <2>2. InUse(m1) \subseteq InUse(m)
    BY <1>5 DEF InUse
  <2>3. ASSUME NEW r \in InUse(m1), NEW i \in DOMAIN m, m[i].ref = r PROVE i \notin gone
    <3>1. PICK j \in DOMAIN m1 : m1[j].ref = r
      BY DEF InUse
    <3>2. j \in DOMAIN m /\ j \notin gone /\ m[j].ref = m[i].ref
      BY <1>5, <2>3, <3>1
    <3>3. m[i].id = m[j].id
      BY <1>1, <3>2 DEF Dividing
    <3> QED BY <1>7, <3>2, <3>3
  <2>4. ASSUME NEW r \in InUse(m1)
        PROVE  n1[r] = Cardinality(PartsOf(m1, r)) /\ n1[r] \in Nat
    <3>1. {i \in gone : m[i].ref = r} = {}
      BY <1>8, <2>3
    <3>2. n1[r] = n[r] - Cardinality({i \in gone : m[i].ref = r})
      BY DEF CountsLess
    <3>3. Cardinality({}) = 0
      BY FS_EmptySet
    <3>4. n[r] \in Nat /\ n[r] = Cardinality(PartsOf(m, r))
      BY <2>1, <2>2
    <3>5. PartsOf(m1, r) = PartsOf(m, r)
      BY <1>5, <2>3 DEF PartsOf
    <3> HIDE DEF n1
    <3>6. n1[r] = n[r] - 0
      BY <3>1, <3>2, <3>3
    <3> QED BY <3>4, <3>5, <3>6
  <2>5. DOMAIN n1 = InUse(m1) /\ IsFcn(n1)
    BY DEF CountsLess, IsFcn
  <2> HIDE DEF n1
  <2>6. n1 \in [InUse(m1) -> Nat]
    BY <2>4, <2>5 DEF IsFcn
  <2> QED BY <2>4, <2>6 DEF Counting
<1>14. Missing(g, h, m1, v)
  <2> SUFFICES ASSUME NEW e \in DOMAIN h, NEW i \in CellsOf(e) \ v
               PROVE  \/ \E j \in DOMAIN m1 : i \in j .. j + m1[j].size - 1
                      \/ \E q \in DOMAIN g : i \in g[q].offset .. EndOf(g[q].start) - 1
    BY DEF Missing
  <2>1. e \in DOMAIN o /\ e # c /\ ChunkOf(i) = e
    BY <1>4 DEF CellsOf
  <2>2. i \notin w
    BY <2>1 DEF CellsOf
  <2>3. \/ \E j \in DOMAIN m : i \in j .. j + m[j].size - 1
        \/ \E q \in DOMAIN f : i \in f[q].offset .. EndOf(f[q].start) - 1
    BY <1>1, <2>1, <2>2 DEF Missing
  <2>4. ASSUME NEW j \in DOMAIN m, i \in j .. j + m[j].size - 1
        PROVE  j \in DOMAIN m1 /\ m1[j] = m[j]
    <3>1. ChunkOf(i) = ChunkOf(m[j].id)
      BY <1>1, <2>4, PartCells
    <3> QED BY <1>5, <1>7, <2>1, <3>1
  <2>5. ASSUME NEW q \in DOMAIN f, i \in f[q].offset .. EndOf(f[q].start) - 1
        PROVE  q \in DOMAIN g /\ g[q] = f[q]
    <3>1. ChunkOf(i) = f[q].start
      BY <1>1, <2>5, FeedCells
    <3> QED BY <1>3, <2>1, <3>1
  <2>6. CASE \E j \in DOMAIN m : i \in j .. j + m[j].size - 1
    <3>1. PICK j \in DOMAIN m : i \in j .. j + m[j].size - 1
      BY <2>6
    <3>2. j \in DOMAIN m1 /\ m1[j] = m[j]
      BY <2>4, <3>1
    <3> QED BY <3>1, <3>2
  <2>7. CASE \E q \in DOMAIN f : i \in f[q].offset .. EndOf(f[q].start) - 1
    <3>1. PICK q \in DOMAIN f : i \in f[q].offset .. EndOf(f[q].start) - 1
      BY <2>7
    <3>2. q \in DOMAIN g /\ g[q] = f[q]
      BY <2>5, <3>1
    <3> QED BY <3>1, <3>2
  <2> QED BY <2>3, <2>6, <2>7
<1> QED BY <1>9, <1>10, <1>11, <1>12, <1>13, <1>14 DEF Divided, g, h, m1, gone

LEMMA RemoveInactiveKeeps ==
  ASSUME FileInv, NEW c \in Chunks, RemoveInactive(c)
  PROVE  FileInv' /\ map[c] = "active" /\ map' = [map EXCEPT ![c] = "outstanding"]
<1> DEFINE gone == PartsIn(open, mChunks, c)
           m1 == Without(mChunks, gone)
<1>1. /\ SimpleTypes /\ Divided(feed, open, mChunks, refCnt, fresh)
      /\ OpenIsActive(map, open) /\ (complete <=> IsComplete(map))
      /\ (flag # "downloading" => complete) /\ total = Counted(map, open)
  BY DEF FileInv
<1>2. Slicing(feed, open) /\ Dividing(open, mChunks)
  BY <1>1 DEF Divided
<1>3. /\ c \in DOMAIN open
      /\ map' = [map EXCEPT ![c] = "outstanding"]
      /\ total' = Minus(total, SizeOfChunk(c) - open[c].remains)
      /\ open' = Without(open, {c}) /\ fresh' = fresh \ CellsOf(c)
      /\ UNCHANGED <<complete, queue, cmap, toAsk, received, flag, hash, sources, requests, data>>
  BY DEF RemoveInactive, checks, module
<1>4. /\ feed' = Without(feed, FeedsAt(feed, c))
      /\ mChunks' = m1
      /\ refCnt' = CountsLess(m1, refCnt, mChunks, gone)
      /\ perPeer' = [p \in Sources |->
                       Minus(perPeer[p], Cardinality({o \in gone : mChunks[o].peer = p}))]
  BY DEF RemoveInactive, FeedWithout, FeedsAt, PartsIn, CountsLess
<1>5. Divided(feed', open', mChunks', refCnt', fresh')
  <2>1. Divided(Without(feed, FeedsAt(feed, c)), Without(open, {c}), m1,
                CountsLess(m1, refCnt, mChunks, gone), fresh \ CellsOf(c))
    BY <1>1, <1>3, DropDivided
  <2> QED BY <1>3, <1>4, <2>1
<1>6. map[c] = "active" /\ ~complete /\ flag = "downloading"
  <2>1. map[c] = "active"
    BY <1>1, <1>3 DEF OpenIsActive
  <2> QED BY <1>1, <2>1 DEF IsComplete
<1>7. map \in [Chunks -> ChunkState] /\ DOMAIN open \subseteq Chunks
  BY <1>1, <1>2 DEF SimpleTypes, Slicing
<1>8. /\ map'[c] = "outstanding" /\ \A d \in Chunks \ {c} : map'[d] = map[d]
      /\ map' \in [Chunks -> ChunkState]
  BY <1>3, <1>7 DEF ChunkState
<1>9. DOMAIN open' = DOMAIN open \ {c} /\ \A d \in DOMAIN open' : open'[d] = open[d]
  BY <1>3 DEF Without, Restrict
<1>10. OpenIsActive(map', open')
  BY <1>1, <1>8, <1>9 DEF OpenIsActive
<1>11. ~IsComplete(map')
  BY <1>8 DEF IsComplete
<1>12. total' = Counted(map', open')
  <2>1. Kept(map') = Kept(map)
    BY <1>6, <1>8 DEF Kept
  <2>2. PICK h : h = open'
    OBVIOUS
  <2>3. /\ DOMAIN h \subseteq Chunks /\ c \notin DOMAIN h /\ DOMAIN open = DOMAIN h \cup {c}
        /\ \A d \in DOMAIN h : open[d].remains = h[d].remains
    BY <1>3, <1>7, <1>9, <2>2
  <2>4. open[c].remains \in 0 .. FileSize
    BY <1>2, <1>3 DEF Slicing
  <2>5. SizesOf(DOMAIN open) = SizesOf(DOMAIN h) + SizeOfChunk(c)
    BY <2>3, SizesPlus
  <2>6. RemainsOf(open) = RemainsOf(h) + open[c].remains
    BY <2>3, <2>4, RemainsPlus
  <2> DEFINE a == SizesOf(Kept(map))
             b == SizesOf(DOMAIN h)
             r == RemainsOf(h)
             S == SizeOfChunk(c)
             R == open[c].remains
  <2>7. Counted(map', h) = (a + b - r) % Word /\ a \in Nat /\ b \in Nat /\ r \in Nat
    <3>1. OpenIsActive(map', h)
      BY <1>10, <2>2
    <3> QED BY <2>1, <2>3, <3>1, CountedOpen
  <2>8. Counted(map, open) = (a + SizesOf(DOMAIN open) - RemainsOf(open)) % Word
    BY <1>1, <1>7, CountedOpen
  <2>9. S \in Int /\ R \in Int
    <3>1. S \in 1 .. FileSize
      BY ChunkFacts
    <3> QED BY <2>4, <3>1, Sizes
  <2>10. total = (a + (b + S) - (r + R)) % Word /\ total' = Minus(total, S - R)
    BY <1>1, <1>3, <2>5, <2>6, <2>8
  <2> HIDE DEF a, b, r, S, R
  <2>11. a + (b + S) - (r + R) \in Int /\ S - R \in Int
    BY <2>7, <2>9
  <2>12. Minus((a + (b + S) - (r + R)) % Word, S - R)
           = ((a + (b + S) - (r + R)) - (S - R)) % Word
    BY <2>11, Wrapped
  <2>13. (a + (b + S) - (r + R)) - (S - R) = a + b - r
    BY <2>7, <2>9
  <2> QED BY <2>2, <2>7, <2>10, <2>12, <2>13
<1>13. perPeer' \in [Sources -> 0 .. Word - 1]
  <2>1. ASSUME NEW p \in Sources
        PROVE  Minus(perPeer[p], Cardinality({o \in gone : mChunks[o].peer = p})) \in 0 .. Word - 1
    <3>1. PICK z : z = Cardinality({o \in gone : mChunks[o].peer = p})
      OBVIOUS
    <3>2. {o \in gone : mChunks[o].peer = p} \subseteq Cells
      BY <1>2 DEF PartsIn, Dividing
    <3>3. z \in Nat
      BY <3>1, <3>2, FiniteSets, FS_Subset, FS_CardinalityType
    <3>4. PICK y : y = perPeer[p]
      OBVIOUS
    <3>5. y \in Int
      BY <1>1, <3>4, Sizes DEF SimpleTypes
    <3>6. z \in Int
      BY <3>3
    <3>7. Minus(y, z) \in 0 .. Word - 1
      BY <3>5, <3>6, Exact
    <3> QED BY <3>1, <3>4, <3>7
  <2> QED BY <1>4, <2>1
<1>14. SimpleTypes'
  <2>1. fresh' \subseteq Cells
    BY <1>1, <1>3 DEF SimpleTypes
  <2> QED BY <1>1, <1>3, <1>8, <1>13, <2>1 DEF SimpleTypes
<1> QED BY <1>1, <1>3, <1>5, <1>6, <1>10, <1>11, <1>12, <1>14 DEF FileInv

(***************************************************************************)
(* Checksums, sources and the check of the file                            *)
(***************************************************************************)

(* The steps that touch neither the slices nor the chunks.                 *)
LEMMA AsideKeeps ==
  ASSUME FileInv, SimpleTypes', flag' # "downloading" => complete,
         UNCHANGED <<map, feed, open, total, complete, mChunks, refCnt, fresh>>
  PROVE  FileInv'
<1>1. map' = map /\ feed' = feed /\ open' = open /\ total' = total /\ complete' = complete
      /\ mChunks' = mChunks /\ refCnt' = refCnt /\ fresh' = fresh
  OBVIOUS
<1> QED BY <1>1 DEF FileInv

LEMMA AsideSteps ==
  ASSUME FileInv,
         \/ \E p \in Sources : SetSourceMap(p) \/ RemoveFileSource(p) \/ AddFileSource(p)
         \/ \E c \in Chunks : RecvChecksum(c)
         \/ AskChecksums \/ FindComplete \/ StartHash \/ HashReceivedData \/ CompleteFile
  PROVE  FileInv' /\ map' = map
<1> USE DEF creator, chunkMap, checks, module, file
<1>1. SimpleTypes /\ (flag # "downloading" => complete)
  BY DEF FileInv
<1>2. ASSUME NEW p \in Sources, SetSourceMap(p) PROVE FileInv' /\ map' = map
  <2>1. Holds[p] \in SUBSET Chunks
    BY Sizes
  <2>2. SimpleTypes'
    BY <1>1, <1>2, <2>1 DEF SimpleTypes, SetSourceMap
  <2> QED BY <1>1, <1>2, <2>2, AsideKeeps DEF SetSourceMap
<1>3. ASSUME NEW p \in Sources, RemoveFileSource(p) PROVE FileInv' /\ map' = map
  <2>1. SimpleTypes'
    BY <1>1, <1>3 DEF SimpleTypes, RemoveFileSource, DefaultMap
  <2> QED BY <1>1, <1>3, <2>1, AsideKeeps DEF RemoveFileSource
<1>4. ASSUME NEW p \in Sources, AddFileSource(p) PROVE FileInv' /\ map' = map
  <2>1. SimpleTypes'
    BY <1>1, <1>4 DEF SimpleTypes, AddFileSource
  <2> QED BY <1>1, <1>4, <2>1, AsideKeeps DEF AddFileSource
<1>5. ASSUME NEW c \in Chunks, RecvChecksum(c) PROVE FileInv' /\ map' = map
  <2>1. SimpleTypes'
    BY <1>1, <1>5 DEF SimpleTypes, RecvChecksum
  <2> QED BY <1>1, <1>5, <2>1, AsideKeeps DEF RecvChecksum
<1>6. ASSUME AskChecksums PROVE FileInv' /\ map' = map
  <2>1. SimpleTypes'
    BY <1>1, <1>6 DEF SimpleTypes, AskChecksums
  <2> QED BY <1>1, <1>6, <2>1, AsideKeeps DEF AskChecksums
<1>7. ASSUME FindComplete PROVE FileInv' /\ map' = map
  <2>1. SimpleTypes'
    BY <1>1, <1>7 DEF SimpleTypes, FindComplete
  <2> QED BY <1>7, <2>1, AsideKeeps DEF FindComplete
<1>8. ASSUME StartHash PROVE FileInv' /\ map' = map
  <2>1. SimpleTypes'
    BY <1>1, <1>8 DEF SimpleTypes, StartHash
  <2> QED BY <1>1, <1>8, <2>1, AsideKeeps DEF StartHash
<1>9. ASSUME HashReceivedData PROVE FileInv' /\ map' = map
  <2>1. SimpleTypes'
    BY <1>1, <1>9 DEF SimpleTypes, HashReceivedData
  <2> QED BY <1>1, <1>9, <2>1, AsideKeeps DEF HashReceivedData
<1>10. ASSUME CompleteFile PROVE FileInv' /\ map' = map
  <2>1. SimpleTypes'
    BY <1>1, <1>10 DEF SimpleTypes, CompleteFile
  <2> QED BY <1>10, <2>1, AsideKeeps DEF CompleteFile
<1> QED BY <1>2, <1>3, <1>4, <1>5, <1>6, <1>7, <1>8, <1>9, <1>10

LEMMA ReAskKeeps ==
  ASSUME FileInv, NEW p \in Sources, NEW i, ReAsk(p, i)
  PROVE  FileInv' /\ map' = map
<1>1. SimpleTypes /\ (flag # "downloading" => complete)
      /\ Divided(feed, open, mChunks, refCnt, fresh)
  BY DEF FileInv
<1>2. /\ i \in DOMAIN mChunks /\ Ask(p, i, mChunks[i].size)
      /\ UNCHANGED <<map, feed, open, total, complete, queue, cmap, mChunks, refCnt, perPeer,
                     toAsk, received, flag, hash, sources, data, fresh>>
  BY DEF ReAsk, creator, chunkMap, checks, module, file
<1>3. i \in Cells /\ mChunks[i].size \in 1 .. FileSize /\ i + mChunks[i].size <= FileSize
  <2>1. Slicing(feed, open) /\ Dividing(open, mChunks)
    BY <1>1 DEF Divided
  <2>2. i \in Cells
    BY <1>2, <2>1 DEF Dividing
  <2>3. mChunks[i].size \in 1 .. FileSize /\ i + mChunks[i].size \in 1 .. FileSize
    BY <1>2, <2>1, PartNumbers
  <2> QED BY <2>2, <2>3, Sizes
<1>4. /\ requests' \in [Sources -> Seq(Request)]
      /\ \A x \in Sources : Len(requests'[x]) <= MaxRequests
  BY <1>1, <1>2, <1>3, AskTypes DEF SimpleTypes
<1>5. SimpleTypes'
  BY <1>1, <1>2, <1>4 DEF SimpleTypes
<1> QED BY <1>1, <1>2, <1>5, AsideKeeps

LEMMA VerifyChunkKeeps ==
  ASSUME FileInv, NEW c \in Chunks, VerifyChunk(c)
  PROVE  FileInv' /\ \A d \in Chunks : map[d] = "active" => map'[d] = "active"
<1>1. /\ SimpleTypes /\ Divided(feed, open, mChunks, refCnt, fresh)
      /\ OpenIsActive(map, open) /\ (complete <=> IsComplete(map))
      /\ (flag # "downloading" => complete) /\ total = Counted(map, open)
  BY DEF FileInv
<1>2. /\ received' = received \ {c}
      /\ UNCHANGED <<feed, open, queue, cmap, mChunks, refCnt, perPeer, toAsk, flag, hash,
                     sources, requests, data, fresh>>
  BY DEF VerifyChunk, module, file
<1>3. map \in [Chunks -> ChunkState] /\ DOMAIN open \subseteq Chunks
  BY <1>1 DEF SimpleTypes, Divided, Slicing
<1>4. received' \subseteq Chunks
  BY <1>1, <1>2 DEF SimpleTypes
<1>5. CASE map[c] # "checking"
  <2>1. UNCHANGED <<map, total, complete>>
    BY <1>5 DEF VerifyChunk
  <2>2. SimpleTypes'
    BY <1>1, <1>2, <1>4, <2>1 DEF SimpleTypes
  <2> QED BY <1>1, <1>2, <2>1, <2>2, AsideKeeps
<1>6. CASE map[c] = "checking"
  <2>1. ~complete /\ flag = "downloading"
    BY <1>1, <1>6 DEF IsComplete
  <2>2. PICK ok \in BOOLEAN : SetChunkCheckingResult(c, ok)
    <3>1. SetChunkCheckingResult(c, \A i \in CellsOf(c) : data[i] = "good")
      BY <1>6 DEF VerifyChunk
    <3> QED BY <3>1
  <2>3. c \notin DOMAIN open
    BY <1>1, <1>6 DEF OpenIsActive
  <2>4. CASE ok
    <3>1. map' = [map EXCEPT ![c] = "done"] /\ complete' = IsComplete(map') /\ total' = total
      BY <2>2, <2>4 DEF SetChunkCheckingResult
    <3>2. /\ map'[c] = "done" /\ \A d \in Chunks \ {c} : map'[d] = map[d]
          /\ map' \in [Chunks -> ChunkState]
      BY <1>3, <3>1 DEF ChunkState
    <3>3. OpenIsActive(map', open')
      BY <1>1, <1>2, <2>3, <3>2 DEF OpenIsActive
    <3>4. Kept(map') = Kept(map)
      BY <1>6, <3>2 DEF Kept
    <3>5. Counted(map', open') = Counted(map, open)
      <4>1. Counted(map, open) = (SizesOf(Kept(map)) + SizesOf(DOMAIN open) - RemainsOf(open)) % Word
        BY <1>1, <1>3, CountedOpen
      <4>2. OpenIsActive(map', open)
        BY <1>2, <3>3
      <4>3. Counted(map', open)
              = (SizesOf(Kept(map')) + SizesOf(DOMAIN open) - RemainsOf(open)) % Word
        BY <1>3, <4>2, CountedOpen
      <4> QED BY <1>2, <3>4, <4>1, <4>3
    <3>6. complete' \in BOOLEAN /\ (complete' <=> IsComplete(map'))
      BY <3>1 DEF IsComplete
    <3>7. SimpleTypes'
      BY <1>1, <1>2, <1>4, <3>2, <3>6 DEF SimpleTypes
    <3>8. Divided(feed', open', mChunks', refCnt', fresh')
      BY <1>1, <1>2
    <3>9. flag' = "downloading"
      BY <1>2, <2>1
    <3> QED BY <1>1, <1>6, <3>1, <3>2, <3>3, <3>5, <3>6, <3>7, <3>8, <3>9 DEF FileInv
  <2>5. CASE ~ok
    <3>1. /\ map' = [map EXCEPT ![c] = "outstanding"] /\ complete' = complete
          /\ total' = Minus(total, SizeOfChunk(c))
      BY <2>2, <2>5 DEF SetChunkCheckingResult
    <3>2. /\ map'[c] = "outstanding" /\ \A d \in Chunks \ {c} : map'[d] = map[d]
          /\ map' \in [Chunks -> ChunkState]
      BY <1>3, <3>1 DEF ChunkState
    <3>3. OpenIsActive(map', open')
      BY <1>1, <1>2, <2>3, <3>2 DEF OpenIsActive
    <3>4. ~IsComplete(map')
      BY <3>2 DEF IsComplete
    <3>5. total' = Counted(map', open')
      <4>1. /\ Kept(map') \subseteq Chunks /\ c \notin Kept(map')
            /\ Kept(map) = Kept(map') \cup {c}
        BY <1>6, <3>2 DEF Kept
      <4> DEFINE a == SizesOf(Kept(map'))
                 b == SizesOf(DOMAIN open)
                 r == RemainsOf(open)
                 S == SizeOfChunk(c)
      <4>2. SizesOf(Kept(map)) = a + S
        <5>1. PICK K : K = Kept(map')
          OBVIOUS
        <5>2. SizesOf(K \cup {c}) = SizesOf(K) + SizeOfChunk(c)
          BY <4>1, <5>1, SizesPlus
        <5> QED BY <4>1, <5>1, <5>2
      <4>3. Counted(map, open) = (SizesOf(Kept(map)) + b - r) % Word
        BY <1>1, <1>3, CountedOpen
      <4>4. Counted(map', open) = (a + b - r) % Word /\ a \in Nat /\ b \in Nat /\ r \in Nat
        <5>1. PICK m2 : m2 = map'
          OBVIOUS
        <5>2. OpenIsActive(m2, open)
          BY <1>2, <3>3, <5>1
        <5>3. /\ Counted(m2, open) = (SizesOf(Kept(m2)) + b - r) % Word
              /\ SizesOf(Kept(m2)) \in Nat /\ b \in Nat /\ r \in Nat
          BY <1>3, <5>2, CountedOpen
        <5> QED BY <5>1, <5>3
      <4>5. S \in Int
        <5>1. S \in 1 .. FileSize
          BY ChunkFacts
        <5> QED BY <5>1, Sizes
      <4>6. total' = Minus(((a + S) + b - r) % Word, S)
        BY <1>1, <3>1, <4>2, <4>3
      <4> HIDE DEF a, b, r, S
      <4>7. (a + S) + b - r \in Int
        BY <4>4, <4>5
      <4>8. Minus(((a + S) + b - r) % Word, S) = (((a + S) + b - r) - S) % Word
        BY <4>5, <4>7, Wrapped
      <4>9. ((a + S) + b - r) - S = a + b - r
        BY <4>4, <4>5
      <4> QED BY <1>2, <4>4, <4>6, <4>8, <4>9
    <3>6. SimpleTypes'
      BY <1>1, <1>2, <1>4, <3>1, <3>2 DEF SimpleTypes
    <3>7. Divided(feed', open', mChunks', refCnt', fresh')
      BY <1>1, <1>2
    <3>8. flag' = "downloading" /\ ~complete'
      BY <1>2, <2>1, <3>1
    <3> QED BY <1>1, <1>6, <3>2, <3>3, <3>4, <3>5, <3>6, <3>7, <3>8 DEF FileInv
  <2> QED BY <2>4, <2>5
<1> QED BY <1>5, <1>6

(* A check of all chunks, while none is downloaded.                        *)
LEMMA CheckAllKeeps ==
  ASSUME FileInv, DOMAIN open = {}, CheckAll, flag' = "downloading",
         hash' \in {None, "running", "right", "wrong"},
         UNCHANGED <<toAsk, received, sources, requests, data, fresh>>
  PROVE  FileInv' /\ \A c \in Chunks : map[c] # "active"
<1>1. /\ SimpleTypes /\ Divided(feed, open, mChunks, refCnt, fresh)
      /\ OpenIsActive(map, open)
  BY DEF FileInv
<1>2. /\ map' = [c \in Chunks |-> "checking"] /\ queue' = Chunks
      /\ total' = Counted(map', open) /\ complete' = FALSE
      /\ UNCHANGED <<feed, open, cmap, mChunks, refCnt, perPeer>>
  BY DEF CheckAll
<1>3. \A c \in Chunks : map[c] # "active" /\ map'[c] = "checking"
  BY <1>1, <1>2 DEF OpenIsActive
<1>4. OpenIsActive(map', open')
  BY <1>2, <1>3 DEF OpenIsActive
<1>5. ~IsComplete(map')
  <2>1. ChunkOf(FileSize - 1) \in Nat
    BY Division, Sizes DEF ChunkOf
  <2>2. 0 \in Chunks
    BY <2>1 DEF Chunks
  <2> QED BY <1>3, <2>2 DEF IsComplete
<1>6. map' \in [Chunks -> ChunkState]
  BY <1>2 DEF ChunkState
<1>7. SimpleTypes'
  BY <1>1, <1>2, <1>6 DEF SimpleTypes
<1>8. Divided(feed', open', mChunks', refCnt', fresh')
  BY <1>1, <1>2
<1>9. total' = Counted(map', open')
  BY <1>2
<1> QED BY <1>2, <1>3, <1>4, <1>5, <1>7, <1>8, <1>9 DEF FileInv

LEMMA CheckFileKeeps ==
  ASSUME FileInv, CheckFile
  PROVE  FileInv' /\ \A c \in Chunks : map[c] = "active" => map'[c] = "active"
<1>1. SimpleTypes /\ (flag # "downloading" => complete) /\ OpenIsActive(map, open)
      /\ Divided(feed, open, mChunks, refCnt, fresh) /\ (complete <=> IsComplete(map))
  BY DEF FileInv
<1>2. /\ flag = "checking" /\ hash' = None
      /\ UNCHANGED <<toAsk, received, sources, requests, data, fresh>>
  BY DEF CheckFile, checks, file
<1>3. complete /\ DOMAIN open = {}
  <2>1. IsComplete(map) /\ DOMAIN open \subseteq Chunks
    BY <1>1, <1>2 DEF Divided, Slicing
  <2> QED BY <1>1, <1>2, <2>1 DEF IsComplete, OpenIsActive
<1>4. CASE hash = "right"
  <2>1. /\ flag' = "complete"
        /\ UNCHANGED <<map, feed, open, total, complete, queue, cmap, mChunks, refCnt, perPeer>>
    BY <1>4 DEF CheckFile, creator, chunkMap
  <2>2. SimpleTypes'
    BY <1>1, <1>2, <2>1 DEF SimpleTypes
  <2> QED BY <1>2, <1>3, <2>1, <2>2, AsideKeeps
<1>5. CASE hash # "right"
  <2>1. flag' = "downloading" /\ CheckAll
    BY <1>5 DEF CheckFile
  <2> QED BY <1>2, <1>3, <2>1, CheckAllKeeps
<1> QED BY <1>4, <1>5

LEMMA ForceCheckKeeps ==
  ASSUME Plain, FileInv, ForceCheck
  PROVE  FileInv' /\ \A c \in Chunks : map[c] = "active" => map'[c] = "active"
<1>1. SimpleTypes
  BY DEF FileInv
<1>2. /\ DOMAIN open = {} /\ flag' = "downloading" /\ CheckAll
      /\ UNCHANGED <<toAsk, received, hash, sources, requests, data, fresh>>
  BY DEF ForceCheck, Plain, checks, file
<1>3. hash' \in {None, "running", "right", "wrong"}
  BY <1>1, <1>2 DEF SimpleTypes
<1> QED BY <1>2, <1>3, CheckAllKeeps

(***************************************************************************)
(* The theorems                                                            *)
(***************************************************************************)

LEMMA InitInv ==
  ASSUME Init
  PROVE  FileInv
<1> USE DEF Init
<1>1. 0 \in Chunks
  <2>1. ChunkOf(FileSize - 1) \in Nat
    BY Division, Sizes DEF ChunkOf
  <2> QED BY <2>1 DEF Chunks
<1>2. SimpleTypes
  <2>1. map \in [Chunks -> ChunkState] /\ complete \in BOOLEAN
    BY DEF ChunkState
  <2>2. cmap \in [Sources -> SUBSET Chunks]
    BY DEF DefaultMap
  <2>3. perPeer \in [Sources -> 0 .. Word - 1]
    BY Sizes
  <2>4. requests \in [Sources -> Seq(Request)]
    BY <<>> \in Seq(Request)
  <2>5. \A p \in Sources : Len(requests[p]) <= MaxRequests
    BY Sizes
  <2>6. data \in [Cells -> {None, "good", "bad"}]
    OBVIOUS
  <2> QED BY <2>1, <2>2, <2>3, <2>4, <2>5, <2>6 DEF SimpleTypes
<1>3. DOMAIN feed = {} /\ DOMAIN open = {} /\ DOMAIN mChunks = {} /\ DOMAIN refCnt = {}
  OBVIOUS
<1>4. Feeding(feed, open)
  BY <1>3 DEF Feeding
<1>5. Slicing(feed, open) /\ Remaining(feed, open)
  BY <1>3 DEF Slicing, Remaining, IsFcn
<1>6. Dividing(open, mChunks) /\ Missing(feed, open, mChunks, fresh)
  BY <1>3 DEF Dividing, Missing
<1>7. Counting(mChunks, refCnt)
  <2>1. InUse(mChunks) = {}
    BY <1>3 DEF InUse
  <2> QED BY <2>1 DEF Counting
<1>8. Divided(feed, open, mChunks, refCnt, fresh)
  BY <1>4, <1>5, <1>6, <1>7 DEF Divided
<1>9. OpenIsActive(map, open)
  BY <1>3 DEF OpenIsActive
<1>10. ~IsComplete(map)
  BY <1>1 DEF IsComplete
<1>11. total = Counted(map, open)
  <2>1. Kept(map) = {} /\ DOMAIN open = {}
    BY <1>3 DEF Kept
  <2>2. SizesOf({}) = 0
    <3> DEFINE e == [c \in {} |-> SizeOfChunk(c)]
    <3>1. DOMAIN e = {}
      OBVIOUS
    <3> HIDE DEF e
    <3>2. SumOver(e) = 0
      BY <3>1, SumEmpty
    <3> QED BY <3>2 DEF SizesOf, e
  <2>3. RemainsOf(open) = 0
    <3> DEFINE e == [c \in DOMAIN open |-> open[c].remains]
    <3>1. DOMAIN e = {}
      BY <1>3
    <3> HIDE DEF e
    <3>2. SumOver(e) = 0
      BY <3>1, SumEmpty
    <3> QED BY <3>2 DEF RemainsOf, e
  <2>4. Counted(map, open) = (SizesOf(Kept(map)) + SizesOf(DOMAIN open) - RemainsOf(open)) % Word
    <3>1. DOMAIN open \subseteq Chunks
      BY <1>3
    <3> QED BY <1>9, <3>1, CountedOpen
  <2>5. Counted(map, open) = (0 + 0 - 0) % Word
    BY <2>1, <2>2, <2>3, <2>4
  <2>6. 0 + 0 - 0 = 0 /\ 0 \in 0 .. Word - 1
    BY Sizes
  <2>7. 0 % Word = 0
    BY <2>6, Remainder, 0 \in Int
  <2> QED BY <2>5, <2>6, <2>7
<1> QED BY <1>2, <1>8, <1>9, <1>10, <1>11 DEF FileInv

(* A chunk that leaves the download in this step is whole.                 *)
LeavesWhole ==
    \A c \in Chunks : map[c] = "active" /\ map'[c] \in {"checking", "done"} =>
        CellsOf(c) \subseteq fresh'

LEMMA NextInv ==
  ASSUME Plain, FileInv, Next
  PROVE  FileInv' /\ LeavesWhole
<1>1. ASSUME NEW p \in Sources, NEW hint \in SizeHints, NewSlice(p, hint)
      PROVE  FileInv' /\ LeavesWhole
  <2>1. map' = map \/ \E c \in Chunks : map' = [map EXCEPT ![c] = "active"]
    <3>1. Available(p) \subseteq Chunks
      BY <1>1 DEF Available, FileInv, SimpleTypes
    <3>2. map' = map \/ \E c \in Available(p) : map' = [map EXCEPT ![c] = "active"]
      BY <1>1 DEF NewSlice
    <3> QED BY <3>1, <3>2
  <2>2. map \in [Chunks -> ChunkState]
    BY DEF FileInv, SimpleTypes
  <2>3. \A c \in Chunks : map[c] = "active" => map'[c] = "active"
    BY <2>1, <2>2
  <2> QED BY <1>1, <2>3, NewSliceKeeps DEF LeavesWhole
<1>2. ASSUME NEW p \in Sources, NEW i \in 0 .. FileSize, ReAsk(p, i)
      PROVE  FileInv' /\ LeavesWhole
  BY <1>2, ReAskKeeps DEF LeavesWhole
<1>3. ASSUME NEW p \in Sources, NEW what \in {"good", "bad"}, RecvFileData(p, what)
      PROVE  FileInv' /\ LeavesWhole
  BY <1>3, RecvFileDataKeeps DEF LeavesWhole
<1>4. ASSUME NEW p \in Sources, Lose(p)
      PROVE  FileInv' /\ LeavesWhole
  <2>1. map' = map
    BY <1>4 DEF Lose, creator, chunkMap
  <2> QED BY <1>4, <2>1, LoseKeeps DEF LeavesWhole
<1>5. ASSUME NEW c \in Chunks, RemoveInactive(c)
      PROVE  FileInv' /\ LeavesWhole
  <2>1. FileInv' /\ map[c] = "active" /\ map' = [map EXCEPT ![c] = "outstanding"]
    BY <1>5, RemoveInactiveKeeps
  <2>2. map \in [Chunks -> ChunkState]
    BY DEF FileInv, SimpleTypes
  <2> QED BY <2>1, <2>2 DEF LeavesWhole
<1>6. ASSUME NEW c \in Chunks, VerifyChunk(c)
      PROVE  FileInv' /\ LeavesWhole
  BY <1>6, VerifyChunkKeeps DEF LeavesWhole
<1>7. ASSUME CheckFile PROVE FileInv' /\ LeavesWhole
  BY <1>7, CheckFileKeeps DEF LeavesWhole
<1>8. ASSUME ForceCheck PROVE FileInv' /\ LeavesWhole
  BY <1>8, ForceCheckKeeps DEF LeavesWhole
<1>9. ASSUME \/ \E p \in Sources : SetSourceMap(p) \/ RemoveFileSource(p) \/ AddFileSource(p)
             \/ \E c \in Chunks : RecvChecksum(c)
             \/ AskChecksums \/ FindComplete \/ StartHash \/ HashReceivedData \/ CompleteFile
      PROVE  FileInv' /\ LeavesWhole
  <2>1. FileInv' /\ map' = map
    BY <1>9, AsideSteps
  <2> QED BY <2>1 DEF LeavesWhole
<1> QED BY <1>1, <1>2, <1>3, <1>4, <1>5, <1>6, <1>7, <1>8, <1>9 DEF Next

LEMMA StutterInv ==
  ASSUME FileInv, UNCHANGED vars
  PROVE  FileInv' /\ LeavesWhole
<1>1. UNCHANGED <<map, feed, open, total, complete, queue, cmap, mChunks, refCnt, perPeer,
                  toAsk, received, flag, hash, sources, requests, data, fresh>>
  BY DEF vars, creator, chunkMap, checks, module, file
<1>2. SimpleTypes'
  BY <1>1 DEF FileInv, SimpleTypes
<1>3. flag' # "downloading" => complete
  BY <1>1 DEF FileInv
<1> QED BY <1>1, <1>2, <1>3, AsideKeeps DEF LeavesWhole

(* The feeds, the slices, their parts and the counters always divide what  *)
(* is downloaded.                                                          *)
THEOREM FileInvariant == Plain => (Spec => []FileInv)
<1> SUFFICES ASSUME Plain PROVE Spec => []FileInv
  OBVIOUS
<1>1. Init => FileInv
  BY InitInv
<1>2. FileInv /\ [Next]_vars => FileInv'
  BY NextInv, StutterInv
<1> QED BY <1>1, <1>2, PTL DEF Spec

(* Every variable keeps its type, and the counters stay words.             *)
THEOREM FileTypes == Plain => (Spec => []TypeOK)
<1> SUFFICES ASSUME Plain PROVE Spec => []TypeOK
  OBVIOUS
<1>1. ASSUME FileInv PROVE TypeOK
  <2>1. SimpleTypes /\ Feeding(feed, open) /\ Slicing(feed, open) /\ Dividing(open, mChunks)
        /\ Counting(mChunks, refCnt) /\ total = Counted(map, open)
    BY <1>1 DEF FileInv, Divided
  <2>2. \A q \in DOMAIN feed : q \in Sources /\ feed[q].start \in Chunks
                               /\ feed[q].offset \in CellsOf(feed[q].start)
    BY <2>1, FeedPlace
  <2>3. DOMAIN open \subseteq Chunks
    BY <2>1 DEF Slicing
  <2>4. \A c \in DOMAIN open : open[c].remains \in 0 .. Word - 1
    <3>1. \A c \in DOMAIN open : open[c].remains \in 0 .. FileSize
      BY <2>1 DEF Slicing
    <3> QED BY <3>1, Sizes
  <2>5. total \in 0 .. Word - 1
    BY <2>1, <2>3, CountedType
  <2>6. \A o \in DOMAIN mChunks :
           mChunks[o] \in [size : 0 .. Word - 1, id : Cells,
                           ref : 0 .. FileSize + 1, peer : Sources]
    <3> TAKE o \in DOMAIN mChunks
    <3>1. mChunks[o] \in Slice
      BY <2>1 DEF Dividing
    <3>2. 1 .. FileSize \subseteq 0 .. Word - 1
      BY Sizes
    <3> QED BY <3>1, <3>2 DEF Slice
  <2>7. refCnt \in [InUse(mChunks) -> Nat]
    BY <2>1 DEF Counting
  <2> QED BY <2>1, <2>2, <2>3, <2>4, <2>5, <2>6, <2>7 DEF TypeOK, SimpleTypes
<1> QED BY <1>1, FileInvariant, PTL

(* No part of a chunk is forgotten while it is downloaded.                 *)
THEOREM FileNothingForgotten == Plain => (Spec => []MissingIsAsked)
<1> SUFFICES ASSUME Plain PROVE Spec => []MissingIsAsked
  OBVIOUS
<1>1. ASSUME FileInv PROVE MissingIsAsked
  <2>1. Missing(feed, open, mChunks, fresh) /\ OpenIsActive(map, open)
    BY <1>1 DEF FileInv, Divided
  <2> QED BY <2>1 DEF MissingIsAsked, Missing, OpenIsActive, InSlice, ToBeCut
<1> QED BY <1>1, FileInvariant, PTL

(* What remains of a chunk is its open slices and what is left to cut, and *)
(* every open slice has parts still to come.                               *)
THEOREM FileRemains == Plain => (Spec => []RemainsIsOpen)
<1> SUFFICES ASSUME Plain PROVE Spec => []RemainsIsOpen
  OBVIOUS
<1>1. ASSUME FileInv PROVE RemainsIsOpen
  <2>1. Remaining(feed, open) /\ Dividing(open, mChunks) /\ OpenIsActive(map, open)
    BY <1>1 DEF FileInv, Divided
  <2>2. \A c \in DOMAIN open :
           /\ open[c].remains = SumOver(open[c].slices)
                + SumOver([q \in {r \in DOMAIN feed : feed[r].start = c} |->
                             EndOf(c) - feed[q].offset])
           /\ \A id \in DOMAIN open[c].slices : \E o \in DOMAIN mChunks : mChunks[o].id = id
    BY <2>1 DEF Remaining, Uncut, Dividing
  <2> QED BY <2>1, <2>2 DEF RemainsIsOpen, OpenIsActive
<1> QED BY <1>1, FileInvariant, PTL

(* The progress and the end of a download are those of its chunks.         *)
THEOREM FileTotal == Plain => (Spec => []TotalIsHeld)
<1> SUFFICES ASSUME Plain PROVE Spec => []TotalIsHeld
  OBVIOUS
<1>1. FileInv => TotalIsHeld
  BY DEF FileInv, TotalIsHeld
<1> QED BY <1>1, FileInvariant, PTL

(* A chunk leaves the download only when every byte of it has been         *)
(* written since it was taken up.                                          *)
THEOREM FileFinishedIsWhole == Plain => (Spec => FinishedIsWhole)
<1> SUFFICES ASSUME Plain PROVE Spec => FinishedIsWhole
  OBVIOUS
<1>1. FileInv /\ [Next]_vars => [LeavesWhole]_vars
  BY NextInv, StutterInv
<1>2. FinishedIsWhole <=> [][LeavesWhole]_vars
  BY DEF FinishedIsWhole, LeavesWhole
<1> QED BY <1>1, <1>2, FileInvariant, PTL DEF Spec
=============================================================================
