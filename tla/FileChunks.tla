----------------------------- MODULE FileChunks -----------------------------
(***************************************************************************)
(* How RetroShare downloads one file from several sources: ftFileCreator    *)
(* (ft/ftfilecreator.cc) with its ChunkMap (ft/ftchunkmap.cc), driven by   *)
(* the tick of ftTransferModule, the packets of the sources and the        *)
(* checksums that ftDataMultiplex asks them for.                           *)
(*                                                                         *)
(* A file is a number of cells, cut into chunks; a cell stands for what is *)
(* received at once or not at all.  A chunk that is being downloaded is    *)
(* cut into slices, each asked of a source.  A source answers its requests *)
(* in order, in packets; packets get lost, sources leave, a slice that     *)
(* does not come is asked again of any source, and so data may come twice. *)
(* Time is left out: whatever has a time-out may time out at any moment.   *)
(***************************************************************************)
EXTENDS Integers, FiniteSets, Sequences, Functions, FiniteSetsExt

CONSTANTS
    Sources,        \* the peers that have the file, or some of it
    Holds,          \* Holds[p]: the chunks that source p has
    Leaving,        \* sources that may leave and come back
    FileSize,       \* in cells
    ChunkSize,      \* CHUNKMAP_FIXED_CHUNK_SIZE
    SizeHints,      \* sizes of slice the transfer rate may call for
    Packet,         \* MAX_FT_CHUNK
    MaxPerPeer,     \* MAX_FTCHUNKS_PER_PEER
    Assume,         \* assume_availability: a source holds all until it says
    CheckWhileOpen, \* the user forces checks while chunks are downloaded
    Word,           \* the counters wrap at this number
    MaxRequests,    \* bound: requests a source has still to answer
    MaxLost,        \* bound: packets that are lost
    MaxBad,         \* bound: packets with damaged data
    MaxIdle,        \* bound: chunks that see no data for an hour
    MaxLeaves,      \* bound: times a source leaves
    MaxForced       \* bound: checks forced by the user

Cells == 0 .. FileSize - 1
ChunkOf(offset) == offset \div ChunkSize
Chunks == 0 .. ChunkOf(FileSize - 1)
CellsOf(c) == {i \in Cells : ChunkOf(i) = c}
SizeOfChunk(c) == IF c = ChunkOf(FileSize - 1) THEN FileSize - c * ChunkSize
                  ELSE ChunkSize

ASSUME FileChunksAssumption ==
    /\ IsFiniteSet(Sources)
    /\ {FileSize, ChunkSize, Packet, MaxPerPeer, Word} \subseteq Nat \ {0}
    /\ SizeHints \subseteq Nat \ {0}
    /\ Holds \in [Sources -> SUBSET Chunks]
    /\ Leaving \subseteq Sources
    /\ {Assume, CheckWhileOpen} \subseteq BOOLEAN
    /\ FileSize < Word /\ MaxPerPeer < Word
    /\ {MaxRequests, MaxLost, MaxBad, MaxIdle, MaxLeaves, MaxForced}
         \subseteq Nat

VARIABLES
    map,        \* map[c]: the state of chunk c, of ChunkState
    feed,       \* _active_chunks_feed: what a source has left to cut slices of
    open,       \* _slices_to_download of the chunks being downloaded
    total,      \* _total_downloaded
    complete,   \* _file_is_complete
    queue,      \* _chunks_checking_queue
    cmap,       \* _peers_chunks_availability: the chunks a source should have
    mChunks,    \* the slices that are asked, by the offset they have come to
    refCnt,     \* the counters that the parts of a slice share
    perPeer,    \* mChunksPerPeer: slices asked of each source
    toAsk,      \* chunks whose checksums are to be asked
    received,   \* chunks whose checksums have come
    flag,       \* mFlag of the transfer module
    hash,       \* the hash thread, and what it found
    sources,    \* mFileSources
    requests,   \* requests[p]: what source p has been asked, in order
    data,       \* data[i]: what the partial file holds at cell i
    fresh,      \* cells written since their chunk was last taken up
    budget      \* events still allowed by the bounds

chunkMap == <<map, feed, open, total, complete, queue, cmap>>
creator == <<chunkMap, mChunks, refCnt, perPeer>>
checks == <<toAsk, received>>
module == <<flag, hash, sources>>
file == <<data, fresh>>
vars == <<creator, checks, module, requests, file, budget>>

ChunkState == {"outstanding", "active", "checking", "done"}
None == "none"

(* Mutant of Minus: counters do not wrap.                                  *)
MinusUnbounded(a, b) == a - b

Minus(a, b) == (a - b) % Word
Plus(a, b) == (a + b) % Word

Spend(what) == /\ budget[what] > 0
               /\ budget' = [budget EXCEPT ![what] = @ - 1]

(***************************************************************************)
(* The chunk map                                                           *)
(***************************************************************************)

Without(f, S) == Restrict(f, DOMAIN f \ S)
With(f, x, v) == [y \in DOMAIN f \cup {x} |-> IF y = x THEN v ELSE f[y]]
EndOf(c) == c * ChunkSize + SizeOfChunk(c)

(* The sum of the values of f, each of them a word: how many numbers lie   *)
(* below them.                                                             *)
SumOver(f) == Cardinality({p \in (DOMAIN f) \X (1 .. Word) : p[2] <= f[p[1]]})

(* What getSourceChunksInfo assumes of a source that has not said.         *)
DefaultMap == IF Assume THEN Chunks ELSE {}

IsComplete(m) == \A c \in Chunks : m[c] = "done"

(* What updateTotalDownloaded counts.                                      *)
Counted(m, o) ==
    LET kept == {c \in Chunks : m[c] \in {"checking", "done"}}
        ofKept == SumOver([c \in kept |-> SizeOfChunk(c)])
        twice == {c \in DOMAIN o : m[c] = "checking"}
        ofTwice == SumOver([c \in twice |-> SizeOfChunk(c)])
        ofOpen == SumOver([c \in DOMAIN o |-> SizeOfChunk(c)])
                    - SumOver([c \in DOMAIN o |-> o[c].remains])
    IN  (ofKept + ofOpen - ofTwice) % Word

DataReceived(id) ==
    LET c == ChunkOf(id)
        known == c \in DOMAIN open /\ id \in DOMAIN open[c].slices
        size == open[c].slices[id]
        left == Minus(open[c].remains, size)
        last == known /\ left = 0
    IN  /\ open' = IF last THEN Without(open, {c})
                   ELSE IF ~known THEN open
                   ELSE [open EXCEPT ![c] =
                           [slices |-> Without(@.slices, {id}), remains |-> left]]
        /\ map' = IF ~last THEN map
                  ELSE [map EXCEPT ![c] =
                          IF FileSize > ChunkSize THEN "checking" ELSE "done"]
        /\ queue' = IF last /\ FileSize > ChunkSize THEN queue \cup {c} ELSE queue
        /\ total' = IF last THEN Counted(map', open')
                    ELSE IF known THEN Plus(total, size) ELSE total
        /\ complete' = IF last THEN IsComplete(map') ELSE complete

(* ForceCheck of the chunk map: every chunk is to be checked, those that   *)
(* are being downloaded included.                                          *)
CheckAll ==
    /\ map' = [c \in Chunks |-> "checking"]
    /\ queue' = Chunks
    /\ total' = Counted(map', open)
    /\ complete' = FALSE
    /\ UNCHANGED <<feed, open, cmap, mChunks, refCnt, perPeer>>

(***************************************************************************)
(* Slices: getMissingChunk                                                 *)
(***************************************************************************)

(* The source is sent a request.  It answers for a chunk that it has, and  *)
(* within the file; it refuses a size that no slice should have.           *)
Ask(p, offset, size) ==
    LET answers == /\ size <= ChunkSize
                   /\ offset < FileSize /\ ChunkOf(offset) \in Holds[p]
    IN  /\ Len(requests[p]) < MaxRequests
        /\ requests' = IF answers
                       THEN [requests EXCEPT ![p] =
                               Append(@, [offset |-> offset, size |-> size])]
                       ELSE requests

Ticked(p) == flag = "downloading" /\ p \in sources

(* Mutant of HasData: a slice is asked again only of the source it was     *)
(* first asked of.                                                         *)
HasDataOwn(p, offset) == ChunkOf(offset) \in cmap[p] /\ mChunks[offset].peer = p

(* hasData of a source, for the slice at offset.                           *)
HasData(p, offset) == ChunkOf(offset) \in cmap[p] \/ cmap[p] = Chunks

(* A slice is older than CHUNK_MAX_AGE: it is asked again, of any source   *)
(* that has the chunk it lies in.                                          *)
ReAsk(p, offset) ==
    /\ Ticked(p)
    /\ offset \in DOMAIN mChunks
    /\ HasData(p, offset)
    /\ Ask(p, offset, mChunks[offset].size)
    /\ UNCHANGED <<creator, checks, module, file, budget>>

InUse(m) == {m[o].ref : o \in DOMAIN m}
FreeRef == CHOOSE r \in 0 .. FileSize + 1 : r \notin InUse(mChunks)

NoDownload == [slices |-> [x \in {} |-> 0], remains |-> 0]
Download(o, c) == IF c \in DOMAIN o THEN o[c] ELSE NoDownload

(* Cuts the next slice from what source q has left to cut, for source p.   *)
GetSlice(p, q, hint, f, o) ==
    LET c == f[q].start
        offset == f[q].offset
        size == IF hint < EndOf(c) - offset THEN hint ELSE EndOf(c) - offset
        slice == [size |-> size, id |-> offset, ref |-> FreeRef, peer |-> p]
    IN  /\ feed' = IF offset + size = EndOf(c) THEN Without(f, {q})
                   ELSE [f EXCEPT ![q].offset = @ + size]
        /\ open' = With(o, c, [Download(o, c) EXCEPT !.slices = With(@, offset, size)])
        /\ mChunks' = With(mChunks, offset, slice)
        /\ refCnt' = [r \in InUse(mChunks') |->
                        IF r = FreeRef THEN 1 ELSE refCnt[r]]
        /\ perPeer' = [perPeer EXCEPT ![p] = @ + 1]
        /\ Ask(p, offset, size)

(* The chunks being cut that source p has, too.                            *)
Common(p) == {q \in DOMAIN feed : feed[q].start \in cmap[p]}

(* The last slice of q's chunk is not much larger than p would take.       *)
Sharable(q, hint) ==
    LET slices == Download(open, feed[q].start).slices
    IN  /\ slices # NoDownload.slices
        /\ slices[Max(DOMAIN slices)] * 7 <= hint * 10

(* Looking at a chunk being cut makes an entry for it if it has none.      *)
Seen(S) == [c \in DOMAIN open \cup {feed[q].start : q \in S} |-> Download(open, c)]

Available(p) == {c \in cmap[p] : map[c] = "outstanding"}

(* A new slice: of the chunk source p is at, or of one it shares with      *)
(* another, or of a new one, or of any that is being cut.                  *)
NewSlice(p, hint) ==
    LET common == Common(p)
        sharable == {q \in common : Sharable(q, hint)}
    IN  /\ Ticked(p)
        /\ perPeer[p] < MaxPerPeer
        /\ \/ /\ p \in DOMAIN feed
              /\ GetSlice(p, p, hint, feed, open)
              /\ UNCHANGED <<map, fresh>>
           \/ /\ p \notin DOMAIN feed
              /\ \E q \in sharable, S \in SUBSET (common \ sharable) :
                    GetSlice(p, q, hint, feed, Seen(S))
              /\ UNCHANGED <<map, fresh>>
           \/ /\ p \notin DOMAIN feed /\ sharable = {}
              /\ \E c \in Available(p) :
                    LET mine == [start |-> c, offset |-> c * ChunkSize]
                        taken == [Download(Seen(common), c) EXCEPT
                                    !.remains = SizeOfChunk(c)]
                    IN  /\ map' = [map EXCEPT ![c] = "active"]
                        /\ GetSlice(p, p, hint, With(feed, p, mine),
                                    With(Seen(common), c, taken))
                        /\ fresh' = fresh \ CellsOf(c)
           \/ /\ p \notin DOMAIN feed /\ sharable = {} /\ Available(p) = {}
              /\ \E q \in common : GetSlice(p, q, hint, feed, Seen(common))
              /\ UNCHANGED <<map, fresh>>
        /\ UNCHANGED <<total, complete, queue, cmap, checks, module, data, budget>>

(***************************************************************************)
(* Packets: addFileData and locked_notifyReceived                          *)
(***************************************************************************)

(* Of slice, which begins where the packet does, size cells have come.     *)
Shrink(slice, offset, size, others, counts) ==
    LET last == slice.size = size
        left == counts[slice.ref] - 1
        done == last /\ left = 0
    IN  /\ mChunks' = IF last THEN others
                      ELSE With(others, offset + size,
                                [slice EXCEPT !.size = Minus(@, size)])
        /\ refCnt' = [r \in InUse(mChunks') |->
                        IF last /\ r = slice.ref THEN left ELSE counts[r]]
        /\ IF done
           THEN /\ DataReceived(slice.id)
                /\ perPeer' = [perPeer EXCEPT ![slice.peer] = Minus(@, 1)]
           ELSE UNCHANGED <<map, open, total, complete, queue, perPeer>>

(* The slices a packet lies in, not at the beginning.                      *)
Around(offset, size) ==
    {o \in DOMAIN mChunks :
        o < offset /\ Plus(o, mChunks[o].size) >= offset + size}

(* Mutants of Split: the first part is dropped, ...                        *)
SplitForgets(o, offset, size) ==
    LET first == offset - o
        slice == mChunks[o]
    IN  Shrink([slice EXCEPT !.size = @ - first], offset, size,
               Without(mChunks, {o}), refCnt)

(* ... the counter of the parts is not incremented.                        *)
SplitUncounted(o, offset, size) ==
    LET first == offset - o
        slice == mChunks[o]
    IN  Shrink([slice EXCEPT !.size = @ - first], offset, size,
               [mChunks EXCEPT ![o].size = first], refCnt)

(* A packet was lost before this one: the slice is split, the first part   *)
(* is still to come.                                                       *)
Split(o, offset, size) ==
    LET first == offset - o
        slice == mChunks[o]
    IN  Shrink([slice EXCEPT !.size = @ - first], offset, size,
               [mChunks EXCEPT ![o].size = first],
               [refCnt EXCEPT ![slice.ref] = @ + 1])

NotifyReceived(offset, size) ==
    \/ /\ offset \in DOMAIN mChunks
       /\ Shrink(mChunks[offset], offset, size, Without(mChunks, {offset}), refCnt)
    \/ /\ offset \notin DOMAIN mChunks /\ Around(offset, size) # {}
       /\ Split(Min(Around(offset, size)), offset, size)
    \/ /\ offset \notin DOMAIN mChunks /\ Around(offset, size) = {}
       /\ UNCHANGED <<map, open, total, complete, queue, mChunks, refCnt, perPeer>>

(* What is left to answer of a request after its next packet.              *)
PacketSize(r) == IF r.size < Packet THEN r.size ELSE Packet
Answered(rs) ==
    LET r == Head(rs)
        k == PacketSize(r)
    IN  IF k = r.size THEN Tail(rs)
        ELSE <<[offset |-> r.offset + k, size |-> r.size - k]>> \o Tail(rs)

(* A packet of source p is written to the file, then accounted for: also   *)
(* one that nobody waits for any more.                                     *)
RecvFileData(p, what) ==
    /\ p \in sources /\ requests[p] # <<>>
    /\ IF what = "bad" THEN Spend("bad") ELSE UNCHANGED budget
    /\ LET r == Head(requests[p])
           cells == r.offset .. r.offset + PacketSize(r) - 1
       IN  /\ data' = [i \in Cells |-> IF i \in cells THEN what ELSE data[i]]
           /\ fresh' = fresh \cup cells
           /\ NotifyReceived(r.offset, PacketSize(r))
    /\ requests' = [requests EXCEPT ![p] = Answered(@)]
    /\ UNCHANGED <<feed, cmap, checks, module>>

(* A packet is lost on the way, or cannot be written.                      *)
Lose(p) ==
    /\ requests[p] # <<>>
    /\ IF p \in sources THEN Spend("lost") ELSE UNCHANGED budget
    /\ requests' = [requests EXCEPT ![p] = Answered(@)]
    /\ UNCHANGED <<creator, checks, module, file>>

(***************************************************************************)
(* Chunks that see no data, checksums, sources                             *)
(***************************************************************************)

(* Mutant of FeedWithout: the sources go on cutting the chunk.             *)
FeedAnyway(c) == feed

FeedWithout(c) == Without(feed, {q \in DOMAIN feed : feed[q].start = c})

(* removeInactiveChunks: no slice of c was asked or finished for an hour.  *)
(* The slices are dropped, the chunk is to be downloaded from the start.   *)
RemoveInactive(c) ==
    LET gone == {o \in DOMAIN mChunks : mChunks[o].id \in DOMAIN open[c].slices}
        goneOf(p) == Cardinality({o \in gone : mChunks[o].peer = p})
        goneRef(r) == Cardinality({o \in gone : mChunks[o].ref = r})
    IN  /\ c \in DOMAIN open
        /\ Spend("idle")
        /\ map' = [map EXCEPT ![c] = "outstanding"]
        /\ total' = Minus(total, SizeOfChunk(c) - open[c].remains)
        /\ feed' = FeedWithout(c)
        /\ open' = Without(open, {c})
        /\ mChunks' = Without(mChunks, gone)
        /\ refCnt' = [r \in InUse(mChunks') |-> refCnt[r] - goneRef(r)]
        /\ perPeer' = [p \in Sources |-> Minus(perPeer[p], goneOf(p))]
        /\ fresh' = fresh \ CellsOf(c)
        /\ UNCHANGED <<complete, queue, cmap, checks, module, requests, data>>

(* The tick asks for the checksums of the chunks that were downloaded, or  *)
(* finds that there is nothing left to download.                           *)
AskChecksums ==
    /\ flag = "downloading" /\ ~complete /\ queue # {}
    /\ toAsk' = toAsk \cup queue
    /\ queue' = {}
    /\ UNCHANGED <<map, feed, open, total, complete, cmap, mChunks, refCnt,
                   perPeer, received, module, requests, file, budget>>

FindComplete ==
    /\ flag = "downloading" /\ complete
    /\ flag' = "checking"
    /\ UNCHANGED <<creator, checks, hash, sources, requests, file, budget>>

(* A source that has the chunk answers with its checksum; until one does   *)
(* they are asked in turn.                                                 *)
RecvChecksum(c) ==
    /\ c \in toAsk
    /\ \E p \in sources : c \in cmap[p] /\ c \in Holds[p]
    /\ toAsk' = toAsk \ {c}
    /\ received' = received \cup {c}
    /\ UNCHANGED <<creator, module, requests, file, budget>>

(* Mutant of SetChunkCheckingResult: a failed chunk goes on being checked. *)
SetChunkCheckingResultStuck(c, ok) ==
    IF ok
    THEN /\ map' = [map EXCEPT ![c] = "done"]
         /\ complete' = IsComplete(map')
         /\ UNCHANGED total
    ELSE /\ total' = Minus(total, SizeOfChunk(c))
         /\ UNCHANGED <<map, complete>>

SetChunkCheckingResult(c, ok) ==
    IF ok
    THEN /\ map' = [map EXCEPT ![c] = "done"]
         /\ complete' = IsComplete(map')
         /\ UNCHANGED total
    ELSE /\ map' = [map EXCEPT ![c] = "outstanding"]
         /\ total' = Minus(total, SizeOfChunk(c))
         /\ UNCHANGED complete

VerifyChunk(c) ==
    /\ c \in received
    /\ received' = received \ {c}
    /\ IF map[c] = "checking"
       THEN SetChunkCheckingResult(c, \A i \in CellsOf(c) : data[i] = "good")
       ELSE UNCHANGED <<map, total, complete>>
    /\ UNCHANGED <<feed, open, queue, cmap, mChunks, refCnt, perPeer, toAsk,
                   module, requests, file, budget>>

SetSourceMap(p) ==
    /\ cmap[p] # Holds[p]
    /\ cmap' = [cmap EXCEPT ![p] = Holds[p]]
    /\ UNCHANGED <<map, feed, open, total, complete, queue, mChunks, refCnt,
                   perPeer, checks, module, requests, file, budget>>

RemoveFileSource(p) ==
    /\ p \in Leaving /\ p \in sources
    /\ Spend("leave")
    /\ sources' = sources \ {p}
    /\ cmap' = [cmap EXCEPT ![p] = DefaultMap]
    /\ UNCHANGED <<map, feed, open, total, complete, queue, mChunks, refCnt,
                   perPeer, checks, flag, hash, requests, file>>

AddFileSource(p) ==
    /\ p \notin sources
    /\ sources' = sources \cup {p}
    /\ UNCHANGED <<creator, checks, flag, hash, requests, file, budget>>

(***************************************************************************)
(* The check of the whole file                                             *)
(***************************************************************************)

(* checkFile starts a thread, and acts on what the thread has found.       *)
StartHash ==
    /\ flag = "checking" /\ hash = None
    /\ hash' = "running"
    /\ UNCHANGED <<creator, checks, flag, sources, requests, file, budget>>

HashReceivedData ==
    /\ hash = "running"
    /\ hash' = IF complete /\ \A i \in Cells : data[i] = "good"
               THEN "right" ELSE "wrong"
    /\ UNCHANGED <<creator, checks, flag, sources, requests, file, budget>>

CheckFile ==
    /\ flag = "checking" /\ hash \in {"right", "wrong"}
    /\ hash' = None
    /\ IF hash = "right"
       THEN flag' = "complete" /\ UNCHANGED creator
       ELSE flag' = "downloading" /\ CheckAll
    /\ UNCHANGED <<checks, sources, requests, file, budget>>

(* RS_FILE_CTRL_FORCE_CHECK.  It does not stop a hash thread.              *)
ForceCheck ==
    /\ CheckWhileOpen \/ DOMAIN open = {}
    /\ Spend("forced")
    /\ flag' = "downloading"
    /\ CheckAll
    /\ UNCHANGED <<checks, hash, sources, requests, file>>

(* The controller takes the file out of the hands of the sources.          *)
CompleteFile ==
    /\ flag = "complete" /\ complete
    /\ flag' = "closed"
    /\ UNCHANGED <<creator, checks, hash, sources, requests, file, budget>>

(***************************************************************************)
(* Specification                                                           *)
(***************************************************************************)

Init ==
    /\ map = [c \in Chunks |-> "outstanding"]
    /\ feed = [p \in {} |-> 0]
    /\ open = [c \in {} |-> NoDownload]
    /\ total = 0
    /\ complete = FALSE
    /\ queue = {}
    /\ cmap = [p \in Sources |-> DefaultMap]
    /\ mChunks = [o \in {} |-> 0]
    /\ refCnt = [r \in {} |-> 0]
    /\ perPeer = [p \in Sources |-> 0]
    /\ toAsk = {} /\ received = {}
    /\ flag = "downloading"
    /\ hash = None
    /\ sources = Sources
    /\ requests = [p \in Sources |-> <<>>]
    /\ data = [i \in Cells |-> None]
    /\ fresh = {}
    /\ budget = [lost |-> MaxLost, bad |-> MaxBad, idle |-> MaxIdle,
                 leave |-> MaxLeaves, forced |-> MaxForced]

Next ==
    /\ flag # "closed"
    /\ \/ \E p \in Sources, h \in SizeHints : NewSlice(p, h)
       \/ \E p \in Sources, o \in 0 .. FileSize : ReAsk(p, o)
       \/ \E p \in Sources, what \in {"good", "bad"} : RecvFileData(p, what)
       \/ \E p \in Sources : Lose(p)
       \/ \E c \in Chunks : RemoveInactive(c)
       \/ \E c \in Chunks : RecvChecksum(c) \/ VerifyChunk(c)
       \/ \E p \in Sources : SetSourceMap(p) \/ RemoveFileSource(p) \/ AddFileSource(p)
       \/ AskChecksums \/ FindComplete \/ StartHash \/ HashReceivedData
       \/ CheckFile \/ ForceCheck \/ CompleteFile

(* The transfer module is ticked every second and asks every source in     *)
(* turn; a slice that does not come is older than CHUNK_MAX_AGE in the     *)
(* end; packets that are not lost arrive; checksums are asked again until  *)
(* they come, and the threads that verify, hash and complete run.  Nothing *)
(* is assumed of the sources that may leave.                               *)
Running(A) == flag # "closed" /\ A

Fairness ==
    /\ \A p \in Sources \ Leaving :
          /\ WF_vars(Running(\E h \in SizeHints : NewSlice(p, h)))
          /\ WF_vars(Running(RecvFileData(p, "good") \/ Lose(p)))
          /\ WF_vars(Running(SetSourceMap(p)))
          /\ \A o \in Cells : SF_vars(Running(ReAsk(p, o)))
    /\ \A c \in Chunks : WF_vars(Running(RecvChecksum(c) \/ VerifyChunk(c)))
    /\ WF_vars(Running(AskChecksums \/ FindComplete \/ CheckFile \/ CompleteFile))
    /\ WF_vars(Running(StartHash \/ HashReceivedData))

Spec == Init /\ [][Next]_vars /\ Fairness

(***************************************************************************)
(* Properties                                                              *)
(***************************************************************************)

(* Every variable has its type; counters stay within their words.          *)
TypeOK ==
    /\ map \in [Chunks -> ChunkState]
    /\ \A q \in DOMAIN feed : q \in Sources /\ feed[q].start \in Chunks
                              /\ feed[q].offset \in CellsOf(feed[q].start)
    /\ DOMAIN open \subseteq Chunks
    /\ \A c \in DOMAIN open : open[c].remains \in 0 .. Word - 1
    /\ total \in 0 .. Word - 1
    /\ complete \in BOOLEAN
    /\ queue \subseteq Chunks /\ toAsk \subseteq Chunks /\ received \subseteq Chunks
    /\ cmap \in [Sources -> SUBSET Chunks]
    /\ \A o \in DOMAIN mChunks :
          mChunks[o] \in [size : 0 .. Word - 1, id : Cells,
                          ref : 0 .. FileSize + 1, peer : Sources]
    /\ refCnt \in [InUse(mChunks) -> Nat]
    /\ perPeer \in [Sources -> 0 .. Word - 1]
    /\ flag \in {"downloading", "checking", "complete", "closed"}
    /\ hash \in {None, "running", "right", "wrong"}
    /\ sources \subseteq Sources
    /\ \A p \in Sources : Len(requests[p]) <= MaxRequests
    /\ data \in [Cells -> {None, "good", "bad"}]
    /\ fresh \subseteq Cells

InSlice(i) == \E o \in DOMAIN mChunks : i \in o .. o + mChunks[o].size - 1
ToBeCut(i) == \E q \in DOMAIN feed : i \in feed[q].offset .. EndOf(feed[q].start) - 1

(* No part of a chunk is forgotten while it is downloaded: what has not    *)
(* been written since the chunk was taken up is in a slice that somebody   *)
(* was asked for, and may be asked again, or in what is left to be cut,    *)
(* however packets were lost, repeated or came in the middle of a slice.   *)
MissingIsAsked ==
    \A c \in Chunks : map[c] = "active" =>
        \A i \in CellsOf(c) \ fresh : InSlice(i) \/ ToBeCut(i)

(* A chunk leaves the download to be checked, or to be done, only when     *)
(* every byte of it has been written since it was taken up: the count of   *)
(* what remains, kept by slice, agrees with the packets that came.         *)
FinishedIsWhole ==
    [][\A c \in Chunks :
          map[c] = "active" /\ map'[c] \in {"checking", "done"} =>
              CellsOf(c) \subseteq fresh']_vars

(* What remains of a chunk is the slices of it that are open and what is   *)
(* left to cut, and every open slice has parts still to come: the count    *)
(* reaches zero, and a chunk in download has somebody to finish it.        *)
RemainsIsOpen ==
    \A c \in Chunks :
        /\ map[c] = "active" <=> c \in DOMAIN open
        /\ c \in DOMAIN open =>
             LET uncut == {q \in DOMAIN feed : feed[q].start = c}
             IN  /\ open[c].remains = SumOver(open[c].slices)
                      + SumOver([q \in uncut |-> EndOf(c) - feed[q].offset])
                 /\ \A id \in DOMAIN open[c].slices :
                       \E o \in DOMAIN mChunks : mChunks[o].id = id

(* The progress and the end of a download, which are counted as packets,   *)
(* checksums and time-outs come, are those of the state of its chunks.     *)
TotalIsHeld ==
    /\ total = Counted(map, open)
    /\ complete <=> IsComplete(map)

(* A download ends as long as a source stays that has the file and is not  *)
(* taken to be busy for ever, whatever other sources were asked for before *)
(* they left, and whatever was lost or damaged on the way.                 *)
FileCompletes ==
    (\A p \in Sources \ Leaving : []<>(perPeer[p] < MaxPerPeer))
        => <>(flag = "closed")
=============================================================================
