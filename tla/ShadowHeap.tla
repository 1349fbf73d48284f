----------------------------- MODULE ShadowHeap -----------------------------
(***************************************************************************)
(* Where the hooks poison memory: chunks of bytes in an arena of a CMA,    *)
(* the records of their extents and the shadow of every granule.           *)
(* CmaRuntime has the races between hooks and takes a chunk for a unit;    *)
(* here one thread calls them, with the quarantine on, and the questions   *)
(* are about neighbours, sizes and alignment.                              *)
(*                                                                         *)
(* The CMA is external.  It gives a call any free bytes of its arena that  *)
(* suffice, at an address as unaligned as it likes, and may resize a chunk *)
(* where it is, move it (to bytes that overlap the old ones, too) or fail. *)
(* Granule number Granules is the redzone ASan has put behind the arena.   *)
(***************************************************************************)
EXTENDS ChunkGeometry, FiniteSets

CONSTANTS
  Granules,   \* in the arena
  Starts,     \* addresses the CMA gives out
  Requests,   \* [num, gran], what the program asks for
  ZeroBytes,  \* what the CMA takes for a request of no bytes
  NoChunk

Record == [start : Nat, size : Nat, rz : Nat,
           status : {"ALLOCATED", "DEALLOCATED", "IN_REALLOC"}]

ASSUME HeapAssumption ==
  /\ Granules \in Nat \ {0} /\ Starts \subseteq Nat \ {0}
  /\ Requests \subseteq [num : Nat, gran : Nat]
  /\ ZeroBytes \in Nat /\ ZeroBytes >= ShadowGranularity
  /\ \A r \in Requests : Fits(r.num, r.gran) /\ ~IsCoarse(r.num, r.gran)
  /\ NoChunk \notin Record

VARIABLES
  chunk,   \* what the CMA has not got back
  map,     \* granule -> the record tlt_get finds, or NoChunk
  shadow,  \* granule -> its shadow byte
  listed   \* the chunks on the allocation list

vars == <<chunk, map, shadow, listed>>

HeapLeftRedzone == 250  \* kAsanHeapLeftRedzoneMagic
HeapFree == 253         \* kAsanHeapFreeMagic

Arena == 0 .. Granules - 1
ShadowByte == 0 .. 7 \cup {HeapLeftRedzone, HeapFree}

(* The program has a chunk (live), its REALLOC is under way (resizing, and *)
(* leaving once the CMA has freed it in there), or failed; it is in the    *)
(* quarantine, poisoned (held) or not (bare).                              *)
ChunkState == {"live", "resizing", "leaving", "failed", "held", "bare"}
Chunk == [start : Nat, num : Nat, gran : Nat, state : ChunkState]

User(c) == RealSize(c.num, c.gran)
Taken(c) == IF IsEmpty(c.num, c.gran) THEN ZeroBytes
            ELSE ExtendSize(c.num, c.gran) * c.gran
End(c) == ChunkEnd(c.start, c.num, c.gran)
GranulesOf(c) == c.start \div ShadowGranularity
                   .. End(c) \div ShadowGranularity - 1

ChunkAt(p, r) == [start |-> p, num |-> r.num, gran |-> r.gran, state |-> "live"]
As(c, state) == [c EXCEPT !.state = state]

(* The CMA may put c beside the chunks of a set. *)
FitsBeside(c, others) ==
  /\ c.start + Taken(c) <= Granules * ShadowGranularity
  /\ \A d \in others : \/ c.start + Taken(c) <= d.start
                       \/ d.start + Taken(d) <= c.start

(* No REALLOC is under way. *)
Idle == \A c \in chunk : c.state \notin {"resizing", "leaving"}

ProgramsOwn == {c \in chunk : c.state \in {"live", "failed"}}

-----------------------------------------------------------------------------
(* tlt_get, and the status of a record, shared by its granules. *)
RecordAt(p) == map[p \div ShadowGranularity]

SetStatus(m, rec, status) ==
  [g \in Arena |-> IF rec # NoChunk /\ m[g] = rec
                   THEN [rec EXCEPT !.status = status] ELSE m[g]]

(* PoisonShadow: bytes from an address get a value. *)
Poison(sh, from, bytes, value) ==
  [g \in 0 .. Granules |->
     IF /\ from \div ShadowGranularity <= g
        /\ g < (from + bytes) \div ShadowGranularity
     THEN value ELSE sh[g]]

(* Mutant: the redzone is left out. *)
PoisonSizeUser(p, rec) == rec.size + (p - RoundDownTo(p))

(* The bytes a hook poisons for the record it has found at an address. *)
PoisonSize(p, rec) == rec.rz + rec.size + (p - RoundDownTo(p))

PoisonRecord(sh, p, rec, value) ==
  Poison(sh, RoundDownTo(p), PoisonSize(p, rec), value)

(* Mutant: the mask has a bit too many. *)
PartOfUnmasked(bytes) == bytes % (2 * ShadowGranularity)

(* The value of a granule of which some bytes are the program's. *)
PartOf(bytes) == bytes % ShadowGranularity

-----------------------------------------------------------------------------
(* allocateCMAChunkImpl for a new chunk: its record, ... *)
Insert(m, c) ==
  LET rz == RZSize(c.start, c.num, c.gran)
      new == [start |-> c.start, size |-> User(c), rz |-> rz,
              status |-> "ALLOCATED"]
  IN  IF IsCoarse(c.num, c.gran) THEN m
      ELSE [g \in Arena |-> IF g \in GranulesOf(c) THEN new ELSE m[g]]

(* Mutant: the redzone is poisoned before the memory is opened. *)
PoisonNewInReverse(sh, c) ==
  LET beg == RoundDownTo(c.start)
      all == End(c) - beg
  IN  Poison(Poison(sh, beg, all, HeapLeftRedzone),
             beg, all + ShadowGranularity, 0)

(* ... its shadow, ... *)
PoisonNew(sh, c) ==
  LET beg == RoundDownTo(c.start)
      user == User(c) + (c.start - beg)
      bulk == RoundDownTo(user)
      all == End(c) - beg
      open == Poison(sh, beg, all + ShadowGranularity, 0)
      closed == Poison(open, beg, all, HeapLeftRedzone)
      bulkOpen == Poison(closed, beg, bulk, 0)
  IN  IF IsEmpty(c.num, c.gran) THEN Poison(sh, beg, ShadowGranularity, 0)
      ELSE IF IsCoarse(c.num, c.gran) THEN sh
      ELSE IF user = bulk THEN bulkOpen
      ELSE [bulkOpen EXCEPT ![(beg + bulk) \div ShadowGranularity] = PartOf(user)]

(* ... and its place on the list. *)
List(c) == IF IsEmpty(c.num, c.gran) \/ IsCoarse(c.num, c.gran) THEN listed
           ELSE listed \cup {c.start}

(* pushAndPopFromQuarantine: c goes in, and perhaps another chunk comes    *)
(* out and back to the CMA.                                                *)
Quarantine(c, state) ==
  \E out \in {{}} \cup {{d} : d \in {e \in chunk : e.state \in {"held", "bare"}}} :
    chunk' = (chunk \ (out \cup {c})) \cup {As(c, state)}

-----------------------------------------------------------------------------
Init ==
  /\ chunk = {} /\ listed = {}
  /\ map = [g \in Arena |-> NoChunk]
  /\ shadow = [g \in 0 .. Granules |-> IF g = Granules THEN HeapLeftRedzone ELSE 0]

AllocateCMAChunk(p, r) ==
  LET c == ChunkAt(p, r)
  IN  /\ Idle
      /\ FitsBeside(c, chunk)
      /\ chunk' = chunk \cup {c}
      /\ map' = Insert(map, c)
      /\ shadow' = PoisonNew(shadow, c)
      /\ listed' = List(c)

(* The first critical section of releaseCMAChunk: a chunk whose REALLOC    *)
(* has failed is taken for one that is freed within it.                    *)
ReleaseInRealloc(c) ==
  /\ Idle /\ c.state = "failed"
  /\ RecordAt(c.start).status = "IN_REALLOC"
  /\ map' = SetStatus(map, RecordAt(c.start), "DEALLOCATED")
  /\ Quarantine(c, "bare")
  /\ UNCHANGED <<shadow, listed>>

(* The second one.  It leaves a chunk without a record of its own alone    *)
(* and reports one that is DEALLOCATED; Attributed says that no chunk of   *)
(* the program is such.                                                    *)
ReleaseCMAChunk(c) ==
  LET rec == RecordAt(c.start)
  IN  /\ Idle /\ c \in ProgramsOwn
      /\ rec # NoChunk /\ rec.start = c.start /\ rec.status = "ALLOCATED"
      /\ map' = SetStatus(map, rec, "DEALLOCATED")
      /\ shadow' = PoisonRecord(shadow, c.start, rec, HeapFree)
      /\ Quarantine(c, "held")
      /\ UNCHANGED listed

(* The chunk is opened as a whole for the CMA. *)
ReallocateCMAChunkStart(c) ==
  LET rec == RecordAt(c.start)
  IN  /\ Idle /\ c \in ProgramsOwn
      /\ chunk' = (chunk \ {c}) \cup {As(c, "resizing")}
      /\ rec # NoChunk /\ rec.status # "DEALLOCATED"
      /\ shadow' = PoisonRecord(shadow, c.start, rec, 0)
      /\ map' = SetStatus(map, rec, "IN_REALLOC")
      /\ UNCHANGED listed

(* The CMA frees the old chunk with its FREE function. *)
FreeWithinRealloc(c) ==
  /\ c.state = "resizing"
  /\ RecordAt(c.start) # NoChunk /\ RecordAt(c.start).status = "IN_REALLOC"
  /\ map' = SetStatus(map, RecordAt(c.start), "DEALLOCATED")
  /\ Quarantine(c, "leaving")
  /\ UNCHANGED <<shadow, listed>>

(* reallocateCMAChunkEnd: nothing is done for a null pointer, ...          *)
ReallocateEndFailed(c) ==
  /\ c.state = "resizing"
  /\ chunk' = (chunk \ {c}) \cup {As(c, "failed")}
  /\ UNCHANGED <<map, shadow, listed>>

(* ... nor for a size of zero, where the CMA has freed the chunk.          *)
ReallocateEndNothing(c) ==
  /\ \/ c.state = "resizing" /\ chunk' = chunk \ {c}
     \/ c.state = "leaving" /\ chunk' = (chunk \ {c}) \cup {As(c, "bare")}
  /\ UNCHANGED <<map, shadow, listed>>

(* The chunk keeps its address. *)
ReallocateEndInPlace(c, r) ==
  LET d == ChunkAt(c.start, r)
  IN  /\ c.state = "resizing"
      /\ FitsBeside(d, chunk \ {c})
      /\ chunk' = (chunk \ {c}) \cup {d}
      /\ map' = Insert(SetStatus(map, RecordAt(c.start), "DEALLOCATED"), d)
      /\ shadow' = PoisonNew(shadow, d)
      /\ listed' = List(d)

(* Mutant: the old chunk is poisoned when the new one has its shadow. *)
MoveShadowLate(sh, c, rec, d) ==
  PoisonRecord(PoisonNew(sh, d), c.start, rec, HeapFree)

(* The old chunk is poisoned, then the new one gets its shadow. *)
MoveShadow(sh, c, rec, d) ==
  PoisonNew(PoisonRecord(sh, c.start, rec, HeapFree), d)

(* The chunk moves.  The CMA has its old bytes back already, unless it     *)
(* freed them with its FREE function.                                      *)
ReallocateEndMoved(c, p, r) ==
  LET d == ChunkAt(p, r)
      rec == RecordAt(c.start)
  IN  /\ c.state \in {"resizing", "leaving"} /\ p # c.start
      /\ FitsBeside(d, {e \in chunk : e # c \/ c.state = "leaving"})
      /\ chunk' = (chunk \ {c}) \cup {d}
                    \cup (IF c.state = "leaving" THEN {As(c, "held")} ELSE {})
      /\ map' = Insert(SetStatus(map, rec, "DEALLOCATED"), d)
      /\ shadow' = MoveShadow(shadow, c, rec, d)
      /\ listed' = List(d)

(* The records CLEAR acts on: those of listed chunks that are in use. *)
Cleared == {RecordAt(p) : p \in {q \in listed :
              /\ RecordAt(q) # NoChunk /\ RecordAt(q).start = q
              /\ RecordAt(q).status # "DEALLOCATED"}}

PoisonedBy(rec) ==
  rec.start \div ShadowGranularity
    .. (rec.start + rec.size + rec.rz) \div ShadowGranularity - 1

(* The CMA takes all its chunks back. *)
ClearCMAChunks ==
  /\ Idle
  /\ chunk' = {} /\ listed' = {}
  /\ map' = [g \in Arena |-> IF map[g] \in Cleared
                             THEN [map[g] EXCEPT !.status = "DEALLOCATED"]
                             ELSE map[g]]
  /\ shadow' = [g \in 0 .. Granules |->
                  IF \E rec \in Cleared : g \in PoisonedBy(rec)
                  THEN HeapFree ELSE shadow[g]]

(* The CMA unmaps its arena, of which it has got everything back. *)
FlushMmapRange ==
  /\ chunk = {}
  /\ shadow' = Poison(shadow, 0, Granules * ShadowGranularity, 0)
  /\ UNCHANGED <<chunk, map, listed>>

(* A REALLOC for no bytes ends with ReallocateEndNothing. *)
Next ==
  \/ \E p \in Starts, r \in Requests : AllocateCMAChunk(p, r)
  \/ \E c \in chunk : \/ ReleaseInRealloc(c) \/ ReleaseCMAChunk(c)
                      \/ ReallocateCMAChunkStart(c) \/ FreeWithinRealloc(c)
                      \/ ReallocateEndFailed(c) \/ ReallocateEndNothing(c)
  \/ \E c \in chunk, r \in {q \in Requests : q.num # 0} :
       \/ ReallocateEndInPlace(c, r)
       \/ \E p \in Starts : ReallocateEndMoved(c, p, r)
  \/ ClearCMAChunks \/ FlushMmapRange

Spec == Init /\ [][Next]_vars

-----------------------------------------------------------------------------
Accessible(b) ==
  LET value == shadow[b \div ShadowGranularity]
  IN  \/ value = 0
      \/ value < ShadowGranularity /\ b % ShadowGranularity < value

(* __asan_getCMAChunkSize behind the CMA's size getter.                    *)
GetCMAChunkSize(p, originalSize) ==
  IF p = 0 \/ RecordAt(p) = NoChunk \/ RecordAt(p).status # "ALLOCATED"
  THEN originalSize ELSE RecordAt(p).size

(* Every variable has its type; a shadow byte is one ASan knows.           *)
TypeOK ==
  /\ chunk \subseteq Chunk
  /\ map \in [Arena -> Record \cup {NoChunk}]
  /\ shadow \in [0 .. Granules -> ShadowByte]
  /\ listed \subseteq Starts

(* A record ends with a granule, whatever the request and its address: so  *)
(* no hook, however late it finds the record, fails the CHECK of           *)
(* tlt_insert or those of PoisonShadow, and it poisons the granules the    *)
(* record was inserted over and no others.                                 *)
ChecksPass ==
  \A g \in Arena : map[g] # NoChunk =>
    /\ (map[g].start + map[g].size + map[g].rz) % ShadowGranularity = 0
    /\ g \in PoisonedBy(map[g])

(* A chunk the program has keeps its record at each of its granules,       *)
(* whatever became of the neighbours and of older chunks there: a report   *)
(* about any of its bytes names it, its FREE is not taken for a second     *)
(* one, and the hook of the size getter answers what the program asked for *)
(* and not what the CMA was asked for.                                     *)
Attributed ==
  \A c \in ProgramsOwn :
    /\ \A g \in GranulesOf(c) :
         /\ map[g] # NoChunk /\ map[g] = RecordAt(c.start)
         /\ map[g].start = c.start /\ map[g].size = User(c)
         /\ map[g].status = IF c.state = "live" THEN "ALLOCATED" ELSE "IN_REALLOC"
    /\ c.state = "live"
         => GetCMAChunkSize(c.start, Taken(c)) = User(c)

(* The program can access every byte it has asked for: what the hooks      *)
(* poison for neighbours, for chunks that move over their own old bytes    *)
(* and for chunks freed there before never reaches a chunk in use.         *)
LiveAccessible ==
  \A c \in chunk : c.state \in {"live", "resizing", "failed"} =>
    \A b \in c.start .. c.start + User(c) - 1 : Accessible(b)

(* Behind a chunk in use an overflow hits poison up to the end of the      *)
(* redzone.  Only the granule the chunk starts in is open to the chunk     *)
(* before it, whose hook clears one granule beyond its end.                *)
RedzoneKept ==
  \A c \in chunk : c.state = "live" /\ ~IsEmpty(c.num, c.gran) =>
    \A b \in c.start + User(c) .. End(c) - 1 :
      b \div ShadowGranularity = c.start \div ShadowGranularity \/ ~Accessible(b)

(* A freed chunk in the quarantine stays poisoned with its redzone, but    *)
(* for its first granule, whatever is allocated around it.                 *)
FreedKept ==
  \A c \in chunk : c.state = "held" =>
    \A g \in GranulesOf(c) \ {c.start \div ShadowGranularity} :
      shadow[g] = HeapFree
=============================================================================
