-------------------------- MODULE ShadowHeapProofs --------------------------
(***************************************************************************)
(* The properties of ShadowHeap, for arenas, requests and addresses of any *)
(* number and size.                                                        *)
(*                                                                         *)
(* The argument: chunks lie apart, so do the granules of their records     *)
(* (RedzoneFits), and what a hook does to a chunk touches the granules of  *)
(* that chunk and one behind them, which it clears.  A chunk therefore     *)
(* keeps its records, and its shadow but for its first granule.            *)
(***************************************************************************)
EXTENDS ShadowHeap, ChunkGeometryProofs

StatusOf(state) ==
  IF state = "live" THEN "ALLOCATED"
  ELSE IF state \in {"resizing", "failed"} THEN "IN_REALLOC" ELSE "DEALLOCATED"

(* The record of a chunk. *)
OwnRecord(c) ==
  [start |-> c.start, size |-> User(c), rz |-> RZSize(c.start, c.num, c.gran),
   status |-> StatusOf(c.state)]

Own(m, c) == \A g \in GranulesOf(c) : m[g] = OwnRecord(c)

(* A granule of value v lets its byte number i be accessed. *)
Open(v, i) == \/ v = 0
              \/ v < ShadowGranularity /\ i < v

(* The three properties of the shadow, for one chunk. *)
Opened(sh, c) ==
  \A b \in c.start .. c.start + User(c) - 1 :
    Open(sh[b \div ShadowGranularity], b % ShadowGranularity)

Fenced(sh, c) ==
  \A b \in c.start + User(c) .. End(c) - 1 :
    \/ b \div ShadowGranularity = c.start \div ShadowGranularity
    \/ ~Open(sh[b \div ShadowGranularity], b % ShadowGranularity)

Shut(sh, c) ==
  \A g \in GranulesOf(c) \ {c.start \div ShadowGranularity} : sh[g] = HeapFree

Shaded(sh, c) ==
  /\ c.state \in {"live", "resizing", "failed"} => Opened(sh, c)
  /\ c.state = "live" /\ ~IsEmpty(c.num, c.gran) => Fenced(sh, c)
  /\ c.state = "held" => Shut(sh, c)

Apart(c, d) == \/ c.start + Taken(c) <= d.start
               \/ d.start + Taken(d) <= c.start

Placed(c) ==
  /\ c \in Chunk /\ c.start \in Starts
  /\ [num |-> c.num, gran |-> c.gran] \in Requests
  /\ c.start + Taken(c) <= Granules * ShadowGranularity

Aligned(m) ==
  \A g \in Arena : m[g] # NoChunk =>
    /\ (m[g].start + m[g].size + m[g].rz) % ShadowGranularity = 0
    /\ g \in PoisonedBy(m[g])

(* The inductive invariant. *)
Inv ==
  /\ TypeOK
  /\ Aligned(map)
  /\ \A c \in chunk : Placed(c) /\ Own(map, c) /\ Shaded(shadow, c)
  /\ \A c, d \in chunk : c = d \/ Apart(c, d)

-----------------------------------------------------------------------------
(* What is known of the extent of a chunk; the first granule of a record   *)
(* is the one its chunk starts in, and lies before its end.                *)
Sized(c) ==
  /\ c.start \in Nat \ {0} /\ User(c) \in Nat /\ Taken(c) \in Nat
  /\ End(c) \in Nat /\ End(c) % 8 = 0
  /\ c.start < End(c) /\ End(c) <= c.start + Taken(c)
  /\ c.start + User(c) <= End(c)
  /\ ~IsEmpty(c.num, c.gran) => c.start + User(c) < End(c)
  /\ IsEmpty(c.num, c.gran) => User(c) = 0 /\ End(c) - c.start <= 8
  /\ RZSize(c.start, c.num, c.gran) = End(c) - c.start - User(c)
  /\ ~IsCoarse(c.num, c.gran)

LEMMA Extent ==
  ASSUME NEW c, Placed(c)
  PROVE  Sized(c)
<1>1. /\ c.start \in Nat \ {0} /\ c.num \in Nat /\ c.gran \in Nat
      /\ Fits(c.num, c.gran) /\ ~IsCoarse(c.num, c.gran)
  BY HeapAssumption, SMT DEF Placed, Chunk
<1>2. RealSize(c.num, c.gran) = c.num * c.gran /\ c.num * c.gran \in Nat
  BY <1>1, ExtendedBytesBounds, ProductNat
<1>3. RZSize(c.start, c.num, c.gran) = End(c) - c.start - User(c)
  BY DEF RZSize, End, User
<1>4. CASE IsEmpty(c.num, c.gran)
  <2>1. User(c) = 0
    BY <1>4 DEF User, IsEmpty
  <2>2. Taken(c) = ZeroBytes /\ End(c) = RoundDownTo(c.start + 8)
    BY <1>4 DEF Taken, End, ChunkEnd, ShadowGranularity
  <2>3. c.start + 8 \in Nat
    BY <1>1, SMT
  <2> DEFINE x == c.start + 8
  <2>4. /\ End(c) \in Nat /\ End(c) % 8 = 0
        /\ End(c) <= c.start + 8 /\ c.start + 8 < End(c) + 8
    <3>1. \A y \in Nat : /\ RoundDownTo(y) \in Nat /\ RoundDownTo(y) % 8 = 0
                         /\ RoundDownTo(y) <= y /\ y < RoundDownTo(y) + 8
      BY RoundDown
    <3>2. QED  BY <2>2, <2>3, <3>1, SMT
  <2>5. QED
    BY <1>1, <1>3, <1>4, <2>1, <2>2, <2>4, HeapAssumption, SMT
       DEF Sized, ShadowGranularity
<1>5. CASE ~IsEmpty(c.num, c.gran)
  <2>1. Taken(c) = ExtendSize(c.num, c.gran) * c.gran /\ User(c) = c.num * c.gran
    BY <1>2, <1>5 DEF Taken, User
  <2>2. Taken(c) \in Nat
    BY <1>1, <2>1, ExtendNeverShrinks, ProductNat
  <2>3. /\ End(c) \in Nat /\ End(c) % 8 = 0
        /\ c.start + User(c) < End(c)
        /\ End(c) <= c.start + Taken(c)
    BY <1>1, <1>5, <2>1, RedzoneFits DEF End
  <2>4. QED
    BY <1>1, <1>2, <1>3, <1>5, <2>1, <2>2, <2>3, SMT DEF Sized
<1>6. QED  BY <1>4, <1>5

(* Division into granules. *)
LEMMA InGranules ==
  ASSUME NEW x \in Nat
  PROVE  /\ x \div 8 \in Nat /\ x % 8 \in 0 .. 7
         /\ x = 8 * (x \div 8) + (x % 8)
  BY SMT

LEMMA ByGranules ==
  ASSUME NEW q \in Nat, NEW r \in 0 .. 7
  PROVE  (8 * q + r) \div 8 = q /\ (8 * q + r) % 8 = r
  BY SMT

LEMMA Between ==
  ASSUME NEW a \in Nat, NEW b \in Nat, NEW h \in Nat, a <= b, b < 8 * h
  PROVE  b \div 8 \in a \div 8 .. h - 1
  BY SMT

(* The granules of a chunk by number, and that it ends with one. *)
LEMMA Span ==
  ASSUME NEW c, Sized(c)
  PROVE  /\ c.start \div 8 \in Nat /\ End(c) \div 8 \in Nat
         /\ c.start \div 8 < End(c) \div 8
         /\ 8 * (c.start \div 8) <= c.start /\ c.start < 8 * (c.start \div 8) + 8
         /\ 8 * (End(c) \div 8) = End(c)
         /\ GranulesOf(c) = c.start \div 8 .. End(c) \div 8 - 1
  BY SMT DEF Sized, GranulesOf, ShadowGranularity

(* They are granules of the arena. *)
LEMMA SpanInArena ==
  ASSUME NEW c, Placed(c), Sized(c)
  PROVE  /\ GranulesOf(c) \subseteq Arena /\ c.start \div 8 \in GranulesOf(c)
         /\ End(c) \div 8 \in 0 .. Granules
<1>1. End(c) <= Granules * 8 /\ Granules \in Nat
  BY HeapAssumption, SMT DEF Placed, Sized, ShadowGranularity
<1>2. QED  BY <1>1, Span, SMT DEF Arena

(* Chunks that lie apart share no granule; the granule behind one may be   *)
(* the first one of the other, but no later one.                           *)
LEMMA SpansApart ==
  ASSUME NEW c, NEW d, Sized(c), Sized(d), Apart(c, d)
  PROVE  /\ GranulesOf(c) \cap GranulesOf(d) = {}
         /\ \A g \in GranulesOf(c) : g = End(d) \div 8 => g = c.start \div 8
         /\ c.start # d.start
<1> DEFINE lc == c.start \div 8
           hc == End(c) \div 8
           ld == d.start \div 8
           hd == End(d) \div 8
<1>1. /\ lc \in Nat /\ hc \in Nat /\ lc < hc /\ 8 * lc <= c.start
      /\ c.start < 8 * lc + 8 /\ 8 * hc = End(c) /\ GranulesOf(c) = lc .. hc - 1
  BY Span
<1>2. /\ ld \in Nat /\ hd \in Nat /\ ld < hd /\ 8 * ld <= d.start
      /\ d.start < 8 * ld + 8 /\ 8 * hd = End(d) /\ GranulesOf(d) = ld .. hd - 1
  BY Span
<1>3. /\ c.start \in Nat /\ d.start \in Nat /\ Taken(c) \in Nat /\ Taken(d) \in Nat
      /\ End(c) \in Nat /\ End(d) \in Nat
      /\ c.start < End(c) /\ d.start < End(d)
      /\ End(c) <= c.start + Taken(c) /\ End(d) <= d.start + Taken(d)
  BY DEF Sized
<1> HIDE DEF lc, hc, ld, hd
<1>4. hc <= ld \/ hd <= lc
  <2>1. CASE c.start + Taken(c) <= d.start
    <3>1. 8 * hc < 8 * ld + 8
      <4>1. 8 * hc <= d.start /\ d.start < 8 * ld + 8
        <5>1. End(c) <= d.start
          BY <1>3, <2>1
        <5> QED
          BY <1>1, <1>2, <5>1
      <4> QED
        BY <1>1, <1>2, <1>3, <4>1
    <3> QED
      BY <1>1, <1>2, <3>1
  <2>2. CASE d.start + Taken(d) <= c.start
    <3>1. 8 * hd < 8 * lc + 8
      <4>1. 8 * hd <= c.start /\ c.start < 8 * lc + 8
        <5>1. End(d) <= c.start
          BY <1>3, <2>2
        <5> QED
          BY <1>1, <1>2, <5>1
      <4> QED
        BY <1>1, <1>2, <1>3, <4>1
    <3> QED
      BY <1>1, <1>2, <3>1
  <2> QED
    BY <2>1, <2>2 DEF Apart
<1>5. c.start # d.start
  <2>1. c.start < c.start + Taken(c) /\ d.start < d.start + Taken(d)
    BY <1>3, SMT
  <2>2. QED  BY <1>3, <2>1, SMT DEF Apart
<1>6. GranulesOf(c) \cap GranulesOf(d) = {}
  BY <1>1, <1>2, <1>4, SMT
<1>7. \A g \in GranulesOf(c) : g = hd => g = lc
  BY <1>1, <1>2, <1>4, SMT
<1>8. QED  BY <1>5, <1>6, <1>7 DEF hd, lc

-----------------------------------------------------------------------------
(* What a hook does to a chunk d touches the records of its granules, ...  *)
Confined(m, n, d) == \A g \in Arena \ GranulesOf(d) : n[g] = m[g]

(* ... and its shadow, and it may clear the granule behind.                *)
Touches(sh, th, d) ==
  \A g \in (0 .. Granules) \ GranulesOf(d) :
    \/ th[g] = sh[g]
    \/ g = End(d) \div 8 /\ th[g] = 0

LEMMA OwnFrame ==
  ASSUME NEW c, NEW d, NEW m, NEW n, Placed(c), Sized(c), Sized(d), Apart(c, d),
         Own(m, c), Confined(m, n, d)
  PROVE  Own(n, c)
  BY SpansApart, SpanInArena DEF Own, Confined

LEMMA ShadedFrame ==
  ASSUME NEW c, NEW d, NEW sh, NEW th, Placed(c), Sized(c), Sized(d), Apart(c, d),
         Shaded(sh, c), Touches(sh, th, d)
  PROVE  Shaded(th, c)
<1>1. \A g \in GranulesOf(c) :
        \/ th[g] = sh[g]
        \/ g = c.start \div 8 /\ th[g] = 0
  <2> SUFFICES ASSUME NEW g \in GranulesOf(c)
               PROVE  \/ th[g] = sh[g]
                      \/ g = c.start \div 8 /\ th[g] = 0
    OBVIOUS
  <2>1. g \notin GranulesOf(d) /\ (g = End(d) \div 8 => g = c.start \div 8)
    BY SpansApart
  <2>2. g \in Arena
    BY SpanInArena
  <2>3. g \in 0 .. Granules
    BY <2>2, HeapAssumption, SMT DEF Arena
  <2>4. QED  BY <2>1, <2>3 DEF Touches
<1>2. \A b \in c.start .. End(c) - 1 : b \div 8 \in GranulesOf(c)
  <2> SUFFICES ASSUME NEW b \in c.start .. End(c) - 1
               PROVE  b \div 8 \in GranulesOf(c)
    OBVIOUS
  <2>1. c.start \in Nat /\ End(c) \in Nat
    BY DEF Sized
  <2>2. b \in Nat /\ c.start <= b /\ b < End(c)
    BY <2>1, SMT
  <2>3. End(c) = 8 * (End(c) \div 8) /\ End(c) \div 8 \in Nat
    BY Span
  <2>4. b < 8 * (End(c) \div 8)
    BY <2>2, <2>3
  <2>5. b \div 8 \in c.start \div 8 .. End(c) \div 8 - 1
    BY <2>1, <2>2, <2>3, <2>4, Between
  <2>6. QED  BY <2>5, Span
<1>3. c.start + User(c) <= End(c) /\ c.start \in Nat /\ User(c) \in Nat /\ End(c) \in Nat
  BY DEF Sized
<1>4. ASSUME Opened(sh, c) PROVE Opened(th, c)
  <2> SUFFICES ASSUME NEW b \in c.start .. c.start + User(c) - 1
               PROVE  Open(th[b \div 8], b % 8)
    BY DEF Opened, ShadowGranularity
  <2>1. b \div 8 \in GranulesOf(c)
    BY <1>2, <1>3, SMT
  <2>2. Open(sh[b \div 8], b % 8)
    BY <1>4 DEF Opened, ShadowGranularity
  <2>3. QED  BY <1>1, <2>1, <2>2 DEF Open
<1>5. ASSUME Fenced(sh, c) PROVE Fenced(th, c)
  <2> SUFFICES ASSUME NEW b \in c.start + User(c) .. End(c) - 1,
                      b \div 8 # c.start \div 8
               PROVE  ~Open(th[b \div 8], b % 8)
    BY DEF Fenced, ShadowGranularity
  <2>1. b \div 8 \in GranulesOf(c)
    BY <1>2, <1>3, SMT
  <2>2. ~Open(sh[b \div 8], b % 8)
    BY <1>5 DEF Fenced, ShadowGranularity
  <2>3. QED  BY <1>1, <2>1, <2>2
<1>6. ASSUME Shut(sh, c) PROVE Shut(th, c)
  BY <1>1, <1>6 DEF Shut, ShadowGranularity
<1>7. QED  BY <1>4, <1>5, <1>6 DEF Shaded

-----------------------------------------------------------------------------
(* The hooks' operations on the records and the shadow of one chunk.       *)
LEMMA SameButState ==
  ASSUME NEW c \in Chunk, NEW state \in ChunkState
  PROVE  /\ As(c, state) \in Chunk /\ As(c, state).state = state
         /\ As(c, state).start = c.start
         /\ As(c, state).num = c.num /\ As(c, state).gran = c.gran
         /\ User(As(c, state)) = User(c) /\ Taken(As(c, state)) = Taken(c)
         /\ End(As(c, state)) = End(c)
         /\ GranulesOf(As(c, state)) = GranulesOf(c)
<1>1. /\ As(c, state) \in Chunk /\ As(c, state).state = state
      /\ As(c, state).start = c.start
      /\ As(c, state).num = c.num /\ As(c, state).gran = c.gran
  BY SMT DEF As, Chunk
<1>2. QED  BY <1>1 DEF User, Taken, End, GranulesOf

LEMMA PlacedAs ==
  ASSUME NEW c, Placed(c), NEW state \in ChunkState
  PROVE  Placed(As(c, state))
  BY SameButState DEF Placed

(* The record of a chunk is found at its address and covers its granules.  *)
LEMMA OwnRecordSpan ==
  ASSUME NEW c, Placed(c), Sized(c)
  PROVE  /\ OwnRecord(c) \in Record /\ PoisonedBy(OwnRecord(c)) = GranulesOf(c)
         /\ OwnRecord(c).start + OwnRecord(c).size + OwnRecord(c).rz = End(c)
         /\ OwnRecord(c) # NoChunk
<1>1. /\ c.start \in Nat /\ User(c) \in Nat /\ End(c) \in Nat
      /\ c.start + User(c) <= End(c)
      /\ RZSize(c.start, c.num, c.gran) = End(c) - c.start - User(c)
  BY DEF Sized
<1>2. RZSize(c.start, c.num, c.gran) \in Nat
  BY <1>1, SMT
<1>3. StatusOf(c.state) \in {"ALLOCATED", "DEALLOCATED", "IN_REALLOC"}
  BY DEF StatusOf
<1>4. OwnRecord(c) \in Record
  BY <1>1, <1>2, <1>3 DEF OwnRecord, Record
<1>5. OwnRecord(c).start + OwnRecord(c).size + OwnRecord(c).rz = End(c)
  <2>1. c.start + User(c) + RZSize(c.start, c.num, c.gran) = End(c)
    BY <1>1, SMT
  <2>2. QED  BY <2>1 DEF OwnRecord
<1>6. PoisonedBy(OwnRecord(c)) = GranulesOf(c)
  BY <1>5 DEF PoisonedBy, GranulesOf, OwnRecord
<1>7. QED  BY <1>4, <1>5, <1>6, HeapAssumption

LEMMA RecordFound ==
  ASSUME NEW c, Placed(c), Sized(c), Own(map, c)
  PROVE  RecordAt(c.start) = OwnRecord(c)
  BY SpanInArena DEF Own, RecordAt, ShadowGranularity

LEMMA SetStatusOwn ==
  ASSUME NEW c, Placed(c), Sized(c), NEW m \in [Arena -> Record \cup {NoChunk}],
         Aligned(m), Own(m, c), NEW state \in ChunkState
  PROVE  LET n == SetStatus(m, OwnRecord(c), StatusOf(state))
         IN  /\ n \in [Arena -> Record \cup {NoChunk}]
             /\ Aligned(n) /\ Own(n, As(c, state)) /\ Confined(m, n, c)
<1> DEFINE rec == OwnRecord(c)
           new == [rec EXCEPT !.status = StatusOf(state)]
           n == SetStatus(m, rec, StatusOf(state))
<1>1. /\ rec \in Record /\ rec # NoChunk /\ PoisonedBy(rec) = GranulesOf(c)
      /\ rec.start + rec.size + rec.rz = End(c)
  BY OwnRecordSpan
<1>2. StatusOf(state) \in {"ALLOCATED", "DEALLOCATED", "IN_REALLOC"}
  BY DEF StatusOf
<1>3. /\ new \in Record /\ new.start = rec.start /\ new.size = rec.size
      /\ new.rz = rec.rz
  <2> HIDE DEF rec
  <2> QED  BY <1>1, <1>2 DEF Record
<1>4. n = [g \in Arena |-> IF m[g] = rec THEN new ELSE m[g]]
  BY <1>1 DEF SetStatus
<1>5. n \in [Arena -> Record \cup {NoChunk}]
  <2> HIDE DEF rec, new, n
  <2> QED  BY <1>3, <1>4
<1>6. Aligned(n)
  <2> SUFFICES ASSUME NEW g \in Arena, n[g] # NoChunk
               PROVE  /\ (n[g].start + n[g].size + n[g].rz) % 8 = 0
                      /\ g \in PoisonedBy(n[g])
    BY DEF Aligned, ShadowGranularity
  <2>1. CASE m[g] = rec
    <3>1. n[g] = new /\ g \in PoisonedBy(rec) /\ (rec.start + rec.size + rec.rz) % 8 = 0
      BY <1>1, <1>4, <2>1 DEF Aligned, ShadowGranularity
    <3>2. PoisonedBy(new) = PoisonedBy(rec)
      BY <1>3 DEF PoisonedBy
    <3>3. QED  BY <1>3, <3>1, <3>2
  <2>2. CASE m[g] # rec
    BY <1>4, <2>2 DEF Aligned, ShadowGranularity
  <2>3. QED  BY <2>1, <2>2
<1>7. Confined(m, n, c)
  <2> SUFFICES ASSUME NEW g \in Arena \ GranulesOf(c)
               PROVE  n[g] = m[g]
    BY DEF Confined
  <2>1. m[g] # rec
    BY <1>1 DEF Aligned
  <2>2. QED  BY <1>4, <2>1
<1>8. Own(n, As(c, state))
  <2>1. new = OwnRecord(As(c, state))
    <3>1. c \in Chunk
      BY DEF Placed
    <3>2. QED  BY <3>1, SameButState DEF OwnRecord
  <2>2. QED
    BY <1>4, <2>1, SpanInArena, SameButState DEF Own, Placed
<1>9. QED  BY <1>5, <1>6, <1>7, <1>8

LEMMA InsertOwn ==
  ASSUME NEW c, Placed(c), Sized(c), NEW m \in [Arena -> Record \cup {NoChunk}],
         Aligned(m), c.state = "live"
  PROVE  LET n == Insert(m, c)
         IN  /\ n \in [Arena -> Record \cup {NoChunk}]
             /\ Aligned(n) /\ Own(n, c) /\ Confined(m, n, c)
<1> DEFINE rec == OwnRecord(c)
           n == Insert(m, c)
<1>1. /\ rec \in Record /\ PoisonedBy(rec) = GranulesOf(c)
      /\ rec.start + rec.size + rec.rz = End(c)
  BY OwnRecordSpan
<1>2. n = [g \in Arena |-> IF g \in GranulesOf(c) THEN rec ELSE m[g]]
  BY DEF Insert, OwnRecord, StatusOf, Sized
<1>3. End(c) % 8 = 0
  BY DEF Sized
<1> HIDE DEF rec, n
<1>4. n \in [Arena -> Record \cup {NoChunk}]
  BY <1>1, <1>2
<1>5. Aligned(n)
  BY <1>1, <1>2, <1>3 DEF Aligned, ShadowGranularity
<1>6. Own(n, c) /\ Confined(m, n, c)
  BY <1>2, SpanInArena DEF Own, Confined, rec
<1>7. QED  BY <1>4, <1>5, <1>6 DEF n

(* A hook that poisons the record of a chunk poisons its granules.         *)
LEMMA PoisonRecordOwn ==
  ASSUME NEW c, Placed(c), Sized(c), NEW sh \in [0 .. Granules -> ShadowByte],
         NEW value \in ShadowByte
  PROVE  LET th == PoisonRecord(sh, c.start, OwnRecord(c), value)
         IN  /\ th \in [0 .. Granules -> ShadowByte]
             /\ \A g \in GranulesOf(c) : th[g] = value
             /\ Touches(sh, th, c)
<1> DEFINE beg == RoundDownTo(c.start)
           size == PoisonSize(c.start, OwnRecord(c))
<1>1. /\ c.start \in Nat /\ User(c) \in Nat /\ End(c) \in Nat
      /\ RZSize(c.start, c.num, c.gran) = End(c) - c.start - User(c)
  BY DEF Sized
<1>2. beg \in Nat /\ beg \div 8 = c.start \div 8
  BY <1>1, SMT DEF RoundDownTo, ShadowGranularity
<1>3. beg + size = End(c)
  <2>1. size = RZSize(c.start, c.num, c.gran) + User(c) + (c.start - beg)
    BY DEF PoisonSize, OwnRecord
  <2> HIDE DEF beg, size
  <2>2. QED  BY <1>1, <1>2, <2>1, SMT
<1>4. PoisonRecord(sh, c.start, OwnRecord(c), value)
        = [g \in 0 .. Granules |->
             IF c.start \div 8 <= g /\ g < End(c) \div 8 THEN value ELSE sh[g]]
  <2> HIDE DEF size
  <2> QED  BY <1>2, <1>3 DEF PoisonRecord, Poison, ShadowGranularity, size
<1>5. \A g \in 0 .. Granules :
        g \in GranulesOf(c) <=> c.start \div 8 <= g /\ g < End(c) \div 8
  BY Span, HeapAssumption, SMT
<1>6. GranulesOf(c) \subseteq 0 .. Granules
  BY SpanInArena, HeapAssumption, SMT DEF Arena
<1> DEFINE th == PoisonRecord(sh, c.start, OwnRecord(c), value)
<1>7. th = [g \in 0 .. Granules |-> IF g \in GranulesOf(c) THEN value ELSE sh[g]]
  BY <1>4, <1>5
<1> HIDE DEF th
<1>8. th \in [0 .. Granules -> ShadowByte]
  BY <1>7
<1>9. (\A g \in GranulesOf(c) : th[g] = value) /\ Touches(sh, th, c)
  BY <1>6, <1>7 DEF Touches
<1>10. QED  BY <1>8, <1>9 DEF th

(* The shadow of a new chunk, granule by granule: the sequence of calls of *)
(* PoisonShadow opens the granules of its bytes, part of the last perhaps, *)
(* and poisons the rest up to its end.                                     *)
LEMMA PoisonNewGranules ==
  ASSUME NEW c, Placed(c), Sized(c), NEW sh \in [0 .. Granules -> ShadowByte],
         ~IsEmpty(c.num, c.gran)
  PROVE  LET e == c.start + User(c)
         IN  PoisonNew(sh, c)
               = [g \in 0 .. Granules |->
                    IF g < c.start \div 8 \/ g > End(c) \div 8 THEN sh[g]
                    ELSE IF g = End(c) \div 8 \/ g < e \div 8 THEN 0
                    ELSE IF g = e \div 8 /\ e % 8 # 0 THEN e % 8
                    ELSE HeapLeftRedzone]
<1> DEFINE e == c.start + User(c)
           beg == RoundDownTo(c.start)
           user == User(c) + (c.start - beg)
           bulk == RoundDownTo(user)
           all == End(c) - beg
           lo == c.start \div 8
           hi == End(c) \div 8
           mid == e \div 8
           opened == Poison(sh, beg, all + 8, 0)
           closed == Poison(opened, beg, all, HeapLeftRedzone)
           bulkOpen == Poison(closed, beg, bulk, 0)
<1>1. /\ c.start \in Nat /\ User(c) \in Nat /\ End(c) \in Nat /\ e < End(c)
      /\ ~IsCoarse(c.num, c.gran)
  BY DEF Sized
<1>2. lo \in Nat /\ hi \in Nat /\ lo < hi /\ End(c) = 8 * hi /\ Granules \in Nat
  BY Span, HeapAssumption
<1>3. beg = 8 * lo /\ e \in Nat
  BY <1>1, SMT DEF RoundDownTo, ShadowGranularity
<1>4. /\ mid \in Nat /\ lo <= mid /\ mid < hi /\ e = 8 * mid + (e % 8)
      /\ e % 8 \in 0 .. 7
  <2>1. c.start <= e /\ e < 8 * hi
    BY <1>1, <1>2
  <2> HIDE DEF hi
  <2>2. mid \in lo .. hi - 1
    <3> HIDE DEF e
    <3> QED  BY <1>1, <1>2, <1>3, <2>1, Between DEF hi
  <2>3. mid \in Nat /\ e = 8 * mid + (e % 8) /\ e % 8 \in 0 .. 7
    <3> HIDE DEF e
    <3> QED  BY <1>3, InGranules
  <2> HIDE DEF e, mid, lo
  <2> QED  BY <1>2, <2>2, <2>3
<1>5. user = 8 * (mid - lo) + (e % 8)
  <2>1. user = e - beg
    BY <1>1, <1>3, SMT
  <2> HIDE DEF e, beg, mid, lo, user
  <2>2. QED  BY <1>2, <1>3, <1>4, <2>1, SMT
<1>6. bulk = 8 * (mid - lo) /\ user % 8 = e % 8
  <2> HIDE DEF e, mid, lo, hi, user
  <2>1. mid - lo \in Nat
    BY <1>2, <1>4
  <2>2. user % 8 = e % 8
    BY <1>4, <1>5, <2>1, ByGranules
  <2>3. bulk = user - (user % 8)
    BY DEF RoundDownTo, ShadowGranularity
  <2> HIDE DEF bulk
  <2> QED  BY <1>4, <1>5, <2>1, <2>2, <2>3
<1>7. /\ beg \div 8 = lo /\ (beg + (all + 8)) \div 8 = hi + 1
      /\ (beg + all) \div 8 = hi /\ (beg + bulk) \div 8 = mid
  <2> HIDE DEF e, mid, lo, hi, beg, bulk
  <2> QED  BY <1>2, <1>3, <1>4, <1>6, SMT
<1>8. opened = [g \in 0 .. Granules |-> IF lo <= g /\ g < hi + 1 THEN 0 ELSE sh[g]]
  <2> HIDE DEF lo, hi, beg, all
  <2> QED  BY <1>7 DEF Poison, ShadowGranularity
<1>9. closed = [g \in 0 .. Granules |->
                  IF lo <= g /\ g < hi THEN HeapLeftRedzone ELSE opened[g]]
  <2> HIDE DEF lo, hi, beg, all, opened
  <2> QED  BY <1>7 DEF Poison, ShadowGranularity
<1>10. bulkOpen = [g \in 0 .. Granules |->
                     IF lo <= g /\ g < mid THEN 0 ELSE closed[g]]
  <2> HIDE DEF lo, mid, beg, bulk, closed
  <2> QED  BY <1>7 DEF Poison, ShadowGranularity
<1>11. PoisonNew(sh, c) = IF user = bulk THEN bulkOpen
                          ELSE [bulkOpen EXCEPT ![mid] = e % 8]
  <2>1. PoisonNew(sh, c) = IF user = bulk THEN bulkOpen
                           ELSE [bulkOpen EXCEPT ![(beg + bulk) \div 8] = user % 8]
    BY <1>1 DEF PoisonNew, PartOf, ShadowGranularity
  <2>2. QED  BY <1>6, <1>7, <2>1
<1>12. user = bulk <=> e % 8 = 0
  <2> HIDE DEF e, mid, lo, user, bulk
  <2> QED  BY <1>2, <1>4, <1>5, <1>6, SMT
<1> HIDE DEF e, beg, user, bulk, all, lo, hi, mid, opened, closed, bulkOpen
<1>13. QED
  <2>1. CASE e % 8 = 0
    <3>1. PoisonNew(sh, c) = bulkOpen
      BY <1>11, <1>12, <2>1
    <3>2. QED
      BY <1>2, <1>4, <1>8, <1>9, <1>10, <2>1, <3>1, SMT DEF e, lo, hi, mid
  <2>2. CASE e % 8 # 0
    <3>1. PoisonNew(sh, c) = [bulkOpen EXCEPT ![mid] = e % 8]
      BY <1>11, <1>12, <2>2
    <3>2. PoisonNew(sh, c) = [g \in 0 .. Granules |->
                                IF g = mid THEN e % 8 ELSE bulkOpen[g]]
      BY <1>10, <3>1
    <3>3. ASSUME NEW g \in 0 .. Granules
          PROVE  PoisonNew(sh, c)[g] =
                   IF g < lo \/ g > hi THEN sh[g]
                   ELSE IF g = hi \/ g < mid THEN 0
                   ELSE IF g = mid /\ e % 8 # 0 THEN e % 8
                   ELSE HeapLeftRedzone
      BY <3>2, <1>2, <1>4, <1>8, <1>9, <1>10, <2>2
    <3>4. PoisonNew(sh, c) = [g \in 0 .. Granules |->
                   IF g < lo \/ g > hi THEN sh[g]
                   ELSE IF g = hi \/ g < mid THEN 0
                   ELSE IF g = mid /\ e % 8 # 0 THEN e % 8
                   ELSE HeapLeftRedzone]
      BY <3>2, <3>3
    <3>5. QED
      BY <3>4 DEF e, lo, hi, mid
  <2>3. QED  BY <2>1, <2>2

(* A new chunk is shaded as it should be and touches no other. *)
LEMMA PoisonNewOwn ==
  ASSUME NEW c, Placed(c), Sized(c), NEW sh \in [0 .. Granules -> ShadowByte],
         c.state = "live"
  PROVE  LET th == PoisonNew(sh, c)
         IN  /\ th \in [0 .. Granules -> ShadowByte]
             /\ Touches(sh, th, c) /\ Shaded(th, c)
<1> DEFINE th == PoisonNew(sh, c)
           e == c.start + User(c)
           lo == c.start \div 8
           hi == End(c) \div 8
<1>1. /\ c.start \in Nat /\ User(c) \in Nat /\ End(c) \in Nat /\ e \in Nat
      /\ c.start <= e /\ e <= End(c)
  <2>1. c.start \in Nat /\ User(c) \in Nat /\ End(c) \in Nat /\ e <= End(c)
    BY DEF Sized
  <2>2. QED  BY <2>1, SMT
<1>2. /\ lo \in Nat /\ hi \in Nat /\ lo < hi /\ End(c) = 8 * hi
      /\ GranulesOf(c) = lo .. hi - 1 /\ Granules \in Nat
  BY Span, HeapAssumption
<1>3. CASE IsEmpty(c.num, c.gran)
  <2>1. User(c) = 0
    BY <1>3 DEF Sized
  <2>2. RoundDownTo(c.start) \div 8 = lo /\ (RoundDownTo(c.start) + 8) \div 8 = lo + 1
    <3>1. /\ lo \in Nat /\ c.start % 8 \in 0 .. 7
          /\ c.start = 8 * lo + (c.start % 8)
      BY <1>1, InGranules
    <3>2. RoundDownTo(c.start) = c.start - (c.start % 8)
      BY DEF RoundDownTo, ShadowGranularity
    <3> HIDE DEF lo
    <3>3. RoundDownTo(c.start) = 8 * lo + 0 /\ RoundDownTo(c.start) + 8 = 8 * (lo + 1) + 0
      BY <3>1, <3>2
    <3>4. (8 * lo + 0) \div 8 = lo /\ (8 * (lo + 1) + 0) \div 8 = lo + 1
      BY <3>1, ByGranules
    <3> QED  BY <3>3, <3>4
  <2>3. th = [g \in 0 .. Granules |-> IF lo <= g /\ g < lo + 1 THEN 0 ELSE sh[g]]
    <3> HIDE DEF lo
    <3> QED  BY <1>3, <2>2 DEF PoisonNew, Poison, ShadowGranularity
  <2> HIDE DEF th, e, lo, hi
  <2>4. th \in [0 .. Granules -> ShadowByte]
    BY <2>3, SMT DEF ShadowByte
  <2>5. Touches(sh, th, c)
    BY <1>2, <2>3, SMT DEF Touches
  <2>6. Opened(th, c)
    <3>1. e - 1 < c.start
      BY <1>1, <2>1, SMT DEF e
    <3> SUFFICES ASSUME NEW b \in c.start .. e - 1
                 PROVE  Open(th[b \div 8], b % 8)
      BY <1>1, SMT DEF Opened, ShadowGranularity, e
    <3>2. QED  BY <1>1, <3>1, SMT
  <2>7. QED  BY <1>3, <2>4, <2>5, <2>6 DEF Shaded, th
<1>4. CASE ~IsEmpty(c.num, c.gran)
  <2> DEFINE mid == e \div 8
             part == e % 8
  <2>1. th = [g \in 0 .. Granules |->
                IF g < lo \/ g > hi THEN sh[g]
                ELSE IF g = hi \/ g < mid THEN 0
                ELSE IF g = mid /\ part # 0 THEN part
                ELSE HeapLeftRedzone]
    BY <1>4, PoisonNewGranules
  <2>2. mid \in Nat /\ part \in 0 .. 7 /\ e = 8 * mid + part
    <3> HIDE DEF e
    <3> QED  BY <1>1, SMT
  <2>3. e < End(c)
    BY <1>4 DEF Sized
  <2>4. \A b \in Nat : b = 8 * (b \div 8) + (b % 8) /\ b % 8 \in 0 .. 7 /\ b \div 8 \in Nat
    BY SMT
  <2> HIDE DEF th, e, lo, hi, mid, part
  <2>5. th \in [0 .. Granules -> ShadowByte]
    BY <2>1, <2>2, SMT DEF ShadowByte, HeapLeftRedzone
  <2>6. Touches(sh, th, c)
    BY <1>2, <2>1, SMT DEF Touches, hi
  <2>7. hi <= Granules
    BY SpanInArena, SMT DEF hi
  <2>8. Opened(th, c)
    <3> SUFFICES ASSUME NEW b \in c.start .. e - 1
                 PROVE  Open(th[b \div 8], b % 8)
      BY <1>1, SMT DEF Opened, ShadowGranularity, e
    <3>1. b \in Nat /\ c.start <= b /\ b < e
      BY <1>1, SMT
    <3>2. lo <= b \div 8
      BY <1>1, <3>1, SMT DEF lo
    <3>3. \/ b \div 8 < mid
          \/ b \div 8 = mid /\ b % 8 < part
      BY <2>2, <2>4, <3>1, SMT
    <3>4. b \div 8 < hi
      BY <1>1, <1>2, <2>3, <2>4, <3>1, SMT
    <3>5. b \div 8 \in 0 .. Granules
      BY <1>2, <2>4, <2>7, <3>1, <3>4, SMT
    <3>6. CASE b \div 8 < mid
      <4>1. th[b \div 8] = 0
        BY <1>2, <2>1, <2>2, <3>2, <3>4, <3>5, <3>6, SMT
      <4>2. QED  BY <4>1 DEF Open
    <3>7. CASE b \div 8 = mid /\ b % 8 < part
      <4>1. part # 0
        BY <2>2, <2>4, <3>1, <3>7, SMT
      <4>2. th[b \div 8] = part
        BY <1>2, <2>1, <2>2, <3>2, <3>4, <3>5, <3>7, <4>1, SMT
      <4>3. QED  BY <2>2, <3>7, <4>2, SMT DEF Open, ShadowGranularity
    <3>8. QED  BY <3>3, <3>6, <3>7
  <2>9. Fenced(th, c)
    <3> SUFFICES ASSUME NEW b \in e .. End(c) - 1
                 PROVE  ~Open(th[b \div 8], b % 8)
      BY DEF Fenced, ShadowGranularity, e
    <3>1. b \in Nat /\ e <= b /\ b < End(c)
      BY <1>1, SMT
    <3>2. lo <= b \div 8
      BY <1>1, <3>1, SMT DEF lo
    <3>3. \/ mid < b \div 8
          \/ b \div 8 = mid /\ part <= b % 8
      BY <2>2, <2>4, <3>1, SMT
    <3>4. b \div 8 < hi
      BY <1>2, <2>4, <3>1, SMT
    <3>5. b \div 8 \in 0 .. Granules
      BY <1>2, <2>4, <2>7, <3>1, <3>4, SMT
    <3>6. th[b \div 8] = IF b \div 8 = mid /\ part # 0 THEN part ELSE 250
      BY <1>2, <2>1, <2>2, <3>2, <3>3, <3>4, <3>5, SMT DEF HeapLeftRedzone
    <3>7. QED
      BY <2>2, <2>4, <3>1, <3>3, <3>6, SMT DEF Open, ShadowGranularity
  <2>10. QED  BY <2>5, <2>6, <2>8, <2>9, SMT DEF Shaded, th
<1>5. QED  BY <1>3, <1>4

-----------------------------------------------------------------------------
(* One thread's hooks change one chunk: the others keep all they have.     *)
LEMMA OthersKept ==
  ASSUME Inv, NEW c, NEW d \in chunk, Sized(c), Apart(d, c),
         NEW m, NEW sh, Confined(map, m, c), Touches(shadow, sh, c)
  PROVE  Placed(d) /\ Own(m, d) /\ Shaded(sh, d)
<1>1. Placed(d) /\ Own(map, d) /\ Shaded(shadow, d)
  BY DEF Inv
<1>2. Sized(d)
  BY <1>1, Extent
<1>3. QED  BY <1>1, <1>2, OwnFrame, ShadedFrame

(* To follow a step it is enough to look at what it makes of its chunk.    *)
LEMMA InvAfter ==
  ASSUME Inv, NEW kept \in SUBSET chunk, NEW new,
         chunk' \subseteq kept \cup new,
         TypeOK', Aligned(map'),
         \A d \in kept : Own(map', d) /\ Shaded(shadow', d),
         \A c \in new : Placed(c) /\ Own(map', c) /\ Shaded(shadow', c),
         \A c \in new : \A d \in kept \cup new : c = d \/ Apart(c, d)
  PROVE  Inv'
<1>1. \A c \in chunk' : Placed(c) /\ Own(map', c) /\ Shaded(shadow', c)
  BY DEF Inv
<1>2. \A c, d \in chunk' : c = d \/ Apart(c, d)
  <2> TAKE c, d \in chunk'
  <2>1. CASE c \in new
    BY <2>1
  <2>2. CASE d \in new
    BY <2>2 DEF Apart
  <2>3. CASE c \in kept /\ d \in kept
    BY <2>3 DEF Inv
  <2>4. QED  BY <2>1, <2>2, <2>3
<1>3. QED  BY <1>1, <1>2 DEF Inv

LEMMA InitInv == Init => Inv
<1> SUFFICES ASSUME Init PROVE Inv
  OBVIOUS
<1>1. TypeOK
  BY HeapAssumption, SMT DEF Init, TypeOK, ShadowByte, HeapLeftRedzone
<1>2. QED  BY <1>1 DEF Init, Inv, Aligned

LEMMA AllocateInv ==
  ASSUME Inv, NEW p \in Starts, NEW r \in Requests, AllocateCMAChunk(p, r)
  PROVE  Inv'
<1> DEFINE c == ChunkAt(p, r)
<1>1. /\ FitsBeside(c, chunk) /\ chunk' = chunk \cup {c}
      /\ map' = Insert(map, c) /\ shadow' = PoisonNew(shadow, c) /\ listed' = List(c)
  BY DEF AllocateCMAChunk
<1>2. Placed(c) /\ c.state = "live" /\ c.start = p
  <2>1. /\ p \in Nat /\ r.num \in Nat /\ r.gran \in Nat
        /\ [num |-> r.num, gran |-> r.gran] = r
    BY HeapAssumption, SMT
  <2>2. /\ c \in Chunk /\ c.state = "live" /\ c.start = p
        /\ c.num = r.num /\ c.gran = r.gran
    BY <2>1 DEF ChunkAt, Chunk, ChunkState
  <2>3. QED  BY <1>1, <2>1, <2>2 DEF Placed, FitsBeside
<1>3. Sized(c)
  BY <1>2, Extent
<1> HIDE DEF c
<1>4. TypeOK /\ Aligned(map)
  BY DEF Inv
<1>5. /\ map' \in [Arena -> Record \cup {NoChunk}] /\ Aligned(map')
      /\ Own(map', c) /\ Confined(map, map', c)
  BY <1>1, <1>2, <1>3, <1>4, InsertOwn DEF TypeOK
<1>6. /\ shadow' \in [0 .. Granules -> ShadowByte]
      /\ Touches(shadow, shadow', c) /\ Shaded(shadow', c)
  BY <1>1, <1>2, <1>3, <1>4, PoisonNewOwn DEF TypeOK
<1>7. TypeOK'
  BY <1>1, <1>2, <1>4, <1>5, <1>6 DEF TypeOK, List, Placed
<1>8. \A d \in chunk : Apart(c, d) /\ Apart(d, c)
  BY <1>1 DEF FitsBeside, Apart
<1>9. \A d \in chunk : Own(map', d) /\ Shaded(shadow', d)
  BY <1>3, <1>5, <1>6, <1>8, OthersKept
<1>10. \A e \in {c} : Placed(e) /\ Own(map', e) /\ Shaded(shadow', e)
  BY <1>2, <1>5, <1>6
<1>11. \A e \in {c} : \A d \in chunk \cup {c} : e = d \/ Apart(e, d)
  BY <1>8
<1>12. chunk' \subseteq chunk \cup {c}
  BY <1>1
<1>13. QED
  BY <1>5, <1>7, <1>9, <1>10, <1>11, <1>12, InvAfter

(* What is known of a chunk before a hook is called for it. *)
LEMMA Known ==
  ASSUME Inv, NEW c \in chunk
  PROVE  /\ Placed(c) /\ Sized(c) /\ Own(map, c) /\ Shaded(shadow, c)
         /\ c \in Chunk /\ RecordAt(c.start) = OwnRecord(c)
         /\ map \in [Arena -> Record \cup {NoChunk}] /\ Aligned(map)
         /\ shadow \in [0 .. Granules -> ShadowByte]
         /\ chunk \subseteq Chunk /\ listed \subseteq Starts
<1>1. Placed(c) /\ Own(map, c) /\ Shaded(shadow, c) /\ Aligned(map)
  BY DEF Inv
<1>2. Sized(c)
  BY <1>1, Extent
<1>3. RecordAt(c.start) = OwnRecord(c)
  BY <1>1, <1>2, RecordFound
<1>4. QED  BY <1>1, <1>2, <1>3 DEF Inv, TypeOK, Placed

(* A step in which a chunk changes its state and others may leave. *)
LEMMA StateInv ==
  ASSUME Inv, NEW c \in chunk, NEW state \in ChunkState,
         chunk' \subseteq (chunk \ {c}) \cup {As(c, state)}, listed' = listed,
         map' \in [Arena -> Record \cup {NoChunk}], Aligned(map'),
         Own(map', As(c, state)), Confined(map, map', c),
         shadow' \in [0 .. Granules -> ShadowByte],
         Shaded(shadow', As(c, state)), Touches(shadow, shadow', c)
  PROVE  Inv'
<1> DEFINE kept == chunk \ {c}
           d == As(c, state)
<1>1. /\ Placed(c) /\ Sized(c) /\ c \in Chunk /\ chunk \subseteq Chunk
      /\ listed \subseteq Starts
  BY Known
<1>2. Placed(d) /\ d \in Chunk /\ d.start = c.start /\ Taken(d) = Taken(c)
  BY <1>1, PlacedAs, SameButState
<1>3. \A e \in kept : Apart(e, c) /\ Apart(c, e)
  BY DEF Inv, Apart
<1>4. \A e \in kept : Own(map', e) /\ Shaded(shadow', e)
  BY <1>1, <1>3, OthersKept
<1>5. \A e \in kept : Apart(d, e)
  BY <1>2, <1>3 DEF Apart
<1>6. TypeOK'
  BY <1>1, <1>2 DEF TypeOK
<1> HIDE DEF d
<1>7. \A e \in {d} : Placed(e) /\ Own(map', e) /\ Shaded(shadow', e)
  BY <1>2 DEF d
<1>8. \A e \in {d} : \A f \in kept \cup {d} : e = f \/ Apart(e, f)
  BY <1>5
<1>9. chunk' \subseteq kept \cup {d} /\ kept \in SUBSET chunk
  BY DEF d
<1>10. QED  BY <1>4, <1>6, <1>7, <1>8, <1>9, InvAfter

LEMMA QuarantineKeeps ==
  ASSUME NEW c, NEW state, Quarantine(c, state)
  PROVE  chunk' \subseteq (chunk \ {c}) \cup {As(c, state)}
  BY DEF Quarantine

LEMMA TouchesNothing ==
  ASSUME NEW c, NEW sh
  PROVE  Touches(sh, sh, c)
  BY DEF Touches

(* FREE for a chunk in reallocation, within the REALLOC or after a failed  *)
(* one, changes only the status.                                           *)
LEMMA MarkFreedInv ==
  ASSUME Inv, NEW c \in chunk, NEW state \in {"bare", "leaving"},
         map' = SetStatus(map, RecordAt(c.start), "DEALLOCATED"),
         Quarantine(c, state), UNCHANGED <<shadow, listed>>
  PROVE  Inv'
<1>1. Placed(c) /\ Sized(c) /\ c \in Chunk /\ Own(map, c) /\ Aligned(map)
  BY Known
<1>2. state \in ChunkState /\ StatusOf(state) = "DEALLOCATED"
  BY DEF ChunkState, StatusOf
<1>3. /\ map \in [Arena -> Record \cup {NoChunk}]
      /\ map' = SetStatus(map, OwnRecord(c), StatusOf(state))
      /\ shadow' \in [0 .. Granules -> ShadowByte]
  BY <1>2, Known
<1>4. /\ map' \in [Arena -> Record \cup {NoChunk}] /\ Aligned(map')
      /\ Own(map', As(c, state)) /\ Confined(map, map', c)
  BY <1>1, <1>2, <1>3, SetStatusOwn
<1>5. Shaded(shadow', As(c, state))
  BY <1>1, <1>2, SameButState DEF Shaded
<1>6. QED
  BY <1>2, <1>3, <1>4, <1>5, QuarantineKeeps, TouchesNothing, StateInv

(* The hooks that poison the granules of a chunk: FREE, and the start of a *)
(* REALLOC.                                                                *)
LEMMA PoisonInv ==
  ASSUME Inv, NEW c \in chunk, NEW state \in {"held", "resizing"},
         map' = SetStatus(map, RecordAt(c.start), StatusOf(state)),
         shadow' = PoisonRecord(shadow, c.start, RecordAt(c.start),
                                IF state = "held" THEN HeapFree ELSE 0),
         chunk' \subseteq (chunk \ {c}) \cup {As(c, state)}, listed' = listed
  PROVE  Inv'
<1> DEFINE value == IF state = "held" THEN HeapFree ELSE 0
           d == As(c, state)
<1>1. Placed(c) /\ Sized(c) /\ c \in Chunk /\ Own(map, c) /\ Aligned(map)
  BY Known
<1>2. state \in ChunkState /\ value \in ShadowByte
  BY SMT DEF ChunkState, ShadowByte, HeapFree
<1>3. /\ map \in [Arena -> Record \cup {NoChunk}]
      /\ map' = SetStatus(map, OwnRecord(c), StatusOf(state))
      /\ shadow \in [0 .. Granules -> ShadowByte]
      /\ shadow' = PoisonRecord(shadow, c.start, OwnRecord(c), value)
  BY Known
<1>4. /\ map' \in [Arena -> Record \cup {NoChunk}] /\ Aligned(map')
      /\ Own(map', d) /\ Confined(map, map', c)
  BY <1>1, <1>2, <1>3, SetStatusOwn
<1>5. /\ d.state = state /\ d.start = c.start /\ User(d) = User(c)
      /\ End(d) = End(c) /\ GranulesOf(d) = GranulesOf(c)
  BY <1>1, <1>2, SameButState
<1> HIDE DEF value, d
<1>6. /\ shadow' \in [0 .. Granules -> ShadowByte]
      /\ \A g \in GranulesOf(c) : shadow'[g] = value
      /\ Touches(shadow, shadow', c)
  BY <1>1, <1>2, <1>3, PoisonRecordOwn
<1>7. CASE state = "held"
  <2>1. Shut(shadow', d)
    BY <1>5, <1>6, <1>7 DEF Shut, value
  <2>2. Shaded(shadow', d)
    BY <1>5, <1>7, <2>1 DEF Shaded
  <2>3. QED  BY <1>2, <1>4, <1>6, <2>2, StateInv DEF d
<1>8. CASE state = "resizing"
  <2>1. Opened(shadow', d)
    <3> SUFFICES ASSUME NEW b \in d.start .. d.start + User(d) - 1
                 PROVE  Open(shadow'[b \div 8], b % 8)
      BY DEF Opened, ShadowGranularity
    <3>1. /\ c.start \in Nat /\ User(c) \in Nat /\ End(c) \in Nat
          /\ c.start + User(c) <= End(c)
      BY <1>1 DEF Sized
    <3>2. b \in Nat /\ c.start <= b /\ b < End(c)
      BY <1>5, <3>1, SMT
    <3>3. End(c) = 8 * (End(c) \div 8) /\ End(c) \div 8 \in Nat
      BY <1>1, Span
    <3>4. b < 8 * (End(c) \div 8)
      BY <3>2, <3>3
    <3>5. b \div 8 \in c.start \div 8 .. End(c) \div 8 - 1
      BY <3>1, <3>2, <3>3, <3>4, Between
    <3>6. b \div 8 \in GranulesOf(c)
      BY <1>1, <3>5, Span
    <3>7. QED  BY <1>6, <1>8, <3>6 DEF Open, value
  <2>2. Shaded(shadow', d)
    BY <1>5, <1>8, <2>1 DEF Shaded
  <2>3. QED  BY <1>2, <1>4, <1>6, <2>2, StateInv DEF d
<1>9. QED  BY <1>7, <1>8

(* The end of a REALLOC that leaves the chunk where it is. *)
LEMMA InPlaceInv ==
  ASSUME Inv, NEW c \in chunk, NEW r \in Requests, ReallocateEndInPlace(c, r)
  PROVE  Inv'
<1> DEFINE d == ChunkAt(c.start, r)
           m == SetStatus(map, RecordAt(c.start), "DEALLOCATED")
           kept == chunk \ {c}
<1>1. /\ Placed(c) /\ Sized(c) /\ c \in Chunk /\ Own(map, c) /\ Aligned(map)
      /\ map \in [Arena -> Record \cup {NoChunk}]
      /\ shadow \in [0 .. Granules -> ShadowByte]
      /\ RecordAt(c.start) = OwnRecord(c)
      /\ chunk \subseteq Chunk /\ listed \subseteq Starts
  BY Known
<1>2. /\ FitsBeside(d, kept) /\ chunk' = kept \cup {d} /\ map' = Insert(m, d)
      /\ shadow' = PoisonNew(shadow, d) /\ listed' = List(d)
  BY DEF ReallocateEndInPlace
<1>3. /\ Placed(d) /\ d.state = "live" /\ d.start = c.start
  <2>1. /\ c.start \in Starts /\ c.start \in Nat /\ r.num \in Nat /\ r.gran \in Nat
        /\ [num |-> r.num, gran |-> r.gran] = r
    <3>1. c.start \in Starts
      BY <1>1 DEF Placed
    <3>2. c.start \in Nat
      BY <1>1 DEF Chunk
    <3>3. r.num \in Nat /\ r.gran \in Nat /\ [num |-> r.num, gran |-> r.gran] = r
      BY HeapAssumption, SMT
    <3>4. QED  BY <3>1, <3>2, <3>3
  <2>2. /\ d \in Chunk /\ d.state = "live" /\ d.start = c.start
        /\ d.num = r.num /\ d.gran = r.gran
    BY <2>1 DEF ChunkAt, Chunk, ChunkState
  <2>3. QED  BY <1>2, <2>1, <2>2 DEF Placed, FitsBeside
<1>4. Sized(d)
  BY <1>3, Extent
<1>5. /\ m \in [Arena -> Record \cup {NoChunk}] /\ Aligned(m) /\ Confined(map, m, c)
  <2>1. "leaving" \in ChunkState /\ StatusOf("leaving") = "DEALLOCATED"
    BY DEF ChunkState, StatusOf
  <2>2. m = SetStatus(map, OwnRecord(c), StatusOf("leaving"))
    BY <1>1, <2>1
  <2> HIDE DEF m
  <2>3. QED  BY <1>1, <2>1, <2>2, SetStatusOwn
<1> HIDE DEF d, m
<1>6. /\ map' \in [Arena -> Record \cup {NoChunk}] /\ Aligned(map')
      /\ Own(map', d) /\ Confined(m, map', d)
  BY <1>2, <1>3, <1>4, <1>5, InsertOwn
<1>7. /\ shadow' \in [0 .. Granules -> ShadowByte]
      /\ Touches(shadow, shadow', d) /\ Shaded(shadow', d)
  BY <1>1, <1>2, <1>3, <1>4, PoisonNewOwn
<1>8. \A e \in kept : Apart(d, e) /\ Apart(e, d)
  BY <1>2 DEF FitsBeside, Apart
<1>9. ASSUME NEW e \in kept
      PROVE  Own(map', e) /\ Shaded(shadow', e)
  <2>1. Placed(e) /\ Sized(e) /\ Own(map, e) /\ Shaded(shadow, e) /\ Apart(e, c)
    BY Known DEF Inv
  <2>2. Own(m, e)
    BY <1>1, <1>5, <2>1, OwnFrame
  <2>3. Own(map', e)
    BY <1>4, <1>6, <1>8, <2>1, <2>2, OwnFrame
  <2>4. Shaded(shadow', e)
    BY <1>4, <1>7, <1>8, <2>1, ShadedFrame
  <2>5. QED  BY <2>3, <2>4
<1>10. TypeOK'
  BY <1>1, <1>2, <1>3, <1>6, <1>7 DEF TypeOK, List, Placed
<1>11. \A e \in {d} : Placed(e) /\ Own(map', e) /\ Shaded(shadow', e)
  BY <1>3, <1>6, <1>7
<1>12. \A e \in {d} : \A f \in kept \cup {d} : e = f \/ Apart(e, f)
  BY <1>8
<1>13. chunk' \subseteq kept \cup {d} /\ kept \in SUBSET chunk
  BY <1>2
<1>14. QED
  BY <1>6, <1>9, <1>10, <1>11, <1>12, <1>13, InvAfter

(* The end of a REALLOC that moves the chunk: its old bytes are poisoned   *)
(* before the new ones, which may overlap them, get their shadow.          *)
LEMMA MovedInv ==
  ASSUME Inv, NEW c \in chunk, NEW p \in Starts, NEW r \in Requests,
         ReallocateEndMoved(c, p, r)
  PROVE  Inv'
<1> DEFINE d == ChunkAt(p, r)
           m == SetStatus(map, RecordAt(c.start), "DEALLOCATED")
           sh == PoisonRecord(shadow, c.start, RecordAt(c.start), HeapFree)
           old == As(c, "held")
           rest == chunk \ {c}
           stay == IF c.state = "leaving" THEN {old} ELSE {}
<1>1. /\ Placed(c) /\ Sized(c) /\ c \in Chunk /\ Own(map, c) /\ Aligned(map)
      /\ map \in [Arena -> Record \cup {NoChunk}]
      /\ shadow \in [0 .. Granules -> ShadowByte]
      /\ RecordAt(c.start) = OwnRecord(c)
      /\ chunk \subseteq Chunk /\ listed \subseteq Starts
  BY Known
<1>2. /\ FitsBeside(d, {e \in chunk : e # c \/ c.state = "leaving"})
      /\ chunk' = rest \cup {d} \cup stay /\ map' = Insert(m, d)
      /\ shadow' = PoisonNew(sh, d) /\ listed' = List(d)
  BY DEF ReallocateEndMoved, MoveShadow
<1>3. Placed(d) /\ d.state = "live"
  <2>1. /\ p \in Nat /\ r.num \in Nat /\ r.gran \in Nat
        /\ [num |-> r.num, gran |-> r.gran] = r
    BY HeapAssumption, SMT
  <2>2. /\ d \in Chunk /\ d.state = "live" /\ d.start = p
        /\ d.num = r.num /\ d.gran = r.gran
    BY <2>1 DEF ChunkAt, Chunk, ChunkState
  <2>3. QED  BY <1>2, <2>1, <2>2 DEF Placed, FitsBeside
<1>4. Sized(d)
  BY <1>3, Extent
<1>5. "held" \in ChunkState /\ StatusOf("held") = "DEALLOCATED"
  BY DEF ChunkState, StatusOf
<1>6. /\ m \in [Arena -> Record \cup {NoChunk}] /\ Aligned(m) /\ Confined(map, m, c)
      /\ Own(m, old)
  <2>1. m = SetStatus(map, OwnRecord(c), StatusOf("held"))
    BY <1>1, <1>5
  <2> HIDE DEF m
  <2>2. QED  BY <1>1, <1>5, <2>1, SetStatusOwn
<1>7. /\ sh \in [0 .. Granules -> ShadowByte] /\ Touches(shadow, sh, c)
      /\ \A g \in GranulesOf(c) : sh[g] = HeapFree
  <2>1. HeapFree \in ShadowByte
    BY DEF ShadowByte
  <2>2. sh = PoisonRecord(shadow, c.start, OwnRecord(c), HeapFree)
    BY <1>1
  <2> HIDE DEF sh
  <2>3. QED  BY <1>1, <2>1, <2>2, PoisonRecordOwn
<1>8. /\ old \in Chunk /\ Placed(old) /\ old.state = "held" /\ old.start = c.start
      /\ Taken(old) = Taken(c) /\ GranulesOf(old) = GranulesOf(c)
  BY <1>1, <1>5, SameButState, PlacedAs
<1>9. Sized(old) /\ Shaded(sh, old)
  BY <1>7, <1>8, Extent DEF Shaded, Shut
<1> HIDE DEF d, m, sh, old
<1>10. /\ map' \in [Arena -> Record \cup {NoChunk}] /\ Aligned(map')
       /\ Own(map', d) /\ Confined(m, map', d)
  BY <1>2, <1>3, <1>4, <1>6, InsertOwn
<1>11. /\ shadow' \in [0 .. Granules -> ShadowByte]
       /\ Touches(sh, shadow', d) /\ Shaded(shadow', d)
  BY <1>2, <1>3, <1>4, <1>7, PoisonNewOwn
<1>12. \A e \in rest : Apart(d, e) /\ Apart(e, d)
  BY <1>2 DEF FitsBeside, Apart
<1>13. ASSUME NEW e \in rest
       PROVE  Own(map', e) /\ Shaded(shadow', e)
  <2>1. Placed(e) /\ Sized(e) /\ Own(map, e) /\ Shaded(shadow, e) /\ Apart(e, c)
    BY Known DEF Inv
  <2>2. Own(m, e) /\ Shaded(sh, e)
    BY <1>1, <1>6, <1>7, <2>1, OwnFrame, ShadedFrame
  <2>3. QED
    BY <1>4, <1>10, <1>11, <1>12, <2>1, <2>2, OwnFrame, ShadedFrame
<1>14. ASSUME c.state = "leaving"
       PROVE  /\ Own(map', old) /\ Shaded(shadow', old)
              /\ Apart(d, old) /\ \A e \in rest : Apart(old, e)
  <2>1. Apart(d, c)
    BY <1>2, <1>14 DEF FitsBeside, Apart
  <2>2. Apart(d, old) /\ Apart(old, d)
    BY <1>8, <2>1 DEF Apart
  <2>3. \A e \in rest : Apart(old, e)
    <3>1. \A e \in rest : Apart(c, e)
      BY DEF Inv
    <3>2. QED  BY <1>8, <3>1 DEF Apart
  <2>4. QED
    BY <1>4, <1>6, <1>8, <1>9, <1>10, <1>11, <2>2, <2>3, OwnFrame, ShadedFrame
<1>15. TypeOK'
  <2>1. chunk' \subseteq Chunk /\ listed' \subseteq Starts
    BY <1>1, <1>2, <1>3, <1>8 DEF List, Placed
  <2>2. QED  BY <1>10, <1>11, <2>1 DEF TypeOK
<1>16. \A e \in {d} \cup stay : Placed(e) /\ Own(map', e) /\ Shaded(shadow', e)
  BY <1>3, <1>8, <1>10, <1>11, <1>14
<1>17. \A e \in {d} \cup stay : \A f \in rest \cup ({d} \cup stay) :
         e = f \/ Apart(e, f)
  BY <1>12, <1>14 DEF Apart
<1>18. chunk' \subseteq rest \cup ({d} \cup stay) /\ rest \in SUBSET chunk
  BY <1>2
<1> HIDE DEF stay
<1>19. QED
  BY <1>10, <1>13, <1>15, <1>16, <1>17, <1>18, InvAfter

-----------------------------------------------------------------------------
(* Every step keeps the invariant. *)
LEMMA NextInv == Inv /\ [Next]_vars => Inv'
<1> SUFFICES ASSUME Inv, [Next]_vars PROVE Inv'
  OBVIOUS
<1>1. CASE \E p \in Starts, r \in Requests : AllocateCMAChunk(p, r)
  BY <1>1, AllocateInv
<1>2. ASSUME NEW c \in chunk, ReleaseInRealloc(c)
      PROVE  Inv'
  BY <1>2, MarkFreedInv DEF ReleaseInRealloc
<1>3. ASSUME NEW c \in chunk, ReleaseCMAChunk(c)
      PROVE  Inv'
  <2>1. StatusOf("held") = "DEALLOCATED"
    BY DEF StatusOf
  <2>2. /\ map' = SetStatus(map, RecordAt(c.start), StatusOf("held"))
        /\ shadow' = PoisonRecord(shadow, c.start, RecordAt(c.start), HeapFree)
        /\ Quarantine(c, "held") /\ listed' = listed
    BY <1>3, <2>1 DEF ReleaseCMAChunk
  <2>3. QED  BY <2>2, QuarantineKeeps, PoisonInv
<1>4. ASSUME NEW c \in chunk, ReallocateCMAChunkStart(c)
      PROVE  Inv'
  <2>1. StatusOf("resizing") = "IN_REALLOC"
    BY DEF StatusOf
  <2>2. /\ map' = SetStatus(map, RecordAt(c.start), StatusOf("resizing"))
        /\ shadow' = PoisonRecord(shadow, c.start, RecordAt(c.start), 0)
        /\ chunk' = (chunk \ {c}) \cup {As(c, "resizing")} /\ listed' = listed
    BY <1>4, <2>1 DEF ReallocateCMAChunkStart
  <2>3. QED  BY <2>2, PoisonInv
<1>5. ASSUME NEW c \in chunk, FreeWithinRealloc(c)
      PROVE  Inv'
  BY <1>5, MarkFreedInv DEF FreeWithinRealloc
<1>6. ASSUME NEW c \in chunk, NEW state \in ChunkState,
             StatusOf(state) = StatusOf(c.state),
             state # "live" /\ state # "held",
             state = "failed" => c.state = "resizing", state # "resizing",
             chunk' = (chunk \ {c}) \cup {As(c, state)},
             UNCHANGED <<map, shadow, listed>>
      PROVE  Inv'
  <2>1. /\ Placed(c) /\ c \in Chunk /\ Own(map, c) /\ Shaded(shadow, c)
        /\ map \in [Arena -> Record \cup {NoChunk}] /\ Aligned(map)
        /\ shadow \in [0 .. Granules -> ShadowByte]
    BY Known
  <2>2. OwnRecord(As(c, state)) = OwnRecord(c) /\ GranulesOf(As(c, state)) = GranulesOf(c)
    BY <1>6, <2>1, SameButState DEF OwnRecord
  <2>3. Own(map, As(c, state))
    BY <2>1, <2>2 DEF Own
  <2>4. Shaded(shadow, As(c, state))
    <3>1. /\ As(c, state).state = state /\ As(c, state).start = c.start
          /\ User(As(c, state)) = User(c)
      BY <2>1, SameButState
    <3>2. QED  BY <1>6, <2>1, <3>1 DEF Shaded, Opened
  <2>5. Confined(map, map, c) /\ Touches(shadow, shadow, c)
    BY DEF Confined, Touches
  <2>6. QED  BY <1>6, <2>1, <2>3, <2>4, <2>5, StateInv
<1>7. ASSUME NEW c \in chunk, ReallocateEndFailed(c)
      PROVE  Inv'
  <2>1. "failed" \in ChunkState /\ StatusOf("failed") = StatusOf("resizing")
    BY DEF ChunkState, StatusOf
  <2>2. QED  BY <1>6, <1>7, <2>1 DEF ReallocateEndFailed
<1>8. ASSUME NEW c \in chunk, ReallocateEndNothing(c)
      PROVE  Inv'
  <2>1. CASE c.state = "resizing" /\ chunk' = chunk \ {c}
    BY <1>8, <2>1 DEF ReallocateEndNothing, Inv, TypeOK
  <2>2. CASE c.state = "leaving" /\ chunk' = (chunk \ {c}) \cup {As(c, "bare")}
    <3>1. "bare" \in ChunkState /\ StatusOf("bare") = StatusOf("leaving")
      BY DEF ChunkState, StatusOf
    <3>2. QED  BY <1>6, <1>8, <2>2, <3>1 DEF ReallocateEndNothing
  <2>3. QED  BY <1>8, <2>1, <2>2 DEF ReallocateEndNothing
<1>9. ASSUME NEW c \in chunk, NEW r \in Requests, ReallocateEndInPlace(c, r)
      PROVE  Inv'
  BY <1>9, InPlaceInv
<1>10. ASSUME NEW c \in chunk, NEW r \in Requests, NEW p \in Starts,
              ReallocateEndMoved(c, p, r)
       PROVE  Inv'
  BY <1>10, MovedInv
<1>11. CASE ClearCMAChunks
  <2>1. map' = [g \in Arena |-> IF map[g] \in Cleared
                                THEN [map[g] EXCEPT !.status = "DEALLOCATED"]
                                ELSE map[g]]
    BY <1>11 DEF ClearCMAChunks
  <2>2. map \in [Arena -> Record \cup {NoChunk}] /\ Aligned(map)
    BY DEF Inv, TypeOK
  <2>3. ASSUME NEW g \in Arena, map[g] \in Cleared
        PROVE  /\ map[g] \in Record /\ map[g] # NoChunk /\ map'[g] \in Record
               /\ map'[g].start = map[g].start /\ map'[g].size = map[g].size
               /\ map'[g].rz = map[g].rz
    <3>1. map[g] # NoChunk
      BY <2>3 DEF Cleared
    <3>2. map[g] \in Record
      BY <2>2, <3>1
    <3>3. map'[g] = [map[g] EXCEPT !.status = "DEALLOCATED"]
      BY <2>1, <2>3
    <3>4. QED  BY <3>1, <3>2, <3>3 DEF Record
  <2>4. ASSUME NEW g \in Arena, map[g] \notin Cleared
        PROVE  map'[g] = map[g]
    BY <2>1, <2>4
  <2>5. map' \in [Arena -> Record \cup {NoChunk}]
    <3>1. \A g \in Arena : map'[g] \in Record \cup {NoChunk}
      BY <2>2, <2>3, <2>4
    <3>2. QED  BY <2>1, <3>1
  <2>6. Aligned(map')
    <3> SUFFICES ASSUME NEW g \in Arena, map'[g] # NoChunk
                 PROVE  /\ (map'[g].start + map'[g].size + map'[g].rz) % 8 = 0
                        /\ g \in PoisonedBy(map'[g])
      BY DEF Aligned, ShadowGranularity
    <3>1. CASE map[g] \in Cleared
      BY <2>2, <2>3, <3>1 DEF Aligned, PoisonedBy, ShadowGranularity
    <3>2. CASE map[g] \notin Cleared
      BY <2>2, <2>4, <3>2 DEF Aligned, ShadowGranularity
    <3>3. QED  BY <3>1, <3>2
  <2>7. shadow' \in [0 .. Granules -> ShadowByte]
    <3>1. shadow \in [0 .. Granules -> ShadowByte] /\ HeapFree \in ShadowByte
      BY DEF Inv, TypeOK, ShadowByte
    <3>2. shadow' = [g \in 0 .. Granules |->
                       IF \E rec \in Cleared : g \in PoisonedBy(rec)
                       THEN HeapFree ELSE shadow[g]]
      BY <1>11 DEF ClearCMAChunks
    <3>3. QED  BY <3>1, <3>2
  <2>8. chunk' = {} /\ listed' = {}
    BY <1>11 DEF ClearCMAChunks
  <2>9. QED  BY <2>5, <2>6, <2>7, <2>8 DEF Inv, TypeOK
<1>12. CASE FlushMmapRange
  <2>1. shadow' \in [0 .. Granules -> ShadowByte]
    <3>1. shadow \in [0 .. Granules -> ShadowByte] /\ 0 \in ShadowByte
      BY SMT DEF Inv, TypeOK, ShadowByte
    <3>2. QED  BY <1>12, <3>1 DEF FlushMmapRange, Poison
  <2>2. QED  BY <1>12, <2>1 DEF FlushMmapRange, Inv, TypeOK
<1>13. CASE UNCHANGED vars
  BY <1>13 DEF vars, Inv, TypeOK
<1>14. QED
  BY <1>1, <1>2, <1>3, <1>4, <1>5, <1>7, <1>8, <1>9, <1>10, <1>11, <1>12, <1>13
     DEF Next

LEMMA InvKept == Spec => []Inv
  BY InitInv, NextInv, PTL DEF Spec

(* The variables of ShadowHeap have their types, whatever the allocator    *)
(* does: in particular no shadow byte is one ASan does not know.           *)
THEOREM TypeCorrect == Spec => []TypeOK
<1>1. Inv => TypeOK
  BY DEF Inv
<1>2. QED  BY <1>1, InvKept, PTL

(* No hook ever fails a CHECK of tlt_insert or PoisonShadow, nor poisons   *)
(* part of a granule.                                                      *)
THEOREM ChecksAlwaysPass == Spec => []ChecksPass
<1>1. Inv => ChecksPass
  BY DEF Inv, Aligned, ChecksPass
<1>2. QED  BY <1>1, InvKept, PTL

(* A chunk in use keeps its record, its status and its size on record.     *)
THEOREM AlwaysAttributed == Spec => []Attributed
<1>1. Inv => Attributed
  <2> SUFFICES ASSUME Inv, NEW c \in chunk, c.state \in {"live", "failed"}
               PROVE  /\ \A g \in GranulesOf(c) :
                           /\ map[g] # NoChunk /\ map[g] = RecordAt(c.start)
                           /\ map[g].start = c.start /\ map[g].size = User(c)
                           /\ map[g].status = IF c.state = "live"
                                              THEN "ALLOCATED" ELSE "IN_REALLOC"
                      /\ c.state = "live"
                           => GetCMAChunkSize(c.start, Taken(c)) = User(c)
    BY DEF Attributed, ProgramsOwn
  <2>1. /\ Placed(c) /\ Sized(c) /\ Own(map, c) /\ RecordAt(c.start) = OwnRecord(c)
    BY Known
  <2>2. OwnRecord(c) # NoChunk
    BY <2>1, OwnRecordSpan
  <2>3. \A g \in GranulesOf(c) : map[g] = OwnRecord(c)
    BY <2>1 DEF Own
  <2>4. StatusOf(c.state) = IF c.state = "live" THEN "ALLOCATED" ELSE "IN_REALLOC"
    BY DEF StatusOf
  <2>5. /\ OwnRecord(c).start = c.start /\ OwnRecord(c).size = User(c)
        /\ OwnRecord(c).status = StatusOf(c.state)
    BY DEF OwnRecord
  <2>6. c.start # 0
    BY <2>1 DEF Sized
  <2>7. c.state = "live" => GetCMAChunkSize(c.start, Taken(c)) = User(c)
    BY <2>1, <2>2, <2>4, <2>5, <2>6 DEF GetCMAChunkSize
  <2>8. QED  BY <2>1, <2>2, <2>3, <2>4, <2>5, <2>7
<1>2. QED  BY <1>1, InvKept, PTL

(* Every byte the program has asked for stays accessible while it has the  *)
(* chunk, whatever is allocated, moved, freed and cleared around it.       *)
THEOREM AlwaysAccessible == Spec => []LiveAccessible
<1>1. Inv => LiveAccessible
  BY DEF Inv, Shaded, Opened, Open, LiveAccessible, Accessible
<1>2. QED  BY <1>1, InvKept, PTL

(* A chunk in use has its redzone, but for bytes in its first granule.     *)
THEOREM RedzoneAlwaysKept == Spec => []RedzoneKept
<1>1. Inv => RedzoneKept
  BY DEF Inv, Shaded, Fenced, Open, RedzoneKept, Accessible
<1>2. QED  BY <1>1, InvKept, PTL

(* A freed chunk in the quarantine stays poisoned behind its first granule.*)
THEOREM FreedAlwaysKept == Spec => []FreedKept
<1>1. Inv => FreedKept
  BY DEF Inv, Shaded, Shut, FreedKept
<1>2. QED  BY <1>1, InvKept, PTL
=============================================================================
