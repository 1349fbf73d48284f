---------------------------- MODULE ArenaProofs ----------------------------
(***************************************************************************)
(* What is proved of CmaArenas, for memory, layers, blocks, chunks and     *)
(* records of any number: its types, the reference counts, that a chunk in *)
(* use is found, and that the two-layer table is the map of granules it    *)
(* stands for.                                                             *)
(*                                                                         *)
(* The argument: an address of the memory has one cell of the table        *)
(* (SameCell), so a chunk takes as many cells as it has granules, and the  *)
(* cells a record loses are counted by Dropped.  A record is pointed to    *)
(* only from granules its chunk covers, so two records of one start and    *)
(* size are never both pointed to, and a record found in a block is not    *)
(* one of a chunk elsewhere.  Of the loops of tlt_update and tlt_release   *)
(* the proofs use only that they change records found in their range.      *)
(***************************************************************************)
EXTENDS CmaArenas, FiniteSetTheorems, TLAPS

Cell == TopIndex \X SecondIndex

CellOf(k) == <<TopIdx(k), SecondIdx(k)>>

(* The cells that point to the record r. *)
Pointed(r) == {ti \in Cell : top[ti[1]] # NoLayer /\ top[ti[1]][ti[2]] = r}

CellsOf(key, size) == {CellOf(k) : k \in Covered(key, size)}

Record == [start : Nat, size : Nat, status : ChunkStatus, cnt : Nat]

Typed ==
  /\ top \in [TopIndex -> [SecondIndex -> Rec \cup {NoRec}] \cup {NoLayer}]
  /\ rec \in [Rec -> Record]

Counted == \A r \in Rec : rec[r].cnt = Cardinality(Pointed(r))

Placed ==
  \A r \in Rec : Pointed(r) \subseteq CellsOf(rec[r].start, rec[r].size)

Unique ==
  \A r, s \in Rec :
    /\ Pointed(r) # {} /\ Pointed(s) # {}
    /\ rec[r].start = rec[s].start /\ rec[r].size = rec[s].size
    => r = s

(* Memory that no cell points to is free. *)
Used == \A r \in Rec : Pointed(r) = {} => rec[r] = Unused

(* The inductive invariant of the table. *)
TableInv == Typed /\ Counted /\ Placed /\ Unique /\ Used

(* The chunks in use are in blocks, apart from each other. *)
Housed == \A c \in chunk : \E b \in block : Bytes(c) \subseteq Bytes(b)

Apart == \A c, d \in chunk : c # d => Bytes(c) \cap Bytes(d) = {}

Live(c) == {[start |-> c.start, size |-> c.size, status |-> s] :
              s \in {"ALLOCATED", "IN_REALLOC"}}

(* The granules of a chunk in use show it. *)
LiveShown == \A c \in chunk : \A k \in Bytes(c) : MapOf(k) \in Live(c)

(* The inductive invariant of the table and its users. *)
Inv ==
  /\ TableInv
  /\ block \subseteq Block /\ chunk \subseteq Chunk
  /\ Housed /\ Apart /\ LiveShown
-----------------------------------------------------------------------------
(* Products and quotients of numbers that are not constants. *)
LEMMA TimesNat == ASSUME NEW m \in Nat, NEW d \in Nat PROVE m * d \in Nat
  OBVIOUS

LEMMA TimesMonotone ==
  ASSUME NEW m \in Nat, NEW x \in Nat, NEW y \in Nat, x < y
  PROVE  m * x + m <= m * y
<1>1. PICK d \in Nat : y = x + 1 + d
  OBVIOUS
<1>2. m * y = m * x + m + m * d
  BY <1>1
<1> QED BY <1>2, TimesNat

LEMMA QuotientBounds ==
  ASSUME NEW k \in Nat, NEW m \in Nat \ {0}
  PROVE  /\ k % m \in 0 .. m - 1 /\ k \div m \in Nat
         /\ k = (m * (k \div m)) + (k % m)
         /\ m * (k \div m) <= k /\ k < m * (k \div m) + m
<1> DEFINE p == m * (k \div m)  r == k % m
<1>1. k \div m \in Nat /\ r \in 0 .. m - 1
  OBVIOUS
<1>2. k = p + r
  OBVIOUS
<1>3. p \in Nat
  BY <1>1, TimesNat
<1> HIDE DEF p, r
<1>4. p <= k /\ k < p + m
  BY <1>1, <1>2, <1>3
<1> QED BY <1>1, <1>2, <1>4 DEF p, r

LEMMA SmallRest ==
  ASSUME NEW m \in Nat \ {0}, NEW q \in Nat, q < m
  PROVE  q % m = q
  BY SMT

LEMMA QuotientUnique ==
  ASSUME NEW n \in Nat, NEW m \in Nat \ {0}, NEW a \in Nat, NEW b \in Nat,
         m * a <= n, n < m * a + m, m * b <= n, n < m * b + m
  PROVE  a = b
<1>1. m * a \in Nat /\ m * b \in Nat
  BY TimesNat
<1>2. ~(a < b)
  BY <1>1, TimesMonotone
<1>3. ~(b < a)
  BY <1>1, TimesMonotone
<1> QED BY <1>2, <1>3

(* The layer of an address is the layer of its granule. *)
LEMMA QuotientTwice ==
  ASSUME NEW k \in Nat, NEW P \in Nat \ {0}
  PROVE  /\ 8 * P \in Nat \ {0}
         /\ k \div (8 * P) = (k \div 8) \div P
<1> DEFINE a == k \div (8 * P)  n == k \div 8  b == n \div P
<1>1. 8 * P \in Nat \ {0}
  OBVIOUS
<1>2. a \in Nat /\ (8 * P) * a <= k /\ k < (8 * P) * a + 8 * P
  BY <1>1, QuotientBounds
<1>3. n \in Nat /\ 8 * n <= k /\ k < 8 * n + 8
  OBVIOUS
<1>4. b \in Nat /\ P * b <= n /\ n < P * b + P
  BY <1>3, QuotientBounds
<1> HIDE DEF a, n, b
<1>5. P * a \in Nat /\ (8 * P) * a = 8 * (P * a)
  BY <1>2, TimesNat
<1>6. P * a <= n /\ n < P * a + P
  BY <1>2, <1>3, <1>5
<1> QED BY <1>1, <1>2, <1>3, <1>4, <1>6, QuotientUnique DEF a, n, b
-----------------------------------------------------------------------------
(* A granule of the memory has a cell of the table. *)
LEMMA CellTyped ==
  ASSUME NEW k \in Memory
  PROVE  /\ k \in Nat /\ TopIdx(k) \in TopIndex /\ SecondIdx(k) \in SecondIndex
         /\ CellOf(k) \in Cell
         /\ k = 8 * (PageNumbers * TopIdx(k) + SecondIdx(k))
<1> DEFINE n == k \div 8  q == n \div PageNumbers
<1>1. /\ k \in Nat /\ k = 8 * n /\ n \in Nat
      /\ k < (TopSize * PageNumbers) * 8
  BY MemoryAssumption, TableAssumption, TimesNat DEF ShadowGranularity
<1>2. /\ q \in Nat /\ PageNumbers * q <= n
      /\ n = (PageNumbers * q) + (n % PageNumbers)
      /\ n % PageNumbers \in 0 .. PageNumbers - 1
  BY <1>1, QuotientBounds, TableAssumption
<1>3. k \div (8 * PageNumbers) = q
  BY <1>1, QuotientTwice, TableAssumption
<1>4. q < TopSize
  <2>1. CASE q = TopSize
    <3>1. PageNumbers * q = TopSize * PageNumbers
      BY <2>1, TableAssumption
    <3> HIDE DEF n, q
    <3> QED BY <1>1, <1>2, <3>1, TimesNat, TableAssumption
  <2>2. CASE TopSize < q
    <3>1. PageNumbers * TopSize + PageNumbers <= PageNumbers * q
      BY <2>2, <1>2, TimesMonotone, TableAssumption
    <3>2. PageNumbers * TopSize = TopSize * PageNumbers
      BY TableAssumption
    <3> HIDE DEF n, q
    <3> QED BY <1>1, <1>2, <3>1, <3>2, TimesNat, TableAssumption
  <2> QED BY <2>1, <2>2, <1>2, TableAssumption
<1> HIDE DEF q
<1>5. q % TopSize = q /\ q \in 0 .. TopSize - 1
  <2>1. q \in Nat /\ q < TopSize /\ TopSize \in Nat \ {0}
    BY <1>2, <1>4, TableAssumption
  <2> QED
    BY <2>1, SmallRest
<1>6. TopIdx(k) = q /\ SecondIdx(k) = n % PageNumbers
  BY <1>3, <1>5 DEF TopIdx, SecondIdx, ShadowGranularity
<1> HIDE DEF n
<1> QED BY <1>1, <1>2, <1>5, <1>6 DEF CellOf, Cell, TopIndex, SecondIndex

LEMMA SameCell ==
  ASSUME NEW k \in Memory, NEW l \in Memory, CellOf(k) = CellOf(l)
  PROVE  k = l
BY CellTyped DEF CellOf

LEMMA ChunkTyped ==
  ASSUME NEW c \in Chunk
  PROVE  /\ c.start \in Nat /\ c.size \in Nat \ {0}
         /\ Covered(c.start, c.size) \subseteq Memory
BY MemoryAssumption
-----------------------------------------------------------------------------
LEMMA CoveredFinite ==
  ASSUME NEW c \in Chunk
  PROVE  /\ IsFiniteSet(Covered(c.start, c.size))
         /\ Covered(c.start, c.size) # {}
<1> DEFINE n == RoundUpTo(c.size, ShadowGranularity) \div ShadowGranularity
           Nth(i) == RoundDownTo(c.start, ShadowGranularity)
                       + ShadowGranularity * i
<1>1. n \in Nat \ {0}
  BY ChunkTyped DEF RoundUpTo, RoundDownTo, ShadowGranularity
<1>2. Covered(c.start, c.size) = {Nth(i) : i \in 0 .. n - 1}
  BY DEF Covered
<1> HIDE DEF n, Nth
<1>3. IsFiniteSet(0 .. n - 1)
  BY <1>1, FS_Interval
<1>4. IsFiniteSet({Nth(i) : i \in 0 .. n - 1})
  <2> DEFINE f == [i \in 0 .. n - 1 |-> Nth(i)]
  <2>1. f \in Surjection(0 .. n - 1, {Nth(i) : i \in 0 .. n - 1})
    BY DEF Surjection
  <2> QED BY <1>3, <2>1, FS_Surjection
<1>5. 0 \in 0 .. n - 1
  BY <1>1
<1> QED BY <1>2, <1>4, <1>5

LEMMA PointedFinite ==
  ASSUME NEW r PROVE IsFiniteSet(Pointed(r))
<1>1. IsFiniteSet(Cell)
  <2>1. IsFiniteSet(TopIndex) /\ IsFiniteSet(SecondIndex)
    BY FS_Interval, TableAssumption DEF TopIndex, SecondIndex
  <2> QED BY <2>1, FS_Product DEF Cell
<1>2. Pointed(r) \in SUBSET Cell
  BY DEF Pointed
<1> QED BY <1>1, <1>2, FS_Subset

(* Some granules of the memory have as many cells. *)
LEMMA AsManyCells ==
  ASSUME NEW K, K \subseteq Memory, IsFiniteSet(K)
  PROVE  Cardinality({CellOf(k) : k \in K}) = Cardinality(K)
<1> DEFINE C == {CellOf(k) : k \in K}
           f == [k \in K |-> CellOf(k)]
<1>1. \A k, l \in K : CellOf(k) = CellOf(l) => k = l
  BY SameCell
<1>2. f \in Bijection(K, C)
  BY <1>1 DEF Bijection, Injection, Surjection, IsInjective
<1> QED BY <1>2, FS_Bijection DEF ExistsBijection

(* What Dropped counts are the cells that pointed to the record. *)
LEMMA DroppedCells ==
  ASSUME Typed, NEW c \in Chunk, NEW q \in Rec
  PROVE  Dropped(q, Covered(c.start, c.size))
           = Cardinality(Pointed(q) \cap CellsOf(c.start, c.size))
<1> DEFINE K == {k \in Covered(c.start, c.size) : PageMayNull(k) = q}
<1>1. K \subseteq Memory /\ IsFiniteSet(K)
  BY ChunkTyped, CoveredFinite, FS_Subset
<1>2. ASSUME NEW k \in Memory
      PROVE  PageMayNull(k) = q <=> CellOf(k) \in Pointed(q)
  BY <1>2, CellTyped, TableAssumption DEF PageMayNull, Pointed, CellOf
<1>3. {CellOf(k) : k \in K} = Pointed(q) \cap CellsOf(c.start, c.size)
  BY <1>2, ChunkTyped DEF CellsOf
<1> QED BY <1>1, <1>3, AsManyCells DEF Dropped
-----------------------------------------------------------------------------
(* The table after an insertion: r has the cells of the chunk, no other    *)
(* record has any of them, and all other cells are as before.              *)
LEMMA InsertedCells ==
  ASSUME Typed, NEW c \in Chunk, NEW r \in Rec, Pointed(r) = {},
         NEW found, TltInsert(found, r, c.start, c.size)
  PROVE  /\ top' \in [TopIndex -> [SecondIndex -> Rec \cup {NoRec}]
                                     \cup {NoLayer}]
         /\ Pointed(r)' = CellsOf(c.start, c.size)
         /\ \A q \in Rec \ {r} :
              Pointed(q)' = Pointed(q) \ CellsOf(c.start, c.size)
<1> DEFINE X == Covered(c.start, c.size)  C == CellsOf(c.start, c.size)
<1> USE TableAssumption
<1>1. X \subseteq Memory
  BY ChunkTyped
<1>2. \A t \in TopIndex : \A i \in SecondIndex :
        <<t, i>> \in C <=> \E k \in X : TopIdx(k) = t /\ SecondIdx(k) = i
  BY DEF CellsOf, CellOf
<1>3. C \subseteq Cell
  BY <1>1, CellTyped DEF CellsOf
<1>4. \A t \in TopIndex :
        top'[t] = IF \E k \in X : TopIdx(k) = t THEN Fill(t, r, X) ELSE top[t]
  BY DEF TltInsert
<1>5. \A t \in TopIndex :
        Fill(t, r, X) \in [SecondIndex -> Rec \cup {NoRec}]
  BY DEF Fill, Typed
<1>6. top' \in [TopIndex -> [SecondIndex -> Rec \cup {NoRec}] \cup {NoLayer}]
  BY <1>5 DEF TltInsert, Typed
<1>7. ASSUME NEW t \in TopIndex, NEW i \in SecondIndex, <<t, i>> \in C
      PROVE  top'[t] # NoLayer /\ top'[t][i] = r
  <2>1. top'[t] = Fill(t, r, X)
    BY <1>2, <1>4, <1>7
  <2>2. Fill(t, r, X)[i] = r
    BY <1>2, <1>7 DEF Fill
  <2> QED BY <2>1, <2>2, <1>5 DEF SecondIndex
<1>8. ASSUME NEW t \in TopIndex, NEW i \in SecondIndex, <<t, i>> \notin C,
             NEW q \in Rec
      PROVE  (top'[t] # NoLayer /\ top'[t][i] = q)
               <=> (top[t] # NoLayer /\ top[t][i] = q)
  <2>1. CASE \E k \in X : TopIdx(k) = t
    <3>1. top'[t] = Fill(t, r, X) /\ top'[t] # NoLayer
      BY <2>1, <1>4, <1>5 DEF SecondIndex
    <3>2. Fill(t, r, X)[i] = IF top[t] = NoLayer THEN NoRec ELSE top[t][i]
      BY <1>2, <1>8 DEF Fill
    <3> QED BY <3>1, <3>2
  <2>2. CASE ~ \E k \in X : TopIdx(k) = t
    BY <2>2, <1>4
  <2> QED BY <2>1, <2>2
<1> HIDE DEF X, C
<1>9. Pointed(r)' = C
  <2>1. ASSUME NEW t \in TopIndex, NEW i \in SecondIndex
        PROVE  <<t, i>> \in C <=> (top'[t] # NoLayer /\ top'[t][i] = r)
    <3>1. <<t, i>> \in Cell /\ <<t, i>> \notin Pointed(r)
      BY DEF Cell
    <3>2. ~(top[t] # NoLayer /\ top[t][i] = r)
      BY <3>1 DEF Pointed
    <3> QED BY <3>2, <1>7, <1>8
  <2> QED BY <2>1, <1>3 DEF Pointed, Cell
<1>10. ASSUME NEW q \in Rec \ {r}
       PROVE  Pointed(q)' = Pointed(q) \ C
  <2>1. ASSUME NEW t \in TopIndex, NEW i \in SecondIndex
        PROVE  (top'[t] # NoLayer /\ top'[t][i] = q)
                 <=> /\ top[t] # NoLayer /\ top[t][i] = q
                     /\ <<t, i>> \notin C
    BY <1>7, <1>8
  <2> QED BY <2>1 DEF Pointed, Cell
<1> QED BY <1>6, <1>9, <1>10 DEF C
-----------------------------------------------------------------------------
(* A record with no granules is not pointed to. *)
LEMMA EmptyNotPointed ==
  ASSUME NEW r \in Rec, Cardinality(Pointed(r)) = 0
  PROVE  Pointed(r) = {}
BY PointedFinite, FS_EmptySet

LEMMA InitTableInv == Init => TableInv
<1> SUFFICES ASSUME Init PROVE TableInv
  OBVIOUS
<1> USE TableAssumption DEF Init, InitTable
<1>1. Typed
  BY DEF Typed, Record, Unused, ChunkStatus
<1>2. \A r \in Rec : Pointed(r) = {}
  BY DEF Pointed, Cell
<1>3. Counted
  BY <1>2, FS_EmptySet DEF Counted, Unused
<1> QED BY <1>1, <1>2, <1>3 DEF TableInv, Placed, Unique, Used

(* The records when some that are pointed to have got a status. *)
Restated(found) ==
  /\ found \in [Rec -> Record]
  /\ \A q \in Rec :
       /\ found[q].start = rec[q].start /\ found[q].size = rec[q].size
       /\ found[q].cnt = rec[q].cnt
       /\ Pointed(q) = {} => found[q] = Unused

LEMMA RecRestated == TableInv => Restated(rec)
BY DEF TableInv, Typed, Used, Restated

LEMMA StatusRestated ==
  ASSUME TableInv, NEW rs, NEW status \in ChunkStatus,
         \A r \in rs \cap Rec : Pointed(r) # {}
  PROVE  Restated(WithStatus(rs, status))
<1> DEFINE found == WithStatus(rs, status)
<1>1. ASSUME NEW q \in Rec
      PROVE  /\ found[q] = IF q \in rs THEN [rec[q] EXCEPT !.status = status]
                           ELSE rec[q]
             /\ rec[q] \in Record
             /\ Pointed(q) = {} => rec[q] = Unused
  BY DEF WithStatus, TableInv, Typed, Used
<1>2. found = [q \in Rec |-> found[q]]
  BY DEF WithStatus
<1> HIDE DEF found
<1>3. ASSUME NEW q \in Rec
      PROVE  /\ found[q] \in Record
             /\ found[q].start = rec[q].start /\ found[q].size = rec[q].size
             /\ found[q].cnt = rec[q].cnt
             /\ Pointed(q) = {} => found[q] = Unused
  BY <1>1 DEF Record
<1>4. found \in [Rec -> Record]
  BY <1>2, <1>3
<1> QED BY <1>3, <1>4 DEF Restated, found

(* A change of the status of records that are pointed to. *)
LEMMA SetStatusInv ==
  ASSUME TableInv, NEW rs, NEW status \in ChunkStatus, SetStatus(rs, status),
         \A r \in rs \cap Rec : Pointed(r) # {}
  PROVE  TableInv'
<1> USE DEF TableInv
<1>1. Typed'
  BY DEF Typed, SetStatus, WithStatus, Record
<1>2. \A r \in Rec : /\ rec'[r].start = rec[r].start
                     /\ rec'[r].size = rec[r].size
                     /\ rec'[r].cnt = rec[r].cnt
  BY DEF Typed, SetStatus, WithStatus, Record
<1>3. \A r : Pointed(r)' = Pointed(r)
  BY DEF SetStatus, Pointed
<1>4. Counted'
  BY <1>2, <1>3 DEF Counted
<1>5. Placed'
  <2>1. ASSUME NEW r \in Rec
        PROVE  Pointed(r)' \subseteq CellsOf(rec'[r].start, rec'[r].size)
    BY <1>2, <1>3 DEF Placed
  <2> QED BY <2>1 DEF Placed, CellsOf, CellOf, Covered, TopIdx, SecondIdx
<1>6. Unique'
  BY <1>2, <1>3 DEF Unique
<1>7. Used'
  <2>1. ASSUME NEW r \in Rec, Pointed(r)' = {}
        PROVE  rec'[r] = Unused
    <3>1. rec[r] = Unused /\ r \notin rs
      BY <1>3, <2>1 DEF Used
    <3> QED BY <3>1 DEF SetStatus, WithStatus
  <2> QED BY <2>1 DEF Used
<1> QED BY <1>1, <1>4, <1>5, <1>6, <1>7

(* What an insertion does to the records. *)
LEMMA InsertedRecords ==
  ASSUME TableInv, NEW found, Restated(found), NEW c \in Chunk, NEW r \in Rec,
         TltInsert(found, r, c.start, c.size)
  PROVE  /\ Typed' /\ Counted'
         /\ Pointed(r) = {}
         /\ Pointed(r)' = CellsOf(c.start, c.size)
         /\ rec'[r] = [start |-> c.start, size |-> c.size,
                       status |-> "ALLOCATED",
                       cnt |-> Cardinality(Covered(c.start, c.size))]
         /\ \A q \in Rec \ {r} :
              /\ Pointed(q)' = Pointed(q) \ CellsOf(c.start, c.size)
              /\ Pointed(q)' # {} => /\ rec'[q].start = rec[q].start
                                     /\ rec'[q].size = rec[q].size
                                     /\ rec'[q].status = found[q].status
         /\ Used'
<1> DEFINE X == Covered(c.start, c.size)  C == CellsOf(c.start, c.size)
<1>1. Typed /\ Counted /\ rec \in [Rec -> Record]
  BY DEF TableInv, Typed
<1>2. Pointed(r) = {}
  <2>1. rec[r].cnt = 0
    BY DEF TltInsert, Unused, Restated
  <2> QED BY <2>1, <1>1, EmptyNotPointed DEF Counted
<1>3. /\ top' \in [TopIndex -> [SecondIndex -> Rec \cup {NoRec}]
                                  \cup {NoLayer}]
      /\ Pointed(r)' = C
      /\ \A q \in Rec \ {r} : Pointed(q)' = Pointed(q) \ C
  BY <1>1, <1>2, InsertedCells
<1>4. /\ IsFiniteSet(X) /\ X \subseteq Memory /\ Cardinality(X) \in Nat
      /\ Cardinality(C) = Cardinality(X)
  BY CoveredFinite, ChunkTyped, AsManyCells, FS_CardinalityType DEF CellsOf
<1>5. rec'[r] = [start |-> c.start, size |-> c.size, status |-> "ALLOCATED",
                 cnt |-> Cardinality(X)]
  BY DEF TltInsert
<1>6. rec'[r] \in Record /\ rec'[r].cnt = Cardinality(Pointed(r)')
  BY <1>3, <1>4, <1>5, ChunkTyped DEF Record, ChunkStatus
<1>7. ASSUME NEW q \in Rec \ {r}
      PROVE  /\ rec'[q] \in Record
             /\ rec'[q].cnt = Cardinality(Pointed(q)')
             /\ rec'[q] = Unused \/ /\ rec'[q].start = rec[q].start
                                    /\ rec'[q].size = rec[q].size
                                    /\ rec'[q].status = found[q].status
             /\ rec'[q].cnt = 0 => rec'[q] = Unused
  <2> DEFINE d == Dropped(q, X)
  <2>1. d = Cardinality(Pointed(q) \cap C)
    BY <1>1, DroppedCells
  <2>2. /\ rec[q].cnt = Cardinality(Pointed(q))
        /\ Cardinality(Pointed(q)') = Cardinality(Pointed(q)) - d
    <3> HIDE DEF d, C
    <3>1. Cardinality(Pointed(q) \ C) = Cardinality(Pointed(q)) - d
      BY <2>1, PointedFinite, FS_Difference
    <3> QED BY <1>1, <1>3, <3>1 DEF Counted
  <2>3. /\ d \in Nat /\ d <= rec[q].cnt /\ rec[q].cnt \in Nat
        /\ Cardinality(Pointed(q)) \in Nat
    <3>1. Pointed(q) \cap C \in SUBSET Pointed(q)
      OBVIOUS
    <3> QED BY <2>1, <2>2, <3>1, PointedFinite, FS_Subset, FS_CardinalityType
  <2>4. rec'[q] = IF d = 0 THEN found[q] ELSE IF d = found[q].cnt THEN Unused
                  ELSE [found[q] EXCEPT !.cnt = @ - d]
    BY DEF TltInsert
  <2> HIDE DEF d
  <2>5. /\ found[q] \in Record /\ found[q].cnt = rec[q].cnt
        /\ found[q].start = rec[q].start /\ found[q].size = rec[q].size
    BY DEF Restated
  <2>6. CASE d = 0
    <3>1. rec[q].cnt = 0 => found[q] = Unused
      BY <2>2, EmptyNotPointed DEF Restated
    <3> QED BY <2>2, <2>3, <2>4, <2>5, <2>6, <3>1
  <2>7. CASE d # 0 /\ d = rec[q].cnt
    BY <2>2, <2>3, <2>4, <2>5, <2>7 DEF Record, Unused, ChunkStatus
  <2>8. CASE d # 0 /\ d # rec[q].cnt
    BY <2>2, <2>3, <2>4, <2>5, <2>8 DEF Record
  <2> QED BY <2>6, <2>7, <2>8
<1>8. Typed'
  <2>1. rec' \in [Rec -> Record]
    <3>1. \A q \in Rec : rec'[q] \in Record
      BY <1>6, <1>7
    <3>2. rec' = [q \in Rec |-> rec'[q]]
      BY DEF TltInsert
    <3> QED BY <3>1, <3>2
  <2> QED BY <2>1, <1>3 DEF Typed
<1>9. Counted'
  BY <1>6, <1>7 DEF Counted
<1>10. ASSUME NEW q \in Rec \ {r}, Pointed(q)' # {}
       PROVE  rec'[q] # Unused
  <2>1. IsFiniteSet(Pointed(q)')
    <3> HIDE DEF C
    <3>1. IsFiniteSet(Pointed(q) \ C)
      BY PointedFinite, FS_Difference
    <3> QED BY <1>3, <3>1
  <2>2. rec'[q].cnt # 0
    BY <1>7, <1>10, <2>1, FS_EmptySet
  <2> QED BY <2>2 DEF Unused
<1>11. Used'
  <2>1. C # {}
    BY CoveredFinite DEF CellsOf
  <2>2. ASSUME NEW q \in Rec, Pointed(q)' = {}
        PROVE  rec'[q] = Unused
    <3> HIDE DEF C
    <3>1. q # r
      BY <1>3, <2>1, <2>2
    <3>2. rec'[q].cnt = 0
      BY <1>7, <2>2, <3>1, FS_EmptySet
    <3> QED BY <1>7, <3>1, <3>2
  <2> QED BY <2>2 DEF Used
<1> QED BY <1>2, <1>3, <1>5, <1>7, <1>8, <1>9, <1>10, <1>11

LEMMA InsertInv ==
  ASSUME TableInv, NEW found, Restated(found), NEW c \in Chunk, NEW r \in Rec,
         TltInsert(found, r, c.start, c.size)
  PROVE  TableInv'
<1> DEFINE C == CellsOf(c.start, c.size)
<1>0. /\ Typed' /\ Counted' /\ Used' /\ Pointed(r)' = C
      /\ rec'[r] = [start |-> c.start, size |-> c.size,
                    status |-> "ALLOCATED",
                    cnt |-> Cardinality(Covered(c.start, c.size))]
      /\ \A q \in Rec \ {r} :
           /\ Pointed(q)' = Pointed(q) \ C
           /\ Pointed(q)' # {} => /\ rec'[q].start = rec[q].start
                                  /\ rec'[q].size = rec[q].size
                                  /\ rec'[q].status = found[q].status
  BY InsertedRecords
<1>1. /\ Typed' /\ Counted' /\ Used' /\ Pointed(r)' = C
      /\ rec'[r].start = c.start /\ rec'[r].size = c.size
  BY <1>0
<1>2. ASSUME NEW q \in Rec \ {r}
      PROVE  /\ Pointed(q)' = Pointed(q) \ C
             /\ Pointed(q) \subseteq CellsOf(rec[q].start, rec[q].size)
             /\ Pointed(q)' # {} => /\ rec'[q].start = rec[q].start
                                    /\ rec'[q].size = rec[q].size
  BY <1>2, <1>0 DEF TableInv, Placed
<1>3. ASSUME NEW q \in Rec
      PROVE  Pointed(q)' \subseteq CellsOf(rec'[q].start, rec'[q].size)
  <2> HIDE DEF C
  <2>1. CASE q = r
    BY <1>1, <2>1 DEF C
  <2>2. CASE q # r /\ Pointed(q)' = {}
    BY <2>2
  <2>3. CASE q # r /\ Pointed(q)' # {}
    BY <1>2, <2>3
  <2> QED BY <2>1, <2>2, <2>3
<1>4. Placed'
  BY <1>3 DEF Placed, CellsOf, CellOf, Covered, TopIdx, SecondIdx
<1>5. ASSUME NEW q \in Rec \ {r}, Pointed(q)' # {},
             rec'[q].start = c.start, rec'[q].size = c.size
      PROVE  FALSE
  BY <1>2, <1>5
<1>6. ASSUME NEW p \in Rec, NEW q \in Rec,
             Pointed(p)' # {}, Pointed(q)' # {},
             rec'[p].start = rec'[q].start, rec'[p].size = rec'[q].size
      PROVE  p = q
  <2>1. CASE p = r \/ q = r
    BY <1>1, <1>5, <1>6, <2>1
  <2>2. CASE p # r /\ q # r
    <3>1. Pointed(p) # {} /\ Pointed(q) # {}
      BY <1>2, <1>6, <2>2
    <3>2. rec[p].start = rec[q].start /\ rec[p].size = rec[q].size
      BY <1>2, <1>6, <2>2
    <3> QED BY <3>1, <3>2 DEF TableInv, Unique
  <2> QED BY <2>1, <2>2
<1>7. Unique'
  BY <1>6 DEF Unique
<1> QED BY <1>1, <1>4, <1>7 DEF TableInv
-----------------------------------------------------------------------------
LEMMA InitMap == Init => Map!Init
<1> SUFFICES ASSUME Init, NEW k \in Memory PROVE MapOf(k) = NoChunk
  BY DEF Map!Init
<1>1. top[TopIdx(k)] = NoLayer
  BY CellTyped DEF Init, InitTable
<1> QED BY <1>1 DEF MapOf, PageMayNull

(* What a granule shows, by the cell that holds it. *)
LEMMA MapTyped ==
  ASSUME Typed, NEW k \in Memory
  PROVE  \/ MapOf(k) = NoChunk /\ PageMayNull(k) = NoRec
         \/ \E r \in Rec :
              /\ PageMayNull(k) = r /\ CellOf(k) \in Pointed(r)
              /\ MapOf(k) = [start |-> rec[r].start, size |-> rec[r].size,
                             status |-> rec[r].status]
              /\ MapOf(k) # NoChunk
<1>1. TopIdx(k) \in TopIndex /\ SecondIdx(k) \in SecondIndex
      /\ CellOf(k) \in Cell
  BY CellTyped
<1>2. PageMayNull(k) \in Rec \cup {NoRec}
  BY <1>1, TableAssumption DEF Typed, PageMayNull
<1>3. CASE PageMayNull(k) = NoRec
  BY <1>3 DEF MapOf
<1>4. CASE PageMayNull(k) \in Rec
  <2> DEFINE r == PageMayNull(k)
  <2>1. r # NoRec
    BY <1>4, TableAssumption
  <2>2. CellOf(k) \in Pointed(r)
    BY <1>1, <2>1 DEF PageMayNull, Pointed, CellOf
  <2>3. MapOf(k) = [start |-> rec[r].start, size |-> rec[r].size,
                    status |-> rec[r].status]
    BY <2>1 DEF MapOf
  <2>4. MapOf(k) # NoChunk
    BY <1>4, <2>3, MemoryAssumption DEF Typed, Record
  <2> QED BY <1>4, <2>2, <2>3, <2>4
<1> QED BY <1>2, <1>3, <1>4

(* What the granules show after a change of the status of some records. *)
LEMMA SetStatusShows ==
  ASSUME TableInv, NEW rs, NEW status \in ChunkStatus, SetStatus(rs, status),
         NEW k \in Memory
  PROVE  MapOf(k)' = IF PageMayNull(k) \in rs \cap Rec
                     THEN [MapOf(k) EXCEPT !.status = status]
                     ELSE MapOf(k)
<1>1. PageMayNull(k)' = PageMayNull(k)
  BY DEF SetStatus, PageMayNull, TopIdx, SecondIdx
<1>2. CASE PageMayNull(k) = NoRec
  BY <1>1, <1>2, TableAssumption DEF MapOf
<1>3. CASE PageMayNull(k) # NoRec
  <2> DEFINE r == PageMayNull(k)
  <2>1. r \in Rec /\ rec[r] \in Record
    BY <1>3, MapTyped DEF TableInv, Typed
  <2>2. MapOf(k) = [start |-> rec[r].start, size |-> rec[r].size,
                    status |-> rec[r].status]
    BY <1>3 DEF MapOf
  <2>3. MapOf(k)' = [start |-> rec'[r].start, size |-> rec'[r].size,
                     status |-> rec'[r].status]
    BY <1>1, <1>3 DEF MapOf
  <2>4. rec'[r] = IF r \in rs THEN [rec[r] EXCEPT !.status = status]
                  ELSE rec[r]
    BY <2>1 DEF SetStatus, WithStatus
  <2> HIDE DEF r
  <2>5. CASE r \in rs
    BY <2>1, <2>2, <2>3, <2>4, <2>5 DEF Record, r
  <2>6. CASE r \notin rs
    BY <2>1, <2>2, <2>3, <2>4, <2>6 DEF r
  <2> QED BY <2>5, <2>6
<1> QED BY <1>2, <1>3

(* A change of the status of some records marks their chunks. *)
LEMMA SetStatusMarks ==
  ASSUME TableInv, NEW rs, NEW status \in ChunkStatus, SetStatus(rs, status)
  PROVE  Map!Mark(status)
<1> DEFINE m == [k \in Memory |-> MapOf(k)]
<1>1. ASSUME NEW k \in Memory
      PROVE  MapOf(k)' = IF PageMayNull(k) \in rs \cap Rec
                         THEN [MapOf(k) EXCEPT !.status = status]
                         ELSE MapOf(k)
  BY SetStatusShows
<1>2. ASSUME NEW g \in Memory
      PROVE  \/ m'[g] = m[g]
             \/ m[g] # NoChunk /\ m'[g] = [m[g] EXCEPT !.status = status]
  <2>1. PageMayNull(g) \in Rec => MapOf(g) # NoChunk
    BY MapTyped, TableAssumption DEF TableInv
  <2> QED BY <1>1, <2>1
<1>3. ASSUME NEW g \in Memory, NEW h \in Memory,
             MapOf(g) # NoChunk, MapOf(h) # NoChunk,
             MapOf(g).start = MapOf(h).start, MapOf(g).size = MapOf(h).size
      PROVE  m'[g] = m'[h]
  <2>1. PICK r \in Rec :
          /\ PageMayNull(g) = r /\ CellOf(g) \in Pointed(r)
          /\ MapOf(g) = [start |-> rec[r].start, size |-> rec[r].size,
                         status |-> rec[r].status]
    BY <1>3, MapTyped DEF TableInv
  <2>2. PICK s \in Rec :
          /\ PageMayNull(h) = s /\ CellOf(h) \in Pointed(s)
          /\ MapOf(h) = [start |-> rec[s].start, size |-> rec[s].size,
                         status |-> rec[s].status]
    BY <1>3, MapTyped DEF TableInv
  <2>3. rec[r].start = rec[s].start /\ rec[r].size = rec[s].size
    BY <1>3, <2>1, <2>2
  <2>4. Pointed(r) # {} /\ Pointed(s) # {}
    BY <2>1, <2>2
  <2>5. r = s
    BY <2>3, <2>4 DEF TableInv, Unique
  <2>6. PageMayNull(g) = PageMayNull(h) /\ MapOf(g) = MapOf(h)
    BY <2>1, <2>2, <2>5
  <2> QED BY <1>1, <2>6
<1> QED BY <1>2, <1>3 DEF Map!Mark, Map!Same

(* The granules after an insertion: those of the chunk show it, the others *)
(* what they did, with the status that the caller has left in the record.  *)
New(c) == [start |-> c.start, size |-> c.size, status |-> "ALLOCATED"]

LEMMA InsertShows ==
  ASSUME TableInv, TableInv', NEW found, Restated(found),
         NEW c \in Chunk, NEW r \in Rec, TltInsert(found, r, c.start, c.size),
         NEW k \in Memory
  PROVE  /\ k \in Bytes(c) => MapOf(k)' = New(c)
         /\ k \notin Bytes(c) /\ PageMayNull(k) = NoRec =>
              MapOf(k)' = NoChunk
         /\ \A q \in Rec : k \notin Bytes(c) /\ PageMayNull(k) = q =>
              MapOf(k)' = [start |-> rec[q].start, size |-> rec[q].size,
                           status |-> found[q].status]
<1> DEFINE X == Covered(c.start, c.size)  C == CellsOf(c.start, c.size)
<1>1. /\ Pointed(r) = {} /\ Pointed(r)' = C
      /\ rec'[r] = [start |-> c.start, size |-> c.size,
                    status |-> "ALLOCATED", cnt |-> Cardinality(X)]
      /\ \A q \in Rec \ {r} :
           /\ Pointed(q)' = Pointed(q) \ C
           /\ Pointed(q)' # {} => /\ rec'[q].start = rec[q].start
                                  /\ rec'[q].size = rec[q].size
                                  /\ rec'[q].status = found[q].status
  BY InsertedRecords
<1>2. CellOf(k) \in C <=> k \in X
  BY ChunkTyped, SameCell DEF CellsOf
<1>3. \A q \in Rec : PageMayNull(k)' = q <=> CellOf(k) \in Pointed(q)'
  BY CellTyped, TableAssumption
    DEF PageMayNull, Pointed, CellOf, TopIdx, SecondIdx
<1>4. \A q \in Rec : PageMayNull(k) = q <=> CellOf(k) \in Pointed(q)
  BY CellTyped, TableAssumption DEF PageMayNull, Pointed, CellOf
<1>5. /\ PageMayNull(k)' \in Rec \cup {NoRec}
      /\ PageMayNull(k) \in Rec \cup {NoRec}
  BY CellTyped, TableAssumption
    DEF TableInv, Typed, PageMayNull, TopIdx, SecondIdx
<1>6. Bytes(c) = X
  BY DEF Bytes
<1> HIDE DEF X, C
<1>7. ASSUME k \in X
      PROVE  MapOf(k)' = New(c)
  <2>1. PageMayNull(k)' = r
    BY <1>1, <1>2, <1>3, <1>7
  <2> QED BY <2>1, <1>1, TableAssumption DEF MapOf, New
<1>8. ASSUME k \notin X, PageMayNull(k) = NoRec
      PROVE  MapOf(k)' = NoChunk
  <2>1. \A q \in Rec : CellOf(k) \notin Pointed(q)
    BY <1>4, <1>8, TableAssumption
  <2>2. \A q \in Rec : CellOf(k) \notin Pointed(q)'
    BY <2>1, <1>1, <1>2, <1>8
  <2>3. PageMayNull(k)' = NoRec
    BY <2>2, <1>3, <1>5
  <2> QED BY <2>3 DEF MapOf
<1>9. ASSUME k \notin X, NEW q \in Rec, PageMayNull(k) = q
      PROVE  MapOf(k)' = [start |-> rec[q].start, size |-> rec[q].size,
                          status |-> found[q].status]
  <2>1. q # r /\ CellOf(k) \in Pointed(q)
    BY <1>1, <1>4, <1>9
  <2>2. CellOf(k) \in Pointed(q)'
    BY <2>1, <1>1, <1>2, <1>9
  <2>3. PageMayNull(k)' = q /\ q # NoRec
    BY <2>2, <1>3, TableAssumption
  <2>4. /\ rec'[q].start = rec[q].start /\ rec'[q].size = rec[q].size
        /\ rec'[q].status = found[q].status
    BY <2>1, <2>2, <1>1
  <2> QED BY <2>3, <2>4 DEF MapOf
<1> QED BY <1>6, <1>7, <1>8, <1>9

(* A record inserted for a chunk takes the granules of the chunk. *)
LEMMA InsertTakes ==
  ASSUME TableInv, TableInv', NEW c \in Chunk, NEW r \in Rec,
         TltInsert(rec, r, c.start, c.size)
  PROVE  /\ \A k \in Memory : MapOf(k)' = IF k \in Bytes(c) THEN New(c)
                                          ELSE MapOf(k)
         /\ Map!Insert(c)
<1>1. ASSUME NEW k \in Memory
      PROVE  MapOf(k)' = IF k \in Bytes(c) THEN New(c) ELSE MapOf(k)
  <2>1. CASE k \in Bytes(c)
    BY <2>1, RecRestated, InsertShows
  <2>2. CASE k \notin Bytes(c) /\ PageMayNull(k) = NoRec
    BY <2>2, RecRestated, InsertShows DEF MapOf
  <2>3. CASE k \notin Bytes(c) /\ PageMayNull(k) \in Rec
    <3>1. MapOf(k)' = [start |-> rec[PageMayNull(k)].start,
                       size |-> rec[PageMayNull(k)].size,
                       status |-> rec[PageMayNull(k)].status]
      BY <2>3, RecRestated, InsertShows
    <3> QED BY <2>3, <3>1, TableAssumption DEF MapOf
  <2> QED BY <2>1, <2>2, <2>3, MapTyped DEF TableInv
<1>2. [k \in Memory |-> MapOf(k)]'
        = [k \in Memory |-> IF k \in Bytes(c) THEN New(c) ELSE MapOf(k)]
  BY <1>1
<1> QED BY <1>1, <1>2 DEF Map!Insert, New

(* A chunk resized where it is: what is left of the old one is freed. *)
LEMMA ResizeTakes ==
  ASSUME TableInv, TableInv', NEW c \in Chunk, NEW r \in Rec,
         NEW h \in Bytes(c), NEW p \in Rec, PageMayNull(h) = p,
         TltInsert(WithStatus({p}, "DEALLOCATED"), r, c.start, c.size)
  PROVE  /\ \A k \in Memory :
              /\ k \in Bytes(c) => MapOf(k)' = New(c)
              /\ k \notin Bytes(c) /\ PageMayNull(k) # p =>
                   MapOf(k)' = MapOf(k)
         /\ Map!Resize(c)
<1> DEFINE found == WithStatus({p}, "DEALLOCATED")
           freed(k) == [MapOf(k) EXCEPT !.status = "DEALLOCATED"]
           m == [k \in Memory |-> MapOf(k)]
<1>1. h \in Memory /\ CellOf(h) \in Pointed(p) /\ p # NoRec
      /\ MapOf(h) = [start |-> rec[p].start, size |-> rec[p].size,
                     status |-> rec[p].status]
      /\ MapOf(h) # NoChunk
  <2>1. h \in Memory
    BY ChunkTyped DEF Bytes
  <2> QED BY <2>1, MapTyped, TableAssumption DEF TableInv
<1>2. Restated(found)
  BY <1>1, StatusRestated DEF ChunkStatus
<1>3. \A q \in Rec : found[q].status = IF q = p THEN "DEALLOCATED"
                                      ELSE rec[q].status
  BY DEF WithStatus, TableInv, Typed, Record
<1> HIDE DEF found
<1>4. ASSUME NEW k \in Memory
      PROVE  Map!Same(k, h) <=> PageMayNull(k) = p
  <2>1. CASE PageMayNull(k) = NoRec
    BY <2>1, <1>1 DEF Map!Same, MapOf
  <2>2. CASE PageMayNull(k) # NoRec
    <3>1. PICK q \in Rec :
            /\ PageMayNull(k) = q /\ CellOf(k) \in Pointed(q)
            /\ MapOf(k) = [start |-> rec[q].start, size |-> rec[q].size,
                           status |-> rec[q].status]
            /\ MapOf(k) # NoChunk
      BY <2>2, MapTyped DEF TableInv
    <3>2. Map!Same(k, h) <=> /\ rec[q].start = rec[p].start
                             /\ rec[q].size = rec[p].size
      BY <3>1, <1>1 DEF Map!Same
    <3>3. rec[q].start = rec[p].start /\ rec[q].size = rec[p].size => q = p
      BY <3>1, <1>1 DEF TableInv, Unique
    <3> QED BY <3>1, <3>2, <3>3
  <2> QED BY <2>1, <2>2
<1>5. ASSUME NEW k \in Memory
      PROVE  MapOf(k)' = IF k \in Bytes(c) THEN New(c)
                         ELSE IF PageMayNull(k) = p THEN freed(k)
                         ELSE MapOf(k)
  <2>1. CASE k \in Bytes(c)
    BY <2>1, <1>2, InsertShows DEF found
  <2>2. CASE k \notin Bytes(c) /\ PageMayNull(k) = NoRec
    <3>1. MapOf(k)' = NoChunk
      BY <2>2, <1>2, InsertShows DEF found
    <3> QED BY <2>2, <3>1, <1>1 DEF MapOf
  <2>3. CASE k \notin Bytes(c) /\ PageMayNull(k) \in Rec
    <3> DEFINE q == PageMayNull(k)
    <3>1. MapOf(k)' = [start |-> rec[q].start, size |-> rec[q].size,
                       status |-> found[q].status]
      BY <2>3, <1>2, InsertShows DEF found
    <3>2. MapOf(k) = [start |-> rec[q].start, size |-> rec[q].size,
                      status |-> rec[q].status]
      BY <2>3, TableAssumption DEF MapOf
    <3> HIDE DEF q
    <3>3. q \in Rec
      BY <2>3 DEF q
    <3>4. MapOf(k)' = IF q = p THEN freed(k) ELSE MapOf(k)
      BY <3>1, <3>2, <3>3, <1>3
    <3> QED BY <2>3, <3>4 DEF q
  <2> QED BY <2>1, <2>2, <2>3, MapTyped DEF TableInv
<1>6. m' = [k \in Memory |-> IF k \in Bytes(c) THEN New(c)
                            ELSE IF Map!Same(k, h) THEN freed(k)
                            ELSE MapOf(k)]
  BY <1>4, <1>5
<1>7. Map!Resize(c)
  BY <1>6 DEF Map!Resize, New
<1> QED BY <1>5, <1>7

-----------------------------------------------------------------------------
(* The records found at some granules. *)
FoundIn(K) == {TltGet(k) : k \in K} \ {NoRec}

LEMMA UpdateFinds ==
  ASSUME NEW key, NEW size, NEW expected
  PROVE  Updated(key, size, expected) \subseteq FoundIn(Covered(key, size))
BY DEF Updated, FoundIn

LEMMA ReleaseFinds ==
  ASSUME NEW key, NEW size, NEW first, NEW step
  PROVE  Found(key, size, first, step) \subseteq FoundIn(Covered(key, size))
BY DEF Found, FoundIn

LEMMA FoundPointed ==
  ASSUME Typed, NEW K, K \subseteq Memory, NEW r \in FoundIn(K)
  PROVE  /\ r \in Rec
         /\ \E k \in K : PageMayNull(k) = r /\ CellOf(k) \in Pointed(r)
<1>1. PICK k \in K : r = TltGet(k) /\ r # NoRec
  BY DEF FoundIn
<1>2. PageMayNull(k) = r
  BY <1>1 DEF TltGet
<1> QED BY <1>1, <1>2, MapTyped

(* A record found at other granules is not that of a chunk in use. *)
LEMMA OtherRecord ==
  ASSUME TableInv, NEW c \in Chunk, NEW K, K \subseteq Memory,
         K \cap Bytes(c) = {},
         NEW l \in Memory, MapOf(l) \in Live(c)
  PROVE  PageMayNull(l) \notin FoundIn(K)
<1> SUFFICES ASSUME PageMayNull(l) \in FoundIn(K) PROVE FALSE
  OBVIOUS
<1> DEFINE r == PageMayNull(l)
<1>1. /\ r \in Rec /\ r # NoRec
      /\ \E k \in K : CellOf(k) \in Pointed(r)
  BY FoundPointed DEF TableInv, FoundIn
<1>2. rec[r].start = c.start /\ rec[r].size = c.size
  <2>1. MapOf(l) = [start |-> rec[r].start, size |-> rec[r].size,
                    status |-> rec[r].status]
    BY <1>1 DEF MapOf
  <2> HIDE DEF r
  <2> QED BY <2>1 DEF Live
<1> HIDE DEF r
<1>3. Pointed(r) \subseteq CellsOf(c.start, c.size)
  BY <1>1, <1>2 DEF TableInv, Placed
<1>4. PICK k \in K : \E g \in Bytes(c) : CellOf(k) = CellOf(g)
  BY <1>1, <1>3 DEF CellsOf, Bytes
<1>5. k \in Bytes(c)
  BY <1>4, SameCell, ChunkTyped DEF Bytes
<1> QED BY <1>5

LEMMA BlockTyped ==
  ASSUME NEW b \in Block
  PROVE  Bytes(b) \subseteq Memory /\ Covered(b.start, 0) = {}
<1>1. RoundUpTo(0, ShadowGranularity) \div ShadowGranularity - 1 = -1
  BY DEF RoundUpTo, RoundDownTo, ShadowGranularity
<1>2. 0 .. -1 = {}
  OBVIOUS
<1> QED BY <1>1, <1>2 DEF Covered, Block

(* The cell of an address is that of its granule, the first of its chunk. *)
LEMMA StartGranule ==
  ASSUME NEW c \in Chunk
  PROVE  /\ RoundDownTo(c.start, ShadowGranularity) \in Bytes(c)
         /\ TltGet(RoundDownTo(c.start, ShadowGranularity)) = TltGet(c.start)
<1> DEFINE g == RoundDownTo(c.start, ShadowGranularity)
<1> USE DEF ShadowGranularity
<1>1. RoundUpTo(c.size, 8) \div 8 - 1 \in Nat
  BY ChunkTyped DEF RoundUpTo, RoundDownTo
<1>2. 0 \in 0 .. RoundUpTo(c.size, 8) \div 8 - 1
  BY <1>1
<1>3. /\ g \in Nat /\ g = g + 8 * 0
      /\ g \div 8 = c.start \div 8
  BY ChunkTyped DEF RoundDownTo
<1>4. g \in Bytes(c)
  BY <1>2, <1>3 DEF Bytes, Covered
<1>5. TopIdx(g) = TopIdx(c.start) /\ SecondIdx(g) = SecondIdx(c.start)
  <2>1. g \div (8 * PageNumbers) = c.start \div (8 * PageNumbers)
    <3> HIDE DEF g
    <3>1. g \div (8 * PageNumbers) = (g \div 8) \div PageNumbers
      BY <1>3, QuotientTwice, TableAssumption
    <3>2. c.start \div (8 * PageNumbers) = (c.start \div 8) \div PageNumbers
      BY ChunkTyped, QuotientTwice, TableAssumption
    <3> QED BY <1>3, <3>1, <3>2
  <2> QED BY <1>3, <2>1 DEF TopIdx, SecondIdx
<1>6. TltGet(g) = TltGet(c.start)
  <2> HIDE DEF g
  <2> QED BY <1>5 DEF TltGet, PageMayNull
<1> QED BY <1>4, <1>6

(* A change of status leaves a chunk in use shown, if its record is not    *)
(* among those changed or REALLOC opens it.                                *)
LEMMA StillShown ==
  ASSUME TableInv, NEW rs, NEW status \in ChunkStatus, SetStatus(rs, status),
         NEW c \in Chunk, NEW k \in Memory, MapOf(k) \in Live(c),
         PageMayNull(k) \notin rs \/ status = "IN_REALLOC"
  PROVE  MapOf(k)' \in Live(c)
<1>1. CASE MapOf(k)' = MapOf(k)
  BY <1>1
<1>2. CASE MapOf(k)' = [MapOf(k) EXCEPT !.status = "IN_REALLOC"]
  BY <1>2 DEF Live
<1> QED BY <1>1, <1>2, SetStatusShows

(* The actions in turn. *)
LEMMA AllocateInv ==
  ASSUME Inv, NEW b \in Block, Allocate(b)
  PROVE  Inv'
<1> DEFINE rs == Found(b.start, b.size, 0, MinimumChunkSize)
                   \cup Found(b.start, b.size,
                              RoundDownTo(b.size, MinimumChunkSize),
                              ShadowGranularity)
<1>1. /\ SetStatus(rs, "NONE") /\ "NONE" \in ChunkStatus
      /\ block' = block \cup {b} /\ chunk' = chunk
      /\ \A d \in block : Bytes(b) \cap Bytes(d) = {}
  BY DEF Allocate, TltRelease, ChunkStatus
<1>2. rs \subseteq FoundIn(Bytes(b)) /\ Bytes(b) \subseteq Memory
  BY ReleaseFinds, BlockTyped DEF Bytes
<1> HIDE DEF rs
<1>3. \A r \in rs : Pointed(r) # {}
  BY <1>2, FoundPointed DEF Inv, TableInv
<1>4. TableInv'
  BY <1>1, <1>3, SetStatusInv DEF Inv
<1>5. ASSUME NEW c \in chunk, NEW k \in Bytes(c)
      PROVE  MapOf(k)' \in Live(c)
  <2>1. c \in Chunk /\ k \in Memory /\ MapOf(k) \in Live(c)
    BY <1>5, ChunkTyped DEF Inv, LiveShown, Bytes
  <2>2. Bytes(b) \cap Bytes(c) = {}
    BY <1>1, <1>5 DEF Inv, Housed
  <2>3. PageMayNull(k) \notin rs
    BY <1>2, <2>1, <2>2, OtherRecord DEF Inv
  <2> QED BY <1>1, <2>1, <2>3, StillShown DEF Inv
<1>6. LiveShown'
  BY <1>1, <1>5 DEF LiveShown, Bytes, Covered, Live
<1>7. Housed' /\ Apart'
  BY <1>1 DEF Inv, Housed, Apart, Bytes, Covered
<1>8. block' \subseteq Block /\ chunk' \subseteq Chunk
  BY <1>1 DEF Inv
<1> QED BY <1>4, <1>6, <1>7, <1>8 DEF Inv, Block, Bytes, Covered

LEMMA DeallocateInv ==
  ASSUME Inv, NEW b \in Block, NEW deleteSize \in {0, b.size},
         Deallocate(b, deleteSize)
  PROVE  Inv'
<1> DEFINE rs == Updated(b.start, deleteSize, "ALLOCATED")
<1>1. /\ SetStatus(rs, "DEALLOCATED") /\ "DEALLOCATED" \in ChunkStatus
      /\ block' = block \ {b}
      /\ chunk' = {c \in chunk : Bytes(c) \cap Bytes(b) = {}}
  BY DEF Deallocate, TltUpdate, ChunkStatus
<1>2. rs \subseteq FoundIn(Bytes(b)) /\ Bytes(b) \subseteq Memory
  <2>1. rs \subseteq FoundIn(Covered(b.start, deleteSize))
    BY UpdateFinds
  <2>2. Covered(b.start, deleteSize) \subseteq Bytes(b)
    BY BlockTyped DEF Bytes
  <2> QED BY <2>1, <2>2, BlockTyped DEF FoundIn
<1> HIDE DEF rs
<1>3. \A r \in rs : Pointed(r) # {}
  BY <1>2, FoundPointed DEF Inv, TableInv
<1>4. TableInv'
  BY <1>1, <1>3, SetStatusInv DEF Inv
<1>5. ASSUME NEW c \in chunk', NEW k \in Bytes(c)
      PROVE  MapOf(k)' \in Live(c)
  <2>1. c \in Chunk /\ k \in Memory /\ MapOf(k) \in Live(c)
    BY <1>1, <1>5, ChunkTyped DEF Inv, LiveShown, Bytes
  <2>2. Bytes(b) \cap Bytes(c) = {}
    BY <1>1, <1>5
  <2>3. PageMayNull(k) \notin rs
    BY <1>2, <2>1, <2>2, OtherRecord DEF Inv
  <2> QED BY <1>1, <2>1, <2>3, StillShown DEF Inv
<1>6. LiveShown'
  BY <1>5 DEF LiveShown, Bytes, Covered, Live
<1>7. Housed'
  <2>1. ASSUME NEW c \in chunk'
        PROVE  \E d \in block' : Bytes(c) \subseteq Bytes(d)
    <3>1. PICK d \in block : Bytes(c) \subseteq Bytes(d)
      BY <1>1, <2>1 DEF Inv, Housed
    <3>2. Bytes(c) # {} /\ Bytes(c) \cap Bytes(b) = {}
      BY <1>1, <2>1, CoveredFinite DEF Inv, Bytes
    <3> QED BY <1>1, <3>1, <3>2
  <2> QED BY <2>1 DEF Housed, Bytes, Covered
<1>8. Apart'
  BY <1>1 DEF Inv, Apart, Bytes, Covered
<1>9. block' \subseteq Block /\ chunk' \subseteq Chunk
  BY <1>1 DEF Inv
<1> QED BY <1>4, <1>6, <1>7, <1>8, <1>9 DEF Inv, Block, Bytes, Covered

LEMMA InsertChunkInv ==
  ASSUME Inv, NEW c \in Chunk, InsertChunk(c)
  PROVE  Inv'
<1>1. PICK r \in Rec : TltInsert(rec, r, c.start, c.size)
  BY DEF InsertChunk
<1>2. /\ \E b \in block : Bytes(c) \subseteq Bytes(b)
      /\ \A d \in chunk : Bytes(c) \cap Bytes(d) = {}
      /\ chunk' = chunk \cup {c}
      /\ block' = block
  BY DEF InsertChunk, Fits, StartsAt
<1>3. TableInv'
  BY <1>1, RecRestated, InsertInv DEF Inv
<1>4. \A k \in Memory : MapOf(k)' = IF k \in Bytes(c) THEN New(c)
                                   ELSE MapOf(k)
  BY <1>1, <1>3, InsertTakes DEF Inv
<1>5. ASSUME NEW d \in chunk', NEW k \in Bytes(d)
      PROVE  MapOf(k)' \in Live(d)
  <2>1. d \in Chunk /\ k \in Memory
    BY <1>2, <1>5, ChunkTyped DEF Inv, Bytes
  <2>2. CASE d = c
    BY <1>4, <1>5, <2>1, <2>2 DEF Live, New
  <2>3. CASE d # c
    <3>1. d \in chunk /\ k \notin Bytes(c)
      BY <1>2, <1>5, <2>3
    <3> QED BY <1>4, <1>5, <2>1, <3>1 DEF Inv, LiveShown
  <2> QED BY <2>2, <2>3
<1>6. LiveShown'
  BY <1>5 DEF LiveShown, Bytes, Covered, Live
<1>7. Housed' /\ Apart'
  <2>1. \A d \in chunk' : \E b \in block' : Bytes(d) \subseteq Bytes(b)
    BY <1>2 DEF Inv, Housed
  <2>2. \A d, e \in chunk' : d # e => Bytes(d) \cap Bytes(e) = {}
    BY <1>2 DEF Inv, Apart
  <2> QED BY <2>1, <2>2 DEF Housed, Apart, Bytes, Covered
<1>8. block' \subseteq Block /\ chunk' \subseteq Chunk
  BY <1>2 DEF Inv
<1> QED BY <1>3, <1>6, <1>7, <1>8 DEF Inv, Block, Bytes, Covered

(* The record that a chunk to be resized is found with. *)
LEMMA OldRecord ==
  ASSUME Inv, NEW c \in Chunk, NEW d \in chunk, d.start = c.start
  PROVE  /\ RoundDownTo(c.start, ShadowGranularity) \in Bytes(c) \cap Bytes(d)
         /\ TltGet(c.start) \in Rec
         /\ PageMayNull(RoundDownTo(c.start, ShadowGranularity))
              = TltGet(c.start)
<1> DEFINE g == RoundDownTo(c.start, ShadowGranularity)
<1>1. /\ d \in Chunk /\ g \in Bytes(c) /\ g \in Bytes(d) /\ g \in Memory
      /\ TltGet(g) = TltGet(c.start)
  <2>1. d \in Chunk
    BY DEF Inv
  <2>2. g \in Bytes(d) /\ g \in Bytes(c) /\ TltGet(g) = TltGet(c.start)
    BY <2>1, StartGranule
  <2> QED BY <2>1, <2>2, ChunkTyped DEF Bytes
<1> HIDE DEF g
<1>2. MapOf(g) \in Live(d)
  BY <1>1 DEF Inv, LiveShown
<1>3. MapOf(g) # NoChunk
  BY <1>1, <1>2, ChunkTyped, MemoryAssumption DEF Live, ChunkStatus
<1>4. PICK q \in Rec :
        /\ PageMayNull(g) = q
        /\ MapOf(g) = [start |-> rec[q].start, size |-> rec[q].size,
                       status |-> rec[q].status]
  BY <1>1, <1>3, MapTyped DEF Inv, TableInv
<1>5. rec[q].status # "NONE"
  BY <1>2, <1>4 DEF Live
<1>6. TltGet(g) = q
  BY <1>4, <1>5 DEF TltGet
<1> QED BY <1>1, <1>4, <1>6 DEF g

LEMMA ResizeChunkInv ==
  ASSUME Inv, NEW c \in Chunk, ResizeChunk(c)
  PROVE  Inv' /\ Map!Resize(c)
<1> DEFINE p == TltGet(c.start)  h == RoundDownTo(c.start, ShadowGranularity)
           found == WithStatus({p}, "DEALLOCATED")
<1>1. PICK r \in Rec : TltInsert(found, r, c.start, c.size)
  BY DEF ResizeChunk
<1>2. PICK d \in chunk : d.start = c.start
  BY DEF ResizeChunk, StartsAt
<1>3. /\ \E b \in block : Bytes(c) \subseteq Bytes(b)
      /\ \A e \in chunk : e.start # c.start => Bytes(c) \cap Bytes(e) = {}
      /\ chunk' = {e \in chunk : e.start # c.start} \cup {c}
      /\ block' = block
  BY DEF ResizeChunk, Fits, StartsAt
<1>4. /\ h \in Bytes(c) /\ h \in Bytes(d) /\ h \in Memory
      /\ p \in Rec /\ p # NoRec /\ PageMayNull(h) = p /\ p \in FoundIn({h})
  <2>1. /\ h \in Bytes(c) /\ h \in Bytes(d)
        /\ p \in Rec /\ PageMayNull(h) = p
    BY <1>2, OldRecord
  <2>2. h \in Memory
    BY <2>1, ChunkTyped DEF Bytes
  <2>3. TltGet(h) = p
    BY StartGranule
  <2> HIDE DEF h, p
  <2> QED BY <2>1, <2>2, <2>3, TableAssumption DEF FoundIn
<1> HIDE DEF h, p
<1>5. Pointed(p) # {}
  BY <1>4, FoundPointed DEF Inv, TableInv
<1>6. Restated(found)
  BY <1>5, StatusRestated DEF Inv, ChunkStatus
<1>7. TableInv'
  BY <1>1, <1>6, InsertInv DEF Inv
<1>8. /\ \A k \in Memory :
           /\ k \in Bytes(c) => MapOf(k)' = New(c)
           /\ k \notin Bytes(c) /\ PageMayNull(k) # p => MapOf(k)' = MapOf(k)
      /\ Map!Resize(c)
  BY <1>1, <1>4, <1>7, ResizeTakes DEF Inv
<1>9. ASSUME NEW e \in chunk', NEW k \in Bytes(e)
      PROVE  MapOf(k)' \in Live(e)
  <2>1. e \in Chunk /\ k \in Memory
    BY <1>3, <1>9, ChunkTyped DEF Inv, Bytes
  <2>2. CASE e = c
    BY <1>8, <1>9, <2>1, <2>2 DEF Live, New
  <2>3. CASE e # c
    <3>1. e \in chunk /\ e.start # c.start /\ k \notin Bytes(c)
      BY <1>3, <1>9, <2>3
    <3>2. MapOf(k) \in Live(e)
      BY <3>1, <1>9 DEF Inv, LiveShown
    <3>3. {h} \cap Bytes(e) = {}
      BY <3>1, <1>2, <1>4 DEF Inv, Apart
    <3>4. PageMayNull(k) \notin FoundIn({h})
      BY <2>1, <3>2, <3>3, <1>4, OtherRecord DEF Inv
    <3> QED BY <1>4, <1>8, <2>1, <3>1, <3>2, <3>4
  <2> QED BY <2>2, <2>3
<1>10. LiveShown'
  BY <1>9 DEF LiveShown, Bytes, Covered, Live
<1>11. Housed' /\ Apart'
  <2>1. \A e \in chunk' : \E b \in block' : Bytes(e) \subseteq Bytes(b)
    BY <1>3 DEF Inv, Housed
  <2>2. \A e, f \in chunk' : e # f => Bytes(e) \cap Bytes(f) = {}
    BY <1>3 DEF Inv, Apart
  <2> QED BY <2>1, <2>2 DEF Housed, Apart, Bytes, Covered
<1>12. block' \subseteq Block /\ chunk' \subseteq Chunk
  BY <1>3 DEF Inv
<1>13. Inv'
  BY <1>7, <1>10, <1>11, <1>12 DEF Inv, Block, Bytes, Covered
<1> QED BY <1>8, <1>13

LEMMA StartReallocInv ==
  ASSUME Inv, NEW c \in Chunk, StartRealloc(c)
  PROVE  Inv'
<1> DEFINE g == RoundDownTo(c.start, ShadowGranularity)
           rs == {TltGet(c.start)}
<1>1. /\ SetStatus(rs, "IN_REALLOC") /\ "IN_REALLOC" \in ChunkStatus
      /\ block' = block /\ chunk' = chunk
  BY DEF StartRealloc, ChunkStatus
<1>2. rs \subseteq FoundIn({g}) /\ {g} \subseteq Memory
  BY StartGranule, ChunkTyped DEF StartRealloc, FoundIn, Bytes
<1> HIDE DEF rs, g
<1>3. \A r \in rs : Pointed(r) # {}
  BY <1>2, FoundPointed DEF Inv, TableInv
<1>4. TableInv'
  BY <1>1, <1>3, SetStatusInv DEF Inv
<1>5. ASSUME NEW d \in chunk, NEW k \in Bytes(d)
      PROVE  MapOf(k)' \in Live(d)
  <2>1. d \in Chunk /\ k \in Memory /\ MapOf(k) \in Live(d)
    BY <1>5, ChunkTyped DEF Inv, LiveShown, Bytes
  <2> QED BY <1>1, <2>1, StillShown DEF Inv
<1>6. LiveShown'
  BY <1>1, <1>5 DEF LiveShown, Bytes, Covered, Live
<1>7. Housed' /\ Apart'
  BY <1>1 DEF Inv, Housed, Apart, Bytes, Covered
<1>8. block' \subseteq Block /\ chunk' \subseteq Chunk
  BY <1>1 DEF Inv
<1> QED BY <1>4, <1>6, <1>7, <1>8 DEF Inv, Block, Bytes, Covered

LEMMA ReleaseChunkInv ==
  ASSUME Inv, NEW c \in Chunk, ReleaseChunk(c)
  PROVE  Inv'
<1> DEFINE g == RoundDownTo(c.start, ShadowGranularity)
           rs == {TltGet(c.start)}
<1>1. /\ c \in chunk /\ chunk' = chunk \ {c} /\ block' = block
      /\ "DEALLOCATED" \in ChunkStatus
      /\ \/ TltGet(c.start) # NoRec /\ SetStatus(rs, "DEALLOCATED")
         \/ UNCHANGED table
  BY DEF ReleaseChunk, ChunkStatus
<1>2. /\ TltGet(c.start) # NoRec => rs \subseteq FoundIn({g})
      /\ {g} \subseteq Memory /\ g \in Bytes(c)
  BY StartGranule, ChunkTyped DEF FoundIn, Bytes
<1> HIDE DEF rs, g
<1>3. ASSUME TltGet(c.start) # NoRec
      PROVE  \A r \in rs : Pointed(r) # {}
  BY <1>2, <1>3, FoundPointed DEF Inv, TableInv
<1>4. TableInv'
  <2>1. CASE UNCHANGED table
    BY <2>1 DEF Inv, table, TableInv, Typed, Counted, Placed, Unique, Used,
                Pointed
  <2> QED BY <1>1, <1>3, <2>1, SetStatusInv DEF Inv
<1>5. ASSUME NEW d \in chunk', NEW k \in Bytes(d)
      PROVE  MapOf(k)' \in Live(d)
  <2>1. d \in Chunk /\ k \in Memory /\ MapOf(k) \in Live(d)
    BY <1>1, <1>5, ChunkTyped DEF Inv, LiveShown, Bytes
  <2>2. CASE UNCHANGED table
    BY <2>1, <2>2 DEF table, MapOf, PageMayNull, TopIdx, SecondIdx
  <2>3. CASE TltGet(c.start) # NoRec /\ SetStatus(rs, "DEALLOCATED")
    <3>1. {g} \cap Bytes(d) = {}
      BY <1>1, <1>2, <1>5 DEF Inv, Apart
    <3>2. PageMayNull(k) \notin rs
      BY <1>2, <2>1, <2>3, <3>1, OtherRecord DEF Inv
    <3> QED BY <1>1, <2>1, <2>3, <3>2, StillShown DEF Inv
  <2> QED BY <1>1, <2>2, <2>3
<1>6. LiveShown'
  BY <1>5 DEF LiveShown, Bytes, Covered, Live
<1>7. Housed' /\ Apart'
  BY <1>1 DEF Inv, Housed, Apart, Bytes, Covered
<1>8. block' \subseteq Block /\ chunk' \subseteq Chunk
  BY <1>1 DEF Inv
<1> QED BY <1>4, <1>6, <1>7, <1>8 DEF Inv, Block, Bytes, Covered

LEMMA InitInv == Init => Inv
<1> SUFFICES ASSUME Init PROVE Inv
  OBVIOUS
<1>1. TableInv
  BY InitTableInv
<1> QED BY <1>1 DEF Inv, Init, Housed, Apart, LiveShown

LEMMA StepInv ==
  ASSUME Inv, [Next]_vars
  PROVE  Inv'
<1>1. CASE UNCHANGED vars
  BY <1>1 DEF vars, Inv, TableInv, Typed, Counted, Placed, Unique, Used,
              Pointed, Housed, Apart, LiveShown, MapOf, PageMayNull
<1>2. ASSUME NEW b \in Block, Allocate(b) PROVE Inv'
  BY <1>2, AllocateInv
<1>3. ASSUME NEW b \in Block, Deallocate(b, 0) \/ Deallocate(b, b.size)
      PROVE  Inv'
  BY <1>3, DeallocateInv
<1>4. ASSUME NEW c \in Chunk, InsertChunk(c) PROVE Inv'
  BY <1>4, InsertChunkInv
<1>5. ASSUME NEW c \in Chunk, StartRealloc(c) PROVE Inv'
  BY <1>5, StartReallocInv
<1>6. ASSUME NEW c \in Chunk, ReleaseChunk(c) PROVE Inv'
  BY <1>6, ReleaseChunkInv
<1>7. ASSUME NEW c \in Chunk, ResizeChunk(c) PROVE Inv'
  BY <1>7, ResizeChunkInv
<1> QED BY <1>1, <1>2, <1>3, <1>4, <1>5, <1>6, <1>7 DEF Next

(* The table keeps its counts, its records and its cells together, and the *)
(* chunks in use lie apart in blocks (tlt_insert, tlt_update, tlt_release, *)
(* and the hooks that call them).                                          *)
THEOREM InvAlways == Spec => []Inv
<1> QED BY InitInv, StepInv, PTL DEF Spec
-----------------------------------------------------------------------------
(* The variables have their types, and a record in use has granules.       *)
THEOREM TypeCorrect == Spec => []TypeOK
<1>1. ASSUME Inv, NEW r \in Rec, rec[r] # Unused
      PROVE  rec[r] \in [start : Nat, size : Nat, status : ChunkStatus,
                         cnt : Nat \ {0}]
  <2>1. rec[r] \in Record /\ rec[r].cnt = Cardinality(Pointed(r))
    BY <1>1 DEF Inv, TableInv, Typed, Counted
  <2>2. Pointed(r) # {}
    BY <1>1 DEF Inv, TableInv, Used
  <2>3. rec[r].cnt # 0
    BY <2>1, <2>2, EmptyNotPointed
  <2> QED BY <2>1, <2>3 DEF Record
<1>2. Inv => TypeOK
  BY <1>1 DEF Inv, TableInv, Typed, TypeOK
<1> QED BY <1>2, InvAlways, PTL

(* Through any sequence of overlapping chunks a record counts exactly the  *)
(* granules that point to it (_tlt_release_chunk_info, asan_utils.cpp).    *)
THEOREM AlwaysRefCounted == Spec => []RefCounted
<1>1. Inv => RefCounted
  BY DEF Inv, TableInv, Counted, RefCounted, Pointed, Cell
<1> QED BY <1>1, InvAlways, PTL

(* A chunk in use is found at each of its granules, whatever malloc, free  *)
(* and the hooks of other chunks have done to the table (tlt_get).         *)
THEOREM AlwaysLiveFound == Spec => []LiveFound
<1>1. ASSUME Inv, NEW c \in chunk, NEW k \in Bytes(c)
      PROVE  /\ TltGet(k) # NoRec
             /\ rec[TltGet(k)].start = c.start
             /\ rec[TltGet(k)].size = c.size
             /\ rec[TltGet(k)].status \in {"ALLOCATED", "IN_REALLOC"}
  <2>1. c \in Chunk /\ k \in Memory /\ MapOf(k) \in Live(c)
    BY <1>1, ChunkTyped DEF Inv, LiveShown, Bytes
  <2>2. MapOf(k) # NoChunk
    BY <2>1, ChunkTyped, MemoryAssumption DEF Live, ChunkStatus
  <2>3. PICK r \in Rec :
          /\ PageMayNull(k) = r
          /\ MapOf(k) = [start |-> rec[r].start, size |-> rec[r].size,
                         status |-> rec[r].status]
    BY <1>1, <2>1, <2>2, MapTyped DEF Inv, TableInv
  <2>4. /\ rec[r].start = c.start /\ rec[r].size = c.size
        /\ rec[r].status \in {"ALLOCATED", "IN_REALLOC"}
    BY <2>1, <2>3 DEF Live
  <2>5. TltGet(k) = r /\ r # NoRec
    BY <2>3, <2>4, TableAssumption DEF TltGet
  <2> QED BY <2>4, <2>5
<1>2. Inv => LiveFound
  BY <1>1 DEF LiveFound
<1> QED BY <1>2, InvAlways, PTL

(* The steps: some records change their status, a chunk is inserted or     *)
(* resized, or the table is left alone.                                    *)
LEMMA StepCases ==
  ASSUME [Next]_vars
  PROVE  \/ \E rs : \E status \in ChunkStatus : SetStatus(rs, status)
         \/ \E c \in Chunk, r \in Rec : TltInsert(rec, r, c.start, c.size)
         \/ \E c \in Chunk : ResizeChunk(c)
         \/ UNCHANGED table
<1> USE DEF ChunkStatus
<1>1. CASE UNCHANGED vars
  BY <1>1 DEF vars, table
<1>2. CASE \E b \in Block : Allocate(b)
  BY <1>2 DEF Allocate, TltRelease
<1>3. CASE \E b \in Block : Deallocate(b, 0) \/ Deallocate(b, b.size)
  BY <1>3 DEF Deallocate, TltUpdate
<1>4. CASE \E c \in Chunk : InsertChunk(c)
  BY <1>4 DEF InsertChunk
<1>5. CASE \E c \in Chunk : StartRealloc(c)
  BY <1>5 DEF StartRealloc
<1>6. CASE \E c \in Chunk : ReleaseChunk(c)
  BY <1>6 DEF ReleaseChunk
<1>7. CASE \E c \in Chunk : ResizeChunk(c)
  BY <1>7
<1> QED BY <1>1, <1>2, <1>3, <1>4, <1>5, <1>6, <1>7 DEF Next

(* Every granule belongs to the chunk inserted over it last, whatever      *)
(* layers, records and counts the table has for it: the two-layer table    *)
(* implements ChunkMap (tlt_insert, tlt_update and tlt_release).           *)
THEOREM AlwaysImplementsMap == Spec => ImplementsMap
<1> DEFINE m == [k \in Memory |-> MapOf(k)]
<1>1. ASSUME Inv, Inv', [Next]_vars
      PROVE  [Map!Next]_m
  <2>1. CASE UNCHANGED table
    BY <2>1 DEF table, MapOf, PageMayNull, TopIdx, SecondIdx
  <2>2. CASE \E rs : \E status \in ChunkStatus : SetStatus(rs, status)
    BY <1>1, <2>2, SetStatusMarks DEF Inv, Map!Next
  <2>3. CASE \E c \in Chunk, r \in Rec : TltInsert(rec, r, c.start, c.size)
    BY <1>1, <2>3, InsertTakes DEF Inv, Map!Next
  <2>4. CASE \E c \in Chunk : ResizeChunk(c)
    BY <1>1, <2>4, ResizeChunkInv DEF Map!Next
  <2> QED BY <1>1, <2>1, <2>2, <2>3, <2>4, StepCases
<1> QED BY <1>1, InitMap, InvAlways, PTL DEF Spec, ImplementsMap, Map!Spec
=============================================================================
