--------------------------- MODULE TwoLayerTable ---------------------------
(***************************************************************************)
(* The table that finds the record of the chunk an address lies in: the    *)
(* part of asan_utils.cpp behind the locking methods.  A granule is eight  *)
(* bytes.  The upper part of an address selects a second layer, which is   *)
(* created when it is first needed, the lower part a granule in it; the    *)
(* granules of a chunk share one record, which counts them.                *)
(*                                                                         *)
(* The caller holds the mutex, so each function is one step.  Addresses    *)
(* are numbers of bytes; the memory starts far above the size of any       *)
(* chunk, which the loops of tlt_release depend on.  A record is one of    *)
(* the set Rec, unused while it is free.                                   *)
(***************************************************************************)
EXTENDS Integers, FiniteSets

CONSTANTS
  TopSize,      \* entries of TopLayerTable
  PageNumbers,  \* tlt_secondLayerPageNumbers, the granules of a second layer
  Rec,          \* the memory for records
  NoRec,        \* the null pointer of a granule
  NoLayer       \* the null pointer of TopLayerTable

ASSUME TableAssumption ==
  /\ TopSize \in Nat \ {0} /\ PageNumbers \in Nat \ {0}
  /\ NoRec \notin Rec
  /\ NoLayer \notin [0 .. PageNumbers - 1 -> Rec \cup {NoRec}]

VARIABLES
  top,  \* TopLayerTable
  rec   \* the records, with the reference counts

table == <<top, rec>>

ShadowGranularity == 8  \* ASAN_SHADOW_GRANULARITY, and 1 << tlt_info_granularity_shamt
MinimumChunkSize == 32  \* CMASAN_MINIMUM_CHUNK_SIZE

ChunkStatus == {"ALLOCATED", "DEALLOCATED", "IN_REALLOC", "NONE"}
Unused == [start |-> 0, size |-> 0, status |-> "NONE", cnt |-> 0]

RoundDownTo(x, n) == x - (x % n)
RoundUpTo(x, n) == RoundDownTo(x + n - 1, n)

TopIndex == 0 .. TopSize - 1
SecondIndex == 0 .. PageNumbers - 1

InitTable ==
  /\ top = [t \in TopIndex |-> NoLayer]
  /\ rec = [r \in Rec |-> Unused]

(* Mutant: the mask of the second layer is one granule short. *)
SecondIdxShort(key) == (key \div ShadowGranularity) % (PageNumbers - 1)

TopIdx(key) == (key \div (ShadowGranularity * PageNumbers)) % TopSize
SecondIdx(key) == (key \div ShadowGranularity) % PageNumbers

(* _tlt_get_page_may_null, and what it points to. *)
PageMayNull(key) ==
  IF top[TopIdx(key)] = NoLayer THEN NoRec ELSE top[TopIdx(key)][SecondIdx(key)]

(* _tlt_get_internal: a record with the status NONE is not shown. *)
TltGet(key) ==
  LET r == PageMayNull(key)
  IN  IF r # NoRec /\ rec[r].status = "NONE" THEN NoRec ELSE r

(* The granules from aligned_key on, aligned_size bytes. *)
Covered(key, size) ==
  {RoundDownTo(key, ShadowGranularity) + ShadowGranularity * i :
     i \in 0 .. (RoundUpTo(size, ShadowGranularity) \div ShadowGranularity) - 1}

(* The granules of the new chunk r in the layer at t, which is created if  *)
(* it is not there (_tlt_get_or_create_page).                              *)
Fill(t, r, covered) ==
  [i \in SecondIndex |->
     IF \E k \in covered : TopIdx(k) = t /\ SecondIdx(k) = i THEN r
     ELSE IF top[t] = NoLayer THEN NoRec ELSE top[t][i]]

(* The granules of the record q among those covered. *)
Dropped(q, covered) == Cardinality({k \in covered : PageMayNull(k) = q})

(* Mutants: a record is not freed with its last granule; it is freed with  *)
(* the first granule it loses.                                             *)
TltInsertKeeping(found, r, key, size) ==
  LET covered == Covered(key, size)
  IN  /\ found[r] = Unused
      /\ top' = [t \in TopIndex |-> IF \E k \in covered : TopIdx(k) = t
                                    THEN Fill(t, r, covered) ELSE top[t]]
      /\ rec' = [q \in Rec |->
           IF q = r THEN [start |-> key, size |-> size, status |-> "ALLOCATED",
                          cnt |-> Cardinality(covered)]
           ELSE [found[q] EXCEPT !.cnt = @ - Dropped(q, covered)]]

TltInsertFreeing(found, r, key, size) ==
  LET covered == Covered(key, size)
  IN  /\ found[r] = Unused
      /\ top' = [t \in TopIndex |-> IF \E k \in covered : TopIdx(k) = t
                                    THEN Fill(t, r, covered) ELSE top[t]]
      /\ rec' = [q \in Rec |->
           IF q = r THEN [start |-> key, size |-> size, status |-> "ALLOCATED",
                          cnt |-> Cardinality(covered)]
           ELSE IF Dropped(q, covered) > 0 THEN Unused ELSE found[q]]

(* tlt_insert: each granule drops the record it has, which is freed with   *)
(* the last of its granules (_tlt_release_chunk_info), and gets the new    *)
(* record r.  The records are "found" as the caller has left them.         *)
TltInsert(found, r, key, size) ==
  LET covered == Covered(key, size)
  IN  /\ found[r] = Unused
      /\ top' = [t \in TopIndex |-> IF \E k \in covered : TopIdx(k) = t
                                    THEN Fill(t, r, covered) ELSE top[t]]
      /\ rec' = [q \in Rec |->
           IF q = r THEN [start |-> key, size |-> size, status |-> "ALLOCATED",
                          cnt |-> Cardinality(covered)]
           ELSE IF Dropped(q, covered) = 0 THEN found[q]
           ELSE IF Dropped(q, covered) = found[q].cnt THEN Unused
           ELSE [found[q] EXCEPT !.cnt = @ - Dropped(q, covered)]]

(* The records when some of them have got a status. *)
WithStatus(rs, status) ==
  [r \in Rec |-> IF r \in rs THEN [rec[r] EXCEPT !.status = status] ELSE rec[r]]

SetStatus(rs, status) == rec' = WithStatus(rs, status) /\ UNCHANGED top

(* The records that the loop of tlt_update changes: those it finds in the  *)
(* expected status at the granules it visits, which are in the range.      *)
(* After a chunk it changes it goes on behind the chunk and one more       *)
(* granule.                                                                *)
Updated(key, size, expected) ==
  LET Changes(k) == TltGet(k) # NoRec /\ rec[TltGet(k)].status = expected
      visited[i \in Nat] ==
        LET target == RoundDownTo(key, ShadowGranularity) + i
            behind == IF Changes(target)
                      THEN RoundUpTo(rec[TltGet(target)].size,
                                     ShadowGranularity)
                      ELSE 0
        IN  IF i >= size THEN {}
            ELSE {target} \cup visited[i + behind + ShadowGranularity]
      found == {k \in Covered(key, size) : k \in visited[0] /\ Changes(k)}
  IN  {TltGet(k) : k \in found}

(* Mutant: the range starts one granule early. *)
TltUpdateOver(key, size, status, expected) ==
  SetStatus(Updated(key - ShadowGranularity, size + ShadowGranularity, expected),
            status)

(* tlt_update: what the loop finds in the expected status changes it. *)
TltUpdate(key, size, status, expected) ==
  SetStatus(Updated(key, size, expected), status)

(* What _tlt_release_whole_chunk returns: an address, and for a chunk it   *)
(* has found "end_addr - 1 << tlt_info_granularity_shamt", a shift by the  *)
(* rules of C.                                                             *)
ReleaseWholeChunk(target) ==
  LET r == TltGet(target)
  IN  IF r = NoRec THEN target
      ELSE (rec[r].start + rec[r].size - 1) * ShadowGranularity

(* The records that a loop of tlt_release finds at the granules it visits  *)
(* from the offset first on; it takes the address returned for its next    *)
(* offset.                                                                 *)
Found(key, size, first, step) ==
  LET visited[i \in Nat] ==
        LET target == RoundDownTo(key, ShadowGranularity) + i
        IN  IF i >= size THEN {}
            ELSE {target} \cup visited[ReleaseWholeChunk(target) + step]
  IN  {TltGet(k) : k \in Covered(key, size) \cap visited[first]} \ {NoRec}

(* tlt_release: by steps of a minimum chunk, then by granules the rest. *)
TltRelease(key, size) ==
  SetStatus(Found(key, size, 0, MinimumChunkSize)
              \cup Found(key, size, RoundDownTo(size, MinimumChunkSize),
                         ShadowGranularity),
            "NONE")
=============================================================================
