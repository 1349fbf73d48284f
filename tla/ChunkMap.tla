------------------------------ MODULE ChunkMap ------------------------------
(***************************************************************************)
(* What the two-layer table promises its users: every granule of memory    *)
(* belongs to the chunk that was inserted over it last, or to none.  A new *)
(* chunk takes its granules and no others; a status is one of the chunk,   *)
(* seen alike at all the granules it still has.                            *)
(***************************************************************************)
CONSTANTS
  Granule,           \* the addresses of granules
  Chunk,             \* the chunks that may be inserted, [start, size]
  Status,            \* with "ALLOCATED"
  NoChunk,
  GranulesOf(_)      \* the granules a chunk takes

VARIABLE map

Init == map = [g \in Granule |-> NoChunk]

Insert(c) ==
  map' = [g \in Granule |->
            IF g \in GranulesOf(c)
            THEN [start |-> c.start, size |-> c.size, status |-> "ALLOCATED"]
            ELSE map[g]]

(* g and h belong to one chunk. *)
Same(g, h) == /\ map[g] # NoChunk /\ map[h] # NoChunk
              /\ map[g].start = map[h].start /\ map[g].size = map[h].size

(* Some chunks change to one status. *)
Mark(status) ==
  /\ \A g \in Granule :
       \/ map'[g] = map[g]
       \/ map[g] # NoChunk /\ map'[g] = [map[g] EXCEPT !.status = status]
  /\ \A g, h \in Granule : Same(g, h) => map'[g] = map'[h]

(* A chunk takes the place of the one it has a granule h of; what remains  *)
(* of that is no longer in use.                                            *)
Resize(c) ==
  \E h \in GranulesOf(c) :
    map' = [g \in Granule |->
              IF g \in GranulesOf(c)
              THEN [start |-> c.start, size |-> c.size, status |-> "ALLOCATED"]
              ELSE IF Same(g, h) THEN [map[g] EXCEPT !.status = "DEALLOCATED"]
              ELSE map[g]]

Next == (\E c \in Chunk : Insert(c) \/ Resize(c)) \/ (\E s \in Status : Mark(s))

Spec == Init /\ [][Next]_map
=============================================================================
