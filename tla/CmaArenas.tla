----------------------------- MODULE CmaArenas -----------------------------
(***************************************************************************)
(* The two-layer table between its two users.  A CMA takes its memory from *)
(* the standard allocator, whose malloc and free also write the table      *)
(* (ends of Allocate and start of Deallocate, asan_allocator.cpp), and     *)
(* gives chunks of that memory to the program, whose records the hooks     *)
(* insert and change.  All do so with the mutex held.                      *)
(***************************************************************************)
EXTENDS TwoLayerTable

CONSTANTS
  Memory,       \* the granules of memory, by address
  BlockSizes,   \* the sizes malloc is called with
  Chunk,        \* the chunks with their redzones, [start, size]
  NoChunk

ASSUME MemoryAssumption ==
  /\ \A k \in Memory : /\ k \in Nat /\ k % ShadowGranularity = 0
                        /\ k < TopSize * PageNumbers * ShadowGranularity
  /\ Chunk \subseteq [start : Nat, size : Nat \ {0}]
  /\ \A c \in Chunk : /\ (c.start + c.size) % ShadowGranularity = 0
                      /\ Covered(c.start, c.size) \subseteq Memory
  /\ BlockSizes \subseteq Nat \ {0}
  /\ NoChunk \notin [start : Nat, size : Nat, status : ChunkStatus]

VARIABLES
  block,  \* the blocks malloc has handed out, [start, size]
  chunk   \* the chunks a CMA has handed out

vars == <<top, rec, block, chunk>>

Bytes(c) == Covered(c.start, c.size)
Block == {b \in [start : Memory, size : BlockSizes] : Bytes(b) \subseteq Memory}

Init ==
  /\ InitTable
  /\ block = {}
  /\ chunk = {}

(* The end of Allocate: the records in the new block are released. *)
Allocate(b) ==
  /\ \A d \in block : Bytes(b) \cap Bytes(d) = {}
  /\ block' = block \cup {b}
  /\ TltRelease(b.start, b.size)
  /\ UNCHANGED chunk

(* The start of Deallocate.  delete_size is zero unless the operator       *)
(* delete with a size is used.  The chunks in the block are no longer in   *)
(* use.                                                                    *)
Deallocate(b, deleteSize) ==
  /\ b \in block
  /\ block' = block \ {b}
  /\ chunk' = {c \in chunk : Bytes(c) \cap Bytes(b) = {}}
  /\ TltUpdate(b.start, deleteSize, "DEALLOCATED", "ALLOCATED")

(* The chunk c fits: its memory is the CMA's, and no chunk that starts      *)
(* elsewhere is in use there.                                              *)
Fits(c) ==
  /\ \E b \in block : Bytes(c) \subseteq Bytes(b)
  /\ \A d \in chunk : d.start # c.start => Bytes(c) \cap Bytes(d) = {}

StartsAt(c) == {d \in chunk : d.start = c.start}

(* allocateCMAChunkImpl for a new chunk. *)
InsertChunk(c) ==
  /\ Fits(c) /\ StartsAt(c) = {}
  /\ chunk' = chunk \cup {c}
  /\ \E r \in Rec : TltInsert(rec, r, c.start, c.size)
  /\ UNCHANGED block

(* reallocateCMAChunkEnd for a chunk that REALLOC has resized where it is: *)
(* the record of the old chunk, which some granules may keep, becomes that *)
(* of a freed one, and the new chunk is inserted.                          *)
ResizeChunk(c) ==
  /\ Fits(c) /\ StartsAt(c) # {}
  /\ chunk' = (chunk \ StartsAt(c)) \cup {c}
  /\ \E r \in Rec :
       TltInsert(WithStatus({TltGet(c.start)}, "DEALLOCATED"),
                 r, c.start, c.size)
  /\ UNCHANGED block

(* reallocateCMAChunkStart opens the chunk that starts at c.start. *)
StartRealloc(c) ==
  /\ c \in chunk /\ TltGet(c.start) # NoRec
  /\ SetStatus({TltGet(c.start)}, "IN_REALLOC")
  /\ UNCHANGED <<block, chunk>>

(* releaseCMAChunkImpl frees it; a record of another start is left alone. *)
ReleaseChunk(c) ==
  /\ c \in chunk
  /\ chunk' = chunk \ {c}
  /\ LET r == TltGet(c.start)
     IN  IF r = NoRec \/ rec[r].start # c.start THEN UNCHANGED table
         ELSE SetStatus({r}, "DEALLOCATED")
  /\ UNCHANGED block

Next ==
  \/ \E b \in Block : Allocate(b) \/ Deallocate(b, 0) \/ Deallocate(b, b.size)
  \/ \E c \in Chunk : \/ InsertChunk(c) \/ ResizeChunk(c)
                       \/ StartRealloc(c) \/ ReleaseChunk(c)

Spec == Init /\ [][Next]_vars
-----------------------------------------------------------------------------
(* Every variable has its type; a record in use has granules. *)
TypeOK ==
  /\ top \in [TopIndex -> [SecondIndex -> Rec \cup {NoRec}] \cup {NoLayer}]
  /\ \A r \in Rec : rec[r] = Unused \/
       rec[r] \in [start : Nat, size : Nat, status : ChunkStatus, cnt : Nat \ {0}]
  /\ block \subseteq Block /\ chunk \subseteq Chunk

(* The reference counts are right through any sequence of overlapping      *)
(* chunks: a record counts the granules that point to it, so none is freed *)
(* that is still pointed to, and none leaks.                               *)
RefCounted ==
  \A r \in Rec : rec[r].cnt =
    Cardinality({ti \in TopIndex \X SecondIndex :
                   top[ti[1]] # NoLayer /\ top[ti[1]][ti[2]] = r})

(* A chunk the program holds is found at each of its granules, under its   *)
(* own start and not as a freed one, whatever malloc, free and the other   *)
(* chunks have done to the table.                                          *)
LiveFound ==
  \A c \in chunk : \A k \in Bytes(c) :
    /\ TltGet(k) # NoRec
    /\ rec[TltGet(k)].start = c.start /\ rec[TltGet(k)].size = c.size
    /\ rec[TltGet(k)].status \in {"ALLOCATED", "IN_REALLOC"}

(* "Release cma informations in the given memry address range"             *)
(* (asan_utils.cpp:662): after malloc no record is found in the new block. *)
ReleasesRange ==
  [][\A b \in block' \ block : \A k \in Bytes(b) : TltGet(k)' = NoRec]_vars

(* The table implements the map of granules to the chunks inserted last. *)
MapOf(k) ==
  LET r == PageMayNull(k)
  IN  IF r = NoRec THEN NoChunk
      ELSE [start |-> rec[r].start, size |-> rec[r].size,
            status |-> rec[r].status]

Map == INSTANCE ChunkMap WITH Granule <- Memory, Status <- ChunkStatus,
         GranulesOf <- Bytes, map <- [k \in Memory |-> MapOf(k)]

ImplementsMap == Map!Spec
=============================================================================
