---------------------------- MODULE MCCmaArenas ----------------------------
(***************************************************************************)
(* CmaArenas for TLC: a few granules over two second layers.               *)
(***************************************************************************)
EXTENDS CmaArenas, TLC

CONSTANTS Base, Granules, Starts, Sizes

MemoryOf == {Base + 8 * g : g \in 0 .. Granules - 1}

(* The chunks that fit into memory and end with a granule. *)
ChunkOf ==
  {c \in [start : {Base + s : s \in Starts}, size : Sizes] :
     (c.start + c.size) % 8 = 0 /\ c.start + c.size <= Base + 8 * Granules}

Symmetry == Permutations(Rec)
=============================================================================
