---------------------------- MODULE MCCmaRuntime ----------------------------
(***************************************************************************)
(* Instances of CmaRuntime for TLC: three or four addresses, one or two    *)
(* allocator instances, one or two threads.                                *)
(***************************************************************************)
EXTENDS CmaRuntimeInv, TLC

CONSTANTS p1, p2, p3, p4, i1, i2

(* All chunks alike, or one of them as large as a whole zone. *)
SpanUnit  == [p \in Ptr |-> 1]
SpanMixed == [p \in Ptr |-> CASE p = p1 -> 5 [] p = p2 -> 3 [] OTHER -> 1]

(* Every instance has all the memory, or its own part of it. *)
ServesAll   == [id \in Id |-> Ptr]
ServesApart == [id \in Id |-> IF id = i1 THEN {p1, p2} ELSE Ptr \ {p1, p2}]

(* Where the chunks are alike and every instance has all the memory, the   *)
(* names of addresses, instances and threads do not matter.                *)
Symmetry == Permutations(Ptr) \cup Permutations(Id) \cup Permutations(Thread)
=============================================================================
