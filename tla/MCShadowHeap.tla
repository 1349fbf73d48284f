---------------------------- MODULE MCShadowHeap ----------------------------
(***************************************************************************)
(* ShadowHeap for TLC.                                                     *)
(***************************************************************************)
EXTENDS ShadowHeap

(* Requests that end in the midst of a granule, behind one of them, and    *)
(* for no bytes; elements of twelve bytes leave the CMA's bytes unaligned. *)
RequestsOf == {[num |-> 9, gran |-> 1],
               [num |-> 1, gran |-> 12], [num |-> 0, gran |-> 1]}
=============================================================================
