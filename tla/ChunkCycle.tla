----------------------------- MODULE ChunkCycle -----------------------------
(***************************************************************************)
(* What CMASan promises an allocator about its addresses.  An address goes *)
(* from free to live when the allocator hands it out, and from live to     *)
(* held when the program frees it; CMASan returns a held address once, and *)
(* the allocator then has it back.  The allocator may also take addresses  *)
(* back by itself (REALLOC that does not call FREE, CLEAR, GC).  CMASan    *)
(* never returns an address the allocator has, and an address that is held *)
(* or being returned is not handed out.                                    *)
(***************************************************************************)
CONSTANT Ptr

VARIABLE cycle

States == {"free", "live", "held", "returning"}

Init == cycle = [p \in Ptr |-> "free"]

HandOut == <<"free", "live">>
Hold    == <<"live", "held">>
GiveBack == {<<"held", "returning">>, <<"live", "returning">>}
TakeIn  == <<"returning", "free">>
Reclaim == {<<"live", "free">>, <<"held", "free">>}

Moves == {HandOut, Hold, TakeIn} \cup GiveBack \cup Reclaim

(* One step of the system may move several addresses, each along its own   *)
(* cycle.                                                                  *)
Next ==
  /\ cycle' \in [Ptr -> States]
  /\ \A p \in Ptr : cycle'[p] = cycle[p] \/ <<cycle[p], cycle'[p]>> \in Moves

Spec == Init /\ [][Next]_cycle
=============================================================================
