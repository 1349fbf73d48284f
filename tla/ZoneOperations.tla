---------------------------- MODULE ZoneOperations ----------------------------
(***************************************************************************)
(* What a quarantine zone does as a whole: it is one record that changes   *)
(* by the operations of module QuarantineZone.  Modules CmaRuntime and     *)
(* CollectSteps both build on it, one with the operations as its steps,    *)
(* the other with the accesses to memory they are made of.                 *)
(***************************************************************************)
EXTENDS QuarantineZone

VARIABLE zone

Init == zone = EmptyZone

Push(p) == zone' = PushPtr(zone, p)

(* Only a full zone gives a chunk back. *)
Pop ==
  /\ zone.list # << >> /\ ~BelowLimits(zone)
  /\ zone' = PopFirst(zone)

Empty == zone' = EmptyOnGC(zone)

Next == Pop \/ Empty \/ \E p \in Ptr : Push(p)

Spec == Init /\ [][Next]_zone
=============================================================================
