---------------------------- MODULE MCCollectSteps ----------------------------
(* Constants for the runs of module CollectSteps. *)
EXTENDS CollectSteps

CONSTANTS p1, p2, p3

(* One of the chunks fills the zone by its size. *)
MCSpan == [p \in Ptr |-> IF p = p1 THEN 3 ELSE 2]

(* A third address where the collections stop the other threads. *)
MCServed == [s \in BOOLEAN |-> IF s THEN Ptr ELSE {p1, p2}]
=============================================================================
