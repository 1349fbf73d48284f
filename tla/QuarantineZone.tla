--------------------------- MODULE QuarantineZone ---------------------------
(***************************************************************************)
(* The zone that delays the frees of one allocator instance: a queue of    *)
(* freed chunks with two running counters, as struct CMAQZMapEntry and the *)
(* functions pushPtr and popPtrIfMax of asan_allocator.cpp keep it.        *)
(*                                                                         *)
(* A zone is a record.  "list" is the chain from first_chunk to            *)
(* last_chunk, "size" is current_cma_quarantine_size and "num" is          *)
(* current_cma_quarantine_num.  The counters are fields of their own and   *)
(* not functions of the list, because emptyQuarantineOnGC resets them      *)
(* apart from it.                                                          *)
(***************************************************************************)
EXTENDS Integers, Sequences

CONSTANTS
  Ptr,             \* the addresses at which chunks start
  Span,            \* the bytes of the chunk at an address, with its redzone
  QuarantineSize,  \* get_quarantine_size()
  QuarantineNum    \* get_quarantine_num()

ASSUME ZoneAssumption ==
  /\ Span \in [Ptr -> Nat \ {0}]
  /\ QuarantineSize \in Nat
  /\ QuarantineNum \in Nat

Entry == [ptr : Ptr, size : Nat]

(* The counters are integers here: that the code's unsigned ones never go  *)
(* below zero is a property, not a type.                                   *)
Zone == [size : Int, num : Int, list : Seq(Entry)]

(* A zone as getQuarantineZone creates it. *)
EmptyZone == [size |-> 0, num |-> 0, list |-> << >>]

(* Mutant: the number of chunks may exceed the maximum by one. *)
BelowLimitsByOne(z) == z.size < QuarantineSize /\ z.num <= QuarantineNum

(* The early return of popPtrIfMax: nothing leaves a zone below both limits. *)
BelowLimits(z) == z.size < QuarantineSize /\ z.num < QuarantineNum

(* Mutant: the chunk takes the place of those in the zone. *)
PushPtrFirst(z, p) ==
  [size |-> z.size + Span[p],
   num  |-> z.num + 1,
   list |-> <<[ptr |-> p, size |-> Span[p]]>>]

(* pushPtr: count the chunk and link it behind last_chunk. *)
PushPtr(z, p) ==
  [size |-> z.size + Span[p],
   num  |-> z.num + 1,
   list |-> Append(z.list, [ptr |-> p, size |-> Span[p]])]

(* Mutant: the bytes of the chunk stay counted. *)
PopFirstUncounted(z) ==
  [size |-> z.size,
   num  |-> z.num - 1,
   list |-> Tail(z.list)]

(* One iteration of the loop of popPtrIfMax: uncount and unlink first_chunk. *)
PopFirst(z) ==
  [size |-> z.size - Head(z.list).size,
   num  |-> z.num - 1,
   list |-> Tail(z.list)]

(* Mutant: the counters are reset, the list is kept. *)
EmptyOnGCKeeping(z) == [size |-> 0, num |-> 0, list |-> z.list]

(* What __asan_emptyQuarantineOnGC does to a zone: the size and both ends  *)
(* of the list are reset, the number of chunks is not.                     *)
EmptyOnGC(z) == [size |-> 0, num |-> z.num, list |-> << >>]

(* The bytes that the chunks of a list hold. *)
BytesOf(list) ==
  LET upTo[n \in 0 .. Len(list)] ==
        IF n = 0 THEN 0 ELSE upTo[n - 1] + list[n].size
  IN  upTo[Len(list)]
=============================================================================
