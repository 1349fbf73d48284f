----------------------------- MODULE CollectSteps -----------------------------
(***************************************************************************)
(* One quarantine zone, access by access.  FREE runs pushAndPopFrom-       *)
(* Quarantine with the mutex of the records held, but the hook of a GC     *)
(* function, __asan_emptyQuarantineOnGC, writes the same fields without    *)
(* it.  So each step here reads or writes one of the fields that both of   *)
(* them touch (size, first_chunk, last_chunk) once, in the order of the    *)
(* source.                                                                 *)
(*                                                                         *)
(* "stops" says what the CMA does: the one that stops its threads outside  *)
(* of its functions before it collects, and the one that collects while    *)
(* they go on.  The program frees no chunk twice.                          *)
(***************************************************************************)
EXTENDS QuarantineZone, FiniteSets, TLC

CONSTANTS
  Thread,
  NoThread,  \* the mutex is free
  NoPtr,     \* the null pointer of the program
  NumNodes,  \* bound: the CMAQuarantineChunks there is memory for
  WordSize,  \* the counters are unsigned numbers below this
  Regimes,   \* the values of "stops" that are explored
  Served     \* bound: the addresses the CMA has, by the value of "stops"

Node == 1 .. NumNodes
Null == 0

ASSUME StepsAssumption ==
  /\ NoPtr \notin Ptr /\ NoThread \notin Thread
  /\ NumNodes \in Nat /\ WordSize \in Nat \ {0}
  /\ Regimes \subseteq BOOLEAN /\ Served \in [BOOLEAN -> SUBSET Ptr]

VARIABLES
  stops,    \* does a collection stop the other threads (never changes)
  crashed,  \* the program has come to undefined behaviour, and ends here
  zone,     \* the four fields of the zone
  chunk,    \* the fields ptr and next of a CMAQuarantineChunk
  inUse,    \* the CMAQuarantineChunks that are allocated
  mutex,    \* _tlt_chunk_info_mutex
  info,     \* the status in the record of an address
  out,      \* the addresses the CMA has handed out
  live,     \* the addresses the program holds
  me        \* where a thread is, and its local variables

heap == <<chunk, inUse>>
outside == <<mutex, info, out, live>>
vars == <<stops, crashed, zone, heap, outside, me>>

(* The locations inside popPtrIfMax, pushPtr and GC, named for the access  *)
(* that comes next.                                                        *)
Popping == {"limits", "load", "uncount", "decrement", "readFirst", "compare",
            "dropFirst", "dropLast", "advance"}
Pushing == {"add", "increment", "test", "setFirst", "link", "setLast"}
Collecting == {"gcLast", "gcFirst", "collect"}
Location == {"idle", "allocate", "cmaFree"} \cup Popping \cup Pushing
              \cup Collecting

(* "ptr" is the pointer obtained or passed to FREE, "cur" the chunk that   *)
(* is unlinked (current_chunk) or linked (chunk), "val" what has been read *)
(* from the zone, "ret" the pointer popPtrIfMax is to return.  They are    *)
(* reset where they are not used any more.                                 *)
Idle == [pc |-> "idle", ptr |-> NoPtr, cur |-> Null, next |-> Null, val |-> 0,
         ret |-> NoPtr]

Init ==
  /\ stops \in Regimes /\ crashed = FALSE
  /\ zone = [size |-> 0, num |-> 0, first |-> Null, last |-> Null]
  /\ chunk = [n \in Node |-> [ptr |-> NoPtr, next |-> Null]] /\ inUse = {}
  /\ mutex = NoThread
  /\ info = [p \in Ptr |-> "NONE"] /\ out = {} /\ live = {}
  /\ me = [t \in Thread |-> Idle]

(* A thread goes on from a location, with some of its locals changed. *)
Go(t, from, changes) ==
  /\ me[t].pc = from /\ ~crashed
  /\ me' = [me EXCEPT ![t] = changes @@ @]
  /\ UNCHANGED stops

(* The same for an access that only reads, or writes the zone. *)
Read(t, from, changes) ==
  Go(t, from, changes) /\ UNCHANGED <<crashed, zone, heap, outside>>

Write(t, from, z, changes) ==
  Go(t, from, changes) /\ zone' = z /\ UNCHANGED <<crashed, heap, outside>>

Wrap(n) == n % WordSize

(* A thread can call a function of the CMA. *)
MayCall == stops => \A u \in Thread : me[u].pc \notin Collecting

-----------------------------------------------------------------------------
(* ALLOC and the start of FREE.                                            *)

(* The body of ALLOC, to the hook behind it. *)
CmaAlloc(t, p) ==
  /\ MayCall /\ p \in Served[stops] \ out
  /\ Go(t, "idle", [pc |-> "allocate", ptr |-> p])
  /\ out' = out \cup {p}
  /\ UNCHANGED <<crashed, zone, heap, mutex, info, live>>

(* __asan_allocateCMAChunk *)
Allocate(t) ==
  /\ mutex = NoThread
  /\ Go(t, "allocate", Idle)
  /\ info' = [info EXCEPT ![me[t].ptr] = "ALLOCATED"]
  /\ live' = live \cup {me[t].ptr}
  /\ UNCHANGED <<crashed, zone, heap, mutex, out>>

(* FREE, up to pushAndPopFromQuarantine: __asan_releaseCMAChunk takes the  *)
(* mutex.  Explored while there is memory for another CMAQuarantineChunk.  *)
Free(t, p) ==
  /\ MayCall /\ p \in live /\ mutex = NoThread /\ inUse # Node
  /\ Go(t, "idle", [pc |-> "limits", ptr |-> p])
  /\ live'  = live \ {p}
  /\ info'  = [info EXCEPT ![p] = "DEALLOCATED"]
  /\ mutex' = t
  /\ UNCHANGED <<crashed, zone, heap, out>>

-----------------------------------------------------------------------------
(* popPtrIfMax.                                                            *)

(* Mutant: the number of chunks may exceed the maximum by one. *)
FullByOne == ~(zone.size < QuarantineSize /\ zone.num <= QuarantineNum)

Full == ~(zone.size < QuarantineSize /\ zone.num < QuarantineNum)

ReadLimits(t) == Read(t, "limits", [pc |-> IF Full THEN "load" ELSE "add"])

LoadFirst(t) ==
  Read(t, "load", [cur |-> zone.first,
                   pc  |-> IF zone.first = Null THEN "add" ELSE "uncount"])

(* "-=" reads the size and writes it. *)
ReadSize(t) == Read(t, "uncount", [pc |-> "decrement", val |-> zone.size])

(* To the call of InternalFree. *)
Uncount(t) ==
  LET c == chunk[me[t].cur]
  IN  /\ Go(t, "decrement", [pc |-> "readFirst", val |-> 0, ret |-> c.ptr,
                             next |-> c.next])
      /\ zone' = [zone EXCEPT !.size = Wrap(me[t].val - Span[c.ptr]),
                              !.num = Wrap(@ - 1)]
      /\ inUse' = inUse \ {me[t].cur}
      /\ UNCHANGED <<crashed, chunk, outside>>

ReadFirst(t) == Read(t, "readFirst", [pc |-> "compare", val |-> zone.first])

CompareEnds(t) ==
  Read(t, "compare",
       [val |-> 0,
        pc  |-> IF me[t].val = zone.last THEN "dropFirst" ELSE "advance"])

(* Mutant: first_chunk is left at the chunk that is gone. *)
DropFirstNot(t) == Read(t, "dropFirst", [pc |-> "dropLast"])

DropFirst(t) ==
  Write(t, "dropFirst", [zone EXCEPT !.first = Null], [pc |-> "dropLast"])

(* Mutant: the loop goes on with the chunk it has just unlinked. *)
ValidatedSame(t) ==
  IF info[me[t].ret] = "DEALLOCATED"
  THEN [pc |-> "add", cur |-> Null, next |-> Null]
  ELSE [pc |-> "uncount", ret |-> NoPtr]

(* isChunkValid ends the loop or lets it take the next chunk.  The records *)
(* change with the mutex only.                                             *)
Validated(t) ==
  IF info[me[t].ret] = "DEALLOCATED"
  THEN [pc |-> "add", cur |-> Null, next |-> Null]
  ELSE [pc |-> "load", cur |-> Null, next |-> Null, ret |-> NoPtr]

DropLast(t) ==
  Write(t, "dropLast", [zone EXCEPT !.last = Null], Validated(t))

Advance(t) ==
  Write(t, "advance", [zone EXCEPT !.first = me[t].next], Validated(t))

-----------------------------------------------------------------------------
(* pushPtr and the end of FREE.                                            *)

ReadSizeToAdd(t) == Read(t, "add", [pc |-> "increment", val |-> zone.size])

Count(t) ==
  LET new == CHOOSE n \in Node \ inUse : \A m \in Node \ inUse : n <= m
  IN  /\ Go(t, "increment", [pc |-> "test", val |-> 0, cur |-> new])
      /\ zone' = [zone EXCEPT !.size = Wrap(me[t].val + Span[me[t].ptr]),
                              !.num = Wrap(@ + 1)]
      /\ inUse' = inUse \cup {new}
      /\ chunk' = [chunk EXCEPT ![new] = [ptr |-> me[t].ptr, next |-> Null]]
      /\ UNCHANGED <<crashed, outside>>

TestFirst(t) ==
  Read(t, "test", [pc |-> IF zone.first = Null THEN "setFirst" ELSE "link"])

SetFirst(t) ==
  Write(t, "setFirst", [zone EXCEPT !.first = me[t].cur], [pc |-> "setLast"])

(* last_chunk->next = chunk, where last_chunk may be null *)
LinkLast(t) ==
  /\ Go(t, "link", [pc |-> "setLast"])
  /\ crashed' = (zone.last = Null)
  /\ chunk' = IF zone.last = Null THEN chunk
              ELSE [chunk EXCEPT ![zone.last].next = me[t].cur]
  /\ UNCHANGED <<zone, inUse, outside>>

(* Mutant: the mutex is not released. *)
SetLastLocked(t) ==
  Write(t, "setLast", [zone EXCEPT !.last = me[t].cur],
        [pc |-> "cmaFree", cur |-> Null])

(* To the end of __asan_releaseCMAChunk, which releases the mutex. *)
SetLast(t) ==
  /\ Go(t, "setLast", [pc |-> "cmaFree", cur |-> Null])
  /\ zone' = [zone EXCEPT !.last = me[t].cur]
  /\ mutex' = NoThread
  /\ UNCHANGED <<crashed, heap, info, out, live>>

(* The body of FREE; given an address that it has not handed out, the CMA  *)
(* may do anything.                                                        *)
CmaFree(t) ==
  /\ Go(t, "cmaFree", Idle)
  /\ crashed' = (me[t].ret \notin out \cup {NoPtr})
  /\ out' = out \ {me[t].ret}
  /\ UNCHANGED <<zone, heap, mutex, info, live>>

-----------------------------------------------------------------------------
(* GC, by one thread at a time.                                            *)

MayCollect ==
  /\ MayCall
  /\ \A u \in Thread : IF stops THEN me[u].pc = "idle"
                        ELSE me[u].pc \notin Collecting

(* Mutant: the size is not reset. *)
ResetSizeNot(t) == MayCollect /\ Read(t, "idle", [pc |-> "gcLast"])

(* The call of GC and __asan_emptyQuarantineOnGC. *)
ResetSize(t) ==
  MayCollect /\ Write(t, "idle", [zone EXCEPT !.size = 0], [pc |-> "gcLast"])

ResetLast(t) ==
  Write(t, "gcLast", [zone EXCEPT !.last = Null], [pc |-> "gcFirst"])

ResetFirst(t) ==
  Write(t, "gcFirst", [zone EXCEPT !.first = Null], [pc |-> "collect"])

(* The body of GC takes back what neither the program holds nor a function *)
(* of the CMA works on.                                                    *)
CmaCollect(t) ==
  /\ Go(t, "collect", Idle)
  /\ out' = out \cap (live \cup UNION {{me[u].ptr, me[u].ret} : u \in Thread})
  /\ UNCHANGED <<crashed, zone, heap, mutex, info, live>>

-----------------------------------------------------------------------------
(* What a thread does with the mutex held. *)
Section(t) ==
  \/ ReadLimits(t) \/ LoadFirst(t) \/ ReadSize(t) \/ Uncount(t)
  \/ ReadFirst(t) \/ CompareEnds(t) \/ DropFirst(t) \/ DropLast(t)
  \/ Advance(t)
  \/ ReadSizeToAdd(t) \/ Count(t) \/ TestFirst(t) \/ SetFirst(t)
  \/ LinkLast(t) \/ SetLast(t)

Next ==
  \E t \in Thread :
    \/ \E p \in Ptr : CmaAlloc(t, p) \/ Free(t, p)
    \/ Allocate(t) \/ Section(t) \/ CmaFree(t)
    \/ ResetSize(t) \/ ResetLast(t) \/ ResetFirst(t) \/ CmaCollect(t)

(* The scheduler does not leave a thread that has the mutex for ever. *)
Spec == Init /\ [][Next]_vars /\ \A t \in Thread : WF_vars(Section(t))

-----------------------------------------------------------------------------
(* Properties.                                                             *)

(* Every variable has its type, and the mutex is held by the thread that   *)
(* runs pushAndPopFromQuarantine, and by no other.                         *)
TypeOK ==
  /\ stops \in Regimes /\ crashed \in BOOLEAN
  /\ zone \in [size : 0 .. WordSize - 1, num : 0 .. WordSize - 1,
               first : Node \cup {Null}, last : Node \cup {Null}]
  /\ chunk \in [Node -> [ptr : Ptr \cup {NoPtr}, next : Node \cup {Null}]]
  /\ inUse \subseteq Node /\ out \subseteq Ptr /\ live \subseteq Ptr
  /\ info \in [Ptr -> {"NONE", "ALLOCATED", "DEALLOCATED"}]
  /\ me \in [Thread -> [pc : Location, ptr : Ptr \cup {NoPtr},
                        cur : Node \cup {Null}, next : Node \cup {Null},
                        val : Nat, ret : Ptr \cup {NoPtr}]]
  /\ mutex \in Thread \cup {NoThread}
  /\ \A t \in Thread : mutex = t <=> me[t].pc \in Popping \cup Pushing

(* The lock-free resets never make FREE use a CMAQuarantineChunk that has  *)
(* been given to InternalFree; and where a collection stops the other      *)
(* threads, no null pointer is dereferenced either, and the CMA gets back  *)
(* only what it has handed out.                                            *)
ChunksAllocated ==
  /\ \A t \in Thread :
       /\ me[t].pc \in {"uncount", "decrement"} => me[t].cur \in inUse
       /\ me[t].pc = "link" => zone.last \in inUse \cup {Null}
  /\ stops => ~crashed

(* The chunks from one on, in their order. *)
ChainFrom(c) ==
  LET from[n \in Node \cup {Null}, k \in 0 .. NumNodes] ==
        IF n = Null \/ k = 0 THEN << >>
        ELSE <<n>> \o from[chunk[n].next, k - 1]
  IN  from[c, NumNodes]

(* "Maximum number of freed objects in the quarantine zone"                *)
(* (docs/ENV.md:12) holds at every access and wherever a collection comes: *)
(* it resets the links and not the number.                                 *)
LengthWithinLimit == Len(ChainFrom(zone.first)) <= QuarantineNum

(* A thread that has the mutex releases it: the loop of popPtrIfMax ends,  *)
(* however many chunks in the list have been allocated again, and whatever *)
(* a collection does to the list meanwhile.                                *)
MutexReleased == \A t \in Thread : mutex = t ~> mutex # t \/ crashed

(* CMASan preserves the behaviour of the allocator: the body of FREE gets  *)
(* an address that the CMA has handed out, and no other thread gets it.    *)
HandBackSound ==
  \A t \in Thread : me[t].pc = "cmaFree" /\ me[t].ret # NoPtr =>
    /\ me[t].ret \in out
    /\ \A u \in Thread \ {t} : me[u].pc = "cmaFree" => me[u].ret # me[t].ret

-----------------------------------------------------------------------------
(* Where a collection stops the other threads, the accesses together are   *)
(* the operations of module QuarantineZone: a chunk leaves the zone with   *)
(* Uncount, from where on the list goes on with its successor, and enters  *)
(* it with SetFirst or LinkLast; a collection takes place with ResetSize.  *)
At(locations) == {t \in Thread : me[t].pc \in locations}

Unlinked == At({"test", "setFirst", "link"})

Chain ==
  LET popping == At({"readFirst", "compare", "dropFirst", "advance"})
  IN  IF At({"gcLast", "gcFirst"}) # {} THEN << >>
      ELSE ChainFrom(IF popping = {} THEN zone.first
                     ELSE me[CHOOSE t \in popping : TRUE].next)

ZoneOf ==
  [size |-> IF Unlinked = {} THEN zone.size
            ELSE zone.size - Span[me[CHOOSE t \in Unlinked : TRUE].ptr],
   num  |-> zone.num - Cardinality(Unlinked),
   list |-> [i \in DOMAIN Chain |-> [ptr  |-> chunk[Chain[i]].ptr,
                                     size |-> Span[chunk[Chain[i]].ptr]]]]

Operations ==
  INSTANCE ZoneOperations WITH zone <- IF stops THEN ZoneOf ELSE EmptyZone

FollowsOperations == Operations!Spec
=============================================================================
