----------------------------- MODULE CmaRuntime -----------------------------
(***************************************************************************)
(* The run-time hooks that CMASan adds to the functions of custom memory   *)
(* allocators (CMAs): the __asan_*CMAChunk* functions at the end of        *)
(* asan_allocator.cpp, run by several threads around the bodies of ALLOC,  *)
(* FREE, REALLOC, CLEAR and GC functions.                                  *)
(*                                                                         *)
(* Chunks are disjoint and named by the address they start at, so the      *)
(* two-layer table is a function from addresses to their record (module    *)
(* TwoLayerTable has the table itself).  The bodies of the CMA are not     *)
(* part of CMASan: "owner" says which instance has handed an address out,  *)
(* and the actions named Cma* do to it what any allocator may do.  "prog"  *)
(* is the program's view of an address.                                    *)
(***************************************************************************)
EXTENDS QuarantineZone, FiniteSets

CONSTANTS
  NoPtr,         \* the null pointer
  Thread,
  NoThread,      \* the mutex is free
  Id,            \* zone identifiers, one per allocator instance
  NoId,
  Serves,        \* the addresses an instance may hand out
  AllocZoneN,    \* get_alloczone_n()
  QuarantineOn,  \* is_quarantine_zone_on()
  HaltOnError,   \* does a report end the process
  Api,           \* which of REALLOC, CLEAR and GC the CMAs have
  ReallocKinds,  \* what the body of REALLOC may do
  CoarseAllocs,  \* may the granularity leave an allocation without redzone
  ProgramErrors, \* whether programs that pass dangling pointers are explored
  DeepFrees,     \* is FREE called deep below a function of another CMA
  NumBound,      \* GC is explored while a zone counts at most this many
  AllocBound     \* allocations are explored below this many list entries

ASSUME RuntimeAssumption ==
  /\ NoPtr \notin Ptr /\ NoThread \notin Thread /\ NoId \notin Id
  /\ Serves \in [Id -> SUBSET Ptr]
  /\ AllocZoneN \in Nat \ {0}
  /\ QuarantineOn \in BOOLEAN /\ HaltOnError \in BOOLEAN
  /\ CoarseAllocs \in BOOLEAN /\ ProgramErrors \in SUBSET BOOLEAN
  /\ DeepFrees \in BOOLEAN
  /\ Api \subseteq {"REALLOC", "CLEAR", "GC"}
  /\ ReallocKinds \subseteq {"in_place", "free_api", "direct", "fail", "zero"}
  /\ NumBound \in Nat /\ AllocBound \in Nat

VARIABLES
  info,     \* the record tlt_get finds at the start of a chunk
  shadow,   \* the poison over a chunk and its redzone
  zone,     \* _cma_qz_map: the quarantine zone of an instance
  alz,      \* _cma_alz_map: the first pos entries of an alloc_list
  mutex,    \* _tlt_chunk_info_mutex
  pc,       \* where a thread is
  ptr,      \* the pointer passed to the FREE or REALLOC a thread is in
  fresh,    \* the pointer the body of ALLOC or REALLOC has obtained
  ret,      \* the pointer the body of FREE runs with
  zid,      \* the zone identifier passed to the hooks
  inCma,    \* is the hook called below another CMA function
  owner,    \* the instance that has handed an address out
  prog,     \* the program's view of an address
  faulty    \* does the program pass pointers it has freed (never changes)

runtime == <<info, shadow, zone, alz, mutex>>
hooks == <<pc, ptr, fresh, ret, zid, inCma>>
vars == <<runtime, hooks, owner, prog, faulty>>

Status == {"ALLOCATED", "DEALLOCATED", "IN_REALLOC"}
Untracked == [status |-> "NONE", id |-> NoId]
Info == [status : Status, id : Id] \cup {Untracked}

(* "clean": nothing is poisoned; "chunk": the chunk is accessible and the  *)
(* redzone behind it poisoned; "freed": all of it is poisoned.             *)
Shadow == {"clean", "chunk", "freed"}

Location == {"idle", "allocate", "freeFast", "freeSlow", "report", "shrink",
             "cmaFree", "reStart", "reReport", "reBody", "reEnd", "collect"}

TltGet(p) == IF p = NoPtr THEN Untracked ELSE info[p]

Init ==
  /\ info   = [p \in Ptr |-> Untracked]
  /\ shadow = [p \in Ptr |-> "clean"]
  /\ zone   = [id \in Id |-> EmptyZone]
  /\ alz    = [id \in Id |-> << >>]
  /\ mutex  = NoThread
  /\ pc     = [t \in Thread |-> "idle"]
  /\ ptr    = [t \in Thread |-> NoPtr]
  /\ fresh  = [t \in Thread |-> NoPtr]
  /\ ret    = [t \in Thread |-> NoPtr]
  /\ zid    = [t \in Thread |-> NoId]
  /\ inCma  = [t \in Thread |-> FALSE]
  /\ owner  = [p \in Ptr |-> NoId]
  /\ prog   = [p \in Ptr |-> "unknown"]
  /\ faulty \in ProgramErrors

Goto(t, l) == pc' = [pc EXCEPT ![t] = l]

(* No collection has stopped the threads of the program. *)
Running == \A u \in Thread : pc[u] # "collect"

(* No thread has the address in one of its variables. *)
Quiet(p) == \A t \in Thread : p \notin {ptr[t], fresh[t], ret[t]}

(* The function returns to the program. *)
Return(t) ==
  /\ Goto(t, "idle")
  /\ ptr'   = [ptr EXCEPT ![t] = NoPtr]
  /\ fresh' = [fresh EXCEPT ![t] = NoPtr]
  /\ ret'   = [ret EXCEPT ![t] = NoPtr]
  /\ zid'   = [zid EXCEPT ![t] = NoId]
  /\ inCma' = [inCma EXCEPT ![t] = FALSE]

-----------------------------------------------------------------------------
(* The pieces the hooks share.                                             *)

(* addCMAAllocChunk: at alloczone_n entries the position wraps to zero. *)
AddCMAAllocChunk(list, p) ==
  IF Len(list) >= AllocZoneN THEN <<p>> ELSE Append(list, p)

(* Mutant: a chunk that is on record already keeps its record and poison. *)
AllocateUnlessKnown(i, s, p, id) ==
  /\ info'   = IF i[p] = Untracked
               THEN [i EXCEPT ![p] = [status |-> "ALLOCATED", id |-> id]]
               ELSE i
  /\ shadow' = IF i[p] = Untracked THEN [s EXCEPT ![p] = "chunk"] ELSE s
  /\ alz'    = [alz EXCEPT ![id] = AddCMAAllocChunk(@, p)]

(* allocateCMAChunkImpl for a chunk of instance id at p, where i and s are *)
(* the records and the shadow it finds.  A granularity too coarse for a    *)
(* redzone makes it return at once.                                        *)
AllocateImpl(i, s, p, id) ==
  \/ /\ info'   = [i EXCEPT ![p] = [status |-> "ALLOCATED", id |-> id]]
     /\ shadow' = [s EXCEPT ![p] = "chunk"]
     /\ alz'    = [alz EXCEPT ![id] = AddCMAAllocChunk(@, p)]
  \/ /\ CoarseAllocs
     /\ info' = i /\ shadow' = s
     /\ UNCHANGED alz

(* Mutant: no double free is recognised. *)
FreedBeforeNever(p, id) == FALSE

(* "Already freed before && same CMA family". *)
FreedBefore(p, id) == info[p].status = "DEALLOCATED" /\ info[p].id = id

(* Mutants: the record of a released chunk loses its instance; the chunk   *)
(* is not poisoned.                                                        *)
ReleasedFromNone(i, p, id) ==
  [i EXCEPT ![p] = [status |-> "DEALLOCATED", id |-> NoId]]
PoisonedNot(s, p) == s
(* The part of releaseCMAChunkImpl behind that test. *)
Released(i, p, id)  == [i EXCEPT ![p] = [status |-> "DEALLOCATED", id |-> id]]
Poisoned(s, p)      == [s EXCEPT ![p] = "freed"]

(* Mutant: the status of the chunk is not looked at. *)
IsChunkValidById(p, id) == info[p].id = id

(* isChunkValid: is the chunk popped from the zone of id still a free one? *)
IsChunkValid(p, id) == FreedBefore(p, id)

(* The end of pushAndPopFromQuarantine and of the hook: p enters the zone  *)
(* z of id, the body of FREE is to run with r, and the mutex is released,  *)
(* whoever holds it.                                                       *)
LeaveWith(t, r, id, z, p) ==
  /\ zone'  = [zone EXCEPT ![id] = PushPtr(z, p)]
  /\ ret'   = [ret EXCEPT ![t] = r]
  /\ mutex' = NoThread
  /\ Goto(t, "cmaFree")

(* Mutants: a chunk that a zone takes in without taking another out is     *)
(* returned as well; the quarantine cannot be switched off.                *)
PushAndReturn(t, p, id, holder) ==
  \/ BelowLimits(zone[id]) /\ LeaveWith(t, p, id, zone[id], p)
  \/ /\ ~BelowLimits(zone[id])
     /\ mutex' = holder
     /\ Goto(t, "shrink")
     /\ UNCHANGED <<zone, ret>>

PushAlways(t, p, id, holder) ==
  \/ BelowLimits(zone[id]) /\ LeaveWith(t, NoPtr, id, zone[id], p)
  \/ /\ ~BelowLimits(zone[id])
     /\ mutex' = holder
     /\ Goto(t, "shrink")
     /\ UNCHANGED <<zone, ret>>

(* pushAndPopFromQuarantine(p) up to the loop of popPtrIfMax, for a chunk  *)
(* of instance id; "holder" holds the mutex while the loop runs.           *)
PushAndPop(t, p, id, holder) ==
  \/ /\ ~QuarantineOn
     /\ ret'   = [ret EXCEPT ![t] = p]
     /\ mutex' = NoThread
     /\ Goto(t, "cmaFree")
     /\ UNCHANGED zone
  \/ /\ QuarantineOn /\ BelowLimits(zone[id])
     /\ LeaveWith(t, NoPtr, id, zone[id], p)
  \/ /\ QuarantineOn /\ ~BelowLimits(zone[id])
     /\ mutex' = holder
     /\ Goto(t, "shrink")
     /\ UNCHANGED <<zone, ret>>

-----------------------------------------------------------------------------
(* ALLOC.                                                                  *)

(* The body of ALLOC obtains an address that is not handed out. *)
CmaAlloc(t, id, p) ==
  /\ pc[t] = "idle" /\ Running
  /\ p \in Serves[id] /\ owner[p] = NoId /\ Len(alz[id]) < AllocBound
  /\ owner' = [owner EXCEPT ![p] = id]
  /\ fresh' = [fresh EXCEPT ![t] = p]
  /\ zid'   = [zid EXCEPT ![t] = id]
  /\ Goto(t, "allocate")
  /\ UNCHANGED <<runtime, ptr, ret, inCma, prog, faulty>>

(* __asan_allocateCMAChunk, before ALLOC returns. *)
AllocateCMAChunk(t) ==
  /\ pc[t] = "allocate" /\ mutex = NoThread
  /\ AllocateImpl(info, shadow, fresh[t], zid[t])
  /\ prog' = [prog EXCEPT ![fresh[t]] = "live"]
  /\ Return(t)
  /\ UNCHANGED <<zone, mutex, owner, faulty>>

-----------------------------------------------------------------------------
(* FREE.                                                                   *)

(* The program may pass the pointers it holds to the instance they are     *)
(* from; a faulty one passes pointers it has freed, too.                   *)
MayPass(p, id) ==
  \/ prog[p] = "live" /\ owner[p] = id
  \/ faulty /\ prog[p] = "dangling" /\ info[p].id = id

(* The program calls FREE; the hook is entered with the identifier of the  *)
(* instance.  Without a quarantine its first critical section is skipped.  *)
FreeCall(t, p, id) ==
  /\ pc[t] = "idle" /\ Running
  /\ MayPass(p, id)
  /\ prog' = [prog EXCEPT ![p] = "dangling"]
  /\ ptr'  = [ptr EXCEPT ![t] = p]
  /\ zid'  = [zid EXCEPT ![t] = id]
  /\ Goto(t, IF QuarantineOn THEN "freeFast" ELSE "freeSlow")
  /\ UNCHANGED <<runtime, fresh, ret, inCma, owner, faulty>>

(* Mutant: a chunk in reallocation is kept from the CMA, but not put into  *)
(* the zone.                                                               *)
ReleaseInReallocLosing(t) ==
  /\ pc[t] = "freeFast" /\ mutex = NoThread
  /\ \/ /\ info[ptr[t]].status = "IN_REALLOC"
        /\ info' = [info EXCEPT ![ptr[t]].status = "DEALLOCATED"]
        /\ ret' = [ret EXCEPT ![t] = NoPtr]
        /\ Goto(t, "cmaFree")
     \/ /\ info[ptr[t]].status # "IN_REALLOC"
        /\ Goto(t, "freeSlow")
        /\ UNCHANGED <<info, ret>>
  /\ UNCHANGED <<shadow, zone, mutex, alz, ptr, fresh, zid, inCma, owner, prog,
                 faulty>>

(* __asan_releaseCMAChunk, first critical section: a chunk in              *)
(* reallocation goes to the quarantine without being poisoned.  Any other  *)
(* pointer of a nested FREE is left to the CMA.                            *)
ReleaseInRealloc(t) ==
  /\ pc[t] = "freeFast" /\ mutex = NoThread
  /\ \/ /\ info[ptr[t]].status = "IN_REALLOC"
        /\ info' = [info EXCEPT ![ptr[t]].status = "DEALLOCATED"]
        /\ PushAndPop(t, ptr[t], info[ptr[t]].id, t)
     \/ /\ info[ptr[t]].status # "IN_REALLOC" /\ inCma[t]
        /\ ret' = [ret EXCEPT ![t] = ptr[t]]
        /\ Goto(t, "cmaFree")
        /\ UNCHANGED <<info, zone, mutex>>
     \/ /\ info[ptr[t]].status # "IN_REALLOC" /\ ~inCma[t]
        /\ Goto(t, "freeSlow")
        /\ UNCHANGED <<info, zone, mutex, ret>>
  /\ UNCHANGED <<shadow, alz, ptr, fresh, zid, inCma, owner, prog, faulty>>

(* __asan_releaseCMAChunk, second critical section.  A double free is      *)
(* reported with the mutex released, unless the whole stack shows another  *)
(* CMA (isCMAInCallStackSkipOneCMA), which the five frames behind inCma    *)
(* may have missed.                                                        *)
Release(t) ==
  /\ pc[t] = "freeSlow" /\ mutex = NoThread
  /\ \/ /\ info[ptr[t]] = Untracked
        /\ ret' = [ret EXCEPT ![t] = ptr[t]]
        /\ Goto(t, "cmaFree")
        /\ UNCHANGED <<info, shadow, zone, mutex>>
     \/ /\ FreedBefore(ptr[t], zid[t])
        /\ Goto(t, "report")
        /\ UNCHANGED <<info, shadow, zone, mutex, ret>>
     \/ /\ info[ptr[t]] # Untracked
        /\ FreedBefore(ptr[t], zid[t]) => DeepFrees
        /\ info'   = Released(info, ptr[t], zid[t])
        /\ shadow' = Poisoned(shadow, ptr[t])
        /\ PushAndPop(t, ptr[t], zid[t], t)
  /\ UNCHANGED <<alz, ptr, fresh, zid, inCma, owner, prog, faulty>>

(* ReportDoubleFree returns when errors do not halt the process, and       *)
(* releaseCMAChunkImpl goes on without the mutex.                          *)
ReleaseAfterReport(t) ==
  /\ pc[t] = "report" /\ ~HaltOnError
  /\ info'   = Released(info, ptr[t], zid[t])
  /\ shadow' = Poisoned(shadow, ptr[t])
  /\ PushAndPop(t, ptr[t], zid[t], mutex)
  /\ UNCHANGED <<alz, ptr, fresh, zid, inCma, owner, prog, faulty>>

(* One iteration of the loop of popPtrIfMax, for the zone of the chunk     *)
(* that is about to be pushed.  It ends with the first chunk that is still *)
(* free, or with an empty list.                                            *)
Shrink(t) ==
  LET id == info[ptr[t]].id
      z  == zone[id]
  IN  /\ pc[t] = "shrink"
      /\ \/ /\ z.list = << >>
            /\ LeaveWith(t, NoPtr, id, z, ptr[t])
         \/ /\ z.list # << >> /\ IsChunkValid(Head(z.list).ptr, id)
            /\ LeaveWith(t, Head(z.list).ptr, id, PopFirst(z), ptr[t])
         \/ /\ z.list # << >> /\ ~IsChunkValid(Head(z.list).ptr, id)
            /\ zone' = [zone EXCEPT ![id] = PopFirst(z)]
            /\ UNCHANGED <<mutex, pc, ret>>
      /\ UNCHANGED <<info, shadow, alz, ptr, fresh, zid, inCma, owner, prog,
                     faulty>>

(* The body of FREE runs with the pointer the hook returned, and does      *)
(* nothing for the null pointer.  A REALLOC that has obtained a new chunk  *)
(* goes on; one to the size zero ends, as its last hook returns at once.   *)
CmaFree(t) ==
  /\ pc[t] = "cmaFree"
  /\ owner' = IF ret[t] = NoPtr THEN owner ELSE [owner EXCEPT ![ret[t]] = NoId]
  /\ \/ /\ inCma[t] /\ fresh[t] # NoPtr
        /\ Goto(t, "reEnd")
        /\ ret'   = [ret EXCEPT ![t] = NoPtr]
        /\ inCma' = [inCma EXCEPT ![t] = FALSE]
        /\ UNCHANGED <<ptr, fresh, zid>>
     \/ ~(inCma[t] /\ fresh[t] # NoPtr) /\ Return(t)
  /\ UNCHANGED <<runtime, prog, faulty>>

-----------------------------------------------------------------------------
(* REALLOC.                                                                *)

(* The program calls REALLOC with a pointer, or with the null pointer. *)
ReallocCall(t, p, id) ==
  /\ "REALLOC" \in Api /\ pc[t] = "idle" /\ Running
  /\ Len(alz[id]) < AllocBound
  /\ \/ p = NoPtr /\ UNCHANGED prog
     \/ /\ p # NoPtr /\ MayPass(p, id) /\ Quiet(p)
        /\ prog' = [prog EXCEPT ![p] = IF @ = "live" THEN "moving" ELSE @]
  /\ ptr' = [ptr EXCEPT ![t] = p]
  /\ zid' = [zid EXCEPT ![t] = id]
  /\ Goto(t, "reStart")
  /\ UNCHANGED <<runtime, fresh, ret, inCma, owner, faulty>>

(* The end of __asan_reallocateCMAChunkStart: the old chunk is accessible  *)
(* to the body of REALLOC with its redzone.                                *)
OpenForRealloc(p) ==
  /\ info'   = [info EXCEPT ![p].status = "IN_REALLOC"]
  /\ shadow' = [shadow EXCEPT ![p] = "clean"]

(* Mutant: a chunk without a record is not left alone. *)
StartUnchecked(t) ==
  /\ pc[t] = "reStart" /\ mutex = NoThread
  /\ IF ptr[t] = NoPtr THEN UNCHANGED <<info, shadow>>
                       ELSE OpenForRealloc(ptr[t])
  /\ Goto(t, "reBody")
  /\ UNCHANGED <<zone, alz, mutex, ptr, fresh, ret, zid, inCma, owner, prog,
                 faulty>>

(* __asan_reallocateCMAChunkStart. *)
ReallocateCMAChunkStart(t) ==
  /\ pc[t] = "reStart" /\ mutex = NoThread
  /\ \/ /\ TltGet(ptr[t]) = Untracked
        /\ Goto(t, "reBody")
        /\ UNCHANGED <<info, shadow>>
     \/ /\ TltGet(ptr[t]) # Untracked /\ FreedBefore(ptr[t], zid[t])
        /\ Goto(t, "reReport")
        /\ UNCHANGED <<info, shadow>>
     \/ /\ TltGet(ptr[t]) # Untracked /\ ~FreedBefore(ptr[t], zid[t])
        /\ OpenForRealloc(ptr[t])
        /\ Goto(t, "reBody")
  /\ UNCHANGED <<zone, alz, mutex, ptr, fresh, ret, zid, inCma, owner, prog,
                 faulty>>

(* __asan_reallocateCMAChunkStart after a report that does not halt: it    *)
(* goes on without the mutex, and releases it once more.                   *)
StartAfterReport(t) ==
  /\ pc[t] = "reReport" /\ ~HaltOnError
  /\ OpenForRealloc(ptr[t])
  /\ mutex' = NoThread
  /\ Goto(t, "reBody")
  /\ UNCHANGED <<zone, alz, ptr, fresh, ret, zid, inCma, owner, prog, faulty>>

(* The body resizes the chunk where it is. *)
CmaReallocInPlace(t) ==
  /\ "in_place" \in ReallocKinds /\ pc[t] = "reBody" /\ ptr[t] # NoPtr
  /\ fresh' = [fresh EXCEPT ![t] = ptr[t]]
  /\ Goto(t, "reEnd")
  /\ UNCHANGED <<runtime, ptr, ret, zid, inCma, owner, prog, faulty>>

(* The body finds no memory and leaves the old chunk, if any, alone. *)
CmaReallocFail(t) ==
  /\ pc[t] = "reBody" /\ ("fail" \in ReallocKinds \/ ptr[t] = NoPtr)
  /\ Goto(t, "reEnd")
  /\ UNCHANGED <<runtime, ptr, fresh, ret, zid, inCma, owner, prog, faulty>>

(* The body obtains q, copies, and calls the FREE function on the old      *)
(* pointer; the call is nested, so only the first critical section of      *)
(* __asan_releaseCMAChunk can keep the pointer from being freed.           *)
CallFree(t) ==
  /\ inCma' = [inCma EXCEPT ![t] = TRUE]
  /\ prog'  = [prog EXCEPT ![ptr[t]] = "dangling"]
  /\ \/ QuarantineOn /\ Goto(t, "freeFast") /\ UNCHANGED ret
     \/ /\ ~QuarantineOn /\ Goto(t, "cmaFree")
        /\ ret' = [ret EXCEPT ![t] = ptr[t]]

CmaReallocMove(t, q) ==
  /\ "free_api" \in ReallocKinds /\ pc[t] = "reBody" /\ ptr[t] # NoPtr
  /\ q \in Serves[zid[t]] /\ owner[q] = NoId
  /\ owner' = [owner EXCEPT ![q] = zid[t]]
  /\ fresh' = [fresh EXCEPT ![t] = q]
  /\ CallFree(t)
  /\ UNCHANGED <<runtime, ptr, zid, faulty>>

(* The same for a new size of zero: the old chunk is freed, nothing new is *)
(* obtained.                                                               *)
CmaReallocZero(t) ==
  /\ "zero" \in ReallocKinds /\ pc[t] = "reBody" /\ ptr[t] # NoPtr
  /\ CallFree(t)
  /\ UNCHANGED <<runtime, ptr, fresh, zid, owner, faulty>>

(* The body obtains q and recycles the old chunk without the FREE          *)
(* function; with a null pointer this is a mere allocation.                *)
CmaReallocMoveDirect(t, q) ==
  /\ "direct" \in ReallocKinds /\ pc[t] = "reBody"
  /\ q \in Serves[zid[t]] /\ owner[q] = NoId
  /\ fresh' = [fresh EXCEPT ![t] = q]
  /\ owner' = [p \in Ptr |-> IF p = q THEN zid[t]
                             ELSE IF p = ptr[t] THEN NoId ELSE owner[p]]
  /\ prog'  = [p \in Ptr |-> IF p = ptr[t] THEN "dangling" ELSE prog[p]]
  /\ Goto(t, "reEnd")
  /\ UNCHANGED <<runtime, ptr, ret, zid, inCma, faulty>>

(* __asan_reallocateCMAChunkEnd when REALLOC has failed: the early return  *)
(* for a null pointer.  The program still has the old chunk.               *)
ReallocateEndNull(t) ==
  /\ pc[t] = "reEnd" /\ fresh[t] = NoPtr
  /\ prog' = [p \in Ptr |-> IF p = ptr[t] THEN "live" ELSE prog[p]]
  /\ Return(t)
  /\ UNCHANGED <<runtime, owner, faulty>>

(* Mutant: a chunk that the body has passed to FREE is not poisoned. *)
ReallocateEndSkippingFreed(t) ==
  /\ pc[t] = "reEnd" /\ fresh[t] # NoPtr /\ mutex = NoThread
  /\ AllocateImpl(info, shadow, fresh[t], zid[t])
  /\ prog' = [prog EXCEPT ![fresh[t]] = "live"]
  /\ Return(t)
  /\ UNCHANGED <<zone, mutex, owner, faulty>>

(* __asan_reallocateCMAChunkEnd otherwise.  A chunk that moved is released *)
(* whatever its status is (IN_REALLOC is restored first where a double     *)
(* free would be reported); one that stayed is DEALLOCATED for the moment  *)
(* it takes to allocate it again.                                          *)
ReallocateCMAChunkEnd(t) ==
  LET old   == ptr[t]
      moved == old # fresh[t] /\ TltGet(old) # Untracked
      i     == IF moved THEN Released(info, old, zid[t])
               ELSE IF old = fresh[t] /\ TltGet(old) # Untracked
                    THEN [info EXCEPT ![old].status = "DEALLOCATED"]
                    ELSE info
      s     == IF moved THEN Poisoned(shadow, old) ELSE shadow
  IN  /\ pc[t] = "reEnd" /\ fresh[t] # NoPtr /\ mutex = NoThread
      /\ AllocateImpl(i, s, fresh[t], zid[t])
      /\ prog' = [prog EXCEPT ![fresh[t]] = "live"]
      /\ Return(t)
      /\ UNCHANGED <<zone, mutex, owner, faulty>>

-----------------------------------------------------------------------------
(* CLEAR and GC.                                                           *)

(* Mutant: the last chunk on the list is left out. *)
ClearAllButLast(t, id) ==
  LET listed  == {alz[id][i] : i \in 1 .. Len(alz[id]) - 1}
      cleared == {p \in listed : info[p].status \notin {"NONE", "DEALLOCATED"}}
  IN  /\ "CLEAR" \in Api /\ pc[t] = "idle" /\ Running /\ mutex = NoThread
      /\ \A u \in Thread : zid[u] # id
      /\ info'   = [p \in Ptr |-> IF p \in cleared
                                  THEN [status |-> "DEALLOCATED", id |-> id]
                                  ELSE info[p]]
      /\ shadow' = [p \in Ptr |-> IF p \in cleared THEN "freed" ELSE shadow[p]]
      /\ alz'    = [alz EXCEPT ![id] = << >>]
      /\ owner'  = [p \in Ptr |-> IF owner[p] = id THEN NoId ELSE owner[p]]
      /\ prog'   = [p \in Ptr |-> IF owner[p] = id /\ prog[p] = "live"
                                  THEN "dangling" ELSE prog[p]]
      /\ UNCHANGED <<zone, mutex, hooks, faulty>>

(* __asan_clearCMAChunks and the body of CLEAR, called while no other      *)
(* thread uses the instance: the chunks on the list that are not freed are *)
(* released and poisoned, whichever instance they belong to by now; the    *)
(* list is emptied; the quarantine zone is not looked at.  The CMA then    *)
(* takes back everything it has handed out.                                *)
ClearCMAChunks(t, id) ==
  LET listed  == {alz[id][i] : i \in 1 .. Len(alz[id])}
      cleared == {p \in listed : info[p].status \notin {"NONE", "DEALLOCATED"}}
  IN  /\ "CLEAR" \in Api /\ pc[t] = "idle" /\ Running /\ mutex = NoThread
      /\ \A u \in Thread : zid[u] # id
      /\ info'   = [p \in Ptr |-> IF p \in cleared
                                  THEN [status |-> "DEALLOCATED", id |-> id]
                                  ELSE info[p]]
      /\ shadow' = [p \in Ptr |-> IF p \in cleared THEN "freed" ELSE shadow[p]]
      /\ alz'    = [alz EXCEPT ![id] = << >>]
      /\ owner'  = [p \in Ptr |-> IF owner[p] = id THEN NoId ELSE owner[p]]
      /\ prog'   = [p \in Ptr |-> IF owner[p] = id /\ prog[p] = "live"
                                  THEN "dangling" ELSE prog[p]]
      /\ UNCHANGED <<zone, mutex, hooks, faulty>>

(* __asan_emptyQuarantineOnGC, at the entry of a GC function.  It does not *)
(* take the mutex and relies on the CMA, which collects while its other    *)
(* threads are stopped outside of its functions; module CollectSteps has   *)
(* the collections of a CMA that stops nobody.                             *)
EmptyQuarantineOnGC(t, id) ==
  /\ "GC" \in Api /\ \A u \in Thread : pc[u] = "idle"
  /\ zone[id].num <= NumBound
  /\ zone' = IF QuarantineOn THEN [zone EXCEPT ![id] = EmptyOnGC(@)] ELSE zone
  /\ alz'  = [alz EXCEPT ![id] = << >>]
  /\ zid'  = [zid EXCEPT ![t] = id]
  /\ Goto(t, "collect")
  /\ UNCHANGED <<info, shadow, mutex, ptr, fresh, ret, inCma, owner, prog,
                 faulty>>

(* The body of GC: the CMA takes back what nothing refers to any more. *)
CmaCollect(t) ==
  LET unreferenced ==
        {p \in Ptr : owner[p] = zid[t] /\ prog[p] = "dangling" /\ Quiet(p)}
  IN  /\ pc[t] = "collect"
      /\ owner' = [p \in Ptr |-> IF p \in unreferenced THEN NoId ELSE owner[p]]
      /\ Return(t)
      /\ UNCHANGED <<runtime, prog, faulty>>

-----------------------------------------------------------------------------
Hook(t) ==
  \/ AllocateCMAChunk(t)
  \/ ReleaseInRealloc(t) \/ Release(t) \/ ReleaseAfterReport(t) \/ Shrink(t)
  \/ ReallocateCMAChunkStart(t) \/ StartAfterReport(t)
  \/ ReallocateEndNull(t) \/ ReallocateCMAChunkEnd(t)

CmaBody(t) ==
  \/ CmaFree(t) \/ CmaCollect(t)
  \/ CmaReallocInPlace(t) \/ CmaReallocFail(t) \/ CmaReallocZero(t)
  \/ \E q \in Ptr : CmaReallocMove(t, q) \/ CmaReallocMoveDirect(t, q)

Call(t) ==
  \E id \in Id :
    \/ \E p \in Ptr : CmaAlloc(t, id, p) \/ FreeCall(t, p, id)
    \/ \E p \in Ptr \cup {NoPtr} : ReallocCall(t, p, id)
    \/ ClearCMAChunks(t, id)
    \/ EmptyQuarantineOnGC(t, id)

Next == \E t \in Thread : Hook(t) \/ CmaBody(t) \/ Call(t)

Spec == Init /\ [][Next]_vars
-----------------------------------------------------------------------------
(* Properties.                                                             *)

(* Every variable has its type.  The lists hold addresses of chunks, a     *)
(* thread outside the hooks holds nothing, and the pointers of a thread in *)
(* a hook are null only where the code allows it.                          *)
TypeOK ==
  /\ info   \in [Ptr -> Info]
  /\ shadow \in [Ptr -> Shadow]
  /\ zone   \in [Id -> Zone]
  /\ alz    \in [Id -> Seq(Ptr)]
  /\ mutex  \in Thread \cup {NoThread}
  /\ pc     \in [Thread -> Location]
  /\ ptr    \in [Thread -> Ptr \cup {NoPtr}]
  /\ fresh  \in [Thread -> Ptr \cup {NoPtr}]
  /\ ret    \in [Thread -> Ptr \cup {NoPtr}]
  /\ zid    \in [Thread -> Id \cup {NoId}]
  /\ inCma  \in [Thread -> BOOLEAN]
  /\ owner  \in [Ptr -> Id \cup {NoId}]
  /\ prog   \in [Ptr -> {"unknown", "live", "moving", "dangling"}]
  /\ faulty \in BOOLEAN

(* No false positive and no missed overflow: the chunks the program holds  *)
(* are accessible and have their redzone, unless the program itself frees  *)
(* an address that it gets again meanwhile.                                *)
LiveGuarded ==
  ~faulty => \A p \in Ptr : prog[p] = "live" => shadow[p] = "chunk"

(* "Rollback status to avoid false positive DF" (asan_allocator.cpp:1578): *)
(* a program that frees nothing twice is never reported for a double free. *)
NoFalseDoubleFree ==
  ~faulty => \A t \in Thread : pc[t] \notin {"report", "reReport"}

(* Every use after free is seen: a chunk the program has freed stays       *)
(* poisoned until its address is handed out again, whether it is in a      *)
(* quarantine zone or back with the allocator.                             *)
DanglingPoisoned ==
  \A p \in Ptr : prog[p] = "dangling" /\ Quiet(p) => shadow[p] = "freed"

Returning(t, p) == pc[t] = "cmaFree" /\ ret[t] = p

(* The program commits no double free that it survives: one that is not    *)
(* reported, or reported while errors do not halt the process.             *)
Contained == faulty => HaltOnError /\ ~DeepFrees

(* CMASan preserves the behaviour of the allocator: the body of FREE runs  *)
(* only with an address that this same instance has handed out and has not *)
(* got back, and not in two threads with the same one.                     *)
HandBackSound == Contained =>
  \A t \in Thread, p \in Ptr : Returning(t, p) =>
    /\ owner[p] = zid[t]
    /\ \A u \in Thread \ {t} : ~Returning(u, p)

(* The quarantine works: an address waiting in a zone as a free chunk is   *)
(* still out of the allocator's reach, and waits there once.               *)
QuarantineHeld == Contained =>
  \A id \in Id : LET list == zone[id].list IN
    \A i \in 1 .. Len(list) : IsChunkValid(list[i].ptr, id) =>
      /\ owner[list[i].ptr] = id
      /\ \A j \in 1 .. Len(list) : list[j].ptr = list[i].ptr => j = i

(* Nothing is lost: an address the program has freed is back with the      *)
(* allocator, on its way there, or in the zone of its instance.            *)
NothingLost ==
  QuarantineOn =>
    \A p \in Ptr : prog[p] = "dangling" /\ owner[p] # NoId /\ Quiet(p) =>
      \E i \in 1 .. Len(zone[owner[p]].list) : zone[owner[p]].list[i].ptr = p

(* The two counters of a zone, from which popPtrIfMax decides, are those   *)
(* of its list; without GC.                                                *)
CountersAccurate ==
  \A id \in Id : /\ zone[id].num = Len(zone[id].list)
                 /\ zone[id].size = BytesOf(zone[id].list)

(* "Maximum number of freed objects in the quarantine zone"                *)
(* (docs/ENV.md:12), for a maximum of at least one.                        *)
NumWithinLimit == \A id \in Id : Len(zone[id].list) <= QuarantineNum

(* "Quarantine is not full yet" (asan_allocator.cpp:1161): a thread starts *)
(* to take chunks out of a zone only when the zone is full.                *)
EvictsOnlyWhenFull ==
  [][\A t \in Thread : pc[t] # "shrink" /\ pc'[t] = "shrink" =>
       LET list == zone[info'[ptr[t]].id].list
       IN  BytesOf(list) >= QuarantineSize \/ Len(list) >= QuarantineNum]_vars

(* A pointer is not released twice: a second FREE of a pointer that waits  *)
(* in a zone is stopped, and does not bring it there again.                *)
NotQuarantinedTwice == Contained =>
  \A id \in Id : LET list == zone[id].list IN
    \A i, j \in 1 .. Len(list) : list[i].ptr = list[j].ptr => i = j

-----------------------------------------------------------------------------
(* The hooks implement the cycle of module ChunkCycle.                     *)

CycleOf(p) ==
  IF \E t \in Thread : Returning(t, p) THEN "returning"
  ELSE IF owner[p] = NoId THEN "free"
  ELSE IF prog[p] = "dangling" /\ \A t \in Thread : fresh[t] # p THEN "held"
  ELSE "live"

Cycle == INSTANCE ChunkCycle WITH cycle <- [p \in Ptr |-> CycleOf(p)]

FollowsCycle == Cycle!Spec
=============================================================================
