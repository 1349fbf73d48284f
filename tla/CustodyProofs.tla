--------------------------- MODULE CustodyProofs ---------------------------
(***************************************************************************)
(* CMASan never runs the body of FREE with an address that the allocator   *)
(* has already got back, for any set of addresses, threads and instances.  *)
(* The invariant is Custody of module CmaRuntimeInv: the program, one      *)
(* thread, one zone or the allocator answers for every address.            *)
(***************************************************************************)
EXTENDS CmaRuntimeProofs

-----------------------------------------------------------------------------
(* Lists of a zone.                                                        *)

(* pushPtr puts one address behind those in the list. *)
LEMMA InPush ==
  ASSUME NEW z \in Zone, NEW p \in Ptr
  PROVE  /\ \A q : InList(PushPtr(z, p).list, q) <=> InList(z.list, q) \/ q = p
         /\ \A q : Once(z.list, q) /\ (q = p => ~InList(z.list, q))
                => Once(PushPtr(z, p).list, q)
<1> DEFINE e == [ptr |-> p, size |-> Span[p]]
           list == Append(z.list, e)
<1>1. PushPtr(z, p).list = list
  BY DEF PushPtr
<1>2. z.list \in Seq(Entry) /\ e \in Entry
  BY ZoneAssumption DEF Zone, Entry
<1>3. /\ Len(z.list) \in Nat
      /\ DOMAIN z.list = 1 .. Len(z.list)
      /\ DOMAIN list = 1 .. Len(z.list) + 1
      /\ \A i \in 1 .. Len(z.list) : list[i] = z.list[i]
      /\ list[Len(z.list) + 1] = e
  BY <1>2
<1>4. e.ptr = p
  OBVIOUS
<1> HIDE DEF e, list
<1>5. \A i \in DOMAIN list : i \in DOMAIN z.list \/ i = Len(z.list) + 1
  BY <1>3
<1>6. \A q : InList(list, q) <=> InList(z.list, q) \/ q = p
  BY <1>3, <1>4, <1>5 DEF InList
<1>7. \A q : Once(z.list, q) /\ (q = p => ~InList(z.list, q)) => Once(list, q)
  BY <1>3, <1>4, <1>5 DEF InList, Once
<1> QED
  BY <1>1, <1>6, <1>7

(* popPtrIfMax takes the first address out. *)
LEMMA InPop ==
  ASSUME NEW z \in Zone, z.list # << >>
  PROVE  /\ Head(z.list).ptr \in Ptr /\ InList(z.list, Head(z.list).ptr)
         /\ \A q : InList(PopFirst(z).list, q) => InList(z.list, q)
         /\ \A q : Once(z.list, q) => Once(PopFirst(z).list, q)
         /\ Once(z.list, Head(z.list).ptr)
              => ~InList(PopFirst(z).list, Head(z.list).ptr)
<1>1. z.list \in Seq(Entry) /\ Head(z.list) \in Entry
  BY DEF Zone
<1>2. PopFirst(z).list = Tail(z.list)
  BY DEF PopFirst
<1>3. /\ Len(z.list) \in Nat \ {0}
      /\ DOMAIN z.list = 1 .. Len(z.list)
      /\ DOMAIN Tail(z.list) = 1 .. Len(z.list) - 1
      /\ \A i \in 1 .. Len(z.list) - 1 : Tail(z.list)[i] = z.list[i + 1]
      /\ Head(z.list) = z.list[1]
  BY <1>1
<1>4. \A i \in DOMAIN Tail(z.list) : i + 1 \in DOMAIN z.list /\ i + 1 # 1
  BY <1>3
<1>5. Head(z.list).ptr \in Ptr /\ InList(z.list, Head(z.list).ptr)
  BY <1>1, <1>3 DEF Entry, InList
<1>6. \A q : InList(Tail(z.list), q) => InList(z.list, q)
  BY <1>3, <1>4 DEF InList
<1>7. \A q : Once(z.list, q) => Once(Tail(z.list), q)
  BY <1>3, <1>4 DEF Once
<1>8. Once(z.list, Head(z.list).ptr)
        => ~InList(Tail(z.list), Head(z.list).ptr)
  BY <1>3, <1>4 DEF Once, InList
<1> QED
  BY <1>2, <1>5, <1>6, <1>7, <1>8

-----------------------------------------------------------------------------
CustodyInv == TypeInv /\ Custody /\ ~faulty

(* The body of ALLOC obtains an address that nobody answers for.           *)
LEMMA CmaAllocCustody ==
  ASSUME CustodyAssumption, CustodyInv, NEW t \in Thread, NEW id \in Id,
         NEW p \in Ptr,
         CmaAlloc(t, id, p)
  PROVE  CustodyInv'
<1>1. TypeInv' /\ ~faulty'
  BY AllocTypeInv
  DEF CustodyInv, CmaAlloc, Goto, runtime
<1>2. Served'
  BY RuntimeAssumption
  DEF CustodyInv, Custody, TypeInv, TypeOK, Located, CmaAlloc, Goto,
      runtime, Served
<1>3. LiveOwned'
  BY RuntimeAssumption
  DEF CustodyInv, Custody, TypeInv, TypeOK, Located, CmaAlloc, Goto,
      runtime, LiveOwned, HeldOnce, Holds
<1>4. HeldOnce'
  BY RuntimeAssumption
  DEF CustodyInv, Custody, TypeInv, TypeOK, Located, CmaAlloc, Goto,
      runtime, LiveOwned, HeldOnce, Holds, Returning, Freeing, Reallocating
<1>5. ListedOnce'
  BY RuntimeAssumption
  DEF CustodyInv, Custody, TypeInv, TypeOK, Located, CmaAlloc, Goto,
      runtime, LiveOwned, HeldOnce, ListedOnce, Listed, Holds, Returning,
      Freeing, Reallocating
<1> QED
  BY <1>1, <1>2, <1>3, <1>4, <1>5 DEF CustodyInv, Custody

(* A live address passes from the program to the thread.                   *)
LEMMA FreeCallCustody ==
  ASSUME CustodyAssumption, CustodyInv, NEW t \in Thread, NEW id \in Id,
         NEW p \in Ptr,
         FreeCall(t, p, id)
  PROVE  CustodyInv'
<1>1. TypeInv' /\ ~faulty'
  BY FreeTypeInv
  DEF CustodyInv, FreeCall, MayPass, Goto, runtime
<1>2. Served'
  BY RuntimeAssumption
  DEF CustodyInv, Custody, TypeInv, TypeOK, Located, FreeCall, MayPass,
      Goto, runtime, Served
<1>3. LiveOwned'
  BY RuntimeAssumption
  DEF CustodyInv, Custody, TypeInv, TypeOK, Located, FreeCall, MayPass,
      Goto, runtime, LiveOwned, HeldOnce, Holds
<1>4. HeldOnce'
  BY RuntimeAssumption
  DEF CustodyInv, Custody, TypeInv, TypeOK, Located, FreeCall, MayPass,
      Goto, runtime, LiveOwned, HeldOnce, Holds, Returning, Freeing,
      Reallocating
<1>5. ListedOnce'
  BY RuntimeAssumption
  DEF CustodyInv, Custody, TypeInv, TypeOK, Located, FreeCall, MayPass,
      Goto, runtime, LiveOwned, HeldOnce, ListedOnce, Listed, Holds,
      Returning, Freeing, Reallocating
<1> QED
  BY <1>1, <1>2, <1>3, <1>4, <1>5 DEF CustodyInv, Custody

(* The same for REALLOC.                                                   *)
LEMMA ReallocCallCustody ==
  ASSUME CustodyAssumption, CustodyInv, NEW t \in Thread, NEW id \in Id,
         NEW p \in Ptr \cup {NoPtr},
         ReallocCall(t, p, id)
  PROVE  CustodyInv'
<1>1. TypeInv' /\ ~faulty'
  BY ReallocBodyTypeInv
  DEF CustodyInv, ReallocCall, MayPass, Goto, runtime
<1>2. Served'
  BY RuntimeAssumption
  DEF CustodyInv, Custody, TypeInv, TypeOK, Located, ReallocCall, MayPass,
      Goto, runtime, Served
<1>3. LiveOwned'
  BY RuntimeAssumption
  DEF CustodyInv, Custody, TypeInv, TypeOK, Located, ReallocCall, MayPass,
      Goto, runtime, LiveOwned, HeldOnce, Holds
<1>4. HeldOnce'
  BY RuntimeAssumption
  DEF CustodyInv, Custody, TypeInv, TypeOK, Located, ReallocCall, MayPass,
      Goto, runtime, LiveOwned, HeldOnce, Holds, Returning, Freeing,
      Reallocating
<1>5. ListedOnce'
  BY RuntimeAssumption
  DEF CustodyInv, Custody, TypeInv, TypeOK, Located, ReallocCall, MayPass,
      Goto, runtime, LiveOwned, HeldOnce, ListedOnce, Listed, Holds,
      Returning, Freeing, Reallocating
<1> QED
  BY <1>1, <1>2, <1>3, <1>4, <1>5 DEF CustodyInv, Custody

(* The thread keeps the address it is to resize.                           *)
LEMMA InPlaceCustody ==
  ASSUME CustodyAssumption, CustodyInv, NEW t \in Thread,
         CmaReallocInPlace(t)
  PROVE  CustodyInv'
<1>1. TypeInv' /\ ~faulty'
  BY ReallocBodyTypeInv
  DEF CustodyInv, CmaReallocInPlace, Goto, runtime
<1>2. Served'
  BY RuntimeAssumption
  DEF CustodyInv, Custody, TypeInv, TypeOK, Located, CmaReallocInPlace,
      Goto, runtime, Served
<1>3. LiveOwned'
  BY RuntimeAssumption
  DEF CustodyInv, Custody, TypeInv, TypeOK, Located, CmaReallocInPlace,
      Goto, runtime, LiveOwned, HeldOnce, Holds
<1>4. HeldOnce'
  BY RuntimeAssumption
  DEF CustodyInv, Custody, TypeInv, TypeOK, Located, CmaReallocInPlace,
      Goto, runtime, LiveOwned, HeldOnce, Holds, Returning, Freeing,
      Reallocating
<1>5. ListedOnce'
  BY RuntimeAssumption
  DEF CustodyInv, Custody, TypeInv, TypeOK, Located, CmaReallocInPlace,
      Goto, runtime, LiveOwned, HeldOnce, ListedOnce, Listed, Holds,
      Returning, Freeing, Reallocating
<1> QED
  BY <1>1, <1>2, <1>3, <1>4, <1>5 DEF CustodyInv, Custody

(* The thread keeps the address it could not resize.                       *)
LEMMA FailCustody ==
  ASSUME CustodyAssumption, CustodyInv, NEW t \in Thread,
         CmaReallocFail(t)
  PROVE  CustodyInv'
<1>1. TypeInv' /\ ~faulty'
  BY ReallocBodyTypeInv
  DEF CustodyInv, CmaReallocFail, Goto, runtime
<1>2. Served'
  BY RuntimeAssumption
  DEF CustodyInv, Custody, TypeInv, TypeOK, Located, CmaReallocFail, Goto,
      runtime, Served
<1>3. LiveOwned'
  BY RuntimeAssumption
  DEF CustodyInv, Custody, TypeInv, TypeOK, Located, CmaReallocFail, Goto,
      runtime, LiveOwned, HeldOnce, Holds
<1>4. HeldOnce'
  BY RuntimeAssumption
  DEF CustodyInv, Custody, TypeInv, TypeOK, Located, CmaReallocFail, Goto,
      runtime, LiveOwned, HeldOnce, Holds, Returning, Freeing, Reallocating
<1>5. ListedOnce'
  BY RuntimeAssumption
  DEF CustodyInv, Custody, TypeInv, TypeOK, Located, CmaReallocFail, Goto,
      runtime, LiveOwned, HeldOnce, ListedOnce, Listed, Holds, Returning,
      Freeing, Reallocating
<1> QED
  BY <1>1, <1>2, <1>3, <1>4, <1>5 DEF CustodyInv, Custody

(* The body of REALLOC passes the old address to FREE.                     *)
LEMMA ZeroCustody ==
  ASSUME CustodyAssumption, CustodyInv, NEW t \in Thread,
         CmaReallocZero(t)
  PROVE  CustodyInv'
<1>1. TypeInv' /\ ~faulty'
  BY ReallocBodyTypeInv
  DEF CustodyInv, CmaReallocZero, CallFree, Goto, runtime
<1>2. Served'
  BY RuntimeAssumption
  DEF CustodyInv, Custody, TypeInv, TypeOK, Located, CmaReallocZero,
      CallFree, Goto, runtime, Served
<1>3. LiveOwned'
  BY RuntimeAssumption
  DEF CustodyInv, Custody, TypeInv, TypeOK, Located, CmaReallocZero,
      CallFree, Goto, runtime, LiveOwned, HeldOnce, Holds
<1>4. HeldOnce'
  <2>1. /\ pc[t] = "reBody" /\ ptr[t] # NoPtr /\ fresh[t] = NoPtr
        /\ prog' = [prog EXCEPT ![ptr[t]] = "dangling"]
        /\ UNCHANGED <<ptr, fresh, zid, owner>>
        /\ \/ pc' = [pc EXCEPT ![t] = "freeFast"] /\ UNCHANGED ret
           \/ /\ pc' = [pc EXCEPT ![t] = "cmaFree"]
              /\ ret' = [ret EXCEPT ![t] = ptr[t]]
    BY DEF CustodyInv, TypeInv, Located, CmaReallocZero, CallFree, Goto,
           runtime, Reallocating
  <2>2. \A u \in Thread, p \in Ptr : Holds(u, p)' => Holds(u, p)
    BY <2>1 DEF CustodyInv, TypeInv, TypeOK, Holds, Returning, Freeing,
                Reallocating
  <2>3. \A p \in Ptr : prog'[p] = "live" => prog[p] = "live"
    BY <2>1 DEF CustodyInv, TypeInv, TypeOK
  <2>4. \A u \in Thread, p \in Ptr :
          /\ ptr'[u] = p /\ pc'[u] \in Freeing
               => prog'[p] = "dangling" /\ fresh'[u] # p
          /\ Returning(u, p)' => fresh'[u] # p
    BY <2>1, RuntimeAssumption
    DEF CustodyInv, Custody, HeldOnce, TypeInv, TypeOK, Returning, Freeing
  <2> QED
    BY <2>1, <2>2, <2>3, <2>4 DEF CustodyInv, Custody, HeldOnce
<1>5. ListedOnce'
  BY RuntimeAssumption
  DEF CustodyInv, Custody, TypeInv, TypeOK, Located, CmaReallocZero,
      CallFree, Goto, runtime, LiveOwned, HeldOnce, ListedOnce, Listed,
      Holds, Returning, Freeing, Reallocating
<1> QED
  BY <1>1, <1>2, <1>3, <1>4, <1>5 DEF CustodyInv, Custody

(* The same after it has obtained a new one.                               *)
LEMMA MoveCustody ==
  ASSUME CustodyAssumption, CustodyInv, NEW t \in Thread, NEW q \in Ptr,
         CmaReallocMove(t, q)
  PROVE  CustodyInv'
<1>1. TypeInv' /\ ~faulty'
  BY ReallocBodyTypeInv
  DEF CustodyInv, CmaReallocMove, CallFree, Goto, runtime
<1>2. Served'
  BY RuntimeAssumption
  DEF CustodyInv, Custody, TypeInv, TypeOK, Located, CmaReallocMove,
      CallFree, Goto, runtime, Served
<1>3. LiveOwned'
  BY RuntimeAssumption
  DEF CustodyInv, Custody, TypeInv, TypeOK, Located, CmaReallocMove,
      CallFree, Goto, runtime, LiveOwned, HeldOnce, Holds
<1>4. HeldOnce'
  BY RuntimeAssumption
  DEF CustodyInv, Custody, TypeInv, TypeOK, Located, CmaReallocMove,
      CallFree, Goto, runtime, LiveOwned, HeldOnce, Holds, Returning,
      Freeing, Reallocating
<1>5. ListedOnce'
  BY RuntimeAssumption
  DEF CustodyInv, Custody, TypeInv, TypeOK, Located, CmaReallocMove,
      CallFree, Goto, runtime, LiveOwned, HeldOnce, ListedOnce, Listed,
      Holds, Returning, Freeing, Reallocating
<1> QED
  BY <1>1, <1>2, <1>3, <1>4, <1>5 DEF CustodyInv, Custody

(* The body of REALLOC takes the old address back.                         *)
LEMMA DirectCustody ==
  ASSUME CustodyAssumption, CustodyInv, NEW t \in Thread, NEW q \in Ptr,
         CmaReallocMoveDirect(t, q)
  PROVE  CustodyInv'
<1>1. TypeInv' /\ ~faulty'
  BY ReallocBodyTypeInv
  DEF CustodyInv, CmaReallocMoveDirect, Goto, runtime
<1>2. Served'
  BY RuntimeAssumption
  DEF CustodyInv, Custody, TypeInv, TypeOK, Located, CmaReallocMoveDirect,
      Goto, runtime, Served
<1>3. LiveOwned'
  BY RuntimeAssumption
  DEF CustodyInv, Custody, TypeInv, TypeOK, Located, CmaReallocMoveDirect,
      Goto, runtime, LiveOwned, HeldOnce, Holds
<1>4. HeldOnce'
  BY RuntimeAssumption
  DEF CustodyInv, Custody, TypeInv, TypeOK, Located, CmaReallocMoveDirect,
      Goto, runtime, LiveOwned, HeldOnce, Holds, Returning, Freeing,
      Reallocating
<1>5. ListedOnce'
  BY RuntimeAssumption
  DEF CustodyInv, Custody, TypeInv, TypeOK, Located, CmaReallocMoveDirect,
      Goto, runtime, LiveOwned, HeldOnce, ListedOnce, Listed, Holds,
      Returning, Freeing, Reallocating
<1> QED
  BY <1>1, <1>2, <1>3, <1>4, <1>5 DEF CustodyInv, Custody

(* The old address goes back to the program.                               *)
LEMMA EndNullCustody ==
  ASSUME CustodyAssumption, CustodyInv, NEW t \in Thread,
         ReallocateEndNull(t)
  PROVE  CustodyInv'
<1>1. TypeInv' /\ ~faulty'
  BY ReallocEndTypeInv
  DEF CustodyInv, ReallocateEndNull, Return, Goto, runtime
<1>2. Served'
  BY RuntimeAssumption
  DEF CustodyInv, Custody, TypeInv, TypeOK, Located, ReallocateEndNull,
      Return, Goto, runtime, Served
<1>3. LiveOwned'
  BY RuntimeAssumption
  DEF CustodyInv, Custody, TypeInv, TypeOK, Located, ReallocateEndNull,
      Return, Goto, runtime, LiveOwned, HeldOnce, Holds
<1>4. HeldOnce'
  BY RuntimeAssumption
  DEF CustodyInv, Custody, TypeInv, TypeOK, Located, ReallocateEndNull,
      Return, Goto, runtime, LiveOwned, HeldOnce, Holds, Returning, Freeing,
      Reallocating
<1>5. ListedOnce'
  BY RuntimeAssumption
  DEF CustodyInv, Custody, TypeInv, TypeOK, Located, ReallocateEndNull,
      Return, Goto, runtime, LiveOwned, HeldOnce, ListedOnce, Listed, Holds,
      Returning, Freeing, Reallocating
<1> QED
  BY <1>1, <1>2, <1>3, <1>4, <1>5 DEF CustodyInv, Custody

(* The allocator has the address back. *)
LEMMA CmaFreeCustody ==
  ASSUME CustodyAssumption, CustodyInv, NEW t \in Thread, CmaFree(t)
  PROVE  CustodyInv'
<1>1. TypeInv' /\ ~faulty'
  BY FreeTypeInv DEF CustodyInv, CmaFree, runtime
<1>2. /\ pc[t] = "cmaFree"
      /\ \A p \in Ptr : owner'[p] = IF p = ret[t] THEN NoId ELSE owner[p]
      /\ UNCHANGED <<info, zone, prog>>
  BY RuntimeAssumption DEF CmaFree, CustodyInv, TypeInv, TypeOK, runtime
<1>3. \/ /\ fresh[t] # NoPtr
         /\ pc' = [pc EXCEPT ![t] = "reEnd"]
         /\ ret' = [ret EXCEPT ![t] = NoPtr]
         /\ UNCHANGED <<ptr, fresh, zid>>
      \/ /\ pc' = [pc EXCEPT ![t] = "idle"]
         /\ ptr' = [ptr EXCEPT ![t] = NoPtr]
         /\ fresh' = [fresh EXCEPT ![t] = NoPtr]
         /\ ret' = [ret EXCEPT ![t] = NoPtr]
         /\ zid' = [zid EXCEPT ![t] = NoId]
  BY DEF CmaFree, Return, Goto
<1>4. \A p \in Ptr : p = ret[t] => Holds(t, p) /\ fresh[t] # p
  BY <1>2 DEF Holds, Returning, CustodyInv, Custody, HeldOnce
<1>5. \A u \in Thread, p \in Ptr : Holds(u, p)' =>
        Holds(u, p) /\ p # ret[t] /\ zid'[u] = zid[u]
  <2>1. \A u \in Thread, p \in Ptr : Holds(u, p)' => Holds(u, p)
    BY <1>2, <1>3, RuntimeAssumption
    DEF CustodyInv, TypeInv, TypeOK, Holds, Returning, Freeing, Reallocating
  <2>2. \A p \in Ptr : Holds(t, p)' => p = fresh[t] /\ zid'[t] = zid[t]
    BY <1>2, <1>3, RuntimeAssumption
    DEF CustodyInv, TypeInv, TypeOK, Holds, Returning, Freeing, Reallocating
  <2>3. \A u \in Thread \ {t} : zid'[u] = zid[u]
    BY <1>3 DEF CustodyInv, TypeInv, TypeOK
  <2>4. \A u \in Thread, p \in Ptr : Holds(u, p) /\ p = ret[t] => u = t
    BY <1>4 DEF CustodyInv, Custody, HeldOnce
  <2> QED
    BY <1>4, <2>1, <2>2, <2>3, <2>4
<1>6. Served'
  BY <1>2, <1>3, RuntimeAssumption
  DEF CustodyInv, Custody, TypeInv, TypeOK, Served
<1>7. LiveOwned'
  BY <1>2, <1>4 DEF CustodyInv, Custody, HeldOnce, LiveOwned
<1>8. HeldOnce'
  <2>1. \A u \in Thread, p \in Ptr :
          /\ ptr'[u] = p /\ pc'[u] \in Freeing
               => ptr[u] = p /\ pc[u] \in Freeing
          /\ Returning(u, p)' => Returning(u, p)
          /\ fresh'[u] = p => fresh[u] = p
    BY <1>2, <1>3, RuntimeAssumption
    DEF CustodyInv, TypeInv, TypeOK, Returning, Freeing
  <2> QED
    BY <1>2, <1>5, <2>1 DEF CustodyInv, Custody, HeldOnce
<1>9. ListedOnce'
  BY <1>2, <1>4, <1>5
  DEF CustodyInv, Custody, ListedOnce, Listed
<1> QED
  BY <1>1, <1>6, <1>7, <1>8, <1>9 DEF CustodyInv, Custody

-----------------------------------------------------------------------------
(* Records.                                                                *)

(* A chunk with a record and an owner is recorded for that owner. *)
LEMMA RecordOfOwner ==
  ASSUME CustodyAssumption, CustodyInv, NEW p \in Ptr, owner[p] # NoId,
         info[p] # Untracked
  PROVE  info[p].id = owner[p] /\ owner[p] \in Id
<1>1. info[p].id \in Id /\ owner[p] \in Id /\ info[p].id # NoId
  BY Records DEF CustodyInv, TypeInv, TypeOK
<1>2. p \in Serves[info[p].id] /\ p \in Serves[owner[p]]
  BY <1>1 DEF CustodyInv, Custody, Served
<1> QED
  BY <1>1, <1>2 DEF CustodyAssumption

(* The records a step writes are for instances that serve the chunk. *)
LEMMA ServedByRecords ==
  ASSUME Served, UNCHANGED owner,
         \A p \in Ptr : \/ info'[p].id = info[p].id
                        \/ info'[p].id # NoId /\ p \in Serves[info'[p].id],
         \A u \in Thread, p \in Ptr :
           pc'[u] # "idle" /\ ptr'[u] = p => p \in Serves[zid'[u]]
  PROVE  Served'
BY DEF Served

(* allocateCMAChunkImpl writes the record of one chunk, if any. *)
LEMMA AllocateImplRecord ==
  ASSUME NEW i \in [Ptr -> Info], NEW s, NEW p \in Ptr, NEW id,
         AllocateImpl(i, s, p, id)
  PROVE  \A q \in Ptr : \/ info'[q] = i[q]
                        \/ q = p /\ info'[q].id = id
BY DEF AllocateImpl

(* The hook at the end of ALLOC: the address passes to the program. *)
LEMMA AllocateCustody ==
  ASSUME CustodyAssumption, CustodyInv, NEW t \in Thread, AllocateCMAChunk(t)
  PROVE  CustodyInv'
<1>1. TypeInv' /\ ~faulty'
  BY AllocTypeInv DEF CustodyInv, AllocateCMAChunk
<1>2. /\ fresh[t] \in Ptr /\ zid[t] \in Id /\ owner[fresh[t]] = zid[t]
      /\ zid[t] # NoId /\ NoPtr \notin Ptr /\ Holds(t, fresh[t])
  BY RuntimeAssumption
  DEF AllocateCMAChunk, CustodyInv, Custody, TypeInv, TypeOK, Located, HeldOnce,
      Holds
<1>3. /\ pc' = [pc EXCEPT ![t] = "idle"]
      /\ ptr' = [ptr EXCEPT ![t] = NoPtr]
      /\ fresh' = [fresh EXCEPT ![t] = NoPtr]
      /\ ret' = [ret EXCEPT ![t] = NoPtr]
      /\ zid' = [zid EXCEPT ![t] = NoId]
      /\ prog' = [prog EXCEPT ![fresh[t]] = "live"]
      /\ UNCHANGED <<zone, owner>>
  BY DEF AllocateCMAChunk, Return, Goto
<1>4. Served'
  <2>1. \A q \in Ptr : \/ info'[q].id = info[q].id
                       \/ info'[q].id # NoId /\ q \in Serves[info'[q].id]
    BY <1>2, AllocateImplRecord
    DEF AllocateCMAChunk, CustodyInv, Custody, TypeInv, TypeOK, Served
  <2> QED
    BY <1>3, <2>1, ServedByRecords
    DEF CustodyInv, Custody, TypeInv, TypeOK, Served
<1>5. LiveOwned'
  BY <1>2, <1>3 DEF CustodyInv, Custody, TypeInv, TypeOK, LiveOwned
<1>6. \A u \in Thread, p \in Ptr : Holds(u, p)' =>
        u # t /\ Holds(u, p) /\ p # fresh[t]
  BY <1>2, <1>3
  DEF CustodyInv, Custody, TypeInv, TypeOK, HeldOnce, Holds, Returning, Freeing,
      Reallocating
<1>7. HeldOnce'
  BY <1>2, <1>3, <1>6
  DEF CustodyInv, Custody, TypeInv, TypeOK, HeldOnce, Holds, Returning, Freeing,
      Reallocating
<1>8. ListedOnce'
  BY <1>2, <1>3, <1>6
  DEF CustodyInv, Custody, TypeInv, TypeOK, ListedOnce, Listed
<1> QED
  BY <1>1, <1>4, <1>5, <1>7, <1>8 DEF CustodyInv, Custody

(* The hook at the start of REALLOC, and what it does after a report:      *)
(* nothing changes hands.                                                  *)
LEMMA StartCustody ==
  ASSUME CustodyAssumption, CustodyInv, NEW t \in Thread,
         ReallocateCMAChunkStart(t) \/ StartAfterReport(t)
  PROVE  CustodyInv'
<1>1. TypeInv' /\ ~faulty'
  BY ReallocBodyTypeInv
  DEF CustodyInv, ReallocateCMAChunkStart, StartAfterReport
<1>2. /\ pc[t] \in {"reStart", "reReport"}
      /\ \E l \in {"reReport", "reBody"} : pc' = [pc EXCEPT ![t] = l]
      /\ UNCHANGED <<zone, ptr, fresh, ret, zid, owner, prog>>
  BY DEF ReallocateCMAChunkStart, StartAfterReport, Goto
<1>3. info' = info \/ info' = [info EXCEPT ![ptr[t]].status = "IN_REALLOC"]
  BY DEF ReallocateCMAChunkStart, StartAfterReport, OpenForRealloc
<1>4. \A p \in Ptr : info'[p].id = info[p].id
  <2>1. \A p \in Ptr : info'[p] = info[p] \/
                       /\ p = ptr[t] /\ info[p] # Untracked
                       /\ info'[p] = [info[p] EXCEPT !.status = "IN_REALLOC"]
    BY <1>3
    DEF ReallocateCMAChunkStart, StartAfterReport, OpenForRealloc, TltGet,
        CustodyInv, TypeInv, TypeOK, Located
  <2> QED
    BY <2>1, Records DEF CustodyInv, TypeInv, TypeOK, Status
<1>5. Served'
  BY <1>2, <1>4, ServedByRecords
  DEF CustodyInv, Custody, TypeInv, TypeOK, Served
<1>6. LiveOwned'
  BY <1>2 DEF CustodyInv, Custody, LiveOwned
<1>7. \A u \in Thread, p \in Ptr : Holds(u, p)' <=> Holds(u, p)
  BY <1>2
  DEF CustodyInv, TypeInv, TypeOK, Holds, Returning, Freeing, Reallocating
<1>8. HeldOnce'
  BY <1>2, <1>7
  DEF CustodyInv, Custody, TypeInv, TypeOK, HeldOnce, Returning, Freeing
<1>9. ListedOnce'
  BY <1>2, <1>7 DEF CustodyInv, Custody, ListedOnce, Listed
<1> QED
  BY <1>1, <1>5, <1>6, <1>8, <1>9 DEF CustodyInv, Custody

(* The hook at the end of REALLOC: the new address passes to the program.  *)
(* Whatever has become of the old one, only its record changes.            *)
LEMMA EndCustody ==
  ASSUME CustodyAssumption, CustodyInv, NEW t \in Thread,
         ReallocateCMAChunkEnd(t)
  PROVE  CustodyInv'
<1>1. TypeInv' /\ ~faulty'
  BY ReallocEndTypeInv DEF CustodyInv, ReallocateCMAChunkEnd
<1>2. /\ fresh[t] \in Ptr /\ zid[t] \in Id /\ owner[fresh[t]] = zid[t]
      /\ zid[t] # NoId /\ NoPtr \notin Ptr /\ Holds(t, fresh[t])
  BY RuntimeAssumption
  DEF ReallocateCMAChunkEnd, CustodyInv, Custody, TypeInv, TypeOK, Located,
      HeldOnce, Holds
<1>3. /\ pc[t] = "reEnd"
      /\ pc' = [pc EXCEPT ![t] = "idle"]
      /\ ptr' = [ptr EXCEPT ![t] = NoPtr]
      /\ fresh' = [fresh EXCEPT ![t] = NoPtr]
      /\ ret' = [ret EXCEPT ![t] = NoPtr]
      /\ zid' = [zid EXCEPT ![t] = NoId]
      /\ prog' = [prog EXCEPT ![fresh[t]] = "live"]
      /\ UNCHANGED <<zone, owner>>
  BY DEF ReallocateCMAChunkEnd, Return, Goto
<1>4. \A q \in Ptr : \/ info'[q].id = info[q].id
                     \/ info'[q].id # NoId /\ q \in Serves[info'[q].id]
  <2> DEFINE old   == ptr[t]
             moved == old # fresh[t] /\ TltGet(old) # Untracked
             i     == IF moved THEN Released(info, old, zid[t])
                      ELSE IF old = fresh[t] /\ TltGet(old) # Untracked
                           THEN [info EXCEPT ![old].status = "DEALLOCATED"]
                           ELSE info
             s     == IF moved THEN Poisoned(shadow, old) ELSE shadow
  <2>1. TltGet(old) # Untracked =>
          old \in Ptr /\ info[old] # Untracked /\ old \in Serves[zid[t]]
    BY <1>3 DEF TltGet, CustodyInv, Custody, TypeInv, TypeOK, Served
  <2>2. i \in [Ptr -> Info]
    BY <1>2, <2>1, Records DEF CustodyInv, TypeInv, TypeOK, Released, Status
  <2>3. \A q \in Ptr : \/ i[q].id = info[q].id
                       \/ i[q].id = zid[t] /\ q \in Serves[zid[t]]
    BY <1>2, <2>1, Records DEF CustodyInv, TypeInv, TypeOK, Released, Status
  <2>4. AllocateImpl(i, s, fresh[t], zid[t])
    BY DEF ReallocateCMAChunkEnd
  <2>5. fresh[t] \in Serves[zid[t]]
    BY <1>2 DEF CustodyInv, Custody, Served
  <2> HIDE DEF i, s, old, moved
  <2> QED
    BY <1>2, <2>2, <2>3, <2>4, <2>5, AllocateImplRecord
<1>5. Served'
  BY <1>2, <1>3, <1>4, ServedByRecords
  DEF CustodyInv, Custody, TypeInv, TypeOK, Served
<1>6. LiveOwned'
  BY <1>2, <1>3 DEF CustodyInv, Custody, TypeInv, TypeOK, LiveOwned
<1>7. \A u \in Thread, p \in Ptr : Holds(u, p)' =>
        u # t /\ Holds(u, p) /\ p # fresh[t]
  BY <1>2, <1>3
  DEF CustodyInv, Custody, TypeInv, TypeOK, HeldOnce, Holds, Returning, Freeing,
      Reallocating
<1>8. HeldOnce'
  BY <1>2, <1>3, <1>7
  DEF CustodyInv, Custody, TypeInv, TypeOK, HeldOnce, Holds, Returning, Freeing,
      Reallocating
<1>9. ListedOnce'
  BY <1>2, <1>3, <1>7
  DEF CustodyInv, Custody, TypeInv, TypeOK, ListedOnce, Listed
<1> QED
  BY <1>1, <1>5, <1>6, <1>8, <1>9 DEF CustodyInv, Custody

-----------------------------------------------------------------------------
(* The quarantine.                                                         *)

(* A thread that is freeing an address puts it into the zone of its owner, *)
(* and is given back either nothing or an address that leaves the zone.    *)
LEMMA HandOver ==
  ASSUME CustodyInv, QuarantineOn, NEW t \in Thread, NEW id \in Id,
         NEW y, NEW r \in Ptr \cup {NoPtr},
         pc[t] \in Freeing, owner[ptr[t]] = id, zid[t] = id,
         pc' = [pc EXCEPT ![t] = "cmaFree"],
         ret' = [ret EXCEPT ![t] = r],
         zone' = [zone EXCEPT ![id] = y],
         UNCHANGED <<ptr, fresh, zid, owner, prog>>,
         r \in Ptr => Listed(id, r),
         \A q \in Ptr : InList(y.list, q) =>
            /\ Once(y.list, q)
            /\ q = ptr[t] \/ (Listed(id, q) /\ q # r)
  PROVE  LiveOwned' /\ HeldOnce' /\ ListedOnce'
<1>1. /\ ptr[t] \in Ptr /\ Holds(t, ptr[t]) /\ prog[ptr[t]] = "dangling"
      /\ fresh[t] # ptr[t] /\ NoPtr \notin Ptr
  BY RuntimeAssumption
  DEF CustodyInv, Custody, TypeInv, TypeOK, Located, HeldOnce, Holds
<1>2. \A u \in Thread, p \in Ptr : Listed(id, p) => ~Holds(u, p)
  BY DEF CustodyInv, Custody, ListedOnce
<1>3. r \in Ptr => /\ owner[r] = id /\ prog[r] = "dangling" /\ r # ptr[t]
                  /\ fresh[t] # r /\ \A u \in Thread : ~Holds(u, r)
  BY <1>1, <1>2 DEF CustodyInv, Custody, ListedOnce, Holds
<1>4. \A u \in Thread, p \in Ptr : Holds(u, p)' =>
        (Holds(u, p) /\ p # ptr[t]) \/ (u = t /\ p = r)
  <2>1. \A u \in Thread, p \in Ptr : Holds(u, p)' =>
          Holds(u, p) \/ (u = t /\ p = r)
    BY DEF CustodyInv, TypeInv, TypeOK, Holds, Returning, Freeing, Reallocating
  <2>2. \A p \in Ptr : Holds(t, p)' => p = r \/ p = fresh[t]
    BY DEF CustodyInv, TypeInv, TypeOK, Holds, Returning, Freeing, Reallocating
  <2>3. \A u \in Thread : Holds(u, ptr[t]) => u = t
    BY <1>1 DEF CustodyInv, Custody, HeldOnce
  <2> QED
    BY <1>1, <1>3, <2>1, <2>2, <2>3
<1>5. LiveOwned'
  BY DEF CustodyInv, Custody, LiveOwned
<1>6. HeldOnce'
  <2>1. \A u \in Thread, p \in Ptr : Holds(u, p)' =>
          /\ owner'[p] = zid'[u] /\ prog'[p] # "live"
          /\ \A v \in Thread : Holds(v, p)' => v = u
    BY <1>3, <1>4 DEF CustodyInv, Custody, HeldOnce
  <2>2. \A u \in Thread, p \in Ptr : ptr'[u] = p /\ pc'[u] \in Freeing =>
          prog'[p] = "dangling" /\ fresh'[u] # p
    BY DEF CustodyInv, Custody, TypeInv, TypeOK, HeldOnce, Freeing
  <2>3. \A u \in Thread, p \in Ptr : Returning(u, p)' => fresh'[u] # p
    BY <1>3 DEF CustodyInv, Custody, TypeInv, TypeOK, HeldOnce, Returning
  <2> QED
    BY <2>1, <2>2, <2>3 DEF HeldOnce
<1>7. ListedOnce'
  <2>1. \A j \in Id \ {id} : zone'[j] = zone[j]
    BY DEF CustodyInv, TypeInv, TypeOK
  <2>2. zone'[id] = y
    BY DEF CustodyInv, TypeInv, TypeOK
  <2>3. ASSUME NEW j \in Id, NEW p \in Ptr, Listed(j, p)'
        PROVE  /\ owner'[p] = j /\ prog'[p] = "dangling" /\ Once(zone'[j].list, p)
               /\ \A u \in Thread : ~Holds(u, p)'
    <3>1. CASE j = id
      <4>1. Once(y.list, p) /\ (p = ptr[t] \/ (Listed(id, p) /\ p # r))
        BY <2>2, <2>3, <3>1 DEF Listed
      <4>2. CASE p = ptr[t]
        BY <1>1, <1>3, <1>4, <2>2, <3>1, <4>1, <4>2
      <4>3. CASE Listed(id, p) /\ p # r
        BY <1>2, <1>4, <2>2, <3>1, <4>1, <4>3
        DEF CustodyInv, Custody, ListedOnce
      <4> QED
        BY <4>1, <4>2, <4>3
    <3>2. CASE j # id
      <4>1. Listed(j, p)
        BY <2>1, <2>3, <3>2 DEF Listed
      <4>2. /\ owner[p] = j /\ prog[p] = "dangling" /\ Once(zone[j].list, p)
            /\ \A u \in Thread : ~Holds(u, p)
        BY <4>1 DEF CustodyInv, Custody, ListedOnce
      <4> QED
        BY <1>3, <1>4, <2>1, <3>2, <4>2
    <3> QED
      BY <3>1, <3>2
  <2> QED
    BY <2>3 DEF ListedOnce
<1> QED
  BY <1>5, <1>6, <1>7

(* A thread that is freeing goes on without touching the zones, with the   *)
(* address it is freeing.                                                  *)
LEMMA GoOn ==
  ASSUME CustodyInv, NEW t \in Thread, pc[t] \in Freeing,
         \/ /\ \E l \in Freeing : pc' = [pc EXCEPT ![t] = l]
            /\ UNCHANGED ret
         \/ /\ pc' = [pc EXCEPT ![t] = "cmaFree"]
            /\ ret' = [ret EXCEPT ![t] = ptr[t]],
         UNCHANGED <<zone, ptr, fresh, zid, owner, prog>>
  PROVE  LiveOwned' /\ HeldOnce' /\ ListedOnce'
<1>1. \A u \in Thread, p \in Ptr : Holds(u, p)' => Holds(u, p)
  BY DEF CustodyInv, TypeInv, TypeOK, Holds, Returning, Freeing, Reallocating
<1>2. LiveOwned'
  BY DEF CustodyInv, Custody, LiveOwned
<1>3. HeldOnce'
  <2>1. \A u \in Thread, p \in Ptr :
          /\ ptr'[u] = p /\ pc'[u] \in Freeing
               => prog'[p] = "dangling" /\ fresh'[u] # p
          /\ Returning(u, p)' => fresh'[u] # p
    BY DEF CustodyInv, Custody, TypeInv, TypeOK, HeldOnce, Returning, Freeing
  <2> QED
    BY <1>1, <2>1 DEF CustodyInv, Custody, HeldOnce
<1>4. ListedOnce'
  BY <1>1 DEF CustodyInv, Custody, ListedOnce, Listed
<1> QED
  BY <1>2, <1>3, <1>4

(* pushAndPopFromQuarantine for the address the thread is freeing, and the *)
(* instance that owns it.                                                  *)
LEMMA PushAndPopCustody ==
  ASSUME CustodyInv, NEW t \in Thread, NEW id \in Id, NEW holder,
         pc[t] \in Freeing, owner[ptr[t]] = id, zid[t] = id,
         PushAndPop(t, ptr[t], id, holder),
         UNCHANGED <<ptr, fresh, zid, owner, prog>>
  PROVE  LiveOwned' /\ HeldOnce' /\ ListedOnce'
<1>1. CASE ~QuarantineOn
  BY <1>1, GoOn DEF PushAndPop, LeaveWith, Goto
<1>2. CASE QuarantineOn /\ BelowLimits(zone[id])
  <2> DEFINE y == PushPtr(zone[id], ptr[t])
  <2>1. ptr[t] \in Ptr /\ Holds(t, ptr[t]) /\ zone[id] \in Zone
    BY DEF CustodyInv, TypeInv, TypeOK, Located, Holds
  <2>2. ~Listed(id, ptr[t])
    BY <2>1 DEF CustodyInv, Custody, ListedOnce
  <2>3. \A q \in Ptr : InList(y.list, q) =>
          Once(y.list, q) /\ (q = ptr[t] \/ Listed(id, q))
    <3>1. \A q \in Ptr : InList(y.list, q) => q = ptr[t] \/ Listed(id, q)
      BY <2>1, InPush DEF Listed
    <3>2. \A q \in Ptr : Listed(id, q) => Once(zone[id].list, q)
      BY DEF CustodyInv, Custody, ListedOnce
    <3>3. \A q \in Ptr : ~Listed(id, q) => Once(zone[id].list, q)
      BY DEF Listed, InList, Once
    <3> QED
      BY <2>1, <2>2, <3>1, <3>2, <3>3, InPush DEF Listed
  <2>4. /\ zone' = [zone EXCEPT ![id] = y]
        /\ ret' = [ret EXCEPT ![t] = NoPtr]
        /\ pc' = [pc EXCEPT ![t] = "cmaFree"]
    BY <1>2 DEF PushAndPop, LeaveWith, Goto
  <2>5. /\ NoPtr \in Ptr \cup {NoPtr}
        /\ NoPtr \in Ptr => Listed(id, NoPtr)
        /\ \A q \in Ptr : InList(y.list, q) =>
             Once(y.list, q) /\ (q = ptr[t] \/ (Listed(id, q) /\ q # NoPtr))
    BY <2>3, RuntimeAssumption
  <2>6. QuarantineOn
    BY <1>2
  <2> HIDE DEF y
  <2> QED
    BY <2>4, <2>5, <2>6, HandOver
<1>3. CASE QuarantineOn /\ ~BelowLimits(zone[id])
  BY <1>3, GoOn DEF PushAndPop, Goto, Freeing
<1> QED
  BY <1>1, <1>2, <1>3

(* The first critical section of the hook in FREE. *)
LEMMA ReleaseInReallocCustody ==
  ASSUME CustodyAssumption, CustodyInv, NEW t \in Thread, ReleaseInRealloc(t)
  PROVE  CustodyInv'
<1>1. TypeInv' /\ ~faulty'
  BY FreeTypeInv DEF CustodyInv, ReleaseInRealloc
<1>2. /\ pc[t] \in Freeing /\ pc[t] # "idle" /\ ptr[t] \in Ptr
      /\ owner[ptr[t]] = zid[t] /\ zid[t] \in Id /\ zid[t] # NoId
      /\ UNCHANGED <<ptr, fresh, zid, owner, prog>>
  BY RuntimeAssumption
  DEF ReleaseInRealloc, Freeing, CustodyInv, Custody, TypeInv, TypeOK, Located,
      HeldOnce, Holds
<1>3. CASE info[ptr[t]].status = "IN_REALLOC"
  <2>1. info[ptr[t]] # Untracked /\ info[ptr[t]].id = zid[t]
    BY <1>2, <1>3, RecordOfOwner DEF Untracked
  <2>2. PushAndPop(t, ptr[t], zid[t], t)
    BY <1>3, <2>1 DEF ReleaseInRealloc
  <2>3. LiveOwned' /\ HeldOnce' /\ ListedOnce'
    BY <1>2, <2>2, PushAndPopCustody
  <2>4. \A p \in Ptr : info'[p].id = info[p].id
    <3>1. info' = [info EXCEPT ![ptr[t]].status = "DEALLOCATED"]
      BY <1>3 DEF ReleaseInRealloc
    <3> QED
      BY <1>2, <2>1, <3>1, Records DEF CustodyInv, TypeInv, TypeOK, Status
  <2>5. Served'
    BY <1>2, <2>2, <2>4, ServedByRecords
    DEF PushAndPop, LeaveWith, Goto, CustodyInv, Custody, TypeInv, TypeOK, Served
  <2> QED
    BY <1>1, <2>3, <2>5 DEF CustodyInv, Custody
<1>4. CASE info[ptr[t]].status # "IN_REALLOC"
  <2>1. /\ UNCHANGED <<info, zone>>
        /\ \/ /\ pc' = [pc EXCEPT ![t] = "freeSlow"]
              /\ UNCHANGED ret
           \/ /\ pc' = [pc EXCEPT ![t] = "cmaFree"]
              /\ ret' = [ret EXCEPT ![t] = ptr[t]]
    BY <1>4 DEF ReleaseInRealloc, Goto
  <2>2. LiveOwned' /\ HeldOnce' /\ ListedOnce'
    BY <1>2, <2>1, GoOn DEF Freeing
  <2>3. Served'
    BY <1>2, <2>1 DEF CustodyInv, Custody, TypeInv, TypeOK, Served
  <2> QED
    BY <1>1, <2>2, <2>3 DEF CustodyInv, Custody
<1> QED
  BY <1>3, <1>4

(* The second critical section, and what it does after a report. *)
LEMMA ReleaseCustody ==
  ASSUME CustodyAssumption, CustodyInv, NEW t \in Thread,
         Release(t) \/ ReleaseAfterReport(t)
  PROVE  CustodyInv'
<1>1. TypeInv' /\ ~faulty'
  BY FreeTypeInv DEF CustodyInv, Release, ReleaseAfterReport
<1>2. /\ pc[t] \in Freeing /\ pc[t] # "idle" /\ ptr[t] \in Ptr
      /\ owner[ptr[t]] = zid[t] /\ zid[t] \in Id /\ zid[t] # NoId
      /\ UNCHANGED <<ptr, fresh, zid, owner, prog>>
  BY RuntimeAssumption
  DEF Release, ReleaseAfterReport, Freeing, CustodyInv, Custody, TypeInv,
      TypeOK, Located, HeldOnce, Holds
<1>3. CASE /\ info' = Released(info, ptr[t], zid[t])
           /\ \E holder : PushAndPop(t, ptr[t], zid[t], holder)
  <2>1. LiveOwned' /\ HeldOnce' /\ ListedOnce'
    BY <1>2, <1>3, PushAndPopCustody
  <2>2. \A p \in Ptr : \/ info'[p].id = info[p].id
                       \/ info'[p].id # NoId /\ p \in Serves[info'[p].id]
    BY <1>2, <1>3
    DEF Released, CustodyInv, Custody, TypeInv, TypeOK, Served
  <2>3. Served'
    BY <1>2, <1>3, <2>2, ServedByRecords
    DEF PushAndPop, LeaveWith, Goto, CustodyInv, Custody, TypeInv, TypeOK, Served
  <2> QED
    BY <1>1, <2>1, <2>3 DEF CustodyInv, Custody
<1>4. CASE /\ UNCHANGED <<info, zone>>
           /\ \/ /\ pc' = [pc EXCEPT ![t] = "report"]
                 /\ UNCHANGED ret
              \/ /\ pc' = [pc EXCEPT ![t] = "cmaFree"]
                 /\ ret' = [ret EXCEPT ![t] = ptr[t]]
  <2>1. LiveOwned' /\ HeldOnce' /\ ListedOnce'
    BY <1>2, <1>4, GoOn DEF Freeing
  <2>2. Served'
    BY <1>2, <1>4 DEF CustodyInv, Custody, TypeInv, TypeOK, Served
  <2> QED
    BY <1>1, <2>1, <2>2 DEF CustodyInv, Custody
<1> QED
  BY <1>3, <1>4 DEF Release, ReleaseAfterReport, Goto

(* The address that a thread is freeing. *)
LEMMA FreeingHolds ==
  ASSUME CustodyInv, NEW t \in Thread, pc[t] \in Freeing
  PROVE  /\ ptr[t] \in Ptr /\ Holds(t, ptr[t]) /\ owner[ptr[t]] = zid[t]
         /\ zid[t] \in Id /\ zid[t] # NoId
<1>1. ptr[t] \in Ptr /\ zid[t] \in Id
  BY DEF CustodyInv, TypeInv, TypeOK, Located, Freeing
<1>2. Holds(t, ptr[t])
  BY DEF Holds
<1> QED
  BY <1>1, <1>2, RuntimeAssumption DEF CustodyInv, Custody, HeldOnce

(* An iteration of the loop of popPtrIfMax. *)
LEMMA ShrinkCustody ==
  ASSUME CustodyAssumption, CustodyInv, NEW t \in Thread, QuarantineOn, Shrink(t)
  PROVE  CustodyInv'
<1>1. TypeInv' /\ ~faulty'
  BY FreeTypeInv DEF CustodyInv, Shrink
<1>2. /\ pc[t] = "shrink" /\ ptr[t] \in Ptr /\ Holds(t, ptr[t])
      /\ owner[ptr[t]] = zid[t] /\ zid[t] \in Id /\ zid[t] # NoId
      /\ info[ptr[t]] # Untracked
      /\ UNCHANGED <<info, ptr, fresh, zid, owner, prog>>
  <2>1. pc[t] = "shrink" /\ UNCHANGED <<info, ptr, fresh, zid, owner, prog>>
    BY DEF Shrink
  <2>2. info[ptr[t]] # Untracked
    BY <2>1 DEF CustodyInv, TypeInv, Located
  <2> QED
    BY <2>1, <2>2, FreeingHolds DEF Freeing
<1> DEFINE id == info[ptr[t]].id
           z  == zone[id]
<1>3. id = zid[t] /\ id \in Id /\ z \in Zone
  BY <1>2, RecordOfOwner DEF CustodyInv, TypeInv, TypeOK
<1>4. Served'
  <2>1. pc' = pc \/ pc' = [pc EXCEPT ![t] = "cmaFree"]
    BY DEF Shrink, LeaveWith, Goto
  <2> QED
    BY <1>2, <2>1 DEF CustodyInv, Custody, TypeInv, TypeOK, Served
<1>5. ~Listed(id, ptr[t])
  BY <1>2, <1>3 DEF CustodyInv, Custody, ListedOnce
<1>6. \A q \in Ptr : Once(z.list, q)
  <2>1. \A q \in Ptr : Listed(id, q) => Once(z.list, q)
    BY <1>3 DEF CustodyInv, Custody, ListedOnce
  <2>2. \A q \in Ptr : ~Listed(id, q) => Once(z.list, q)
    BY DEF Listed, InList, Once
  <2> QED
    BY <2>1, <2>2
<1>7. CASE z.list = << >>
  <2> DEFINE y == PushPtr(z, ptr[t])
  <2>1. \A q \in Ptr : InList(y.list, q) =>
          Once(y.list, q) /\ (q = ptr[t] \/ (Listed(id, q) /\ q # NoPtr))
    <3>1. \A q \in Ptr : InList(z.list, q) <=> Listed(id, q)
      BY DEF Listed
    <3> HIDE DEF id, z
    <3> QED
      BY <1>2, <1>3, <1>5, <1>6, <3>1, InPush, RuntimeAssumption
  <2>2. /\ zone' = [zone EXCEPT ![id] = y]
        /\ ret' = [ret EXCEPT ![t] = NoPtr]
        /\ pc' = [pc EXCEPT ![t] = "cmaFree"]
    BY <1>7 DEF Shrink, LeaveWith, Goto
  <2>3. NoPtr \in Ptr \cup {NoPtr} /\ (NoPtr \in Ptr => Listed(id, NoPtr))
    BY RuntimeAssumption
  <2>4. pc[t] \in Freeing
    BY <1>2 DEF Freeing
  <2> HIDE DEF y, z, id
  <2>5. LiveOwned' /\ HeldOnce' /\ ListedOnce'
    <3>1. /\ owner[ptr[t]] = id /\ zid[t] = id /\ id \in Id
          /\ UNCHANGED <<ptr, fresh, zid, owner, prog>>
      BY <1>2, <1>3
    <3> QED
      BY <3>1, <2>1, <2>2, <2>3, <2>4, HandOver
  <2> QED
    BY <1>1, <1>4, <2>5 DEF CustodyInv, Custody
<1>8. CASE z.list # << >> /\ IsChunkValid(Head(z.list).ptr, id)
  <2> DEFINE r == Head(z.list).ptr
             y == PushPtr(PopFirst(z), ptr[t])
  <2>1. /\ PopFirst(z) \in Zone /\ r \in Ptr /\ Listed(id, r)
        /\ \A q \in Ptr : InList(PopFirst(z).list, q) =>
             Listed(id, q) /\ q # r
        /\ \A q \in Ptr : Once(PopFirst(z).list, q)
    BY <1>3, <1>6, <1>8, InPop, PopFirstType DEF Listed
  <2>2. ~InList(PopFirst(z).list, ptr[t])
    BY <1>2, <1>5, <2>1
  <2>3. \A q \in Ptr : InList(y.list, q) =>
          Once(y.list, q) /\ (q = ptr[t] \/ (Listed(id, q) /\ q # r))
    BY <1>2, <2>1, <2>2, InPush
  <2>4. /\ zone' = [zone EXCEPT ![id] = y]
        /\ ret' = [ret EXCEPT ![t] = r]
        /\ pc' = [pc EXCEPT ![t] = "cmaFree"]
    BY <1>8 DEF Shrink, LeaveWith, Goto
  <2>5. pc[t] \in Freeing /\ r \in Ptr \cup {NoPtr}
    BY <1>2, <2>1 DEF Freeing
  <2> HIDE DEF y, z, id, r
  <2>6. LiveOwned' /\ HeldOnce' /\ ListedOnce'
    <3>1. /\ owner[ptr[t]] = id /\ zid[t] = id /\ id \in Id
          /\ UNCHANGED <<ptr, fresh, zid, owner, prog>>
      BY <1>2, <1>3
    <3> QED
      BY <3>1, <2>1, <2>3, <2>4, <2>5, HandOver
  <2> QED
    BY <1>1, <1>4, <2>6 DEF CustodyInv, Custody
<1>9. CASE z.list # << >> /\ ~IsChunkValid(Head(z.list).ptr, id)
  <2>1. /\ zone' = [zone EXCEPT ![id] = PopFirst(z)]
        /\ UNCHANGED <<pc, ret>>
    BY <1>9 DEF Shrink
  <2>2. \A q \in Ptr : /\ InList(PopFirst(z).list, q) => Listed(id, q)
                       /\ Once(PopFirst(z).list, q)
    BY <1>3, <1>6, <1>9, InPop DEF Listed
  <2>3. \A u \in Thread, q \in Ptr : Holds(u, q)' <=> Holds(u, q)
    BY <1>2, <2>1 DEF Holds, Returning
  <2> HIDE DEF id, z
  <2>4. LiveOwned' /\ HeldOnce'
    BY <1>2, <2>1, <2>3
    DEF CustodyInv, Custody, LiveOwned, HeldOnce, Returning
  <2>5. \A j \in Id, q \in Ptr : Listed(j, q)' =>
          Listed(j, q) /\ Once(zone'[j].list, q)
    BY <1>3, <2>1, <2>2
    DEF CustodyInv, Custody, TypeInv, TypeOK, ListedOnce, Listed
  <2>6. ListedOnce'
    BY <1>2, <2>3, <2>5 DEF CustodyInv, Custody, ListedOnce
  <2> QED
    BY <1>1, <1>4, <2>4, <2>6 DEF CustodyInv, Custody
<1> QED
  BY <1>7, <1>8, <1>9

(* The hook of a garbage collection: the zone is emptied.                  *)
LEMMA GCCustody ==
  ASSUME CustodyAssumption, CustodyInv, NEW t \in Thread, NEW id \in Id,
         EmptyQuarantineOnGC(t, id)
  PROVE  CustodyInv'
<1>1. TypeInv' /\ ~faulty'
  BY ClearTypeInv DEF CustodyInv, EmptyQuarantineOnGC
<1>2. /\ UNCHANGED <<info, ptr, fresh, ret, owner, prog>>
      /\ pc' = [pc EXCEPT ![t] = "collect"] /\ zid' = [zid EXCEPT ![t] = id]
      /\ pc[t] = "idle" /\ ptr[t] = NoPtr /\ fresh[t] = NoPtr
  BY DEF EmptyQuarantineOnGC, Goto, CustodyInv, TypeInv, TypeOK, Located
<1>3. \A u \in Thread, p \in Ptr :
        /\ Holds(u, p)' <=> Holds(u, p)
        /\ Returning(u, p)' <=> Returning(u, p)
        /\ Holds(u, p) => u # t
        /\ ptr[u] = p => u # t
        /\ u # t => zid'[u] = zid[u] /\ pc'[u] = pc[u]
  BY <1>2, RuntimeAssumption
  DEF Holds, Returning, Freeing, Reallocating, CustodyInv, TypeInv, TypeOK
<1>4. Served'
  BY <1>2, <1>3 DEF CustodyInv, Custody, Served
<1>5. LiveOwned'
  BY <1>2 DEF CustodyInv, Custody, LiveOwned
<1>6. HeldOnce'
  <2>1. \A u \in Thread, p \in Ptr : Holds(u, p)' =>
          /\ owner'[p] = zid'[u] /\ prog'[p] # "live"
          /\ \A v \in Thread : Holds(v, p)' => v = u
    BY <1>2, <1>3 DEF CustodyInv, Custody, HeldOnce
  <2>2. \A u \in Thread, p \in Ptr :
          /\ ptr'[u] = p /\ pc'[u] \in Freeing
               => prog'[p] = "dangling" /\ fresh'[u] # p
          /\ Returning(u, p)' => fresh'[u] # p
    BY <1>2, <1>3 DEF CustodyInv, Custody, HeldOnce
  <2> QED
    BY <2>1, <2>2 DEF HeldOnce
<1>7. ListedOnce'
  <2>1. \A j \in Id, p \in Ptr : Listed(j, p)' =>
          Listed(j, p) /\ zone'[j] = zone[j]
    <3>1. CASE ~QuarantineOn
      BY <3>1 DEF EmptyQuarantineOnGC, Listed
    <3>2. CASE QuarantineOn
      <4>1. /\ \A j \in Id \ {id} : zone'[j] = zone[j]
            /\ zone'[id].list = << >>
        BY <3>2, EmptyOnGCType
        DEF EmptyQuarantineOnGC, CustodyInv, TypeInv, TypeOK
      <4>2. \A p \in Ptr : ~Listed(id, p)'
        BY <4>1 DEF Listed, InList
      <4> QED BY <4>1, <4>2 DEF Listed
    <3> QED BY <3>1, <3>2
  <2>2. \A j \in Id, p \in Ptr : Listed(j, p)' =>
          /\ QuarantineOn /\ owner'[p] = j /\ prog'[p] = "dangling"
          /\ \A u \in Thread : ~Holds(u, p)'
          /\ Once(zone'[j].list, p)
    BY <1>2, <1>3, <2>1 DEF CustodyInv, Custody, ListedOnce
  <2> QED
    BY <2>2 DEF ListedOnce
<1> QED
  BY <1>1, <1>4, <1>5, <1>6, <1>7 DEF CustodyInv, Custody

(* The collection: the allocator takes back only what no thread holds, and *)
(* what it takes back is in no zone.                                       *)
LEMMA CollectCustody ==
  ASSUME CustodyAssumption, CustodyInv, Stopped, NEW t \in Thread,
         CmaCollect(t)
  PROVE  CustodyInv'
<1>1. TypeInv' /\ ~faulty'
  BY CollectTypeInv DEF CustodyInv, CmaCollect
<1>2. /\ UNCHANGED <<info, zone, prog>>
      /\ pc' = [pc EXCEPT ![t] = "idle"] /\ zid' = [zid EXCEPT ![t] = NoId]
      /\ ptr' = [ptr EXCEPT ![t] = NoPtr] /\ fresh' = [fresh EXCEPT ![t] = NoPtr]
      /\ ret' = [ret EXCEPT ![t] = NoPtr]
      /\ pc[t] = "collect" /\ ptr[t] = NoPtr /\ fresh[t] = NoPtr /\ zid[t] \in Id
      /\ \A p \in Ptr : \/ owner'[p] = owner[p]
                        \/ /\ owner[p] = zid[t] /\ owner'[p] = NoId
                           /\ prog[p] = "dangling" /\ Quiet(p)
  BY DEF CmaCollect, Return, Goto, runtime, CustodyInv, TypeInv, TypeOK, Located
<1>3. \A u \in Thread, p \in Ptr :
        /\ Holds(u, p)' <=> Holds(u, p)
        /\ Returning(u, p)' <=> Returning(u, p)
        /\ ptr'[u] = p <=> ptr[u] = p
        /\ fresh'[u] = p <=> fresh[u] = p
        /\ Holds(u, p) => u # t /\ ~Quiet(p)
        /\ ptr[u] = p => u # t
        /\ u # t => zid'[u] = zid[u] /\ pc'[u] = pc[u]
  BY <1>2, RuntimeAssumption
  DEF Holds, Returning, Quiet, Freeing, Reallocating, CustodyInv, TypeInv, TypeOK
<1>4. \A u \in Thread, p \in Ptr : Holds(u, p) => owner'[p] = owner[p]
  BY <1>2, <1>3
<1>5. Served'
  <2>1. \A p \in Ptr : owner'[p] # NoId => p \in Serves[owner'[p]]
    BY <1>2 DEF CustodyInv, Custody, Served
  <2> QED
    BY <1>2, <1>3, <2>1 DEF CustodyInv, Custody, Served
<1>6. LiveOwned'
  BY <1>2 DEF CustodyInv, Custody, LiveOwned
<1>7. HeldOnce'
  <2>1. \A u \in Thread, p \in Ptr : Holds(u, p)' =>
          /\ owner'[p] = zid'[u] /\ prog'[p] # "live"
          /\ \A v \in Thread : Holds(v, p)' => v = u
    BY <1>2, <1>3, <1>4 DEF CustodyInv, Custody, HeldOnce
  <2>2. \A u \in Thread, p \in Ptr :
          /\ ptr'[u] = p /\ pc'[u] \in Freeing
               => prog'[p] = "dangling" /\ fresh'[u] # p
          /\ Returning(u, p)' => fresh'[u] # p
    BY <1>2, <1>3 DEF CustodyInv, Custody, HeldOnce
  <2> QED
    BY <2>1, <2>2 DEF HeldOnce
<1>8. ListedOnce'
  <2>1. \A j \in Id, p \in Ptr : Listed(j, p)' => Listed(j, p) /\ j # zid[t]
    <3>1. \A p \in Ptr : ~Listed(zid[t], p)
      BY <1>2 DEF Stopped, Listed, InList, CustodyInv, Custody, ListedOnce
    <3> QED BY <1>2, <3>1 DEF Listed
  <2>2. \A j \in Id, p \in Ptr : Listed(j, p)' =>
          /\ QuarantineOn /\ owner'[p] = j /\ prog'[p] = "dangling"
          /\ \A u \in Thread : ~Holds(u, p)'
          /\ Once(zone'[j].list, p)
    BY <1>2, <1>3, <2>1 DEF CustodyInv, Custody, ListedOnce
  <2> QED
    BY <2>2 DEF ListedOnce
<1> QED
  BY <1>1, <1>5, <1>6, <1>7, <1>8 DEF CustodyInv, Custody

-----------------------------------------------------------------------------
(* CLEAR, of CMAs without quarantine.                                      *)

(* Only with the quarantine on are chunks taken out of zones. *)
ShrinksOn == \A t \in Thread : pc[t] = "shrink" => QuarantineOn

(* The allocation list of an instance has only its own addresses. *)
ListsServed ==
  \A id \in Id : \A i \in DOMAIN alz[id] : alz[id][i] \in Serves[id]

(* What the steps keep together. *)
InCustody == CustodyInv /\ ShrinksOn /\ ListsServed /\ Stopped

LEMMA NoneListed ==
  ASSUME CustodyInv, ~QuarantineOn, NEW id \in Id, NEW p \in Ptr
  PROVE  ~Listed(id, p)
BY DEF CustodyInv, Custody, ListedOnce

(* Threads of other instances keep what they hold; what the instance had   *)
(* is the allocator's, and the program's no more.                          *)
LEMMA ClearCustody ==
  ASSUME CustodyAssumption, InCustody, NEW t \in Thread, NEW id \in Id,
         ClearCMAChunks(t, id)
  PROVE  CustodyInv'
<1>0. /\ CustodyInv /\ ListsServed
      /\ Served /\ LiveOwned /\ HeldOnce /\ ~faulty
  BY DEF InCustody, CustodyInv, Custody
<1>1. ~QuarantineOn
  BY DEF ClearCMAChunks, CustodyAssumption
<1>2. /\ \A u \in Thread : zid[u] # id
      /\ \A p \in Ptr : /\ owner'[p] = IF owner[p] = id THEN NoId ELSE owner[p]
                        /\ prog'[p] = IF owner[p] = id /\ prog[p] = "live"
                                      THEN "dangling" ELSE prog[p]
      /\ UNCHANGED <<zone, pc, ptr, fresh, ret, zid, inCma, faulty>>
  <2>1. /\ \A u \in Thread : zid[u] # id
        /\ owner' = [p \in Ptr |-> IF owner[p] = id THEN NoId ELSE owner[p]]
        /\ prog' = [p \in Ptr |-> IF owner[p] = id /\ prog[p] = "live"
                                  THEN "dangling" ELSE prog[p]]
        /\ UNCHANGED <<zone, mutex, hooks, faulty>>
    BY Zenon DEF ClearCMAChunks
  <2> QED
    BY <2>1 DEF hooks
<1>3. \A p \in Ptr : \/ info'[p] = info[p]
                     \/ info'[p].id = id /\ p \in Serves[id]
  <2>1. PICK cleared : /\ info' = [p \in Ptr |-> IF p \in cleared
                                      THEN [status |-> "DEALLOCATED", id |-> id]
                                      ELSE info[p]]
                       /\ cleared \subseteq {alz[id][i] : i \in 1 .. Len(alz[id])}
    BY DEF ClearCMAChunks
  <2>2. DOMAIN alz[id] = 1 .. Len(alz[id])
    BY <1>0 DEF CustodyInv, TypeInv, TypeOK
  <2>3. cleared \subseteq Serves[id]
    BY <1>0, <2>1, <2>2 DEF ListsServed
  <2>4. \A p \in Ptr \cap cleared : info'[p].id = id
    BY <2>1
  <2>5. \A p \in Ptr \ cleared : info'[p] = info[p]
    BY <2>1
  <2> QED BY <2>3, <2>4, <2>5
<1>4. TypeInv'
  <2>1. [Next]_vars
    BY DEF Next, Call
  <2> QED BY <1>0, <2>1, NextTypeInv DEF CustodyInv
<1>5. \A u \in Thread, p \in Ptr : Holds(u, p)' <=> Holds(u, p)
  BY <1>2 DEF Holds, Returning
<1>6. Served'
  <2>1. \A p \in Ptr : owner'[p] # NoId => p \in Serves[owner'[p]]
    BY <1>0, <1>2 DEF Served
  <2>2. \A p \in Ptr : info'[p].id # NoId => p \in Serves[info'[p].id]
    BY <1>0, <1>3 DEF Served
  <2>3. \A u \in Thread, p \in Ptr :
          pc'[u] # "idle" /\ ptr'[u] = p => p \in Serves[zid'[u]]
    BY <1>0, <1>2 DEF Served
  <2> QED BY <2>1, <2>2, <2>3 DEF Served
<1>7. LiveOwned'
  BY <1>0, <1>2 DEF LiveOwned
<1>8. \A u \in Thread, p \in Ptr : Holds(u, p) =>
        owner'[p] = owner[p] /\ prog'[p] = prog[p]
  <2>1. \A u \in Thread, p \in Ptr : Holds(u, p) => owner[p] # id
    BY <1>0, <1>2 DEF HeldOnce
  <2> QED BY <1>2, <2>1
<1>9. HeldOnce'
  <2>1. \A u \in Thread, p \in Ptr :
          ptr[u] = p /\ pc[u] \in Freeing => Holds(u, p)
    BY DEF Holds
  <2>2. \A u \in Thread, p \in Ptr : Returning(u, p)' <=> Returning(u, p)
    BY <1>2 DEF Returning
  <2>3. \A u \in Thread, p \in Ptr : Holds(u, p)' =>
          /\ owner'[p] = zid'[u] /\ prog'[p] # "live"
          /\ \A v \in Thread : Holds(v, p)' => v = u
    BY <1>0, <1>2, <1>5, <1>8 DEF HeldOnce
  <2>4. \A u \in Thread, p \in Ptr :
          ptr'[u] = p /\ pc'[u] \in Freeing
            => prog'[p] = "dangling" /\ fresh'[u] # p
    BY <1>0, <1>2, <1>8, <2>1 DEF HeldOnce
  <2>5. \A u \in Thread, p \in Ptr : Returning(u, p)' => fresh'[u] # p
    BY <1>0, <1>2, <2>2 DEF HeldOnce
  <2> QED BY <2>3, <2>4, <2>5 DEF HeldOnce
<1>10. ListedOnce'
  <2>1. \A j \in Id, p \in Ptr : ~Listed(j, p)'
    BY <1>0, <1>1, <1>2, NoneListed DEF Listed
  <2> QED BY <2>1 DEF ListedOnce
<1> QED
  BY <1>0, <1>2, <1>4, <1>6, <1>7, <1>9, <1>10 DEF CustodyInv, Custody

(* An allocation list with one address more, or with this one alone. *)
LEMMA InAllocList ==
  ASSUME NEW list \in Seq(Ptr), NEW p \in Ptr,
         NEW l, l = AddCMAAllocChunk(list, p)
  PROVE  \A i \in DOMAIN l : l[i] = p \/ \E j \in DOMAIN list : l[i] = list[j]
<1>1. CASE Len(list) >= AllocZoneN
  <2>1. l = <<p>>
    BY <1>1 DEF AddCMAAllocChunk
  <2> QED BY <2>1
<1>2. CASE ~(Len(list) >= AllocZoneN)
  <2>1. l = Append(list, p)
    BY <1>2 DEF AddCMAAllocChunk
  <2>2. /\ DOMAIN l = 1 .. Len(list) + 1 /\ Len(list) \in Nat
        /\ DOMAIN list = 1 .. Len(list)
        /\ \A i \in 1 .. Len(list) : l[i] = list[i]
        /\ l[Len(list) + 1] = p
    BY <2>1
  <2>3. \A i \in DOMAIN l : i \in DOMAIN list \/ i = Len(list) + 1
    BY <2>2
  <2> QED BY <2>2, <2>3
<1> QED BY <1>1, <1>2

(* A step either keeps the lists, adds an address the thread has obtained, *)
(* or empties a list.                                                      *)
LEMMA ListStep ==
  ASSUME TypeInv, [Next]_vars
  PROVE  \/ alz' = alz
         \/ \E t \in Thread : /\ pc[t] # "idle" /\ fresh[t] \in Ptr
                              /\ alz' = [alz EXCEPT ![zid[t]] =
                                           AddCMAAllocChunk(@, fresh[t])]
         \/ \E id \in Id : alz' = [alz EXCEPT ![id] = << >>]
<1>1. CASE UNCHANGED vars
  BY <1>1 DEF vars, runtime
<1>2. ASSUME NEW t \in Thread, AllocateCMAChunk(t) \/ ReallocateCMAChunkEnd(t)
      PROVE  \/ alz' = alz
             \/ /\ pc[t] # "idle" /\ fresh[t] \in Ptr
                /\ alz' = [alz EXCEPT ![zid[t]] = AddCMAAllocChunk(@, fresh[t])]
  <2>1. pc[t] # "idle" /\ fresh[t] \in Ptr
    BY <1>2
    DEF AllocateCMAChunk, ReallocateCMAChunkEnd, TypeInv, TypeOK, Located
  <2>2. \E i, s : AllocateImpl(i, s, fresh[t], zid[t])
    BY <1>2 DEF AllocateCMAChunk, ReallocateCMAChunkEnd
  <2> QED BY <2>1, <2>2 DEF AllocateImpl
<1>3. ASSUME NEW t \in Thread, NEW id \in Id,
             ClearCMAChunks(t, id) \/ EmptyQuarantineOnGC(t, id)
      PROVE  alz' = [alz EXCEPT ![id] = << >>]
  BY <1>3 DEF ClearCMAChunks, EmptyQuarantineOnGC
<1>4. ASSUME NEW t \in Thread, Hook(t)
      PROVE  alz' = alz \/ AllocateCMAChunk(t) \/ ReallocateCMAChunkEnd(t)
  BY <1>4
  DEF Hook, ReleaseInRealloc, Release, ReleaseAfterReport, Shrink,
      ReallocateCMAChunkStart, StartAfterReport, ReallocateEndNull, runtime
<1>5. ASSUME NEW t \in Thread, CmaBody(t)
      PROVE  alz' = alz
  BY <1>5
  DEF CmaBody, CmaFree, CmaCollect, CmaReallocInPlace, CmaReallocFail,
      CmaReallocZero, CmaReallocMove, CmaReallocMoveDirect, runtime
<1>6. ASSUME NEW t \in Thread, Call(t)
      PROVE  \/ alz' = alz
             \/ \E id \in Id : ClearCMAChunks(t, id) \/ EmptyQuarantineOnGC(t, id)
  BY <1>6 DEF Call, CmaAlloc, FreeCall, ReallocCall, runtime
<1> QED
  BY <1>1, <1>2, <1>3, <1>4, <1>5, <1>6 DEF Next

LEMMA NextListsServed ==
  ASSUME InCustody, [Next]_vars
  PROVE  ListsServed'
<1>1. alz \in [Id -> Seq(Ptr)]
  BY DEF InCustody, CustodyInv, TypeInv, TypeOK
<1>2. CASE alz' = alz
  BY <1>2 DEF InCustody, ListsServed
<1>3. ASSUME NEW t \in Thread, pc[t] # "idle", fresh[t] \in Ptr,
             alz' = [alz EXCEPT ![zid[t]] = AddCMAAllocChunk(@, fresh[t])]
      PROVE  ListsServed'
  <2>1. zid[t] \in Id /\ fresh[t] \in Serves[zid[t]]
    <3>1. Holds(t, fresh[t]) /\ zid[t] \in Id
      BY <1>3 DEF Holds, InCustody, CustodyInv, TypeInv, Located
    <3>2. owner[fresh[t]] = zid[t] /\ zid[t] # NoId
      BY <1>3, <3>1, RuntimeAssumption DEF InCustody, CustodyInv, Custody, HeldOnce
    <3> QED
      BY <1>3, <3>1, <3>2 DEF InCustody, CustodyInv, Custody, Served
  <2>2. /\ alz'[zid[t]] = AddCMAAllocChunk(alz[zid[t]], fresh[t])
        /\ \A id \in Id \ {zid[t]} : alz'[id] = alz[id]
    BY <1>1, <1>3, <2>1
  <2>3. \A i \in DOMAIN alz'[zid[t]] : alz'[zid[t]][i] \in Serves[zid[t]]
    <3>1. PICK l : l = alz'[zid[t]]
      OBVIOUS
    <3>2. \A i \in DOMAIN l :
            l[i] = fresh[t] \/ \E j \in DOMAIN alz[zid[t]] : l[i] = alz[zid[t]][j]
      BY <1>1, <1>3, <2>1, <2>2, <3>1, InAllocList
    <3> QED
      BY <2>1, <3>1, <3>2 DEF InCustody, ListsServed
  <2> QED
    BY <2>2, <2>3 DEF InCustody, ListsServed
<1>4. ASSUME NEW id \in Id, alz' = [alz EXCEPT ![id] = << >>]
      PROVE  ListsServed'
  BY <1>1, <1>4 DEF InCustody, ListsServed
<1> QED
  BY <1>2, <1>3, <1>4, ListStep DEF InCustody, CustodyInv

-----------------------------------------------------------------------------
(* The theorems.                                                           *)

LEMMA InitCustody ==
  ASSUME CustodyAssumption
  PROVE  Init => InCustody
<1> SUFFICES ASSUME Init PROVE InCustody
  OBVIOUS
<1>1. TypeInv
  BY InitTypeInv
<1>2. Served /\ LiveOwned
  BY DEF Init, Served, LiveOwned, Untracked
<1>3. \A t \in Thread, p \in Ptr : ~Holds(t, p)
  BY RuntimeAssumption DEF Init, Holds, Returning, Freeing, Reallocating
<1>4. HeldOnce
  BY <1>3, RuntimeAssumption DEF HeldOnce, Init, Returning, Freeing
<1>5. ListedOnce
  BY DEF Init, ListedOnce, Listed, InList, EmptyZone
<1>6. ~faulty /\ ShrinksOn /\ ListsServed /\ Stopped
  BY DEF Init, CustodyAssumption, ShrinksOn, ListsServed, Stopped
<1> QED
  BY <1>1, <1>2, <1>4, <1>5, <1>6 DEF InCustody, CustodyInv, Custody

LEMMA NextShrinksOn ==
  ASSUME TypeInv, ShrinksOn, [Next]_vars
  PROVE  ShrinksOn'
<1>1. CASE UNCHANGED vars
  BY <1>1 DEF vars, hooks, ShrinksOn
<1>2. ASSUME NEW t \in Thread, Hook(t) \/ CmaBody(t) \/ Call(t)
      PROVE  ShrinksOn'
  <2>1. CASE Elsewhere(t)
    BY <2>1, ElsewhereKeeps DEF ShrinksOn, TypeInv
  <2>2. CASE ReleaseInRealloc(t) \/ Release(t) \/ ReleaseAfterReport(t)
    <3>1. \/ \E l \in Location \ {"shrink"} : pc' = [pc EXCEPT ![t] = l]
          \/ QuarantineOn
      BY <2>2
      DEF ReleaseInRealloc, Release, ReleaseAfterReport, PushAndPop, LeaveWith,
          Goto, Location
    <3> QED
      BY <3>1 DEF ShrinksOn, TypeInv, TypeOK
  <2>3. CASE Shrink(t)
    BY <2>3 DEF Shrink, ShrinksOn
  <2>4. CASE StartAfterReport(t)
    BY <2>4 DEF StartAfterReport, Goto, ShrinksOn, TypeInv, TypeOK
  <2>5. CASE \E id \in Id : EmptyQuarantineOnGC(t, id)
    BY <2>5 DEF EmptyQuarantineOnGC, Goto, ShrinksOn, TypeInv, TypeOK
  <2> QED
    BY <1>2, <2>1, <2>2, <2>3, <2>4, <2>5, NextCases
<1> QED
  BY <1>1, <1>2 DEF Next

LEMMA NextCustody ==
  ASSUME CustodyAssumption, InCustody, [Next]_vars
  PROVE  InCustody'
<1>0. CustodyInv /\ ShrinksOn /\ Stopped
  BY DEF InCustody
<1>1. ASSUME UNCHANGED vars PROVE CustodyInv'
  <2>1. TypeInv'
    BY <1>0, <1>1, NextTypeInv DEF CustodyInv
  <2>2. \A t \in Thread, p \in Ptr : Holds(t, p)' <=> Holds(t, p)
    BY <1>1 DEF vars, hooks, Holds, Returning
  <2>3. Custody'
    BY <1>0, <1>1, <2>2
    DEF vars, hooks, runtime, CustodyInv, Custody, Served, LiveOwned, HeldOnce,
        ListedOnce, Listed, Returning
  <2> QED
    BY <1>0, <1>1, <2>1, <2>3 DEF CustodyInv, vars
<1>2. ASSUME NEW t \in Thread, Hook(t) PROVE CustodyInv'
  <2>1. Shrink(t) => QuarantineOn
    BY <1>0 DEF Shrink, ShrinksOn
  <2> QED
    BY <1>0, <1>2, <2>1, AllocateCustody, ReleaseInReallocCustody, ReleaseCustody,
       ShrinkCustody, StartCustody, EndNullCustody, EndCustody
    DEF Hook
<1>3. ASSUME NEW t \in Thread, CmaBody(t) PROVE CustodyInv'
  BY <1>0, <1>3, CmaFreeCustody, CollectCustody, InPlaceCustody, FailCustody,
     ZeroCustody, MoveCustody, DirectCustody
  DEF CmaBody
<1>4. ASSUME NEW t \in Thread, Call(t) PROVE CustodyInv'
  BY <1>0, <1>4, CmaAllocCustody, FreeCallCustody, ReallocCallCustody,
     ClearCustody, GCCustody
  DEF Call
<1>5. CustodyInv'
  BY <1>1, <1>2, <1>3, <1>4 DEF Next
<1>6. ShrinksOn' /\ ListsServed'
  BY <1>0, NextShrinksOn, NextListsServed DEF CustodyInv
<1>7. Stopped'
  BY <1>0, NextStopped DEF CustodyInv
<1> QED
  BY <1>5, <1>6, <1>7 DEF InCustody

(* At every moment the program, one thread, one zone or the allocator      *)
(* answers for an address: for legal programs, instances that share no     *)
(* memory, no CLEAR where there is a quarantine, and collections that stop *)
(* the other threads outside of the CMA, however FREE, REALLOC and CLEAR   *)
(* interleave, and whether or not reports end the process.                 *)
THEOREM CustodyKept ==
  ASSUME CustodyAssumption
  PROVE  Spec => []Custody
<1>1. Init => InCustody
  BY InitCustody
<1>2. InCustody /\ [Next]_vars => InCustody'
  BY NextCustody
<1>3. InCustody => Custody
  BY DEF InCustody, CustodyInv
<1> QED
  BY <1>1, <1>2, <1>3, PTL DEF Spec

(* The body of FREE runs only with addresses that the instance has handed  *)
(* out and has not got back, and with each in one thread at a time         *)
(* (__asan_releaseCMAChunk), with collections as in CustodyKept.           *)
THEOREM HandBackAlwaysSound ==
  ASSUME CustodyAssumption
  PROVE  Spec => []HandBackSound
<1>1. Custody => HandBackSound
  BY DEF Custody, HeldOnce, HandBackSound, Holds
<1> QED
  BY <1>1, CustodyKept, PTL

(* An address that waits in a zone is out of the allocator's reach, and is *)
(* there once (pushPtr), with collections as in CustodyKept.               *)
THEOREM QuarantineAlwaysHeld ==
  ASSUME CustodyAssumption
  PROVE  Spec => []QuarantineHeld
<1>1. TypeOK /\ Custody => QuarantineHeld
  <2> SUFFICES ASSUME TypeOK, Custody, NEW id \in Id,
                      NEW i \in 1 .. Len(zone[id].list)
               PROVE  LET list == zone[id].list IN
                      /\ owner[list[i].ptr] = id
                      /\ \A j \in 1 .. Len(list) :
                           list[j].ptr = list[i].ptr => j = i
    BY DEF QuarantineHeld
  <2>1. zone[id].list \in Seq(Entry)
    BY DEF TypeOK, Zone
  <2>2. /\ DOMAIN zone[id].list = 1 .. Len(zone[id].list)
        /\ zone[id].list[i].ptr \in Ptr
    <3>1. zone[id].list[i] \in Entry
      BY <2>1
    <3> QED
      BY <2>1, <3>1 DEF Entry
  <2>3. Listed(id, zone[id].list[i].ptr)
    BY <2>2 DEF Listed, InList
  <2> QED
    BY <2>2, <2>3 DEF Custody, ListedOnce, Once
<1> QED
  BY <1>1, CustodyKept, TypeCorrect, PTL

(* A pointer is not released twice: no address is in a zone a second time, *)
(* whatever its record says (releaseCMAChunkImpl before pushPtr), with     *)
(* collections as in CustodyKept; the program frees nothing twice, so the  *)
(* test of line 1421 is not what keeps the address from coming again.      *)
THEOREM NeverQuarantinedTwice ==
  ASSUME CustodyAssumption
  PROVE  Spec => []NotQuarantinedTwice
<1>1. TypeOK /\ Custody => NotQuarantinedTwice
  <2> SUFFICES ASSUME TypeOK, Custody, NEW id \in Id,
                      NEW i \in 1 .. Len(zone[id].list),
                      NEW j \in 1 .. Len(zone[id].list),
                      zone[id].list[i].ptr = zone[id].list[j].ptr
               PROVE  i = j
    BY DEF NotQuarantinedTwice
  <2>1. zone[id].list \in Seq(Entry)
    BY DEF TypeOK, Zone
  <2>2. /\ DOMAIN zone[id].list = 1 .. Len(zone[id].list)
        /\ zone[id].list[i] \in Entry
    BY <2>1
  <2>3. Listed(id, zone[id].list[i].ptr) /\ zone[id].list[i].ptr \in Ptr
    BY <2>2 DEF Listed, InList, Entry
  <2> QED
    BY <2>2, <2>3 DEF Custody, ListedOnce, Once
<1> QED
  BY <1>1, CustodyKept, TypeCorrect, PTL
=============================================================================
