---------------------------- MODULE CycleProofs ----------------------------
(***************************************************************************)
(* The hooks implement module ChunkCycle for any addresses, threads and    *)
(* instances: an address goes from the allocator to the program, from the  *)
(* program into custody, and from there back to the allocator once.        *)
(*                                                                         *)
(* The argument: Custody says that one party answers for an address, so a  *)
(* step that moves it from one party to the next finds it with the first   *)
(* and with nobody else.  What Custody leaves open is that a chunk in      *)
(* REALLOC is still the program's, which is Resized.                       *)
(***************************************************************************)
EXTENDS CustodyProofs

(* A thread is about to resize the chunk, or has failed to. *)
Resizing(t, p) ==
  /\ ptr[t] = p
  /\ pc[t] \in Reallocating \/ (pc[t] = "reEnd" /\ fresh[t] = NoPtr)

Resized == \A t \in Thread, p \in Ptr : Resizing(t, p) => prog[p] = "moving"

Back(p) == \E t \in Thread : Returning(t, p)
Got(p)  == \E t \in Thread : fresh[t] = p

(* A step moves the address along its cycle. *)
Along(p) ==
  CycleOf(p)' = CycleOf(p) \/ <<CycleOf(p), CycleOf(p)'>> \in Cycle!Moves

(* How a step may treat an address. *)
Same(p) ==
  /\ Back(p)' <=> Back(p)
  /\ Got(p)' <=> Got(p)
  /\ owner'[p] = owner[p]
  /\ prog'[p] = "dangling" <=> prog[p] = "dangling"

HandedOut(p) ==
  /\ ~Back(p) /\ owner[p] = NoId
  /\ ~Back(p)' /\ owner'[p] # NoId /\ Got(p)'

Held(p) ==
  /\ ~Back(p) /\ owner[p] # NoId /\ (Got(p) \/ prog[p] # "dangling")
  /\ ~Back(p)' /\ owner'[p] # NoId

GivenBack(p) == ~Back(p) /\ owner[p] # NoId /\ Back(p)'

TakenIn(p) == ~Back(p)' /\ owner'[p] = NoId

LEMMA AlongCycle ==
  ASSUME NEW p \in Ptr,
         \/ Same(p) \/ HandedOut(p) \/ Held(p) \/ GivenBack(p) \/ TakenIn(p)
  PROVE  Along(p)
<1>1. /\ Back(p) => CycleOf(p) = "returning"
      /\ ~Back(p) /\ owner[p] = NoId => CycleOf(p) = "free"
      /\ ~Back(p) /\ owner[p] # NoId /\ prog[p] = "dangling" /\ ~Got(p)
           => CycleOf(p) = "held"
      /\ ~Back(p) /\ owner[p] # NoId /\ (prog[p] # "dangling" \/ Got(p))
           => CycleOf(p) = "live"
  BY DEF CycleOf, Back, Got
<1>2. /\ Back(p)' => CycleOf(p)' = "returning"
      /\ ~Back(p)' /\ owner'[p] = NoId => CycleOf(p)' = "free"
      /\ ~Back(p)' /\ owner'[p] # NoId /\ prog'[p] = "dangling" /\ ~Got(p)'
           => CycleOf(p)' = "held"
      /\ ~Back(p)' /\ owner'[p] # NoId /\ (prog'[p] # "dangling" \/ Got(p)')
           => CycleOf(p)' = "live"
  BY DEF CycleOf, Back, Got
<1>3. /\ <<"free", "live">> \in Cycle!Moves
      /\ <<"live", "held">> \in Cycle!Moves
      /\ <<"held", "returning">> \in Cycle!Moves
      /\ <<"live", "returning">> \in Cycle!Moves
      /\ <<"returning", "free">> \in Cycle!Moves
      /\ <<"live", "free">> \in Cycle!Moves
      /\ <<"held", "free">> \in Cycle!Moves
  BY DEF Cycle!Moves, Cycle!HandOut, Cycle!Hold, Cycle!GiveBack, Cycle!TakeIn,
         Cycle!Reclaim
<1>4. CASE Same(p)
  BY <1>1, <1>2, <1>4 DEF Same, Along
<1>5. CASE HandedOut(p)
  BY <1>1, <1>2, <1>3, <1>5 DEF HandedOut, Along
<1>6. CASE Held(p)
  BY <1>1, <1>2, <1>3, <1>6 DEF Held, Along
<1>7. CASE GivenBack(p)
  BY <1>1, <1>2, <1>3, <1>7 DEF GivenBack, Along
<1>8. CASE TakenIn(p)
  BY <1>1, <1>2, <1>3, <1>8 DEF TakenIn, Along
<1> QED BY <1>4, <1>5, <1>6, <1>7, <1>8

(* An address that a thread holds is handed out, and only this thread can  *)
(* have it to return or as a new one.                                      *)
LEMMA HeldFacts ==
  ASSUME CustodyInv, NEW t \in Thread, NEW p \in Ptr, Holds(t, p)
  PROVE  /\ owner[p] = zid[t] /\ owner[p] \in Id /\ owner[p] # NoId
         /\ Back(p) <=> Returning(t, p)
         /\ Got(p) <=> fresh[t] = p
         /\ \A u \in Thread : Holds(u, p) <=> u = t
<1>1. /\ owner[p] = zid[t] /\ \A u \in Thread : Holds(u, p) <=> u = t
  BY DEF CustodyInv, Custody, HeldOnce
<1>2. pc[t] # "idle"
  BY RuntimeAssumption
  DEF CustodyInv, TypeInv, Located, Holds, Returning, Freeing, Reallocating
<1>3. owner[p] \in Id /\ owner[p] # NoId
  BY <1>1, <1>2, RuntimeAssumption DEF CustodyInv, TypeInv, Located
<1> QED BY <1>1, <1>3 DEF Back, Got, Holds

(* An address that the allocator has is with no thread. *)
LEMMA FreeFacts ==
  ASSUME CustodyInv, NEW p \in Ptr, owner[p] = NoId
  PROVE  \A t \in Thread : ~Holds(t, p)
BY HeldFacts

LEMMA LiveFacts ==
  ASSUME CustodyInv, NEW p \in Ptr, prog[p] = "live"
  PROVE  ~Back(p) /\ ~Got(p) /\ owner[p] # NoId
BY DEF CustodyInv, Custody, LiveOwned, HeldOnce, Holds, Back, Got

(* A step of a thread keeps Resized if it changes no address in another    *)
(* thread's hands and lets go of those it changes.                         *)
LEMMA ResizedKept ==
  ASSUME CustodyInv, Resized, NEW t \in Thread,
         \A u \in Thread \ {t}, p \in Ptr : Resizing(u, p)' => Resizing(u, p),
         \A p \in Ptr : Resizing(t, p)' =>
            prog'[p] = "moving" \/ (Resizing(t, p) /\ prog'[p] = prog[p]),
         \A p \in Ptr : prog'[p] = prog[p] \/ prog[p] # "moving" \/ Holds(t, p)
  PROVE  Resized'
<1>1. \A u \in Thread, p \in Ptr : Resizing(u, p) => Holds(u, p)
  BY DEF Resizing, Holds
<1>2. \A u \in Thread \ {t}, p \in Ptr : Resizing(u, p) => ~Holds(t, p)
  BY <1>1 DEF CustodyInv, Custody, HeldOnce
<1> QED BY <1>2 DEF Resized

Follows == Resized' /\ \A p \in Ptr : Along(p)

(* A step that changes neither what threads have nor what they do with it. *)
LEMMA InTheHook ==
  ASSUME CustodyInv, Resized, NEW t \in Thread,
         UNCHANGED <<ptr, fresh, ret, owner, prog>>,
         \E l \in Location \ {"cmaFree"} : pc' = [pc EXCEPT ![t] = l],
         pc[t] # "cmaFree",
         \A p \in Ptr : Resizing(t, p)' => Resizing(t, p)
  PROVE  Follows
<1>1. \A u \in Thread, p \in Ptr : Returning(u, p)' <=> Returning(u, p)
  BY DEF CustodyInv, TypeInv, TypeOK, Returning
<1>2. \A p \in Ptr : Same(p)
  BY <1>1 DEF Same, Back, Got
<1>3. \A u \in Thread \ {t}, p \in Ptr : Resizing(u, p)' => Resizing(u, p)
  BY DEF CustodyInv, TypeInv, TypeOK, Resizing
<1> QED BY <1>2, <1>3, AlongCycle, ResizedKept DEF Follows

(* The body of ALLOC obtains an address. *)
LEMMA CmaAllocFollows ==
  ASSUME CustodyInv, Resized, NEW t \in Thread, NEW id \in Id, NEW p \in Ptr,
         CmaAlloc(t, id, p)
  PROVE  Follows
<1>1. /\ pc[t] = "idle" /\ pc' = [pc EXCEPT ![t] = "allocate"]
      /\ owner' = [owner EXCEPT ![p] = id] /\ owner[p] = NoId
      /\ fresh' = [fresh EXCEPT ![t] = p]
      /\ fresh[t] = NoPtr /\ NoPtr \notin Ptr /\ NoId \notin Id
      /\ UNCHANGED <<ptr, ret, prog>>
  BY RuntimeAssumption DEF CmaAlloc, Goto, CustodyInv, TypeInv, Located
<1>2. \A u \in Thread, q \in Ptr :
        /\ Returning(u, q)' <=> Returning(u, q)
        /\ Resizing(u, q)' => Resizing(u, q)
        /\ fresh'[u] = q <=> fresh[u] = q \/ (u = t /\ q = p)
  BY <1>1
  DEF CustodyInv, TypeInv, TypeOK, Returning, Resizing, Reallocating
<1>3. ~Back(p)
  BY <1>1, FreeFacts DEF Back, Holds
<1>4. HandedOut(p)
  BY <1>1, <1>2, <1>3 DEF HandedOut, Back, Got, CustodyInv, TypeInv, TypeOK
<1>5. \A q \in Ptr \ {p} : Same(q)
  BY <1>1, <1>2 DEF Same, Back, Got, CustodyInv, TypeInv, TypeOK
<1> QED BY <1>1, <1>2, <1>4, <1>5, AlongCycle, ResizedKept DEF Follows

(* The program has it. *)
LEMMA HandOutFollows ==
  ASSUME CustodyInv, Resized, NEW t \in Thread,
         AllocateCMAChunk(t) \/ ReallocateCMAChunkEnd(t)
  PROVE  Follows
<1>0. PICK p \in Ptr : p = fresh[t]
  BY RuntimeAssumption
  DEF AllocateCMAChunk, ReallocateCMAChunkEnd, CustodyInv, TypeInv, TypeOK,
      Located
<1>1. /\ pc[t] \in {"allocate", "reEnd"} /\ pc' = [pc EXCEPT ![t] = "idle"]
      /\ prog' = [prog EXCEPT ![p] = "live"]
      /\ fresh' = [fresh EXCEPT ![t] = NoPtr]
      /\ ptr' = [ptr EXCEPT ![t] = NoPtr]
      /\ ret' = [ret EXCEPT ![t] = NoPtr]
      /\ owner' = owner /\ p \in Ptr /\ NoPtr \notin Ptr /\ Holds(t, p)
  BY <1>0, RuntimeAssumption
  DEF AllocateCMAChunk, ReallocateCMAChunkEnd, Return, Goto, CustodyInv,
      TypeInv, TypeOK, Located, Holds
<1>2. /\ owner[p] # NoId /\ ~Back(p) /\ Got(p)
  BY <1>0, <1>1, HeldFacts DEF Returning, Got
<1>3. \A u \in Thread, q \in Ptr :
        /\ Returning(u, q)' <=> Returning(u, q)
        /\ Resizing(u, q)' => Resizing(u, q) /\ u # t
        /\ q # p => (fresh'[u] = q <=> fresh[u] = q)
  BY <1>0, <1>1
  DEF CustodyInv, TypeInv, TypeOK, Returning, Resizing, Reallocating
<1>4. Held(p)
  BY <1>0, <1>1, <1>2, <1>3 DEF Held, Back
<1>5. \A q \in Ptr \ {p} : Same(q) /\ prog'[q] = prog[q]
  BY <1>0, <1>1, <1>3 DEF Same, Back, Got, CustodyInv, TypeInv, TypeOK
<1> QED BY <1>0, <1>1, <1>3, <1>4, <1>5, AlongCycle, ResizedKept DEF Follows

(* The program passes an address to FREE or REALLOC. *)
LEMMA FreeCallFollows ==
  ASSUME CustodyInv, Resized, NEW t \in Thread, NEW id \in Id, NEW p \in Ptr,
         FreeCall(t, p, id)
  PROVE  Follows
<1>1. /\ pc[t] = "idle"
      /\ \E l \in {"freeFast", "freeSlow"} : pc' = [pc EXCEPT ![t] = l]
      /\ prog' = [prog EXCEPT ![p] = "dangling"] /\ prog[p] = "live"
      /\ ptr' = [ptr EXCEPT ![t] = p]
      /\ UNCHANGED <<fresh, ret, owner>>
  BY DEF FreeCall, MayPass, Goto, CustodyInv
<1>2. \A u \in Thread, q \in Ptr :
        /\ Returning(u, q)' <=> Returning(u, q)
        /\ Resizing(u, q)' => Resizing(u, q) /\ u # t
  BY <1>1 DEF CustodyInv, TypeInv, TypeOK, Returning, Resizing, Reallocating
<1>3. Held(p)
  <2>1. ~Back(p) /\ owner[p] # NoId
    BY <1>1, LiveFacts
  <2> QED BY <1>1, <1>2, <2>1 DEF Held, Back
<1>4. \A q \in Ptr \ {p} : Same(q) /\ prog'[q] = prog[q]
  BY <1>1, <1>2 DEF Same, Back, Got, CustodyInv, TypeInv, TypeOK
<1> QED BY <1>1, <1>2, <1>3, <1>4, AlongCycle, ResizedKept DEF Follows

LEMMA ReallocCallFollows ==
  ASSUME CustodyInv, Resized, NEW t \in Thread, NEW id \in Id,
         NEW p \in Ptr \cup {NoPtr}, ReallocCall(t, p, id)
  PROVE  Follows
<1>1. /\ pc[t] = "idle" /\ pc' = [pc EXCEPT ![t] = "reStart"]
      /\ \/ p = NoPtr /\ prog' = prog
         \/ /\ p \in Ptr /\ prog[p] = "live"
            /\ prog' = [prog EXCEPT ![p] = "moving"]
      /\ ptr' = [ptr EXCEPT ![t] = p] /\ NoPtr \notin Ptr
      /\ UNCHANGED <<fresh, ret, owner>>
  BY RuntimeAssumption DEF ReallocCall, MayPass, Goto, CustodyInv
<1>2. \A u \in Thread, q \in Ptr :
        /\ Returning(u, q)' <=> Returning(u, q)
        /\ u # t /\ Resizing(u, q)' => Resizing(u, q)
        /\ Resizing(t, q)' => q = p
  BY <1>1 DEF CustodyInv, TypeInv, TypeOK, Returning, Resizing, Reallocating
<1>3. \A q \in Ptr :
        /\ q # p => prog'[q] = prog[q]
        /\ q = p => prog'[q] = "moving" /\ prog[q] = "live"
  BY <1>1 DEF CustodyInv, TypeInv, TypeOK
<1>4. \A q \in Ptr : Same(q)
  BY <1>1, <1>2, <1>3 DEF Same, Back, Got
<1> QED BY <1>2, <1>3, <1>4, AlongCycle, ResizedKept DEF Follows

-----------------------------------------------------------------------------
(* The hook at the start of REALLOC, and the bodies of REALLOC.            *)

LEMMA StartFollows ==
  ASSUME CustodyInv, Resized, NEW t \in Thread,
         \/ ReallocateCMAChunkStart(t) \/ StartAfterReport(t)
         \/ CmaReallocFail(t)
  PROVE  Follows
<1>1. /\ UNCHANGED <<ptr, fresh, ret, owner, prog>>
      /\ pc[t] \in Reallocating
      /\ \E l \in {"reReport", "reBody", "reEnd"} : pc' = [pc EXCEPT ![t] = l]
  BY DEF ReallocateCMAChunkStart, StartAfterReport, CmaReallocFail, Goto,
         Reallocating
<1>2. pc[t] # "cmaFree" /\ {"reReport", "reBody", "reEnd"} \subseteq Location
  BY <1>1 DEF Reallocating, Location
<1>3. \A p \in Ptr : Resizing(t, p)' => Resizing(t, p)
  BY <1>1 DEF Resizing
<1> QED BY <1>1, <1>2, <1>3, InTheHook

LEMMA InPlaceFollows ==
  ASSUME CustodyInv, Resized, NEW t \in Thread, CmaReallocInPlace(t)
  PROVE  Follows
<1>0. PICK p \in Ptr : p = ptr[t]
  BY DEF CmaReallocInPlace, CustodyInv, TypeInv, TypeOK
<1>1. /\ pc[t] = "reBody" /\ pc' = [pc EXCEPT ![t] = "reEnd"]
      /\ fresh' = [fresh EXCEPT ![t] = p] /\ fresh[t] = NoPtr
      /\ p \in Ptr /\ NoPtr \notin Ptr /\ Resizing(t, p) /\ Holds(t, p)
      /\ UNCHANGED <<ptr, ret, owner, prog>>
  BY <1>0, RuntimeAssumption
  DEF CmaReallocInPlace, Goto, CustodyInv, TypeInv, TypeOK, Located,
      Reallocating, Resizing, Holds
<1>2. owner[p] # NoId /\ ~Back(p) /\ prog[p] = "moving"
  BY <1>0, <1>1, HeldFacts DEF Returning, Resized
<1>3. \A u \in Thread, q \in Ptr :
        /\ Returning(u, q)' <=> Returning(u, q)
        /\ Resizing(u, q)' => Resizing(u, q)
        /\ q # p => (fresh'[u] = q <=> fresh[u] = q)
  BY <1>0, <1>1
  DEF CustodyInv, TypeInv, TypeOK, Returning, Resizing, Reallocating
<1>4. Held(p)
  BY <1>0, <1>1, <1>2, <1>3 DEF Held, Back
<1>5. \A q \in Ptr \ {p} : Same(q)
  BY <1>0, <1>1, <1>3 DEF Same, Back, Got
<1> QED BY <1>0, <1>1, <1>3, <1>4, <1>5, AlongCycle, ResizedKept DEF Follows

(* The body passes the old chunk to FREE. *)
LEMMA ZeroFollows ==
  ASSUME CustodyInv, Resized, NEW t \in Thread, CmaReallocZero(t)
  PROVE  Follows
<1>0. PICK p \in Ptr : p = ptr[t]
  BY DEF CmaReallocZero, CustodyInv, TypeInv, TypeOK
<1>1. /\ pc[t] = "reBody" /\ fresh[t] = NoPtr
      /\ p \in Ptr /\ NoPtr \notin Ptr /\ Resizing(t, p) /\ Holds(t, p)
      /\ prog' = [prog EXCEPT ![p] = "dangling"]
      /\ \/ pc' = [pc EXCEPT ![t] = "freeFast"] /\ ret' = ret
         \/ /\ pc' = [pc EXCEPT ![t] = "cmaFree"]
            /\ ret' = [ret EXCEPT ![t] = p]
      /\ UNCHANGED <<ptr, fresh, owner>>
  BY <1>0, RuntimeAssumption
  DEF CmaReallocZero, CallFree, Goto, CustodyInv, TypeInv, TypeOK, Located,
      Reallocating, Resizing, Holds
<1>2. owner[p] # NoId /\ ~Back(p) /\ prog[p] = "moving"
  BY <1>0, <1>1, HeldFacts DEF Returning, Resized
<1>3. \A u \in Thread, q \in Ptr :
        /\ q # p => (Returning(u, q)' <=> Returning(u, q))
        /\ Resizing(u, q)' => Resizing(u, q) /\ u # t
  BY <1>0, <1>1
  DEF CustodyInv, TypeInv, TypeOK, Returning, Resizing, Reallocating
<1>4. Held(p) \/ GivenBack(p)
  BY <1>0, <1>1, <1>2 DEF Held, GivenBack
<1>5. \A q \in Ptr \ {p} : Same(q) /\ prog'[q] = prog[q]
  BY <1>0, <1>1, <1>3 DEF Same, Back, Got, CustodyInv, TypeInv, TypeOK
<1> QED BY <1>0, <1>1, <1>3, <1>4, <1>5, AlongCycle, ResizedKept DEF Follows

(* The same after it has obtained a new one. *)
LEMMA MoveFollows ==
  ASSUME CustodyInv, Resized, NEW t \in Thread, NEW n \in Ptr,
         CmaReallocMove(t, n)
  PROVE  Follows
<1>0. PICK p \in Ptr : p = ptr[t]
  BY DEF CmaReallocMove, CustodyInv, TypeInv, TypeOK
<1>1. /\ pc[t] = "reBody" /\ fresh[t] = NoPtr /\ owner[n] = NoId
      /\ p \in Ptr /\ NoPtr \notin Ptr /\ Resizing(t, p) /\ Holds(t, p)
      /\ prog' = [prog EXCEPT ![p] = "dangling"]
      /\ owner' = [owner EXCEPT ![n] = zid[t]]
      /\ zid[t] # NoId
      /\ fresh' = [fresh EXCEPT ![t] = n]
      /\ \/ pc' = [pc EXCEPT ![t] = "freeFast"] /\ ret' = ret
         \/ /\ pc' = [pc EXCEPT ![t] = "cmaFree"]
            /\ ret' = [ret EXCEPT ![t] = p]
      /\ ptr' = ptr
  BY <1>0, RuntimeAssumption
  DEF CmaReallocMove, CallFree, Goto, CustodyInv, TypeInv, TypeOK, Located,
      Reallocating, Resizing, Holds
<1>2. owner[p] # NoId /\ ~Back(p) /\ prog[p] = "moving" /\ p # n
  BY <1>0, <1>1, HeldFacts DEF Returning, Resized
<1>3. ~Back(n)
  BY <1>0, <1>1, FreeFacts DEF Back, Holds
<1>4. \A u \in Thread, q \in Ptr :
        /\ q # p => (Returning(u, q)' <=> Returning(u, q))
        /\ q # n => (fresh'[u] = q <=> fresh[u] = q)
        /\ Resizing(u, q)' => Resizing(u, q) /\ u # t
  BY <1>0, <1>1
  DEF CustodyInv, TypeInv, TypeOK, Returning, Resizing, Reallocating
<1>5. Held(p) \/ GivenBack(p)
  <2>1. owner'[p] # NoId
    BY <1>0, <1>1, <1>2 DEF CustodyInv, TypeInv, TypeOK
  <2> QED BY <1>2, <2>1 DEF Held, GivenBack
<1>6. HandedOut(n)
  BY <1>0, <1>1, <1>2, <1>3, <1>4
  DEF HandedOut, Back, Got, CustodyInv, TypeInv, TypeOK
<1>7. \A q \in Ptr \ {p} : prog'[q] = prog[q]
  BY <1>0, <1>1 DEF CustodyInv, TypeInv, TypeOK
<1>8. \A q \in Ptr \ {p, n} : Same(q)
  BY <1>0, <1>1, <1>4, <1>7 DEF Same, Back, Got, CustodyInv, TypeInv, TypeOK
<1> QED BY <1>0, <1>1, <1>4, <1>5, <1>6, <1>7, <1>8,
           AlongCycle, ResizedKept
    DEF Follows

(* The body recycles the old chunk itself, if there is one. *)
LEMMA DirectFollows ==
  ASSUME CustodyInv, Resized, NEW t \in Thread, NEW n \in Ptr,
         CmaReallocMoveDirect(t, n)
  PROVE  Follows
<1>0. PICK p \in Ptr \cup {NoPtr} : p = ptr[t]
  BY DEF CustodyInv, TypeInv, TypeOK
<1>1. /\ pc[t] = "reBody" /\ pc' = [pc EXCEPT ![t] = "reEnd"]
      /\ fresh[t] = NoPtr /\ owner[n] = NoId /\ NoPtr \notin Ptr
      /\ \A q \in Ptr : prog'[q] = IF q = p THEN "dangling" ELSE prog[q]
      /\ \A q \in Ptr : owner'[q] = IF q = n THEN zid[t]
                                    ELSE IF q = p THEN NoId ELSE owner[q]
      /\ zid[t] # NoId
      /\ fresh' = [fresh EXCEPT ![t] = n]
      /\ UNCHANGED <<ptr, ret>>
  BY <1>0, RuntimeAssumption
  DEF CmaReallocMoveDirect, Goto, CustodyInv, TypeInv, TypeOK, Located,
      Reallocating
<1>2. p \in Ptr => /\ owner[p] # NoId /\ ~Back(p) /\ Holds(t, p) /\ p # n
  <2> SUFFICES ASSUME p \in Ptr
               PROVE  owner[p] # NoId /\ ~Back(p) /\ Holds(t, p) /\ p # n
    OBVIOUS
  <2>1. Holds(t, p)
    BY <1>0, <1>1 DEF Holds, Reallocating
  <2> QED BY <1>0, <1>1, <2>1, HeldFacts DEF Returning
<1>3. ~Back(n)
  BY <1>0, <1>1, FreeFacts DEF Back, Holds
<1>4. \A u \in Thread, q \in Ptr :
        /\ Returning(u, q)' <=> Returning(u, q)
        /\ q # n => (fresh'[u] = q <=> fresh[u] = q)
        /\ Resizing(u, q)' => Resizing(u, q) /\ u # t
  BY <1>0, <1>1
  DEF CustodyInv, TypeInv, TypeOK, Returning, Resizing, Reallocating
<1>5. p \in Ptr => TakenIn(p)
  BY <1>0, <1>1, <1>2, <1>4 DEF TakenIn, Back
<1>6. HandedOut(n)
  BY <1>0, <1>1, <1>3, <1>4
  DEF HandedOut, Back, Got, CustodyInv, TypeInv, TypeOK
<1>7. \A q \in Ptr \ {p, n} : Same(q)
  BY <1>0, <1>1, <1>4 DEF Same, Back, Got
<1> QED BY <1>0, <1>1, <1>2, <1>4, <1>5, <1>6, <1>7,
           AlongCycle, ResizedKept
    DEF Follows

(* The program still has the chunk that could not be resized. *)
LEMMA EndNullFollows ==
  ASSUME CustodyInv, Resized, NEW t \in Thread, ReallocateEndNull(t)
  PROVE  Follows
<1>0. PICK p \in Ptr \cup {NoPtr} : p = ptr[t]
  BY DEF CustodyInv, TypeInv, TypeOK
<1>1. /\ pc[t] = "reEnd" /\ pc' = [pc EXCEPT ![t] = "idle"]
      /\ fresh[t] = NoPtr /\ NoPtr \notin Ptr
      /\ \A q \in Ptr : prog'[q] = IF q = p THEN "live" ELSE prog[q]
      /\ fresh' = [fresh EXCEPT ![t] = NoPtr]
      /\ ptr' = [ptr EXCEPT ![t] = NoPtr]
      /\ ret' = [ret EXCEPT ![t] = NoPtr]
      /\ owner' = owner
  BY <1>0, RuntimeAssumption
  DEF ReallocateEndNull, Return, Goto, CustodyInv, TypeInv, TypeOK
<1>2. p \in Ptr => Holds(t, p) /\ prog[p] = "moving"
  BY <1>0, <1>1 DEF Holds, Resizing, Resized
<1>3. \A u \in Thread, q \in Ptr :
        /\ Returning(u, q)' <=> Returning(u, q)
        /\ fresh'[u] = q <=> fresh[u] = q
        /\ Resizing(u, q)' => Resizing(u, q) /\ u # t
  BY <1>0, <1>1
  DEF CustodyInv, TypeInv, TypeOK, Returning, Resizing, Reallocating
<1>4. \A q \in Ptr : Same(q)
  BY <1>0, <1>1, <1>2, <1>3 DEF Same, Back, Got
<1> QED BY <1>0, <1>1, <1>2, <1>3, <1>4, AlongCycle, ResizedKept DEF Follows

-----------------------------------------------------------------------------
(* FREE.                                                                   *)

(* The body of FREE is to run with r, which is in custody. *)
LEMMA ReturnFollows ==
  ASSUME CustodyInv, Resized, NEW t \in Thread, NEW r \in Ptr \cup {NoPtr},
         pc[t] \in Freeing,
         pc' = [pc EXCEPT ![t] = "cmaFree"],
         ret' = [ret EXCEPT ![t] = r],
         UNCHANGED <<ptr, fresh, owner, prog>>,
         r \in Ptr => owner[r] # NoId /\ ~Back(r)
  PROVE  Follows
<1>1. \A u \in Thread, q \in Ptr :
        /\ Returning(u, q)' <=> Returning(u, q) \/ (u = t /\ q = r)
        /\ Resizing(u, q)' => Resizing(u, q) /\ u # t
  BY DEF CustodyInv, TypeInv, TypeOK, Returning, Resizing, Reallocating, Freeing
<1>2. r \in Ptr => GivenBack(r)
  BY <1>1 DEF GivenBack, Back
<1>3. \A q \in Ptr \ {r} : Same(q)
  BY <1>1 DEF Same, Back, Got
<1> QED BY <1>1, <1>2, <1>3, AlongCycle, ResizedKept DEF Follows

(* The address a thread is freeing is in custody. *)
LEMMA FreeingFacts ==
  ASSUME CustodyInv, NEW t \in Thread, pc[t] \in Freeing
  PROVE  ptr[t] \in Ptr /\ owner[ptr[t]] # NoId /\ ~Back(ptr[t])
<1>1. ptr[t] \in Ptr /\ Holds(t, ptr[t])
  BY DEF CustodyInv, TypeInv, TypeOK, Located, Holds
<1>2. ~Returning(t, ptr[t])
  BY DEF Returning, Freeing
<1> QED BY <1>1, <1>2, HeldFacts

(* The thread goes on with it. *)
LEMMA FreeingFollows ==
  ASSUME CustodyInv, Resized, NEW t \in Thread, pc[t] \in Freeing,
         \E l \in Freeing : pc' = [pc EXCEPT ![t] = l],
         UNCHANGED <<ptr, fresh, ret, owner, prog>>
  PROVE  Follows
<1>1. /\ pc[t] # "cmaFree" /\ Freeing \subseteq Location \ {"cmaFree"}
      /\ \A p \in Ptr : ~Resizing(t, p)'
  BY DEF Freeing, Location, Resizing, Reallocating, CustodyInv, TypeInv, TypeOK
<1> QED BY <1>1, InTheHook

(* The two critical sections, and the second after a report. *)
LEMMA ReleaseFollows ==
  ASSUME CustodyInv, Resized, NEW t \in Thread,
         ReleaseInRealloc(t) \/ Release(t) \/ ReleaseAfterReport(t)
  PROVE  Follows
<1>1. pc[t] \in Freeing /\ UNCHANGED <<ptr, fresh, owner, prog>>
  BY DEF ReleaseInRealloc, Release, ReleaseAfterReport, Freeing
<1>2. \/ \E l \in Freeing : pc' = [pc EXCEPT ![t] = l] /\ ret' = ret
      \/ \E r \in {ptr[t], NoPtr} : /\ pc' = [pc EXCEPT ![t] = "cmaFree"]
                                    /\ ret' = [ret EXCEPT ![t] = r]
  <2>1. \A id, holder : PushAndPop(t, ptr[t], id, holder) =>
          \/ pc' = [pc EXCEPT ![t] = "shrink"] /\ ret' = ret
          \/ \E r \in {ptr[t], NoPtr} : /\ pc' = [pc EXCEPT ![t] = "cmaFree"]
                                        /\ ret' = [ret EXCEPT ![t] = r]
    BY DEF PushAndPop, LeaveWith, Goto
  <2> QED
    BY <2>1 DEF ReleaseInRealloc, Release, ReleaseAfterReport, Goto, Freeing
<1>3. ptr[t] \in Ptr /\ owner[ptr[t]] # NoId /\ ~Back(ptr[t])
  BY <1>1, FreeingFacts
<1> QED BY <1>1, <1>2, <1>3, FreeingFollows, ReturnFollows, RuntimeAssumption

(* An iteration of the loop of popPtrIfMax: what it takes out of the zone  *)
(* was in custody there.                                                   *)
LEMMA ShrinkFollows ==
  ASSUME CustodyAssumption, CustodyInv, Resized, NEW t \in Thread, Shrink(t)
  PROVE  Follows
<1> DEFINE id == info[ptr[t]].id
           z == zone[id]
<1>1. /\ pc[t] = "shrink" /\ pc[t] \in Freeing /\ info[ptr[t]] # Untracked
      /\ UNCHANGED <<ptr, fresh, owner, prog>>
  BY DEF Shrink, Freeing, CustodyInv, TypeInv, Located
<1>2. id \in Id /\ z \in Zone
  BY <1>1, FreeingFacts, RecordOfOwner DEF CustodyInv, TypeInv, TypeOK
<1>3. CASE z.list = << >>
  BY <1>1, <1>3, ReturnFollows, RuntimeAssumption DEF Shrink, LeaveWith, Goto
<1>4. CASE z.list # << >> /\ IsChunkValid(Head(z.list).ptr, id)
  <2>1. PICK r \in Ptr : r = Head(z.list).ptr /\ Listed(id, r)
    BY <1>2, <1>4, InPop DEF Listed
  <2> HIDE DEF id, z
  <2>2. owner[r] # NoId /\ ~Back(r)
    <3>1. ListedOnce
      BY DEF CustodyInv, Custody
    <3>2. owner[r] = id /\ \A u \in Thread : ~Holds(u, r)
      BY <1>2, <2>1, <3>1 DEF ListedOnce
    <3>3. ~Back(r)
      BY <3>2 DEF Holds, Back
    <3> QED
      BY <1>2, <3>2, <3>3, RuntimeAssumption
  <2> USE DEF id, z
  <2>3. /\ pc' = [pc EXCEPT ![t] = "cmaFree"]
        /\ ret' = [ret EXCEPT ![t] = r]
    BY <1>4, <2>1 DEF Shrink, LeaveWith, Goto
  <2> QED BY <1>1, <2>2, <2>3, ReturnFollows
<1>5. CASE z.list # << >> /\ ~IsChunkValid(Head(z.list).ptr, id)
  <2>1. UNCHANGED <<pc, ret>> /\ pc' = [pc EXCEPT ![t] = "shrink"]
    BY <1>1, <1>5 DEF Shrink, CustodyInv, TypeInv, TypeOK
  <2> QED BY <1>1, <2>1, FreeingFollows DEF Freeing
<1> QED BY <1>3, <1>4, <1>5

(* The body of FREE: the allocator has the address back. *)
LEMMA CmaFreeFollows ==
  ASSUME CustodyInv, Resized, NEW t \in Thread, CmaFree(t)
  PROVE  Follows
<1>0. PICK p \in Ptr \cup {NoPtr} : p = ret[t]
  BY DEF CustodyInv, TypeInv, TypeOK
<1>1. /\ pc[t] = "cmaFree" /\ NoPtr \notin Ptr
      /\ \A q \in Ptr : owner'[q] = IF q = p THEN NoId ELSE owner[q]
      /\ ret' = [ret EXCEPT ![t] = NoPtr]
      /\ prog' = prog
      /\ \/ /\ pc' = [pc EXCEPT ![t] = "reEnd"]
            /\ UNCHANGED <<ptr, fresh>> /\ fresh[t] # NoPtr
         \/ /\ pc' = [pc EXCEPT ![t] = "idle"]
            /\ ptr' = [ptr EXCEPT ![t] = NoPtr]
            /\ fresh' = [fresh EXCEPT ![t] = NoPtr]
  BY <1>0, RuntimeAssumption
  DEF CmaFree, Return, Goto, CustodyInv, TypeInv, TypeOK
<1>2. p \in Ptr => Holds(t, p) /\ Returning(t, p)
  BY <1>0, <1>1 DEF Holds, Returning
<1>3. \A u \in Thread, q \in Ptr :
        /\ Returning(u, q)' <=> Returning(u, q) /\ u # t
        /\ Returning(t, q) => q = p
        /\ Resizing(u, q)' => Resizing(u, q) /\ u # t
        /\ fresh'[u] = q => fresh[u] = q
        /\ u # t => fresh'[u] = fresh[u]
  BY <1>0, <1>1
  DEF CustodyInv, TypeInv, TypeOK, Returning, Resizing, Reallocating
<1>4. p \in Ptr => TakenIn(p)
  BY <1>1, <1>2, <1>3, HeldFacts DEF TakenIn, Back, Holds
<1>5. \A q \in Ptr \ {p} : Back(q)' <=> Back(q)
  BY <1>3 DEF Back
<1>6. ASSUME NEW q \in Ptr \ {p} PROVE Same(q) \/ Held(q)
  <2>1. CASE Got(q)' <=> Got(q)
    BY <1>1, <1>5, <2>1 DEF Same
  <2>2. CASE fresh[t] = q
    <3>1. Holds(t, q) /\ ~Returning(t, q) /\ Got(q)
      BY <1>3, <2>2 DEF Holds, Got
    <3>2. owner[q] # NoId /\ ~Back(q)
      BY <3>1, HeldFacts
    <3> QED BY <1>1, <1>5, <3>1, <3>2 DEF Held
  <2> QED BY <1>3, <2>1, <2>2 DEF Got
<1> QED BY <1>1, <1>3, <1>4, <1>6, AlongCycle, ResizedKept DEF Follows

(* The hook of a collection moves no address. *)
LEMMA GCFollows ==
  ASSUME CustodyInv, Resized, NEW t \in Thread, NEW id \in Id,
         EmptyQuarantineOnGC(t, id)
  PROVE  Follows
<1>1. /\ UNCHANGED <<ptr, fresh, ret, owner, prog>>
      /\ pc[t] = "idle" /\ pc' = [pc EXCEPT ![t] = "collect"]
  BY DEF EmptyQuarantineOnGC, Goto
<1>2. \A u \in Thread, q \in Ptr :
        /\ Returning(u, q)' <=> Returning(u, q)
        /\ Resizing(u, q)' <=> Resizing(u, q)
  BY <1>1
  DEF Returning, Resizing, Reallocating, CustodyInv, TypeInv, TypeOK
<1>3. \A q \in Ptr : Same(q)
  BY <1>1, <1>2 DEF Same, Back, Got
<1>4. Resized'
  BY <1>1, <1>2 DEF Resized
<1> QED BY <1>3, <1>4, AlongCycle DEF Follows

(* A collection takes back what waits in the zone and nobody refers to. *)
LEMMA CollectFollows ==
  ASSUME CustodyInv, Resized, NEW t \in Thread, CmaCollect(t)
  PROVE  Follows
<1>1. /\ \A q \in Ptr : owner'[q] = owner[q] \/ (owner'[q] = NoId /\ Quiet(q))
      /\ UNCHANGED prog
      /\ pc[t] = "collect" /\ pc' = [pc EXCEPT ![t] = "idle"]
      /\ ptr' = [ptr EXCEPT ![t] = NoPtr] /\ ptr[t] = NoPtr
      /\ fresh' = [fresh EXCEPT ![t] = NoPtr] /\ fresh[t] = NoPtr
      /\ ret' = [ret EXCEPT ![t] = NoPtr]
  BY DEF CmaCollect, Return, Goto, CustodyInv, TypeInv, TypeOK, Located
<1>2. \A u \in Thread, q \in Ptr :
        /\ Returning(u, q)' <=> Returning(u, q)
        /\ Resizing(u, q)' <=> Resizing(u, q)
        /\ fresh'[u] = q <=> fresh[u] = q
  BY <1>1
  DEF Returning, Resizing, Reallocating, CustodyInv, TypeInv, TypeOK
<1>3. \A q \in Ptr : owner'[q] = NoId /\ Quiet(q) => TakenIn(q)
  BY <1>2 DEF TakenIn, Back, Quiet, Returning
<1>4. \A q \in Ptr : owner'[q] = owner[q] => Same(q)
  BY <1>1, <1>2 DEF Same, Back, Got
<1>5. Resized'
  BY <1>1, <1>2 DEF Resized
<1> QED BY <1>1, <1>3, <1>4, <1>5, AlongCycle DEF Follows

(* CLEAR: what the instance had is the allocator's.  No other thread is in *)
(* a function of the instance, so none of it is on its way back.           *)
LEMMA ClearFollows ==
  ASSUME CustodyInv, Resized, NEW t \in Thread, NEW id \in Id,
         ClearCMAChunks(t, id)
  PROVE  Follows
<1>1. /\ \A u \in Thread : zid[u] # id
      /\ owner' = [q \in Ptr |-> IF owner[q] = id THEN NoId ELSE owner[q]]
      /\ prog' = [q \in Ptr |-> IF owner[q] = id /\ prog[q] = "live"
                                THEN "dangling" ELSE prog[q]]
      /\ UNCHANGED <<zone, mutex, hooks, faulty>>
  BY Zenon DEF ClearCMAChunks
<1>2. /\ \A q \in Ptr : owner[q] # id => owner'[q] = owner[q]
      /\ \A q \in Ptr : owner[q] # id => prog'[q] = prog[q]
      /\ \A q \in Ptr : owner[q] = id => owner'[q] = NoId
      /\ \A q \in Ptr : prog[q] = "moving" => prog'[q] = "moving"
      /\ UNCHANGED <<pc, ptr, fresh, ret>>
  BY <1>1 DEF hooks
<1>3. \A u \in Thread, q \in Ptr :
        /\ Returning(u, q)' <=> Returning(u, q)
        /\ Resizing(u, q)' <=> Resizing(u, q)
  BY <1>2 DEF Returning, Resizing
<1>4. ASSUME NEW q \in Ptr, owner[q] = id PROVE TakenIn(q)
  <2>1. ~Back(q)
    BY <1>1, <1>4, HeldFacts DEF Back, Holds
  <2> QED BY <1>2, <1>3, <1>4, <2>1 DEF TakenIn, Back
<1>5. \A q \in Ptr : owner[q] # id => Same(q)
  BY <1>2, <1>3 DEF Same, Back, Got
<1>6. Resized'
  BY <1>2, <1>3 DEF Resized
<1> QED BY <1>4, <1>5, <1>6, AlongCycle DEF Follows

-----------------------------------------------------------------------------
LEMMA NextFollows ==
  ASSUME CustodyAssumption, CustodyInv, Resized, [Next]_vars
  PROVE  Follows
<1>1. CASE UNCHANGED vars
  <2>1. \A p \in Ptr : Same(p)
    BY <1>1 DEF vars, hooks, Same, Back, Got, Returning
  <2>2. Resized'
    BY <1>1 DEF vars, hooks, Resized, Resizing
  <2> QED BY <2>1, <2>2, AlongCycle DEF Follows
<1>2. ASSUME NEW t \in Thread, Hook(t) PROVE Follows
  BY <1>2, HandOutFollows, ReleaseFollows, ShrinkFollows, StartFollows,
     EndNullFollows
  DEF Hook
<1>3. ASSUME NEW t \in Thread, CmaBody(t) PROVE Follows
  BY <1>3, CmaFreeFollows, CollectFollows, InPlaceFollows, StartFollows,
     ZeroFollows, MoveFollows, DirectFollows
  DEF CmaBody
<1>4. ASSUME NEW t \in Thread, Call(t) PROVE Follows
  BY <1>4, CmaAllocFollows, FreeCallFollows, ReallocCallFollows, ClearFollows,
     GCFollows
  DEF Call
<1> QED BY <1>1, <1>2, <1>3, <1>4 DEF Next

(* The hooks implement the cycle: an address that is held or on its way    *)
(* back is not handed out, and each one goes back to the allocator once,   *)
(* for legal programs, instances that share no memory, and no CLEAR where  *)
(* there is a quarantine (releaseCMAChunkImpl, pushAndPopFromQuarantine,   *)
(* __asan_clearCMAChunks), and collections that stop the other threads     *)
(* outside of the CMA.                                                     *)
THEOREM AlwaysFollowsCycle ==
  ASSUME CustodyAssumption
  PROVE  Spec => FollowsCycle
<1> DEFINE m == [p \in Ptr |-> CycleOf(p)]
<1>1. Init => InCustody /\ Resized
  BY InitCustody DEF Init, Resized, Resizing, Reallocating
<1>2. InCustody /\ Resized /\ [Next]_vars => InCustody' /\ Resized'
  BY NextCustody, NextFollows DEF InCustody, Follows
<1>3. Init => Cycle!Init
  BY DEF Init, Cycle!Init, CycleOf, Returning
<1>4. InCustody /\ Resized /\ [Next]_vars => [Cycle!Next]_m
  <2> SUFFICES ASSUME CustodyInv, Resized, [Next]_vars
               PROVE  Cycle!Next
    BY DEF InCustody
  <2>1. \A p \in Ptr : Along(p)
    BY NextFollows DEF Follows
  <2>2. m' \in [Ptr -> Cycle!States]
    BY DEF CycleOf, Cycle!States
  <2>3. \A p \in Ptr : m[p] = CycleOf(p) /\ m'[p] = CycleOf(p)'
    OBVIOUS
  <2> QED BY <2>1, <2>2, <2>3 DEF Along, Cycle!Next
<1> QED BY <1>1, <1>2, <1>3, <1>4, PTL DEF Spec, FollowsCycle, Cycle!Spec
=============================================================================
