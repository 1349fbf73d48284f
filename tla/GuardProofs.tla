---------------------------- MODULE GuardProofs ----------------------------
(***************************************************************************)
(* The poison over the chunks of CMAs, for any addresses, threads,         *)
(* instances and limits, with and without collections (that stop the other *)
(* threads outside of the CMA): what the program holds is guarded, what it *)
(* has freed is poisoned, and no double free is reported that the program  *)
(* has not committed.  REALLOC is included; where it moves chunks, for a   *)
(* single thread (the run realloc_race shows what another thread may do    *)
(* meanwhile).  CLEAR is included where there is no quarantine.            *)
(*                                                                         *)
(* The argument: a chunk keeps the record and the poison it got from ALLOC *)
(* while the program has it and until the thread that frees or resizes it  *)
(* reaches the critical section that changes them; from there on that      *)
(* thread has to leave the chunk poisoned.  That nobody writes the record  *)
(* in between is Custody: one thread holds an address at a time.           *)
(***************************************************************************)
EXTENDS CustodyProofs

(* What the body of REALLOC may do, if there is a REALLOC. *)
Kinds == IF "REALLOC" \in Api THEN ReallocKinds ELSE {}

Alone == \A t, u \in Thread : t = u

(* Legal programs, instances without common memory, no CLEAR where there   *)
(* is a quarantine, allocations that have room for a redzone, and one      *)
(* thread where REALLOC moves chunks.                                      *)
GuardAssumption ==
  /\ CustodyAssumption /\ ~CoarseAllocs
  /\ Kinds \cap {"free_api", "direct"} # {} => Alone

(* Where a thread may be, and what it has there. *)
Placed(t) ==
  /\ pc[t] \notin {"report", "reReport"}
  /\ pc[t] \in {"reStart", "reBody"} => "REALLOC" \in Api
  /\ pc[t] \in Freeing \cup {"cmaFree"} /\ fresh[t] # NoPtr => inCma[t]
  /\ inCma[t] => pc[t] \in {"freeFast", "shrink", "cmaFree"} /\ ptr[t] # NoPtr
  /\ inCma[t] /\ fresh[t] = NoPtr => "zero" \in Kinds
  /\ pc[t] = "reEnd" /\ fresh[t] = NoPtr /\ ptr[t] # NoPtr => "fail" \in Kinds
  /\ fresh[t] # NoPtr /\ ptr[t] # NoPtr /\ fresh[t] # ptr[t] =>
       Alone /\ prog[ptr[t]] = "dangling"

(* The chunk is as ALLOC or a REALLOC that found no memory has left it. *)
Whole(p) ==
  \/ shadow[p] = "chunk" /\ info[p].status = "ALLOCATED"
  \/ "fail" \in Kinds /\ info[p].status = "IN_REALLOC"

(* Chunks come back from the program by FREE, or by a REALLOC that neither *)
(* fails nor frees the chunk for the size zero; CLEAR takes back chunks    *)
(* that its list may have lost.                                            *)
Poisons == Kinds \cap {"fail", "zero"} = {} /\ "CLEAR" \notin Api

(* The chunk is as FREE or REALLOC has left it. *)
Settled(p) ==
  /\ Poisons => shadow[p] = "freed"
  /\ QuarantineOn => info[p].status = "DEALLOCATED"

(* FREE or REALLOC has been called, and its hook has not changed the       *)
(* record yet.                                                             *)
Entering(t, p) ==
  ptr[t] = p /\ ~inCma[t] /\ pc[t] \in {"reStart", "freeFast", "freeSlow"}

(* The body of REALLOC has the chunk open, or has just failed. *)
Opened(t, p) ==
  /\ ptr[t] = p
  /\ \/ pc[t] = "reBody"
     \/ pc[t] = "freeFast" /\ inCma[t]
     \/ pc[t] = "reEnd" /\ fresh[t] = NoPtr

(* A hook of the thread has still to change the chunk's record or poison. *)
Away(t, p) ==
  ptr[t] = p /\ (pc[t] \in {"shrink", "cmaFree"} => fresh[t] # NoPtr)

(* The inductive invariant, with Custody. *)
Guarded ==
  /\ \A t \in Thread : Placed(t)
  /\ \A p \in Ptr : prog[p] # "unknown" => info[p] # Untracked
  /\ \A p \in Ptr : prog[p] = "live" => Whole(p)
  /\ \A t \in Thread, p \in Ptr : Entering(t, p) => Whole(p)
  /\ \A t \in Thread, p \in Ptr : Opened(t, p) => info[p].status = "IN_REALLOC"
  /\ \A p \in Ptr : prog[p] = "dangling" =>
       Settled(p) \/ \E t \in Thread : Away(t, p)
-----------------------------------------------------------------------------
(* What a step of one thread has to show.                                  *)

(* The other threads stay where they are. *)
Others(t) ==
  \A u \in Thread \ {t} : /\ pc'[u] = pc[u] /\ ptr'[u] = ptr[u]
                          /\ fresh'[u] = fresh[u] /\ inCma'[u] = inCma[u]

(* No other thread has to find the chunk as it is. *)
NobodyElse(t, p) == \A u \in Thread \ {t} : ~Entering(u, p) /\ ~Opened(u, p)

GuardStep(t, p) ==
  /\ (info'[p] = info[p] /\ shadow'[p] = shadow[p]) \/ NobodyElse(t, p)
  /\ prog'[p] # "unknown" => info'[p] # Untracked
  /\ prog'[p] = "live" => Whole(p)'
  /\ Entering(t, p)' => Whole(p)'
  /\ Opened(t, p)' => info'[p].status = "IN_REALLOC"
  /\ prog'[p] = "dangling" =>
       Settled(p)' \/ Away(t, p)' \/ \E u \in Thread \ {t} : Away(u, p)

LEMMA StepGuarded ==
  ASSUME Guarded, NEW t \in Thread, Others(t), Placed(t)',
         \A p \in Ptr : GuardStep(t, p)
  PROVE  Guarded'
<1>1. \A u \in Thread \ {t}, p \in Ptr :
        /\ Entering(u, p)' <=> Entering(u, p)
        /\ Opened(u, p)' <=> Opened(u, p)
        /\ Away(u, p)' <=> Away(u, p)
  BY DEF Others, Entering, Opened, Away
<1>2. \A u \in Thread \ {t} : Placed(u)'
  BY DEF Others, Guarded, Placed, Alone
<1>3. \A u \in Thread \ {t}, p \in Ptr :
        /\ Entering(u, p)' => Whole(p)'
        /\ Opened(u, p)' => info'[p].status = "IN_REALLOC"
  BY <1>1 DEF GuardStep, NobodyElse, Guarded, Whole
<1>4. \A u \in Thread : Placed(u)'
  BY <1>2
<1>5. \A u \in Thread, p \in Ptr :
        /\ Entering(u, p)' => Whole(p)'
        /\ Opened(u, p)' => info'[p].status = "IN_REALLOC"
  BY <1>3 DEF GuardStep
<1>6. \A p \in Ptr : /\ prog'[p] # "unknown" => info'[p] # Untracked
                     /\ prog'[p] = "live" => Whole(p)'
  BY DEF GuardStep
<1>7. \A p \in Ptr : prog'[p] = "dangling" =>
        Settled(p)' \/ \E u \in Thread : Away(u, p)'
  BY <1>1 DEF GuardStep
<1> QED BY <1>4, <1>5, <1>6, <1>7 DEF Guarded

(* An address that the step does not change. *)
LEMMA UntouchedGuarded ==
  ASSUME Guarded, NEW t \in Thread
  PROVE  \A q \in Ptr :
           /\ info'[q] = info[q] /\ shadow'[q] = shadow[q] /\ prog'[q] = prog[q]
           /\ ptr[t] # q /\ ptr'[t] # q
           => GuardStep(t, q)
<1> SUFFICES ASSUME NEW q \in Ptr,
                    info'[q] = info[q], shadow'[q] = shadow[q],
                    prog'[q] = prog[q], ptr[t] # q, ptr'[t] # q
             PROVE  GuardStep(t, q)
  OBVIOUS
<1>1. ~Entering(t, q)' /\ ~Opened(t, q)' /\ ~Away(t, q)
  BY DEF Entering, Opened, Away
<1>2. prog[q] = "dangling" => Settled(q) \/ \E u \in Thread \ {t} : Away(u, q)
  BY <1>1 DEF Guarded
<1>3. (Whole(q)' <=> Whole(q)) /\ (Settled(q)' <=> Settled(q))
  BY DEF Whole, Settled
<1> QED BY <1>1, <1>2, <1>3 DEF GuardStep, Guarded

(* A thread that holds an address is alone with it. *)
LEMMA NobodyElseHolds ==
  ASSUME CustodyInv, NEW t \in Thread, NEW p \in Ptr, Holds(t, p)
  PROVE  NobodyElse(t, p)
<1>1. \A u \in Thread : Entering(u, p) \/ Opened(u, p) => Holds(u, p)
  BY DEF Entering, Opened, Holds, Freeing, Reallocating
<1>2. \A u \in Thread : Holds(u, p) => u = t
  BY DEF CustodyInv, Custody, HeldOnce
<1> QED BY <1>1, <1>2 DEF NobodyElse

(* The thread in a FREE or a REALLOC holds the pointer it was called with. *)
LEMMA HoldsPtr ==
  ASSUME CustodyInv, NEW t \in Thread, pc[t] \in Freeing \cup Reallocating,
         ptr[t] \in Ptr
  PROVE  /\ Holds(t, ptr[t]) /\ NobodyElse(t, ptr[t])
         /\ prog[ptr[t]] # "live" /\ owner[ptr[t]] = zid[t]
         /\ pc[t] \in Freeing => prog[ptr[t]] = "dangling"
<1>1. Holds(t, ptr[t])
  BY DEF Holds
<1>2. prog[ptr[t]] # "live" /\ owner[ptr[t]] = zid[t]
  BY <1>1 DEF CustodyInv, Custody, HeldOnce
<1>3. pc[t] \in Freeing => prog[ptr[t]] = "dangling"
  BY DEF CustodyInv, Custody, HeldOnce
<1> QED BY <1>1, <1>2, <1>3, NobodyElseHolds

LEMMA WholeIsNotFreed ==
  ASSUME NEW p \in Ptr, Whole(p)
  PROVE  info[p] # Untracked /\ \A id : ~FreedBefore(p, id)
BY DEF Whole, Untracked, FreedBefore

(* The function returns to the program. *)
LEMMA Returned ==
  ASSUME CustodyInv, NEW t \in Thread, Return(t), ~inCma[t] \/ fresh[t] = NoPtr
  PROVE  /\ Others(t) /\ Placed(t)'
         /\ pc'[t] = "idle" /\ ptr'[t] = NoPtr /\ fresh'[t] = NoPtr /\ ~inCma'[t]
<1>1. /\ pc'[t] = "idle" /\ ptr'[t] = NoPtr /\ fresh'[t] = NoPtr
      /\ inCma'[t] = FALSE
  BY DEF Return, Goto, CustodyInv, TypeInv, TypeOK
<1>2. Others(t)
  BY DEF Return, Goto, CustodyInv, TypeInv, TypeOK, Others
<1>3. Placed(t)'
  BY <1>1 DEF Placed, Freeing
<1> QED BY <1>1, <1>2, <1>3
-----------------------------------------------------------------------------
LEMMA InitGuarded == Init => Guarded
<1> SUFFICES ASSUME Init PROVE Guarded
  OBVIOUS
<1>1. /\ \A t \in Thread : /\ pc[t] = "idle" /\ ptr[t] = NoPtr
                           /\ fresh[t] = NoPtr /\ ~inCma[t]
      /\ \A p \in Ptr : prog[p] = "unknown"
  BY DEF Init
<1>2. \A t \in Thread : Placed(t)
  BY <1>1 DEF Placed, Freeing
<1>3. \A t \in Thread, p \in Ptr : ~Entering(t, p) /\ ~Opened(t, p)
  BY <1>1 DEF Entering, Opened
<1> QED BY <1>1, <1>2, <1>3 DEF Guarded

LEMMA IdleGuarded ==
  ASSUME CustodyInv, Guarded, NEW t \in Thread, pc[t] = "idle"
  PROVE  ~inCma[t] /\ fresh[t] = NoPtr /\ ptr[t] = NoPtr
BY DEF CustodyInv, TypeInv, Located, Guarded, Placed

LEMMA CmaAllocGuarded ==
  ASSUME CustodyInv, Guarded, NEW t \in Thread, NEW id \in Id, NEW p \in Ptr,
         CmaAlloc(t, id, p)
  PROVE  Guarded'
<1>1. /\ pc[t] = "idle" /\ pc' = [pc EXCEPT ![t] = "allocate"]
      /\ fresh' = [fresh EXCEPT ![t] = p]
      /\ UNCHANGED <<info, shadow, ptr, inCma, prog>>
  BY DEF CmaAlloc, Goto, runtime
<1>2. ~inCma[t] /\ fresh[t] = NoPtr /\ ptr[t] = NoPtr /\ NoPtr \notin Ptr
  BY <1>1, IdleGuarded, RuntimeAssumption
<1>3. Others(t)
  BY <1>1 DEF CustodyInv, TypeInv, TypeOK, Others
<1>4. pc'[t] = "allocate"
  BY <1>1 DEF CustodyInv, TypeInv, TypeOK
<1>5. Placed(t)'
  BY <1>1, <1>2, <1>4 DEF Placed, Freeing
<1>6. \A q \in Ptr : GuardStep(t, q)
  BY <1>1, <1>2, UntouchedGuarded
<1> QED BY <1>3, <1>5, <1>6, StepGuarded

(* The hook at the end of ALLOC: nobody else has the address. *)
LEMMA AllocateGuarded ==
  ASSUME GuardAssumption, CustodyInv, Guarded, NEW t \in Thread,
         AllocateCMAChunk(t)
  PROVE  Guarded'
<1>0. PICK p : p = fresh[t]
  OBVIOUS
<1>1. /\ pc[t] = "allocate" /\ Return(t)
      /\ prog' = [prog EXCEPT ![p] = "live"]
      /\ info' = [info EXCEPT ![p] = [status |-> "ALLOCATED", id |-> zid[t]]]
      /\ shadow' = [shadow EXCEPT ![p] = "chunk"]
  BY <1>0 DEF AllocateCMAChunk, AllocateImpl, GuardAssumption
<1>2. p \in Ptr /\ Holds(t, p) /\ ptr[t] = NoPtr /\ NoPtr \notin Ptr
  BY <1>0, <1>1, RuntimeAssumption DEF CustodyInv, TypeInv, TypeOK, Located, Holds
<1>3. ~inCma[t]
  BY <1>1 DEF Guarded, Placed
<1>4. /\ Others(t) /\ Placed(t)'
      /\ pc'[t] = "idle" /\ ptr'[t] = NoPtr
  BY <1>1, <1>3, Returned
<1>5. /\ info'[p] = [status |-> "ALLOCATED", id |-> zid[t]]
      /\ shadow'[p] = "chunk" /\ prog'[p] = "live"
      /\ \A q \in Ptr \ {p} : /\ info'[q] = info[q] /\ shadow'[q] = shadow[q]
                              /\ prog'[q] = prog[q]
  BY <1>1, <1>2 DEF CustodyInv, TypeInv, TypeOK
<1>6. GuardStep(t, p)
  <2>1. NobodyElse(t, p)
    BY <1>2, NobodyElseHolds
  <2>2. Whole(p)' /\ info'[p] # Untracked
    BY <1>5 DEF Whole, Untracked
  <2>3. ~Entering(t, p)' /\ ~Opened(t, p)'
    BY <1>2, <1>4 DEF Entering, Opened
  <2> QED BY <1>5, <2>1, <2>2, <2>3 DEF GuardStep
<1>7. \A q \in Ptr \ {p} : GuardStep(t, q)
  BY <1>2, <1>4, <1>5, UntouchedGuarded
<1> QED BY <1>4, <1>6, <1>7, StepGuarded

LEMMA FreeCallGuarded ==
  ASSUME CustodyInv, Guarded, NEW t \in Thread, NEW id \in Id, NEW p \in Ptr,
         FreeCall(t, p, id)
  PROVE  Guarded'
<1>1. /\ pc[t] = "idle" /\ prog[p] = "live"
      /\ \E l \in {"freeFast", "freeSlow"} : pc' = [pc EXCEPT ![t] = l]
      /\ ptr' = [ptr EXCEPT ![t] = p]
      /\ prog' = [prog EXCEPT ![p] = "dangling"]
      /\ UNCHANGED <<info, shadow, fresh, inCma>>
  BY DEF FreeCall, MayPass, Goto, runtime, CustodyInv
<1>2. ~inCma[t] /\ fresh[t] = NoPtr /\ ptr[t] = NoPtr /\ NoPtr \notin Ptr
  BY <1>1, IdleGuarded, RuntimeAssumption
<1>3. Others(t) /\ pc'[t] \in {"freeFast", "freeSlow"} /\ ptr'[t] = p
  BY <1>1 DEF CustodyInv, TypeInv, TypeOK, Others
<1>4. Placed(t)'
  BY <1>1, <1>2, <1>3 DEF Placed, Freeing
<1>5. /\ prog'[p] = "dangling"
      /\ \A q \in Ptr \ {p} : prog'[q] = prog[q]
  BY <1>1 DEF CustodyInv, TypeInv, TypeOK
<1>6. GuardStep(t, p)
  <2>1. Whole(p)' /\ info[p] # Untracked
    BY <1>1 DEF Guarded, Whole
  <2>2. ~Opened(t, p)' /\ Away(t, p)'
    BY <1>1, <1>2, <1>3 DEF Opened, Away
  <2> QED BY <1>1, <1>5, <2>1, <2>2 DEF GuardStep
<1>7. \A q \in Ptr \ {p} : GuardStep(t, q)
  BY <1>1, <1>2, <1>3, <1>5, UntouchedGuarded
<1> QED BY <1>3, <1>4, <1>6, <1>7, StepGuarded

LEMMA ReallocCallGuarded ==
  ASSUME CustodyInv, Guarded, NEW t \in Thread, NEW id \in Id,
         NEW p \in Ptr \cup {NoPtr}, ReallocCall(t, p, id)
  PROVE  Guarded'
<1>1. /\ pc[t] = "idle" /\ "REALLOC" \in Api
      /\ pc' = [pc EXCEPT ![t] = "reStart"]
      /\ ptr' = [ptr EXCEPT ![t] = p]
      /\ UNCHANGED <<info, shadow, fresh, inCma>>
      /\ \/ p = NoPtr /\ prog' = prog
         \/ /\ p \in Ptr /\ prog[p] = "live"
            /\ prog' = [prog EXCEPT ![p] = "moving"]
  BY DEF ReallocCall, MayPass, Goto, runtime, CustodyInv
<1>2. ~inCma[t] /\ fresh[t] = NoPtr /\ ptr[t] = NoPtr /\ NoPtr \notin Ptr
  BY <1>1, IdleGuarded, RuntimeAssumption
<1>3. Others(t) /\ pc'[t] = "reStart" /\ ptr'[t] = p
  BY <1>1 DEF CustodyInv, TypeInv, TypeOK, Others
<1>4. Placed(t)'
  BY <1>1, <1>2, <1>3 DEF Placed, Freeing
<1>5. \A q \in Ptr \ {p} : prog'[q] = prog[q]
  BY <1>1 DEF CustodyInv, TypeInv, TypeOK
<1>6. ASSUME p \in Ptr PROVE GuardStep(t, p)
  <2>1. prog[p] = "live" /\ prog'[p] = "moving"
    BY <1>1, <1>2, <1>6 DEF CustodyInv, TypeInv, TypeOK
  <2>2. Whole(p)' /\ info[p] # Untracked
    BY <1>1, <1>6, <2>1 DEF Guarded, Whole
  <2>3. ~Opened(t, p)'
    BY <1>3 DEF Opened
  <2> QED BY <1>1, <2>1, <2>2, <2>3 DEF GuardStep
<1>7. \A q \in Ptr \ {p} : GuardStep(t, q)
  BY <1>1, <1>2, <1>3, <1>5, UntouchedGuarded
<1> QED BY <1>3, <1>4, <1>6, <1>7, StepGuarded
-----------------------------------------------------------------------------
(* FREE.                                                                   *)

(* The first critical section: a chunk in reallocation is released without *)
(* poison, any other is left to the second critical section.               *)
LEMMA ReleaseInReallocGuarded ==
  ASSUME CustodyInv, Guarded, NEW t \in Thread, ReleaseInRealloc(t)
  PROVE  Guarded'
<1>0. PICK p : p = ptr[t]
  OBVIOUS
<1>1. /\ pc[t] = "freeFast" /\ pc[t] \in Freeing /\ p \in Ptr
      /\ UNCHANGED <<shadow, ptr, fresh, inCma, prog>>
  BY <1>0 DEF ReleaseInRealloc, CustodyInv, TypeInv, TypeOK, Located, Freeing
<1>2. NobodyElse(t, p) /\ prog[p] = "dangling"
  BY <1>0, <1>1, HoldsPtr
<1>3. inCma[t] => info[p].status = "IN_REALLOC"
  BY <1>0, <1>1 DEF Guarded, Opened
<1>4. \/ /\ info[p].status # "IN_REALLOC" /\ ~inCma[t]
         /\ pc' = [pc EXCEPT ![t] = "freeSlow"] /\ info' = info
      \/ /\ info[p].status = "IN_REALLOC"
         /\ info' = [info EXCEPT ![p].status = "DEALLOCATED"]
         /\ \E l \in {"shrink", "cmaFree"} : pc' = [pc EXCEPT ![t] = l]
  BY <1>0, <1>3 DEF ReleaseInRealloc, PushAndPop, LeaveWith, Goto
<1>5. /\ Others(t) /\ pc'[t] \in {"freeSlow", "shrink", "cmaFree"}
      /\ inCma[t] => pc'[t] \in {"shrink", "cmaFree"}
  BY <1>1, <1>3, <1>4 DEF CustodyInv, TypeInv, TypeOK, Others
<1>6. Placed(t)'
  <2>1. Placed(t) /\ ptr[t] # NoPtr
    BY <1>0, <1>1, RuntimeAssumption DEF Guarded
  <2> QED BY <1>1, <1>5, <2>1 DEF Placed, Freeing
<1>7. GuardStep(t, p)
  <2>1. CASE info[p].status # "IN_REALLOC"
    <3>1. /\ ~inCma[t] /\ info' = info /\ pc'[t] = "freeSlow"
      BY <1>4, <2>1 DEF CustodyInv, TypeInv, TypeOK
    <3>2. Whole(p)' /\ info[p] # Untracked
      BY <1>0, <1>1, <1>2, <3>1 DEF Guarded, Entering, Whole
    <3>3. Away(t, p)' /\ ~Opened(t, p)'
      BY <1>0, <1>1, <3>1 DEF Away, Opened
    <3> QED BY <1>1, <1>2, <3>1, <3>2, <3>3 DEF GuardStep
  <2>2. CASE info[p].status = "IN_REALLOC"
    <3>1. info'[p].status = "DEALLOCATED" /\ pc'[t] \in {"shrink", "cmaFree"}
      <4>1. info' = [info EXCEPT ![p].status = "DEALLOCATED"]
        BY <1>4, <2>2
      <4>2. info[p] \in [status : Status, id : Id]
        BY <1>1, <2>2 DEF CustodyInv, TypeInv, TypeOK, Info, Untracked
      <4>3. info'[p] = [info[p] EXCEPT !.status = "DEALLOCATED"]
        BY <1>1, <4>1 DEF CustodyInv, TypeInv, TypeOK
      <4>4. info'[p].status = "DEALLOCATED"
        BY <4>2, <4>3
      <4> QED BY <1>4, <2>2, <4>4 DEF CustodyInv, TypeInv, TypeOK
    <3>2. ~Entering(t, p)' /\ ~Opened(t, p)' /\ info'[p] # Untracked
      BY <3>1 DEF Entering, Opened, Untracked
    <3>3. Settled(p)' \/ Away(t, p)'
      <4>1. ASSUME fresh[t] = NoPtr PROVE Kinds \cap {"fail", "zero"} # {}
        <5>1. CASE inCma[t]
          BY <4>1, <5>1 DEF Guarded, Placed
        <5>2. CASE ~inCma[t]
          BY <1>0, <1>1, <2>2, <5>2 DEF Guarded, Entering, Whole
        <5> QED BY <5>1, <5>2
      <4> QED BY <1>0, <1>1, <3>1, <4>1 DEF Settled, Away, Poisons
    <3> QED BY <1>1, <1>2, <3>1, <3>2, <3>3 DEF GuardStep
  <2> QED BY <2>1, <2>2
<1>8. \A q \in Ptr \ {p} : info'[q] = info[q]
  BY <1>4 DEF CustodyInv, TypeInv, TypeOK
<1>9. \A q \in Ptr \ {p} : GuardStep(t, q)
  BY <1>0, <1>1, <1>8, UntouchedGuarded
<1> QED BY <1>5, <1>6, <1>7, <1>9, StepGuarded

(* The second critical section finds the record as ALLOC has left it, or a *)
(* REALLOC that has failed.                                                *)
LEMMA ReleaseGuarded ==
  ASSUME CustodyInv, Guarded, NEW t \in Thread, Release(t)
  PROVE  Guarded'
<1>0. PICK p : p = ptr[t]
  OBVIOUS
<1>1. /\ pc[t] = "freeSlow" /\ pc[t] \in Freeing /\ p \in Ptr
      /\ UNCHANGED <<ptr, fresh, inCma, prog>>
  BY <1>0 DEF Release, CustodyInv, TypeInv, TypeOK, Located, Freeing
<1>2. NobodyElse(t, p) /\ prog[p] = "dangling"
  BY <1>0, <1>1, HoldsPtr
<1>3. ~inCma[t] /\ fresh[t] = NoPtr
  BY <1>1 DEF Guarded, Placed
<1>4. Whole(p)
  BY <1>0, <1>1, <1>3 DEF Guarded, Entering
<1>5. /\ info' = [info EXCEPT ![p] = [status |-> "DEALLOCATED", id |-> zid[t]]]
      /\ shadow' = [shadow EXCEPT ![p] = "freed"]
      /\ \E l \in {"shrink", "cmaFree"} : pc' = [pc EXCEPT ![t] = l]
  BY <1>0, <1>1, <1>4, WholeIsNotFreed
  DEF Release, Released, Poisoned, PushAndPop, LeaveWith, Goto
<1>6. Others(t) /\ pc'[t] \in {"shrink", "cmaFree"}
  BY <1>1, <1>5 DEF CustodyInv, TypeInv, TypeOK, Others
<1>7. Placed(t)'
  BY <1>1, <1>3, <1>6 DEF Placed, Freeing
<1>8. /\ info'[p] = [status |-> "DEALLOCATED", id |-> zid[t]]
      /\ shadow'[p] = "freed"
      /\ \A q \in Ptr \ {p} : info'[q] = info[q] /\ shadow'[q] = shadow[q]
  BY <1>1, <1>5 DEF CustodyInv, TypeInv, TypeOK
<1>9. GuardStep(t, p)
  <2>1. ~Entering(t, p)' /\ ~Opened(t, p)'
    BY <1>6 DEF Entering, Opened
  <2>2. Settled(p)' /\ info'[p] # Untracked
    BY <1>8 DEF Settled, Untracked
  <2> QED BY <1>1, <1>2, <2>1, <2>2 DEF GuardStep
<1>10. \A q \in Ptr \ {p} : GuardStep(t, q)
  BY <1>0, <1>1, <1>8, UntouchedGuarded
<1> QED BY <1>6, <1>7, <1>9, <1>10, StepGuarded

(* The loop of popPtrIfMax and a collection leave the chunks alone. *)
LEMMA LaterGuarded ==
  ASSUME CustodyInv, Guarded, NEW t \in Thread,
         \/ Shrink(t) \/ CmaCollect(t)
         \/ \E id \in Id : EmptyQuarantineOnGC(t, id)
  PROVE  Guarded'
<1>1. UNCHANGED <<info, shadow, prog, ptr, fresh, inCma>>
  <2>1. CASE CmaCollect(t)
    <3>1. ptr[t] = NoPtr /\ fresh[t] = NoPtr /\ inCma[t] = FALSE
      BY <2>1
      DEF CmaCollect, Guarded, Placed, CustodyInv, TypeInv, TypeOK, Located
    <3> QED
      BY <2>1, <3>1
      DEF CmaCollect, Return, runtime, CustodyInv, TypeInv, TypeOK
  <2> QED
    BY <2>1 DEF Shrink, EmptyQuarantineOnGC
<1>2. \/ UNCHANGED pc
      \/ pc[t] = "shrink" /\ pc' = [pc EXCEPT ![t] = "cmaFree"]
      \/ pc[t] = "idle" /\ pc' = [pc EXCEPT ![t] = "collect"]
      \/ pc[t] = "collect" /\ pc' = [pc EXCEPT ![t] = "idle"]
  BY DEF Shrink, LeaveWith, Goto, EmptyQuarantineOnGC, CmaCollect, Return
<1>3. /\ Others(t)
      /\ \/ UNCHANGED pc
         \/ pc[t] = "shrink" /\ pc'[t] = "cmaFree"
         \/ /\ pc'[t] \in {"idle", "collect"} /\ pc[t] \in {"idle", "collect"}
            /\ fresh[t] = NoPtr
  BY <1>1, <1>2 DEF CustodyInv, TypeInv, TypeOK, Located, Others
<1>4. Placed(t)'
  BY <1>1, <1>3 DEF Guarded, Placed, Freeing
<1>5. \A q \in Ptr : /\ Entering(t, q)' => Entering(t, q)
                     /\ Opened(t, q)' => Opened(t, q)
                     /\ Away(t, q) => Away(t, q)'
                     /\ Whole(q)' <=> Whole(q)
                     /\ Settled(q)' <=> Settled(q)
  BY <1>1, <1>3 DEF Entering, Opened, Away, Whole, Settled
<1>6. \A q \in Ptr : GuardStep(t, q)
  BY <1>1, <1>5 DEF GuardStep, Guarded
<1> QED BY <1>3, <1>4, <1>6, StepGuarded

(* The body of FREE: either the thread is still to close the chunk, in a   *)
(* REALLOC that goes on, or it has closed it.                              *)
LEMMA CmaFreeGuarded ==
  ASSUME CustodyInv, Guarded, NEW t \in Thread, CmaFree(t)
  PROVE  Guarded'
<1>1. pc[t] = "cmaFree" /\ UNCHANGED <<info, shadow, prog>>
  BY DEF CmaFree, runtime
<1>2. CASE inCma[t] /\ fresh[t] # NoPtr
  <2>1. /\ pc' = [pc EXCEPT ![t] = "reEnd"]
        /\ inCma' = [inCma EXCEPT ![t] = FALSE]
        /\ UNCHANGED <<ptr, fresh>>
    BY <1>2 DEF CmaFree, Goto
  <2>2. Others(t) /\ pc'[t] = "reEnd" /\ ~inCma'[t]
    BY <2>1 DEF CustodyInv, TypeInv, TypeOK, Others
  <2>3. Placed(t)'
    BY <1>1, <1>2, <2>1, <2>2 DEF Guarded, Placed, Freeing
  <2>4. \A q \in Ptr : /\ ~Entering(t, q)' /\ ~Opened(t, q)'
                       /\ Away(t, q) => Away(t, q)'
                       /\ Whole(q)' <=> Whole(q)
                       /\ Settled(q)' <=> Settled(q)
    BY <1>1, <1>2, <2>1, <2>2 DEF Entering, Opened, Away, Whole, Settled
  <2>5. \A q \in Ptr : GuardStep(t, q)
    BY <1>1, <2>4 DEF GuardStep, Guarded
  <2> QED BY <2>2, <2>3, <2>5, StepGuarded
<1>3. CASE ~(inCma[t] /\ fresh[t] # NoPtr)
  <2>1. Return(t) /\ fresh[t] = NoPtr
    BY <1>1, <1>3 DEF CmaFree, Guarded, Placed
  <2>2. /\ Others(t) /\ Placed(t)'
        /\ pc'[t] = "idle" /\ ptr'[t] = NoPtr
    BY <2>1, Returned
  <2>3. \A q \in Ptr : /\ ~Entering(t, q)' /\ ~Opened(t, q)' /\ ~Away(t, q)
                       /\ Whole(q)' <=> Whole(q)
                       /\ Settled(q)' <=> Settled(q)
    BY <1>1, <2>1, <2>2 DEF Entering, Opened, Away, Whole, Settled
  <2>4. \A q \in Ptr : GuardStep(t, q)
    BY <1>1, <2>3 DEF GuardStep, Guarded
  <2> QED BY <2>2, <2>4, StepGuarded
<1> QED BY <1>2, <1>3
-----------------------------------------------------------------------------
(* REALLOC.                                                                *)

(* The start hook opens the chunk for the body.                            *)
LEMMA StartGuarded ==
  ASSUME CustodyInv, Guarded, NEW t \in Thread, ReallocateCMAChunkStart(t)
  PROVE  Guarded'
<1>0. PICK p : p = ptr[t]
  OBVIOUS
<1>1. /\ pc[t] = "reStart" /\ pc[t] \in Freeing \cup Reallocating
      /\ UNCHANGED <<ptr, fresh, inCma, prog>>
      /\ p \in Ptr \cup {NoPtr} /\ NoPtr \notin Ptr
      /\ ~inCma[t] /\ fresh[t] = NoPtr /\ "REALLOC" \in Api
  BY <1>0, RuntimeAssumption
  DEF ReallocateCMAChunkStart, CustodyInv, TypeInv, TypeOK, Located, Guarded,
      Placed, Reallocating
<1>2. p \in Ptr => Whole(p)
  BY <1>0, <1>1 DEF Guarded, Entering
<1>3. /\ pc' = [pc EXCEPT ![t] = "reBody"]
      /\ p = NoPtr => UNCHANGED <<info, shadow>>
      /\ p \in Ptr => OpenForRealloc(p)
  BY <1>0, <1>1, <1>2, WholeIsNotFreed
  DEF ReallocateCMAChunkStart, TltGet, Untracked, Goto
<1>4. Others(t) /\ pc'[t] = "reBody"
  BY <1>1, <1>3 DEF CustodyInv, TypeInv, TypeOK, Others
<1>5. Placed(t)'
  BY <1>1, <1>4 DEF Placed, Freeing
<1>6. \A q \in Ptr \ {p} : info'[q] = info[q] /\ shadow'[q] = shadow[q]
  BY <1>1, <1>3 DEF OpenForRealloc, CustodyInv, TypeInv, TypeOK
<1>7. ASSUME p \in Ptr PROVE GuardStep(t, p)
  <2>1. NobodyElse(t, p) /\ prog[p] # "live"
    BY <1>0, <1>1, <1>7, HoldsPtr
  <2>2. info'[p].status = "IN_REALLOC"
    <3>1. info[p] \in [status : Status, id : Id]
      BY <1>2, <1>7, WholeIsNotFreed DEF CustodyInv, TypeInv, TypeOK, Info
    <3>2. info'[p] = [info[p] EXCEPT !.status = "IN_REALLOC"]
      BY <1>3, <1>7 DEF OpenForRealloc, CustodyInv, TypeInv, TypeOK
    <3> QED BY <3>1, <3>2
  <2>3. ~Entering(t, p)' /\ Away(t, p)' /\ info'[p] # Untracked
    BY <1>0, <1>1, <1>4, <2>2 DEF Entering, Away, Untracked
  <2> QED BY <1>1, <2>1, <2>2, <2>3 DEF GuardStep
<1>8. \A q \in Ptr \ {p} : GuardStep(t, q)
  BY <1>0, <1>1, <1>6, UntouchedGuarded
<1> QED BY <1>4, <1>5, <1>7, <1>8, StepGuarded

(* The body stays on the chunk, or finds no memory. *)
LEMMA StayGuarded ==
  ASSUME CustodyInv, Guarded, NEW t \in Thread,
         CmaReallocInPlace(t) \/ CmaReallocFail(t)
  PROVE  Guarded'
<1>1. /\ pc[t] = "reBody" /\ pc' = [pc EXCEPT ![t] = "reEnd"]
      /\ UNCHANGED <<info, shadow, ptr, inCma, prog>>
      /\ \/ fresh' = [fresh EXCEPT ![t] = ptr[t]]
         \/ fresh' = fresh /\ ("fail" \in ReallocKinds \/ ptr[t] = NoPtr)
  BY DEF CmaReallocInPlace, CmaReallocFail, Goto, runtime
<1>2. ~inCma[t] /\ fresh[t] = NoPtr /\ "REALLOC" \in Api
  BY <1>1 DEF CustodyInv, TypeInv, Located, Reallocating, Guarded, Placed
<1>3. /\ Others(t) /\ pc'[t] = "reEnd"
      /\ \/ fresh'[t] = ptr[t]
         \/ fresh'[t] = NoPtr /\ ("fail" \in Kinds \/ ptr[t] = NoPtr)
  BY <1>1, <1>2 DEF CustodyInv, TypeInv, TypeOK, Others, Kinds
<1>4. Placed(t)'
  BY <1>1, <1>2, <1>3 DEF Placed, Freeing
<1>5. \A q \in Ptr : /\ ~Entering(t, q)'
                     /\ Opened(t, q)' => Opened(t, q)
                     /\ Away(t, q) => Away(t, q)'
                     /\ Whole(q)' <=> Whole(q)
                     /\ Settled(q)' <=> Settled(q)
  BY <1>1, <1>3 DEF Entering, Opened, Away, Whole, Settled
<1>6. \A q \in Ptr : GuardStep(t, q)
  BY <1>1, <1>5 DEF GuardStep, Guarded
<1> QED BY <1>3, <1>4, <1>6, StepGuarded

(* The body calls FREE on the chunk.                                       *)
LEMMA CallFreeGuarded ==
  ASSUME GuardAssumption, CustodyInv, Guarded, NEW t \in Thread,
         CmaReallocZero(t) \/ \E q \in Ptr : CmaReallocMove(t, q)
  PROVE  Guarded'
<1>0. PICK p : p = ptr[t]
  OBVIOUS
<1>1. /\ pc[t] = "reBody" /\ pc[t] \in Freeing \cup Reallocating /\ p \in Ptr
      /\ UNCHANGED <<info, shadow, ptr>>
      /\ CallFree(t) /\ p # NoPtr
  BY <1>0, RuntimeAssumption
  DEF CmaReallocZero, CmaReallocMove, runtime, CustodyInv, TypeInv, TypeOK,
      Reallocating
<1>2. fresh[t] = NoPtr /\ "REALLOC" \in Api
  BY <1>1 DEF CustodyInv, TypeInv, Located, Reallocating, Guarded, Placed
<1>3. /\ inCma' = [inCma EXCEPT ![t] = TRUE]
      /\ prog' = [prog EXCEPT ![p] = "dangling"]
      /\ \/ pc' = [pc EXCEPT ![t] = "freeFast"]
         \/ ~QuarantineOn /\ pc' = [pc EXCEPT ![t] = "cmaFree"]
  BY <1>0, <1>1 DEF CallFree, Goto
<1>4. \/ fresh' = fresh /\ "zero" \in Kinds
      \/ \E q \in Ptr : fresh' = [fresh EXCEPT ![t] = q] /\ Alone
  BY <1>2 DEF CmaReallocZero, CmaReallocMove, Kinds, GuardAssumption
<1>5. /\ Others(t) /\ inCma'[t] = TRUE
      /\ pc'[t] = "freeFast" \/ (~QuarantineOn /\ pc'[t] = "cmaFree")
      /\ \/ fresh'[t] = NoPtr /\ "zero" \in Kinds
         \/ fresh'[t] # NoPtr /\ Alone
  <2>1. \A u \in Thread \ {t} : fresh'[u] = fresh[u]
    BY <1>4 DEF CustodyInv, TypeInv, TypeOK
  <2>2. \/ fresh'[t] = NoPtr /\ "zero" \in Kinds
        \/ fresh'[t] # NoPtr /\ Alone
    BY <1>2, <1>4, RuntimeAssumption DEF CustodyInv, TypeInv, TypeOK
  <2>3. \A u \in Thread \ {t} : pc'[u] = pc[u] /\ inCma'[u] = inCma[u]
    BY <1>3 DEF CustodyInv, TypeInv, TypeOK
  <2>4. /\ inCma'[t] = TRUE
        /\ pc'[t] = "freeFast" \/ (~QuarantineOn /\ pc'[t] = "cmaFree")
    BY <1>3 DEF CustodyInv, TypeInv, TypeOK
  <2> QED BY <1>1, <2>1, <2>2, <2>3, <2>4 DEF Others
<1>6. /\ prog'[p] = "dangling"
      /\ \A q \in Ptr \ {p} : prog'[q] = prog[q]
  BY <1>1, <1>3 DEF CustodyInv, TypeInv, TypeOK
<1>7. Placed(t)'
  BY <1>0, <1>1, <1>5, <1>6 DEF Placed, Freeing, Alone
<1>8. GuardStep(t, p)
  <2>1. info[p].status = "IN_REALLOC" /\ info[p] # Untracked
    BY <1>0, <1>1 DEF Guarded, Opened, Untracked
  <2>2. ~Entering(t, p)'
    BY <1>5 DEF Entering
  <2>3. Settled(p)' \/ Away(t, p)'
    BY <1>0, <1>1, <1>5 DEF Settled, Away, Poisons
  <2> QED BY <1>1, <1>6, <2>1, <2>2, <2>3 DEF GuardStep
<1>9. \A q \in Ptr \ {p} : GuardStep(t, q)
  BY <1>0, <1>1, <1>6, UntouchedGuarded
<1> QED BY <1>5, <1>7, <1>8, <1>9, StepGuarded

(* The body recycles the chunk without FREE.                               *)
LEMMA MoveDirectGuarded ==
  ASSUME GuardAssumption, CustodyInv, Guarded, NEW t \in Thread,
         NEW q \in Ptr, CmaReallocMoveDirect(t, q)
  PROVE  Guarded'
<1>0. PICK p : p = ptr[t]
  OBVIOUS
<1>1. /\ pc[t] = "reBody" /\ pc' = [pc EXCEPT ![t] = "reEnd"]
      /\ fresh' = [fresh EXCEPT ![t] = q]
      /\ UNCHANGED <<info, shadow, ptr, inCma>>
      /\ prog' = [r \in Ptr |-> IF r = p THEN "dangling" ELSE prog[r]]
      /\ "direct" \in ReallocKinds
  BY <1>0 DEF CmaReallocMoveDirect, Goto, runtime
<1>2. ~inCma[t] /\ "REALLOC" \in Api /\ q # NoPtr
  BY <1>1, RuntimeAssumption DEF Guarded, Placed
<1>3. Alone
  BY <1>1, <1>2 DEF GuardAssumption, Kinds
<1>4. Others(t) /\ pc'[t] = "reEnd" /\ fresh'[t] = q
  BY <1>1 DEF CustodyInv, TypeInv, TypeOK, Others
<1>5. \A r \in Ptr : prog'[r] = IF r = p THEN "dangling" ELSE prog[r]
  BY <1>1
<1>6. p \in Ptr \cup {NoPtr}
  BY <1>0 DEF CustodyInv, TypeInv, TypeOK
<1>7. Placed(t)'
  BY <1>0, <1>1, <1>2, <1>3, <1>4, <1>5, <1>6 DEF Placed, Freeing, Alone
<1>8. ASSUME p \in Ptr PROVE GuardStep(t, p)
  <2>1. info[p].status = "IN_REALLOC" /\ info[p] # Untracked
    BY <1>0, <1>1, <1>8 DEF Guarded, Opened, Untracked
  <2>2. ~Entering(t, p)' /\ Away(t, p)'
    BY <1>0, <1>1, <1>2, <1>4 DEF Entering, Away
  <2> QED BY <1>1, <1>5, <1>8, <2>1, <2>2 DEF GuardStep
<1>9. \A r \in Ptr \ {p} : GuardStep(t, r)
  BY <1>0, <1>1, <1>5, UntouchedGuarded
<1> QED BY <1>4, <1>7, <1>8, <1>9, StepGuarded

(* The last hook of a REALLOC that has failed: the program has the chunk   *)
(* again, with the record the first hook has given it.                     *)
LEMMA EndNullGuarded ==
  ASSUME CustodyInv, Guarded, NEW t \in Thread, ReallocateEndNull(t)
  PROVE  Guarded'
<1>0. PICK p : p = ptr[t]
  OBVIOUS
<1>1. /\ pc[t] = "reEnd" /\ fresh[t] = NoPtr /\ Return(t)
      /\ UNCHANGED <<info, shadow>>
      /\ prog' = [q \in Ptr |-> IF q = p THEN "live" ELSE prog[q]]
  BY <1>0 DEF ReallocateEndNull, runtime
<1>2. Others(t) /\ Placed(t)' /\ ptr'[t] = NoPtr /\ NoPtr \notin Ptr
  BY <1>1, Returned, RuntimeAssumption
<1>3. \A q \in Ptr : prog'[q] = IF q = p THEN "live" ELSE prog[q]
  BY <1>1
<1>4. ASSUME p \in Ptr PROVE GuardStep(t, p)
  <2>1. info[p].status = "IN_REALLOC"
    BY <1>0, <1>1, <1>4 DEF Guarded, Opened
  <2>2. "fail" \in Kinds
    BY <1>0, <1>1, <1>2, <1>4 DEF Guarded, Placed
  <2>3. Whole(p)' /\ info'[p] # Untracked
    BY <1>1, <2>1, <2>2 DEF Whole, Untracked
  <2>4. ~Entering(t, p)' /\ ~Opened(t, p)'
    BY <1>2, <1>4 DEF Entering, Opened
  <2> QED BY <1>1, <1>3, <1>4, <2>3, <2>4 DEF GuardStep
<1>5. \A q \in Ptr \ {p} : GuardStep(t, q)
  BY <1>0, <1>1, <1>2, <1>3, UntouchedGuarded
<1> QED BY <1>2, <1>4, <1>5, StepGuarded

(* The last hook otherwise: the old chunk is closed, the new one guarded. *)
LEMMA EndGuarded ==
  ASSUME GuardAssumption, CustodyInv, Guarded, NEW t \in Thread,
         ReallocateCMAChunkEnd(t)
  PROVE  Guarded'
<1>0. PICK p, f : p = ptr[t] /\ f = fresh[t]
  OBVIOUS
<1>1. /\ pc[t] = "reEnd" /\ f \in Ptr /\ p \in Ptr \cup {NoPtr}
      /\ NoPtr \notin Ptr /\ f # NoPtr
      /\ Return(t) /\ ~inCma[t] /\ Holds(t, f)
      /\ prog' = [prog EXCEPT ![f] = "live"]
  <2>1. /\ pc[t] = "reEnd" /\ f # NoPtr /\ Return(t)
        /\ prog' = [prog EXCEPT ![f] = "live"]
    BY <1>0 DEF ReallocateCMAChunkEnd
  <2>2. f \in Ptr /\ p \in Ptr \cup {NoPtr} /\ NoPtr \notin Ptr
    BY <1>0, <2>1, RuntimeAssumption DEF CustodyInv, TypeInv, TypeOK
  <2>3. ~inCma[t]
    BY <2>1 DEF Guarded, Placed
  <2> QED BY <1>0, <2>1, <2>2, <2>3 DEF Holds
<1>2. Others(t) /\ Placed(t)' /\ pc'[t] = "idle" /\ ptr'[t] = NoPtr
  BY <1>1, Returned
<1>3. p # NoPtr /\ p # f => Alone /\ prog[p] = "dangling"
  BY <1>0, <1>1 DEF Guarded, Placed
<1>4. p \in Ptr /\ p # f => info[p] # Untracked
  BY <1>1, <1>3 DEF Guarded
<1>5. /\ info'[f].status = "ALLOCATED" /\ shadow'[f] = "chunk"
      /\ p \in Ptr /\ p # f => /\ info'[p].status = "DEALLOCATED"
                               /\ shadow'[p] = "freed"
      /\ \A q \in Ptr \ {p, f} : info'[q] = info[q] /\ shadow'[q] = shadow[q]
  <2>1. CASE p \in Ptr /\ p # f
    <3>1. /\ info' = [Released(info, p, zid[t]) EXCEPT
                        ![f] = [status |-> "ALLOCATED", id |-> zid[t]]]
          /\ shadow' = [Poisoned(shadow, p) EXCEPT ![f] = "chunk"]
      BY <1>0, <1>1, <1>4, <2>1
      DEF ReallocateCMAChunkEnd, AllocateImpl, TltGet, GuardAssumption
    <3> QED BY <1>1, <2>1, <3>1
        DEF Released, Poisoned, CustodyInv, TypeInv, TypeOK
  <2>2. CASE ~(p \in Ptr /\ p # f)
    <3>1. PICK i : /\ i = info \/ i = [info EXCEPT ![f].status = "DEALLOCATED"]
                   /\ info' = [i EXCEPT
                        ![f] = [status |-> "ALLOCATED", id |-> zid[t]]]
                   /\ shadow' = [shadow EXCEPT ![f] = "chunk"]
      <4>1. p = NoPtr \/ p = f
        BY <1>1, <2>2
      <4>2. p = NoPtr => TltGet(p) = Untracked
        BY DEF TltGet
      <4> QED BY <1>0, <4>1, <4>2
          DEF ReallocateCMAChunkEnd, AllocateImpl, GuardAssumption
    <3>2. /\ DOMAIN i = Ptr
          /\ \A q \in Ptr \ {f} : i[q] = info[q]
      BY <1>1, <3>1 DEF CustodyInv, TypeInv, TypeOK
    <3>3. /\ info'[f] = [status |-> "ALLOCATED", id |-> zid[t]]
          /\ \A q \in Ptr \ {f} : info'[q] = info[q]
      BY <1>1, <3>1, <3>2
    <3>4. /\ shadow'[f] = "chunk"
          /\ \A q \in Ptr \ {f} : shadow'[q] = shadow[q]
      BY <1>1, <3>1 DEF CustodyInv, TypeInv, TypeOK
    <3> QED BY <2>2, <3>3, <3>4
  <2> QED BY <2>1, <2>2
<1>6. prog'[f] = "live" /\ \A q \in Ptr \ {f} : prog'[q] = prog[q]
  BY <1>1 DEF CustodyInv, TypeInv, TypeOK
<1>7. \A q \in Ptr : ~Entering(t, q)' /\ ~Opened(t, q)'
  BY <1>1, <1>2 DEF Entering, Opened
<1>8. GuardStep(t, f)
  <2>1. NobodyElse(t, f)
    BY <1>1, NobodyElseHolds
  <2>2. Whole(f)' /\ info'[f] # Untracked
    BY <1>5 DEF Whole, Untracked
  <2> QED BY <1>1, <1>6, <1>7, <2>1, <2>2 DEF GuardStep
<1>9. ASSUME p \in Ptr, p # f PROVE GuardStep(t, p)
  <2>1. NobodyElse(t, p) /\ prog'[p] = "dangling"
    BY <1>1, <1>3, <1>6, <1>9 DEF NobodyElse, Alone
  <2>2. Settled(p)' /\ info'[p] # Untracked
    BY <1>5, <1>9 DEF Settled, Untracked
  <2> QED BY <1>7, <1>9, <2>1, <2>2 DEF GuardStep
<1>10. \A q \in Ptr \ {p, f} : GuardStep(t, q)
  BY <1>0, <1>1, <1>2, <1>5, <1>6, UntouchedGuarded
<1> QED BY <1>2, <1>8, <1>9, <1>10, StepGuarded
-----------------------------------------------------------------------------
LEMMA UnchangedGuarded ==
  ASSUME Guarded, UNCHANGED vars PROVE Guarded'
BY DEF vars, runtime, hooks, Guarded, Placed, Whole, Settled, Entering, Opened,
       Away

(* CLEAR, without a quarantine: the chunks on the list of the instance     *)
(* become free ones, and no other thread is in a function of the instance. *)
LEMMA ClearGuarded ==
  ASSUME GuardAssumption, InCustody, Guarded, NEW t \in Thread, NEW id \in Id,
         ClearCMAChunks(t, id)
  PROVE  Guarded'
<1>0. /\ CustodyInv /\ ListsServed /\ Served /\ LiveOwned /\ HeldOnce
      /\ ~QuarantineOn /\ ~Poisons
      /\ \A i, j \in Id : i # j => Serves[i] \cap Serves[j] = {}
  BY DEF InCustody, CustodyInv, Custody, GuardAssumption, CustodyAssumption,
         ClearCMAChunks, Poisons
<1>1. /\ \A u \in Thread : zid[u] # id
      /\ prog' = [q \in Ptr |-> IF owner[q] = id /\ prog[q] = "live"
                                THEN "dangling" ELSE prog[q]]
      /\ UNCHANGED <<zone, mutex, hooks, faulty>>
  BY Zenon DEF ClearCMAChunks
<1>2. PICK cleared :
        /\ info' = [q \in Ptr |-> IF q \in cleared
                                  THEN [status |-> "DEALLOCATED", id |-> id]
                                  ELSE info[q]]
        /\ shadow' = [q \in Ptr |-> IF q \in cleared THEN "freed" ELSE shadow[q]]
        /\ cleared \subseteq {alz[id][i] : i \in 1 .. Len(alz[id])}
  BY DEF ClearCMAChunks
<1>3. UNCHANGED <<pc, ptr, fresh, inCma>> /\ pc[t] = "idle"
  BY <1>1 DEF hooks, ClearCMAChunks
<1>4. DOMAIN alz[id] = 1 .. Len(alz[id])
  BY <1>0 DEF CustodyInv, TypeInv, TypeOK
<1>5. \A q \in cleared : q \in Serves[id]
  BY <1>0, <1>2, <1>4 DEF ListsServed
<1>6. \A q \in Ptr : owner[q] # NoId /\ q \in cleared => owner[q] = id
  BY <1>0, <1>5 DEF Served, CustodyInv, TypeInv, TypeOK
<1>7. Others(t) /\ Placed(t)'
  <2>1. Others(t)
    BY <1>3 DEF Others
  <2>2. /\ pc'[t] = "idle" /\ inCma'[t] = inCma[t]
        /\ fresh'[t] = fresh[t] /\ ptr'[t] = ptr[t]
    BY <1>3
  <2>3. ~inCma[t] /\ fresh[t] = NoPtr
    BY <1>0, <1>3, IdleGuarded
  <2> QED BY <2>1, <2>2, <2>3 DEF Placed, Freeing
<1>8. \A q \in Ptr : ~Entering(t, q)' /\ ~Opened(t, q)'
  BY <1>3 DEF Entering, Opened
<1>9. ASSUME NEW q \in Ptr PROVE GuardStep(t, q)
  <2>1. CASE q \in cleared
    <3>1. NobodyElse(t, q)
      <4>1. ASSUME NEW u \in Thread, Holds(u, q) PROVE FALSE
        <5>1. owner[q] = zid[u] /\ pc[u] # "idle"
          BY <1>0, <4>1, RuntimeAssumption
          DEF HeldOnce, CustodyInv, TypeInv, Located, Holds, Returning, Freeing,
              Reallocating
        <5>2. owner[q] # NoId
          BY <1>0, <5>1, RuntimeAssumption DEF CustodyInv, TypeInv, Located
        <5> QED BY <1>1, <1>6, <2>1, <5>1, <5>2
      <4> QED
        BY <4>1
        DEF NobodyElse, Entering, Opened, Holds, Freeing, Reallocating
    <3>2. info'[q].status = "DEALLOCATED" /\ info'[q] # Untracked
      BY <1>2, <2>1 DEF Untracked
    <3>3. prog'[q] # "live"
      BY <1>0, <1>1, <1>6, <2>1 DEF LiveOwned
    <3> QED
      BY <1>0, <1>8, <3>1, <3>2, <3>3 DEF GuardStep, Settled
  <2>2. CASE q \notin cleared
    <3>1. info'[q] = info[q] /\ shadow'[q] = shadow[q]
      BY <1>2, <2>2
    <3>2. prog'[q] = prog[q] \/ (prog[q] = "live" /\ prog'[q] = "dangling")
      BY <1>1
    <3>3. Whole(q)' <=> Whole(q)
      BY <3>1 DEF Whole
    <3> QED
      BY <1>0, <1>8, <3>1, <3>2, <3>3 DEF GuardStep, Guarded, Settled
  <2> QED BY <2>1, <2>2
<1> QED BY <1>7, <1>9, StepGuarded

(* Without false reports there are no other steps. *)
LEMMA PlainSteps ==
  ASSUME GuardAssumption, Guarded, NEW t \in Thread,
         Hook(t) \/ CmaBody(t) \/ Call(t)
  PROVE  \/ \E id \in Id, p \in Ptr : CmaAlloc(t, id, p) \/ FreeCall(t, p, id)
         \/ \E id \in Id : \E p \in Ptr \cup {NoPtr} : ReallocCall(t, p, id)
         \/ AllocateCMAChunk(t) \/ ReleaseInRealloc(t) \/ Release(t)
         \/ Shrink(t) \/ CmaFree(t) \/ CmaCollect(t)
         \/ \E id \in Id : ClearCMAChunks(t, id) \/ EmptyQuarantineOnGC(t, id)
         \/ ReallocateCMAChunkStart(t)
         \/ CmaReallocInPlace(t) \/ CmaReallocFail(t)
         \/ CmaReallocZero(t) \/ \E q \in Ptr : CmaReallocMove(t, q)
         \/ \E q \in Ptr : CmaReallocMoveDirect(t, q)
         \/ ReallocateEndNull(t) \/ ReallocateCMAChunkEnd(t)
<1>1. ~ReleaseAfterReport(t) /\ ~StartAfterReport(t)
  BY DEF Guarded, Placed, ReleaseAfterReport, StartAfterReport
<1> QED BY <1>1 DEF Hook, CmaBody, Call

LEMMA NextGuarded ==
  ASSUME GuardAssumption, InCustody, Guarded, [Next]_vars
  PROVE  Guarded'
<1>0. CustodyInv
  BY DEF InCustody
<1>1. CASE UNCHANGED vars
  BY <1>1, UnchangedGuarded
<1>2. ASSUME NEW t \in Thread, Hook(t) \/ CmaBody(t) \/ Call(t)
      PROVE  Guarded'
  <2>1. CASE \/ \E id \in Id, p \in Ptr :
                  CmaAlloc(t, id, p) \/ FreeCall(t, p, id)
             \/ \E id \in Id : \E p \in Ptr \cup {NoPtr} : ReallocCall(t, p, id)
             \/ AllocateCMAChunk(t) \/ ReleaseInRealloc(t) \/ Release(t)
    BY <1>0, <2>1, CmaAllocGuarded, FreeCallGuarded, ReallocCallGuarded,
       AllocateGuarded, ReleaseInReallocGuarded, ReleaseGuarded
  <2>2. CASE \/ Shrink(t) \/ CmaFree(t) \/ CmaCollect(t)
             \/ \E id \in Id : EmptyQuarantineOnGC(t, id)
             \/ ReallocateCMAChunkStart(t)
             \/ CmaReallocInPlace(t) \/ CmaReallocFail(t)
    BY <1>0, <2>2, LaterGuarded, CmaFreeGuarded, StartGuarded, StayGuarded
  <2>3. CASE \/ CmaReallocZero(t) \/ \E q \in Ptr : CmaReallocMove(t, q)
             \/ \E q \in Ptr : CmaReallocMoveDirect(t, q)
             \/ ReallocateEndNull(t) \/ ReallocateCMAChunkEnd(t)
    BY <1>0, <2>3, CallFreeGuarded, MoveDirectGuarded, EndNullGuarded, EndGuarded
  <2>4. CASE \E id \in Id : ClearCMAChunks(t, id)
    BY <2>4, ClearGuarded
  <2> QED BY <1>2, <2>1, <2>2, <2>3, <2>4, PlainSteps
<1> QED BY <1>1, <1>2 DEF Next

LEMMA GuardedAlways ==
  ASSUME GuardAssumption
  PROVE  Spec => []Guarded
<1>1. CustodyAssumption
  BY DEF GuardAssumption
<1>2. Init => InCustody /\ Guarded
  BY <1>1, InitCustody, InitGuarded
<1>3. InCustody /\ Guarded /\ [Next]_vars => InCustody' /\ Guarded'
  BY <1>1, NextCustody, NextGuarded
<1> QED BY <1>2, <1>3, PTL DEF Spec
-----------------------------------------------------------------------------
(* "Rollback status to avoid false positive DF" (asan_allocator.cpp:1578): *)
(* a program that frees nothing twice is never reported for a double free, *)
(* whatever REALLOC does with one thread, and with any threads where it    *)
(* moves no chunk; collections stop the threads that do not collect.       *)
THEOREM NeverFalseDoubleFree ==
  ASSUME GuardAssumption
  PROVE  Spec => []NoFalseDoubleFree
<1>1. Guarded => NoFalseDoubleFree
  BY DEF Guarded, NoFalseDoubleFree, Placed
<1> QED BY <1>1, GuardedAlways, PTL

(* What the program holds is accessible and has its redzone, with CLEAR    *)
(* and every REALLOC that does not fail (allocateCMAChunkImpl, and         *)
(* __asan_reallocateCMAChunkEnd for what REALLOC has opened); collections  *)
(* stop the threads that do not collect.                                   *)
THEOREM AlwaysGuarded ==
  ASSUME GuardAssumption, "fail" \notin Kinds
  PROVE  Spec => []LiveGuarded
<1>1. Guarded => LiveGuarded
  BY DEF Guarded, LiveGuarded, Whole
<1> QED BY <1>1, GuardedAlways, PTL

(* What the program has freed stays poisoned until it is handed out again, *)
(* in a quarantine zone as well as with the allocator: without CLEAR, and  *)
(* with a REALLOC that neither fails nor frees the chunk for the size      *)
(* zero.                                                                   *)
THEOREM AlwaysPoisoned ==
  ASSUME GuardAssumption, Poisons
  PROVE  Spec => []DanglingPoisoned
<1>1. Guarded => DanglingPoisoned
  BY DEF Guarded, DanglingPoisoned, Settled, Away, Quiet
<1> QED BY <1>1, GuardedAlways, PTL
-----------------------------------------------------------------------------
(* Nothing is lost where there is no collection, either. *)
KeptAssumption == GuardAssumption /\ "GC" \notin Api /\ QuarantineOn

(* A freed address that the allocator has not got back is with a thread or *)
(* in the zone of its instance.                                            *)
Kept ==
  \A p \in Ptr : prog[p] = "dangling" /\ owner[p] # NoId =>
    (\E t \in Thread : Holds(t, p)) \/ Listed(owner[p], p)

(* popPtrIfMax takes only the first address out. *)
LEMMA InTail ==
  ASSUME NEW z \in Zone, z.list # << >>, NEW q, InList(z.list, q),
         q # Head(z.list).ptr
  PROVE  InList(PopFirst(z).list, q)
<1>1. z.list \in Seq(Entry) /\ PopFirst(z).list = Tail(z.list)
  BY DEF Zone, PopFirst
<1>2. /\ Len(z.list) \in Nat \ {0}
      /\ DOMAIN z.list = 1 .. Len(z.list)
      /\ DOMAIN Tail(z.list) = 1 .. Len(z.list) - 1
      /\ \A i \in 1 .. Len(z.list) - 1 : Tail(z.list)[i] = z.list[i + 1]
      /\ Head(z.list) = z.list[1]
  BY <1>1
<1>3. PICK i \in 1 .. Len(z.list) : z.list[i].ptr = q
  BY <1>2 DEF InList
<1>4. i - 1 \in 1 .. Len(z.list) - 1 /\ (i - 1) + 1 = i
  BY <1>2, <1>3
<1>5. Tail(z.list)[i - 1].ptr = q
  BY <1>2, <1>3, <1>4
<1> QED BY <1>1, <1>2, <1>4, <1>5 DEF InList

(* A chunk that waits in a zone is still a free one when its turn comes:   *)
(* no other thread is away with it, and none that moves chunks is at the   *)
(* loop.                                                                   *)
LEMMA ListedValid ==
  ASSUME GuardAssumption, CustodyInv, Guarded, QuarantineOn,
         NEW t \in Thread, pc[t] = "shrink",
         NEW id \in Id, NEW p \in Ptr, Listed(id, p)
  PROVE  IsChunkValid(p, id)
<1>1. /\ owner[p] = id /\ prog[p] = "dangling"
      /\ \A u \in Thread : ~Holds(u, p)
  BY DEF CustodyInv, Custody, ListedOnce
<1>2. ASSUME NEW u \in Thread, Away(u, p) PROVE FALSE
  <2>1. ptr[u] = p /\ (pc[u] \in {"shrink", "cmaFree"} => fresh[u] # NoPtr)
    BY <1>2 DEF Away
  <2>2. /\ p # NoPtr /\ fresh[u] # p
        /\ pc[u] \notin Freeing \cup Reallocating
        /\ pc[u] = "reEnd" => fresh[u] # NoPtr
    BY <1>1, <2>1, RuntimeAssumption DEF Holds
  <2>3. pc[u] \in {"cmaFree", "reEnd"}
    BY <2>1, <2>2
    DEF CustodyInv, TypeInv, TypeOK, Located, Location, Freeing, Reallocating
  <2>4. Alone
    BY <2>1, <2>2, <2>3 DEF Guarded, Placed
  <2> QED BY <2>3, <2>4 DEF Alone
<1>3. info[p].status = "DEALLOCATED"
  BY <1>1, <1>2 DEF Guarded, Settled
<1>4. info[p] # Untracked /\ owner[p] # NoId
  BY <1>1, <1>3, RuntimeAssumption DEF Untracked
<1> QED BY <1>1, <1>3, <1>4, RecordOfOwner
    DEF GuardAssumption, IsChunkValid, FreedBefore

(* What a step has to do for Kept, address by address. *)
Keeps(p) ==
  prog'[p] = "dangling" /\ owner'[p] # NoId =>
    \/ \E t \in Thread : Holds(t, p)'
    \/ Listed(owner[p], p)'
    \/ /\ prog[p] = "dangling" /\ owner[p] = owner'[p]
       /\ \A t \in Thread : Holds(t, p) => Holds(t, p)'
       /\ Listed(owner[p], p) => Listed(owner[p], p)'

LEMMA KeepsKept ==
  ASSUME Kept, \A p \in Ptr : Keeps(p)
  PROVE  Kept'
BY DEF Keeps, Kept

(* A step of one thread that leaves the zones alone. *)
Stays(t) ==
  \A u \in Thread \ {t} : /\ pc'[u] = pc[u] /\ ptr'[u] = ptr[u]
                          /\ fresh'[u] = fresh[u] /\ ret'[u] = ret[u]

KeepsByThread(t, q) ==
  prog'[q] = "dangling" /\ owner'[q] # NoId =>
    \/ Holds(t, q)'
    \/ /\ prog[q] = "dangling" /\ owner'[q] = owner[q]
       /\ Holds(t, q) => Holds(t, q)'

LEMMA StepKept ==
  ASSUME Kept, NEW t \in Thread, Stays(t), zone' = zone,
         \A q \in Ptr : KeepsByThread(t, q)
  PROVE  Kept'
<1>1. \A u \in Thread \ {t}, q \in Ptr : Holds(u, q)' <=> Holds(u, q)
  BY DEF Stays, Holds, Returning
<1>2. \A q \in Ptr : Keeps(q)
  BY <1>1 DEF KeepsByThread, Keeps, Listed
<1> QED BY <1>2, KeepsKept

LEMMA IdleHoldsNothing ==
  ASSUME CustodyInv, NEW t \in Thread, pc[t] = "idle", NEW q \in Ptr
  PROVE  ~Holds(t, q)
<1>1. ptr[t] = NoPtr /\ fresh[t] = NoPtr /\ NoPtr \notin Ptr
  BY RuntimeAssumption DEF CustodyInv, TypeInv, Located
<1> QED BY <1>1 DEF Holds, Returning

(* The calls of the program. *)
LEMMA CallKept ==
  ASSUME CustodyInv, Kept, NEW t \in Thread, NEW id \in Id,
         \/ \E p \in Ptr : CmaAlloc(t, id, p) \/ FreeCall(t, p, id)
         \/ \E p \in Ptr \cup {NoPtr} : ReallocCall(t, p, id)
  PROVE  Kept'
<1>1. pc[t] = "idle" /\ zone' = zone
  BY DEF CmaAlloc, FreeCall, ReallocCall, runtime
<1>2. \A q \in Ptr : ~Holds(t, q)
  BY <1>1, IdleHoldsNothing
<1>3. Stays(t)
  BY DEF CmaAlloc, FreeCall, ReallocCall, Goto, CustodyInv, TypeInv, TypeOK,
         Stays
<1>4. ASSUME NEW p \in Ptr, CmaAlloc(t, id, p)
      PROVE  \A q \in Ptr : KeepsByThread(t, q)
  <2>1. Holds(t, p)'
    BY <1>4 DEF CmaAlloc, CustodyInv, TypeInv, TypeOK, Holds
  <2>2. \A q \in Ptr \ {p} : prog'[q] = prog[q] /\ owner'[q] = owner[q]
    BY <1>4 DEF CmaAlloc, CustodyInv, TypeInv, TypeOK
  <2> QED BY <1>2, <2>1, <2>2 DEF KeepsByThread
<1>5. ASSUME NEW p \in Ptr, FreeCall(t, p, id)
      PROVE  \A q \in Ptr : KeepsByThread(t, q)
  <2>1. Holds(t, p)'
    BY <1>5 DEF FreeCall, Goto, CustodyInv, TypeInv, TypeOK, Holds, Freeing
  <2>2. \A q \in Ptr \ {p} : prog'[q] = prog[q] /\ owner'[q] = owner[q]
    BY <1>5 DEF FreeCall, CustodyInv, TypeInv, TypeOK
  <2> QED BY <1>2, <2>1, <2>2 DEF KeepsByThread
<1>6. ASSUME NEW p \in Ptr \cup {NoPtr}, ReallocCall(t, p, id)
      PROVE  \A q \in Ptr : KeepsByThread(t, q)
  <2>1. \A q \in Ptr : /\ owner'[q] = owner[q]
                       /\ prog'[q] = prog[q] \/ prog'[q] = "moving"
    BY <1>6 DEF ReallocCall, CustodyInv, TypeInv, TypeOK
  <2> QED BY <1>2, <2>1 DEF KeepsByThread
<1>7. \A q \in Ptr : KeepsByThread(t, q)
  BY <1>4, <1>5, <1>6
<1> QED BY <1>1, <1>3, <1>7, StepKept

(* The hooks around the body of REALLOC, and the body that stays on the    *)
(* chunk or finds no memory: the thread goes on with what it holds.        *)
LEMMA ResizeKept ==
  ASSUME CustodyInv, Guarded, Kept, NEW t \in Thread,
         \/ ReallocateCMAChunkStart(t)
         \/ CmaReallocInPlace(t) \/ CmaReallocFail(t)
  PROVE  Kept'
<1>1. /\ pc[t] \in Reallocating /\ fresh[t] = NoPtr /\ NoPtr \notin Ptr
      /\ UNCHANGED <<zone, ptr, ret, owner, prog>>
  BY RuntimeAssumption
  DEF ReallocateCMAChunkStart, CmaReallocInPlace, CmaReallocFail, runtime,
      Reallocating, CustodyInv, TypeInv, Located
<1>2. /\ Stays(t)
      /\ \/ pc'[t] \in {"reBody", "reReport"} /\ fresh'[t] = NoPtr
         \/ pc'[t] = "reEnd" /\ fresh'[t] = ptr[t]
         \/ pc'[t] = "reEnd" /\ fresh'[t] = NoPtr
  BY <1>1
  DEF ReallocateCMAChunkStart, CmaReallocInPlace, CmaReallocFail, Goto,
      CustodyInv, TypeInv, TypeOK, Stays
<1>3. \A q \in Ptr : Holds(t, q) => ptr[t] = q
  BY <1>1 DEF Holds, Returning, Reallocating
<1>4. \A q \in Ptr : ptr[t] = q => Holds(t, q)'
  BY <1>1, <1>2 DEF Holds, Reallocating
<1>5. \A q \in Ptr : KeepsByThread(t, q)
  BY <1>1, <1>3, <1>4 DEF KeepsByThread
<1> QED BY <1>1, <1>2, <1>5, StepKept

(* The body calls FREE on the chunk, with a quarantine. *)
LEMMA CallFreeKept ==
  ASSUME KeptAssumption, CustodyInv, Kept, NEW t \in Thread,
         CmaReallocZero(t) \/ \E q \in Ptr : CmaReallocMove(t, q)
  PROVE  Kept'
<1>0. PICK p : p = ptr[t]
  OBVIOUS
<1>1. /\ pc[t] = "reBody" /\ fresh[t] = NoPtr /\ NoPtr \notin Ptr
      /\ p \in Ptr /\ ptr[t] = p
      /\ UNCHANGED <<zone, ptr, ret>>
      /\ pc' = [pc EXCEPT ![t] = "freeFast"]
      /\ prog' = [prog EXCEPT ![p] = "dangling"]
  <2>1. QuarantineOn
    BY DEF KeptAssumption
  <2>2. pc[t] = "reBody" /\ ptr[t] # NoPtr /\ CallFree(t) /\ UNCHANGED <<zone, ptr>>
    BY DEF CmaReallocZero, CmaReallocMove, runtime
  <2>3. fresh[t] = NoPtr /\ NoPtr \notin Ptr /\ ptr[t] \in Ptr
    BY <2>2, RuntimeAssumption
    DEF CustodyInv, TypeInv, TypeOK, Located, Reallocating
  <2> QED BY <1>0, <2>1, <2>2, <2>3 DEF CallFree, Goto
<1>2. \/ fresh' = fresh /\ owner' = owner
      \/ \E q \in Ptr : /\ fresh' = [fresh EXCEPT ![t] = q]
                        /\ owner' = [owner EXCEPT ![q] = zid[t]]
  BY DEF CmaReallocZero, CmaReallocMove
<1>3. Stays(t)
  BY <1>1, <1>2 DEF CustodyInv, TypeInv, TypeOK, Stays
<1>4. \A q \in Ptr : Holds(t, q) => q = p
  BY <1>1 DEF Holds, Returning
<1>5. Holds(t, p)'
  BY <1>1 DEF CustodyInv, TypeInv, TypeOK, Holds, Freeing
<1>6. \A q \in Ptr : owner'[q] = owner[q] \/ Holds(t, q)'
  BY <1>2 DEF CustodyInv, TypeInv, TypeOK, Holds
<1>7. \A q \in Ptr \ {p} : prog'[q] = prog[q]
  BY <1>1 DEF CustodyInv, TypeInv, TypeOK
<1>8. \A q \in Ptr : KeepsByThread(t, q)
  BY <1>4, <1>5, <1>6, <1>7 DEF KeepsByThread
<1> QED BY <1>1, <1>3, <1>8, StepKept

(* The body recycles the chunk itself: the allocator has it back. *)
LEMMA MoveDirectKept ==
  ASSUME CustodyInv, Kept, NEW t \in Thread, NEW q \in Ptr,
         CmaReallocMoveDirect(t, q)
  PROVE  Kept'
<1>1. /\ pc[t] = "reBody" /\ fresh[t] = NoPtr /\ NoPtr \notin Ptr
      /\ pc' = [pc EXCEPT ![t] = "reEnd"]
      /\ fresh' = [fresh EXCEPT ![t] = q]
      /\ UNCHANGED <<zone, ptr, ret>>
      /\ owner' = [r \in Ptr |-> IF r = q THEN zid[t]
                                 ELSE IF r = ptr[t] THEN NoId ELSE owner[r]]
      /\ prog' = [r \in Ptr |-> IF r = ptr[t] THEN "dangling" ELSE prog[r]]
  BY RuntimeAssumption
  DEF CmaReallocMoveDirect, Goto, runtime, CustodyInv, TypeInv, Located,
      Reallocating
<1>2. Stays(t) /\ Holds(t, q)'
  BY <1>1 DEF CustodyInv, TypeInv, TypeOK, Stays, Holds
<1>3. \A r \in Ptr : Holds(t, r) => r = ptr[t]
  BY <1>1 DEF Holds, Returning
<1>4. \A r \in Ptr \ {q} : r # ptr[t] => owner'[r] = owner[r] /\ prog'[r] = prog[r]
  BY <1>1
<1>5. \A r \in Ptr \ {q} : r = ptr[t] => owner'[r] = NoId
  BY <1>1
<1>6. \A r \in Ptr : KeepsByThread(t, r)
  BY <1>2, <1>3, <1>4, <1>5 DEF KeepsByThread
<1> QED BY <1>1, <1>2, <1>6, StepKept

(* The hooks that hand an address to the program. *)
LEMMA HandedKept ==
  ASSUME CustodyInv, Kept, NEW t \in Thread,
         \/ AllocateCMAChunk(t)
         \/ ReallocateEndNull(t) \/ ReallocateCMAChunkEnd(t)
  PROVE  Kept'
<1>1. Return(t) /\ UNCHANGED <<zone, owner>> /\ NoPtr \notin Ptr
  BY RuntimeAssumption
  DEF AllocateCMAChunk, ReallocateEndNull, ReallocateCMAChunkEnd, runtime
<1>2. Stays(t)
  BY <1>1 DEF Return, Goto, CustodyInv, TypeInv, TypeOK, Stays
<1>3. \A q \in Ptr : prog'[q] = prog[q] \/ prog'[q] = "live"
  BY DEF AllocateCMAChunk, ReallocateEndNull, ReallocateCMAChunkEnd,
         CustodyInv, TypeInv, TypeOK
<1>4. ASSUME NEW q \in Ptr, Holds(t, q) PROVE prog'[q] = "live"
  <2>1. CASE AllocateCMAChunk(t)
    <3>1. fresh[t] = q
      BY <1>1, <1>4, <2>1
      DEF AllocateCMAChunk, Holds, Returning, Freeing, Reallocating
    <3> QED BY <2>1, <3>1 DEF AllocateCMAChunk, CustodyInv, TypeInv, TypeOK
  <2>2. CASE ReallocateEndNull(t)
    <3>1. ptr[t] = q
      BY <1>1, <1>4, <2>2
      DEF ReallocateEndNull, Holds, Returning, Freeing, Reallocating
    <3> QED BY <2>2, <3>1 DEF ReallocateEndNull
  <2>3. CASE ReallocateCMAChunkEnd(t)
    <3>1. fresh[t] = q
      BY <1>1, <1>4, <2>3
      DEF ReallocateCMAChunkEnd, Holds, Returning, Freeing, Reallocating
    <3>2. prog' = [prog EXCEPT ![fresh[t]] = "live"]
      BY <2>3 DEF ReallocateCMAChunkEnd
    <3> QED BY <3>1, <3>2 DEF CustodyInv, TypeInv, TypeOK
  <2> QED BY <2>1, <2>2, <2>3
<1>5. \A q \in Ptr : KeepsByThread(t, q)
  BY <1>1, <1>3, <1>4 DEF KeepsByThread
<1> QED BY <1>1, <1>2, <1>5, StepKept

(* The body of FREE: the allocator has the address back. *)
LEMMA CmaFreeKept ==
  ASSUME CustodyInv, Guarded, Kept, NEW t \in Thread, CmaFree(t)
  PROVE  Kept'
<1>1. pc[t] = "cmaFree" /\ NoPtr \notin Ptr /\ UNCHANGED <<prog, zone>>
  BY RuntimeAssumption DEF CmaFree, runtime
<1>2. \A q \in Ptr : owner'[q] = IF q = ret[t] THEN NoId ELSE owner[q]
  BY <1>1 DEF CmaFree, CustodyInv, TypeInv, TypeOK
<1>3. Stays(t)
  BY DEF CmaFree, Return, Goto, CustodyInv, TypeInv, TypeOK, Stays
<1>4. fresh[t] # NoPtr => fresh' = fresh
  BY <1>1 DEF CmaFree, Guarded, Placed
<1>5. \A q \in Ptr : Holds(t, q) => q = ret[t] \/ Holds(t, q)'
  BY <1>1, <1>4 DEF Holds, Returning, Freeing, Reallocating
<1>6. \A q \in Ptr : KeepsByThread(t, q)
  BY <1>1, <1>2, <1>5 DEF KeepsByThread
<1> QED BY <1>1, <1>3, <1>6, StepKept

(* The body of GC takes back addresses, and moves none.                    *)
LEMMA CollectKept ==
  ASSUME CustodyInv, Kept, NEW t \in Thread, CmaCollect(t)
  PROVE  Kept'
<1>1. /\ pc[t] = "collect" /\ ptr[t] = NoPtr /\ fresh[t] = NoPtr
      /\ NoPtr \notin Ptr /\ UNCHANGED <<prog, zone>>
      /\ \A q \in Ptr : owner'[q] = owner[q] \/ owner'[q] = NoId
  BY RuntimeAssumption
  DEF CmaCollect, runtime, CustodyInv, TypeInv, TypeOK, Located
<1>2. Stays(t)
  BY DEF CmaCollect, Return, Goto, CustodyInv, TypeInv, TypeOK, Stays
<1>3. \A q \in Ptr : ~Holds(t, q)
  BY <1>1 DEF Holds, Returning, Freeing, Reallocating
<1>4. \A q \in Ptr : KeepsByThread(t, q)
  BY <1>1, <1>3 DEF KeepsByThread
<1> QED BY <1>1, <1>2, <1>4, StepKept
-----------------------------------------------------------------------------
(* A thread that frees an address puts it into the zone of its owner, from *)
(* which at most the address it is given back is missing.                  *)
LEMMA HandedOver ==
  ASSUME CustodyInv, Kept, NEW t \in Thread, NEW id \in Id, NEW y,
         NEW r \in Ptr \cup {NoPtr},
         pc[t] \in Freeing, zid[t] = id,
         pc' = [pc EXCEPT ![t] = "cmaFree"],
         ret' = [ret EXCEPT ![t] = r],
         zone' = [zone EXCEPT ![id] = y],
         UNCHANGED <<ptr, fresh, owner, prog>>,
         InList(y.list, ptr[t]),
         \A q \in Ptr : Listed(id, q) => q = r \/ InList(y.list, q)
  PROVE  Kept'
<1>1. ptr[t] \in Ptr /\ Holds(t, ptr[t]) /\ owner[ptr[t]] = id
  BY DEF CustodyInv, Custody, HeldOnce, TypeInv, TypeOK, Located, Holds
<1>3. \A u \in Thread, q \in Ptr : q # ptr[t] /\ Holds(u, q) => Holds(u, q)'
  BY DEF CustodyInv, TypeInv, TypeOK, Holds, Returning, Freeing, Reallocating
<1>4. r \in Ptr => Holds(t, r)'
  BY DEF CustodyInv, TypeInv, TypeOK, Holds, Returning
<1>5. /\ Listed(id, ptr[t])'
      /\ \A q \in Ptr : Listed(id, q) => q = r \/ Listed(id, q)'
      /\ \A j \in Id \ {id}, q \in Ptr :
           Listed(j, q) => zone'[j] = zone[j]
  BY DEF CustodyInv, TypeInv, TypeOK, Listed
<1>6. \A j \in Id \ {id}, q \in Ptr :
        Listed(j, q) => Listed(j, q)'
  BY <1>5 DEF Listed
<1>7. \A q \in Ptr : Keeps(q)
  BY <1>1, <1>3, <1>4, <1>5, <1>6 DEF Keeps, CustodyInv, TypeInv, TypeOK
<1> QED BY <1>7, KeepsKept

(* A thread goes on with the address it frees. *)
LEMMA FreeingKept ==
  ASSUME CustodyInv, Kept, NEW t \in Thread, pc[t] \in Freeing,
         \E l \in Freeing : pc' = [pc EXCEPT ![t] = l],
         UNCHANGED <<zone, ptr, fresh, ret, owner, prog>>
  PROVE  Kept'
<1>1. Stays(t) /\ pc'[t] \in Freeing
  BY DEF CustodyInv, TypeInv, TypeOK, Stays
<1>2. \A q \in Ptr : Holds(t, q) => Holds(t, q)'
  BY <1>1 DEF Holds, Returning, Freeing, Reallocating
<1>3. \A q \in Ptr : KeepsByThread(t, q)
  BY <1>2 DEF KeepsByThread
<1> QED BY <1>1, <1>3, StepKept

(* The two critical sections of FREE: the zone takes the chunk in, or the  *)
(* thread goes on.                                                         *)
LEMMA ReleaseKept ==
  ASSUME KeptAssumption, CustodyInv, Guarded, Kept, NEW t \in Thread,
         ReleaseInRealloc(t) \/ Release(t)
  PROVE  Kept'
<1> DEFINE p == ptr[t]
<1>1. /\ pc[t] \in {"freeFast", "freeSlow"} /\ p \in Ptr
      /\ pc[t] \in Freeing /\ zid[t] \in Id /\ QuarantineOn
      /\ Holds(t, p) /\ owner[p] = zid[t] /\ zid[t] # NoId
  <2>1. pc[t] \in {"freeFast", "freeSlow"} /\ pc[t] \in Freeing
    BY DEF ReleaseInRealloc, Release, Freeing
  <2> QED BY <2>1, FreeingHolds DEF KeptAssumption
<1>2. UNCHANGED <<ptr, fresh, owner, prog>>
  BY DEF ReleaseInRealloc, Release
<1>3. \/ \E l \in Freeing : /\ pc' = [pc EXCEPT ![t] = l]
                            /\ UNCHANGED <<zone, ret>>
      \/ /\ pc' = [pc EXCEPT ![t] = "cmaFree"]
         /\ ret' = [ret EXCEPT ![t] = NoPtr]
         /\ zone' = [zone EXCEPT ![zid[t]] = PushPtr(zone[zid[t]], p)]
  <2>1. ASSUME NEW holder, PushAndPop(t, p, zid[t], holder)
        PROVE  \/ \E l \in Freeing : /\ pc' = [pc EXCEPT ![t] = l]
                                     /\ UNCHANGED <<zone, ret>>
               \/ /\ pc' = [pc EXCEPT ![t] = "cmaFree"]
                  /\ ret' = [ret EXCEPT ![t] = NoPtr]
                  /\ zone' = [zone EXCEPT ![zid[t]] = PushPtr(zone[zid[t]], p)]
    BY <1>1, <2>1 DEF PushAndPop, LeaveWith, Goto, Freeing
  <2>2. CASE ReleaseInRealloc(t)
    <3>1. inCma[t] => info[p].status = "IN_REALLOC"
      BY <1>1, <2>2 DEF ReleaseInRealloc, Guarded, Opened
    <3>2. info[p].status = "IN_REALLOC" => info[p].id = zid[t]
      BY <1>1, RecordOfOwner DEF KeptAssumption, GuardAssumption, Untracked
    <3> QED BY <2>1, <2>2, <3>1, <3>2 DEF ReleaseInRealloc, Goto, Freeing
  <2>3. CASE Release(t)
    <3>1. ~inCma[t]
      BY <2>3 DEF Release, Guarded, Placed
    <3>2. Whole(p)
      BY <1>1, <2>3, <3>1 DEF Release, Guarded, Entering
    <3> QED BY <1>1, <2>1, <2>3, <3>2, WholeIsNotFreed DEF Release
  <2> QED BY <2>2, <2>3
<1>4. zone[zid[t]] \in Zone
  BY <1>1 DEF CustodyInv, TypeInv, TypeOK
<1>5. /\ InList(PushPtr(zone[zid[t]], p).list, p)
      /\ \A q \in Ptr : Listed(zid[t], q) =>
           InList(PushPtr(zone[zid[t]], p).list, q)
  BY <1>1, <1>4, InPush DEF Listed
<1> QED BY <1>1, <1>2, <1>3, <1>5, FreeingKept, HandedOver

(* An iteration of the loop of popPtrIfMax: its first chunk is a free one. *)
LEMMA ShrinkKept ==
  ASSUME KeptAssumption, CustodyInv, Guarded, Kept, NEW t \in Thread, Shrink(t)
  PROVE  Kept'
<1> DEFINE p == ptr[t]
           id == info[p].id
           z == zone[id]
           y == PopFirst(z)
           r == Head(z.list).ptr
<1>1. /\ pc[t] = "shrink" /\ pc[t] \in Freeing /\ p \in Ptr /\ Holds(t, p)
      /\ info[p] # Untracked /\ owner[p] = zid[t] /\ zid[t] \in Id
      /\ zid[t] # NoId
      /\ UNCHANGED <<ptr, fresh, owner, prog>>
  <2>1. pc[t] = "shrink" /\ UNCHANGED <<ptr, fresh, owner, prog>>
    BY DEF Shrink
  <2>2. info[p] # Untracked
    BY <2>1 DEF CustodyInv, TypeInv, Located
  <2> QED
    BY <2>1, <2>2, FreeingHolds DEF Freeing
<1>2. zid[t] = id /\ id \in Id /\ z \in Zone
  BY <1>1, RecordOfOwner
  DEF KeptAssumption, GuardAssumption, CustodyInv, TypeInv, TypeOK
<1>3. CASE z.list = << >>
  <2>1. /\ pc' = [pc EXCEPT ![t] = "cmaFree"]
        /\ ret' = [ret EXCEPT ![t] = NoPtr]
        /\ zone' = [zone EXCEPT ![id] = PushPtr(z, p)]
    BY <1>3 DEF Shrink, LeaveWith, Goto
  <2>2. /\ InList(PushPtr(z, p).list, p)
        /\ \A q \in Ptr : Listed(id, q) => InList(PushPtr(z, p).list, q)
    BY <1>1, <1>2, InPush DEF Listed
  <2> HIDE DEF p, id, z
  <2> QED BY <1>1, <1>2, <2>1, <2>2, HandedOver DEF p
<1>4. CASE z.list # << >>
  <2>1. /\ r \in Ptr /\ Listed(id, r) /\ y \in Zone
    BY <1>2, <1>4, InPop, PopFirstType DEF Listed
  <2>2. IsChunkValid(r, id)
    BY <1>1, <1>2, <2>1, ListedValid DEF KeptAssumption
  <2>3. /\ pc' = [pc EXCEPT ![t] = "cmaFree"]
        /\ ret' = [ret EXCEPT ![t] = r]
        /\ zone' = [zone EXCEPT ![id] = PushPtr(y, p)]
    BY <1>4, <2>2 DEF Shrink, LeaveWith, Goto
  <2>4. \A q \in Ptr : Listed(id, q) => q = r \/ InList(y.list, q)
    BY <1>2, <1>4, InTail DEF Listed
  <2>5. /\ InList(PushPtr(y, p).list, p)
        /\ \A q \in Ptr :
             Listed(id, q) => q = r \/ InList(PushPtr(y, p).list, q)
    BY <1>1, <2>1, <2>4, InPush
  <2> HIDE DEF p, id, z, y, r
  <2> QED BY <1>1, <1>2, <2>1, <2>3, <2>5, HandedOver DEF p
<1> QED BY <1>3, <1>4

LEMMA NextKept ==
  ASSUME KeptAssumption, CustodyInv, Guarded, Kept, [Next]_vars
  PROVE  Kept'
<1>1. CASE UNCHANGED vars
  BY <1>1 DEF vars, runtime, hooks, Kept, Holds, Returning, Listed
<1>2. ASSUME NEW t \in Thread, Hook(t) \/ CmaBody(t) \/ Call(t)
      PROVE  Kept'
  <2>1. /\ GuardAssumption
        /\ \A id \in Id : ~EmptyQuarantineOnGC(t, id) /\ ~ClearCMAChunks(t, id)
    BY DEF EmptyQuarantineOnGC, ClearCMAChunks, KeptAssumption,
           GuardAssumption, CustodyAssumption
  <2>2. CASE \/ \E id \in Id, p \in Ptr :
                  CmaAlloc(t, id, p) \/ FreeCall(t, p, id)
             \/ \E id \in Id : \E p \in Ptr \cup {NoPtr} : ReallocCall(t, p, id)
             \/ ReleaseInRealloc(t) \/ Release(t) \/ Shrink(t) \/ CmaFree(t)
             \/ CmaCollect(t)
    BY <2>2, CallKept, ReleaseKept, ShrinkKept, CmaFreeKept, CollectKept
  <2>3. CASE \/ AllocateCMAChunk(t)
             \/ ReallocateEndNull(t) \/ ReallocateCMAChunkEnd(t)
             \/ ReallocateCMAChunkStart(t)
             \/ CmaReallocInPlace(t) \/ CmaReallocFail(t)
             \/ CmaReallocZero(t) \/ \E q \in Ptr : CmaReallocMove(t, q)
             \/ \E q \in Ptr : CmaReallocMoveDirect(t, q)
    BY <2>3, HandedKept, ResizeKept, CallFreeKept, MoveDirectKept
  <2> QED BY <1>2, <2>1, <2>2, <2>3, PlainSteps
<1> QED BY <1>1, <1>2 DEF Next

(* Nothing is lost: what the program has freed and no thread is busy with  *)
(* is with the allocator or in the zone of its instance (pushPtr and       *)
(* popPtrIfMax), for CMAs with a quarantine and without CLEAR and GC; with *)
(* every REALLOC for one thread, and for any threads where REALLOC moves   *)
(* no chunk.                                                               *)
THEOREM NothingEverLost ==
  ASSUME KeptAssumption
  PROVE  Spec => []NothingLost
<1>1. GuardAssumption /\ CustodyAssumption
  BY DEF KeptAssumption, GuardAssumption
<1>2. Init => InCustody /\ Guarded /\ Kept
  BY <1>1, InitCustody, InitGuarded DEF Init, Kept
<1>3. InCustody /\ Guarded /\ Kept /\ [Next]_vars
        => InCustody' /\ Guarded' /\ Kept'
  BY <1>1, NextCustody, NextGuarded, NextKept DEF InCustody
<1>4. InCustody /\ Kept => NothingLost
  <2> SUFFICES ASSUME CustodyInv, Kept, NEW p \in Ptr, prog[p] = "dangling",
                      owner[p] # NoId, Quiet(p)
               PROVE  \E i \in 1 .. Len(zone[owner[p]].list) :
                        zone[owner[p]].list[i].ptr = p
    BY DEF NothingLost, InCustody
  <2>1. Listed(owner[p], p)
    BY DEF Kept, Quiet, Holds, Returning
  <2>2. zone[owner[p]].list \in Seq(Entry)
    BY DEF CustodyInv, TypeInv, TypeOK, Zone
  <2> QED BY <2>1, <2>2 DEF Listed, InList
<1> QED BY <1>2, <1>3, <1>4, PTL DEF Spec
=============================================================================
