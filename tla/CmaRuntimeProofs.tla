-------------------------- MODULE CmaRuntimeProofs --------------------------
(***************************************************************************)
(* Proofs about CmaRuntime, for any set of addresses, threads and          *)
(* instances and any limits.                                               *)
(***************************************************************************)
EXTENDS CmaRuntimeInv, WellFoundedInduction, TLAPS

-----------------------------------------------------------------------------
(* The operators of QuarantineZone.                                        *)

(* An empty zone is a zone. *)
LEMMA EmptyZoneType ==
  EmptyZone \in Zone /\ Len(EmptyZone.list) = 0
BY DEF EmptyZone, Zone

(* pushPtr makes a zone of a zone, one chunk longer. *)
LEMMA PushPtrType ==
  ASSUME NEW z \in Zone, NEW p \in Ptr
  PROVE  /\ PushPtr(z, p) \in Zone
         /\ Len(PushPtr(z, p).list) = Len(z.list) + 1
         /\ PushPtr(z, p).num = z.num + 1
<1>1. Span[p] \in Nat
  BY ZoneAssumption
<1>2. [ptr |-> p, size |-> Span[p]] \in Entry
  BY <1>1 DEF Entry
<1> QED
  BY <1>1, <1>2 DEF PushPtr, Zone

(* An iteration of popPtrIfMax makes a zone of a zone that is not empty,   *)
(* one chunk shorter.                                                      *)
LEMMA PopFirstType ==
  ASSUME NEW z \in Zone, z.list # << >>
  PROVE  /\ PopFirst(z) \in Zone
         /\ Len(PopFirst(z).list) = Len(z.list) - 1
         /\ PopFirst(z).num = z.num - 1
         /\ Head(z.list) \in Entry
<1>1. Head(z.list) \in Entry
  BY DEF Zone
<1>2. Head(z.list).size \in Nat
  BY <1>1 DEF Entry
<1>3. Tail(z.list) \in Seq(Entry) /\ Len(Tail(z.list)) = Len(z.list) - 1
  BY DEF Zone
<1> QED
  BY <1>1, <1>2, <1>3 DEF PopFirst, Zone

(* Emptying a zone for a garbage collection leaves a zone. *)
LEMMA EmptyOnGCType ==
  ASSUME NEW z \in Zone
  PROVE  EmptyOnGC(z) \in Zone /\ EmptyOnGC(z).list = << >>
         /\ EmptyOnGC(z).num = z.num
<1>1. << >> \in Seq(Entry) /\ z.num \in Int
  BY DEF Zone
<1> QED
  BY <1>1 DEF EmptyOnGC, Zone

-----------------------------------------------------------------------------
(* BytesOf.  The library's induction takes an operator, which the provers  *)
(* cannot instantiate; that < is well-founded is a fact about sets, and    *)
(* enough to go up a list.                                                 *)

(* Induction over the natural numbers, for a set instead of an operator.   *)
LEMMA SetInduction ==
  ASSUME NEW S, 0 \in S, \A n \in Nat : n \in S => n + 1 \in S
  PROVE  Nat \subseteq S
<1> DEFINE R == OpToRel(<, Nat)
           T == Nat \ S
<1>1. IsWellFoundedOn(R, Nat)
  BY NatLessThanWellFounded, Zenon
<1>2. \A x, y \in Nat : y < x => <<y, x>> \in R
  BY DEF OpToRel
<1> HIDE DEF R
<1> SUFFICES ASSUME T # {} PROVE FALSE
  OBVIOUS
<1>3. PICK x \in T : \A y \in T : ~(<<y, x>> \in R)
  BY <1>1, WFMin
<1>4. x # 0 /\ x - 1 \in Nat /\ x - 1 < x /\ x - 1 \in T
  <2>1. x \in Nat /\ x # 0
    OBVIOUS
  <2>2. x - 1 \in Nat /\ (x - 1) + 1 = x
    BY <2>1
  <2> QED  BY <2>1, <2>2
<1> QED BY <1>2, <1>3, <1>4

(* The sums of the first sizes of a list. *)
Sums(list, f) ==
  f = [n \in 0 .. Len(list) |-> IF n = 0 THEN 0 ELSE f[n - 1] + list[n].size]

LEMMA SumsExist ==
  ASSUME NEW list \in Seq(Entry)
  PROVE  \E f : Sums(list, f)
<1> DEFINE Upto(m, f) == f = [n \in 0 .. m |-> IF n = 0 THEN 0
                                            ELSE f[n - 1] + list[n].size]
           S == {m \in Nat : \E f : Upto(m, f)}
<1>1. 0 \in S
  <2> DEFINE f == [n \in 0 .. 0 |-> 0]
  <2>1. Upto(0, f)
    OBVIOUS
  <2> QED BY <2>1
<1>2. ASSUME NEW m \in Nat, m \in S PROVE m + 1 \in S
  <2>1. PICK f : Upto(m, f)
    BY <1>2
  <2> DEFINE g == [n \in 0 .. m + 1 |->
                     IF n = m + 1 THEN f[m] + list[m + 1].size ELSE f[n]]
  <2>2. \A n \in 0 .. m : f[n] = IF n = 0 THEN 0 ELSE f[n - 1] + list[n].size
    BY <2>1
  <2>3. ASSUME NEW n \in 0 .. m + 1
        PROVE  g[n] = IF n = 0 THEN 0 ELSE g[n - 1] + list[n].size
    <3>1. CASE n = m + 1
      BY <3>1
    <3>2. CASE n = 0
      BY <2>2, <3>2
    <3>3. CASE n # 0 /\ n # m + 1
      <4>1. n \in 0 .. m /\ n - 1 \in 0 .. m /\ n - 1 \in 0 .. m + 1 /\ n - 1 # m + 1
        BY <3>3
      <4>2. g[n] = f[n] /\ g[n - 1] = f[n - 1]
        BY <3>3, <4>1
      <4> QED BY <2>2, <3>3, <4>1, <4>2
    <3> QED BY <3>1, <3>2, <3>3
  <2>4. g = [n \in 0 .. m + 1 |-> g[n]]
    OBVIOUS
  <2> HIDE DEF g
  <2>5. Upto(m + 1, g)
    BY <2>3, <2>4
  <2> HIDE DEF Upto
  <2>6. \E h : Upto(m + 1, h)
    BY <2>5
  <2> QED BY <2>6
<1>3. Nat \subseteq S
  <2> HIDE DEF S
  <2> QED BY <1>1, <1>2, SetInduction
<1>4. Len(list) \in S
  BY <1>3
<1> QED BY <1>4 DEF Sums

LEMMA BytesOfSums ==
  ASSUME NEW list \in Seq(Entry)
  PROVE  \E f : Sums(list, f) /\ BytesOf(list) = f[Len(list)]
<1> DEFINE f == CHOOSE f : Sums(list, f)
<1>1. Sums(list, f)
  BY SumsExist
<1>2. BytesOf(list) = f[Len(list)]
  BY DEF BytesOf, Sums
<1> QED BY <1>1, <1>2

(* The sums of a list, at its start and at each of its elements. *)
LEMMA SumsSteps ==
  ASSUME NEW list \in Seq(Entry), NEW f, Sums(list, f)
  PROVE  /\ f[0] = 0
         /\ \A n \in 1 .. Len(list) : f[n] = f[n - 1] + list[n].size
         /\ \A n \in 0 .. Len(list) : f[n] \in Nat
<1>1. Len(list) \in Nat /\ \A n \in 1 .. Len(list) : list[n].size \in Nat
  <2>1. Len(list) \in Nat /\ \A n \in 1 .. Len(list) : list[n] \in Entry
    OBVIOUS
  <2> QED BY <2>1 DEF Entry
<1>2. f[0] = 0 /\ \A n \in 1 .. Len(list) : f[n] = f[n - 1] + list[n].size
  <2>1. \A n \in 0 .. Len(list) :
          f[n] = IF n = 0 THEN 0 ELSE f[n - 1] + list[n].size
    BY Zenon DEF Sums
  <2>2. 0 \in 0 .. Len(list) /\ \A n \in 1 .. Len(list) : n \in 0 .. Len(list) /\ n # 0
    BY <1>1
  <2> QED BY <2>1, <2>2, Zenon
<1> DEFINE S == {n \in Nat : n <= Len(list) => f[n] \in Nat}
<1>3. 0 \in S
  BY <1>2
<1>4. ASSUME NEW n \in Nat, n \in S PROVE n + 1 \in S
  <2>1. n + 1 <= Len(list) => n + 1 \in 1 .. Len(list) /\ f[n + 1] = f[n] + list[n + 1].size
    BY <1>1, <1>2
  <2> QED BY <1>1, <1>4, <2>1
<1>5. Nat \subseteq S
  <2> HIDE DEF S
  <2> QED BY <1>3, <1>4, SetInduction
<1> QED BY <1>1, <1>2, <1>5

(* An empty list has no bytes. *)
LEMMA BytesOfEmpty == BytesOf(<< >>) = 0
<1>1. << >> \in Seq(Entry) /\ Len(<< >>) = 0
  OBVIOUS
<1> QED BY <1>1, BytesOfSums, SumsSteps

(* The bytes of a list are a number of bytes. *)
LEMMA BytesOfType ==
  ASSUME NEW list \in Seq(Entry)
  PROVE  BytesOf(list) \in Nat
<1>1. Len(list) \in 0 .. Len(list)
  OBVIOUS
<1> QED BY <1>1, BytesOfSums, SumsSteps

(* A list with one more element has its bytes more. *)
LEMMA BytesOfAppend ==
  ASSUME NEW list \in Seq(Entry), NEW e \in Entry
  PROVE  BytesOf(Append(list, e)) = BytesOf(list) + e.size
<1> DEFINE more == Append(list, e)
<1>1. /\ more \in Seq(Entry) /\ Len(list) \in Nat /\ Len(more) = Len(list) + 1
      /\ more[Len(list) + 1] = e
      /\ \A n \in 1 .. Len(list) : more[n] = list[n]
  OBVIOUS
<1> HIDE DEF more
<1>2. PICK f : Sums(list, f) /\ BytesOf(list) = f[Len(list)]
  BY BytesOfSums
<1>3. PICK g : Sums(more, g) /\ BytesOf(more) = g[Len(more)]
  BY <1>1, BytesOfSums
<1>4. /\ f[0] = 0
      /\ \A n \in 1 .. Len(list) : f[n] = f[n - 1] + list[n].size
  BY <1>2, SumsSteps
<1>5. /\ g[0] = 0
      /\ \A n \in 1 .. Len(list) + 1 : g[n] = g[n - 1] + more[n].size
  BY <1>1, <1>3, SumsSteps
<1> DEFINE S == {n \in Nat : n <= Len(list) => f[n] = g[n]}
<1>6. 0 \in S
  BY <1>4, <1>5
<1>7. ASSUME NEW n \in Nat, n \in S PROVE n + 1 \in S
  <2>1. ASSUME n + 1 <= Len(list) PROVE f[n + 1] = g[n + 1]
    <3>1. n + 1 \in 1 .. Len(list) /\ n + 1 \in 1 .. Len(list) + 1 /\ n <= Len(list)
          /\ (n + 1) - 1 = n
      BY <1>1, <2>1
    <3> QED BY <1>1, <1>4, <1>5, <1>7, <3>1
  <2> QED BY <2>1
<1>8. Nat \subseteq S
  <2> HIDE DEF S
  <2> QED BY <1>6, <1>7, SetInduction
<1>9. f[Len(list)] = g[Len(list)]
  BY <1>1, <1>8
<1>10. g[Len(list) + 1] = g[Len(list)] + e.size
  <2>1. Len(list) + 1 \in 1 .. Len(list) + 1 /\ (Len(list) + 1) - 1 = Len(list)
    BY <1>1
  <2> QED BY <1>1, <1>5, <2>1
<1> QED BY <1>1, <1>2, <1>3, <1>9, <1>10 DEF more

(* A list without its first element has its bytes less. *)
LEMMA BytesOfTail ==
  ASSUME NEW list \in Seq(Entry), list # << >>
  PROVE  BytesOf(list) = Head(list).size + BytesOf(Tail(list))
<1> DEFINE rest == Tail(list)
<1>1. /\ rest \in Seq(Entry) /\ Len(rest) \in Nat /\ Len(list) = Len(rest) + 1
      /\ Head(list) = list[1] /\ list[1] \in Entry
      /\ \A n \in 1 .. Len(rest) : rest[n] = list[n + 1]
  OBVIOUS
<1> HIDE DEF rest
<1>2. PICK f : Sums(list, f) /\ BytesOf(list) = f[Len(list)]
  BY BytesOfSums
<1>3. PICK g : Sums(rest, g) /\ BytesOf(rest) = g[Len(rest)]
  BY <1>1, BytesOfSums
<1>4. /\ f[0] = 0
      /\ \A n \in 1 .. Len(rest) + 1 : f[n] = f[n - 1] + list[n].size
  BY <1>1, <1>2, SumsSteps
<1>5. /\ g[0] = 0
      /\ \A n \in 1 .. Len(rest) : g[n] = g[n - 1] + rest[n].size
      /\ \A n \in 0 .. Len(rest) : g[n] \in Nat
  BY <1>1, <1>3, SumsSteps
<1> DEFINE b == list[1].size
           S == {n \in Nat : n <= Len(rest) => f[n + 1] = b + g[n]}
<1>6. b \in Nat
  BY <1>1 DEF Entry
<1> HIDE DEF b
<1>7. 0 \in S
  <2>1. 1 \in 1 .. Len(rest) + 1 /\ 1 - 1 = 0 /\ 0 + 1 = 1
    BY <1>1
  <2>2. f[1] = b
    BY <1>4, <1>6, <2>1 DEF b
  <2> QED BY <1>5, <1>6, <2>2
<1>8. ASSUME NEW n \in Nat, n \in S PROVE n + 1 \in S
  <2>1. ASSUME n + 1 <= Len(rest) PROVE f[(n + 1) + 1] = b + g[n + 1]
    <3>1. /\ n + 1 \in 1 .. Len(rest) /\ n \in 0 .. Len(rest) /\ n <= Len(rest)
          /\ (n + 1) + 1 \in 1 .. Len(rest) + 1
          /\ (n + 1) - 1 = n /\ ((n + 1) + 1) - 1 = n + 1
      BY <1>1, <2>1
    <3>2. f[n + 1] = b + g[n]
      BY <1>8, <3>1
    <3>3. f[(n + 1) + 1] = f[n + 1] + list[(n + 1) + 1].size
      BY <1>4, <3>1
    <3>4. g[n + 1] = g[n] + rest[n + 1].size
      BY <1>5, <3>1
    <3>5. rest[n + 1] = list[(n + 1) + 1] /\ rest[n + 1] \in Entry
      BY <1>1, <3>1
    <3>6. g[n] \in Nat /\ rest[n + 1].size \in Nat
      BY <1>5, <3>1, <3>5 DEF Entry
    <3> QED BY <1>6, <3>2, <3>3, <3>4, <3>5, <3>6
  <2> QED BY <2>1
<1>9. Nat \subseteq S
  <2> HIDE DEF S
  <2> QED BY <1>7, <1>8, SetInduction
<1>10. f[Len(rest) + 1] = b + g[Len(rest)]
  BY <1>1, <1>9
<1> QED BY <1>1, <1>2, <1>3, <1>10 DEF rest, b
-----------------------------------------------------------------------------
(* Types.                                                                  *)

TypeInv == TypeOK /\ Located

(* No step makes a tracked chunk untracked. *)
StaysTracked == \A p \in Ptr : info[p] # Untracked => info'[p] # Untracked

(* The kinds of records. *)
LEMMA Records ==
  /\ NoPtr \notin Ptr /\ NoThread \notin Thread /\ NoId \notin Id
  /\ \A id \in Id : \A st \in Status :
       /\ [status |-> st, id |-> id] \in Info
       /\ [status |-> st, id |-> id] # Untracked
  /\ Untracked \in Info
  /\ \A i \in Info : i # Untracked =>
       /\ i.status \in Status /\ i.id \in Id
       /\ \A st \in Status : /\ [i EXCEPT !.status = st] \in Info
                             /\ [i EXCEPT !.status = st] # Untracked
                             /\ [i EXCEPT !.status = st].id = i.id
  /\ \A i \in Info : i.status = "NONE" => i = Untracked
BY RuntimeAssumption DEF Info, Status, Untracked

(* addCMAAllocChunk makes a list of addresses of one. *)
LEMMA AddType ==
  ASSUME NEW list \in Seq(Ptr), NEW p \in Ptr
  PROVE  AddCMAAllocChunk(list, p) \in Seq(Ptr)
BY DEF AddCMAAllocChunk

(* allocateCMAChunkImpl keeps the types, and loses the record of no chunk. *)
LEMMA AllocateImplType ==
  ASSUME NEW i \in [Ptr -> Info], NEW s \in [Ptr -> Shadow],
         NEW p \in Ptr, NEW id \in Id, alz \in [Id -> Seq(Ptr)],
         AllocateImpl(i, s, p, id)
  PROVE  /\ info' \in [Ptr -> Info]
         /\ shadow' \in [Ptr -> Shadow]
         /\ alz' \in [Id -> Seq(Ptr)]
         /\ \A q \in Ptr : i[q] # Untracked => info'[q] # Untracked
<1>1. CASE /\ info'   = [i EXCEPT ![p] = [status |-> "ALLOCATED", id |-> id]]
           /\ shadow' = [s EXCEPT ![p] = "chunk"]
           /\ alz'    = [alz EXCEPT ![id] = AddCMAAllocChunk(@, p)]
  <2>1. AddCMAAllocChunk(alz[id], p) \in Seq(Ptr)
    BY AddType
  <2>2. /\ [status |-> "ALLOCATED", id |-> id] \in Info
        /\ [status |-> "ALLOCATED", id |-> id] # Untracked
    BY Records DEF Status
  <2> QED
    BY <1>1, <2>1, <2>2 DEF Shadow
<1>2. CASE info' = i /\ shadow' = s /\ UNCHANGED alz
  BY <1>2
<1> QED
  BY <1>1, <1>2 DEF AllocateImpl

(* pushAndPopFromQuarantine keeps the types; the thread goes on with the   *)
(* body of FREE, or takes chunks out of the zone.                          *)
LEMMA PushAndPopType ==
  ASSUME NEW t \in Thread, NEW p \in Ptr, NEW id \in Id,
         NEW holder \in Thread \cup {NoThread}, TypeOK,
         PushAndPop(t, p, id, holder)
  PROVE  /\ zone' \in [Id -> Zone]
         /\ ret' \in [Thread -> Ptr \cup {NoPtr}]
         /\ mutex' \in Thread \cup {NoThread}
         /\ \/ pc' = [pc EXCEPT ![t] = "cmaFree"]
            \/ pc' = [pc EXCEPT ![t] = "shrink"]
<1>1. PushPtr(zone[id], p) \in Zone
  BY PushPtrType DEF TypeOK
<1>2. CASE ~QuarantineOn
  BY <1>2 DEF PushAndPop, TypeOK, Goto, LeaveWith
<1>3. CASE QuarantineOn /\ BelowLimits(zone[id])
  BY <1>1, <1>3 DEF PushAndPop, TypeOK, Goto, LeaveWith
<1>4. CASE QuarantineOn /\ ~BelowLimits(zone[id])
  BY <1>4 DEF PushAndPop, TypeOK, Goto
<1> QED
  BY <1>2, <1>3, <1>4 DEF PushAndPop

(* Returning to the program keeps the types. *)
LEMMA ReturnType ==
  ASSUME NEW t \in Thread, TypeOK, Return(t)
  PROVE  /\ pc'    = [pc EXCEPT ![t] = "idle"]
         /\ pc'    \in [Thread -> Location]
         /\ ptr'   \in [Thread -> Ptr \cup {NoPtr}]
         /\ fresh' \in [Thread -> Ptr \cup {NoPtr}]
         /\ ret'   \in [Thread -> Ptr \cup {NoPtr}]
         /\ zid'   \in [Thread -> Id \cup {NoId}]
         /\ inCma' \in [Thread -> BOOLEAN]
BY DEF Return, Goto, TypeOK, Location

LEMMA InitTypeInv == Init => TypeInv
<1> SUFFICES ASSUME Init PROVE TypeInv
  OBVIOUS
<1>1. [id \in Id |-> EmptyZone] \in [Id -> Zone]
  BY EmptyZoneType
<1>2. [id \in Id |-> << >>] \in [Id -> Seq(Ptr)]
  OBVIOUS
<1>3. [p \in Ptr |-> Untracked] \in [Ptr -> Info]
  BY DEF Info
<1>4. TypeOK
  BY <1>1, <1>2, <1>3, RuntimeAssumption DEF Init, TypeOK, Shadow, Location
<1>5. Located
  BY DEF Init, Located, Freeing, Reallocating
<1> QED
  BY <1>4, <1>5 DEF TypeInv

(* ALLOC. *)
LEMMA AllocTypeInv ==
  ASSUME TypeInv, NEW t \in Thread,
         \/ \E id \in Id, p \in Ptr : CmaAlloc(t, id, p)
         \/ AllocateCMAChunk(t)
  PROVE  TypeInv'
<1>1. ASSUME NEW id \in Id, NEW p \in Ptr, CmaAlloc(t, id, p)
      PROVE  TypeInv'
  BY <1>1, Records
  DEF CmaAlloc, TypeInv, TypeOK, Located, Goto, Location, Freeing, Reallocating,
      runtime
<1>2. ASSUME AllocateCMAChunk(t)
      PROVE  TypeInv'
  <2>1. fresh[t] \in Ptr /\ zid[t] \in Id
    BY <1>2, RuntimeAssumption
    DEF AllocateCMAChunk, TypeInv, TypeOK, Located
  <2>2. /\ info' \in [Ptr -> Info] /\ shadow' \in [Ptr -> Shadow]
        /\ alz' \in [Id -> Seq(Ptr)] /\ StaysTracked
    BY <1>2, <2>1, AllocateImplType
    DEF AllocateCMAChunk, TypeInv, TypeOK, StaysTracked
  <2>3. Return(t)
    BY <1>2 DEF AllocateCMAChunk
  <2>4. TypeOK'
    BY <1>2, <2>1, <2>2, <2>3, ReturnType DEF AllocateCMAChunk, TypeInv, TypeOK
  <2>5. Located'
    BY <2>2, <2>3
    DEF TypeInv, TypeOK, Located, Return, Goto, StaysTracked, Freeing,
        Reallocating
  <2> QED
    BY <2>4, <2>5 DEF TypeInv
<1> QED
  BY <1>1, <1>2

(* A step inside a hook: the thread goes to l with the addresses it has.   *)
LEMMA StepTypeInv ==
  ASSUME TypeInv, NEW t \in Thread, NEW l \in Location \ {"idle", "allocate", "collect"},
         pc[t] # "idle", pc' = [pc EXCEPT ![t] = l],
         info' \in [Ptr -> Info], StaysTracked, shadow' \in [Ptr -> Shadow],
         zone' \in [Id -> Zone], mutex' \in Thread \cup {NoThread},
         ret' \in [Thread -> Ptr \cup {NoPtr}],
         UNCHANGED <<alz, ptr, fresh, zid, inCma, owner, prog, faulty>>,
         l \in Freeing \cup {"reReport"} => ptr[t] # NoPtr,
         l \in Reallocating => fresh[t] = NoPtr,
         l \in {"report", "shrink", "reReport"} => info'[ptr[t]] # Untracked
  PROVE  TypeInv'
<1>1. TypeOK'
  BY DEF TypeInv, TypeOK
<1>2. ASSUME NEW u \in Thread
      PROVE  /\ pc'[u] \in {"idle", "collect"} => fresh'[u] = NoPtr
             /\ pc'[u] \in {"idle", "allocate", "collect"} => ptr'[u] = NoPtr
             /\ pc'[u] # "idle" => zid'[u] \in Id
             /\ pc'[u] = "allocate" => fresh'[u] # NoPtr
             /\ pc'[u] \in Freeing => ptr'[u] # NoPtr
             /\ pc'[u] \in Reallocating => fresh'[u] = NoPtr
             /\ pc'[u] = "reReport" => ptr'[u] # NoPtr
             /\ pc'[u] \in {"report", "shrink", "reReport"} =>
                  info'[ptr'[u]] # Untracked
  <2>1. CASE u = t
    <3>1. pc'[u] = l /\ ptr'[u] = ptr[t] /\ fresh'[u] = fresh[t] /\ zid'[u] = zid[t]
      BY <2>1 DEF TypeInv, TypeOK
    <3>2. zid[t] \in Id
      BY DEF TypeInv, Located
    <3> QED
      BY <3>1, <3>2
  <2>2. CASE u # t
    <3>1. pc'[u] = pc[u] /\ ptr'[u] = ptr[u] /\ fresh'[u] = fresh[u] /\ zid'[u] = zid[u]
      BY <2>2 DEF TypeInv, TypeOK
    <3>2. pc[u] \in {"report", "shrink", "reReport"} => ptr[u] \in Ptr
      BY DEF TypeInv, TypeOK, Located, Freeing
    <3> QED
      BY <3>1, <3>2 DEF TypeInv, Located, StaysTracked
  <2> QED
    BY <2>1, <2>2
<1> QED
  BY <1>1, <1>2 DEF TypeInv, Located

(* FREE. *)
LEMMA FreeTypeInv ==
  ASSUME TypeInv, NEW t \in Thread,
         \/ \E id \in Id, p \in Ptr : FreeCall(t, p, id)
         \/ ReleaseInRealloc(t) \/ Release(t) \/ ReleaseAfterReport(t)
         \/ Shrink(t) \/ CmaFree(t)
  PROVE  TypeInv'
<1>1. ASSUME NEW id \in Id, NEW p \in Ptr, FreeCall(t, p, id)
      PROVE  TypeInv'
  BY <1>1, Records
  DEF FreeCall, TypeInv, TypeOK, Located, Goto, Location, Freeing, Reallocating,
      runtime
<1>2. ASSUME ReleaseInRealloc(t)
      PROVE  TypeInv'
  <2>1. pc[t] = "freeFast" /\ ptr[t] \in Ptr /\ info[ptr[t]] \in Info
    BY <1>2 DEF ReleaseInRealloc, TypeInv, TypeOK, Located, Freeing
  <2>2. CASE info[ptr[t]].status = "IN_REALLOC"
    <3>1. info[ptr[t]] # Untracked /\ info[ptr[t]].id \in Id
      BY <2>1, <2>2, Records DEF Untracked
    <3>2. /\ info' = [info EXCEPT ![ptr[t]].status = "DEALLOCATED"]
          /\ PushAndPop(t, ptr[t], info[ptr[t]].id, t)
      BY <1>2, <2>2 DEF ReleaseInRealloc
    <3>3. info' \in [Ptr -> Info] /\ StaysTracked /\ info'[ptr[t]] # Untracked
      BY <2>1, <3>1, <3>2, Records
      DEF TypeInv, TypeOK, StaysTracked, Status
    <3>4. /\ zone' \in [Id -> Zone]
          /\ ret' \in [Thread -> Ptr \cup {NoPtr}]
          /\ mutex' \in Thread \cup {NoThread}
          /\ \/ pc' = [pc EXCEPT ![t] = "cmaFree"]
             \/ pc' = [pc EXCEPT ![t] = "shrink"]
      BY <2>1, <3>1, <3>2, PushAndPopType DEF TypeInv
    <3>5. /\ UNCHANGED <<alz, ptr, fresh, zid, inCma, owner, prog, faulty>>
          /\ shadow' \in [Ptr -> Shadow] /\ ptr[t] # NoPtr
      BY <1>2, <2>1, Records DEF ReleaseInRealloc, TypeInv, TypeOK
    <3> QED
      BY <2>1, <3>3, <3>4, <3>5, StepTypeInv DEF Location, Reallocating
  <2>3. CASE info[ptr[t]].status # "IN_REALLOC"
    <3>1. /\ UNCHANGED <<info, zone, mutex, shadow, alz, ptr, fresh, zid, inCma,
                         owner, prog, faulty>>
          /\ ret' \in [Thread -> Ptr \cup {NoPtr}]
          /\ \/ pc' = [pc EXCEPT ![t] = "cmaFree"]
             \/ pc' = [pc EXCEPT ![t] = "freeSlow"]
      BY <1>2, <2>1, <2>3 DEF ReleaseInRealloc, TypeInv, TypeOK, Goto
    <3>2. /\ info' \in [Ptr -> Info] /\ StaysTracked /\ shadow' \in [Ptr -> Shadow]
          /\ zone' \in [Id -> Zone] /\ mutex' \in Thread \cup {NoThread}
          /\ ptr[t] # NoPtr
      BY <2>1, <3>1, Records DEF TypeInv, TypeOK, StaysTracked
    <3> QED
      BY <2>1, <3>1, <3>2, StepTypeInv DEF Location, Reallocating
  <2> QED
    BY <2>2, <2>3
<1>3. ASSUME \/ /\ pc[t] = "freeSlow"
                /\ info' = Released(info, ptr[t], zid[t])
                /\ shadow' = Poisoned(shadow, ptr[t])
                /\ PushAndPop(t, ptr[t], zid[t], t)
                /\ UNCHANGED <<alz, ptr, fresh, zid, inCma, owner, prog, faulty>>
             \/ ReleaseAfterReport(t)
      PROVE  TypeInv'
  <2>1. ptr[t] \in Ptr /\ zid[t] \in Id
    BY <1>3, RuntimeAssumption
    DEF Release, ReleaseAfterReport, TypeInv, TypeOK, Located, Freeing
  <2>2. PICK holder \in Thread \cup {NoThread} :
          PushAndPop(t, ptr[t], zid[t], holder)
    BY <1>3 DEF Release, ReleaseAfterReport, TypeInv, TypeOK
  <2>3. /\ [status |-> "DEALLOCATED", id |-> zid[t]] \in Info
        /\ [status |-> "DEALLOCATED", id |-> zid[t]] # Untracked
    BY <2>1, Records DEF Status
  <2>4. /\ info' = [info EXCEPT ![ptr[t]] =
                     [status |-> "DEALLOCATED", id |-> zid[t]]]
        /\ shadow' = [shadow EXCEPT ![ptr[t]] = "freed"]
        /\ UNCHANGED <<alz, ptr, fresh, zid, inCma, owner, prog, faulty>>
    BY <1>3 DEF Release, ReleaseAfterReport, Released, Poisoned
  <2>5. /\ info' \in [Ptr -> Info] /\ StaysTracked /\ info'[ptr[t]] # Untracked
        /\ shadow' \in [Ptr -> Shadow]
    BY <2>1, <2>3, <2>4 DEF TypeInv, TypeOK, StaysTracked, Shadow
  <2>6. /\ zone' \in [Id -> Zone]
        /\ ret' \in [Thread -> Ptr \cup {NoPtr}]
        /\ mutex' \in Thread \cup {NoThread}
        /\ \/ pc' = [pc EXCEPT ![t] = "cmaFree"]
           \/ pc' = [pc EXCEPT ![t] = "shrink"]
    BY <2>1, <2>2, PushAndPopType DEF TypeInv
  <2>7. TypeOK'
    BY <2>4, <2>5, <2>6 DEF TypeInv, TypeOK, Location
  <2>8. Located'
    BY <1>3, <2>1, <2>4, <2>5, <2>6
    DEF Release, ReleaseAfterReport, TypeInv, TypeOK, Located, StaysTracked,
        Freeing, Reallocating
  <2> QED
    BY <2>7, <2>8 DEF TypeInv
<1>4. ASSUME Release(t),
             \/ /\ info[ptr[t]] = Untracked
                /\ ret' = [ret EXCEPT ![t] = ptr[t]]
                /\ Goto(t, "cmaFree")
                /\ UNCHANGED <<info, shadow, zone, mutex>>
             \/ /\ FreedBefore(ptr[t], zid[t])
                /\ Goto(t, "report")
                /\ UNCHANGED <<info, shadow, zone, mutex, ret>>
      PROVE  TypeInv'
  <2>1. ptr[t] \in Ptr /\ zid[t] \in Id /\ info[ptr[t]] \in Info
    BY <1>4, RuntimeAssumption DEF Release, TypeInv, TypeOK, Located, Freeing
  <2>2. FreedBefore(ptr[t], zid[t]) => info[ptr[t]] # Untracked
    BY DEF FreedBefore, Untracked
  <2>3. \/ /\ ret' = [ret EXCEPT ![t] = ptr[t]]
           /\ pc' = [pc EXCEPT ![t] = "cmaFree"]
        \/ /\ info[ptr[t]] # Untracked
           /\ ret' = ret
           /\ pc' = [pc EXCEPT ![t] = "report"]
    BY <1>4, <2>2 DEF Goto
  <2>4. UNCHANGED <<info, shadow, zone, alz, mutex, ptr, fresh, zid, inCma,
                    owner, prog, faulty>>
    BY <1>4 DEF Release
  <2>5. /\ pc[t] = "freeSlow" /\ info' \in [Ptr -> Info] /\ StaysTracked
        /\ shadow' \in [Ptr -> Shadow] /\ zone' \in [Id -> Zone]
        /\ mutex' \in Thread \cup {NoThread}
        /\ ret' \in [Thread -> Ptr \cup {NoPtr}] /\ ptr[t] # NoPtr
    BY <1>4, <2>1, <2>3, <2>4, Records
    DEF Release, TypeInv, TypeOK, StaysTracked
  <2> QED
    BY <2>3, <2>4, <2>5, StepTypeInv DEF Location, Reallocating
<1>5. ASSUME Shrink(t)
      PROVE  TypeInv'
  <2> DEFINE id == info[ptr[t]].id
             z  == zone[id]
  <2>1. ptr[t] \in Ptr /\ id \in Id /\ z \in Zone
    BY <1>5, Records DEF Shrink, TypeInv, TypeOK, Located, Freeing
  <2>2. CASE z.list = << >>
    <3>1. PushPtr(z, ptr[t]) \in Zone
      BY <2>1, PushPtrType
    <3>2. LeaveWith(t, NoPtr, id, z, ptr[t])
      BY <1>5, <2>2 DEF Shrink
    <3> HIDE DEF id, z
    <3>3. /\ zone' = [zone EXCEPT ![id] = PushPtr(z, ptr[t])]
          /\ ret' = [ret EXCEPT ![t] = NoPtr]
          /\ mutex' = NoThread
          /\ pc' = [pc EXCEPT ![t] = "cmaFree"]
      BY <3>2 DEF LeaveWith, Goto
    <3>4. UNCHANGED <<info, shadow, alz, ptr, fresh, zid, inCma, owner, prog,
                      faulty>>
      BY <1>5 DEF Shrink
    <3>5. TypeOK'
      BY <2>1, <3>1, <3>3, <3>4 DEF TypeInv, TypeOK, Location
    <3>6. Located'
      BY <1>5, <3>3, <3>4
      DEF Shrink, TypeInv, TypeOK, Located, Freeing, Reallocating
    <3> QED
      BY <3>5, <3>6 DEF TypeInv
  <2>3. CASE z.list # << >> /\ IsChunkValid(Head(z.list).ptr, id)
    <3>1. PopFirst(z) \in Zone /\ Head(z.list) \in Entry
      BY <2>1, <2>3, PopFirstType
    <3>2. PushPtr(PopFirst(z), ptr[t]) \in Zone /\ Head(z.list).ptr \in Ptr
      BY <2>1, <3>1, PushPtrType DEF Entry
    <3>3. LeaveWith(t, Head(z.list).ptr, id, PopFirst(z), ptr[t])
      BY <1>5, <2>3 DEF Shrink
    <3> HIDE DEF id, z
    <3>4. /\ zone' = [zone EXCEPT ![id] = PushPtr(PopFirst(z), ptr[t])]
          /\ ret' = [ret EXCEPT ![t] = Head(z.list).ptr]
          /\ mutex' = NoThread
          /\ pc' = [pc EXCEPT ![t] = "cmaFree"]
      BY <3>3 DEF LeaveWith, Goto
    <3>5. UNCHANGED <<info, shadow, alz, ptr, fresh, zid, inCma, owner, prog,
                      faulty>>
      BY <1>5 DEF Shrink
    <3>6. TypeOK'
      BY <2>1, <3>2, <3>4, <3>5 DEF TypeInv, TypeOK, Location
    <3>7. Located'
      BY <1>5, <3>4, <3>5
      DEF Shrink, TypeInv, TypeOK, Located, Freeing, Reallocating
    <3> QED
      BY <3>6, <3>7 DEF TypeInv
  <2>4. CASE z.list # << >> /\ ~IsChunkValid(Head(z.list).ptr, id)
    <3>1. PopFirst(z) \in Zone
      BY <2>1, <2>4, PopFirstType
    <3>2. /\ zone' = [zone EXCEPT ![id] = PopFirst(z)]
          /\ UNCHANGED <<mutex, pc, ret>>
          /\ UNCHANGED <<info, shadow, alz, ptr, fresh, zid, inCma, owner, prog,
                         faulty>>
      BY <1>5, <2>4 DEF Shrink
    <3> HIDE DEF id, z
    <3>3. TypeOK'
      BY <2>1, <3>1, <3>2 DEF TypeInv, TypeOK
    <3>4. Located'
      BY <3>2 DEF TypeInv, Located, Freeing, Reallocating
    <3> QED
      BY <3>3, <3>4 DEF TypeInv
  <2> QED
    BY <2>2, <2>3, <2>4
<1>6. ASSUME CmaFree(t)
      PROVE  TypeInv'
  <2>1. owner' \in [Ptr -> Id \cup {NoId}]
    BY <1>6 DEF CmaFree, TypeInv, TypeOK
  <2>2. CASE inCma[t] /\ fresh[t] # NoPtr
    <3>1. /\ pc[t] = "cmaFree" /\ pc' = [pc EXCEPT ![t] = "reEnd"]
          /\ ret' = [ret EXCEPT ![t] = NoPtr]
          /\ inCma' = [inCma EXCEPT ![t] = FALSE]
          /\ UNCHANGED <<ptr, fresh, zid>>
          /\ UNCHANGED <<info, shadow, zone, alz, mutex, prog, faulty>>
      BY <1>6, <2>2 DEF CmaFree, Goto, runtime
    <3>2. TypeOK'
      BY <2>1, <3>1 DEF TypeInv, TypeOK, Location
    <3>3. Located'
      BY <3>1 DEF TypeInv, TypeOK, Located, Freeing, Reallocating
    <3> QED
      BY <3>2, <3>3 DEF TypeInv
  <2>3. CASE Return(t)
    BY <1>6, <2>1, <2>3, ReturnType
    DEF CmaFree, TypeInv, TypeOK, Located, Return, Goto, Freeing, Reallocating,
        runtime
  <2> QED
    BY <1>6, <2>2, <2>3 DEF CmaFree
<1>7. Release(t) => TypeInv'
  BY <1>3, <1>4 DEF Release
<1> QED
  BY <1>1, <1>2, <1>3, <1>5, <1>6, <1>7

(* REALLOC, up to its last hook. *)
LEMMA ReallocBodyTypeInv ==
  ASSUME TypeInv, NEW t \in Thread,
         \/ \E id \in Id, p \in Ptr \cup {NoPtr} : ReallocCall(t, p, id)
         \/ ReallocateCMAChunkStart(t) \/ StartAfterReport(t)
         \/ CmaReallocInPlace(t) \/ CmaReallocFail(t) \/ CmaReallocZero(t)
         \/ \E q \in Ptr : CmaReallocMove(t, q) \/ CmaReallocMoveDirect(t, q)
  PROVE  TypeInv'
<1>1. ASSUME NEW id \in Id, NEW p \in Ptr \cup {NoPtr}, ReallocCall(t, p, id)
      PROVE  TypeInv'
  <2>1. prog' \in [Ptr -> {"unknown", "live", "moving", "dangling"}]
    BY <1>1 DEF ReallocCall, TypeInv, TypeOK
  <2> QED
    BY <1>1, <2>1, Records
    DEF ReallocCall, TypeInv, TypeOK, Located, Goto, Location, Freeing,
        Reallocating, runtime
<1>2. ASSUME NEW p \in Ptr, info[p] # Untracked, OpenForRealloc(p), TypeOK
      PROVE  /\ info' \in [Ptr -> Info] /\ StaysTracked
             /\ shadow' \in [Ptr -> Shadow]
  BY <1>2, Records
  DEF OpenForRealloc, TypeOK, StaysTracked, Status, Shadow
<1>3. ASSUME ReallocateCMAChunkStart(t)
      PROVE  TypeInv'
  <2>1. /\ pc[t] = "reStart" /\ ptr[t] \in Ptr \cup {NoPtr}
        /\ TltGet(ptr[t]) # Untracked =>
             ptr[t] \in Ptr /\ info[ptr[t]] # Untracked
    BY <1>3 DEF ReallocateCMAChunkStart, TypeInv, TypeOK, TltGet
  <2>2. /\ zone' \in [Id -> Zone] /\ mutex' \in Thread \cup {NoThread}
        /\ ret' \in [Thread -> Ptr \cup {NoPtr}] /\ fresh[t] = NoPtr
        /\ UNCHANGED <<alz, ptr, fresh, zid, inCma, owner, prog, faulty>>
    BY <1>3, <2>1
    DEF ReallocateCMAChunkStart, TypeInv, TypeOK, Located, Reallocating
  <2>3. CASE TltGet(ptr[t]) = Untracked
    <3>1. pc' = [pc EXCEPT ![t] = "reBody"] /\ UNCHANGED <<info, shadow>>
      BY <1>3, <2>3 DEF ReallocateCMAChunkStart, Goto
    <3>2. info' \in [Ptr -> Info] /\ StaysTracked /\ shadow' \in [Ptr -> Shadow]
      BY <3>1 DEF TypeInv, TypeOK, StaysTracked
    <3> QED
      BY <2>1, <2>2, <3>1, <3>2, StepTypeInv DEF Location, Freeing
  <2>4. CASE TltGet(ptr[t]) # Untracked /\ FreedBefore(ptr[t], zid[t])
    <3>1. pc' = [pc EXCEPT ![t] = "reReport"] /\ UNCHANGED <<info, shadow>>
      BY <1>3, <2>4 DEF ReallocateCMAChunkStart, Goto
    <3>2. /\ info' \in [Ptr -> Info] /\ StaysTracked /\ shadow' \in [Ptr -> Shadow]
          /\ ptr[t] # NoPtr /\ info'[ptr[t]] # Untracked
      BY <2>1, <2>4, <3>1, Records DEF TypeInv, TypeOK, StaysTracked
    <3> QED
      BY <2>1, <2>2, <3>1, <3>2, StepTypeInv DEF Location, Freeing
  <2>5. CASE TltGet(ptr[t]) # Untracked /\ ~FreedBefore(ptr[t], zid[t])
    <3>1. OpenForRealloc(ptr[t]) /\ pc' = [pc EXCEPT ![t] = "reBody"]
      BY <1>3, <2>5 DEF ReallocateCMAChunkStart, Goto
    <3>2. /\ info' \in [Ptr -> Info] /\ StaysTracked
          /\ shadow' \in [Ptr -> Shadow]
      BY <1>2, <2>1, <2>5, <3>1 DEF TypeInv
    <3> QED
      BY <2>1, <2>2, <3>1, <3>2, StepTypeInv DEF Location, Freeing
  <2> QED
    BY <2>3, <2>4, <2>5
<1>4. ASSUME StartAfterReport(t)
      PROVE  TypeInv'
  <2>1. /\ pc[t] = "reReport" /\ ptr[t] \in Ptr /\ info[ptr[t]] # Untracked
        /\ OpenForRealloc(ptr[t]) /\ pc' = [pc EXCEPT ![t] = "reBody"]
        /\ mutex' = NoThread
    BY <1>4 DEF StartAfterReport, TypeInv, TypeOK, Located, Goto
  <2>2. /\ info' \in [Ptr -> Info] /\ StaysTracked
        /\ shadow' \in [Ptr -> Shadow]
    BY <1>2, <2>1 DEF TypeInv
  <2>3. /\ UNCHANGED <<zone, alz, ptr, fresh, ret, zid, inCma, owner, prog,
                       faulty>>
        /\ zone' \in [Id -> Zone] /\ mutex' \in Thread \cup {NoThread}
        /\ ret' \in [Thread -> Ptr \cup {NoPtr}] /\ fresh[t] = NoPtr
    BY <1>4, <2>1
    DEF StartAfterReport, TypeInv, TypeOK, Located, Reallocating
  <2> QED
    BY <2>1, <2>2, <2>3, StepTypeInv DEF Location, Freeing
<1>5. ASSUME CmaReallocInPlace(t) \/ CmaReallocFail(t)
      PROVE  TypeInv'
  <2>1. /\ pc[t] = "reBody" /\ pc' = [pc EXCEPT ![t] = "reEnd"]
        /\ UNCHANGED <<info, shadow, zone, alz, mutex, ptr, ret, zid, inCma,
                       owner, prog, faulty>>
        /\ fresh' = fresh \/ fresh' = [fresh EXCEPT ![t] = ptr[t]]
    BY <1>5 DEF CmaReallocInPlace, CmaReallocFail, Goto, runtime
  <2>2. TypeOK'
    BY <2>1 DEF TypeInv, TypeOK, Location
  <2>3. Located'
    BY <2>1 DEF TypeInv, TypeOK, Located, Freeing, Reallocating
  <2> QED
    BY <2>2, <2>3 DEF TypeInv
<1>6. ASSUME pc[t] = "reBody", ptr[t] # NoPtr, CallFree(t)
      PROVE  /\ inCma' \in [Thread -> BOOLEAN]
             /\ prog' \in [Ptr -> {"unknown", "live", "moving", "dangling"}]
             /\ ret' \in [Thread -> Ptr \cup {NoPtr}]
             /\ \/ pc' = [pc EXCEPT ![t] = "freeFast"]
                \/ pc' = [pc EXCEPT ![t] = "cmaFree"]
  BY <1>6 DEF CallFree, TypeInv, TypeOK, Goto
<1>7. ASSUME CmaReallocZero(t)
      PROVE  TypeInv'
  <2>1. /\ pc[t] = "reBody" /\ ptr[t] # NoPtr /\ CallFree(t)
        /\ UNCHANGED <<info, shadow, zone, alz, mutex, ptr, fresh, zid, owner,
                       faulty>>
    BY <1>7 DEF CmaReallocZero, runtime
  <2>2. /\ inCma' \in [Thread -> BOOLEAN]
        /\ prog' \in [Ptr -> {"unknown", "live", "moving", "dangling"}]
        /\ ret' \in [Thread -> Ptr \cup {NoPtr}]
        /\ \/ pc' = [pc EXCEPT ![t] = "freeFast"]
           \/ pc' = [pc EXCEPT ![t] = "cmaFree"]
    BY <1>6, <2>1
  <2>3. TypeOK'
    BY <2>1, <2>2 DEF TypeInv, TypeOK, Location
  <2>4. Located'
    BY <2>1, <2>2 DEF TypeInv, TypeOK, Located, Freeing, Reallocating
  <2> QED
    BY <2>3, <2>4 DEF TypeInv
<1>8. ASSUME NEW q \in Ptr, CmaReallocMove(t, q)
      PROVE  TypeInv'
  <2>1. /\ pc[t] = "reBody" /\ ptr[t] # NoPtr /\ CallFree(t)
        /\ owner' = [owner EXCEPT ![q] = zid[t]]
        /\ fresh' = [fresh EXCEPT ![t] = q]
        /\ UNCHANGED <<info, shadow, zone, alz, mutex, ptr, zid, faulty>>
    BY <1>8 DEF CmaReallocMove, runtime
  <2>2. /\ inCma' \in [Thread -> BOOLEAN]
        /\ prog' \in [Ptr -> {"unknown", "live", "moving", "dangling"}]
        /\ ret' \in [Thread -> Ptr \cup {NoPtr}]
        /\ \/ pc' = [pc EXCEPT ![t] = "freeFast"]
           \/ pc' = [pc EXCEPT ![t] = "cmaFree"]
    BY <1>6, <2>1
  <2>3. TypeOK'
    BY <2>1, <2>2 DEF TypeInv, TypeOK, Location
  <2>4. Located'
    BY <2>1, <2>2 DEF TypeInv, TypeOK, Located, Freeing, Reallocating
  <2> QED
    BY <2>3, <2>4 DEF TypeInv
<1>9. ASSUME NEW q \in Ptr, CmaReallocMoveDirect(t, q)
      PROVE  TypeInv'
  BY <1>9
  DEF CmaReallocMoveDirect, TypeInv, TypeOK, Located, Goto, Location, Freeing,
      Reallocating, runtime
<1> QED
  BY <1>1, <1>3, <1>4, <1>5, <1>7, <1>8, <1>9

(* The last hook of REALLOC. *)
LEMMA ReallocEndTypeInv ==
  ASSUME TypeInv, NEW t \in Thread,
         ReallocateEndNull(t) \/ ReallocateCMAChunkEnd(t)
  PROVE  TypeInv'
<1>1. ASSUME ReallocateEndNull(t)
      PROVE  TypeInv'
  BY <1>1, ReturnType
  DEF ReallocateEndNull, TypeInv, TypeOK, Located, Return, Goto, Freeing,
      Reallocating, runtime
<1>2. ASSUME ReallocateCMAChunkEnd(t)
      PROVE  TypeInv'
  <2> DEFINE old   == ptr[t]
             moved == old # fresh[t] /\ TltGet(old) # Untracked
             i     == IF moved THEN Released(info, old, zid[t])
                      ELSE IF old = fresh[t] /\ TltGet(old) # Untracked
                           THEN [info EXCEPT ![old].status = "DEALLOCATED"]
                           ELSE info
             s     == IF moved THEN Poisoned(shadow, old) ELSE shadow
  <2>1. fresh[t] \in Ptr /\ zid[t] \in Id /\ old \in Ptr \cup {NoPtr}
    BY <1>2 DEF ReallocateCMAChunkEnd, TypeInv, TypeOK, Located
  <2>2. TltGet(old) # Untracked => old \in Ptr /\ info[old] # Untracked
    BY <2>1 DEF TltGet
  <2>3. /\ i \in [Ptr -> Info]
        /\ \A q \in Ptr : info[q] # Untracked => i[q] # Untracked
    BY <2>1, <2>2, Records DEF TypeInv, TypeOK, Released, Status
  <2>4. s \in [Ptr -> Shadow]
    BY <2>2 DEF TypeInv, TypeOK, Poisoned, Shadow
  <2>5. AllocateImpl(i, s, fresh[t], zid[t]) /\ Return(t)
    BY <1>2 DEF ReallocateCMAChunkEnd
  <2>6. /\ prog' = [prog EXCEPT ![fresh[t]] = "live"]
        /\ UNCHANGED <<zone, mutex, owner, faulty>>
    BY <1>2 DEF ReallocateCMAChunkEnd
  <2> HIDE DEF i, s, old, moved
  <2>7. /\ info' \in [Ptr -> Info] /\ shadow' \in [Ptr -> Shadow]
        /\ alz' \in [Id -> Seq(Ptr)]
        /\ \A q \in Ptr : i[q] # Untracked => info'[q] # Untracked
    BY <2>1, <2>3, <2>4, <2>5, AllocateImplType DEF TypeInv, TypeOK
  <2>8. TypeOK'
    BY <2>5, <2>6, <2>7, ReturnType DEF TypeInv, TypeOK
  <2>9. Located'
    BY <2>3, <2>5, <2>7
    DEF TypeInv, TypeOK, Located, Return, Goto, Freeing, Reallocating
  <2> QED
    BY <2>8, <2>9 DEF TypeInv
<1> QED
  BY <1>1, <1>2

(* CLEAR and GC. *)
LEMMA ClearTypeInv ==
  ASSUME TypeInv, NEW t \in Thread, NEW id \in Id,
         ClearCMAChunks(t, id) \/ EmptyQuarantineOnGC(t, id)
  PROVE  TypeInv'
<1>1. ASSUME ClearCMAChunks(t, id)
      PROVE  TypeInv'
  <2>1. info' \in [Ptr -> Info] /\ StaysTracked
    <3>1. /\ [status |-> "DEALLOCATED", id |-> id] \in Info
          /\ [status |-> "DEALLOCATED", id |-> id] # Untracked
      BY Records DEF Status
    <3> QED
      BY <1>1, <3>1 DEF ClearCMAChunks, TypeInv, TypeOK, StaysTracked
  <2>2. /\ shadow' \in [Ptr -> Shadow]
        /\ alz' \in [Id -> Seq(Ptr)]
        /\ owner' \in [Ptr -> Id \cup {NoId}]
        /\ prog' \in [Ptr -> {"unknown", "live", "moving", "dangling"}]
        /\ UNCHANGED <<zone, mutex, hooks, faulty>>
    BY <1>1 DEF ClearCMAChunks, TypeInv, TypeOK, Shadow
  <2> QED
    BY <2>1, <2>2
    DEF TypeInv, TypeOK, Located, StaysTracked, hooks, Freeing, Reallocating
<1>2. ASSUME EmptyQuarantineOnGC(t, id)
      PROVE  TypeInv'
  <2>1. zone' \in [Id -> Zone]
    BY <1>2, EmptyOnGCType DEF EmptyQuarantineOnGC, TypeInv, TypeOK
  <2>2. /\ alz' \in [Id -> Seq(Ptr)]
        /\ zid' = [zid EXCEPT ![t] = id]
        /\ pc' = [pc EXCEPT ![t] = "collect"] /\ pc[t] = "idle"
        /\ UNCHANGED <<info, shadow, mutex, ptr, fresh, ret, inCma, owner,
                       prog, faulty>>
    BY <1>2 DEF EmptyQuarantineOnGC, Goto, TypeInv, TypeOK
  <2> QED
    BY <2>1, <2>2
    DEF TypeInv, TypeOK, Located, Location, Freeing, Reallocating
<1> QED
  BY <1>1, <1>2

LEMMA CollectTypeInv ==
  ASSUME TypeInv, NEW t \in Thread, CmaCollect(t)
  PROVE  TypeInv'
<1>1. owner' \in [Ptr -> Id \cup {NoId}]
  BY DEF CmaCollect, TypeInv, TypeOK
<1> QED
  BY <1>1, ReturnType
  DEF CmaCollect, TypeInv, TypeOK, Located, Return, Goto, Freeing,
      Reallocating, runtime

LEMMA NextTypeInv == TypeInv /\ [Next]_vars => TypeInv'
<1> SUFFICES ASSUME TypeInv, [Next]_vars PROVE TypeInv'
  OBVIOUS
<1>1. ASSUME NEW t \in Thread, Hook(t)
      PROVE  TypeInv'
  BY <1>1, AllocTypeInv, FreeTypeInv, ReallocBodyTypeInv, ReallocEndTypeInv
  DEF Hook
<1>2. ASSUME NEW t \in Thread, CmaBody(t)
      PROVE  TypeInv'
  BY <1>2, FreeTypeInv, ReallocBodyTypeInv, CollectTypeInv DEF CmaBody
<1>3. ASSUME NEW t \in Thread, Call(t)
      PROVE  TypeInv'
  BY <1>3, AllocTypeInv, FreeTypeInv, ReallocBodyTypeInv, ClearTypeInv DEF Call
<1>4. CASE UNCHANGED vars
  BY <1>4
  DEF TypeInv, TypeOK, Located, vars, runtime, hooks, Freeing, Reallocating
<1> QED
  BY <1>1, <1>2, <1>3, <1>4 DEF Next

(* The variables keep their types, and a thread in a hook has what the     *)
(* hook uses: no hook reads the record of a null pointer, and none uses    *)
(* the zone of a chunk that has no record.                                 *)
THEOREM TypeCorrect == Spec => [](TypeOK /\ Located)
BY InitTypeInv, NextTypeInv, PTL DEF Spec, TypeInv

-----------------------------------------------------------------------------
(* The steps by what they do to the zones.                                 *)

(* The steps of a thread that leave the mutex and the zones alone and do   *)
(* not lead into the loop of popPtrIfMax.                                  *)
Elsewhere(t) ==
  \/ \E id \in Id, p \in Ptr : CmaAlloc(t, id, p) \/ FreeCall(t, p, id)
  \/ \E id \in Id, p \in Ptr \cup {NoPtr} : ReallocCall(t, p, id)
  \/ \E id \in Id : ClearCMAChunks(t, id)
  \/ AllocateCMAChunk(t) \/ CmaFree(t) \/ ReallocateCMAChunkStart(t)
  \/ CmaCollect(t)
  \/ CmaReallocInPlace(t) \/ CmaReallocFail(t) \/ CmaReallocZero(t)
  \/ \E q \in Ptr : CmaReallocMove(t, q) \/ CmaReallocMoveDirect(t, q)
  \/ ReallocateEndNull(t) \/ ReallocateCMAChunkEnd(t)

LEMMA NextCases ==
  ASSUME NEW t \in Thread, Hook(t) \/ CmaBody(t) \/ Call(t)
  PROVE  \/ Elsewhere(t)
         \/ ReleaseInRealloc(t) \/ Release(t) \/ ReleaseAfterReport(t)
         \/ Shrink(t) \/ StartAfterReport(t)
         \/ \E id \in Id : EmptyQuarantineOnGC(t, id)
BY DEF Hook, CmaBody, Call, Elsewhere

LEMMA ElsewhereKeeps ==
  ASSUME NEW t \in Thread, TypeOK, Elsewhere(t)
  PROVE  /\ UNCHANGED <<mutex, zone>>
         /\ \A u \in Thread : pc'[u] = "shrink" => pc[u] = "shrink"
<1>1. UNCHANGED <<mutex, zone>>
  BY DEF Elsewhere, CmaAlloc, FreeCall, ReallocCall, ClearCMAChunks,
         AllocateCMAChunk, CmaFree, CmaCollect, ReallocateCMAChunkStart,
         CmaReallocInPlace, CmaReallocFail, CmaReallocZero, CmaReallocMove, CmaReallocMoveDirect,
         ReallocateEndNull, ReallocateCMAChunkEnd, runtime
<1>2. UNCHANGED pc \/ \E l \in Location \ {"shrink"} : Goto(t, l)
  BY DEF Elsewhere, CmaAlloc, FreeCall, ReallocCall, ClearCMAChunks,
         AllocateCMAChunk, CmaFree, CmaCollect, ReallocateCMAChunkStart,
         CmaReallocInPlace, CmaReallocFail, CmaReallocZero, CmaReallocMove, CmaReallocMoveDirect,
         ReallocateEndNull, ReallocateCMAChunkEnd, CallFree, Return, hooks,
         Location
<1> QED
  BY <1>1, <1>2 DEF Goto, TypeOK

-----------------------------------------------------------------------------
(* Collections.                                                            *)

(* Where a step may start: in a function of the CMA, or in the program if  *)
(* nobody collects.                                                        *)
LEMMA StartsRunning ==
  ASSUME NEW t \in Thread, Hook(t) \/ CmaBody(t) \/ Call(t)
  PROVE  \/ pc[t] = "collect" /\ CmaCollect(t)
         \/ pc[t] \notin {"idle", "collect"}
         \/ pc[t] = "idle" /\ Running
BY DEF Hook, CmaBody, Call, CmaAlloc, FreeCall, ReallocCall, ClearCMAChunks,
       EmptyQuarantineOnGC, AllocateCMAChunk, ReleaseInRealloc, Release,
       ReleaseAfterReport, Shrink, CmaFree, CmaCollect, ReallocateCMAChunkStart,
       StartAfterReport, CmaReallocInPlace, CmaReallocFail, CmaReallocZero,
       CmaReallocMove, CmaReallocMoveDirect, ReallocateEndNull,
       ReallocateCMAChunkEnd, Running

(* Only the hook of GC makes a thread collect. *)
LEMMA StartsCollecting ==
  ASSUME NEW t \in Thread, TypeOK, Hook(t) \/ CmaBody(t) \/ Call(t),
         ~\E id \in Id : EmptyQuarantineOnGC(t, id)
  PROVE  \A u \in Thread : pc'[u] = "collect" => pc[u] = "collect"
<1>1. UNCHANGED pc \/ \E l \in Location \ {"collect"} : Goto(t, l)
  BY DEF Hook, CmaBody, Call, CmaAlloc, FreeCall, ReallocCall, ClearCMAChunks,
         AllocateCMAChunk, ReleaseInRealloc, Release, ReleaseAfterReport,
         Shrink, CmaFree, CmaCollect, ReallocateCMAChunkStart,
         StartAfterReport, CmaReallocInPlace, CmaReallocFail, CmaReallocZero,
         CmaReallocMove, CmaReallocMoveDirect, ReallocateEndNull,
         ReallocateCMAChunkEnd, CallFree, Return, PushAndPop, LeaveWith,
         hooks, Location
<1> QED BY <1>1 DEF Goto, TypeOK

(* A collection that stops the threads of the program runs alone. *)
LEMMA NextStopped ==
  ASSUME TypeInv, Stopped, [Next]_vars
  PROVE  Stopped'
<1>1. CASE UNCHANGED vars
  BY <1>1 DEF vars, runtime, hooks, Stopped
<1>2. ASSUME NEW t \in Thread, Hook(t) \/ CmaBody(t) \/ Call(t)
      PROVE  Stopped'
  <2>1. ASSUME NEW id \in Id, EmptyQuarantineOnGC(t, id)
        PROVE  Stopped'
    <3>1. /\ \A u \in Thread : pc[u] = "idle"
          /\ pc' = [pc EXCEPT ![t] = "collect"]
          /\ zid' = [zid EXCEPT ![t] = id]
          /\ QuarantineOn => zone' = [zone EXCEPT ![id] = EmptyOnGC(@)]
      BY <2>1 DEF EmptyQuarantineOnGC, Goto
    <3>2. /\ \A u \in Thread \ {t} : pc'[u] = "idle"
          /\ zid'[t] = id
          /\ QuarantineOn => zone'[id].list = << >>
      BY <3>1 DEF EmptyOnGC, TypeInv, TypeOK
    <3> QED BY <3>2 DEF Stopped
  <2>2. ASSUME ~\E id \in Id : EmptyQuarantineOnGC(t, id)
        PROVE  Stopped'
    <3>1. \A u \in Thread : pc'[u] = "collect" => pc[u] = "collect"
      BY <1>2, <2>2, StartsCollecting DEF TypeInv
    <3>2. CASE Running
      BY <3>1, <3>2 DEF Running, Stopped
    <3>3. ASSUME NEW c \in Thread, pc[c] = "collect" PROVE Stopped'
      <4>1. pc[t] \in {"idle", "collect"} /\ (t # c => pc[t] = "idle")
        BY <3>3 DEF Stopped
      <4>2. CmaCollect(t) /\ t = c
        BY <1>2, <3>3, <4>1, StartsRunning DEF Running
      <4>3. pc' = [pc EXCEPT ![t] = "idle"] /\ \A u \in Thread \ {t} : pc[u] = "idle"
        BY <3>3, <4>2 DEF CmaCollect, Return, Goto, Stopped
      <4>4. \A u \in Thread : pc'[u] # "collect"
        BY <4>3 DEF TypeInv, TypeOK
      <4> QED BY <4>4 DEF Stopped
    <3> QED BY <3>2, <3>3 DEF Running
  <2> QED BY <2>1, <2>2
<1> QED
  BY <1>1, <1>2 DEF Next

-----------------------------------------------------------------------------
(* The maximum number of chunks in a zone.                                 *)

LEMMA PushAndPopCounted ==
  ASSUME NEW t \in Thread, NEW p \in Ptr, NEW id \in Id, NEW holder,
         TypeOK, Counted, PushAndPop(t, p, id, holder)
  PROVE  Counted'
<1>1. zone[id] \in Zone
  BY DEF TypeOK
<1>2. CASE BelowLimits(zone[id]) /\ LeaveWith(t, NoPtr, id, zone[id], p)
  <2>1. Len(zone[id].list) < QuarantineNum
    BY <1>1, <1>2, ZoneAssumption DEF BelowLimits, Counted, Zone
  <2>2. /\ Len(PushPtr(zone[id], p).list) = Len(zone[id].list) + 1
        /\ PushPtr(zone[id], p).num = zone[id].num + 1
    BY <1>1, PushPtrType
  <2>3. zone' = [zone EXCEPT ![id] = PushPtr(zone[id], p)]
    BY <1>2 DEF LeaveWith
  <2> QED
    BY <1>1, <2>1, <2>2, <2>3, ZoneAssumption DEF Counted, TypeOK, Zone
<1>3. CASE UNCHANGED zone
  BY <1>3 DEF Counted
<1> QED
  BY <1>2, <1>3 DEF PushAndPop

(* A zone that is replaced by one within the limits. *)
LEMMA ZoneCounted ==
  ASSUME TypeOK, Counted, NEW id \in Id, NEW y,
         zone' = [zone EXCEPT ![id] = y],
         Len(y.list) <= y.num, Len(y.list) <= QuarantineNum
  PROVE  Counted'
BY DEF Counted, TypeOK

LEMMA ShrinkCounted ==
  ASSUME NEW t \in Thread, TypeInv, Counted, QuarantineNum >= 1, Shrink(t)
  PROVE  Counted'
<1> DEFINE id == info[ptr[t]].id
           z  == zone[id]
<1>1. ptr[t] \in Ptr /\ id \in Id /\ z \in Zone
  BY Records DEF Shrink, TypeInv, TypeOK, Located, Freeing
<1>2. /\ Len(z.list) <= z.num /\ Len(z.list) <= QuarantineNum
      /\ z.num \in Int /\ Len(z.list) \in Nat
  BY <1>1 DEF Counted, Zone
<1>3. CASE z.list = << >>
  <2>1. zone' = [zone EXCEPT ![id] = PushPtr(z, ptr[t])]
    BY <1>3 DEF Shrink, LeaveWith
  <2> HIDE DEF id, z
  <2>2. /\ Len(PushPtr(z, ptr[t]).list) = Len(z.list) + 1
        /\ PushPtr(z, ptr[t]).num = z.num + 1
    BY <1>1, PushPtrType
  <2>3. Len(z.list) = 0
    BY <1>3
  <2>4. /\ Len(PushPtr(z, ptr[t]).list) <= QuarantineNum
        /\ Len(PushPtr(z, ptr[t]).list) <= PushPtr(z, ptr[t]).num
    BY <1>2, <2>2, <2>3, ZoneAssumption
  <2> QED
    BY <1>1, <2>1, <2>4, ZoneCounted DEF TypeInv
<1>4. CASE z.list # << >>
  <2>1. \/ zone' = [zone EXCEPT ![id] = PushPtr(PopFirst(z), ptr[t])]
        \/ zone' = [zone EXCEPT ![id] = PopFirst(z)]
    BY <1>4 DEF Shrink, LeaveWith
  <2>2. /\ PopFirst(z) \in Zone
        /\ Len(PopFirst(z).list) = Len(z.list) - 1
        /\ PopFirst(z).num = z.num - 1
    BY <1>1, <1>4, PopFirstType
  <2>3. /\ Len(PushPtr(PopFirst(z), ptr[t]).list) = Len(z.list)
        /\ PushPtr(PopFirst(z), ptr[t]).num = z.num
    BY <1>1, <1>2, <2>2, PushPtrType
  <2> HIDE DEF id, z
  <2>4. Len(PopFirst(z).list) <= QuarantineNum
    BY <1>2, <2>2, ZoneAssumption
  <2>5. Len(PopFirst(z).list) <= PopFirst(z).num
    BY <1>2, <2>2
  <2>6. /\ Len(PushPtr(PopFirst(z), ptr[t]).list) <= QuarantineNum
        /\ Len(PushPtr(PopFirst(z), ptr[t]).list) <=
             PushPtr(PopFirst(z), ptr[t]).num
    BY <1>2, <2>3
  <2> QED
    BY <1>1, <2>1, <2>4, <2>5, <2>6, ZoneCounted DEF TypeInv
<1> QED
  BY <1>3, <1>4

LEMMA NextCounted ==
  ASSUME QuarantineNum >= 1, TypeInv, Counted, [Next]_vars
  PROVE  Counted'
<1>1. CASE UNCHANGED vars
  BY <1>1 DEF vars, runtime, Counted
<1>2. ASSUME NEW t \in Thread, Hook(t) \/ CmaBody(t) \/ Call(t)
      PROVE  Counted'
  <2>1. CASE Elsewhere(t)
    BY <2>1, ElsewhereKeeps DEF Counted, TypeInv
  <2>2. CASE ReleaseInRealloc(t)
    <3>1. pc[t] = "freeFast" /\ ptr[t] \in Ptr /\ info[ptr[t]] \in Info
      BY <2>2 DEF ReleaseInRealloc, TypeInv, TypeOK, Located, Freeing
    <3>2. CASE UNCHANGED zone
      BY <3>2 DEF Counted
    <3>3. CASE /\ info[ptr[t]].status = "IN_REALLOC"
               /\ PushAndPop(t, ptr[t], info[ptr[t]].id, t)
      <4>1. info[ptr[t]].id \in Id
        BY <3>1, <3>3, Records DEF Untracked
      <4> QED
        BY <3>1, <3>3, <4>1, PushAndPopCounted DEF TypeInv
    <3> QED
      BY <2>2, <3>2, <3>3 DEF ReleaseInRealloc
  <2>3. CASE Release(t) \/ ReleaseAfterReport(t)
    <3>1. ptr[t] \in Ptr /\ zid[t] \in Id
      BY <2>3, RuntimeAssumption
      DEF Release, ReleaseAfterReport, TypeInv, TypeOK, Located, Freeing
    <3>2. UNCHANGED zone \/ \E holder : PushAndPop(t, ptr[t], zid[t], holder)
      BY <2>3 DEF Release, ReleaseAfterReport
    <3> QED
      BY <3>1, <3>2, PushAndPopCounted DEF TypeInv, Counted
  <2>4. CASE Shrink(t)
    BY <2>4, ShrinkCounted
  <2>5. CASE StartAfterReport(t)
    BY <2>5 DEF StartAfterReport, Counted
  <2>6. ASSUME NEW id \in Id, EmptyQuarantineOnGC(t, id)
        PROVE  Counted'
    <3>1. CASE UNCHANGED zone
      BY <3>1 DEF Counted
    <3>2. CASE zone' = [zone EXCEPT ![id] = EmptyOnGC(@)]
      <4>1. /\ EmptyOnGC(zone[id]).list = << >>
            /\ EmptyOnGC(zone[id]).num = zone[id].num
            /\ 0 <= zone[id].num
        BY EmptyOnGCType DEF TypeInv, TypeOK, Counted, Zone
      <4> QED
        BY <3>2, <4>1, ZoneAssumption DEF Counted, TypeInv, TypeOK
    <3> QED
      BY <2>6, <3>1, <3>2 DEF EmptyQuarantineOnGC
  <2> QED
    BY <1>2, <2>1, <2>2, <2>3, <2>4, <2>5, <2>6, NextCases
<1> QED
  BY <1>1, <1>2 DEF Next

(* No zone ever holds more chunks than its maximum, if that is at least    *)
(* one: with any sizes, after any garbage collection, and even where a     *)
(* reported double free does not end the process.                          *)
THEOREM NumAlwaysWithinLimit ==
  ASSUME QuarantineNum >= 1
  PROVE  Spec => []NumWithinLimit
<1>1. Init => Counted
  BY EmptyZoneType, ZoneAssumption DEF Init, Counted, EmptyZone
<1>2. TypeInv /\ Counted /\ [Next]_vars => Counted'
  BY NextCounted
<1>3. Counted => NumWithinLimit
  BY DEF Counted, NumWithinLimit
<1> QED
  BY <1>1, <1>2, <1>3, InitTypeInv, NextTypeInv, PTL DEF Spec

-----------------------------------------------------------------------------
(* The counters of a zone.                                                 *)

(* pushPtr and popPtrIfMax count what they link and unlink. *)
LEMMA PushPtrAccurate ==
  ASSUME NEW z \in Zone, NEW p \in Ptr, z.size = BytesOf(z.list)
  PROVE  /\ PushPtr(z, p).size = BytesOf(PushPtr(z, p).list)
         /\ z.num = Len(z.list) => PushPtr(z, p).num = Len(PushPtr(z, p).list)
<1> DEFINE e == [ptr |-> p, size |-> Span[p]]
<1>1. e \in Entry /\ e.size = Span[p]
  BY ZoneAssumption DEF Entry
<1>2. z.list \in Seq(Entry)
  BY DEF Zone
<1>3. PushPtr(z, p).size = z.size + Span[p] /\ PushPtr(z, p).list = Append(z.list, e)
  BY DEF PushPtr
<1> HIDE DEF e
<1>4. BytesOf(Append(z.list, e)) = BytesOf(z.list) + e.size
  BY <1>1, <1>2, BytesOfAppend
<1>5. z.num = Len(z.list) => PushPtr(z, p).num = Len(PushPtr(z, p).list)
  BY PushPtrType
<1> QED BY <1>1, <1>3, <1>4, <1>5

LEMMA PopFirstAccurate ==
  ASSUME NEW z \in Zone, z.list # << >>, z.size = BytesOf(z.list)
  PROVE  /\ PopFirst(z).size = BytesOf(PopFirst(z).list)
         /\ z.num = Len(z.list) => PopFirst(z).num = Len(PopFirst(z).list)
<1>1. z.list \in Seq(Entry) /\ Tail(z.list) \in Seq(Entry)
  BY DEF Zone
<1>2. BytesOf(z.list) = Head(z.list).size + BytesOf(Tail(z.list))
  BY <1>1, BytesOfTail
<1>3. /\ PopFirst(z).size = z.size - Head(z.list).size
      /\ PopFirst(z).list = Tail(z.list)
  BY DEF PopFirst
<1>4. Head(z.list).size \in Nat /\ BytesOf(Tail(z.list)) \in Nat
  BY <1>1, PopFirstType, BytesOfType DEF Entry
<1>5. z.num = Len(z.list) => PopFirst(z).num = Len(PopFirst(z).list)
  BY PopFirstType
<1> QED BY <1>2, <1>3, <1>4, <1>5

(* What a step does to the zones: one chunk enters one of them, one leaves *)
(* it, or both, or a collection empties it.                                *)
Pushed(z, y) == \E p \in Ptr : y = PushPtr(z, p)
Popped(z, y) == z.list # << >> /\ y = PopFirst(z)
Replaced(z, y) == z.list # << >> /\ \E p \in Ptr : y = PushPtr(PopFirst(z), p)
Emptied(z, y) == "GC" \in Api /\ y = EmptyOnGC(z)

ZoneStep ==
  \/ UNCHANGED zone
  \/ \E id \in Id : \E y :
       /\ zone' = [zone EXCEPT ![id] = y]
       /\ \/ Pushed(zone[id], y) \/ Popped(zone[id], y)
          \/ Replaced(zone[id], y) \/ Emptied(zone[id], y)

(* The zone that the thread frees its address to. *)
LEMMA FreeTarget ==
  ASSUME TypeInv, NEW t \in Thread,
         \/ ReleaseInRealloc(t) \/ Release(t) \/ ReleaseAfterReport(t)
         \/ Shrink(t)
  PROVE  /\ ptr[t] \in Ptr /\ zid[t] \in Id
         /\ info[ptr[t]].status # "NONE" => info[ptr[t]].id \in Id
         /\ pc[t] = "shrink" => info[ptr[t]].id \in Id
<1>1. pc[t] \in {"freeFast", "freeSlow", "report", "shrink"}
  BY DEF ReleaseInRealloc, Release, ReleaseAfterReport, Shrink
<1>2. ptr[t] \in Ptr /\ zid[t] \in Id
  BY <1>1 DEF TypeInv, TypeOK, Located, Freeing
<1>3. info[ptr[t]] \in Info /\ (pc[t] = "shrink" => info[ptr[t]] # Untracked)
  BY <1>2 DEF TypeInv, TypeOK, Located
<1> QED
  BY <1>2, <1>3, Records DEF Untracked

LEMMA NextZoneStep ==
  ASSUME TypeInv, [Next]_vars
  PROVE  ZoneStep
<1>1. CASE UNCHANGED vars
  BY <1>1 DEF vars, runtime, ZoneStep
<1>2. ASSUME NEW t \in Thread, Hook(t) \/ CmaBody(t) \/ Call(t)
      PROVE  ZoneStep
  <2>1. ASSUME NEW p \in Ptr, NEW id \in Id, NEW holder,
               PushAndPop(t, p, id, holder)
        PROVE  ZoneStep
    <3>1. UNCHANGED zone \/ zone' = [zone EXCEPT ![id] = PushPtr(zone[id], p)]
      BY <2>1 DEF PushAndPop, LeaveWith
    <3> QED BY <3>1 DEF ZoneStep, Pushed
  <2>2. CASE Elsewhere(t)
    BY <2>2, ElsewhereKeeps DEF ZoneStep, TypeInv
  <2>3. CASE ReleaseInRealloc(t)
    <3>1. \/ UNCHANGED zone
          \/ /\ info[ptr[t]].status # "NONE"
             /\ PushAndPop(t, ptr[t], info[ptr[t]].id, t)
      BY <2>3 DEF ReleaseInRealloc
    <3> QED BY <2>1, <2>3, <3>1, FreeTarget DEF ZoneStep
  <2>4. CASE Release(t) \/ ReleaseAfterReport(t)
    <3>1. UNCHANGED zone \/ \E holder : PushAndPop(t, ptr[t], zid[t], holder)
      BY <2>4 DEF Release, ReleaseAfterReport
    <3> QED BY <2>1, <2>4, <3>1, FreeTarget DEF ZoneStep
  <2>5. CASE Shrink(t)
    <3>1. PICK id \in Id : id = info[ptr[t]].id
      BY <2>5, FreeTarget DEF Shrink
    <3>2. PICK p \in Ptr : p = ptr[t]
      BY <2>5, FreeTarget
    <3>3. \/ /\ zone' = [zone EXCEPT ![id] = PushPtr(zone[id], p)]
          \/ /\ zone[id].list # << >>
             /\ zone' = [zone EXCEPT ![id] = PushPtr(PopFirst(zone[id]), p)]
          \/ /\ zone[id].list # << >>
             /\ zone' = [zone EXCEPT ![id] = PopFirst(zone[id])]
      BY <2>5, <3>1, <3>2 DEF Shrink, LeaveWith
    <3> QED BY <3>3 DEF ZoneStep, Pushed, Popped, Replaced
  <2>6. CASE StartAfterReport(t)
    BY <2>6 DEF StartAfterReport, ZoneStep
  <2>7. ASSUME NEW id \in Id, EmptyQuarantineOnGC(t, id)
        PROVE  ZoneStep
    <3>1. \/ UNCHANGED zone
          \/ /\ "GC" \in Api
             /\ zone' = [zone EXCEPT ![id] = EmptyOnGC(zone[id])]
      BY <2>7 DEF EmptyQuarantineOnGC
    <3> QED BY <3>1 DEF ZoneStep, Emptied
  <2> QED
    BY <1>2, <2>2, <2>3, <2>4, <2>5, <2>6, <2>7, NextCases
<1> QED
  BY <1>1, <1>2 DEF Next

(* The bytes counted are those of the list, with or without GC. *)
BytesCounted == \A id \in Id : zone[id].size = BytesOf(zone[id].list)

LEMMA NextBytesCounted ==
  ASSUME TypeOK, BytesCounted, ZoneStep
  PROVE  BytesCounted'
<1>1. CASE UNCHANGED zone
  BY <1>1 DEF BytesCounted
<1>2. ASSUME NEW id \in Id, NEW y, zone' = [zone EXCEPT ![id] = y],
             \/ Pushed(zone[id], y) \/ Popped(zone[id], y)
             \/ Replaced(zone[id], y) \/ Emptied(zone[id], y)
      PROVE  BytesCounted'
  <2>1. PICK z \in Zone : z = zone[id] /\ z.size = BytesOf(z.list)
    BY DEF TypeOK, BytesCounted
  <2>2. z.list # << >> => PopFirst(z) \in Zone
                          /\ PopFirst(z).size = BytesOf(PopFirst(z).list)
    BY <2>1, PopFirstType, PopFirstAccurate
  <2>3. y.size = BytesOf(y.list)
    <3>1. CASE Pushed(z, y)
      BY <2>1, <3>1, PushPtrAccurate DEF Pushed
    <3>2. CASE Popped(z, y)
      BY <2>2, <3>2 DEF Popped
    <3>3. CASE Replaced(z, y)
      BY <2>2, <3>3, PushPtrAccurate DEF Replaced
    <3>4. CASE Emptied(z, y)
      BY <3>4, BytesOfEmpty DEF Emptied, EmptyOnGC
    <3> QED
      BY <1>2, <2>1, <3>1, <3>2, <3>3, <3>4
  <2> QED
    BY <1>2, <2>3 DEF BytesCounted, TypeOK
<1> QED
  BY <1>1, <1>2 DEF ZoneStep


(* Without GC, the chunks counted are too. *)
LEMMA NextCountersAccurate ==
  ASSUME "GC" \notin Api, TypeOK, CountersAccurate, ZoneStep
  PROVE  CountersAccurate'
<1>1. BytesCounted
  BY DEF CountersAccurate, BytesCounted
<1>2. BytesCounted'
  BY <1>1, NextBytesCounted
<1>3. CASE UNCHANGED zone
  BY <1>3 DEF CountersAccurate
<1>4. ASSUME NEW id \in Id, NEW y, zone' = [zone EXCEPT ![id] = y],
             \/ Pushed(zone[id], y) \/ Popped(zone[id], y)
             \/ Replaced(zone[id], y) \/ Emptied(zone[id], y)
      PROVE  CountersAccurate'
  <2>1. PICK z \in Zone : /\ z = zone[id] /\ z.size = BytesOf(z.list)
                          /\ z.num = Len(z.list)
    BY DEF TypeOK, CountersAccurate
  <2>2. z.list # << >> => /\ PopFirst(z) \in Zone
                          /\ PopFirst(z).size = BytesOf(PopFirst(z).list)
                          /\ PopFirst(z).num = Len(PopFirst(z).list)
    BY <2>1, PopFirstType, PopFirstAccurate
  <2>3. y.num = Len(y.list)
    <3>1. CASE Pushed(z, y)
      BY <2>1, <3>1, PushPtrAccurate DEF Pushed
    <3>2. CASE Popped(z, y)
      BY <2>2, <3>2 DEF Popped
    <3>3. CASE Replaced(z, y)
      BY <2>2, <3>3, PushPtrAccurate DEF Replaced
    <3> QED
      BY <1>4, <2>1, <3>1, <3>2, <3>3 DEF Emptied
  <2> QED
    BY <1>2, <1>4, <2>3 DEF BytesCounted, CountersAccurate, TypeOK
<1> QED
  BY <1>3, <1>4 DEF ZoneStep

(* The two counters from which popPtrIfMax decides are those of the list,  *)
(* without GC: for any program, also one that frees twice, any number of   *)
(* threads and instances and any sizes of chunks.                          *)
THEOREM CountersAlwaysAccurate ==
  ASSUME "GC" \notin Api
  PROVE  Spec => []CountersAccurate
<1>1. Init => CountersAccurate
  BY BytesOfEmpty DEF Init, CountersAccurate, EmptyZone
<1>2. TypeInv /\ CountersAccurate /\ [Next]_vars => CountersAccurate'
  BY NextZoneStep, NextCountersAccurate DEF TypeInv
<1> QED
  BY <1>1, <1>2, InitTypeInv, NextTypeInv, PTL DEF Spec

(* With collections that stop the other threads outside of the CMA the     *)
(* bytes counted still are those of the list, as                           *)
(* __asan_emptyQuarantineOnGC resets them together with it; only the       *)
(* number of chunks falls out of step.                                     *)
THEOREM BytesAlwaysCounted == Spec => []BytesCounted
<1>1. Init => BytesCounted
  BY BytesOfEmpty DEF Init, BytesCounted, EmptyZone
<1>2. TypeInv /\ BytesCounted /\ [Next]_vars => BytesCounted'
  BY NextZoneStep, NextBytesCounted DEF TypeInv
<1> QED
  BY <1>1, <1>2, InitTypeInv, NextTypeInv, PTL DEF Spec

-----------------------------------------------------------------------------
(* When chunks are taken out of a zone.                                    *)

(* A thread that starts to has found the zone of its chunk full. *)
LEMMA StartsShrinking ==
  ASSUME TypeInv, [Next]_vars, NEW t \in Thread,
         pc[t] # "shrink", pc'[t] = "shrink"
  PROVE  \E id \in Id : id = info'[ptr[t]].id /\ ~BelowLimits(zone[id])
<1>1. ~UNCHANGED vars
  BY DEF vars, hooks
<1>2. PICK u \in Thread : Hook(u) \/ CmaBody(u) \/ Call(u)
  BY <1>1 DEF Next
<1>3. /\ ~Elsewhere(u)
      /\ ~StartAfterReport(u)
      /\ ~\E id \in Id : EmptyQuarantineOnGC(u, id)
  <2>1. ~Elsewhere(u)
    BY ElsewhereKeeps DEF TypeInv
  <2>2. ~StartAfterReport(u)
    BY DEF StartAfterReport, Goto, TypeInv, TypeOK
  <2>3. ~\E id \in Id : EmptyQuarantineOnGC(u, id)
    BY DEF EmptyQuarantineOnGC, Goto, TypeInv, TypeOK
  <2> QED BY <2>1, <2>2, <2>3
<1>4. \/ ReleaseInRealloc(u) \/ Release(u) \/ ReleaseAfterReport(u)
      \/ Shrink(u)
  BY <1>2, <1>3, NextCases
<1>5. \E l : pc' = [pc EXCEPT ![u] = l] \/ pc' = pc
  BY <1>4
  DEF ReleaseInRealloc, Release, ReleaseAfterReport, Shrink, PushAndPop,
      LeaveWith, Goto
<1>6. u = t /\ pc' = [pc EXCEPT ![t] = "shrink"]
  BY <1>5 DEF TypeInv, TypeOK
<1>7. /\ ptr[t] \in Ptr /\ zid[t] \in Id /\ ~Shrink(t)
      /\ info[ptr[t]].status # "NONE" => info[ptr[t]].id \in Id
  BY <1>4, <1>6, FreeTarget DEF Shrink
<1>8. \A p, id, holder : PushAndPop(t, p, id, holder) => ~BelowLimits(zone[id])
  BY <1>6 DEF PushAndPop, LeaveWith, Goto, TypeInv, TypeOK
<1>9. pc' # [pc EXCEPT ![t] = "freeSlow"] /\ pc' # [pc EXCEPT ![t] = "cmaFree"]
      /\ pc' # [pc EXCEPT ![t] = "report"]
  BY <1>6 DEF TypeInv, TypeOK
<1>10. CASE ReleaseInRealloc(t)
  <2>1. /\ info[ptr[t]].status = "IN_REALLOC"
        /\ info' = [info EXCEPT ![ptr[t]].status = "DEALLOCATED"]
        /\ ~BelowLimits(zone[info[ptr[t]].id])
    BY <1>8, <1>9, <1>10 DEF ReleaseInRealloc, Goto
  <2>2. info[ptr[t]] \in Info /\ info[ptr[t]] # Untracked
    BY <1>7, <2>1 DEF Untracked, TypeInv, TypeOK
  <2>3. info'[ptr[t]].id = info[ptr[t]].id
    BY <1>7, <2>1, <2>2, Records DEF Status, TypeInv, TypeOK
  <2> QED BY <1>7, <2>1, <2>3
<1>11. CASE Release(t) \/ ReleaseAfterReport(t)
  <2>1. info' = Released(info, ptr[t], zid[t]) /\ ~BelowLimits(zone[zid[t]])
    BY <1>8, <1>9, <1>11 DEF Release, ReleaseAfterReport, Goto
  <2>2. info'[ptr[t]].id = zid[t]
    BY <1>7, <2>1 DEF Released, TypeInv, TypeOK
  <2> QED BY <1>7, <2>1, <2>2
<1> QED
  BY <1>4, <1>6, <1>7, <1>10, <1>11

(* "Quarantine is not full yet" (asan_allocator.cpp:1161): without GC, a   *)
(* thread starts to take chunks out of a zone only when the chunks there   *)
(* hold the maximum of bytes or are the maximum of chunks.                 *)
THEOREM EvictsOnlyWhenFullWithoutGC ==
  ASSUME "GC" \notin Api
  PROVE  Spec => EvictsOnlyWhenFull
<1>1. ASSUME TypeInv, CountersAccurate, [Next]_vars
      PROVE  [\A t \in Thread : pc[t] # "shrink" /\ pc'[t] = "shrink" =>
               LET list == zone[info'[ptr[t]].id].list
               IN  BytesOf(list) >= QuarantineSize
                     \/ Len(list) >= QuarantineNum]_vars
  <2> SUFFICES ASSUME NEW t \in Thread, pc[t] # "shrink", pc'[t] = "shrink"
               PROVE  LET list == zone[info'[ptr[t]].id].list
                      IN  BytesOf(list) >= QuarantineSize
                            \/ Len(list) >= QuarantineNum
    OBVIOUS
  <2>1. PICK id \in Id : id = info'[ptr[t]].id /\ ~BelowLimits(zone[id])
    BY <1>1, StartsShrinking
  <2>2. /\ zone[id].size \in Int /\ zone[id].num \in Int
        /\ zone[id].num = Len(zone[id].list)
        /\ zone[id].size = BytesOf(zone[id].list)
    BY <1>1 DEF CountersAccurate, TypeInv, TypeOK, Zone
  <2> QED
    BY <2>1, <2>2, ZoneAssumption DEF BelowLimits
<1>2. Spec => []CountersAccurate
  BY CountersAlwaysAccurate
<1>3. Spec => []TypeInv
  BY InitTypeInv, NextTypeInv, PTL DEF Spec
<1> QED
  BY <1>1, <1>2, <1>3, PTL DEF Spec, EvictsOnlyWhenFull
=============================================================================
