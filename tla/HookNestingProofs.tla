------------------------- MODULE HookNestingProofs -------------------------
(***************************************************************************)
(* For every program, every list and every stack: the tables hold the      *)
(* addresses of the listed functions wherever they have been loaded, so    *)
(* the outermost function of a CMA is told from those it calls, and the    *)
(* filter of reports is exact.                                             *)
(***************************************************************************)
EXTENDS HookNesting, SequenceTheorems, TLAPS

RangeOf(f) == [from |-> Real(f), to |-> LoadedAt[f] + To[f]]

(* Lines that have been entered in a table. *)
Entered == {i \in Findable : i < line}
EnteredCMA == {i \in Entered : ~list[i].only}

Holds(table, lines) ==
  /\ \A k \in 1 .. Len(table) : \E i \in lines : table[k] = RangeOf(list[i].fn)
  /\ \A i \in lines : \E k \in 1 .. Len(table) : table[k] = RangeOf(list[i].fn)

TablesRight ==
  /\ line > 1 => base = LoadedAt[ReferencePoint]
  /\ Holds(whitelist, Entered)
  /\ Holds(cma, EnteredCMA)
  /\ process = "running" => line = Len(list) + 1

(* A program counter is where its function is. *)
InCode(frame) == /\ Real(frame.fn) <= frame.at
                 /\ frame.at <= LoadedAt[frame.fn] + To[frame.fn]

(* Two known functions among a frame and its next three callers. *)
Nested(frames, i) ==
  \E a, b \in 1 .. Len(frames) :
    /\ i <= a /\ a <= i + 3 /\ i <= b /\ b <= i + 3
    /\ frames[a].fn \in KnownCMA /\ frames[b].fn \in KnownCMA
    /\ frames[a].fn # frames[b].fn

StackRight ==
  /\ \A i \in 1 .. Len(stack) : InCode(stack[i])
  /\ \A i \in 1 .. Len(stack) :
       stack[i].hooked <=> stack[i].fn \in Instrumented /\ ~Nested(stack, i)
  /\ process # "running" => access = "none"

Inv == TypeOK /\ TablesRight /\ StackRight /\ FilterExact

-----------------------------------------------------------------------------
LEMMA Addresses ==
  /\ \A f \in Function :
       /\ From[f] \in Nat /\ To[f] \in Nat /\ LoadedAt[f] \in Nat
       /\ From[f] <= To[f]
       /\ Real(f) \in Nat /\ Real(f) = LoadedAt[f] + From[f]
       /\ RangeOf(f) \in AddressRange /\ DynamicRange(f) = RangeOf(f)
  /\ \A f, g \in Function : RangeOf(f).from = RangeOf(g).from => f = g
<1>1. ASSUME NEW f \in Function
      PROVE  /\ From[f] \in Nat /\ To[f] \in Nat /\ LoadedAt[f] \in Nat
             /\ From[f] <= To[f]
             /\ Real(f) \in Nat /\ Real(f) = LoadedAt[f] + From[f]
  <2>1. From[f] \in Nat /\ To[f] \in Nat /\ LoadedAt[f] \in Nat
    BY TableAssumption
  <2>2. From[f] <= To[f]
    BY NestingAssumption
  <2> QED
    BY <2>1, <2>2 DEF Real
<1>2. ASSUME NEW f \in Function
      PROVE  RangeOf(f) \in AddressRange /\ DynamicRange(f) = RangeOf(f)
  <2>1. Real(f) + (To[f] - From[f]) = LoadedAt[f] + To[f]
    BY <1>1
  <2>2. LoadedAt[f] + To[f] \in Nat
    BY <1>1
  <2> QED
    BY <1>1, <2>1, <2>2 DEF RangeOf, DynamicRange, AddressRange
<1>3. \A f, g \in Function : RangeOf(f).from = RangeOf(g).from => f = g
  <2>1. \A f \in Function : RangeOf(f).from = Real(f)
    BY <1>1 DEF RangeOf, Real
  <2>2. ASSUME NEW f \in Function, NEW g \in Function, f # g
        PROVE  Real(f) # Real(g)
    <3>1. /\ Real(f) \in Nat /\ Real(f) <= LoadedAt[f] + To[f]
          /\ Real(g) \in Nat /\ Real(g) <= LoadedAt[g] + To[g]
      BY <1>1
    <3>2. LoadedAt[f] + To[f] < Real(g) \/ LoadedAt[g] + To[g] < Real(f)
      BY <2>2, NestingAssumption
    <3> QED
      BY <1>1, <3>1, <3>2
  <2> QED
    BY <2>1, <2>2
<1> QED
  BY <1>1, <1>2, <1>3

(* A program counter is in the range of its own function only. *)
LEMMA OwnRange ==
  ASSUME NEW frame \in Frame, InCode(frame), NEW f \in Function
  PROVE  Within(RangeOf(f), frame.at) <=> f = frame.fn
<1>1. frame.fn \in Function /\ frame.at \in Nat
  BY DEF Frame
<1>2. CASE f = frame.fn
  BY <1>1, <1>2, Addresses DEF Within, RangeOf, InCode
<1>3. CASE f # frame.fn
  <2>1. LoadedAt[f] + To[f] < Real(frame.fn)
          \/ LoadedAt[frame.fn] + To[frame.fn] < Real(f)
    BY <1>1, <1>3, NestingAssumption
  <2>2. /\ Real(f) \in Nat /\ Real(frame.fn) \in Nat
        /\ LoadedAt[f] + To[f] \in Nat
        /\ LoadedAt[frame.fn] + To[frame.fn] \in Nat
    BY <1>1, Addresses
  <2>3. ~Within(RangeOf(f), frame.at)
    BY <1>1, <2>1, <2>2 DEF Within, RangeOf, InCode
  <2> QED
    BY <1>3, <2>3
<1> QED
  BY <1>2, <1>3

LEMMA ListType ==
  ASSUME TypeOK
  PROVE  /\ list \in Seq(Line) /\ Len(list) \in Nat /\ Len(list) > 0
         /\ \A i \in 1 .. Len(list) : /\ list[i] \in Line
                                      /\ list[i].fn \in Function
                                      /\ list[i].shared \in BOOLEAN
                                      /\ list[i].only \in BOOLEAN
         /\ list[1].fn = ReferencePoint /\ ~list[1].shared
         /\ \A i \in 1 .. Len(list) :
              ~list[i].shared => LoadedAt[list[i].fn] = LoadedAt[ReferencePoint]
         /\ \A i \in 2 .. Len(list) : ~list[i].only => list[i].fn \in Instrumented
<1>1. /\ list \in Lists
      /\ list \in Seq(Line) /\ Len(list) > 0 /\ Len(list) \in Nat
      /\ DOMAIN list = 1 .. Len(list)
  BY TableAssumption DEF TypeOK
<1>2. \A i \in 1 .. Len(list) : list[i] \in Line
  BY <1>1
<1> QED
  BY <1>1, <1>2, TableAssumption, NestingAssumption DEF Line

-----------------------------------------------------------------------------
(* An entry of the table for one more line. *)
LEMMA OneMore ==
  ASSUME NEW table \in Seq(AddressRange), NEW lines, NEW i \in Nat,
         Holds(table, lines),
         RangeOf(list[i].fn) \in AddressRange
  PROVE  Holds(Append(table, RangeOf(list[i].fn)), lines \cup {i})
<1> DEFINE new == RangeOf(list[i].fn)
           more == Append(table, new)
<1>1. /\ Len(more) = Len(table) + 1 /\ Len(table) \in Nat
      /\ \A k \in 1 .. Len(table) : more[k] = table[k]
      /\ more[Len(table) + 1] = new
  OBVIOUS
<1>2. ASSUME NEW k \in 1 .. Len(more)
      PROVE  \E j \in lines \cup {i} : more[k] = RangeOf(list[j].fn)
  <2>1. CASE k = Len(table) + 1
    BY <1>1, <2>1
  <2>2. CASE k # Len(table) + 1
    <3>1. k \in 1 .. Len(table)
      BY <1>1, <1>2, <2>2
    <3> HIDE DEF more
    <3> QED
      BY <1>1, <3>1 DEF Holds
  <2> QED
    BY <2>1, <2>2
<1>3. ASSUME NEW j \in lines \cup {i}
      PROVE  \E k \in 1 .. Len(more) : more[k] = RangeOf(list[j].fn)
  <2>1. CASE j = i
    <3>1. Len(table) + 1 \in 1 .. Len(more)
      BY <1>1
    <3> HIDE DEF more
    <3> QED
      BY <1>1, <3>1, <2>1
  <2>2. CASE j \in lines
    <3>1. PICK k \in 1 .. Len(table) : table[k] = RangeOf(list[j].fn)
      BY <2>2 DEF Holds
    <3>2. k \in 1 .. Len(more)
      BY <1>1
    <3> HIDE DEF more
    <3> QED
      BY <1>1, <3>1, <3>2
  <2> QED
    BY <2>1, <2>2
<1> QED
  BY <1>2, <1>3 DEF Holds

(* The first line changes no table, and tells where the program is. *)
LEMMA ReadReferenceRight ==
  ASSUME TypeOK, TablesRight, ReadReference
  PROVE  TablesRight'
<1>1. line = 1 /\ line' = 2 /\ list' = list /\ Len(list) \in Nat
  BY ListType DEF ReadReference, Reading
<1>2. base' = LoadedAt[ReferencePoint]
  <2>1. /\ From[ReferencePoint] \in Nat /\ LoadedAt[ReferencePoint] \in Nat
        /\ Real(ReferencePoint) = LoadedAt[ReferencePoint] + From[ReferencePoint]
    BY Addresses, TableAssumption
  <2>2. base' = Real(ReferencePoint) - From[ReferencePoint]
    BY <1>1, ListType DEF ReadReference
  <2> QED
    BY <2>1, <2>2
<1>3. Entered = {} /\ Entered' = {} /\ EnteredCMA = {} /\ EnteredCMA' = {}
  BY <1>1 DEF Entered, EnteredCMA, Findable
<1>4. UNCHANGED <<cma, whitelist, process>> /\ process = "starting"
  BY DEF ReadReference, Reading
<1> QED
  BY <1>1, <1>2, <1>3, <1>4 DEF TablesRight, Holds

(* A function found at its line gets the range it is at. *)
LEMMA EnterRight ==
  ASSUME TypeOK, TablesRight, NEW shared \in BOOLEAN, Reading(shared), line # 1,
         shared => list[line].fn \in Exported,
         Enter(RangeOf(list[line].fn)), UNCHANGED base
  PROVE  TablesRight'
<1> DEFINE range == RangeOf(list[line].fn)
<1>1. /\ line \in 2 .. Len(list) /\ line' = line + 1 /\ list' = list
      /\ process = "starting" /\ list[line].shared = shared
  BY ListType DEF Reading, TypeOK
<1>2. range \in AddressRange /\ cma \in Seq(AddressRange) /\ whitelist \in Seq(AddressRange)
  BY <1>1, ListType, Addresses DEF TypeOK
<1>3. line \in Findable
  BY <1>1 DEF Findable
<1>4. Entered' = Entered \cup {line}
  BY <1>1, <1>3 DEF Entered, Findable
<1>5. /\ list[line].only => EnteredCMA' = EnteredCMA
      /\ ~list[line].only => EnteredCMA' = EnteredCMA \cup {line}
  BY <1>1, <1>4 DEF EnteredCMA
<1>6. /\ Holds(Append(whitelist, range), Entered \cup {line})
      /\ Holds(Append(cma, range), EnteredCMA \cup {line})
  <2>1. line \in Nat /\ Holds(whitelist, Entered) /\ Holds(cma, EnteredCMA)
    BY <1>1, ListType DEF TablesRight
  <2> HIDE DEF Holds
  <2> QED
    BY <1>2, <2>1, OneMore
<1>7. Holds(whitelist, Entered)'
  BY <1>1, <1>4, <1>6 DEF Enter, Holds
<1>8. Holds(cma, EnteredCMA)'
  <2>1. CASE list[line].only
    BY <1>1, <1>5, <2>1 DEF Enter, Holds, TablesRight
  <2>2. CASE ~list[line].only
    <3>1. cma' = Append(cma, range) /\ EnteredCMA' = EnteredCMA \cup {line}
      BY <1>1, <1>5, <2>2 DEF Enter
    <3>2. Holds(cma', EnteredCMA')
      BY <1>6, <3>1
    <3> HIDE DEF range
    <3> QED
      BY <1>1, <3>2 DEF Holds, RangeOf, Real
  <2> QED
    BY <2>1, <2>2
<1>9. process' # "running"
  BY <1>1 DEF Enter, Checked
<1> QED
  BY <1>1, <1>7, <1>8, <1>9 DEF TablesRight

LEMMA ReadListRight ==
  ASSUME TypeOK, TablesRight, ReadList
  PROVE  TablesRight'
<1>1. CASE ReadReference
  BY <1>1, ReadReferenceRight
<1>2. CASE ReadStatic
  <2>1. /\ Reading(FALSE) /\ line # 1 /\ UNCHANGED base
        /\ Enter(StaticRange(list[line].fn))
    BY <1>2 DEF ReadStatic
  <2>2. line \in 1 .. Len(list) /\ line > 1 /\ ~list[line].shared
    BY <2>1 DEF Reading, TypeOK
  <2>3. base = LoadedAt[list[line].fn]
    BY <2>2, ListType DEF TablesRight
  <2>4. StaticRange(list[line].fn) = RangeOf(list[line].fn)
    BY <2>2, <2>3, ListType, Addresses DEF StaticRange, RangeOf
  <2> QED
    BY <2>1, <2>4, EnterRight
<1>3. CASE ReadShared
  <2>1. /\ Reading(TRUE) /\ UNCHANGED base /\ list[line].fn \in Exported
        /\ Enter(DynamicRange(list[line].fn))
    BY <1>3 DEF ReadShared
  <2>2. line \in 1 .. Len(list) /\ line # 1
    BY <2>1, ListType DEF Reading, TypeOK
  <2>3. DynamicRange(list[line].fn) = RangeOf(list[line].fn)
    BY <2>2, ListType, Addresses
  <2> QED
    BY <2>1, <2>2, <2>3, EnterRight
<1>4. CASE SkipShared
  <2>1. /\ line \in 1 .. Len(list) /\ line' = line + 1 /\ list' = list
        /\ list[line].shared /\ list[line].fn \notin Exported
        /\ process = "starting" /\ UNCHANGED <<base, cma, whitelist, process>>
    BY <1>4 DEF SkipShared, Reading, TypeOK
  <2>2. line # 1
    BY <2>1, ListType
  <2>3. Entered' = Entered
    BY <2>1 DEF Entered, Findable
  <2>4. EnteredCMA' = EnteredCMA
    BY <2>1, <2>3 DEF EnteredCMA
  <2>5. base' = LoadedAt[ReferencePoint]
    BY <2>1, <2>2 DEF TablesRight
  <2>6. Holds(whitelist, Entered)' /\ Holds(cma, EnteredCMA)'
    BY <2>1, <2>3, <2>4 DEF TablesRight, Holds
  <2>7. process' # "running"
    BY <2>1
  <2> QED
    BY <2>5, <2>6, <2>7 DEF TablesRight
<1>5. CASE BeginProgram
  <2>1. /\ UNCHANGED <<list, line, base, cma, whitelist>> /\ line > Len(list)
        /\ line \in 1 .. Len(list) + 1 /\ Len(list) \in Nat
    BY <1>5, ListType DEF BeginProgram, TypeOK
  <2>2. Entered' = Entered
    BY <2>1 DEF Entered, Findable
  <2>3. EnteredCMA' = EnteredCMA
    BY <2>1, <2>2 DEF EnteredCMA
  <2>4. Holds(whitelist, Entered)' /\ Holds(cma, EnteredCMA)'
    BY <2>1, <2>2, <2>3 DEF TablesRight, Holds
  <2>5. line' = Len(list') + 1
    BY <2>1
  <2> QED
    <3>1. line' > 1 => base' = LoadedAt[ReferencePoint]
      BY <2>1 DEF TablesRight
    <3>2. Holds(whitelist, Entered)' /\ Holds(cma, EnteredCMA)'
      BY <2>4
    <3> QED
      BY <2>5, <3>1, <3>2 DEF TablesRight
<1> QED
  BY <1>1, <1>2, <1>3, <1>4, <1>5 DEF ReadList

-----------------------------------------------------------------------------
(* What is found in the tables once the program runs. *)
LEMMA TablesComplete ==
  ASSUME TypeOK, TablesRight, process = "running"
  PROVE  /\ \A k \in 1 .. Len(whitelist) :
              \E f \in Listed : f \in Function /\ whitelist[k] = RangeOf(f)
         /\ \A f \in Listed : \E k \in 1 .. Len(whitelist) : whitelist[k] = RangeOf(f)
         /\ \A k \in 1 .. Len(cma) :
              \E f \in KnownCMA : f \in Function /\ cma[k] = RangeOf(f)
         /\ \A f \in KnownCMA : \E k \in 1 .. Len(cma) : cma[k] = RangeOf(f)
<1>1. line = Len(list) + 1 /\ Len(list) \in Nat
  BY ListType DEF TablesRight
<1>2. Entered = Findable /\ EnteredCMA = {k \in Findable : ~list[k].only}
  BY <1>1 DEF Entered, EnteredCMA, Findable
<1>3. \A i \in Findable : list[i].fn \in Function
  BY ListType DEF Findable
<1>4. Holds(whitelist, Findable) /\ Holds(cma, {k \in Findable : ~list[k].only})
  BY <1>2 DEF TablesRight
<1>5. /\ \A k \in 1 .. Len(whitelist) :
           \E f \in Listed : f \in Function /\ whitelist[k] = RangeOf(f)
      /\ \A f \in Listed : \E k \in 1 .. Len(whitelist) : whitelist[k] = RangeOf(f)
  <2>1. ASSUME NEW k \in 1 .. Len(whitelist)
        PROVE  \E f \in Listed : f \in Function /\ whitelist[k] = RangeOf(f)
    <3>1. PICK i \in Findable : whitelist[k] = RangeOf(list[i].fn)
      BY <1>4 DEF Holds
    <3>2. list[i].fn \in Listed /\ list[i].fn \in Function
      BY <1>3 DEF Listed
    <3> QED
      BY <3>1, <3>2
  <2>2. ASSUME NEW f \in Listed
        PROVE  \E k \in 1 .. Len(whitelist) : whitelist[k] = RangeOf(f)
    <3>1. PICK i \in Findable : f = list[i].fn
      BY DEF Listed
    <3> QED
      BY <1>4, <3>1 DEF Holds
  <2> QED
    BY <2>1, <2>2
<1>6. /\ \A k \in 1 .. Len(cma) :
           \E f \in KnownCMA : f \in Function /\ cma[k] = RangeOf(f)
      /\ \A f \in KnownCMA : \E k \in 1 .. Len(cma) : cma[k] = RangeOf(f)
  <2>1. ASSUME NEW k \in 1 .. Len(cma)
        PROVE  \E f \in KnownCMA : f \in Function /\ cma[k] = RangeOf(f)
    <3>1. PICK i \in {n \in Findable : ~list[n].only} : cma[k] = RangeOf(list[i].fn)
      BY <1>4 DEF Holds
    <3>2. list[i].fn \in KnownCMA /\ list[i].fn \in Function
      BY <1>3 DEF KnownCMA
    <3> QED
      BY <3>1, <3>2
  <2>2. ASSUME NEW f \in KnownCMA
        PROVE  \E k \in 1 .. Len(cma) : cma[k] = RangeOf(f)
    <3>1. PICK i \in {n \in Findable : ~list[n].only} : f = list[i].fn
      BY DEF KnownCMA
    <3> QED
      BY <1>4, <3>1 DEF Holds
  <2> QED
    BY <2>1, <2>2
<1> QED
  BY <1>5, <1>6

(* isCMAInCallStack finds a listed function, and finds each. *)
LEMMA FilterFinds ==
  ASSUME TypeOK, TablesRight, process = "running",
         NEW frames \in Seq(Frame), \A i \in 1 .. Len(frames) : InCode(frames[i])
  PROVE  IsPoisonAccessFalsePositive(frames)
           <=> \E i \in 1 .. Len(frames) : frames[i].fn \in Listed
<1> DEFINE pcs == PcsOf(frames)
<1>1. /\ DOMAIN pcs = 1 .. Len(frames) /\ DOMAIN whitelist = 1 .. Len(whitelist)
      /\ \A i \in 1 .. Len(frames) : pcs[i] = frames[i].at
  BY DEF PcsOf, TypeOK
<1>2. \A i \in 1 .. Len(frames) : frames[i] \in Frame /\ frames[i].fn \in Function
  <2>1. ASSUME NEW i \in 1 .. Len(frames) PROVE frames[i] \in Frame
    BY ElementOfSeq
  <2> QED
    BY <2>1 DEF Frame
<1>3. ASSUME NEW i \in 1 .. Len(frames), NEW f \in Function
      PROVE  Within(RangeOf(f), frames[i].at) <=> f = frames[i].fn
  BY <1>2, OwnRange
<1>4. IsPoisonAccessFalsePositive(frames)
        <=> \E i \in 1 .. Len(frames), k \in 1 .. Len(whitelist) :
              Within(whitelist[k], frames[i].at)
  BY <1>1 DEF IsPoisonAccessFalsePositive, IsCMAInCallStack
<1>5. ASSUME NEW i \in 1 .. Len(frames), NEW k \in 1 .. Len(whitelist),
             Within(whitelist[k], frames[i].at)
      PROVE  frames[i].fn \in Listed
  <2>1. PICK f \in Listed : f \in Function /\ whitelist[k] = RangeOf(f)
    BY TablesComplete
  <2> QED
    BY <1>3, <1>5, <2>1
<1>6. ASSUME NEW i \in 1 .. Len(frames), frames[i].fn \in Listed
      PROVE  \E k \in 1 .. Len(whitelist) : Within(whitelist[k], frames[i].at)
  <2>1. PICK k \in 1 .. Len(whitelist) : whitelist[k] = RangeOf(frames[i].fn)
    BY <1>6, TablesComplete
  <2> QED
    BY <1>2, <1>3, <2>1
<1> QED
  BY <1>4, <1>5, <1>6

(* __asan_isInOtherCMA finds two known functions among four frames. *)
LEMMA OtherFinds ==
  ASSUME TypeOK, TablesRight, process = "running",
         NEW frames \in Seq(Frame), \A i \in 1 .. Len(frames) : InCode(frames[i])
  PROVE  IsInOtherCMA(frames) <=> Nested(frames, 1)
<1> DEFINE near == Visible(frames)
           pcs == PcsOf(near)
<1>1. /\ DOMAIN near = {i \in 1 .. Len(frames) : i <= 4}
      /\ \A i \in 1 .. Len(frames) : i <= 4 => near[i] = frames[i]
  <2>1. Len(frames) \in Nat
    OBVIOUS
  <2>2. CASE Len(frames) < 4
    BY <2>1, <2>2 DEF Visible
  <2>3. CASE ~(Len(frames) < 4)
    BY <2>1, <2>3 DEF Visible
  <2> QED
    BY <2>2, <2>3
<1> HIDE DEF near
<1>2. /\ DOMAIN pcs = {i \in 1 .. Len(frames) : i <= 4}
      /\ DOMAIN cma = 1 .. Len(cma)
      /\ \A i \in 1 .. Len(frames) : i <= 4 => pcs[i] = frames[i].at
  BY <1>1 DEF PcsOf, TypeOK
<1> HIDE DEF pcs
<1>3. \A i \in 1 .. Len(frames) : frames[i] \in Frame /\ frames[i].fn \in Function
  <2>1. ASSUME NEW i \in 1 .. Len(frames) PROVE frames[i] \in Frame
    BY ElementOfSeq
  <2> QED
    BY <2>1 DEF Frame
<1>4. ASSUME NEW i \in 1 .. Len(frames), NEW f \in Function
      PROVE  Within(RangeOf(f), frames[i].at) <=> f = frames[i].fn
  BY <1>3, OwnRange
<1>5. IsInOtherCMA(frames)
        <=> \E i, j \in 1 .. Len(frames) : \E k, l \in 1 .. Len(cma) :
              /\ i <= 4 /\ j <= 4
              /\ Within(cma[k], frames[i].at) /\ Within(cma[l], frames[j].at)
              /\ cma[k].from # cma[l].from
  <2>1. IsInOtherCMA(frames) <=> IsCMAInCallStackSkipOneCMA(pcs)
    BY DEF IsInOtherCMA, near, pcs
  <2>2. IsCMAInCallStackSkipOneCMA(pcs)
          <=> \E i, j \in DOMAIN pcs : \E k, l \in 1 .. Len(cma) :
                /\ Within(cma[k], pcs[i]) /\ Within(cma[l], pcs[j])
                /\ cma[k].from # cma[l].from
    BY <1>2 DEF IsCMAInCallStackSkipOneCMA
  <2>3. \A i : i \in DOMAIN pcs <=> i \in 1 .. Len(frames) /\ i <= 4
    BY <1>2
  <2>4. \A i \in DOMAIN pcs, k \in 1 .. Len(cma) :
          Within(cma[k], pcs[i]) <=> Within(cma[k], frames[i].at)
    BY <1>2, <2>3
  <2> HIDE DEF IsInOtherCMA, IsCMAInCallStackSkipOneCMA, Within
  <2>5. IsCMAInCallStackSkipOneCMA(pcs)
          <=> \E i, j \in DOMAIN pcs : \E k, l \in 1 .. Len(cma) :
                /\ Within(cma[k], frames[i].at) /\ Within(cma[l], frames[j].at)
                /\ cma[k].from # cma[l].from
    BY <2>2, <2>4
  <2>6. ASSUME IsInOtherCMA(frames)
        PROVE  \E i, j \in 1 .. Len(frames) : \E k, l \in 1 .. Len(cma) :
                 /\ i <= 4 /\ j <= 4
                 /\ Within(cma[k], frames[i].at) /\ Within(cma[l], frames[j].at)
                 /\ cma[k].from # cma[l].from
    <3>1. PICK i, j \in DOMAIN pcs : \E k, l \in 1 .. Len(cma) :
            /\ Within(cma[k], frames[i].at) /\ Within(cma[l], frames[j].at)
            /\ cma[k].from # cma[l].from
      BY <2>1, <2>5, <2>6
    <3>2. i \in 1 .. Len(frames) /\ j \in 1 .. Len(frames) /\ i <= 4 /\ j <= 4
      BY <2>3, <3>1
    <3> QED
      BY <3>1, <3>2
  <2>7. ASSUME NEW i \in 1 .. Len(frames), NEW j \in 1 .. Len(frames),
               NEW k \in 1 .. Len(cma), NEW l \in 1 .. Len(cma),
               i <= 4, j <= 4,
               Within(cma[k], frames[i].at), Within(cma[l], frames[j].at),
               cma[k].from # cma[l].from
        PROVE  IsInOtherCMA(frames)
    <3>1. i \in DOMAIN pcs /\ j \in DOMAIN pcs
      BY <2>3, <2>7
    <3> QED
      BY <2>1, <2>5, <2>7, <3>1
  <2> QED
    BY <2>6, <2>7
<1>6. ASSUME NEW i \in 1 .. Len(frames), NEW k \in 1 .. Len(cma),
             Within(cma[k], frames[i].at)
      PROVE  frames[i].fn \in KnownCMA /\ cma[k] = RangeOf(frames[i].fn)
  <2>1. PICK f \in KnownCMA : f \in Function /\ cma[k] = RangeOf(f)
    BY TablesComplete
  <2> QED
    BY <1>4, <1>6, <2>1
<1>7. ASSUME NEW i \in 1 .. Len(frames), frames[i].fn \in KnownCMA
      PROVE  \E k \in 1 .. Len(cma) : /\ Within(cma[k], frames[i].at)
                                      /\ cma[k] = RangeOf(frames[i].fn)
  <2>1. PICK k \in 1 .. Len(cma) : cma[k] = RangeOf(frames[i].fn)
    BY <1>7, TablesComplete
  <2> QED
    BY <1>3, <1>4, <2>1
<1>8. ASSUME NEW i \in 1 .. Len(frames), NEW j \in 1 .. Len(frames)
      PROVE  RangeOf(frames[i].fn).from # RangeOf(frames[j].fn).from
               <=> frames[i].fn # frames[j].fn
  BY <1>3, Addresses
<1>9. ASSUME IsInOtherCMA(frames) PROVE Nested(frames, 1)
  <2>1. PICK i, j \in 1 .. Len(frames), k, l \in 1 .. Len(cma) :
          /\ i <= 4 /\ j <= 4
          /\ Within(cma[k], frames[i].at) /\ Within(cma[l], frames[j].at)
          /\ cma[k].from # cma[l].from
    BY <1>5, <1>9
  <2>2. /\ frames[i].fn \in KnownCMA /\ frames[j].fn \in KnownCMA
        /\ frames[i].fn # frames[j].fn
    BY <1>6, <2>1
  <2> QED
    BY <2>1, <2>2 DEF Nested
<1>10. ASSUME Nested(frames, 1) PROVE IsInOtherCMA(frames)
  <2>1. PICK i, j \in 1 .. Len(frames) :
          /\ i <= 4 /\ j <= 4
          /\ frames[i].fn \in KnownCMA /\ frames[j].fn \in KnownCMA
          /\ frames[i].fn # frames[j].fn
    BY <1>10 DEF Nested
  <2>2. PICK k \in 1 .. Len(cma) : /\ Within(cma[k], frames[i].at)
                                   /\ cma[k] = RangeOf(frames[i].fn)
    BY <1>7, <2>1
  <2>3. PICK l \in 1 .. Len(cma) : /\ Within(cma[l], frames[j].at)
                                   /\ cma[l] = RangeOf(frames[j].fn)
    BY <1>7, <2>1
  <2>4. cma[k].from # cma[l].from
    BY <1>8, <2>1, <2>2, <2>3
  <2> QED
    BY <1>5, <2>1, <2>2, <2>3, <2>4
<1> QED
  BY <1>9, <1>10

-----------------------------------------------------------------------------
LEMMA InitInv == Init => Inv
<1> SUFFICES ASSUME Init PROVE Inv
  OBVIOUS
<1> USE DEF Init, TableInit
<1>1. TypeOK
  <2>1. Main \in Function /\ Real(Main) \in Nat /\ MaxDepth \in Nat \ {0}
    BY Addresses, NestingAssumption
  <2>2. Len(list) \in Nat /\ CMA_MAX_N \in Nat \ {0}
    BY TableAssumption
  <2>3. stack \in Seq(Frame) /\ Len(stack) = 1
    BY <2>1 DEF Frame
  <2>4. <<>> \in Seq(AddressRange) /\ Len(<<>>) = 0
    BY EmptySeq
  <2>5. line \in 1 .. Len(list) + 1
    BY <2>2
  <2>6. Len(stack) \in 1 .. MaxDepth
    BY <2>1, <2>3
  <2>7. /\ cma \in Seq(AddressRange) /\ whitelist \in Seq(AddressRange)
        /\ Len(cma) = 0 /\ Len(whitelist) = 0
    BY <2>4
  <2>8. /\ list \in Lists /\ base \in Nat /\ process = "starting"
        /\ opened \in BOOLEAN /\ access = "none"
    OBVIOUS
  <2> HIDE DEF Init, TableInit
  <2> QED
    BY <2>2, <2>3, <2>5, <2>6, <2>7, <2>8 DEF TypeOK
<1>2. TablesRight
  <2>1. Entered = {} /\ EnteredCMA = {}
    BY <1>1, ListType DEF Entered, EnteredCMA, Findable
  <2> QED
    BY <2>1 DEF TablesRight, Holds
<1>3. StackRight
  <2>1. Main \in Function /\ Main \notin Instrumented
    BY NestingAssumption
  <2>2. /\ Len(stack) = 1 /\ stack[1].fn = Main
        /\ stack[1].at = Real(Main) /\ stack[1].hooked = FALSE
    OBVIOUS
  <2>3. InCode(stack[1])
    BY <2>1, <2>2, Addresses DEF InCode
  <2>4. \A i \in 1 .. Len(stack) : i = 1
    BY <2>2
  <2> QED
    BY <2>1, <2>2, <2>3, <2>4 DEF StackRight
<1>4. FilterExact
  BY DEF FilterExact
<1> QED
  BY <1>1, <1>2, <1>3, <1>4 DEF Inv

LEMMA StartInv == ASSUME Inv, Start PROVE Inv'
<1> USE DEF Inv
<1>1. UNCHANGED <<stack, opened, access, list>> /\ ReadList
  BY DEF Start, ReadList, ReadReference, ReadStatic, ReadShared, SkipShared,
         Reading, BeginProgram
<1>2. process = "starting" /\ access = "none"
  BY <1>1 DEF StackRight, ReadList, ReadReference, ReadStatic, ReadShared, SkipShared,
              Reading, BeginProgram
<1>3. TablesRight'
  BY <1>1, ReadListRight
<1>4. TypeOK'
  <2>1. ASSUME NEW shared \in BOOLEAN, Reading(shared)
        PROVE  list' = list /\ line' \in 1 .. Len(list) + 1
    BY <2>1, ListType DEF Reading, TypeOK
  <2>2. ASSUME NEW shared \in BOOLEAN, Reading(shared), UNCHANGED base,
               NEW range \in AddressRange, Enter(range)
        PROVE  TypeOK'
    <3>1. /\ whitelist' \in Seq(AddressRange) /\ Len(whitelist') = Len(whitelist) + 1
          /\ cma' \in Seq(AddressRange)
          /\ Len(cma') = Len(cma) \/ Len(cma') = Len(cma) + 1
      BY <2>2 DEF Enter, TypeOK
    <3>2. /\ Len(cma) \in Nat /\ Len(whitelist) \in Nat
          /\ Len(cma') \in Nat /\ Len(whitelist') \in Nat
      BY <3>1 DEF TypeOK
    <3>3. Len(cma') <= Len(whitelist')
      BY <3>1, <3>2, <2>2 DEF Enter, TypeOK
    <3>4. Len(whitelist') <= CMA_MAX_N
      BY <1>2, <3>1, <3>2, TableAssumption DEF TypeOK
    <3>5. /\ process' \in {"starting", "aborted"}
          /\ process' # "aborted" => Len(whitelist') < CMA_MAX_N
      BY <1>2, <2>2 DEF Enter, Checked
    <3>6. list' = list /\ line' \in 1 .. Len(list) + 1
      BY <2>1, <2>2
    <3> QED
      BY <1>1, <2>2, <3>1, <3>3, <3>4, <3>5, <3>6 DEF TypeOK
  <2>3. CASE ReadReference
    <3>1. base' \in Nat
      <4>1. line = 1 /\ base' = Real(ReferencePoint) - From[list[line].fn]
        BY <2>3 DEF ReadReference
      <4>2. /\ From[ReferencePoint] \in Nat /\ LoadedAt[ReferencePoint] \in Nat
            /\ Real(ReferencePoint) = LoadedAt[ReferencePoint] + From[ReferencePoint]
        BY Addresses, TableAssumption
      <4> QED
        BY <4>1, <4>2, ListType
    <3>2. Reading(FALSE) /\ UNCHANGED <<cma, whitelist, process>>
      BY <2>3 DEF ReadReference
    <3> QED
      BY <1>1, <2>1, <3>1, <3>2 DEF TypeOK
  <2>4. CASE ReadStatic
    <3>1. Reading(FALSE) /\ UNCHANGED base /\ Enter(StaticRange(list[line].fn))
      BY <2>4 DEF ReadStatic
    <3>2. line \in 1 .. Len(list) /\ base \in Nat
      BY <3>1 DEF Reading, TypeOK
    <3>3. StaticRange(list[line].fn) \in AddressRange
      <4>1. list[line].fn \in Function
        BY <3>2, ListType
      <4>2. From[list[line].fn] \in Nat /\ To[list[line].fn] \in Nat
        BY <4>1, Addresses
      <4> QED
        BY <3>2, <4>2 DEF StaticRange, AddressRange
    <3> QED
      BY <2>2, <3>1, <3>3
  <2>5. CASE ReadShared
    <3>1. Reading(TRUE) /\ UNCHANGED base /\ Enter(DynamicRange(list[line].fn))
      BY <2>5 DEF ReadShared
    <3>2. line \in 1 .. Len(list)
      BY <3>1 DEF Reading, TypeOK
    <3>3. DynamicRange(list[line].fn) \in AddressRange
      BY <3>2, ListType, Addresses
    <3> QED
      BY <2>2, <3>1, <3>3
  <2>6. CASE SkipShared
    <3>1. Reading(TRUE) /\ UNCHANGED <<base, cma, whitelist, process>>
      BY <2>6 DEF SkipShared
    <3> QED
      BY <1>1, <2>1, <3>1 DEF TypeOK
  <2>7. CASE BeginProgram
    <3>1. /\ UNCHANGED <<list, line, base, cma, whitelist>>
          /\ process = "starting" /\ process' = "running"
      BY <2>7 DEF BeginProgram
    <3> QED
      BY <1>1, <3>1 DEF TypeOK
  <2> QED
    BY <1>1, <2>3, <2>4, <2>5, <2>6, <2>7 DEF ReadList
<1>5. StackRight'
  <2>1. KnownCMA' = KnownCMA
    BY <1>1 DEF KnownCMA, Findable
  <2> QED
    BY <1>1, <1>2, <2>1 DEF StackRight, Nested, InCode, Real
<1>6. FilterExact'
  BY <1>1, <1>2 DEF FilterExact
<1> QED
  BY <1>3, <1>4, <1>5, <1>6

-----------------------------------------------------------------------------
(* A site is in the code of the function on top, and no other frame moves. *)
LEMMA AtSite ==
  ASSUME TypeOK, StackRight, NEW site \in Sites[stack[1].fn]
  PROVE  /\ StackAt(site) \in Seq(Frame) /\ Len(StackAt(site)) = Len(stack)
         /\ \A i \in 1 .. Len(stack) :
              /\ StackAt(site)[i].fn = stack[i].fn
              /\ StackAt(site)[i].hooked = stack[i].hooked
              /\ InCode(StackAt(site)[i])
<1> DEFINE top == [stack[1] EXCEPT !.at = Real(stack[1].fn) + site]
<1>1. stack \in Seq(Frame) /\ 1 \in 1 .. Len(stack) /\ Len(stack) \in Nat
  BY NestingAssumption DEF TypeOK
<1>2. stack[1] \in Frame /\ stack[1].fn \in Function
  <2>1. stack[1] \in Frame
    BY <1>1, ElementOfSeq
  <2> QED
    BY <2>1 DEF Frame
<1>3. /\ site \in 0 .. To[stack[1].fn] - From[stack[1].fn]
      /\ From[stack[1].fn] \in Nat /\ To[stack[1].fn] \in Nat
      /\ LoadedAt[stack[1].fn] \in Nat /\ Real(stack[1].fn) \in Nat
      /\ Real(stack[1].fn) = LoadedAt[stack[1].fn] + From[stack[1].fn]
  BY <1>2, Addresses, NestingAssumption
<1>4. /\ top \in Frame /\ top.fn = stack[1].fn /\ top.hooked = stack[1].hooked
      /\ top.at = Real(stack[1].fn) + site
  BY <1>2, <1>3 DEF Frame
<1>5. InCode(top)
  BY <1>3, <1>4 DEF InCode
<1>6. StackAt(site) = [stack EXCEPT ![1] = top]
  BY DEF StackAt
<1> HIDE DEF top
<1>7. /\ StackAt(site) \in Seq(Frame) /\ Len(StackAt(site)) = Len(stack)
      /\ \A i \in 1 .. Len(stack) :
           StackAt(site)[i] = IF i = 1 THEN top ELSE stack[i]
  BY <1>1, <1>4, <1>6, ExceptSeq
<1>8. ASSUME NEW i \in 1 .. Len(stack)
      PROVE  /\ StackAt(site)[i].fn = stack[i].fn
             /\ StackAt(site)[i].hooked = stack[i].hooked
             /\ InCode(StackAt(site)[i])
  <2>1. CASE i = 1
    BY <1>4, <1>5, <1>7, <2>1
  <2>2. CASE i # 1
    BY <1>7, <2>2 DEF StackRight
  <2> QED
    BY <2>1, <2>2
<1> QED
  BY <1>7, <1>8

LEMMA SameNested ==
  ASSUME NEW frames, NEW others, Len(frames) = Len(others),
         \A i \in 1 .. Len(frames) : frames[i].fn = others[i].fn, NEW i \in Nat
  PROVE  Nested(frames, i) <=> Nested(others, i)
BY DEF Nested

(* A frame sees the same callers when functions are called in front of it. *)
LEMMA NestedBehind ==
  ASSUME NEW frames \in Seq(Frame), NEW others \in Seq(Frame),
         Len(others) = Len(frames) + 1,
         \A i \in 1 .. Len(frames) : others[i + 1].fn = frames[i].fn,
         NEW i \in 1 .. Len(frames)
  PROVE  Nested(others, i + 1) <=> Nested(frames, i)
<1>1. Len(frames) \in Nat
  OBVIOUS
<1>2. ASSUME Nested(frames, i) PROVE Nested(others, i + 1)
  <2>1. PICK a, b \in 1 .. Len(frames) :
          /\ i <= a /\ a <= i + 3 /\ i <= b /\ b <= i + 3
          /\ frames[a].fn \in KnownCMA /\ frames[b].fn \in KnownCMA
          /\ frames[a].fn # frames[b].fn
    BY <1>2 DEF Nested
  <2>2. /\ a + 1 \in 1 .. Len(others) /\ b + 1 \in 1 .. Len(others)
        /\ i + 1 <= a + 1 /\ a + 1 <= (i + 1) + 3
        /\ i + 1 <= b + 1 /\ b + 1 <= (i + 1) + 3
    BY <1>1, <2>1
  <2>3. others[a + 1].fn = frames[a].fn /\ others[b + 1].fn = frames[b].fn
    OBVIOUS
  <2> QED
    BY <2>1, <2>2, <2>3 DEF Nested
<1>3. ASSUME Nested(others, i + 1) PROVE Nested(frames, i)
  <2>1. PICK a, b \in 1 .. Len(others) :
          /\ i + 1 <= a /\ a <= (i + 1) + 3 /\ i + 1 <= b /\ b <= (i + 1) + 3
          /\ others[a].fn \in KnownCMA /\ others[b].fn \in KnownCMA
          /\ others[a].fn # others[b].fn
    BY <1>3 DEF Nested
  <2>2. /\ a - 1 \in 1 .. Len(frames) /\ b - 1 \in 1 .. Len(frames)
        /\ i <= a - 1 /\ a - 1 <= i + 3 /\ i <= b - 1 /\ b - 1 <= i + 3
        /\ (a - 1) + 1 = a /\ (b - 1) + 1 = b
    BY <1>1, <2>1
  <2>3. others[a].fn = frames[a - 1].fn /\ others[b].fn = frames[b - 1].fn
    BY <2>2
  <2> QED
    BY <2>1, <2>2, <2>3 DEF Nested
<1> QED
  BY <1>2, <1>3

(* What a step of the program leaves alone. *)
LEMMA TablesKept ==
  ASSUME TablesRight, UNCHANGED <<list, line, base, cma, whitelist, process>>
  PROVE  TablesRight' /\ Listed' = Listed /\ KnownCMA' = KnownCMA
<1>1. Findable' = Findable
  BY DEF Findable
<1>2. Entered' = Entered
  BY <1>1 DEF Entered
<1>3. EnteredCMA' = EnteredCMA
  BY <1>2 DEF EnteredCMA
<1>4. Listed' = Listed /\ KnownCMA' = KnownCMA
  BY <1>1 DEF Listed, KnownCMA
<1> QED
  BY <1>2, <1>3, <1>4 DEF TablesRight, Holds

-----------------------------------------------------------------------------
LEMMA CallInv == ASSUME Inv, NEW f \in Function, Call(f) PROVE Inv'
<1> USE DEF Inv
<1>1. PICK site \in Sites[stack[1].fn] :
        LET callers == StackAt(site)
            entry == [fn |-> f, at |-> Real(f), hooked |-> FALSE]
            nested == IsInOtherCMA(<<entry>> \o callers)
        IN  stack' = <<[entry EXCEPT !.hooked = f \in Instrumented /\ ~nested]>>
                       \o callers
  BY DEF Call
<1> DEFINE callers == StackAt(site)
           entry == [fn |-> f, at |-> Real(f), hooked |-> FALSE]
           frames == <<entry>> \o callers
           acts == f \in Instrumented /\ ~IsInOtherCMA(frames)
           first == [fn |-> f, at |-> Real(f), hooked |-> acts]
<1>2. stack' = <<first>> \o callers
  BY <1>1
<1>3. /\ process = "running" /\ access' = "none" /\ Len(stack) < MaxDepth
      /\ UNCHANGED <<list, line, base, cma, whitelist, process, opened>>
  BY DEF Call
<1>4. /\ callers \in Seq(Frame) /\ Len(callers) = Len(stack)
      /\ \A i \in 1 .. Len(stack) :
           /\ callers[i].fn = stack[i].fn /\ callers[i].hooked = stack[i].hooked
           /\ InCode(callers[i])
  BY AtSite
<1> HIDE DEF callers
<1>5. entry \in Frame /\ InCode(entry) /\ first \in Frame /\ InCode(first)
  <2>1. /\ Real(f) \in Nat /\ Real(f) <= LoadedAt[f] + To[f]
    BY Addresses
  <2>2. acts \in BOOLEAN
    OBVIOUS
  <2> HIDE DEF acts
  <2> QED
    BY <2>1, <2>2 DEF Frame, InCode
<1>6. /\ <<entry>> \in Seq(Frame) /\ Len(<<entry>>) = 1 /\ <<entry>>[1] = entry
      /\ <<first>> \in Seq(Frame) /\ Len(<<first>>) = 1 /\ <<first>>[1] = first
  BY <1>5
<1>7. entry.fn = f /\ first.fn = f /\ first.hooked = acts
  OBVIOUS
<1> HIDE DEF entry, first
<1>8. /\ frames \in Seq(Frame) /\ Len(frames) = Len(stack) + 1
      /\ frames[1] = entry
      /\ \A i \in 1 .. Len(stack) : frames[i + 1] = callers[i]
  <2>1. /\ <<entry>> \o callers \in Seq(Frame)
        /\ Len(<<entry>> \o callers) = 1 + Len(callers)
        /\ \A i \in 1 .. 1 + Len(callers) : (<<entry>> \o callers)[i] =
             IF i <= 1 THEN <<entry>>[i] ELSE callers[i - 1]
    BY <1>4, <1>6, ConcatProperties
  <2> QED
    BY <1>4, <1>6, <2>1 DEF TypeOK
<1>9. /\ stack' \in Seq(Frame) /\ Len(stack') = Len(stack) + 1
      /\ stack'[1] = first
      /\ \A i \in 1 .. Len(stack) : stack'[i + 1] = callers[i]
  <2>1. /\ <<first>> \o callers \in Seq(Frame)
        /\ Len(<<first>> \o callers) = 1 + Len(callers)
        /\ \A i \in 1 .. 1 + Len(callers) : (<<first>> \o callers)[i] =
             IF i <= 1 THEN <<first>>[i] ELSE callers[i - 1]
    BY <1>4, <1>6, ConcatProperties
  <2> QED
    BY <1>2, <1>4, <1>6, <2>1 DEF TypeOK
<1> HIDE DEF frames
<1>10. Len(stack) \in Nat /\ Len(stack) >= 1
  BY DEF TypeOK
<1>11. \A i \in 1 .. Len(frames) : InCode(frames[i])
  <2>1. ASSUME NEW i \in 1 .. Len(frames) PROVE InCode(frames[i])
    <3>1. CASE i = 1
      BY <1>5, <1>8, <3>1
    <3>2. CASE i # 1
      <4>1. i - 1 \in 1 .. Len(stack) /\ (i - 1) + 1 = i
        BY <1>8, <1>10, <3>2
      <4> QED
        BY <1>4, <1>8, <4>1
    <3> QED
      BY <3>1, <3>2
  <2> QED
    BY <2>1
<1>12. IsInOtherCMA(frames) <=> Nested(frames, 1)
  BY <1>3, <1>8, <1>11, OtherFinds
<1>13. TypeOK'
  <2>1. Len(stack') \in 1 .. MaxDepth
    BY <1>3, <1>9, <1>10, NestingAssumption
  <2> QED
    BY <1>3, <1>9, <2>1 DEF TypeOK
<1>14. TablesRight' /\ KnownCMA' = KnownCMA
  BY <1>3, TablesKept
<1>15. StackRight'
  <2>1. ASSUME NEW i \in 1 .. Len(stack')
        PROVE  /\ InCode(stack'[i])
               /\ stack'[i].hooked
                    <=> stack'[i].fn \in Instrumented /\ ~Nested(stack', i)
    <3>1. CASE i = 1
      <4>1. \A k \in 1 .. Len(frames) : frames[k].fn = stack'[k].fn
        <5>1. ASSUME NEW k \in 1 .. Len(frames) PROVE frames[k].fn = stack'[k].fn
          <6>1. k = 1 \/ (k - 1 \in 1 .. Len(stack) /\ (k - 1) + 1 = k)
            BY <1>8, <1>10
          <6> QED
            BY <1>7, <1>8, <1>9, <6>1
        <5> QED
          BY <5>1
      <4>2. Nested(frames, 1) <=> Nested(stack', 1)
        BY <1>8, <1>9, <4>1, SameNested
      <4>3. acts <=> f \in Instrumented /\ ~Nested(stack', 1)
        BY <1>12, <4>2
      <4> HIDE DEF acts
      <4> QED
        BY <1>5, <1>7, <1>9, <3>1, <4>3
    <3>2. CASE i # 1
      <4>1. i - 1 \in 1 .. Len(stack) /\ (i - 1) + 1 = i
        BY <1>9, <1>10, <3>2
      <4>2. /\ stack'[i].fn = stack[i - 1].fn
            /\ stack'[i].hooked = stack[i - 1].hooked /\ InCode(stack'[i])
        BY <1>4, <1>9, <4>1
      <4>3. \A k \in 1 .. Len(stack) : stack'[k + 1].fn = stack[k].fn
        BY <1>4, <1>9
      <4>4. Nested(stack', (i - 1) + 1) <=> Nested(stack, i - 1)
        BY <1>9, <4>1, <4>3, NestedBehind DEF TypeOK
      <4> QED
        BY <4>1, <4>2, <4>4 DEF StackRight
    <3> QED
      BY <3>1, <3>2
  <2>2. \A i \in 1 .. Len(stack') : InCode(stack[i])'
    BY <2>1 DEF InCode, Real
  <2>3. \A i \in 1 .. Len(stack') : Nested(stack, i)' <=> Nested(stack', i)
    BY <1>14 DEF Nested
  <2> QED
    BY <1>3, <2>1, <2>2, <2>3 DEF StackRight
<1>16. FilterExact'
  BY <1>3 DEF FilterExact
<1> QED
  BY <1>13, <1>14, <1>15, <1>16

LEMMA ReturnInv == ASSUME Inv, Return PROVE Inv'
<1> USE DEF Inv
<1>1. /\ process = "running" /\ access' = "none" /\ Len(stack) > 1
      /\ stack' = Tail(stack)
      /\ UNCHANGED <<list, line, base, cma, whitelist, process, opened>>
  BY DEF Return
<1>2. stack \in Seq(Frame) /\ Len(stack) \in Nat /\ Len(stack) <= MaxDepth
  BY DEF TypeOK
<1>3. /\ stack' \in Seq(Frame) /\ Len(stack') = Len(stack) - 1
      /\ \A i \in 1 .. Len(stack') : stack'[i] = stack[i + 1]
  BY <1>1, <1>2, HeadTailProperties, EmptySeq
<1>4. TypeOK'
  <2>1. Len(stack') \in 1 .. MaxDepth
    BY <1>1, <1>2, <1>3, NestingAssumption
  <2> QED
    BY <1>1, <1>3, <2>1 DEF TypeOK
<1>5. TablesRight' /\ KnownCMA' = KnownCMA
  BY <1>1, TablesKept
<1>6. ASSUME NEW i \in 1 .. Len(stack')
      PROVE  /\ InCode(stack'[i])
             /\ stack'[i].hooked
                  <=> stack'[i].fn \in Instrumented /\ ~Nested(stack', i)
  <2>1. i + 1 \in 1 .. Len(stack) /\ stack'[i] = stack[i + 1]
    BY <1>2, <1>3
  <2>2. Len(stack) = Len(stack') + 1
    BY <1>2, <1>3
  <2>3. Nested(stack, i + 1) <=> Nested(stack', i)
    BY <1>2, <1>3, <2>2, NestedBehind
  <2> QED
    BY <2>1, <2>3 DEF StackRight
<1>7. StackRight'
  <2>1. \A i \in 1 .. Len(stack') : InCode(stack[i])'
    BY <1>6 DEF InCode, Real
  <2>2. \A i \in 1 .. Len(stack') : Nested(stack, i)' <=> Nested(stack', i)
    BY <1>5 DEF Nested
  <2> QED
    BY <1>1, <1>6, <2>1, <2>2 DEF StackRight
<1>8. FilterExact'
  BY <1>1 DEF FilterExact
<1> QED
  BY <1>4, <1>5, <1>7, <1>8

LEMMA ReportInv == ASSUME Inv, ReportGenericError PROVE Inv'
<1> USE DEF Inv
<1>1. PICK site \in Sites[stack[1].fn] : stack' = StackAt(site)
  BY DEF ReportGenericError
<1>2. /\ process = "running"
      /\ access' = IF IsPoisonAccessFalsePositive(stack') THEN "passed" ELSE "reported"
      /\ UNCHANGED <<list, line, base, cma, whitelist, process, opened>>
  BY DEF ReportGenericError
<1>3. /\ stack' \in Seq(Frame) /\ Len(stack') = Len(stack)
      /\ \A i \in 1 .. Len(stack) :
           /\ stack'[i].fn = stack[i].fn /\ stack'[i].hooked = stack[i].hooked
           /\ InCode(stack'[i])
  BY <1>1, AtSite
<1>4. Len(stack) \in Nat
  BY DEF TypeOK
<1>5. TypeOK'
  BY <1>2, <1>3 DEF TypeOK
<1>6. TablesRight' /\ Listed' = Listed /\ KnownCMA' = KnownCMA
  BY <1>2, TablesKept
<1>7. StackRight'
  <2>1. \A i \in 1 .. Len(stack') : InCode(stack[i])'
    BY <1>3 DEF InCode, Real
  <2>2. \A i \in 1 .. Len(stack') : Nested(stack, i)' <=> Nested(stack, i)
    BY <1>3, <1>6 DEF Nested
  <2> QED
    BY <1>2, <1>3, <2>1, <2>2 DEF StackRight
<1>8. FilterExact'
  <2>1. IsPoisonAccessFalsePositive(stack')
          <=> \E i \in 1 .. Len(stack') : stack'[i].fn \in Listed
    BY <1>2, <1>3, FilterFinds
  <2>2. DOMAIN stack' = 1 .. Len(stack')
    BY <1>3
  <2> HIDE DEF IsPoisonAccessFalsePositive
  <2> QED
    BY <1>2, <1>6, <2>1, <2>2 DEF FilterExact
<1> QED
  BY <1>5, <1>6, <1>7, <1>8

(* Neither opening a plugin nor standing still changes anything. *)
LEMMA OpenInv ==
  ASSUME Inv, opened' \in BOOLEAN,
         UNCHANGED <<list, line, base, cma, whitelist, process, stack, access>>
  PROVE  Inv'
<1> USE DEF Inv
<1>1. TypeOK'
  BY DEF TypeOK
<1>2. TablesRight' /\ Listed' = Listed /\ KnownCMA' = KnownCMA
  BY TablesKept
<1>3. StackRight'
  BY <1>2 DEF StackRight, Nested, InCode, Real
<1>4. FilterExact'
  BY <1>2 DEF FilterExact
<1> QED
  BY <1>1, <1>2, <1>3, <1>4

(* The tables, the stack and the answers agree in every state.            *)
THEOREM InvAlways == Spec => []Inv
<1>1. Inv /\ [Next]_vars => Inv'
  <2> SUFFICES ASSUME Inv, [Next]_vars PROVE Inv'
    OBVIOUS
  <2>1. CASE Start
    BY <2>1, StartInv
  <2>2. CASE CMASanOnDlOpen
    BY <2>2, OpenInv DEF CMASanOnDlOpen
  <2>3. CASE \E f \in Function : Call(f)
    BY <2>3, CallInv
  <2>4. CASE Return
    BY <2>4, ReturnInv
  <2>5. CASE ReportGenericError
    BY <2>5, ReportInv
  <2>6. CASE UNCHANGED vars
    BY <2>6, OpenInv DEF vars, Inv, TypeOK
  <2> QED
    BY <2>1, <2>2, <2>3, <2>4, <2>5, <2>6 DEF Next
<1> QED
  BY InitInv, <1>1, PTL DEF Spec

-----------------------------------------------------------------------------
(* The tables stay within their bounds, and the stack is one of frames.    *)
THEOREM TypeCorrect == Spec => []TypeOK
<1>1. Inv => TypeOK
  BY DEF Inv
<1> QED
  BY <1>1, InvAlways, PTL

(* The filter of reports lets exactly those accesses pass that a listed    *)
(* function is on the stack for, in every program and at every depth.      *)
THEOREM FilterAlwaysExact == Spec => []FilterExact
<1>1. Inv => FilterExact
  BY DEF Inv
<1> QED
  BY <1>1, InvAlways, PTL

(* A frame acts exactly if no other CMA function is near behind it.        *)
LEMMA OutermostHooked == Inv => HookedOnce
<1> SUFFICES ASSUME Inv, CloselyNested, NEW i \in Positions
             PROVE  stack[i].hooked <=> \A j \in Positions : j <= i
  BY DEF HookedOnce
<1>1. /\ DOMAIN stack = 1 .. Len(stack) /\ Len(stack) \in Nat
      /\ i \in 1 .. Len(stack) /\ stack[i].fn \in Instrumented
  BY DEF Inv, TypeOK, Positions
<1>2. stack[i].hooked <=> ~Nested(stack, i)
  BY <1>1 DEF Inv, StackRight
<1>3. \A j \in 1 .. Len(stack) : stack[j].fn \in KnownCMA => j \in Positions
  <2>1. KnownCMA \subseteq Instrumented
    BY ListType DEF Inv, KnownCMA, Findable
  <2> QED
    BY <1>1, <2>1 DEF Positions
<1>4. \A j \in Positions : j \in 1 .. Len(stack) /\ stack[j].fn \in KnownCMA
  BY <1>1 DEF CloselyNested, Positions
<1>5. ASSUME NEW j \in Positions, j > i PROVE Nested(stack, i)
  <2>1. PICK k \in Positions : k \in i + 1 .. i + 3 /\ stack[k].fn # stack[i].fn
    BY <1>5 DEF CloselyNested
  <2>2. /\ i <= k /\ k <= i + 3 /\ i <= i /\ i <= i + 3
    BY <1>1, <2>1
  <2> QED
    BY <1>1, <1>4, <2>1, <2>2 DEF Nested
<1>6. ASSUME Nested(stack, i) PROVE \E j \in Positions : j > i
  <2>1. PICK a, b \in 1 .. Len(stack) :
          /\ i <= a /\ i <= b
          /\ stack[a].fn \in KnownCMA /\ stack[b].fn \in KnownCMA
          /\ stack[a].fn # stack[b].fn
    BY <1>6 DEF Nested
  <2>2. a > i \/ b > i
    BY <1>1, <2>1
  <2> QED
    BY <1>3, <2>1, <2>2
<1>7. (\A j \in Positions : j <= i) <=> ~(\E j \in Positions : j > i)
  BY <1>1, <1>4
<1> QED
  BY <1>2, <1>5, <1>6, <1>7

(* Of the functions of a CMA that call each other closely, the hooks of    *)
(* the outermost one act, and no others, for every program and list.       *)
THEOREM AlwaysHookedOnce == Spec => []HookedOnce
BY InvAlways, OutermostHooked, PTL
=============================================================================
