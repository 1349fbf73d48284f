------------------------ MODULE ChunkGeometryProofs ------------------------
(***************************************************************************)
(* What __asan_extendSize and allocateCMAChunkImpl compute, for every      *)
(* request that does not come near the size of a machine word.             *)
(***************************************************************************)
EXTENDS ChunkGeometry, TLAPS

(* RoundDownTo gives the granule a byte lies in. *)
LEMMA RoundDown ==
  ASSUME NEW x \in Nat
  PROVE  /\ RoundDownTo(x) \in Nat /\ RoundDownTo(x) % 8 = 0
         /\ RoundDownTo(x) <= x /\ x < RoundDownTo(x) + 8
  BY SMT DEF RoundDownTo, ShadowGranularity

LEMMA RoundUp ==
  ASSUME NEW x \in Nat
  PROVE  /\ RoundUpTo(x) \in Nat /\ RoundUpTo(x) % 8 = 0
         /\ x <= RoundUpTo(x) /\ RoundUpTo(x) < x + 8
  BY SMT DEF RoundUpTo, RoundDownTo, ShadowGranularity

(* A redzone has 16 to 2048 bytes, whole granules. *)
LEMMA RedzoneSizes ==
  ASSUME NEW size \in Nat
  PROVE  /\ RZLog2Size(ComputeRZLog(size)) \in 16 .. 2048
         /\ RZLog2Size(ComputeRZLog(size)) % 8 = 0
<1>1. SizeLog(size) \in 0 .. 7
  <2>1. CASE \E i \in 1 .. 7 : size <= Thresholds[i]
    <3>1. \E l \in 0 .. 6 : /\ size <= Thresholds[l + 1]
                            /\ l = 0 \/ size > Thresholds[l]
      BY <2>1, SMT DEF Thresholds
    <3>2. QED  BY <2>1, <3>1, SMT DEF SizeLog
  <2>2. CASE ~\E i \in 1 .. 7 : size <= Thresholds[i]
    BY <2>2, SMT DEF SizeLog
  <2>3. QED  BY <2>1, <2>2
<1>2. ComputeRZLog(size) \in 0 .. 7
  BY <1>1, GeometryAssumption, SMT DEF ComputeRZLog
<1>3. \A l \in 0 .. 7 : RZLog2Size(l) \in 16 .. 2048 /\ RZLog2Size(l) % 8 = 0
  BY SMT DEF RZLog2Size
<1>4. QED  BY <1>2, <1>3

(* Integer division by any number of bytes per element. *)
LEMMA Quotient ==
  ASSUME NEW a \in Nat, NEW g \in Nat \ {0}
  PROVE  /\ a \div g \in Nat
         /\ (a \div g) * g <= a
         /\ a < (a \div g) * g + g
  BY SMTT(30)

LEMMA ProductNat ==
  ASSUME NEW n \in Nat, NEW g \in Nat
  PROVE  n * g \in Nat
  BY SMT

(* Without wrapping, the bytes asked for exceed those requested by the     *)
(* smallest redzone and the padding at least, and by 2063 at most.         *)
LEMMA ExtendedBytesBounds ==
  ASSUME NEW num \in Nat, NEW gran \in Nat, Fits(num, gran)
  PROVE  /\ RealSize(num, gran) = num * gran
         /\ ExtendedBytes(num, gran) \in Nat
         /\ num * gran + 24 <= ExtendedBytes(num, gran)
         /\ ExtendedBytes(num, gran) < num * gran + 2064
         /\ ExtendedBytes(num, gran) % 8 = 0
<1> DEFINE real == num * gran
           up == RoundUpTo(real)
           rz == RZLog2Size(ComputeRZLog(up))
<1>1. real \in Nat
  BY ProductNat
<1>2. RealSize(num, gran) = real
  <2>1. real + 2064 < Word
    BY DEF Fits
  <2> HIDE DEF real
  <2>2. real % Word = real
    BY <1>1, <2>1, GeometryAssumption, SMT
  <2>3. QED  BY <2>2 DEF RealSize, real
<1>3. up \in Nat /\ up % 8 = 0 /\ real <= up /\ up < real + 8
  <2> HIDE DEF real
  <2> QED  BY <1>1, RoundUp
<1>4. rz \in 16 .. 2048 /\ rz % 8 = 0
  <2>1. \A size \in Nat : /\ RZLog2Size(ComputeRZLog(size)) \in 16 .. 2048
                          /\ RZLog2Size(ComputeRZLog(size)) % 8 = 0
    BY RedzoneSizes
  <2>2. up \in Nat
    BY <1>3
  <2> HIDE DEF up
  <2>3. /\ RZLog2Size(ComputeRZLog(up)) \in 16 .. 2048
        /\ RZLog2Size(ComputeRZLog(up)) % 8 = 0
    BY <2>1, <2>2
  <2>4. QED  BY <2>3
<1>5. up % Word = up
  <2>1. real + 2064 < Word
    BY DEF Fits
  <2> HIDE DEF real, up
  <2> QED  BY <1>1, <1>3, <2>1, GeometryAssumption, SMT
<1>6. ExtendedBytes(num, gran) = (up + rz + 8) % Word
  BY <1>2, <1>5 DEF ExtendedBytes, ShadowGranularity
<1>7. (up + rz + 8) % Word = up + rz + 8
  <2>1. real + 2064 < Word
    BY DEF Fits
  <2> HIDE DEF real, up, rz
  <2> QED  BY <1>1, <1>3, <1>4, <2>1, GeometryAssumption, SMT
<1>8. (up + rz + 8) % 8 = 0
  <2> HIDE DEF up, rz
  <2> QED  BY <1>3, <1>4, SMT
<1> HIDE DEF real, up, rz
<1>9. QED  BY <1>1, <1>2, <1>3, <1>4, <1>6, <1>7, <1>8, SMT DEF real

(* __asan_extendSize never asks for less than the program did.             *)
THEOREM ExtendNeverShrinks ==
  ASSUME NEW num \in Nat, NEW gran \in Nat, Fits(num, gran)
  PROVE  ExtendSize(num, gran) \in Nat /\ num <= ExtendSize(num, gran)
<1> DEFINE ext == ExtendedBytes(num, gran)
           q == ext \div gran
<1>1. CASE num = 0 \/ gran = 0
  BY <1>1 DEF ExtendSize
<1>2. CASE num # 0 /\ gran # 0
  <2>1. ext \in Nat /\ num * gran + 24 <= ext /\ RealSize(num, gran) = num * gran
    BY ExtendedBytesBounds
  <2>2. ExtendSize(num, gran) = q
    BY <1>2, <2>1, ProductNat, SMT DEF ExtendSize
  <2>3. q \in Nat /\ ext < q * gran + gran
    <3> HIDE DEF ext
    <3> QED  BY <1>2, <2>1, Quotient
  <2>4. num * gran < (q + 1) * gran
    <3> HIDE DEF ext, q
    <3> QED  BY <2>1, <2>3, ProductNat, SMT
  <2>5. num < q + 1
    <3> HIDE DEF q
    <3> QED  BY <1>2, <2>3, <2>4, SMTT(30)
  <2> HIDE DEF q
  <2>6. QED  BY <2>2, <2>3, <2>5, SMT
<1>3. QED  BY <1>1, <1>2

(* A chunk that is not coarse ends with a granule, within the memory the   *)
(* CMA was asked for, and its redzone is not empty, at whatever address    *)
(* the CMA puts it: allocateCMAChunkImpl poisons no byte of another chunk  *)
(* and leaves an overflow something to hit.                                *)
THEOREM RedzoneFits ==
  ASSUME NEW ptr \in Nat, NEW num \in Nat, NEW gran \in Nat,
         Fits(num, gran), ~IsEmpty(num, gran), ~IsCoarse(num, gran)
  PROVE  LET end == ChunkEnd(ptr, num, gran)
         IN  /\ end \in Nat /\ end % 8 = 0
             /\ ptr + num * gran < end
             /\ end <= ptr + ExtendSize(num, gran) * gran
<1> DEFINE ext == ExtendedBytes(num, gran)
           q == ext \div gran
           seg == q * gran
           end == RoundDownTo(ptr + seg)
<1>1. ext \in Nat /\ num * gran + 24 <= ext /\ RealSize(num, gran) = num * gran
  BY ExtendedBytesBounds
<1>2. num # 0 /\ gran # 0
  <2>1. 0 * gran = 0 /\ num * 0 = 0
    BY SMT
  <2>2. QED  BY <1>1, <2>1 DEF IsEmpty
<1>3. ExtendSize(num, gran) = q
  BY <1>1, <1>2, ProductNat, SMT DEF ExtendSize
<1>4. q \in Nat /\ seg <= ext /\ ext < seg + gran
  <2> HIDE DEF ext
  <2> QED  BY <1>1, <1>2, Quotient
<1>5. num + 1 <= q
  <2>1. num <= q
    BY <1>3, ExtendNeverShrinks
  <2>2. q # num
    BY <1>3 DEF IsCoarse
  <2> HIDE DEF q
  <2> QED  BY <1>4, <2>1, <2>2, SMT
<1>6. num * gran + gran <= seg
  <2> HIDE DEF q
  <2> QED  BY <1>4, <1>5, SMTT(30)
<1>7. seg \in Nat
  BY <1>4, ProductNat
<1>8. end \in Nat /\ end % 8 = 0 /\ end <= ptr + seg /\ ptr + seg < end + 8
  <2>1. ptr + seg \in Nat
    <3> HIDE DEF seg
    <3> QED  BY <1>7, SMT
  <2> SUFFICES ASSUME NEW x \in Nat, x = ptr + seg
               PROVE  /\ RoundDownTo(x) \in Nat /\ RoundDownTo(x) % 8 = 0
                      /\ RoundDownTo(x) <= x /\ x < RoundDownTo(x) + 8
    BY <2>1
  <2> QED  BY RoundDown
<1>9. ptr + num * gran < end
  <2>1. num * gran \in Nat
    BY ProductNat
  <2> HIDE DEF ext, seg, end
  <2> QED  BY <1>1, <1>2, <1>4, <1>6, <1>7, <1>8, <2>1, SMT
<1>10. ChunkEnd(ptr, num, gran) = end
  BY <1>3 DEF ChunkEnd
<1> HIDE DEF end
<1>11. QED  BY <1>3, <1>8, <1>9, <1>10
=============================================================================
