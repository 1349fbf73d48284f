--------------------------- MODULE ChunkGeometry ---------------------------
(***************************************************************************)
(* How much memory a CMA is asked for and where the redzone of a chunk     *)
(* lies: the arithmetic of __asan_extendSize and allocateCMAChunkImpl.     *)
(*                                                                         *)
(* A request is a number of elements and the bytes of one (the granularity *)
(* of the hooks); for most allocators an element is a byte.  The CMA is    *)
(* asked for more elements, so that a redzone fits behind those requested; *)
(* where an element is large the redzone may round down to none, and the   *)
(* request is called coarse here.  Numbers are unsigned machine words.     *)
(***************************************************************************)
EXTENDS Integers

CONSTANTS
  Word,      \* a word holds 0 .. Word - 1
  MinRZLog,  \* RZSize2Log of the flag "redzone"
  MaxRZLog   \* and of "max_redzone"

ASSUME GeometryAssumption ==
  /\ Word \in Nat \ {0}
  /\ MinRZLog \in 0 .. 7 /\ MaxRZLog \in 0 .. 7

ShadowGranularity == 8  \* ASAN_SHADOW_GRANULARITY

RoundDownTo(x) == x - (x % ShadowGranularity)
RoundUpTo(x) == RoundDownTo(x + ShadowGranularity - 1)

(* The thresholds of ComputeRZLog: sizes up to the i-th get log i - 1. *)
Thresholds == <<48, 96, 448, 3968, 16128, 32256, 64512>>

SizeLog(size) ==
  IF \E i \in 1 .. 7 : size <= Thresholds[i]
  THEN CHOOSE l \in 0 .. 6 : /\ size <= Thresholds[l + 1]
                             /\ l = 0 \/ size > Thresholds[l]
  ELSE 7

(* The flags bound the log from both sides; the size of the chunk header,  *)
(* which bounds it as well, has log zero.                                  *)
ComputeRZLog(size) ==
  LET low == IF SizeLog(size) < MinRZLog THEN MinRZLog ELSE SizeLog(size)
  IN  IF low < MaxRZLog THEN low ELSE MaxRZLog

RZLog2Size(log) == <<16, 32, 64, 128, 256, 512, 1024, 2048>>[log + 1]

(* The bytes a request is for, as a word. *)
RealSize(num, gran) == (num * gran) % Word

(* The request, its largest redzone and the padding fit into a word. *)
Fits(num, gran) == num * gran + 2064 < Word

(* The bytes of a request with its redzone and the padding for alignment. *)
ExtendedBytes(num, gran) ==
  LET byteSize == RoundUpTo(RealSize(num, gran)) % Word
  IN  (byteSize + RZLog2Size(ComputeRZLog(byteSize)) + ShadowGranularity) % Word

(* __asan_extendSize outside of other CMAs: the elements the CMA is asked  *)
(* for.                                                                    *)
ExtendSize(num, gran) ==
  IF num = 0 \/ gran = 0 \/ ExtendedBytes(num, gran) < RealSize(num, gran)
  THEN num
  ELSE ExtendedBytes(num, gran) \div gran

(* The request is for no bytes. *)
IsEmpty(num, gran) == RealSize(num, gran) = 0

(* The early return of allocateCMAChunkImpl: there is no room for a        *)
(* redzone.                                                                *)
IsCoarse(num, gran) == ~IsEmpty(num, gran) /\ ExtendSize(num, gran) = num

(* Mutant: the end of a chunk is rounded up. *)
ChunkEndAbove(ptr, num, gran) ==
  IF IsEmpty(num, gran) THEN RoundDownTo(ptr + ShadowGranularity)
  ELSE RoundUpTo(ptr + ExtendSize(num, gran) * gran)

(* The end of the chunk at ptr with its redzone; a chunk without bytes     *)
(* ends with its granule (pseudo_chunk_end).                               *)
ChunkEnd(ptr, num, gran) ==
  IF IsEmpty(num, gran) THEN RoundDownTo(ptr + ShadowGranularity)
  ELSE RoundDownTo(ptr + ExtendSize(num, gran) * gran)

(* Mutant: the bytes that rounding cuts off are counted in. *)
RZSizeUnrounded(ptr, num, gran) ==
  IF IsEmpty(num, gran) THEN ShadowGranularity
  ELSE ExtendSize(num, gran) * gran - RealSize(num, gran)

(* rz_size. *)
RZSize(ptr, num, gran) ==
  ChunkEnd(ptr, num, gran) - ptr - RealSize(num, gran)
=============================================================================
