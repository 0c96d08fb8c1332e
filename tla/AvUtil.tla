------------------------------- MODULE AvUtil -------------------------------
(***************************************************************************)
(* The arithmetic of the headers that the player is compiled against:      *)
(* libavutil's common.h, rational.h, mem.h, fifo.h and bswap.h, the        *)
(* functions which are defined in the header itself.  Each is written the  *)
(* way the code computes it, in integers of the code's widths: a sum of    *)
(* unsigned numbers wraps, a test of the bits above some bit is a division, *)
(* an arithmetic shift to the right is a division that rounds down.  What  *)
(* they promise, in the words of their comments, is stated and proved in   *)
(* Libav_proofs.                                                           *)
(***************************************************************************)
EXTENDS Integers

Two15 == 32768
Two31 == 2147483648
Two32 == 2 * Two31
Two63 == Two31 * Two32
Two64 == Two32 * Two32

Int32 == -Two31 .. Two31 - 1
Int64 == -Two63 .. Two63 - 1
Uint16 == {a \in Nat : a < 65536}

\* Conversions to the unsigned types: the value modulo the width.
AsUnsigned(a) == a % Two32
AsUnsigned64(a) == a % Two64

\* a >> 31 and a >> 63: 0 or -1, the sign in every bit.
SignMask(a) == IF a < 0 THEN -1 ELSE 0

\* mask ^ k for such a mask: k, or all bits of k flipped.
XorMask(mask, k) == IF mask = 0 THEN k ELSE -1 - k

\* ~mask for such a mask.
NotMask(mask) == -1 - mask

-----------------------------------------------------------------------------
(* common.h: clipping and saturation.                                       *)

av_clip_c(a, amin, amax) ==
  IF a < amin THEN amin ELSE IF a > amax THEN amax ELSE a

av_clip64_c(a, amin, amax) == av_clip_c(a, amin, amax)

\* The two functions to 0 .. top, top being 2^n - 1; the result is cut to n
\* bits by its type.
ClipToUnsigned(a, top) ==
  IF AsUnsigned(a) \div (top + 1) # 0
  THEN NotMask(SignMask(a)) % (top + 1)
  ELSE a

av_clip_uint8_c(a) == ClipToUnsigned(a, 255)
av_clip_uint16_c(a) == ClipToUnsigned(a, 65535)

\* The two functions to -half .. half - 1, half being 2^n.
ClipToSigned(a, half) ==
  IF AsUnsigned(a + half) \div (2 * half) # 0
  THEN XorMask(SignMask(a), half - 1)
  ELSE a

av_clip_int8_c(a) == ClipToSigned(a, 128)
av_clip_int16_c(a) == ClipToSigned(a, Two15)

\* The sum is one of 64 bits with sign, taken as unsigned by the mask.
av_clipl_int32_c(a) ==
  IF AsUnsigned64(a + Two31) \div Two32 # 0
  THEN XorMask(SignMask(a), Two31 - 1)
  ELSE a

\* p is given by its power, P = 2^p.
av_clip_intp2_c(a, P) == ClipToSigned(a, P)
av_clip_uintp2_c(a, P) ==
  IF AsUnsigned(a) \div P # 0
  THEN NotMask(SignMask(a)) % P
  ELSE a
av_mod_uintp2_c(a, P) == a % P

av_sat_add32_c(a, b) == av_clipl_int32_c(a + b)
av_sat_sub32_c(a, b) == av_clipl_int32_c(a - b)
av_sat_dadd32_c(a, b) == av_sat_add32_c(a, av_sat_add32_c(b, b))
av_sat_dsub32_c(a, b) == av_sat_sub32_c(a, av_sat_add32_c(b, b))

-----------------------------------------------------------------------------
(* mem.h: the product of two sizes.  R is 2^(4 * sizeof(size_t)), so sizes  *)
(* are below R * R, and the bits of a | b from R up are set when those of   *)
(* one of them are.                                                         *)

av_size_mult(a, b, R) ==
  LET t == (a * b) % (R * R)
  IN IF (a >= R \/ b >= R) /\ a # 0 /\ t \div a # b
     THEN [ret |-> "EINVAL"]
     ELSE [ret |-> 0, r |-> t]

-----------------------------------------------------------------------------
(* fifo.h: the byte at an offset from the next to be read, in a buffer from *)
(* 0 to end.                                                                *)

av_fifo_peek2(rptr, offs, end) ==
  LET ptr == rptr + offs
  IN IF ptr >= end THEN ptr - end
     ELSE IF ptr < 0 THEN end - (0 - ptr)
     ELSE ptr

-----------------------------------------------------------------------------
(* rational.h: comparing and inverting rationals.                           *)

INT_MIN == -Two31

Rational == [num : Int32, den : Int32]

CrossDifference(a, b) == (a.num * b.den) - (b.num * a.den)

\* (tmp ^ a.den ^ b.den) >> 63 | 1: the sign of a product.
SignOfProduct(x, y, z) == IF (x < 0) = ((y < 0) = (z < 0)) THEN -1 ELSE 1

av_cmp_q(a, b) ==
  LET tmp == CrossDifference(a, b)
  IN IF tmp # 0 THEN SignOfProduct(tmp, a.den, b.den)
     ELSE IF b.den # 0 /\ a.den # 0 THEN 0
     ELSE IF a.num # 0 /\ b.num # 0 THEN SignMask(a.num) - SignMask(b.num)
     ELSE INT_MIN

av_inv_q(q) == [num |-> q.den, den |-> q.num]

-----------------------------------------------------------------------------
(* bswap.h: bytes in the opposite order.  The parts that are put together   *)
(* have no bit in common: their union is their sum.                         *)

av_bswap16(x) == ((x \div 256) + (x * 256)) % 65536

AV_BSWAP16C(x) == ((x * 256) % 65536) + ((x \div 256) % 256)
AV_BSWAP32C(x) == (AV_BSWAP16C(x) * 65536) + AV_BSWAP16C(x \div 65536)

av_bswap32(x) == AV_BSWAP32C(x)
av_bswap64(x) == (av_bswap32(x % Two32) * Two32) + av_bswap32(x \div Two32)

-----------------------------------------------------------------------------
(* common.h: UTF-16, for the code points there are.                         *)

\* 0 .. 0x10FFFF without the surrogates, 0xD800 .. 0xDFFF.
CodePoints == {c \in Nat : c < 1114112 /\ (c < 55296 \/ c > 57343)}

PUT_UTF16(val) ==
  IF val < 65536
  THEN <<val>>
  ELSE <<55296 + ((val - 65536) \div 1024), 56320 + ((val - 65536) % 1024)>>

\* next is the word after the first one; -1 stands for ERROR.
GET_UTF16(first, next) ==
  LET hi == AsUnsigned(first - 55296)
      lo == AsUnsigned(next - 56320)
  IN IF hi < 2048
     THEN IF lo > 1023 \/ hi > 1023 THEN -1 ELSE lo + (hi * 1024) + 65536
     ELSE first
=============================================================================
