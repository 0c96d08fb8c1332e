---------------------------- MODULE Libav_proofs ----------------------------
(***************************************************************************)
(* What is proved of the modules without state: first what the header      *)
(* functions of AvUtil promise, for every argument of their types, then    *)
(* what the proofs about the programs that use codecs have in common:      *)
(* what becomes of the sequences of packets that a codec holds and a       *)
(* program writes. Packets are numbers, their places in the file.          *)
(*                                                                         *)
(* The widths beyond 2^31 are products of names which the proofs use       *)
(* through Widths and LongWidths and never as numerals.                    *)
(***************************************************************************)
EXTENDS AvUtil, AvCodec, SequencesExt, SequenceTheorems, WellFoundedInduction, TLAPS

-----------------------------------------------------------------------------
(* Arithmetic.                                                              *)

(* An int lies between its bounds (common.h's arguments).                   *)
LEMMA InInt32 ==
  ASSUME NEW a \in Int32
  PROVE  a \in Int /\ -Two31 <= a /\ a < Two31
<1>1. Two31 \in Nat
  BY SMT DEF Two31
<1> QED
  BY <1>1, SMT DEF Int32

(* How the widths of int and unsigned relate.                               *)
LEMMA Widths ==
  /\ Two31 \in Nat /\ Two31 > 65536
  /\ Two32 \in Nat /\ Two32 = 2 * Two31
<1>1. Two31 \in Nat /\ Two31 > 65536
  BY SMT DEF Two31
<1> QED
  BY <1>1, SMT DEF Two32

(* How those of the 64 bit types relate to them.                            *)
LEMMA LongWidths ==
  /\ Two63 \in Nat /\ Two63 = 2 * (Two31 * Two31) /\ Two63 > 2 * Two32
  /\ Two64 \in Nat /\ Two64 = 2 * Two63
<1>1. Two63 = Two31 * (2 * Two31) /\ Two64 = (2 * Two31) * (2 * Two31)
  BY DEF Two32, Two63, Two64
<1>2. Two31 * Two31 > 65536 * Two31
  BY Widths, SMT
<1> QED
  BY <1>1, <1>2, Widths, SMT

(* A number modulo N, when it is at most N away from the range.             *)
LEMMA Wraps ==
  ASSUME NEW N \in Nat \ {0}, NEW a \in Int, -N <= a, a < N
  PROVE  a % N = IF a < 0 THEN a + N ELSE a
  BY SMT

(* Conversion of an int, or of a sum with one, to unsigned.                 *)
LEMMA AsUnsignedIs ==
  ASSUME NEW a \in Int, -Two32 <= a, a < Two32
  PROVE  AsUnsigned(a) = IF a < 0 THEN a + Two32 ELSE a
<1>1. Two32 \in Nat \ {0}
  BY Widths, SMT
<1> QED
  BY <1>1, Wraps DEF AsUnsigned

(* common.h:159 and 181: the test of the high bits, and ~a >> 31 cut to the *)
(* width of the result, clip to 0 .. top.                                   *)
LEMMA ToUnsigned ==
  ASSUME NEW a \in Int32, NEW top \in Nat, top < Two31
  PROVE  ClipToUnsigned(a, top) = av_clip_c(a, 0, top)
<1> DEFINE u == AsUnsigned(a)
<1>1. /\ a \in Int /\ -Two31 <= a /\ a < Two31
      /\ u = IF a < 0 THEN a + Two32 ELSE a
  BY InInt32, Widths, AsUnsignedIs, SMT
<1>2. CASE a < 0
  <2>1. u \div (top + 1) # 0
    BY <1>1, <1>2, Widths, SMT
  <2>2. 0 % (top + 1) = 0
    BY SMT
  <2> QED
    BY <1>1, <1>2, <2>1, <2>2, SMT DEF ClipToUnsigned, NotMask, SignMask, av_clip_c
<1>3. CASE ~(a < 0)
  <2>1. u \div (top + 1) = 0 <=> a <= top
    BY <1>1, <1>3, SMT
  <2>2. (-1) % (top + 1) = top
    BY SMT
  <2>3. SignMask(a) = 0 /\ NotMask(0) = -1
    BY <1>3, SMT DEF NotMask, SignMask
  <2> QED
    BY <1>1, <1>3, <2>1, <2>2, <2>3, SMT DEF ClipToUnsigned, av_clip_c
<1> QED
  BY <1>2, <1>3

(* common.h:170, 192 and 215: adding half, as unsigned, makes the test of the*)
(* high bits one for -half .. half - 1, although the sum wraps for a < -half.*)
LEMMA ToSigned ==
  ASSUME NEW a \in Int32, NEW half \in Nat \ {0}, 2 * half <= Two31
  PROVE  ClipToSigned(a, half) = av_clip_c(a, -half, half - 1)
<1> DEFINE u == AsUnsigned(a + half)
<1>1. /\ a \in Int /\ -Two31 <= a /\ a < Two31
      /\ u = IF a + half < 0 THEN a + half + Two32 ELSE a + half
  BY InInt32, Widths, AsUnsignedIs, SMT
<1>2. u \div (2 * half) = 0 <=> -half <= a /\ a <= half - 1
  <2>1. u \in Nat
    BY <1>1, Widths, SMT
  <2>2. u \div (2 * half) = 0 <=> u < 2 * half
    BY <2>1, SMT
  <2> QED
    BY <1>1, <2>2, Widths, SMT
<1> QED
  BY <1>1, <1>2, SMT DEF ClipToSigned, XorMask, SignMask, av_clip_c

(* common.h:154-199: the four clips to 8 and 16 bits by bit tests give what *)
(* av_clip_c gives for the range their comments name, for every int.        *)
THEOREM ClipsAreClips ==
  ASSUME NEW a \in Int32
  PROVE  /\ av_clip_uint8_c(a) = av_clip_c(a, 0, 255)
         /\ av_clip_uint16_c(a) = av_clip_c(a, 0, 65535)
         /\ av_clip_int8_c(a) = av_clip_c(a, -128, 127)
         /\ av_clip_int16_c(a) = av_clip_c(a, -Two15, Two15 - 1)
<1>1. /\ 255 \in Nat /\ 65535 \in Nat /\ 255 < Two31 /\ 65535 < Two31
      /\ 128 \in Nat \ {0} /\ Two15 \in Nat \ {0}
      /\ 2 * 128 <= Two31 /\ 2 * Two15 <= Two31 /\ 128 - 1 = 127
  BY SMT DEF Two31, Two15
<1>2. ClipToUnsigned(a, 255) = av_clip_c(a, 0, 255) /\ ClipToUnsigned(a, 65535) = av_clip_c(a, 0, 65535)
  BY <1>1, ToUnsigned, SMT
<1>3. ClipToSigned(a, 128) = av_clip_c(a, -128, 127) /\ ClipToSigned(a, Two15) = av_clip_c(a, -Two15, Two15 - 1)
  BY <1>1, ToSigned, SMT
<1> QED
  BY <1>2, <1>3, SMT DEF av_clip_uint8_c, av_clip_uint16_c, av_clip_int8_c, av_clip_int16_c

(* common.h:209-233: the same for the ranges of p bits, P = 2^p.  The sum of*)
(* av_clip_intp2_c is unsigned, so p may be up to 30.                       *)
THEOREM ClipsToPowers ==
  ASSUME NEW a \in Int32, NEW P \in Nat \ {0}, 2 * P <= Two31
  PROVE  /\ av_clip_intp2_c(a, P) = av_clip_c(a, -P, P - 1)
         /\ av_clip_uintp2_c(a, P) = av_clip_c(a, 0, P - 1)
<1>1. av_clip_intp2_c(a, P) = av_clip_c(a, -P, P - 1)
  BY ToSigned DEF av_clip_intp2_c
<1>2. P - 1 \in Nat /\ P - 1 < Two31 /\ (P - 1) + 1 = P
  BY Widths, SMT
<1>3. ClipToUnsigned(a, P - 1) = av_clip_c(a, 0, P - 1)
  BY <1>2, ToUnsigned
<1>4. av_clip_uintp2_c(a, P) = ClipToUnsigned(a, P - 1)
  BY <1>2 DEF av_clip_uintp2_c, ClipToUnsigned
<1> QED
  BY <1>1, <1>3, <1>4

(* common.h:203: the clip of a 64 bit value to 32 bits, for every value whose*)
(* sum with 2^31 fits: that sum is signed, and overflows above.             *)
THEOREM ClipLong ==
  ASSUME NEW a \in Int64, a + Two31 < Two63
  PROVE  av_clipl_int32_c(a) = av_clip_c(a, -Two31, Two31 - 1)
<1> DEFINE u == AsUnsigned64(a + Two31)
<1>1. a \in Int /\ -Two63 <= a /\ a < Two63
  BY LongWidths, SMT DEF Int64
<1>2. u = IF a + Two31 < 0 THEN a + Two31 + Two64 ELSE a + Two31
  <2>1. /\ Two64 \in Nat \ {0} /\ a + Two31 \in Int
        /\ -Two64 <= a + Two31 /\ a + Two31 < Two64
    BY <1>1, Widths, LongWidths, SMT
  <2> QED
    BY <2>1, Wraps DEF AsUnsigned64
<1> HIDE DEF u
<1>3. u \div Two32 = 0 <=> -Two31 <= a /\ a < Two31
  <2>1. u \in Nat
    BY <1>1, <1>2, Widths, LongWidths, SMT
  <2>2. u \div Two32 = 0 <=> u < Two32
    BY <2>1, Widths, SMT
  <2> QED
    BY <1>1, <1>2, <2>2, Widths, LongWidths, SMT
<1>4. av_clipl_int32_c(a) = IF u \div Two32 # 0 THEN XorMask(SignMask(a), Two31 - 1) ELSE a
  BY DEF av_clipl_int32_c, u
<1> QED
  BY <1>1, <1>3, <1>4, Widths, SMT DEF XorMask, SignMask, av_clip_c

(* common.h:246-280: sum and difference saturate: the 64 bit sum of two ints*)
(* is never one of those that ClipLong excludes.                            *)
THEOREM SaturatedSums ==
  ASSUME NEW a \in Int32, NEW b \in Int32
  PROVE  /\ av_sat_add32_c(a, b) = av_clip_c(a + b, -Two31, Two31 - 1)
         /\ av_sat_sub32_c(a, b) = av_clip_c(a - b, -Two31, Two31 - 1)
<1>1. /\ a \in Int /\ -Two31 <= a /\ a < Two31
      /\ b \in Int /\ -Two31 <= b /\ b < Two31
  BY InInt32
<1>2. \A c \in Int : -Two32 <= c /\ c <= Two32 => c \in Int64 /\ c + Two31 < Two63
  <2>1. Two31 \in Nat /\ Two32 \in Nat /\ Two63 \in Nat /\ Two32 + Two31 < Two63
    BY Widths, LongWidths, SMT
  <2> QED
    BY <2>1, SMT DEF Int64
<1>3. a + b \in Int64 /\ a - b \in Int64 /\ a + b + Two31 < Two63 /\ a - b + Two31 < Two63
  BY <1>1, <1>2, Widths, SMT
<1> QED
  BY <1>3, ClipLong DEF av_sat_add32_c, av_sat_sub32_c

(* A clipped value is an int again (common.h:265).                          *)
LEMMA ClipInt32 ==
  ASSUME NEW a \in Int
  PROVE  av_clip_c(a, -Two31, Two31 - 1) \in Int32
  BY Widths, SMT DEF av_clip_c, Int32

(* common.h:258-292: the doubled value saturates first, then the sum, as the*)
(* comments sat(a + sat(2*b)) and sat(a - sat(2*b)) say.                    *)
THEOREM SaturatedTwice ==
  ASSUME NEW a \in Int32, NEW b \in Int32
  PROVE  LET twice == av_clip_c(2 * b, -Two31, Two31 - 1) IN
         /\ av_sat_dadd32_c(a, b) = av_clip_c(a + twice, -Two31, Two31 - 1)
         /\ av_sat_dsub32_c(a, b) = av_clip_c(a - twice, -Two31, Two31 - 1)
<1> DEFINE twice == av_clip_c(2 * b, -Two31, Two31 - 1)
<1>1. b \in Int /\ b + b = 2 * b
  BY InInt32, SMT
<1>2. av_sat_add32_c(b, b) = twice /\ twice \in Int32
  BY <1>1, SaturatedSums, ClipInt32, SMT
<1> QED
  BY <1>2, SaturatedSums DEF av_sat_dadd32_c, av_sat_dsub32_c

(* mem.h:669: av_size_mult returns the product whenever it fits a size_t and*)
(* an error whenever it does not, for any width: skipping the division when *)
(* both are below the root misses no overflow.                              *)
THEOREM SizeProductsFit ==
  ASSUME NEW R \in Nat \ {0}, NEW a \in 0 .. R * R - 1, NEW b \in 0 .. R * R - 1
  PROVE  /\ a * b < R * R  => av_size_mult(a, b, R) = [ret |-> 0, r |-> a * b]
         /\ a * b >= R * R => av_size_mult(a, b, R) = [ret |-> "EINVAL"]
<1> DEFINE N == R * R
           t == (a * b) % N
<1>1. a \in Nat /\ b \in Nat /\ N \in Nat \ {0} /\ a * b \in Nat
  BY SMT
<1> HIDE DEF N
<1>2. CASE a * b < N
  <2>1. t = a * b
    BY <1>1, <1>2, SMT
  <2>2. a # 0 => (a * b) \div a = b
    BY <1>1, SMT
  <2> QED
    BY <1>1, <1>2, <2>1, <2>2, SMT DEF av_size_mult, N
<1>3. CASE a * b >= N
  <2>1. t \in Nat /\ t < N
    BY <1>1, SMT
  <2>2. a # 0
    BY <1>1, <1>3, SMT
  <2>3. t \div a # b
    <3>1. \A q \in Int : q = t \div a => a * q <= t
      BY <1>1, <2>1, <2>2, SMT
    <3> QED
      BY <1>1, <1>3, <2>1, <3>1, SMT
  <2>4. a >= R \/ b >= R
    <3>1. ASSUME a < R, b < R PROVE a * b < R * R
      BY <1>1, <3>1, SMT
    <3> QED
      BY <1>1, <1>3, <3>1, SMT DEF N
  <2> QED
    BY <1>1, <1>3, <2>2, <2>3, <2>4, SMT DEF av_size_mult, N
<1> QED
  BY <1>1, <1>2, <1>3, SMT DEF N

(* fifo.h:169: for an offset of at most the buffer's size either way, the   *)
(* pointer stays in the buffer and goes around its end: one correction      *)
(* is enough.                                                               *)
THEOREM PeekStaysInside ==
  ASSUME NEW end \in Nat \ {0}, NEW rptr \in 0 .. end - 1, NEW offs \in -end .. end
  PROVE  av_fifo_peek2(rptr, offs, end) = (rptr + offs) % end
<1>1. CASE rptr + offs >= end
  BY <1>1, SMT DEF av_fifo_peek2
<1>2. CASE rptr + offs < 0
  BY <1>2, SMT DEF av_fifo_peek2
<1>3. CASE rptr + offs \in 0 .. end - 1
  BY <1>3, SMT DEF av_fifo_peek2
<1> QED
  BY <1>1, <1>2, <1>3, SMT

Byte == 0 .. 255

\* The 32 bit word of four bytes, the first at the lowest address of a
\* little-endian machine.
Word(b0, b1, b2, b3) == b0 + (256 * b1) + (65536 * b2) + (16777216 * b3)

(* bswap.h:51: AV_BSWAP16C swaps the two low bytes and drops what is above. *)
LEMMA Swap16C ==
  ASSUME NEW b0 \in Byte, NEW b1 \in Byte, NEW high \in Nat
  PROVE  AV_BSWAP16C(b0 + (256 * b1) + (65536 * high)) = b1 + (256 * b0)
<1> DEFINE x == b0 + (256 * b1) + (65536 * high)
<1>1. b0 \in Nat /\ b1 \in Nat /\ b0 < 256 /\ b1 < 256
  BY SMT DEF Byte
<1>2. x \div 256 = b1 + (256 * high)
  BY <1>1, SMT
<1>3. (x \div 256) % 256 = b1
  BY <1>1, <1>2, SMT
<1>4. (x * 256) % 65536 = 256 * b0
  <2>1. x * 256 = (256 * b0) + (65536 * (b1 + (256 * high)))
    BY <1>1, SMT
  <2> QED
    BY <1>1, <2>1, SMT
<1> QED
  BY <1>1, <1>3, <1>4, SMT DEF AV_BSWAP16C

(* bswap.h:51-69: the 16 and 32 bit swaps put the bytes in opposite order.  *)
THEOREM SwapsReverseBytes ==
  ASSUME NEW b0 \in Byte, NEW b1 \in Byte, NEW b2 \in Byte, NEW b3 \in Byte
  PROVE  /\ av_bswap16(b0 + (256 * b1)) = b1 + (256 * b0)
         /\ av_bswap32(Word(b0, b1, b2, b3)) = Word(b3, b2, b1, b0)
<1>1. /\ b0 \in Nat /\ b1 \in Nat /\ b0 < 256 /\ b1 < 256
      /\ b2 \in Nat /\ b3 \in Nat /\ b2 < 256 /\ b3 < 256
  BY SMT DEF Byte
<1>2. av_bswap16(b0 + (256 * b1)) = b1 + (256 * b0)
  <2> DEFINE x == b0 + (256 * b1)
  <2>1. x \div 256 = b1
    BY <1>1, SMT
  <2>2. (x \div 256) + (x * 256) = b1 + (256 * b0) + (65536 * b1)
    BY <1>1, <2>1, SMT
  <2>3. (b1 + (256 * b0) + (65536 * b1)) % 65536 = b1 + (256 * b0)
    BY <1>1, SMT
  <2> QED
    BY <2>2, <2>3 DEF av_bswap16
<1>3. av_bswap32(Word(b0, b1, b2, b3)) = Word(b3, b2, b1, b0)
  <2> DEFINE x == Word(b0, b1, b2, b3)
  <2>1. x = b0 + (256 * b1) + (65536 * (b2 + (256 * b3)))
    BY <1>1, SMT DEF Word
  <2>2. AV_BSWAP16C(x) = b1 + (256 * b0)
    <3>1. b2 + (256 * b3) \in Nat
      BY <1>1, SMT
    <3> QED
      BY <2>1, <3>1, Swap16C, SMT
  <2>3. x \div 65536 = b2 + (256 * b3) + (65536 * 0)
    BY <1>1, <2>1, SMT
  <2>4. AV_BSWAP16C(x \div 65536) = b3 + (256 * b2)
    BY <2>3, Swap16C, SMT
  <2> QED
    BY <1>1, <2>2, <2>4, SMT DEF av_bswap32, AV_BSWAP32C, Word
<1> QED
  BY <1>2, <1>3

(* bswap.h:73: so does the 64 bit swap, from the 32 bit swaps of its halves.*)
THEOREM Swap64ReversesBytes ==
  ASSUME NEW b0 \in Byte, NEW b1 \in Byte, NEW b2 \in Byte, NEW b3 \in Byte,
         NEW b4 \in Byte, NEW b5 \in Byte, NEW b6 \in Byte, NEW b7 \in Byte
  PROVE  av_bswap64(Word(b0, b1, b2, b3) + (Two32 * Word(b4, b5, b6, b7)))
           = Word(b7, b6, b5, b4) + (Two32 * Word(b3, b2, b1, b0))
<1> DEFINE low == Word(b0, b1, b2, b3)
           high == Word(b4, b5, b6, b7)
           x == low + (Two32 * high)
<1>1. /\ low \in Nat /\ low < Two32 /\ high \in Nat /\ Two32 \in Nat \ {0}
      /\ Word(b3, b2, b1, b0) \in Nat /\ Word(b7, b6, b5, b4) \in Nat
  <2>1. Two32 = 4294967296
    BY SMT DEF Two32, Two31
  <2> QED
    BY <2>1, SMT DEF Word, Byte
<1>2. av_bswap32(low) = Word(b3, b2, b1, b0) /\ av_bswap32(high) = Word(b7, b6, b5, b4)
  BY SwapsReverseBytes
<1> HIDE DEF low, high
<1>3. x % Two32 = low /\ x \div Two32 = high
  <2>1. \A N \in Nat \ {0}, l \in Nat, h \in Nat :
          l < N => (l + (N * h)) % N = l /\ (l + (N * h)) \div N = h
    BY SMT
  <2> QED
    BY <1>1, <2>1
<1>4. av_bswap64(x) = (av_bswap32(low) * Two32) + av_bswap32(high)
  BY <1>3 DEF av_bswap64
<1>5. (av_bswap32(low) * Two32) + av_bswap32(high)
        = Word(b7, b6, b5, b4) + (Two32 * Word(b3, b2, b1, b0))
  BY <1>1, <1>2, SMT
<1> QED
  BY <1>4, <1>5 DEF low, high

(* common.h:410, 472: what PUT_UTF16 writes, GET_UTF16 reads back, for every*)
(* code point, and it takes a second word only when there is one.           *)
THEOREM Utf16RoundTrip ==
  ASSUME NEW c \in CodePoints
  PROVE  LET w == PUT_UTF16(c)
         IN /\ Len(w) = 1 => \A next \in Uint16 : GET_UTF16(w[1], next) = c
            /\ Len(w) = 2 => GET_UTF16(w[1], w[2]) = c
<1>1. c \in Nat /\ c < 1114112 /\ (c < 55296 \/ c > 57343)
  BY SMT DEF CodePoints
<1>2. CASE c < 65536
  <2>1. PUT_UTF16(c) = <<c>>
    BY <1>2 DEF PUT_UTF16
  <2>2. AsUnsigned(c - 55296) = IF c - 55296 < 0 THEN c - 55296 + Two32 ELSE c - 55296
    <3>1. c - 55296 \in Int /\ -Two32 <= c - 55296 /\ c - 55296 < Two32
      BY <1>1, <1>2, Widths, SMT
    <3> QED
      BY <3>1, AsUnsignedIs
  <2>3. ~(AsUnsigned(c - 55296) < 2048)
    BY <1>1, <2>2, Widths, SMT
  <2>4. \A next : GET_UTF16(c, next) = c
    BY <2>3 DEF GET_UTF16
  <2> QED
    BY <2>1, <2>4, SMT
<1>3. CASE ~(c < 65536)
  <2> DEFINE h == (c - 65536) \div 1024
             l == (c - 65536) % 1024
  <2>1. PUT_UTF16(c) = <<55296 + h, 56320 + l>>
    BY <1>3 DEF PUT_UTF16
  <2>2. h \in Nat /\ h < 1024 /\ l \in Nat /\ l < 1024 /\ c = l + (h * 1024) + 65536
    BY <1>1, <1>3, SMT
  <2> HIDE DEF h, l
  <2>3. AsUnsigned((55296 + h) - 55296) = h /\ AsUnsigned((56320 + l) - 56320) = l
    BY <2>2, AsUnsignedIs, Widths, SMT
  <2>4. GET_UTF16(55296 + h, 56320 + l) = c
    BY <2>2, <2>3, SMT DEF GET_UTF16
  <2> QED
    BY <2>1, <2>4, SMT
<1> QED
  BY <1>2, <1>3

(* common.h:410: GET_UTF16 accepts no unpaired surrogate: what it returns is a*)
(* code point, the one whose words it has read.                             *)
THEOREM Utf16Strict ==
  ASSUME NEW first \in Uint16, NEW next \in Uint16, GET_UTF16(first, next) # -1
  PROVE  LET c == GET_UTF16(first, next)
         IN /\ c \in CodePoints
            /\ PUT_UTF16(c) = IF c < 65536 THEN <<first>> ELSE <<first, next>>
<1> DEFINE hi == AsUnsigned(first - 55296)
           lo == AsUnsigned(next - 56320)
           c  == GET_UTF16(first, next)
<1>1. /\ first \in Nat /\ first < 65536 /\ next \in Nat /\ next < 65536
      /\ hi = IF first < 55296 THEN first - 55296 + Two32 ELSE first - 55296
      /\ lo = IF next < 56320 THEN next - 56320 + Two32 ELSE next - 56320
  <2>1. first \in Nat /\ first < 65536 /\ next \in Nat /\ next < 65536
    BY SMT DEF Uint16
  <2>2. /\ first - 55296 \in Int /\ -Two32 <= first - 55296 /\ first - 55296 < Two32
        /\ next - 56320 \in Int /\ -Two32 <= next - 56320 /\ next - 56320 < Two32
    BY <2>1, Widths, SMT
  <2> QED
    BY <2>1, <2>2, AsUnsignedIs, SMT
<1>2. CASE hi < 2048
  <2>1. lo <= 1023 /\ hi <= 1023 /\ c = lo + (hi * 1024) + 65536
    BY <1>1, <1>2, Widths, SMT DEF GET_UTF16
  <2>2. first = 55296 + hi /\ next = 56320 + lo /\ hi \in Nat /\ lo \in Nat
    BY <1>1, <2>1, Widths, SMT
  <2>3. (c - 65536) \div 1024 = hi /\ (c - 65536) % 1024 = lo
    BY <2>1, <2>2, SMT
  <2>4. c \in Nat /\ c >= 65536 /\ c <= 1114111
    BY <2>1, <2>2, SMT
  <2> HIDE DEF c
  <2>5. c \in CodePoints /\ PUT_UTF16(c) = IF c < 65536 THEN <<first>> ELSE <<first, next>>
    BY <2>2, <2>3, <2>4, SMT DEF PUT_UTF16, CodePoints
  <2> QED
    BY <2>5 DEF c
<1>3. CASE ~(hi < 2048)
  <2>1. c = first
    BY <1>3 DEF GET_UTF16
  <2>2. first < 55296 \/ first > 57343
    BY <1>1, <1>3, Widths, SMT
  <2> HIDE DEF c
  <2>3. c \in CodePoints
    BY <1>1, <2>1, <2>2, SMT DEF CodePoints
  <2>4. PUT_UTF16(c) = <<first>> /\ c < 65536
    BY <1>1, <2>1, SMT DEF PUT_UTF16
  <2> QED
    BY <2>3, <2>4 DEF c
<1> QED
  BY <1>2, <1>3

-----------------------------------------------------------------------------
(* Rationals. *)

(* Numerator and denominator are ints (rational.h:58).                      *)
LEMMA Fields ==
  ASSUME NEW q \in Rational
  PROVE  /\ q.num \in Int /\ -Two31 <= q.num /\ q.num < Two31
         /\ q.den \in Int /\ -Two31 <= q.den /\ q.den < Two31
<1>1. q.num \in Int32 /\ q.den \in Int32
  BY DEF Rational
<1> QED
  BY <1>1, InInt32

(* The product of two ints of half range H.                                 *)
LEMMA ProductBound ==
  ASSUME NEW H \in Nat \ {0}, NEW x \in Int, NEW y \in Int,
         -H <= x, x < H, -H <= y, y < H
  PROVE  x * y <= H * H /\ x * y > -(H * H)
<1>1. CASE x >= 0 /\ y >= 0
  <2>1. x * y <= x * H /\ x * H <= H * H /\ x * y >= 0
    BY <1>1, SMT
  <2> QED
    BY <2>1, SMT
<1>2. CASE x < 0 /\ y < 0
  <2>1. (-x) * (-y) <= (-x) * H /\ (-x) * H <= H * H /\ x * y = (-x) * (-y) /\ x * y >= 0
    BY <1>2, SMT
  <2> QED
    BY <2>1, SMT
<1>3. CASE x >= 0 /\ y < 0
  <2>1. x * (-y) <= x * H /\ x * H < H * H /\ x * y = -(x * (-y)) /\ x * y <= 0
    BY <1>3, SMT
  <2> QED
    BY <2>1, SMT
<1>4. CASE x < 0 /\ y >= 0
  <2>1. (-x) * y <= H * y /\ H * y < H * H /\ x * y = -((-x) * y) /\ x * y <= 0
    BY <1>4, SMT
  <2> QED
    BY <2>1, SMT
<1> QED
  BY <1>1, <1>2, <1>3, <1>4, SMT

(* rational.h:90: the difference of the two products of ints fits in 64 bits,*)
(* for every two rationals: tmp never overflows.                            *)
THEOREM CmpFits ==
  ASSUME NEW a \in Rational, NEW b \in Rational
  PROVE  CrossDifference(a, b) \in Int64
<1> DEFINE x == a.num * b.den
           y == b.num * a.den
<1>1. /\ x \in Int /\ x <= Two31 * Two31 /\ x > -(Two31 * Two31)
      /\ y \in Int /\ y <= Two31 * Two31 /\ y > -(Two31 * Two31)
  <2>1. Two31 \in Nat \ {0}
    BY SMT DEF Two31
  <2> QED
    BY <2>1, Fields, ProductBound, SMT
<1>2. Two63 = 2 * (Two31 * Two31) /\ Two31 * Two31 \in Nat
  BY Widths, LongWidths, SMT
<1> HIDE DEF x, y
<1>3. x - y < Two63 /\ x - y >= -Two63 /\ x - y \in Int /\ Two63 \in Nat
  BY <1>1, <1>2, SMT
<1>4. x - y \in Int64
  BY <1>3, SMT DEF Int64
<1> QED
  BY <1>4 DEF CrossDifference, x, y

(* rational.h:89, for positive denominators: the sign of tmp is the order of*)
(* the two fractions.                                                       *)
THEOREM CmpOrders ==
  ASSUME NEW a \in Rational, NEW b \in Rational, a.den > 0, b.den > 0
  PROVE  av_cmp_q(a, b) = IF a.num * b.den < b.num * a.den THEN -1
                          ELSE IF a.num * b.den > b.num * a.den THEN 1 ELSE 0
<1>1. CrossDifference(a, b) \in Int
  BY Fields, SMT DEF CrossDifference
<1>2. /\ CrossDifference(a, b) < 0 <=> a.num * b.den < b.num * a.den
      /\ CrossDifference(a, b) > 0 <=> a.num * b.den > b.num * a.den
  BY Fields, SMT DEF CrossDifference
<1>3. a.den # 0 /\ b.den # 0 /\ ~(a.den < 0) /\ ~(b.den < 0)
  BY Fields, SMT
<1> QED
  BY <1>1, <1>2, <1>3, SMT DEF av_cmp_q, SignOfProduct

(* rational.h:89, for positive denominators: av_cmp_q is an order of the    *)
(* fractions, as a sort by it needs.                                        *)
THEOREM CmpTransitive ==
  ASSUME NEW a \in Rational, NEW b \in Rational, NEW c \in Rational,
         a.den > 0, b.den > 0, c.den > 0,
         av_cmp_q(a, b) <= 0, av_cmp_q(b, c) <= 0
  PROVE  /\ av_cmp_q(a, c) <= 0
         /\ av_cmp_q(a, c) = 0 <=> av_cmp_q(a, b) = 0 /\ av_cmp_q(b, c) = 0
<1> DEFINE an == a.num  ad == a.den  bn == b.num  bd == b.den  cn == c.num  cd == c.den
<1>1. /\ an \in Int /\ bn \in Int /\ cn \in Int
      /\ ad \in Nat \ {0} /\ bd \in Nat \ {0} /\ cd \in Nat \ {0}
  BY Fields, SMT
<1>2. /\ an * bd <= bn * ad /\ (av_cmp_q(a, b) = 0 <=> an * bd = bn * ad)
      /\ bn * cd <= cn * bd /\ (av_cmp_q(b, c) = 0 <=> bn * cd = cn * bd)
      /\ (av_cmp_q(a, c) <= 0 <=> an * cd <= cn * ad)
      /\ (av_cmp_q(a, c) = 0 <=> an * cd = cn * ad)
  BY <1>1, CmpOrders, SMT
<1> HIDE DEF an, ad, bn, bd, cn, cd
<1>3. (an * bd) * cd <= (bn * ad) * cd /\ (bn * cd) * ad <= (cn * bd) * ad
  BY <1>1, <1>2, SMT
<1>4. (an * cd) * bd <= (cn * ad) * bd
  BY <1>1, <1>3, SMT
<1>5. an * cd <= cn * ad
  BY <1>1, <1>4, SMT
<1>6. an * cd = cn * ad <=> an * bd = bn * ad /\ bn * cd = cn * bd
  <2>1. ASSUME an * cd = cn * ad
        PROVE  an * bd = bn * ad /\ bn * cd = cn * bd
    <3>1. (an * bd) * cd = (cn * bd) * ad
      BY <1>1, <2>1, SMT
    <3>2. (an * bd) * cd = (bn * ad) * cd /\ (bn * cd) * ad = (cn * bd) * ad
      BY <1>1, <1>3, <3>1, SMT
    <3> QED
      BY <1>1, <3>2, SMT
  <2>2. ASSUME an * bd = bn * ad, bn * cd = cn * bd
        PROVE  an * cd = cn * ad
    <3>1. (an * cd) * bd = (cn * ad) * bd
      BY <1>1, <2>2, SMT
    <3> QED
      BY <1>1, <3>1, SMT
  <2> QED
    BY <2>1, <2>2
<1> QED
  BY <1>2, <1>5, <1>6

(* rational.h:87: the result is INT_MIN if, and only if, one of the values is*)
(* of the form 0 / 0.                                                       *)
THEOREM CmpUndefined ==
  ASSUME NEW a \in Rational, NEW b \in Rational
  PROVE  av_cmp_q(a, b) = INT_MIN <=> \/ a.num = 0 /\ a.den = 0
                                      \/ b.num = 0 /\ b.den = 0
<1> DEFINE an == a.num  ad == a.den  bn == b.num  bd == b.den
<1>1. an \in Int /\ bn \in Int /\ ad \in Int /\ bd \in Int
  BY Fields
<1>2. INT_MIN \in Int /\ INT_MIN < -1
  BY Widths, SMT DEF INT_MIN
<1>3. av_cmp_q(a, b) = INT_MIN <=>
        an * bd - bn * ad = 0 /\ (bd = 0 \/ ad = 0) /\ (an = 0 \/ bn = 0)
  <2>1. \A x, y, z : SignOfProduct(x, y, z) \in {-1, 1}
    BY SMT DEF SignOfProduct
  <2>2. \A x \in Int : SignMask(x) \in {-1, 0}
    BY SMT DEF SignMask
  <2> DEFINE tmp == an * bd - bn * ad
  <2>3. av_cmp_q(a, b) =
          IF tmp # 0 THEN SignOfProduct(tmp, ad, bd)
          ELSE IF bd # 0 /\ ad # 0 THEN 0
          ELSE IF an # 0 /\ bn # 0 THEN SignMask(an) - SignMask(bn)
          ELSE INT_MIN
    BY DEF av_cmp_q, CrossDifference
  <2>4. SignOfProduct(tmp, ad, bd) # INT_MIN /\ 0 # INT_MIN
    BY <1>2, <2>1, SMT
  <2>5. SignMask(an) - SignMask(bn) # INT_MIN
    BY <1>1, <1>2, <2>2, SMT
  <2> QED
    BY <2>3, <2>4, <2>5
<1> HIDE DEF an, ad, bn, bd
<1>4. an * bd - bn * ad = 0 /\ (bd = 0 \/ ad = 0) /\ (an = 0 \/ bn = 0) <=>
        (an = 0 /\ ad = 0) \/ (bn = 0 /\ bd = 0)
  BY <1>1, SMT
<1> QED
  BY <1>3, <1>4 DEF an, ad, bn, bd

(* rational.h:159 as used at transcoding.c:165 for a time base: inverting   *)
(* positive rationals turns their order around.                             *)
THEOREM InverseReverses ==
  ASSUME NEW a \in Rational, NEW b \in Rational,
         a.num > 0, b.num > 0, a.den > 0, b.den > 0
  PROVE  av_cmp_q(av_inv_q(a), av_inv_q(b)) = av_cmp_q(b, a)
<1>1. /\ av_inv_q(a) \in Rational /\ av_inv_q(a).num = a.den /\ av_inv_q(a).den = a.num
      /\ av_inv_q(b) \in Rational /\ av_inv_q(b).num = b.den /\ av_inv_q(b).den = b.num
  BY DEF av_inv_q, Rational
<1>2. a.den * b.num = b.num * a.den /\ b.den * a.num = a.num * b.den
  BY Fields, SMT
<1>3. av_cmp_q(av_inv_q(a), av_inv_q(b)) =
        IF a.den * b.num < b.den * a.num THEN -1
        ELSE IF a.den * b.num > b.den * a.num THEN 1 ELSE 0
  BY <1>1, CmpOrders
<1> QED
  BY <1>2, <1>3, CmpOrders

-----------------------------------------------------------------------------
(* Concatenations, cuts, and the elements of sequences.                     *)

\* Where the elements of a concatenation come from.
LEMMA CatElements ==
  ASSUME NEW S, NEW s \in Seq(S), NEW t \in Seq(S), NEW i \in DOMAIN (s \o t)
  PROVE  /\ i \in Nat /\ Len(s) \in Nat
         /\ \/ i \in DOMAIN s /\ i <= Len(s) /\ (s \o t)[i] = s[i]
            \/ i > Len(s) /\ i - Len(s) \in DOMAIN t /\ (s \o t)[i] = t[i - Len(s)]
  OBVIOUS

\* A sequence that is longer by one element.
LEMMA ElementsOfAppend ==
  ASSUME NEW S, NEW s \in Seq(S), NEW x
  PROVE  /\ Len(s) \in Nat /\ DOMAIN s = 1 .. Len(s) /\ DOMAIN Append(s, x) = 1 .. Len(s) + 1
         /\ \A i \in DOMAIN Append(s, x) :
              (i \in DOMAIN s /\ Append(s, x)[i] = s[i]) \/ (i = Len(s) + 1 /\ Append(s, x)[i] = x)
  OBVIOUS

\* The front of a sequence and a later rest of it.
LEMMA CutElements ==
  ASSUME NEW p \in Nat, NEW h \in Seq(1 .. p), NEW n \in 0 .. Len(h), NEW m \in n .. Len(h)
  PROVE  /\ SubSeq(h, 1, n) \in Seq(1 .. p) /\ SubSeq(h, m + 1, Len(h)) \in Seq(1 .. p)
         /\ \A i \in DOMAIN SubSeq(h, 1, n) :
              i \in Nat /\ i <= n /\ i \in DOMAIN h /\ SubSeq(h, 1, n)[i] = h[i]
         /\ \A i \in DOMAIN SubSeq(h, m + 1, Len(h)) :
              /\ i \in Nat /\ i > 0
              /\ m + i \in DOMAIN h /\ SubSeq(h, m + 1, Len(h))[i] = h[m + i]
<1>1. Len(h) \in Nat /\ n \in Nat /\ m \in Nat /\ DOMAIN h = 1 .. Len(h)
  OBVIOUS
<1>2. /\ SubSeq(h, 1, n) \in Seq(1 .. p)
      /\ \A i \in DOMAIN SubSeq(h, 1, n) :
           i \in Nat /\ i <= n /\ i \in DOMAIN h /\ SubSeq(h, 1, n)[i] = h[i]
  <2>1. SubSeq(h, 1, n) \in Seq(1 .. p)
    BY <1>1
  <2>2. DOMAIN SubSeq(h, 1, n) = 1 .. n /\ \A i \in 1 .. n : SubSeq(h, 1, n)[i] = h[i]
    BY <1>1
  <2>3. \A i \in 1 .. n : i \in Nat /\ i <= n /\ i \in 1 .. Len(h)
    BY <1>1
  <2> QED
    BY <1>1, <2>1, <2>2, <2>3
<1>3. /\ SubSeq(h, m + 1, Len(h)) \in Seq(1 .. p)
      /\ \A i \in DOMAIN SubSeq(h, m + 1, Len(h)) :
           /\ i \in Nat /\ i > 0
           /\ m + i \in DOMAIN h /\ SubSeq(h, m + 1, Len(h))[i] = h[m + i]
  <2>1. SubSeq(h, m + 1, Len(h)) \in Seq(1 .. p)
    BY <1>1
  <2>2. /\ DOMAIN SubSeq(h, m + 1, Len(h)) = 1 .. Len(h) - m
        /\ \A i \in 1 .. Len(h) - m : SubSeq(h, m + 1, Len(h))[i] = h[m + i]
    <3>1. /\ DOMAIN SubSeq(h, m + 1, Len(h)) = 1 .. (Len(h) - (m + 1) + 1)
          /\ \A i \in 1 .. (Len(h) - (m + 1) + 1) : SubSeq(h, m + 1, Len(h))[i] = h[(m + 1) + i - 1]
      BY <1>1
    <3>2. /\ Len(h) - (m + 1) + 1 = Len(h) - m
          /\ \A i \in 1 .. Len(h) - m : (m + 1) + i - 1 = m + i
      BY <1>1
    <3> QED
      BY <3>1, <3>2
  <2>3. \A i \in 1 .. Len(h) - m : i \in Nat /\ i > 0 /\ m + i \in 1 .. Len(h)
    BY <1>1
  <2> QED
    BY <1>1, <2>1, <2>2, <2>3
<1> QED
  BY <1>2, <1>3

\* The elements of sequences built and cut.
LEMMA SetOfAppend ==
  ASSUME NEW S, NEW s \in Seq(S), NEW x
  PROVE  ToSet(Append(s, x)) = ToSet(s) \cup {x}
  BY DEF ToSet

LEMMA SetOfCat ==
  ASSUME NEW S, NEW s \in Seq(S), NEW t \in Seq(S)
  PROVE  ToSet(s \o t) = ToSet(s) \cup ToSet(t)
<1>1. /\ DOMAIN s = 1 .. Len(s) /\ DOMAIN t = 1 .. Len(t) /\ Len(s) \in Nat /\ Len(t) \in Nat
      /\ DOMAIN (s \o t) = 1 .. Len(s) + Len(t)
      /\ \A i \in 1 .. Len(s) : (s \o t)[i] = s[i]
      /\ \A i \in 1 .. Len(t) : (s \o t)[Len(s) + i] = t[i]
  OBVIOUS
<1>2. \A i \in DOMAIN (s \o t) : (s \o t)[i] \in ToSet(s) \cup ToSet(t)
  BY CatElements DEF ToSet
<1>3. \A i \in DOMAIN s : s[i] \in ToSet(s \o t)
  BY <1>1 DEF ToSet
<1>4. \A i \in DOMAIN t : t[i] \in ToSet(s \o t)
  <2> TAKE i \in DOMAIN t
  <2>1. Len(s) + i \in DOMAIN (s \o t) /\ (s \o t)[Len(s) + i] = t[i]
    BY <1>1
  <2> QED
    BY <2>1 DEF ToSet
<1> QED
  BY <1>2, <1>3, <1>4 DEF ToSet

LEMMA SetOfCut ==
  ASSUME NEW p \in Nat, NEW h \in Seq(1 .. p), NEW n \in 0 .. Len(h)
  PROVE  ToSet(SubSeq(h, 1, n)) \cup ToSet(SubSeq(h, n + 1, Len(h))) = ToSet(h)
<1> DEFINE u == SubSeq(h, 1, n)
           v == SubSeq(h, n + 1, Len(h))
<1>1. Len(h) \in Nat /\ n \in Nat /\ n <= Len(h) /\ DOMAIN h = 1 .. Len(h) /\ n \in n .. Len(h)
  OBVIOUS
<1>2. /\ \A i \in DOMAIN u : i \in DOMAIN h /\ u[i] = h[i]
      /\ \A i \in DOMAIN v : n + i \in DOMAIN h /\ v[i] = h[n + i]
  BY <1>1, CutElements
<1>3. DOMAIN u = 1 .. n /\ DOMAIN v = 1 .. Len(h) - n
  BY <1>1
<1> HIDE DEF u, v
<1>4. ASSUME NEW i \in DOMAIN h PROVE h[i] \in ToSet(u) \cup ToSet(v)
  <2>1. CASE i <= n
    BY <1>1, <1>2, <1>3, <2>1 DEF ToSet
  <2>2. CASE i > n
    <3>1. i - n \in DOMAIN v /\ n + (i - n) = i
      BY <1>1, <1>3, <2>2
    <3> QED
      BY <1>2, <3>1 DEF ToSet
  <2> QED
    BY <1>1, <2>1, <2>2
<1>5. ToSet(u) \subseteq ToSet(h) /\ ToSet(v) \subseteq ToSet(h)
  BY <1>2 DEF ToSet
<1>6. ToSet(u) \cup ToSet(v) = ToSet(h)
  BY <1>4, <1>5 DEF ToSet
<1> QED
  BY <1>6 DEF u, v

LEMMA SetOfTail ==
  ASSUME NEW p \in Nat, NEW h \in Seq(1 .. p), h # <<>>
  PROVE  ToSet(h) = {Head(h)} \cup ToSet(Tail(h))
<1>1. Len(h) \in Nat /\ Len(h) > 0 /\ DOMAIN h = 1 .. Len(h) /\ Head(h) = h[1]
  OBVIOUS
<1> DEFINE e == Tail(h)
<1>2. DOMAIN e = 1 .. Len(h) - 1 /\ \A i \in DOMAIN e : i + 1 \in DOMAIN h /\ e[i] = h[i + 1]
  BY <1>1
<1> HIDE DEF e
<1>3. ASSUME NEW i \in DOMAIN h PROVE h[i] \in {Head(h)} \cup ToSet(e)
  <2>1. CASE i = 1
    BY <1>1, <2>1
  <2>2. CASE i # 1
    <3>1. i - 1 \in DOMAIN e /\ (i - 1) + 1 = i
      BY <1>1, <1>2, <2>2
    <3> QED
      BY <1>2, <3>1 DEF ToSet
  <2> QED
    BY <2>1, <2>2
<1>4. Head(h) \in ToSet(h) /\ ToSet(e) \subseteq ToSet(h)
  BY <1>1, <1>2 DEF ToSet
<1>5. ToSet(h) = {Head(h)} \cup ToSet(e)
  BY <1>3, <1>4 DEF ToSet
<1> QED
  BY <1>5 DEF e

-----------------------------------------------------------------------------
(* Order: packets of one stream among those written, and those behind.      *)

Increasing(s) == \A i, j \in DOMAIN s : i < j => s[i] < s[j]
Before(s, t) == \A i \in DOMAIN s, j \in DOMAIN t : s[i] < t[j]

\* By st, the stream of each packet: o holds those of s in order, h more of s.
Behind(st, s, o, h) ==
  /\ \A j \in DOMAIN h : st[h[j]] = s
  /\ \A i, j \in DOMAIN o : st[o[i]] = s /\ st[o[j]] = s /\ i < j => o[i] < o[j]
  /\ \A i \in DOMAIN o, j \in DOMAIN h : st[o[i]] = s => o[i] < h[j]
  /\ \A i, j \in DOMAIN h : i < j => h[i] < h[j]

\* n frames of the stream are written, and m - n are lost.
LEMMA FramesMove ==
  ASSUME NEW st, NEW s, NEW p \in Nat, NEW o \in Seq(1 .. p), NEW h \in Seq(1 .. p),
         Behind(st, s, o, h), NEW n \in 0 .. Len(h), NEW m \in n .. Len(h)
  PROVE  /\ o \o SubSeq(h, 1, n) \in Seq(1 .. p)
         /\ Behind(st, s, o \o SubSeq(h, 1, n), SubSeq(h, m + 1, Len(h)))
<1> DEFINE u == SubSeq(h, 1, n)
           v == SubSeq(h, m + 1, Len(h))
           w == o \o u
<1>1. /\ u \in Seq(1 .. p) /\ v \in Seq(1 .. p)
      /\ \A i \in DOMAIN u : i \in Nat /\ i <= n /\ i \in DOMAIN h /\ u[i] = h[i]
      /\ \A i \in DOMAIN v : i \in Nat /\ i > 0 /\ m + i \in DOMAIN h /\ v[i] = h[m + i]
  BY CutElements
<1>2. Len(h) \in Nat /\ n \in Nat /\ m \in Nat /\ n <= m
  OBVIOUS
<1> HIDE DEF u, v
<1>3. w \in Seq(1 .. p)
  BY <1>1
<1>4. \A i \in DOMAIN w :
        /\ i \in Nat /\ Len(o) \in Nat
        /\ \/ i \in DOMAIN o /\ i <= Len(o) /\ w[i] = o[i]
           \/ i > Len(o) /\ i - Len(o) \in DOMAIN u /\ w[i] = u[i - Len(o)]
  BY <1>1, CatElements
<1> HIDE DEF w
<1>5. \A j \in DOMAIN v : st[v[j]] = s
  <2> SUFFICES ASSUME NEW j \in DOMAIN v PROVE st[v[j]] = s
    OBVIOUS
  <2>1. m + j \in DOMAIN h /\ v[j] = h[m + j]
    BY <1>1
  <2> QED
    BY <2>1 DEF Behind
<1>6. ASSUME NEW i \in DOMAIN v, NEW j \in DOMAIN v, i < j PROVE v[i] < v[j]
  <2>1. m + i < m + j /\ m + i \in DOMAIN h /\ m + j \in DOMAIN h
    BY <1>1, <1>2, <1>6
  <2> QED
    BY <1>1, <2>1 DEF Behind
<1>7. ASSUME NEW i \in DOMAIN w, NEW j \in DOMAIN v, st[w[i]] = s PROVE w[i] < v[j]
  <2>1. CASE i \in DOMAIN o /\ w[i] = o[i]
    BY <1>1, <1>7, <2>1 DEF Behind
  <2>2. CASE i - Len(o) \in DOMAIN u /\ w[i] = u[i - Len(o)]
    <3>1. /\ i - Len(o) \in DOMAIN h /\ m + j \in DOMAIN h /\ i - Len(o) < m + j
          /\ w[i] = h[i - Len(o)] /\ v[j] = h[m + j]
      BY <1>1, <1>2, <2>2
    <3> QED
      BY <3>1 DEF Behind
  <2> QED
    BY <1>4, <2>1, <2>2
<1>8. ASSUME NEW i \in DOMAIN w, NEW j \in DOMAIN w, st[w[i]] = s, st[w[j]] = s, i < j
      PROVE  w[i] < w[j]
  <2>1. CASE j \in DOMAIN o /\ j <= Len(o) /\ w[j] = o[j]
    <3>1. i \in DOMAIN o /\ w[i] = o[i]
      BY <1>4, <1>8, <2>1
    <3> QED
      BY <1>8, <2>1, <3>1 DEF Behind
  <2>2. CASE j - Len(o) \in DOMAIN u /\ w[j] = u[j - Len(o)]
    <3>1. j - Len(o) \in DOMAIN h /\ w[j] = h[j - Len(o)]
      BY <1>1, <2>2
    <3>2. CASE i \in DOMAIN o /\ w[i] = o[i]
      BY <1>8, <3>1, <3>2 DEF Behind
    <3>3. CASE i - Len(o) \in DOMAIN u /\ w[i] = u[i - Len(o)]
      <4>1. i - Len(o) \in DOMAIN h /\ w[i] = h[i - Len(o)]
        BY <1>1, <3>3
      <4>2. i - Len(o) < j - Len(o)
        BY <1>4, <1>8
      <4> QED
        BY <3>1, <4>1, <4>2 DEF Behind
    <3> QED
      BY <1>4, <3>2, <3>3
  <2> QED
    BY <1>4, <2>1, <2>2
<1>9. Behind(st, s, w, v)
  BY <1>5, <1>6, <1>7, <1>8 DEF Behind
<1> QED
  BY <1>3, <1>9 DEF u, v, w

\* Frames of another stream are written.
LEMMA OthersMove ==
  ASSUME NEW st, NEW s, NEW t, s # t, NEW p \in Nat, NEW o \in Seq(1 .. p), NEW h \in Seq(1 .. p),
         NEW g \in Seq(1 .. p), Behind(st, s, o, h), Behind(st, t, o, g), NEW n \in 0 .. Len(h)
  PROVE  Behind(st, t, o \o SubSeq(h, 1, n), g)
<1> DEFINE u == SubSeq(h, 1, n)
           w == o \o u
<1>1. /\ u \in Seq(1 .. p)
      /\ \A i \in DOMAIN u : i \in DOMAIN h /\ u[i] = h[i]
  BY CutElements
<1> HIDE DEF u
<1>2. \A i \in DOMAIN w :
        \/ i \in DOMAIN o /\ w[i] = o[i]
        \/ i - Len(o) \in DOMAIN u /\ w[i] = u[i - Len(o)]
  BY <1>1, CatElements
<1> HIDE DEF w
<1>3. \A i \in DOMAIN w : st[w[i]] = t => i \in DOMAIN o /\ w[i] = o[i]
  BY <1>1, <1>2 DEF Behind
<1>4. Behind(st, t, w, g)
  BY <1>3 DEF Behind
<1> QED
  BY <1>4 DEF u, w

\* The next packet of the stream joins those held.
LEMMA FramesGrow ==
  ASSUME NEW st, NEW s, NEW p \in Nat, NEW o \in Seq(1 .. p), NEW h \in Seq(1 .. p),
         Behind(st, s, o, h), st[p + 1] = s
  PROVE  Behind(st, s, o, Append(h, p + 1))
<1> DEFINE e == Append(h, p + 1)
<1>1. /\ Len(h) \in Nat /\ DOMAIN h = 1 .. Len(h) /\ DOMAIN e = 1 .. Len(h) + 1
      /\ \A i \in DOMAIN e : IF i \in DOMAIN h THEN e[i] = h[i] ELSE i = Len(h) + 1 /\ e[i] = p + 1
  OBVIOUS
<1> HIDE DEF e
<1>2. (\A i \in DOMAIN o : o[i] < p + 1) /\ (\A i \in DOMAIN h : h[i] < p + 1)
  <2>1. (\A i \in DOMAIN o : o[i] \in 1 .. p) /\ (\A i \in DOMAIN h : h[i] \in 1 .. p)
    OBVIOUS
  <2> QED
    BY <2>1
<1>3. ASSUME NEW i \in DOMAIN e, NEW j \in DOMAIN e, i < j PROVE e[i] < e[j]
  <2>1. i \in DOMAIN h
    BY <1>1, <1>3
  <2> QED
    BY <1>1, <1>2, <1>3, <2>1 DEF Behind
<1>4. \A j \in DOMAIN e : st[e[j]] = s
  BY <1>1 DEF Behind
<1>5. \A i \in DOMAIN o, j \in DOMAIN e : st[o[i]] = s => o[i] < e[j]
  BY <1>1, <1>2 DEF Behind
<1>6. Behind(st, s, o, e)
  BY <1>3, <1>4, <1>5 DEF Behind
<1> QED
  BY <1>6 DEF e

-----------------------------------------------------------------------------
(* Codecs, with one field replaced and after a call.                        *)

LEMMA HeldReplaced ==
  ASSUME NEW S, NEW c \in Codec(S), NEW h
  PROVE  [c EXCEPT !.held = h] = [held |-> h, draining |-> c.draining]
  BY DEF Codec

LEMMA DrainingReplaced ==
  ASSUME NEW S, NEW c \in Codec(S), NEW b
  PROVE  [c EXCEPT !.draining = b] = [held |-> c.held, draining |-> b]
  BY DEF Codec

\* The decoder after it has taken the next packet, or has given a frame.
LEMMA DecoderForms ==
  ASSUME NEW p \in Nat, NEW c \in Codec(1 .. p)
  PROVE  /\ Accept(c, p + 1).held = Append(c.held, p + 1)
         /\ Accept(c, p + 1) \in Codec(1 .. p + 1) /\ c \in Codec(1 .. p + 1)
         /\ Drain(c) \in Codec(1 .. p) /\ Drain(c).held = c.held
         /\ c.held # <<>> => /\ AfterOutput(c) \in Codec(1 .. p)
                             /\ AfterOutput(c).held = Tail(c.held)
                             /\ Output(c) \in 1 .. p
<1>1. c.held \in Seq(1 .. p) /\ c.draining \in BOOLEAN /\ DOMAIN c = {"held", "draining"}
  BY DEF Codec
<1>2. c.held \in Seq(1 .. p + 1)
  <2>1. 1 .. p \subseteq 1 .. p + 1
    OBVIOUS
  <2> QED
    BY <1>1, <2>1, SeqMonotonic
<1>3. Append(c.held, p + 1) \in Seq(1 .. p + 1)
  BY <1>2
<1>4. Accept(c, p + 1) = [held |-> Append(c.held, p + 1), draining |-> c.draining]
  BY HeldReplaced, Zenon DEF Accept
<1>5. c = [held |-> c.held, draining |-> c.draining]
  BY DEF Codec
<1>6. Drain(c) = [held |-> c.held, draining |-> TRUE]
  BY DrainingReplaced, Zenon DEF Drain
<1>7. AfterOutput(c) = [held |-> Tail(c.held), draining |-> c.draining]
  BY HeldReplaced, Zenon DEF AfterOutput
<1>8. c.held # <<>> => Tail(c.held) \in Seq(1 .. p) /\ Head(c.held) \in 1 .. p
  BY <1>1
<1>9. Accept(c, p + 1).held = Append(c.held, p + 1) /\ Accept(c, p + 1) \in Codec(1 .. p + 1)
  <2>1. \A h \in Seq(1 .. p + 1), a \in Codec(1 .. p + 1) :
          a = [held |-> h, draining |-> c.draining] => a.held = h
    OBVIOUS
  <2>2. Accept(c, p + 1) \in Codec(1 .. p + 1)
    <3>1. \A h \in Seq(1 .. p + 1) : [held |-> h, draining |-> c.draining] \in Codec(1 .. p + 1)
      BY <1>1 DEF Codec
    <3> QED
      BY <1>3, <1>4, <3>1, Zenon
  <2> QED
    BY <1>3, <1>4, <2>1, <2>2, Zenon
<1>10. c \in Codec(1 .. p + 1)
  BY <1>1, <1>2, <1>5 DEF Codec
<1>11. Drain(c) \in Codec(1 .. p) /\ Drain(c).held = c.held
  BY <1>1, <1>6 DEF Codec
<1> QED
  BY <1>1, <1>7, <1>8, <1>9, <1>10, <1>11 DEF Codec, Output

LEMMA AcceptForms ==
  ASSUME NEW S, NEW c \in Codec(S), NEW x \in S
  PROVE  Accept(c, x) \in Codec(S) /\ Accept(c, x).held = Append(c.held, x)
<1>1. Accept(c, x) = [held |-> Append(c.held, x), draining |-> c.draining]
  BY HeldReplaced, Zenon DEF Accept
<1>2. c.draining \in BOOLEAN /\ Append(c.held, x) \in Seq(S)
  BY DEF Codec
<1> QED
  BY <1>1, <1>2 DEF Codec

-----------------------------------------------------------------------------
(* Induction. The library states it for a predicate, which the provers      *)
(* cannot instantiate; for a set it follows from the existence of a least   *)
(* element. A proof about all numbers takes the set of those it holds for.  *)

(* A set with 0 and with the successor of each number in it has them all.   *)
LEMMA SetInduction ==
  ASSUME NEW S, 0 \in S, \A n \in Nat : n \in S => n + 1 \in S
  PROVE  Nat \subseteq S
<1> DEFINE Missing == Nat \ S
<1> SUFFICES ASSUME Missing # {} PROVE FALSE
  OBVIOUS
<1> DEFINE R == {ss \in Nat \X Nat : ss[1] < ss[2]}
<1>0. IsWellFoundedOn(R, Nat)
  BY NatLessThanWellFounded, Zenon DEF OpToRel
<1>1. PICK x \in Missing : \A y \in Missing : <<y, x>> \notin R
  <2> HIDE DEF R
  <2>1. Missing \subseteq Nat
    OBVIOUS
  <2> HIDE DEF Missing
  <2> QED
    BY <1>0, <2>1, WFMin, Zenon
<1>2. x \in Nat /\ x # 0 /\ x \notin S
  OBVIOUS
<1>3. x - 1 \in Nat /\ x - 1 + 1 = x
  BY <1>2, SMT
<1>4. x - 1 \notin S
  BY <1>2, <1>3
<1>5. <<x - 1, x>> \in R
  BY <1>2, <1>3, SMT
<1> QED
  BY <1>1, <1>3, <1>4, <1>5

-----------------------------------------------------------------------------
(* What FlattenSeq makes of sequences, by induction over their length.      *)

(* f gives what the first i elements of s are together, up to the n-th.     *)
Joins(f, s, n) == f = [i \in 1 .. n |-> IF i = 1 THEN s[i] ELSE f[i - 1] \o s[i]]

(* Such an f exists for every n.                                            *)
LEMMA JoinsExist ==
  ASSUME NEW s, NEW n \in Nat
  PROVE  \E f : Joins(f, s, n)
<1> DEFINE M == {m \in Nat : \E f : Joins(f, s, m)}
<1>1. 0 \in M
  <2>1. Joins([i \in 1 .. 0 |-> 0], s, 0)
    BY SMT DEF Joins
  <2> QED
    BY <2>1
<1>2. ASSUME NEW m \in Nat, m \in M
      PROVE  m + 1 \in M
  <2>1. PICK f : Joins(f, s, m)
    BY <1>2
  <2> DEFINE g == [i \in 1 .. m + 1 |-> IF i = 1 THEN s[i] ELSE f[i - 1] \o s[i]]
  <2>2. \A i \in 1 .. m : f[i] = IF i = 1 THEN s[i] ELSE f[i - 1] \o s[i]
    BY <2>1, Zenon DEF Joins
  <2>3. \A i \in 1 .. m : i \in 1 .. m + 1
    BY SMT
  <2>4. \A i \in 1 .. m + 1 : i # 1 => i - 1 \in 1 .. m
    BY SMT
  <2>5. \A i \in 1 .. m : g[i] = f[i]
    BY <2>2, <2>3, Zenon
  <2>6. g = [i \in 1 .. m + 1 |-> IF i = 1 THEN s[i] ELSE g[i - 1] \o s[i]]
    <3> DEFINE h == [i \in 1 .. m + 1 |-> IF i = 1 THEN s[i] ELSE g[i - 1] \o s[i]]
    <3>1. \A i \in 1 .. m + 1 : (IF i = 1 THEN s[i] ELSE g[i - 1] \o s[i])
                                 = IF i = 1 THEN s[i] ELSE f[i - 1] \o s[i]
      <4> HIDE DEF g
      <4> QED
        BY <2>4, <2>5, Zenon
    <3>2. \A i \in 1 .. m + 1 : h[i] = g[i]
      BY <3>1, Zenon
    <3> QED
      BY <3>2, Zenon
  <2>7. Joins(g, s, m + 1)
    BY <2>6, Zenon DEF Joins
  <2> QED
    BY <2>7
<1>3. Nat \subseteq M
  <2> HIDE DEF M
  <2> QED
    BY <1>1, <1>2, SetInduction
<1> QED
  BY <1>3

(* It starts with the first element of s.                                   *)
LEMMA JoinsFirst ==
  ASSUME NEW f, NEW s, NEW n, Joins(f, s, n), 1 \in 1 .. n
  PROVE  f[1] = s[1]
<1> DEFINE h == [i \in 1 .. n |-> IF i = 1 THEN s[i] ELSE f[i - 1] \o s[i]]
<1>1. h[1] = s[1]
  OBVIOUS
<1>2. f = h
  BY Zenon DEF Joins
<1> HIDE DEF h
<1> QED
  BY <1>1, <1>2, Zenon

\* k and the next one are among the first n.
Follows(k, n) == n \in Nat /\ k \in 1 .. n /\ k + 1 \in 1 .. n

\* At k + 1 the element is added to what the first k gave.
Adds(f, s, k) == f[k + 1] = f[k] \o s[k + 1]

(* It goes on with the next one.                                            *)
LEMMA JoinsNext ==
  ASSUME NEW f, NEW s, NEW n, NEW k, Joins(f, s, n), Follows(k, n)
  PROVE  Adds(f, s, k)
<1> DEFINE h == [i \in 1 .. n |-> IF i = 1 THEN s[i] ELSE f[i - 1] \o s[i]]
<1> DEFINE next == k + 1
<1>1. next \in 1 .. n /\ next # 1 /\ next - 1 = k
  BY SMT DEF Follows
<1> HIDE DEF next
<1>2. h[next] = IF next = 1 THEN s[next] ELSE f[next - 1] \o s[next]
  BY <1>1
<1>3. h[next] = f[k] \o s[next]
  BY <1>1, <1>2, Zenon
<1>4. f = h
  BY Zenon DEF Joins
<1> HIDE DEF h
<1> QED
  BY <1>3, <1>4, Zenon DEF next, Adds

(* Where two sequences agree, what they give together does.                 *)
LEMMA JoinsAgree ==
  ASSUME NEW f, NEW g, NEW s, NEW t, NEW n \in Nat, NEW m \in Nat, n <= m,
         Joins(f, s, n), Joins(g, t, m), \A i \in 1 .. n : s[i] = t[i],
         NEW k \in 1 .. n
  PROVE  f[k] = g[k]
<1> DEFINE M == {j \in Nat : j \in 1 .. n => f[j] = g[j]}
<1>1. 0 \in M
  BY SMT
<1>2. ASSUME NEW j \in Nat, j \in M
      PROVE  j + 1 \in M
  <2> SUFFICES ASSUME j + 1 \in 1 .. n
               PROVE  f[j + 1] = g[j + 1]
    BY SMT
  <2>1. j + 1 \in 1 .. m /\ s[j + 1] = t[j + 1]
    BY SMT
  <2>2. CASE j = 0
    <3>1. f[1] = s[1]
      BY <2>2, JoinsFirst
    <3>2. g[1] = t[1]
      BY <2>1, <2>2, JoinsFirst
    <3> QED
      BY <2>1, <2>2, <3>1, <3>2
  <2>3. CASE j # 0
    <3>1. j \in 1 .. n /\ Follows(j, n) /\ Follows(j, m)
      BY <2>1, <2>3, SMT DEF Follows
    <3>2. Adds(f, s, j)
      BY <3>1, JoinsNext, Zenon
    <3>3. Adds(g, t, j)
      BY <3>1, JoinsNext, Zenon
    <3>4. f[j] = g[j]
      BY <1>2, <3>1
    <3> QED
      BY <2>1, <3>2, <3>3, <3>4, Zenon DEF Adds
  <2> QED
    BY <2>2, <2>3
<1>3. Nat \subseteq M
  <2> HIDE DEF M
  <2> QED
    BY <1>1, <1>2, SetInduction
<1>4. k \in Nat
  BY SMT
<1> QED
  BY <1>3, <1>4

\* Such an f for all of s.
Joined(s) == CHOOSE f : Joins(f, s, Len(s))

(* The definition of FlattenSeq (SequencesExt) in these terms.              *)
LEMMA FlattenUnfolds ==
  ASSUME NEW s, Len(s) # 0
  PROVE  FlattenSeq(s) = Joined(s)[Len(s)]
  BY Zenon DEF FlattenSeq, Joined, Joins

(* Nothing together is nothing.                                             *)
LEMMA FlattenEmpty ==
  FlattenSeq(<<>>) = <<>>
  BY DEF FlattenSeq

(* FlattenSeq of one sequence more puts it behind what the others gave.     *)
LEMMA FlattenAppend ==
  ASSUME NEW S, NEW s \in Seq(Seq(S)), NEW x \in Seq(S)
  PROVE  FlattenSeq(Append(s, x)) = FlattenSeq(s) \o x
<1> DEFINE t == Append(s, x)
<1>1. t \in Seq(Seq(S)) /\ Len(t) = Len(s) + 1 /\ t[Len(s) + 1] = x
      /\ \A i \in 1 .. Len(s) : t[i] = s[i]
  OBVIOUS
<1> HIDE DEF t
<1>2. Len(s) \in Nat /\ Len(s) + 1 # 0 /\ Len(s) + 1 \in Nat /\ Len(s) <= Len(s) + 1
  OBVIOUS
<1>3. Joins(Joined(s), s, Len(s)) /\ Joins(Joined(t), t, Len(s) + 1)
  BY <1>1, <1>2, JoinsExist, Zenon DEF Joined
<1>4. FlattenSeq(t) = Joined(t)[Len(s) + 1]
  BY <1>1, <1>2, FlattenUnfolds, Zenon
<1> DEFINE a == Joined(s)
           b == Joined(t)
<1> HIDE DEF a, b
<1>5. Joins(a, s, Len(s)) /\ Joins(b, t, Len(s) + 1)
  BY <1>3 DEF a, b
<1>6. CASE Len(s) = 0
  <2>1. s = <<>> /\ <<>> \o x = x
    BY <1>6
  <2>2. b[1] = t[1]
    BY <1>5, <1>6, JoinsFirst
  <2> QED
    BY <1>1, <1>4, <1>6, <2>1, <2>2, FlattenEmpty DEF t, b
<1>7. CASE Len(s) # 0
  <2>1. Len(s) \in 1 .. Len(s) /\ Len(s) \in 1 .. Len(s) + 1 /\ Len(s) + 1 \in 1 .. Len(s) + 1
    BY <1>2, <1>7, SMT
  <2>2. a[Len(s)] = b[Len(s)]
    <3>1. \A i \in 1 .. Len(s) : s[i] = t[i]
      BY <1>1
    <3> DEFINE n == Len(s)
    <3>2. n \in Nat /\ n + 1 \in Nat /\ n <= n + 1 /\ n \in 1 .. n
      BY <1>2, <2>1
    <3>3. Joins(a, s, n) /\ Joins(b, t, n + 1) /\ \A i \in 1 .. n : s[i] = t[i]
      BY <1>5, <3>1
    <3> HIDE DEF n
    <3>4. a[n] = b[n]
      BY <3>2, <3>3, JoinsAgree
    <3> QED
      BY <3>4 DEF n
  <2>3. FlattenSeq(s) = a[Len(s)]
    BY <1>7, FlattenUnfolds, Zenon DEF a
  <2>4. b[Len(s) + 1] = b[Len(s)] \o t[Len(s) + 1]
    <3> DEFINE m == Len(s) + 1
               k == Len(s)
    <3>1. Joins(b, t, m) /\ Follows(k, m)
      BY <1>2, <1>5, <2>1 DEF Follows
    <3> HIDE DEF m, k
    <3>2. Adds(b, t, k)
      BY <3>1, JoinsNext, Zenon
    <3> QED
      BY <3>2, Zenon DEF k, Adds
  <2> QED
    BY <1>1, <1>4, <2>2, <2>3, <2>4, Zenon DEF t, b
<1> QED
  BY <1>6, <1>7

(* FlattenSeq gives a sequence of the elements of its sequences.            *)
LEMMA FlattenType ==
  ASSUME NEW S, NEW s \in Seq(Seq(S))
  PROVE  FlattenSeq(s) \in Seq(S)
<1> DEFINE M == {n \in Nat : \A u \in Seq(Seq(S)) : Len(u) = n => FlattenSeq(u) \in Seq(S)}
<1>1. 0 \in M
  <2>1. \A u \in Seq(Seq(S)) : Len(u) = 0 => u = <<>>
    OBVIOUS
  <2>2. <<>> \in Seq(S)
    OBVIOUS
  <2> QED
    BY <2>1, <2>2, FlattenEmpty
<1>2. ASSUME NEW n \in Nat, n \in M
      PROVE  n + 1 \in M
  <2> SUFFICES ASSUME NEW u \in Seq(Seq(S)), Len(u) = n + 1
               PROVE  FlattenSeq(u) \in Seq(S)
    OBVIOUS
  <2>1. u # <<>>
    OBVIOUS
  <2>2. PICK w \in Seq(Seq(S)), x \in Seq(S) : u = Append(w, x)
    BY <2>1, SequenceEmptyOrAppend
  <2>3. Len(w) = n
    BY <2>2
  <2>4. FlattenSeq(w) \in Seq(S)
    BY <1>2, <2>3
  <2>5. FlattenSeq(u) = FlattenSeq(w) \o x
    BY <2>2, FlattenAppend
  <2> QED
    BY <2>4, <2>5
<1>3. Nat \subseteq M
  <2> HIDE DEF M
  <2> QED
    BY <1>1, <1>2, SetInduction
<1> QED
  BY <1>3

(* Concatenation is associative (with the set bound to the sequences).      *)
LEMMA CatAssoc ==
  ASSUME NEW S, NEW s \in Seq(S), NEW t \in Seq(S), NEW u \in Seq(S)
  PROVE  (s \o t) \o u = s \o (t \o u)
  OBVIOUS

\* What two parts give together is what they give, one after the other.
InParts(s, t) == FlattenSeq(s \o t) = FlattenSeq(s) \o FlattenSeq(t)

(* FlattenSeq of two parts, by induction over the second.                   *)
LEMMA FlattenParts ==
  ASSUME NEW S, NEW s, s \in Seq(Seq(S)), NEW t, t \in Seq(Seq(S))
  PROVE  InParts(s, t)
<1> DEFINE M == {n \in Nat : \A u \in Seq(Seq(S)) :
                   Len(u) = n => FlattenSeq(s \o u) = FlattenSeq(s) \o FlattenSeq(u)}
<1>1. 0 \in M
  <2>1. \A u \in Seq(Seq(S)) : Len(u) = 0 => u = <<>>
    OBVIOUS
  <2>2. s \o <<>> = s /\ FlattenSeq(s) \o <<>> = FlattenSeq(s)
    BY FlattenType
  <2> QED
    BY <2>1, <2>2, FlattenEmpty
<1>2. ASSUME NEW n \in Nat, n \in M
      PROVE  n + 1 \in M
  <2> SUFFICES ASSUME NEW u, u \in Seq(Seq(S)), Len(u) = n + 1
               PROVE  FlattenSeq(s \o u) = FlattenSeq(s) \o FlattenSeq(u)
    OBVIOUS
  <2>1. u # <<>>
    OBVIOUS
  <2>2. PICK w, x : w \in Seq(Seq(S)) /\ x \in Seq(S) /\ u = Append(w, x)
    <3>1. \E w \in Seq(Seq(S)), x \in Seq(S) : u = Append(w, x)
      BY <2>1, SequenceEmptyOrAppend
    <3> QED
      BY <3>1, Zenon
  <2>3. Len(w) = n
    BY <2>2
  <2>4. FlattenSeq(s \o w) = FlattenSeq(s) \o FlattenSeq(w)
    BY <1>2, <2>2, <2>3
  <2>5. s \o u = Append(s \o w, x) /\ s \o w \in Seq(Seq(S))
    BY <2>2
  <2>6. FlattenSeq(s \o u) = FlattenSeq(s \o w) \o x /\ FlattenSeq(u) = FlattenSeq(w) \o x
    BY <2>2, <2>5, FlattenAppend
  <2>7. FlattenSeq(s) \in Seq(S) /\ FlattenSeq(w) \in Seq(S)
    BY <2>2, FlattenType
  <2>8. (FlattenSeq(s) \o FlattenSeq(w)) \o x = FlattenSeq(s) \o (FlattenSeq(w) \o x)
    <3> DEFINE a == FlattenSeq(s)
               b == FlattenSeq(w)
    <3>1. a \in Seq(S) /\ b \in Seq(S) /\ x \in Seq(S)
      BY <2>2, <2>7
    <3> HIDE DEF a, b
    <3>2. (a \o b) \o x = a \o (b \o x)
      BY ONLY <3>1, CatAssoc
    <3> QED
      BY <3>2 DEF a, b
  <2> QED
    BY <2>4, <2>6, <2>8, Zenon
<1>3. Nat \subseteq M
  <2> HIDE DEF M
  <2> QED
    BY <1>1, <1>2, SetInduction
<1> QED
  BY <1>3 DEF InParts

(* FlattenSeq of two parts gives what the parts give, one after the other.  *)
LEMMA FlattenCat ==
  ASSUME NEW S, NEW s \in Seq(Seq(S)), NEW t \in Seq(Seq(S))
  PROVE  FlattenSeq(s \o t) = FlattenSeq(s) \o FlattenSeq(t)
<1>1. InParts(s, t)
  BY FlattenParts
<1> QED
  BY <1>1, Zenon DEF InParts

(* The two parts that a sequence is cut into, together.                     *)
LEMMA CutTogether ==
  ASSUME NEW S, NEW s \in Seq(S), NEW n \in 0 .. Len(s)
  PROVE  SubSeq(s, 1, n) \o SubSeq(s, n + 1, Len(s)) = s
<1>1. n \in Nat /\ Len(s) \in Nat /\ n <= Len(s)
  OBVIOUS
<1>2. 1 \in 1 .. Len(s) + 1 /\ n \in 1 - 1 .. Len(s) /\ Len(s) \in n .. Len(s)
  BY <1>1
<1>3. SubSeq(s, 1, n) \o SubSeq(s, n + 1, Len(s)) = SubSeq(s, 1, Len(s))
  BY <1>2, ConcatAdjacentSubSeq
<1> QED
  BY <1>3, SubSeqFull

(* FlattenSeq of a single sequence gives that one.                          *)
LEMMA FlattenOne ==
  ASSUME NEW S, NEW x \in Seq(S)
  PROVE  FlattenSeq(<<x>>) = x
<1>1. <<>> \in Seq(Seq(S)) /\ <<>> \o x = x /\ Append(<<>>, x) = <<x>>
  OBVIOUS
<1> QED
  BY <1>1, FlattenAppend, FlattenEmpty

(* The first sequence comes before what the others give.                    *)
LEMMA FlattenHead ==
  ASSUME NEW S, NEW h \in Seq(Seq(S)), h # <<>>
  PROVE  FlattenSeq(h) = Head(h) \o FlattenSeq(Tail(h))
<1>1. /\ Head(h) \in Seq(S) /\ Tail(h) \in Seq(Seq(S)) /\ <<Head(h)>> \in Seq(Seq(S))
      /\ h = <<Head(h)>> \o Tail(h)
  OBVIOUS
<1> DEFINE a == <<Head(h)>>
           t == Tail(h)
<1>2. a \in Seq(Seq(S)) /\ t \in Seq(Seq(S)) /\ h = a \o t /\ FlattenSeq(a) = Head(h)
  BY <1>1, FlattenOne
<1> HIDE DEF a, t
<1>3. InParts(a, t)
  BY <1>2, FlattenParts, Zenon
<1> QED
  BY <1>2, <1>3, Zenon DEF t, InParts

=============================================================================
