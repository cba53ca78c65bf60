----------------------------- MODULE CommonData -----------------------------
(***************************************************************************)
(* The byte-string algorithms of CommonData.h: the big-endian conversions  *)
(* between numbers and byte strings, the compact encoding and its length,  *)
(* and the prefix helpers; and the numeric helpers of Common.h.  A byte    *)
(* string is a sequence of numbers in 0..255; an unbounded unsigned number *)
(* (bigint) is a natural.  The width w of u256 (256 in the code) is a      *)
(* parameter of the helpers that depend on it.                             *)
(***************************************************************************)
EXTENDS Integers, SequencesExt

Min2(a, b) == IF a < b THEN a ELSE b
Max2(a, b) == IF a > b THEN a ELSE b

\* fromBigEndian<bigint>: ret = (ret << 8) | byte, for each byte in order.
FromBigEndian(bytes) == FoldLeft(LAMBDA r, b : r * 256 + b, 0, bytes)

\* toBigEndian(val, out): from the last byte back, out[i-1] = val & 0xff,
\* val >>= 8; bytes beyond what val needs are zero, excess is cut off.
RECURSIVE ToBigEndian(_, _)
ToBigEndian(val, size) ==
    IF size = 0 THEN <<>>
    ELSE Append(ToBigEndian(val \div 256, size - 1), val % 256)

\* bytesRequired(i): count the shifts by 8 until nothing is left.
RECURSIVE BytesRequired(_)
BytesRequired(i) == IF i = 0 THEN 0 ELSE 1 + BytesRequired(i \div 256)

\* Mutant: the buffer is sized by the value alone, _min is ignored.
ToCompactBigEndianNoMin(val, min) == ToBigEndian(val, BytesRequired(val))

\* toCompactBigEndian<T>(val, min): count val's bytes with the same loop
\* as bytesRequired, size the buffer max(min, count), fill it big-endian.
ToCompactBigEndian(val, min) == ToBigEndian(val, Max2(min, BytesRequired(val)))

\* Mutant: the loop stops one element early.
CommonPrefixShort(t, u) ==
    LET s == Min2(Len(t), Len(u))
        RECURSIVE Scan(_)
        Scan(i) == IF i + 1 >= s \/ t[i + 1] # u[i + 1] THEN i ELSE Scan(i + 1)
    IN  IF s = 0 THEN 0 ELSE Scan(0)

\* commonPrefix(t, u): the first index below min(size) where they differ,
\* or that minimum.
CommonPrefix(t, u) ==
    LET s == Min2(Len(t), Len(u))
        RECURSIVE Scan(_)
        Scan(i) == IF i = s \/ t[i + 1] # u[i + 1] THEN i ELSE Scan(i + 1)
    IN  Scan(0)

\* trimFront(t, n): memmove the last size - n elements to the front and
\* resize to size - n.  Only defined for n <= size: the size_t difference
\* would wrap.
TrimFront(t, n) == [i \in 1..(Len(t) - n) |-> t[i + n]]

\* Mutant: the sign is read from the bit below the top one.
U2sLowSignBit(u, w) == IF (u \div 2^(w - 2)) % 2 = 1 THEN -(2^w - u) ELSE u

\* u2s(_u): when bit w-1 is set, the negative number -(2^w - _u), else _u.
U2s(u, w) == IF (u \div 2^(w - 1)) % 2 = 1 THEN -(2^w - u) ELSE u

\* s2u(_u): a non-negative _u as it is, a negative one as 2^w + _u.
S2u(s, w) == IF s >= 0 THEN s ELSE 2^w + s

\* toLog2(_x): for (ret = 0; _x >>= 1; ++ret) {}, the number of shifts
\* after the first that leave something: floor(log2 _x), not the smallest
\* n with (1 << n) >= _x that its comment promises.  Nothing in src/ calls it.
RECURSIVE ToLog2(_)
ToLog2(x) == IF x \div 2 = 0 THEN 0 ELSE 1 + ToLog2(x \div 2)

-----------------------------------------------------------------------------
(* Reference definitions.                                                  *)

\* The fewest bytes that can hold v, for v below 2^24.
MinimalLength(v) == CHOOSE n \in 0..3 : v < 2^(8 * n) /\ (n = 0 \/ v >= 2^(8 * (n - 1)))

\* The signed numbers of w bits in two's complement.
SignedRange(w) == -(2^(w - 1))..(2^(w - 1) - 1)

=============================================================================
