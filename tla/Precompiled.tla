----------------------------- MODULE Precompiled ----------------------------
(***************************************************************************)
(* The precompiled contracts of Precompiled.cpp (ecrecover, sha256,        *)
(* ripemd160, identity, and modexp with its pricer), called through the    *)
(* default registry of ChainParams(), with the byte-string algorithms of   *)
(* CommonData.h, checked against                                           *)
(* reference definitions written from what the input format means: three  *)
(* length words, then base, exponent and modulus, the whole input read as  *)
(* if right-padded with zero bytes forever.                                *)
(*                                                                         *)
(* The code's 32-byte length word is the constant W, so that lengths, and  *)
(* the numbers they frame, stay within TLC's integers; no definition below *)
(* depends on W being 32.  ecrecover's four h256 words have their own     *)
(* size HW, for the same reason.  Hash functions and public-key recovery   *)
(* are libraries outside src/: a digest is an opaque record of what was    *)
(* hashed, and recovery fails exactly for the hashes in BadHashes.         *)
(***************************************************************************)
EXTENDS CommonData

CONSTANTS
    W,          \* the size of a length word (32 in the code)
    ByteVals,   \* the byte values inputs are made of
    MaxIn,      \* the longest input
    Bits,       \* the width of u256 (256 in the code)
    HW,         \* the size of an h256 in ecrecover's input (32 in the code)
    HashVals,   \* the message hashes ecrecover's inputs carry
    VVals,      \* the v words they carry
    SigVals,    \* the r and s words they carry
    SecpN,      \* the order of the curve: r and s must lie in 1..SecpN-1
    BadHashes   \* the hashes for which recover() finds no key

VARIABLES
    address,    \* the precompiled contract's address
    input,      \* _in
    output,     \* the bytes modexp returns
    price,      \* the gas the pricer asks
    returned    \* the call has returned

vars == <<address, input, output, price, returned>>

\* vector_ref::cropped(begin, count): the sub-range, or an empty range when
\* it would reach past the end.
Cropped(s, begin, count) ==
    IF begin + count <= Len(s) THEN SubSeq(s, begin + 1, begin + count) ELSE <<>>

\* Mutant: the shift that stands for the right-padding zeroes is missing.
ParseNoPaddingShift(in, begin, count) ==
    IF begin > Len(in) THEN 0
    ELSE FromBigEndian(Cropped(in, begin, Min2(count, Len(in) - begin)))

\* parseBigEndianRightPadded(_in, _begin, _count).
ParseBigEndianRightPadded(in, begin, count) ==
    IF begin > Len(in) THEN 0
    ELSE LET cropped == Cropped(in, begin, Min2(count, Len(in) - begin))
         IN  FromBigEndian(cropped) * 2^(8 * (count - Len(cropped)))

\* boost::multiprecision::powm(base, exp, mod): base^exp % mod, computed by
\* squaring so that the recursion is as deep as exp has bits.
RECURSIVE PowMod(_, _, _)
PowMod(base, exp, mod) ==
    IF exp = 0 THEN 1 % mod
    ELSE LET half == PowMod(base, exp \div 2, mod)
             odd  == IF exp % 2 = 1 THEN base % mod ELSE 1
         IN  (((half * half) % mod) * odd) % mod

\* Mutant: the modulus is read from after the exponent's length alone.
ModexpModulusOffset(in) ==
    LET baseLength == ParseBigEndianRightPadded(in, 0, W)
        expLength == ParseBigEndianRightPadded(in, W, W)
        modLength == ParseBigEndianRightPadded(in, 2 * W, W)
        base == ParseBigEndianRightPadded(in, 3 * W, baseLength)
        exp == ParseBigEndianRightPadded(in, 3 * W + baseLength, expLength)
        mod == ParseBigEndianRightPadded(in, 3 * W + expLength, modLength)
        result == IF mod # 0 THEN PowMod(base, exp, mod) ELSE 0
    IN  ToBigEndian(result, modLength)

\* ETH_REGISTER_PRECOMPILED(modexp).
Modexp(in) ==
    LET baseLength == ParseBigEndianRightPadded(in, 0, W)
        expLength == ParseBigEndianRightPadded(in, W, W)
        modLength == ParseBigEndianRightPadded(in, 2 * W, W)
        base == ParseBigEndianRightPadded(in, 3 * W, baseLength)
        exp == ParseBigEndianRightPadded(in, 3 * W + baseLength, expLength)
        mod == ParseBigEndianRightPadded(in, 3 * W + baseLength + expLength, modLength)
        result == IF mod # 0 THEN PowMod(base, exp, mod) ELSE 0
    IN  ToBigEndian(result, modLength)

\* ETH_REGISTER_PRECOMPILED_PRICER(modexp).
ModexpPrice(in) ==
    LET baseLength == ParseBigEndianRightPadded(in, 0, W)
        expLength == ParseBigEndianRightPadded(in, W, W)
        modLength == ParseBigEndianRightPadded(in, 2 * W, W)
        maxLength == Max2(modLength, baseLength)
    IN  (maxLength * maxLength * Max2(expLength, 1)) \div 20

\* A 32-byte digest, opaque: the function and the bytes it hashed.
Digest(alg, data) == [alg |-> alg, of |-> data]

\* An h256 whose top 12 bytes are zero and whose low 20 are those of d:
\* h256(h160, AlignRight), or a hash after memset(ret.data(), 0, 12).
Low20(d) == [low20 |-> d]

\* ecrecover's struct `in`: four h256 words, which construct to zero, with
\* the first min(size, sizeof(in)) input bytes copied over them.
EcStruct(in) ==
    LET n == Min2(Len(in), 4 * HW)
    IN  SubSeq(in, 1, n) \o [i \in 1..(4 * HW - n) |-> 0]

\* Word k of the struct (0 hash, 1 v, 2 r, 3 s), read as a u256.
EcWord(st, k) == FromBigEndian(SubSeq(st, k * HW + 1, (k + 1) * HW))

\* SignatureStruct::isValid(): v <= 1 and r, s in 1..n-1.
SigValid(r, s, v) == v <= 1 /\ 0 < r /\ r < SecpN /\ 0 < s /\ s < SecpN

\* The null Public: no key recovered, or recover() threw.
NoKey == <<>>

\* recover(sig, hash): the key the signature and hash determine, if any.
Recover(r, s, v, hash) == IF hash \in BadHashes THEN NoKey ELSE <<hash, r, s, v>>

\* Mutant: v is read from the low byte of its word.
EcrecoverLowByteV(in) ==
    LET st == EcStruct(in)
        hash == EcWord(st, 0)
        v == EcWord(st, 1) % 256
        r == EcWord(st, 2)
        s == EcWord(st, 3)
        rec == Recover(r, s, v - 27, hash)
    IN  IF v >= 27 /\ v <= 28 /\ SigValid(r, s, v - 27) /\ rec # NoKey
        THEN Low20(Digest("sha3", rec)) ELSE <<>>

\* ETH_REGISTER_PRECOMPILED(ecrecover): an empty output, not a failed
\* call, for a bad v, an invalid signature or no recovered key.
Ecrecover(in) ==
    LET st == EcStruct(in)
        hash == EcWord(st, 0)
        v == EcWord(st, 1)
        r == EcWord(st, 2)
        s == EcWord(st, 3)
        rec == Recover(r, s, v - 27, hash)
    IN  IF v >= 27 /\ v <= 28 /\ SigValid(r, s, v - 27) /\ rec # NoKey
        THEN Low20(Digest("sha3", rec)) ELSE <<>>

\* The executors registered under each name.
Execute(name, in) ==
    CASE name = "ecrecover" -> Ecrecover(in)
      [] name = "sha256"    -> Digest("sha256", in)
      [] name = "ripemd160" -> Low20(Digest("ripemd160", in))
      [] name = "identity"  -> in
      [] name = "modexp"    -> Modexp(in)

\* ChainParams(): the Frontier contracts at addresses 1 to 4, with the
\* base and per-word gas of their PrecompiledContract.
DefaultPrecompiled ==
    << [base |-> 3000, word |-> 0, exec |-> "ecrecover"],
       [base |-> 60, word |-> 12, exec |-> "sha256"],
       [base |-> 600, word |-> 120, exec |-> "ripemd160"],
       [base |-> 15, word |-> 3, exec |-> "identity"] >>

\* modexp is registered from a chain configuration's accounts, at 5.
ModexpAddress == 5

\* PrecompiledContract's cost: base plus word gas per started word.
LinearPrice(c, in) == c.base + ((Len(in) + HW - 1) \div HW) * c.word

\* The EVM calls the contract at an address: it is priced, then run, on
\* one input.
Call ==
    /\ ~returned
    /\ price' = IF address = ModexpAddress THEN ModexpPrice(input)
                ELSE LinearPrice(DefaultPrecompiled[address], input)
    /\ output' = Execute(IF address = ModexpAddress THEN "modexp"
                         ELSE DefaultPrecompiled[address].exec, input)
    /\ returned' = TRUE
    /\ UNCHANGED <<address, input>>

Inputs == BoundedSeq(ByteVals, MaxIn)

\* ecrecover inputs: every prefix of hash, v, r and s words, and one byte
\* more than the struct holds.
EcInputs ==
    { SubSeq(ToBigEndian(h, HW) \o ToBigEndian(v, HW) \o ToBigEndian(r, HW)
               \o ToBigEndian(s, HW) \o <<255>>, 1, n) :
        h \in HashVals, v \in VVals, r \in SigVals, s \in SigVals, n \in 0..(4 * HW + 1) }

\* A call of a Frontier contract, or of modexp, on an input for it.
Init ==
    /\ \/ address = ModexpAddress /\ input \in Inputs
       \/ address = 1 /\ input \in EcInputs
       \/ address \in 2..4 /\ input \in BoundedSeq(ByteVals, 2)
    /\ output = <<>>
    /\ price = 0
    /\ returned = FALSE

\* One call per behaviour: after it returns there is nothing left to do.
Next == Call

Spec == Init /\ [][Next]_vars

-----------------------------------------------------------------------------
(* Reference definitions.                                                  *)

\* The input byte at 0-based position i, zero past the end.
PaddedByte(in, i) == IF i < Len(in) THEN in[i + 1] ELSE 0

\* The n bytes from position i of the padded input, as a number.
PaddedNumber(in, i, n) ==
    LET RECURSIVE Acc(_)
        Acc(k) == IF k = 0 THEN 0 ELSE Acc(k - 1) * 256 + PaddedByte(in, i + k - 1)
    IN  Acc(n)

\* Digit i (1 = most significant) of v written in n bytes.
Digit(v, n, i) == (v \div 2^(8 * (n - i))) % 256

ModexpReference(in) ==
    LET bl == PaddedNumber(in, 0, W)
        el == PaddedNumber(in, W, W)
        ml == PaddedNumber(in, 2 * W, W)
        b == PaddedNumber(in, 3 * W, bl)
        e == PaddedNumber(in, 3 * W + bl, el)
        m == PaddedNumber(in, 3 * W + bl + el, ml)
        r == IF m = 0 THEN 0 ELSE PowMod(b, e, m)
    IN  [i \in 1..ml |-> Digit(r, ml, i)]

\* ECREC: the input read as zero-padded words; the address of the key
\* when v is 27 or 28, r and s are in range and a key is recovered.
EcrecoverReference(in) ==
    LET h == PaddedNumber(in, 0, HW)
        v == PaddedNumber(in, HW, HW)
        r == PaddedNumber(in, 2 * HW, HW)
        s == PaddedNumber(in, 3 * HW, HW)
    IN  IF v \in {27, 28} /\ r \in 1..(SecpN - 1) /\ s \in 1..(SecpN - 1)
           /\ h \notin BadHashes
        THEN Low20(Digest("sha3", <<h, r, s, v - 27>>)) ELSE <<>>

-----------------------------------------------------------------------------

\* parseBigEndianRightPadded reads any window of the input, including one
\* that starts at or past the end or runs past it, as the same window of
\* the zero-padded input.
ParseIsPaddedRead ==
    \A begin \in 0..(MaxIn + 1), count \in 0..(W + 2) :
        ParseBigEndianRightPadded(input, begin, count) = PaddedNumber(input, begin, count)

\* modexp returns base^exp mod modulus in exactly modLength big-endian
\* bytes, with the three numbers framed by the length words.
ModexpIsReference == returned /\ address = ModexpAddress => output = ModexpReference(input)

\* toCompactBigEndian(v, min) writes every number an input prefix of up to
\* three bytes spells in max(min, fewest bytes) bytes that read back as v,
\* and bytesRequired(v) is that fewest number of bytes.
CompactEncodingIsMinimal ==
    \A k \in 0..Min2(3, Len(input)), min \in 0..4 :
        LET v == FromBigEndian(SubSeq(input, 1, k))
            e == ToCompactBigEndian(v, min)
        IN  /\ FromBigEndian(e) = v
            /\ Len(e) = Max2(min, MinimalLength(v))
            /\ BytesRequired(v) = MinimalLength(v)

\* commonPrefix(input, u) is the length of the longest common prefix, for
\* every u of up to three bytes, inputs of different lengths included.
CommonPrefixIsReference ==
    \A u \in BoundedSeq(ByteVals, 3) :
        CommonPrefix(input, u) = Len(LongestCommonPrefix({input, u}))

\* ecrecover reads an input of any length as its first four words, zero-
\* padded, compares the whole v word with 27 and 28, and returns the key's
\* address, or an empty output, as ECREC does.
EcrecoverIsReference == returned /\ address = 1 => output = EcrecoverReference(input)

\* u2s reads every unsigned word as the signed number with the same bits,
\* the top bit included, and s2u gives back the word: the two are inverse
\* bijections between the unsigned and the signed range.  Like the helpers
\* below, these are stated of the states where the call has returned.
TwosComplementRoundTrip ==
    returned =>
    /\ \A u \in 0..(2^Bits - 1) :
           /\ U2s(u, Bits) \in SignedRange(Bits)
           /\ (u - U2s(u, Bits)) % 2^Bits = 0
           /\ S2u(U2s(u, Bits), Bits) = u
    /\ \A s \in SignedRange(Bits) : U2s(S2u(s, Bits), Bits) = s
=============================================================================
