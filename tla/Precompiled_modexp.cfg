\* modexp and parseBigEndianRightPadded on every input of up to six bytes
\* drawn from {0, 1, 2}, with one-byte length words.  A behaviour is one
\* call of the contract, which ends when it returns.  The Common.h word
\* helpers are checked over every word of 8 bits.  ecrecover runs on every
\* prefix, and the one-byte extension, of inputs built from two-byte words:
\* v at, beside and with a high byte above 27 and 28, r and s at 0, 1 and
\* either side of the order SecpN, and a hash recovery fails for.
CONSTANTS
    W = 1
    ByteVals = {0, 1, 2}
    MaxIn = 6
    Bits = 8
    HW = 2
    HashVals = {1, 256}
    VVals = {0, 27, 28, 29, 283}
    SigVals = {0, 1, 65533, 65534}
    SecpN = 65534
    BadHashes = {256}
SPECIFICATION Spec
INVARIANTS
    ParseIsPaddedRead
    ModexpIsReference
    EcrecoverIsReference
    CompactEncodingIsMinimal
    CommonPrefixIsReference
    TwosComplementRoundTrip
CHECK_DEADLOCK FALSE
