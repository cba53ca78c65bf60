--------------------------- MODULE MCWorkingBlock ---------------------------
(***************************************************************************)
(* Small transaction sets for WorkingBlock.  Ask is 10, so 9 is kept but   *)
(* not executed and 8 is dropped as cheap; the gas limit 3 lets two        *)
(* transactions of gas 2 not fit in one block.                             *)
(***************************************************************************)
EXTENDS WorkingBlock

Tx(s, n, p, g, b) == [sender |-> s, nonce |-> n, price |-> p, gas |-> g, bad |-> b]

\* Sender a: nonces 0 and 1, the later one paying more, and nonce 3 behind
\* a gap; sender b: a nonce 0 that competes with a0 for gas and a cheap 1.
MixedTxs ==
    { Tx("a", 0, 10, 2, FALSE), Tx("a", 1, 11, 1, FALSE), Tx("a", 3, 10, 1, FALSE),
      Tx("b", 0, 10, 2, FALSE), Tx("b", 1, 8, 1, FALSE) }

\* Sender a's nonce 0 is deferred by the gas limit after b's transaction,
\* while its nonce 1 still fits.
DeferredTxs ==
    { Tx("a", 0, 10, 2, FALSE), Tx("a", 1, 10, 1, FALSE), Tx("b", 0, 11, 2, FALSE) }
=============================================================================
