------------------------------- MODULE Ledger -------------------------------
(***************************************************************************)
(* What the node's block building promises the chain (spec 4.3 and the    *)
(* glossary's nonce), stated without pool, passes, deadline or sealing:   *)
(* the chain only grows, one block at a time, and every block it gains    *)
(* continues each sender's nonces from the chain before it, in order and  *)
(* without a gap or a repeat, stays within the block gas limit, pays at   *)
(* least the asking price and holds no transaction whose execution        *)
(* faults.                                                                *)
(***************************************************************************)
EXTENDS Integers, SequencesExt

CONSTANTS
    Txs,        \* transactions, as records [sender, nonce, price, gas, bad]
    Ask,        \* the asking gas price
    GasLimit    \* the block gas limit

\* Every transaction uses gas, so no block holds more than GasLimit of them.
ASSUME \A t \in Txs : t.gas >= 1

VARIABLE ledger     \* the chain: a sequence of blocks, each a sequence of txs

\* The transactions of s in a sequence of transactions, in order.
From(txs, s) == SelectSeq(txs, LAMBDA t : t.sender = s)

\* Block b may follow the chain l: the i-th transaction of a sender in b
\* carries the sender's nonce after l, plus i - 1.
ValidBlock(l, b) ==
    /\ \A i \in DOMAIN b :
           /\ b[i].nonce = Len(From(FlattenSeq(l) \o SubSeq(b, 1, i - 1), b[i].sender))
           /\ b[i].price >= Ask
           /\ ~b[i].bad
    /\ FoldLeft(LAMBDA g, t : g + t.gas, 0, b) <= GasLimit

Init == ledger = <<>>

MineBlock(b) ==
    /\ ledger' = Append(ledger, b)
    /\ ValidBlock(ledger, b)

\* The blocks that could be mined at all.
Blocks == BoundedSeq(Txs, GasLimit)

Next == \E b \in Blocks : MineBlock(b)

Spec == Init /\ [][Next]_ledger
=============================================================================
