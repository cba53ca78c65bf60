------------------------------- MODULE TxPool -------------------------------
(***************************************************************************)
(* The pending-transaction pool (TransactionQueue).  Its source is not    *)
(* part of this repository's src/, so every definition here follows the   *)
(* pool's contract in the specification: two partitions, current (ready)  *)
(* and future (nonce gap); submit with duplicate and too-old rejection and *)
(* promotion; topTransactions ordered by descending gas price with         *)
(* arrival order as tie-break; drop; setFuture; waiting.                   *)
(*                                                                         *)
(* A transaction is a record; its hash is a function of its fields, so the *)
(* record itself stands for the hash.                                      *)
(***************************************************************************)
EXTENDS Integers, FiniteSets, SequencesExt

CONSTANTS
    Senders,    \* accounts that sign transactions
    Txs         \* the transactions the network may deliver, as records
                \* [sender, nonce, price, gas, bad]

VARIABLES
    pool,       \* every pooled transaction, in arrival order
    future,     \* the pooled transactions that sit in the future partition
    submitted   \* transactions the network has delivered so far

poolVars == <<pool, future, submitted>>

PoolSet == ToSet(pool)

Current == PoolSet \ future

\* TransactionQueue::waiting(sender): the depth of the sender's future queue.
Waiting(s) == Cardinality({u \in future : u.sender = s})

\* The nonce the pool expects next from s, given the chain's nonce for s:
\* one past the longest gapless run of pooled nonces that starts there.
RECURSIVE NextExpected(_, _)
NextExpected(s, n) ==
    IF \E u \in PoolSet : u.sender = s /\ u.nonce = n
    THEN NextExpected(s, n + 1)
    ELSE n

\* Insert t after every transaction that does not pay less: a stable sort
\* by descending gas price, so arrival order breaks ties.
ByPrice(sorted, t) ==
    InsertAt(sorted, Cardinality({i \in DOMAIN sorted : sorted[i].price >= t.price}) + 1, t)

\* Mutant: the limit is not applied.
TopTransactionsUnlimited(limit, exclude) ==
    FoldLeft(ByPrice, <<>>, SelectSeq(pool, LAMBDA u : u \in Current /\ u \notin exclude))

\* TransactionQueue::topTransactions(limit, exclude): the first `limit`
\* current transactions not in `exclude`, best price first.
TopTransactions(limit, exclude) ==
    LET ready == SelectSeq(pool, LAMBDA u : u \in Current /\ u \notin exclude)
        sorted == FoldLeft(ByPrice, <<>>, ready)
    IN  SubSeq(sorted, 1, IF Len(sorted) < limit THEN Len(sorted) ELSE limit)

\* TransactionQueue::submit(t), delivered once by the network.  Duplicates
\* (same hash, or same sender and nonce, which the gapless current chain
\* cannot hold twice) and nonces below the chain's are rejected.  A
\* transaction at the next expected nonce goes to current and promotes the
\* future entries its arrival makes contiguous; any other goes to future.
Submit(t, chainNonce) ==
    /\ t \notin submitted
    /\ submitted' = submitted \cup {t}
    /\ IF \/ \E u \in PoolSet : u.sender = t.sender /\ u.nonce = t.nonce
          \/ t.nonce < chainNonce
       THEN UNCHANGED <<pool, future>>
       ELSE /\ pool' = Append(pool, t)
            /\ LET next == NextExpected(t.sender, chainNonce)
               IN  future' = IF t.nonce = next
                             THEN {u \in future : u.sender # t.sender \/
                                       u.nonce > NextExpected(t.sender, next + 1)}
                             ELSE future \cup {t}

\* TransactionQueue::drop(hash): remove t from whichever partition holds it.
Drop(t) ==
    /\ pool' = Remove(pool, t)
    /\ future' = future \ {t}
    /\ UNCHANGED submitted

\* TransactionQueue::setFuture(hash): move t from current to future.
SetFuture(t) ==
    /\ future' = IF t \in PoolSet THEN future \cup {t} ELSE future
    /\ UNCHANGED <<pool, submitted>>

\* After a block is imported the pool keeps only transactions not yet in a
\* block: the included ones leave it.
DropIncluded(inChain) ==
    /\ PoolSet \cap inChain # {}
    /\ pool' = SelectSeq(pool, LAMBDA u : u \notin inChain)
    /\ future' = future \ inChain
    /\ UNCHANGED submitted

PoolTypeOK ==
    /\ pool \in Seq(Txs)
    /\ future \subseteq PoolSet
    /\ submitted \subseteq Txs
    /\ PoolSet \subseteq submitted

PoolInit ==
    /\ pool = <<>>
    /\ future = {}
    /\ submitted = {}
=============================================================================
