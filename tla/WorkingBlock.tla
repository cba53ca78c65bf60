---------------------------- MODULE WorkingBlock ----------------------------
(***************************************************************************)
(* The block a node builds to propose (Block.cpp): the pool-driven         *)
(* Block::sync(bc, tq, gp, msTimeout) loop, the sealed-block guard, and    *)
(* the mined-block branch of Block::sync(bc, h, bi) with resetCurrent,     *)
(* composed with the transaction pool (TxPool) it pulls from and that the  *)
(* network keeps submitting to while the loop runs.                        *)
(*                                                                         *)
(* Execution is abstracted to the fault Executive raises first (nonce,     *)
(* block gas limit, any other exception) and to its effect on the state:   *)
(* the sender's nonce and the block's gas used.  The deadline is the       *)
(* `expired` flag, which the passage of time (Tick) sets while the loop    *)
(* runs; the code reads it only between passes.                            *)
(***************************************************************************)
EXTENDS TxPool

CONSTANTS
    Ask,        \* TrivialGasPricer's asking price, gp.ask(*this)
    GasLimit,   \* the current block's gas limit
    MaxSync,    \* c_maxSyncTransactions (1024 in the code)
    MaxBlocks   \* how many blocks the node seals and sees mined

VARIABLES
    chain,      \* the mined blocks, each the sequence of its transactions
    baseNonce,  \* sender -> nonce in m_previousBlock's state
    included,   \* m_transactions (m_transactionSet is its range)
    sealedTxs,  \* the transactions of m_currentBytes; <<>> when not sealed
    sealed,     \* isSealed(): m_currentBytes is not empty
    phase,      \* "idle" or "sync": inside Block::sync(bc, tq, gp, t)
    ts,         \* the snapshot topTransactions returned to this call
    idx,        \* the position of the for-loop over ts in this pass
    goodTxs,    \* transactions newly executed in this pass
    expired     \* steady_clock::now() > deadline

blockVars == <<chain, baseNonce, included, sealedTxs, sealed, phase, ts, idx, goodTxs, expired>>
vars == <<poolVars, blockVars>>

InChain == UNION {ToSet(chain[i]) : i \in DOMAIN chain}

\* The chain's nonce of s: how many of its transactions the chain holds.
ChainNonce(s) == Cardinality({t \in InChain : t.sender = s})

\* The working block's state: the sender's nonce and the gas used.
StateNonce(s) == baseNonce[s] + Cardinality({t \in ToSet(included) : t.sender = s})
GasUsed == FoldLeft(LAMBDA g, t : g + t.gas, 0, included)

\* Mutant: the block's gas limit is not checked.
FaultNoGasLimit(t) ==
    CASE t.nonce # StateNonce(t.sender)  -> "InvalidNonce"
      [] t.bad                           -> "Exception"
      [] OTHER                           -> "none"

\* The fault Executive::initialize raises for t, in the order it checks:
\* the nonce, then the block's gas limit, then everything else.
Fault(t) ==
    CASE t.nonce # StateNonce(t.sender)  -> "InvalidNonce"
      [] GasUsed + t.gas > GasLimit      -> "BlockGasLimitReached"
      [] t.bad                           -> "Exception"
      [] OTHER                           -> "none"

\* What one iteration of the for-loop over ts does with t: execute it,
\* drop it from the pool, move it to the future partition, or leave it.
Verdict(t) ==
    LET req == StateNonce(t.sender)
    IN  CASE t \in ToSet(included)                          -> "leave"
          [] t.price >= Ask /\ Fault(t) = "none"            -> "execute"
          [] t.price >= Ask /\ Fault(t) = "InvalidNonce"    ->
                 IF req > t.nonce \/ t.nonce > req + Waiting(t.sender)
                 THEN "drop" ELSE "setFuture"
          [] t.price >= Ask /\ Fault(t) = "BlockGasLimitReached" ->
                 IF t.gas > GasLimit THEN "drop" ELSE "leave"
          [] t.price >= Ask /\ Fault(t) = "Exception"       -> "drop"
          [] t.price < (Ask * 9) \div 10                    -> "drop"
          [] OTHER                                          -> "leave"

\* Mutant: the isSealed() check is missing.
SyncBeginOnSealed ==
    /\ phase = "idle"
    /\ LET top == TopTransactions(MaxSync, ToSet(included))
       IN  /\ top # <<>>
           /\ ts' = top
    /\ phase' = "sync"
    /\ idx' = 1
    /\ goodTxs' = 0
    /\ expired' = FALSE
    /\ UNCHANGED <<poolVars, chain, baseNonce, included, sealedTxs, sealed>>

\* Block::sync(bc, tq, gp, msTimeout) up to the loop: refuse a sealed
\* block, snapshot the pool, arm the deadline.  An empty snapshot makes
\* the call return without a step of the loop, so it changes nothing.
SyncBegin ==
    /\ phase = "idle"
    /\ ~sealed
    /\ LET top == TopTransactions(MaxSync, ToSet(included))
       IN  /\ top # <<>>
           /\ ts' = top
    /\ phase' = "sync"
    /\ idx' = 1
    /\ goodTxs' = 0
    /\ expired' = FALSE
    /\ UNCHANGED <<poolVars, chain, baseNonce, included, sealedTxs, sealed>>

\* One iteration of the for-loop: the whole try/catch for ts[idx].
SyncTry ==
    /\ phase = "sync"
    /\ idx <= Len(ts)
    /\ LET t == ts[idx]
           v == Verdict(t)
       IN  /\ included' = IF v = "execute" THEN Append(included, t) ELSE included
           /\ goodTxs' = IF v = "execute" THEN goodTxs + 1 ELSE goodTxs
           /\ CASE v = "drop"      -> Drop(t)
                [] v = "setFuture" -> SetFuture(t)
                [] OTHER           -> UNCHANGED poolVars
    /\ idx' = idx + 1
    /\ UNCHANGED <<chain, baseNonce, sealedTxs, sealed, phase, ts, expired>>

\* Mutant: the deadline check after a pass is missing.
SyncEndPassNoDeadline ==
    /\ phase = "sync"
    /\ idx > Len(ts)
    /\ IF goodTxs < Len(ts)
       THEN /\ idx' = 1
            /\ goodTxs' = 0
            /\ UNCHANGED phase
       ELSE /\ phase' = "idle"
            /\ UNCHANGED <<idx, goodTxs>>
    /\ UNCHANGED <<poolVars, chain, baseNonce, included, sealedTxs, sealed, ts, expired>>

\* The end of a pass: the loop condition goodTxs < ts.size(), then the
\* deadline check.  Another pass starts with goodTxs = 0.
SyncEndPass ==
    /\ phase = "sync"
    /\ idx > Len(ts)
    /\ IF goodTxs < Len(ts) /\ ~expired
       THEN /\ idx' = 1
            /\ goodTxs' = 0
            /\ UNCHANGED phase
       ELSE /\ phase' = "idle"
            /\ UNCHANGED <<idx, goodTxs>>
    /\ UNCHANGED <<poolVars, chain, baseNonce, included, sealedTxs, sealed, ts, expired>>

\* Time passes while the loop runs, until the deadline is behind it.
Tick ==
    /\ phase = "sync"
    /\ ~expired
    /\ expired' = TRUE
    /\ UNCHANGED <<poolVars, chain, baseNonce, included, sealedTxs, sealed, phase, ts, idx, goodTxs>>

\* commitToSeal and sealBlock: the block's bytes are fixed.
Seal ==
    /\ phase = "idle"
    /\ ~sealed
    /\ Len(chain) < MaxBlocks
    /\ sealed' = TRUE
    /\ sealedTxs' = included
    /\ UNCHANGED <<poolVars, chain, baseNonce, included, phase, ts, idx, goodTxs, expired>>

\* resetCurrent: forget the block's transactions and bytes, restart the
\* state from the previous block's root.
ResetCurrent(prevNonce) ==
    /\ included' = <<>>
    /\ sealedTxs' = <<>>
    /\ sealed' = FALSE
    /\ baseNonce' = prevNonce

\* The sealed block is imported, and Block::sync(bc) finds the chain head
\* equal to m_currentBlock: m_previousBlock = m_currentBlock, whose state
\* is the working block's, then resetCurrent.
Mined ==
    /\ phase = "idle"
    /\ sealed
    /\ chain' = Append(chain, sealedTxs)
    /\ ResetCurrent([s \in Senders |-> StateNonce(s)])
    /\ UNCHANGED <<poolVars, phase, ts, idx, goodTxs, expired>>

\* Block::exec(bc, tq), lines 542-590: refuse a sealed block, then run
\* m_transactions in order.  execute(.., Committed) is what appended them,
\* so each has already run on the state: the first fails Executive's nonce
\* check, is dropped from the pool (line 570) and the exception propagates,
\* leaving the block as it was.  An empty block returns no receipts.
Exec ==
    /\ phase = "idle"
    /\ ~sealed
    /\ included # <<>>
    /\ Fault(included[1]) # "none"
    /\ Drop(included[1])
    /\ UNCHANGED blockVars

NetworkSubmit ==
    \E t \in Txs :
        /\ Submit(t, ChainNonce(t.sender))
        /\ UNCHANGED blockVars

PoolDropsIncluded ==
    /\ DropIncluded(InChain)
    /\ UNCHANGED blockVars

Init ==
    /\ PoolInit
    /\ chain = <<>>
    /\ baseNonce = [s \in Senders |-> 0]
    /\ included = <<>>
    /\ sealedTxs = <<>>
    /\ sealed = FALSE
    /\ phase = "idle"
    /\ ts = <<>>
    /\ idx = 1
    /\ goodTxs = 0
    /\ expired = FALSE

Next ==
    \/ NetworkSubmit
    \/ PoolDropsIncluded
    \/ SyncBegin
    \/ SyncTry
    \/ SyncEndPass
    \/ Tick
    \/ Seal
    \/ Mined
    \/ Exec

SyncSteps == SyncTry \/ SyncEndPass

\* Time advances: a running loop eventually sees its deadline pass.
Spec == Init /\ [][Next]_vars /\ WF_vars(SyncSteps) /\ WF_vars(Tick)

\* The loop as the specification describes it: no deadline is needed for
\* it to stop, so time is not assumed to advance.
UntimedSpec == Init /\ [][Next]_vars /\ WF_vars(SyncSteps)

-----------------------------------------------------------------------------

TypeOK ==
    /\ PoolTypeOK
    /\ chain \in Seq(Seq(Txs))
    /\ baseNonce \in [Senders -> Nat]
    /\ included \in Seq(Txs)
    /\ sealed \in BOOLEAN
    /\ sealedTxs \in Seq(Txs)
    /\ phase \in {"idle", "sync"}
    /\ ts \in Seq(Txs)
    /\ idx \in 1..(MaxSync + 1)
    /\ goodTxs \in 0..MaxSync
    /\ expired \in BOOLEAN

\* After the mined-block branch of Block::sync(bc) the working block's
\* previous state is the chain head's state: every sender's nonce in it is
\* the number of that sender's transactions the chain holds.  A block that
\* changed after sealing, or a reset to the wrong previous block, breaks it.
StateMatchesChain == \A s \in Senders : baseNonce[s] = ChainNonce(s)

\* The chain the node builds is a ledger: every block it mines continues
\* each sender's nonces from the chain before it with no gap or repeat,
\* fits the gas limit, pays the asking price and holds no faulting
\* transaction.  It spans the snapshot reused across passes, the drops
\* and setFuture of the loop, sealing, exec and the reset after mining; a block that re-includes
\* a transaction the chain already holds repeats a nonce and breaks it.
L == INSTANCE Ledger WITH ledger <- chain

ImplementsLedger == L!Spec

\* Every call of the pool-driven Block::sync returns.
SyncTerminates == phase = "sync" ~> phase = "idle"
=============================================================================
