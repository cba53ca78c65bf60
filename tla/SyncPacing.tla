----------------------------- MODULE SyncPacing -----------------------------
(***************************************************************************)
(* Client::syncBlockQueue (Client.cpp): each call imports at most          *)
(* m_syncAmount verified blocks and then adapts m_syncAmount so that one   *)
(* call takes about c_targetDuration (one second): it shrinks to 9/10 of   *)
(* what was imported after a slow call and grows by 11/10 + 1 after a fast *)
(* call that filled its batch.                                             *)
(*                                                                         *)
(* The wall clock is abstracted to a per-block import cost, in ticks of    *)
(* 0.1 ms, that is fixed for a behaviour, so a call that imports `count`   *)
(* blocks takes count * cost ticks.  The queue is the one of a catch-up:   *)
(* it always holds a full batch.  A call that finds fewer blocks can only  *)
(* shrink the amount (growth needs count = m_syncAmount), to at least 1.  *)
(* What happens to the imported route afterwards (onChainChanged) is the   *)
(* views' business, modelled in ClientViews, and is left out here.        *)
(***************************************************************************)
EXTENDS Integers

CONSTANTS
    Costs,          \* the per-block import costs (ticks) a behaviour may have
    InitialAmounts  \* the values m_syncAmount may start from

c_syncMin == 1
c_syncMax == 1000
c_targetDuration == 10000    \* one second, in ticks

VARIABLES
    syncAmount,     \* m_syncAmount
    cost            \* ticks one block takes to import, in this behaviour

vars == <<syncAmount, cost>>

Max2(a, b) == IF a > b THEN a ELSE b
Min2(a, b) == IF a < b THEN a ELSE b

\* Mutant: the grown amount is not capped at c_syncMax.
NewAmountUncapped(amount, count, elapsed) ==
    CASE elapsed * 10 > c_targetDuration * 11 /\ count > c_syncMin ->
             Max2(c_syncMin, (count * 9) \div 10)
      [] count = amount /\ elapsed * 10 < c_targetDuration * 9
                        /\ amount < c_syncMax ->
             (amount * 11) \div 10 + 1
      [] OTHER -> amount

\* Mutant: growth forgets the + 1, so 11/10 of a small amount rounds back.
NewAmountNoIncrement(amount, count, elapsed) ==
    CASE elapsed * 10 > c_targetDuration * 11 /\ count > c_syncMin ->
             Max2(c_syncMin, (count * 9) \div 10)
      [] count = amount /\ elapsed * 10 < c_targetDuration * 9
                        /\ amount < c_syncMax ->
             Min2(c_syncMax, (amount * 11) \div 10)
      [] OTHER -> amount

\* The two adjustments of Client::syncBlockQueue, in the code's order:
\* elapsed > 1.1 * target shrinks, else a full batch under 0.9 * target grows.
NewAmount(amount, count, elapsed) ==
    CASE elapsed * 10 > c_targetDuration * 11 /\ count > c_syncMin ->
             Max2(c_syncMin, (count * 9) \div 10)
      [] count = amount /\ elapsed * 10 < c_targetDuration * 9
                        /\ amount < c_syncMax ->
             Min2(c_syncMax, (amount * 11) \div 10 + 1)
      [] OTHER -> amount

\* One call: bc().sync(m_bq, m_stateDB, m_syncAmount) imports `count` of
\* the blocks the queue holds, at most m_syncAmount, then the amount adapts.
Import(count) ==
    /\ syncAmount' = NewAmount(syncAmount, count, count * cost)
    /\ UNCHANGED cost

\* One call during a catch-up: the queue holds more verified blocks than
\* one call imports.
SyncBlockQueue == Import(syncAmount)

Init ==
    /\ syncAmount \in InitialAmounts
    /\ cost \in Costs

Next == SyncBlockQueue

\* The worker thread calls syncBlockQueue while the queue has blocks.
Spec == Init /\ [][Next]_vars /\ WF_vars(SyncBlockQueue)

-----------------------------------------------------------------------------

\* m_syncAmount never leaves [c_syncMin, c_syncMax]: the queue is never
\* asked for no blocks, nor for more than the cap, whatever the speed.
AmountInBounds == syncAmount \in c_syncMin..c_syncMax

\* During a catch-up at a steady import speed the batch keeps coming back
\* to the one-second target from both sides: it is not left forever too
\* fast (unless at c_syncMax) nor forever too slow (unless at c_syncMin).
\* It need not settle: at 0.2201 s per block it alternates between 4 blocks
\* (0.88 s, grow) and 5 (1.1005 s, shrink) for ever.
NotTooFast == syncAmount * cost * 10 >= c_targetDuration * 9 \/ syncAmount = c_syncMax
NotTooSlow == syncAmount * cost * 10 <= c_targetDuration * 11 \/ syncAmount = c_syncMin

CatchUpReachesTarget == []<>NotTooFast /\ []<>NotTooSlow
=============================================================================
