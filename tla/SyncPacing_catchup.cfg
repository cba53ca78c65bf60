\* Full batches at every steady import cost from 0.1 ms to 1.2 s per block,
\* starting from both ends of the amount's range and in between: the amount
\* stays in range and keeps returning to the one-second target.
CONSTANTS
    Costs <- CatchUpCosts
    InitialAmounts = {1, 50, 999, 1000}
SPECIFICATION Spec
INVARIANT AmountInBounds
PROPERTY CatchUpReachesTarget
