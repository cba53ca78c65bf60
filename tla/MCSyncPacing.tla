---------------------------- MODULE MCSyncPacing ----------------------------
EXTENDS SyncPacing

\* Every per-block cost from 0.1 ms to 1.2 s: each batch size the controller
\* can aim for, from the cap down to a single block.
CatchUpCosts == 1..12000
=============================================================================
