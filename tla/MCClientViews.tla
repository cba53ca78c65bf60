--------------------------- MODULE MCClientViews ----------------------------
EXTENDS ClientViews, TLC

\* The RPC threads are interchangeable when all of them may reopen.
RpcSymmetry == Permutations(Rpc)
=============================================================================
