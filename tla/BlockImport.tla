----------------------------- MODULE BlockImport -----------------------------
(***************************************************************************)
(* Block import: Block::enactOn / Block::enact (src/libethereum/Block.cpp) *)
(* applied to a chain that grows one block at a time, and a working block  *)
(* (the client's pre-seal Block) that follows the chain head with          *)
(* Block::sync(BlockChain const&, h256, BlockHeader).                      *)
(*                                                                         *)
(* The chain database holds a canonical chain <<n, "c">> and side blocks   *)
(* <<n, f>> for each fork label f; a side block of fork "a" hangs off the  *)
(* canonical block n-1, a side block of any other fork off the block n-1  *)
(* of its own fork (a side chain).  Each import offers the next canonical  *)
(* block: its uncle list, which of its declared fields are wrong, which    *)
(* state root it declares and whether it carries transactions.  State      *)
(* roots are abstracted to the sequence of block numbers whose execution   *)
(* changed the state; trie nodes are identified by the root they belong    *)
(* to.  BlockChain (allKinFrom, the import's final commit) and State       *)
(* (execute, commit) are not in src/ and are modelled from the spec.       *)
(***************************************************************************)
EXTENDS Integers, FiniteSets, SequencesExt

CONSTANTS
    MaxHeight,     \* bound on the chain height
    Forks,         \* labels of side forks ("a" branches off the main chain)
    MaxUncleList,  \* longest uncle list a block may carry
    RootClaims,    \* declared state roots offered: "computed", "parent", "bogus"
    Faults,        \* faulty fields offered: "tx", "receipts", "bloom", "gas"
    TxChoices,     \* whether an offered block carries transactions
    BlockReward,   \* chainParams().blockReward
    Bogus          \* a state root that no execution produces

ASSUME MaxHeight \in Nat \ {0}
ASSUME "c" \notin Forks /\ "a" \in Forks
ASSUME RootClaims \subseteq {"computed", "parent", "bogus"}
ASSUME Faults \subseteq {"tx", "receipts", "bloom", "gas"}
ASSUME TxChoices \subseteq BOOLEAN /\ BlockReward \in Nat

(* Literals of enact(): at most 2 uncles (line 721), kin of the last 6     *)
(* generations (line 732), depth at most 6 (line 769).                     *)
MaxUncles == 2
KinGenerations == 6
MaxUncleDepth == 6

VARIABLES
    height,        \* number of the chain head
    headRoot,      \* the state root the head header declares
    cited,         \* uncles in canonical blocks: set of <<uncle, citing number>>
    store,         \* state roots whose trie nodes are in the state database
    dirty,         \* trie nodes left buffered in the importing Block's overlay
    result,        \* outcome of the last import
    wbPrev,        \* the working block's m_previousBlock (a block number)
    wbRoot,        \* the working block's state root after resetCurrent
    syncError,     \* the working block's sync threw InvalidStateRoot
    hist           \* the accepted blocks: uncles, declared root, txs, state computed

vars == <<height, headRoot, cited, store, dirty, result,
          wbPrev, wbRoot, syncError, hist>>

Genesis == <<0, "c">>
NullBlock == <<-1, "c">>
Canonical(n) == IF n >= 0 THEN <<n, "c">> ELSE NullBlock
Blocks == {<<n, f>> : n \in 0..MaxHeight, f \in {"c"} \cup Forks}

ParentOf(b) ==
    CASE b[1] <= 0                -> NullBlock
      [] b[2] \in {"c", "a"}      -> Canonical(b[1] - 1)
      [] b[1] = 1                 -> Genesis
      [] OTHER                    -> <<b[1] - 1, b[2]>>

(* A state root some execution produced.                                  *)
Roots == Seq(1..MaxHeight)

(* The root of the empty trie, BaseState::Empty: no execution produces it. *)
EmptyTrie == <<0>>
Errors == {"InvalidStateRoot", "TransactionFault", "InvalidReceiptsStateRoot",
           "InvalidLogBloom", "TooManyUncles", "UncleInChain", "UnknownParent", "UncleTooOld",
           "UncleIsBrother", "UncleParentNotInChain", "InvalidGasUsed"}

TypeOK ==
    /\ height \in 0..MaxHeight
    /\ headRoot \in Roots
    /\ cited \subseteq Blocks \X (1..MaxHeight)
    /\ store \subseteq Roots /\ dirty \subseteq Roots
    /\ result \in {"none", "ok"} \cup Errors
    /\ wbPrev \in 0..MaxHeight /\ wbRoot \in Roots
    /\ syncError \in BOOLEAN
    /\ hist \in Seq([us : Seq(Blocks), root : Roots \cup {Bogus},
                     txs : BOOLEAN, state : Roots])

(* The uncles cited by the canonical block p.                              *)
UnclesOf(p) == {c[1] : c \in {x \in cited : x[2] = p[1] /\ p[2] = "c"}}

(* BlockChain::allKinFrom(p, g): p, and for g generations back from p      *)
(* (stopping at genesis) each block's parent and the uncles it cites.      *)
RECURSIVE KinFrom(_, _)
KinFrom(p, g) ==
    IF g = 0 \/ p = Genesis THEN {p}
    ELSE {p, ParentOf(p)} \cup UnclesOf(p) \cup KinFrom(ParentOf(p), g - 1)

(* The walk of lines 792-793: start at the grandparent of the current      *)
(* block, then follow parents depth-1 more times.                          *)
RECURSIVE Ancestor(_, _)
Ancestor(b, i) == IF i = 0 \/ b = NullBlock THEN b ELSE Ancestor(ParentOf(b), i - 1)
ExpectedUncleParent(cur, depth) ==
    Ancestor(ParentOf(ParentOf(Canonical(cur))), depth - 1)

(* Two mistakes the uncle loop could make: not consulting the excluded set *)
(* (kin and uncles seen earlier), and letting uncles seven generations old *)
(* through.                                                                *)
RECURSIVE UncleCheckNoKin(_, _, _)
UncleCheckNoKin(us, excluded, cur) ==
    IF us = <<>> THEN "ok"
    ELSE LET u == Head(us)
             depth == cur - u[1]
         IN CASE ParentOf(u) = NullBlock                       -> "UnknownParent"
              [] depth > MaxUncleDepth                         -> "UncleTooOld"
              [] depth < 1                                     -> "UncleIsBrother"
              [] ExpectedUncleParent(cur, depth) # ParentOf(u) -> "UncleParentNotInChain"
              [] OTHER -> UncleCheckNoKin(Tail(us), excluded \cup {u}, cur)

RECURSIVE UncleCheckDepthSeven(_, _, _)
UncleCheckDepthSeven(us, excluded, cur) ==
    IF us = <<>> THEN "ok"
    ELSE LET u == Head(us)
             depth == cur - u[1]
         IN CASE u \in excluded                                -> "UncleInChain"
              [] ParentOf(u) = NullBlock                       -> "UnknownParent"
              [] depth > MaxUncleDepth + 1                     -> "UncleTooOld"
              [] depth < 1                                     -> "UncleIsBrother"
              [] ExpectedUncleParent(cur, depth) # ParentOf(u) -> "UncleParentNotInChain"
              [] OTHER -> UncleCheckDepthSeven(Tail(us), excluded \cup {u}, cur)

(* The uncle loop of lines 737-811: the first error, or "ok".  Header     *)
(* verification of the uncle against its parent is the seal engine's and  *)
(* is taken to pass.                                                       *)
RECURSIVE UncleCheck(_, _, _)
UncleCheck(us, excluded, cur) ==
    IF us = <<>> THEN "ok"
    ELSE LET u == Head(us)
             depth == cur - u[1]
         IN CASE u \in excluded                                -> "UncleInChain"
              [] ParentOf(u) = NullBlock                       -> "UnknownParent"
              [] depth > MaxUncleDepth                         -> "UncleTooOld"
              [] depth < 1                                     -> "UncleIsBrother"
              [] ExpectedUncleParent(cur, depth) # ParentOf(u) -> "UncleParentNotInChain"
              [] OTHER -> UncleCheck(Tail(us), excluded \cup {u}, cur)

(* The state after the block: transactions and rewards change it, a block  *)
(* without transactions under a zero reward leaves it as it was.           *)
Executed(base, cur, hasTxs) ==
    IF hasTxs \/ BlockReward > 0 THEN Append(base, cur) ELSE base

(* The block's transactions run on base only if base is a chain state     *)
(* they were not already applied to: a state holding them has the senders' *)
(* nonces past theirs, the empty state has no funds.                      *)
Executes(base, cur) == base # EmptyTrie /\ \A i \in DOMAIN base : base[i] # cur

(* The state root the header of chain block n declares.                   *)
DeclaredRoot(n) == IF n = 0 THEN <<>> ELSE hist[n].root

(* A mistake enact could make: not comparing the declared state root     *)
(* with the computed one at all (lines 821-827 missing).                   *)
EnactErrorUncheckedRoot(parent, base, us, declared, fault, hasTxs) ==
    LET cur == parent + 1
        uncles == UncleCheck(us, KinFrom(Canonical(parent), KinGenerations)
                                   \cup {Canonical(cur)}, cur)
    IN CASE fault = "tx" \/ (hasTxs /\ ~Executes(base, cur)) -> "TransactionFault"
         [] fault = "receipts"                            -> "InvalidReceiptsStateRoot"
         [] fault = "bloom"                               -> "InvalidLogBloom"
         [] Len(us) > MaxUncles                           -> "TooManyUncles"
         [] uncles # "ok"                                 -> uncles
         [] fault = "gas"                                 -> "InvalidGasUsed"
         [] OTHER                                         -> "ok"

(* A mistake enact could make: the kin of the chain head excluded, not     *)
(* that of the block's parent, which a later block's uncles then join.     *)
EnactErrorHeadKin(parent, base, us, declared, fault, hasTxs) ==
    LET cur == parent + 1
        computed == Executed(base, cur, hasTxs)
        uncles == UncleCheck(us, KinFrom(Canonical(height), KinGenerations)
                                   \cup {Canonical(cur)}, cur)
    IN CASE fault = "tx" \/ (hasTxs /\ ~Executes(base, cur)) -> "TransactionFault"
         [] fault = "receipts"                            -> "InvalidReceiptsStateRoot"
         [] fault = "bloom"                               -> "InvalidLogBloom"
         [] Len(us) > MaxUncles                           -> "TooManyUncles"
         [] uncles # "ok"                                 -> uncles
         [] declared # DeclaredRoot(parent) /\ declared # computed -> "InvalidStateRoot"
         [] fault = "gas"                                 -> "InvalidGasUsed"
         [] OTHER                                         -> "ok"

(* Block::enact, lines 640-837, of the block after parent on a Block whose *)
(* state is base: the first check that fails, in the order of the code.    *)
(* The state root is compared with m_previousBlock's declared root and     *)
(* with the one execution computed (line 821).                             *)
EnactError(parent, base, us, declared, fault, hasTxs) ==
    LET cur == parent + 1
        computed == Executed(base, cur, hasTxs)
        uncles == UncleCheck(us, KinFrom(Canonical(parent), KinGenerations)
                                   \cup {Canonical(cur)}, cur)
    IN CASE fault = "tx" \/ (hasTxs /\ ~Executes(base, cur)) -> "TransactionFault"
         [] fault = "receipts"                            -> "InvalidReceiptsStateRoot"
         [] fault = "bloom"                               -> "InvalidLogBloom"
         [] Len(us) > MaxUncles                           -> "TooManyUncles"
         [] uncles # "ok"                                 -> uncles
         [] declared # DeclaredRoot(parent) /\ declared # computed -> "InvalidStateRoot"
         [] fault = "gas"                                 -> "InvalidGasUsed"
         [] OTHER                                         -> "ok"

(* Trie nodes the failed enact leaves in its overlay: those written by the *)
(* executed transactions, except where lines 825 and 832 roll back.        *)
LeftBuffered(err, cur, hasTxs) ==
    CASE err \in {"InvalidStateRoot", "InvalidGasUsed"} -> {}
      [] hasTxs                                         -> {Append(headRoot, cur)}
      [] OTHER                                          -> {}

(* A mistake the import could make: accept the block without the final  *)
(* commit that makes its state durable.                                    *)
ImportWithoutCommit(us, claim, fault, hasTxs) ==
    /\ height < MaxHeight
    /\ fault = "tx" => hasTxs
    /\ LET cur == height + 1
           computed == Executed(headRoot, cur, hasTxs)
           declared == CASE claim = "computed" -> computed
                         [] claim = "parent"   -> headRoot
                         [] claim = "bogus"    -> Bogus
           err == IF headRoot \notin store THEN "InvalidStateRoot"
                  ELSE EnactError(height, headRoot, us, declared, fault, hasTxs)
       IN IF err = "ok"
          THEN /\ height' = cur
               /\ headRoot' = declared
               /\ cited' = cited \cup {<<u, cur>> : u \in ToSet(us)}
               /\ hist' = Append(hist, [us |-> us, root |-> declared,
                                        txs |-> hasTxs, state |-> computed])
               /\ store' = store
               /\ dirty' = {}
               /\ result' = "ok"
          ELSE /\ dirty' = IF headRoot \notin store THEN {}
                           ELSE LeftBuffered(err, cur, hasTxs)
               /\ result' = err
               /\ UNCHANGED <<height, headRoot, cited, store, hist>>
    /\ UNCHANGED <<wbPrev, wbRoot, syncError>>

(* Block::enactOn (lines 591-638) then enact: sync the importing Block to  *)
(* the parent, which needs the parent's state root in the database (line  *)
(* 237), reset it, and enact.  On success BlockChain::import commits the   *)
(* overlay and the block becomes the head.                                 *)
Import(us, claim, fault, hasTxs) ==
    /\ height < MaxHeight
    /\ fault = "tx" => hasTxs
    /\ LET cur == height + 1
           computed == Executed(headRoot, cur, hasTxs)
           declared == CASE claim = "computed" -> computed
                         [] claim = "parent"   -> headRoot
                         [] claim = "bogus"    -> Bogus
           err == IF headRoot \notin store THEN "InvalidStateRoot"
                  ELSE EnactError(height, headRoot, us, declared, fault, hasTxs)
       IN IF err = "ok"
          THEN /\ height' = cur
               /\ headRoot' = declared
               /\ cited' = cited \cup {<<u, cur>> : u \in ToSet(us)}
               /\ hist' = Append(hist, [us |-> us, root |-> declared,
                                        txs |-> hasTxs, state |-> computed])
               /\ store' = store \cup {computed}
               /\ dirty' = {}
               /\ result' = "ok"
          ELSE /\ dirty' = IF headRoot \notin store THEN {}
                           ELSE LeftBuffered(err, cur, hasTxs)
               /\ result' = err
               /\ UNCHANGED <<height, headRoot, cited, store, hist>>
    /\ UNCHANGED <<wbPrev, wbRoot, syncError>>

(* Block::sync(bc, block, bi), lines 187-247, for a head the working block *)
(* did not mine: nothing to do when the head is its previous block,        *)
(* otherwise adopt the head after checking its state root is in the        *)
(* database, else throw InvalidStateRoot.  resetCurrent (lines 92-110)     *)
(* rewinds the state to the head's declared root.                          *)
Sync ==
    /\ wbPrev # height
    /\ IF headRoot \notin store
       THEN /\ syncError' = TRUE
            /\ UNCHANGED <<wbPrev, wbRoot>>
       ELSE /\ wbPrev' = height
            /\ wbRoot' = headRoot
            /\ UNCHANGED syncError
    /\ UNCHANGED <<height, headRoot, cited, store, dirty, result, hist>>

(* A Block used to replay the chain: m_previousBlock and m_currentBlock as *)
(* block numbers (NoHeader for a cleared header, Building for the header   *)
(* resetCurrent populates from the previous one), the state root, and      *)
(* whether m_receipts holds receipts of an earlier enact.                 *)
NoHeader == -1
Building == -2
ReplayBlocks == [prev : {NoHeader} \cup 0..MaxHeight,
                 cur : {NoHeader, Building} \cup 1..MaxHeight,
                 root : Roots \cup {EmptyTrie, Bogus}, stale : BOOLEAN]

(* Block(bc, db, BaseState::Empty, author), lines 34-42: both headers     *)
(* cleared.                                                                *)
FreshBlock == [prev |-> NoHeader, cur |-> NoHeader, root |-> EmptyTrie, stale |-> FALSE]

(* resetCurrent, lines 92-110, after m_previousBlock = p: a new header on  *)
(* p, no receipts, the state rewound to p's declared root.                 *)
ResetTo(p) == [prev |-> p, cur |-> Building, root |-> DeclaredRoot(p), stale |-> FALSE]

(* A mistake sync could make: the mined-block branch adopts the block as  *)
(* m_previousBlock and keeps the state, without resetCurrent.              *)
SyncToNoReset(b, p) ==
    CASE p = b.cur                   -> [blk |-> [b EXCEPT !.prev = p, !.cur = Building],
                                         result |-> "ok"]
      [] p = b.prev                  -> [blk |-> b, result |-> "ok"]
      [] DeclaredRoot(p) \notin store -> [blk |-> b, result |-> "InvalidStateRoot"]
      [] OTHER                       -> [blk |-> ResetTo(p), result |-> "ok"]

(* Block::sync(bc, h, bi), lines 187-247, to chain block p: the mined-     *)
(* block branch when p is m_currentBlock, nothing when it is               *)
(* m_previousBlock, else adopt p if its state root is in the database.     *)
SyncTo(b, p) ==
    CASE p = b.cur                   -> [blk |-> ResetTo(p), result |-> "ok"]
      [] p = b.prev                  -> [blk |-> b, result |-> "ok"]
      [] DeclaredRoot(p) \notin store -> [blk |-> b, result |-> "InvalidStateRoot"]
      [] OTHER                       -> [blk |-> ResetTo(p), result |-> "ok"]

(* Block::enact of chain block h on b, which sync left on h's parent:     *)
(* InvalidParentHash unless m_currentBlock is built on m_previousBlock     *)
(* (line 651), then the checks of EnactError.  Stale receipts make         *)
(* gasUsed() (m_receipts.back()) disagree with the header (line 829).      *)
EnactChainBlock(b, h) ==
    IF b.cur = NoHeader \/ (b.cur # Building /\ b.cur - 1 # b.prev)
    THEN [blk |-> b, result |-> "InvalidParentHash"]
    ELSE LET ran == hist[h].txs => Executes(b.root, h)
         IN  [blk |-> [prev |-> b.prev, cur |-> h,
                       root |-> IF ran THEN Executed(b.root, h, hist[h].txs) ELSE b.root,
                       stale |-> b.stale \/ (hist[h].txs /\ ran)],
              result |-> EnactError(h - 1, b.root, hist[h].us, hist[h].root,
                                    IF b.stale THEN "gas" ELSE "none", hist[h].txs)]

(* Block::populateFromChain(bc, h), lines 139-181, on the Block b: unknown *)
(* blocks throw BlockNotFound; genesis gets an empty state and a sync to   *)
(* itself; any other block a sync to its parent and an enact.              *)
PopulateFromChain(b, h) ==
    CASE h > height -> [blk |-> b, result |-> "BlockNotFound"]
      [] h = 0      -> SyncTo([b EXCEPT !.root = EmptyTrie], 0)
      [] OTHER      -> LET s == SyncTo(b, h - 1)
                       IN  IF s.result # "ok" THEN s ELSE EnactChainBlock(s.blk, h)

Init ==
    /\ height = 0
    /\ headRoot = <<>>
    /\ cited = {}
    /\ store = {<<>>}
    /\ dirty = {}
    /\ result = "none"
    /\ wbPrev = 0
    /\ wbRoot = <<>>
    /\ syncError = FALSE
    /\ hist = <<>>

UncleCandidates(cur) ==
    {b \in Blocks : b[1] >= cur - MaxUncleDepth - 1 /\ b[1] <= cur}

(* Lists longer than two fail on their length (line 721) before any uncle  *)
(* is looked at, so one such list per candidate stands for all of them.    *)
UncleLists(cur) ==
    BoundedSeq(UncleCandidates(cur),
               IF MaxUncleList < MaxUncles THEN MaxUncleList ELSE MaxUncles)
      \cup IF MaxUncleList > MaxUncles
           THEN {[i \in 1..MaxUncles + 1 |-> u] : u \in UncleCandidates(cur)}
           ELSE {}

(* The chain stops growing at MaxHeight; the model then only stutters.     *)
Done ==
    /\ height = MaxHeight /\ wbPrev = height
    /\ UNCHANGED vars

(* A faulty transaction, receipts root or bloom fails the import before   *)
(* the uncle list or the declared state root is looked at, so those blocks *)
(* are offered with no uncles and a correct root.                          *)
EarlyFaults == Faults \cap {"tx", "receipts", "bloom"}
LateFaults == (Faults \cap {"gas"}) \cup {"none"}

Next ==
    \/ height < MaxHeight /\ \E us \in UncleLists(height + 1), claim \in RootClaims,
          fault \in LateFaults, hasTxs \in TxChoices :
            Import(us, claim, fault, hasTxs)
    \/ height < MaxHeight /\ \E fault \in EarlyFaults, hasTxs \in TxChoices :
            Import(<<>>, "computed", fault, hasTxs)
    \/ Sync
    \/ Done

Spec == Init /\ [][Next]_vars

-----------------------------------------------------------------------------
(* An uncle is rewarded at most once over the whole chain, and a block of  *)
(* the chain itself is never rewarded as an uncle.  The kin set of the     *)
(* last six generations (line 732), the brother/too-old bounds (lines      *)
(* 768-782) and the within-block duplicate check (lines 742-750) must fit  *)
(* together exactly for this to hold across blocks imported far apart.     *)
NoUncleRewardedTwice ==
    \A u \in Blocks :
        /\ Cardinality({m \in 1..MaxHeight : <<u, m>> \in cited}) <= 1
        /\ u[2] = "c" => \A m \in 1..MaxHeight : <<u, m>> \notin cited

(* Every rewarded uncle is a sibling of a block of the chain, one to six   *)
(* generations older than the block that cites it: the parent walk of      *)
(* lines 792-800 must land on the uncle's real parent.                     *)
UnclesBranchFromChain ==
    \A c \in cited :
        /\ ParentOf(c[1]) = Canonical(c[1][1] - 1)
        /\ c[2] - c[1][1] \in 1..MaxUncleDepth

(* The working block can always sync to the chain head: the state root    *)
(* every accepted header declares is in the state database (line 237).    *)
SyncFindsHeadState == ~syncError

(* Spec 7 and 8.2: when an import fails in finalization, the overlay is    *)
(* rolled back and holds no buffered trie nodes (lines 700-834).           *)
RollbackOnFailedImport == result \in Errors => dirty = {}

(* Spec 8.1, determinism: populateFromChain replays every accepted block   *)
(* from its parent's state on a new Block, and reaches the verdict and the *)
(* state its import reached.  The uncle checks must read the kin of the    *)
(* block's parent, not of the head the chain has grown to since.           *)
ReplayIsDeterministic ==
    \A h \in 1..height :
        LET r == PopulateFromChain(FreshBlock, h)
        IN  r.result = "ok" /\ r.blk.root = hist[h].state

(* Replaying the chain block after block on one Block, as a node rebuilds  *)
(* state, ends where a replay on a new Block does: sync's mined-block      *)
(* branch must rewind the state to the parent's declared root, which for a *)
(* block that declared its own parent's root is not the state it computed. *)
SequentialReplayAgrees ==
    \A h \in 2..height :
        PopulateFromChain(PopulateFromChain(FreshBlock, h - 1).blk, h)
            = PopulateFromChain(FreshBlock, h)
=============================================================================
