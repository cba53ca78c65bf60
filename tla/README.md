# TLA+ models of the x-chain block-processing core

This directory holds TLA+ models of the consensus-critical core of this
repository: the overlay that buffers state-trie writes in front of LevelDB
(`src/libdevcore/OverlayDB.cpp`), block import and the working block
(`src/libethereum/Block.cpp`), the client that owns the working blocks and
feeds them (`src/libethereum/Client.cpp`), the precompiled contracts
(`src/libethcore/Precompiled.cpp`) behind the default registry of `ChainParams.cpp`, the byte-string algorithms of
`src/libdevcore/CommonData.h` and the word helpers of `src/libdevcore/Common.h`. `PROJECT.json` lists every
component, run, mutant, finding and hazard. It also maps each TLA+ definition
to the source lines it models.

## 1. Inventory

### Components and their state

| Component | Source | State | Operations |
|---|---|---|---|
| Overlay commit layer | `OverlayDB.cpp` (plus `MemoryDB`, `OverlayDB.h`, not in src/) | `m_main`, `m_aux`: key -> (value, dirty); `m_db`: LevelDB handle shared by copies; lock `x_this` | insert, kill, insertAux, lookup, commit (batch, 10 attempts, exit), rollback |
| Block import and replay | `Block.cpp` `enactOn`, `enact`, `populateFromChain` | the importing `Block`: previous/current header, `m_state` over its own overlay copy, receipts | verify parent, sync to parent, execute the body, check the receipts root, bloom and uncles (count, kin, depth, ancestry), apply rewards, commit the state, check the state root and gas used, roll back on the last two; replay a chain block on a given Block |
| Working block | `Block.cpp` `resetCurrent`, `sync(bc)`, `sync(bc, tq, gp, t)`, `exec`, copy/assign | `m_previousBlock`, `m_currentBlock`, `m_transactions`, `m_receipts`, `m_transactionSet`, `m_state`, `m_precommit`, `m_committedToSeal`, `m_currentBytes` (sealed) | reset to a new parent, follow the chain head (three cases), pull transactions from the pool and classify failures (drop, setFuture, leave), execute a given list |
| Transaction pool | `TransactionQueue` (not in src/) | current (ready) and future partitions per sender | submit, topTransactions, drop, setFuture, waiting |
| Client | `Client.cpp` | the three views `m_preSeal`, `m_postSeal` and `m_working`, each with its own read/write lock; `m_stateDB`; `m_syncAmount` | startedWorking/doneWorking (sync pre-seal, copy to the other views), clearPending, reopenChain, call (on a private copy), executeInMainThread/callQueuedFunctions (`m_functionQueue`), syncBlockQueue (adaptive batch size) |
| Precompiled contracts | `Precompiled.cpp`, `ChainParams()` registry | none (pure) | ecrecover, sha256, ripemd160, identity, modexp and its pricer |
| Byte and word helpers | `CommonData.h`, `Common.h` | none (pure) | big-endian encoding, prefixes, `u2s`, `s2u`, `toLog2` |
| Chain parameters, seal engine, RPC stub, utilities | `ChainParams.cpp`, `Ethash.h`, `EthFace.h`, `CommonNet.h`, `Log.cpp`, `SecretStore.h`, `CommonNet.h`, `VerifiedBlock.h` | configuration, interfaces, constants | parsing and declarations |

### How they interact

- **Pool and working block.** `Block::sync(bc, tq, ...)` takes a snapshot of
  the pool with `topTransactions`. It then calls back into the pool with
  `drop`, `setFuture` and `waiting` while it works through that snapshot.
- **Working block and overlay.** Every executed transaction commits its trie
  nodes into the block's `State`, and so into that block's own `OverlayDB`
  buffers. Copies of a `Block` copy the buffers and share only the LevelDB
  handle.
- **Import.** Block import builds a temporary `Block` that syncs to the
  parent. The parent's state root must be in the database. The block then
  enacts the body. On success `BlockChain::import` commits that block's
  overlay.
- **Client views.** The client's worker thread syncs `m_preSeal` to the chain
  head and copies it into `m_working` and `m_postSeal` under their locks.
  RPC callers read `m_postSeal`, or a private copy of it for `call`.
- **Import pacing.** `syncBlockQueue` imports blocks from the block queue in
  batches. It adapts the batch size to how long the last batch took.

### What is hard

- **Concurrency.** The worker thread, the import thread and RPC callers share
  the three views and the overlay. Locks are taken in different orders:
  `x_preSeal` before `x_postSeal` in `startedWorking`, the reverse in
  `clearPending` and `reopenChain`. `commit()` holds no lock while it writes.
- **Failure.** Failed disk writes are retried ten times and then end the
  process. A block can fail at many points of `enact`, and only some of them
  roll the overlay back.
- **Ordering across blocks.** The uncle rules hold only if the kin window, the
  depth bounds and the ancestry walk line up across blocks imported far apart.
- **Timeouts.** The pool-driven loop is bounded only by a wall-clock deadline.
  Its exit condition is that every transaction succeeded in one pass.

### What makes each component correct

- **Overlay.** Reads see every buffered write. A commit either makes the
  whole buffered view durable or stops the process. Rollback forgets exactly
  the buffered writes.
- **Import.**
  - An accepted block's declared state is in the database and is what its
    execution produced.
  - No uncle is rewarded twice, and every rewarded uncle is a real sibling one
    to six generations back.
  - A failed import changes nothing durable and, by the spec, leaves nothing
    buffered.
- **Working block.**
  - No transaction is included twice.
  - A transaction is dropped only for one of the reasons in the code.
  - The pool-driven loop terminates.
  - A sealed block is never mutated.
- **Pool.** There are no duplicate hashes. Current transactions form a
  gapless nonce chain. A transaction moves from future to current only when
  its gap closes.
- **Client.** No deadlock between the view locks. Views are copied only under
  their locks.

## 2. Plan and status

1. **OverlayDB** (done): commit with its retry loop and clear, plus insert,
   kill, insertAux, lookup and rollback from the spec. It refines the
   abstract store **OverlayKV**.
2. **BlockImport** (done): `enactOn`/`enact`, every check in code order, the
   rollbacks, the uncle kin window, the working block's head sync, and
   `populateFromChain` replaying an accepted block.
3. **TxPool** (done, spec-modelled: `TransactionQueue` is not in src/).
4. **WorkingBlock** (done): the pool-driven `sync`, sealing, the mined-block
   branch of `sync(bc)`, `resetCurrent` and `exec`, composed with TxPool.
5. **ClientViews** (done): the three views and their shared mutexes, the
   worker, `clearPending`, `reopenChain`, `call`, and the function queue
   (`executeInMainThread`, `callQueuedFunctions` at the end of `doWork`).
6. **SyncPacing** (done): the `m_syncAmount` adaptation of `syncBlockQueue`.
7. **Precompiled and CommonData** (done: every contract, the default
   registry, the byte helpers and the `Common.h` word helpers).
8. **Ledger** (done): the abstract promise of block building, refined by
   WorkingBlock's chain.
9. Not done: a composition of BlockImport and OverlayDB (see section 5);
   the client's filters and watches are not modelled (see section 5).

## 3. Modules and runs

### OverlayDB (`OverlayDB.tla`, `OverlayKV.tla`, `MCOverlayDB.tla`)

- **Buffers and store.** `main` and `aux` are `m_main` and `m_aux`, each a
  function from keys to `[value, dirty]`. `store` is the LevelDB contents,
  keyed by `<<k>>` for a trie node and `<<k, 255>>` for an auxiliary record:
  the suffix byte that line 48 appends.
- **The committing thread.** `pc` says where it is in `commit()`. The batch
  is built under the read lock (`BuildBatch`, lines 30-51). Each loop
  iteration is `WriteSucceeds` or `WriteFails` (lines 53-68); the tenth
  failure is `exit(-1)`, which moves to `"halted"`. The maps are then cleared
  under the write lock (`ClearMaps`, lines 69-75).
- **Operations from the spec.** `Insert`, `Kill`, `InsertAux`, `Rollback` and
  `Lookup` come from `MemoryDB`/`OverlayDB.h`, which are not in src/.
- **Concurrent writers.** `ConcurrentInserts` says whether another thread may
  write while `commit()` runs, outside the read-locked copy.

`OverlayKV` is the abstract promise: a view `kv`, the durable contents
`disk`, and a `committing` flag. A commit, once begun, ends only with
`disk' = kv`. The refinement maps `kv` to `Lookup`, `disk` to `store`, and
`committing` to `pc` being `"writing"` or `"halted"`. Because `Revert(k)`
(a kill) may happen at any time in the abstract store, the refinement
cannot tell a write the clear drops from a deliberate kill. The lost
write is therefore checked by `ClearLosesNothing`, an action property of
the clear step itself: `ClearMaps` must leave every lookup unchanged,
since everything it drops should already be in the store.

### BlockImport (`BlockImport.tla`, `MCBlockImport.tla`)

The chain database holds canonical blocks `<<n, "c">>`, fork "a" side blocks
whose parent is canonical block `n-1`, and fork "b" blocks of a side chain.
The offered block is the next canonical block, with an uncle list, one faulty
field, a declared root (computed, the parent's, or a bogus one) and whether it
has transactions, all from small sets. A state root is the sequence of block
numbers whose execution changed the state; `store` is the set of roots in the
database and `dirty` what a failed import leaves in its overlay.

- **`EnactError`** follows `enact` check by check, in code order.
- **`UncleCheck`** is the RECURSIVE loop of lines 737-811, carrying the
  growing `excluded` set; **`ExpectedUncleParent`** is the walk of lines
  792-793; **`KinFrom`** is `BlockChain::allKinFrom` (from the spec).
- **`Import`** is `enactOn`; **`Sync`** is `Block::sync(bc, h, bi)` of the
  pre-seal block following the head. `hist` records each accepted block:
  its uncles, declared root, whether it has transactions, and the state
  its import computed.
- **`PopulateFromChain(b, h)`** is `populateFromChain` on a Block `b` given
  by its previous and current header (block numbers, `NoHeader` when
  cleared, `Building` after `resetCurrent`), its state root and whether
  `m_receipts` holds receipts of an earlier enact. It is an operator, not
  an action: the replaying Block is private to its caller and changes no
  shared state, so the properties apply it to a new Block (`FreshBlock`)
  and to the Block a previous replay left. **`SyncTo`** has all three
  branches of `sync(bc, h, bi)`; **`EnactChainBlock`** adds enact's
  parent-hash check and the gas check that stale receipts fail.
  `EnactError` takes the parent and the state it starts from, so import
  and replay run the same checks; a block's transactions run only on a
  chain state that does not already hold them (`Executes`).

### WorkingBlock and TxPool (`WorkingBlock.tla`, `TxPool.tla`, `Ledger.tla`, `MCWorkingBlock.tla`)

TxPool keeps the pool as a sequence in arrival order and the future
partition as a set. WorkingBlock instantiates it and models
`Block::sync(bc, tq, gp, msTimeout)` as `SyncBegin` (sealed check, snapshot,
deadline), `SyncTry` (one whole try/catch of the for-loop: execute, drop,
setFuture or leave, by the fault `Executive::initialize` raises first) and
`SyncEndPass` (the `goodTxs < ts.size()` loop test, then the deadline).
`Tick` is the wall clock. `Seal`, `Mined` (the mined-block branch of
`sync(bc)` followed by `resetCurrent`) and the network's submissions
complete the node's cycle. `Exec` is `Block::exec`: every transaction in
`m_transactions` was appended by the `execute` that ran it, so re-running
the first fails its nonce check; it is dropped from the pool and the
exception propagates.

`Ledger.tla` is what block building promises the chain, with no pool,
passes, deadline or sealing: the chain grows one block at a time, and each
block continues every sender's nonces from the chain before it without a gap
or a repeat, fits the gas limit, pays the asking price and holds no faulting
transaction. `ImplementsLedger` instantiates it with `ledger <- chain` and
checks its `Spec` as a property of WorkingBlock's. It replaces the earlier
"no transaction included twice" invariant, which it implies: a
re-included transaction repeats its sender's nonce. Its mutant drops the
`GasUsed + gas > GasLimit` case of `Fault`, so the loop fills a block past the
limit.

### ClientViews (`ClientViews.tla`, `MCClientViews.tla`)

Each client operation is a program of lock, copy and sync steps in code
order: `startedWorking` (the worker), `clearPending`, `reopenChain` (with its
inline `startedWorking` and `doWork`, of which the model keeps the closing
`callQueuedFunctions`), `call` (copy `m_postSeal` under its read lock, then
execute on the copy), and the worker's stop and start. The mutexes are
`boost::shared_mutex`: `writer`, `readers` and `wantW` (writers waiting,
which keep new readers out). A view is `"ready"` or `"empty"` (a default
`Block`, which `reopenChain` leaves while it swaps the database). `Assign` is
`Block::operator=`; `Constructed` is the client's default views.
`Worker` is not in src/. Its `startWorking` restarts a stopped worker, but
on a worker that is still stopping its compare-exchange from Stopped to
Starting fails, so the model keeps a pending stop request in that case.

The function queue: `ExecuteInMainThread` (an RPC thread pushes its function
under `x_functionQueue`), and the worker's `DoWork` iteration, whose `Work`
step waits on `m_signalled` until the queue is non-empty or a stop is
requested and which ends in `CallQueuedFunctions`: pop under the lock, then
run the function outside it (`RunF`) and loop, or break on an empty queue.
`fq` is `m_functionQueue` (the threads whose function waits), `fnext` the
function popped. `QueuedFunctionsRun` says every handed function is run,
even while `reopenChain` keeps being called: a `reopenChain` may ask the
restarted worker to stop before its loop body begins, and then its own
`doWork()` (`Client.cpp:253`) runs the queue. Without that call TLC finds
the queue starved for as long as reopens keep coming (the mutant
`ReopenChainNoDoWork`). A thread hands at most one function at a time and at most
`MaxHanded` in all: with an endless stream `callQueuedFunctions` never
returns and the worker never sees a stop request (hazard at
`Client.cpp:147`).

### SyncPacing (`SyncPacing.tla`, `MCSyncPacing.tla`)

`NewAmount` is the adaptation of `m_syncAmount` (lines 389-393): shrink to
9/10 of what was imported after a call over 1.1 s, grow by 11/10 + 1 after a
full batch under 0.9 s, capped at 1000. Time is a fixed per-block cost in
ticks of 0.1 ms, chosen once per behaviour; `SyncBlockQueue` is one call
during a catch-up, when the queue always holds a full batch.

### Precompiled and CommonData (`Precompiled.tla`, `CommonData.tla`)

`CommonData` holds `fromBigEndian` (a fold), `toBigEndian` and
`bytesRequired` (RECURSIVE), `toCompactBigEndian`, `commonPrefix` and
`trimFront`, and `Common.h`'s `u2s`, `s2u` and `toLog2` with the word
width `w` a parameter (`Bits = 8` in the run, 256 in the code). `Precompiled` holds `vector_ref::cropped`,
`parseBigEndianRightPadded`, `modexp` and its pricer, and `ecrecover`,
`sha256`, `ripemd160` and `identity`, dispatched by address through
`DefaultPrecompiled`, the table `ChainParams()` builds (addresses 1-4 with
their base and per-word gas; modexp comes from a chain configuration, at 5).
`Ecrecover` follows the code step by step: the struct of four zeroed words
with `min(size, 128)` bytes copied over it (`EcStruct`), `v` read as a whole
word and compared with 27 and 28, `SignatureStruct::isValid` (`SigValid`),
`recover` (`Recover`) and the masked hash of the key (`Low20`). Hash
functions and key recovery are libraries outside src/: a digest is an
opaque record of the function and what it hashed, and recovery fails for
the hashes in `BadHashes`. One behaviour is one call on one input. The references (`PaddedNumber`, `ModexpReference`,
`MinimalLength`, `EcrecoverReference`, SequencesExt's `LongestCommonPrefix`) are written from what
the input format means, not from the code.

### Runs

| Run | Expect | Properties | What it shows |
|---|---|---|---|
| `overlay_commit` | pass | `TypeOK`, `ImplementsOverlayKV` | With one writer, every interleaving of writes, kills, rollbacks and commits, with up to ten failed attempts, refines OverlayKV. |
| `overlay_concurrent_insert` | violation | `ClearLosesNothing` | Another thread inserts k1 after the batch copy; the write succeeds without k1, and the clear turns k1's lookup from the new value back to the stored one (finding 1). |
| `import_uncles` | pass | `NoUncleRewardedTwice`, `UnclesBranchFromChain` | Over eight blocks with two forks, no uncle is rewarded twice or is a chain block, and every rewarded uncle is a sibling one to six generations back. |
| `import_roots` | pass | `TypeOK`, `SyncFindsHeadState`, `ReplayIsDeterministic`, `SequentialReplayAgrees` | With every fault, root claim and uncle-list shape, the head's declared state is always in the database; `populateFromChain` replays every accepted block on a new Block to its import's verdict and state (spec 8.1), and replaying block after block on one Block agrees with that. |
| `import_rollback` | violation | `RollbackOnFailedImport` | A wrong receipts root leaves executed trie nodes buffered (finding 2). |
| `working_pool` | pass | `TypeOK`, `StateMatchesChain`, `ImplementsLedger`, `SyncTerminates` | Five transactions submitted in any order while the node syncs, seals and mines two blocks: the chain refines `Ledger`, the previous state matches the chain, and every pool-driven sync returns once the deadline passes. |
| `working_untimed` | violation | `SyncTerminates` | Without the deadline the loop never returns once one snapshot transaction fails (finding 3). |
| `client_views` | pass | `CallSeesUsableState`, `CallsReturn`, `QueuedFunctionsRun` | With the worker and two RPC threads, one of which may reopen the chain and either of which may hand a function, every call returns, no call executes on an empty view, and every queued function is run, even while reopens continue. |
| `client_reopen_deadlock` | violation | `CallsReturn` | Two concurrent `reopenChain` calls deadlock on `x_preSeal`/`x_postSeal` (finding 4). |
| `client_call_race` | violation | `NoUnguardedViewRead` | `call()` reads the views for its log line with no lock while the worker writes them (finding 5). |
| `sync_pacing_catchup` | pass | `AmountInBounds`, `CatchUpReachesTarget` | At every steady per-block cost from 0.1 ms to 1.2 s, the amount stays in [1, 1000] and the batch keeps coming back to the one-second target from both sides, unless pinned at a bound. |
| `modexp_reference` | pass | `ParseIsPaddedRead`, `ModexpIsReference`, `EcrecoverIsReference`, `CompactEncodingIsMinimal`, `CommonPrefixIsReference`, `TwosComplementRoundTrip` | On every input of up to six bytes over {0, 1, 2}, the parser, modexp, the compact encoding and `commonPrefix` agree with their references; over every 8-bit word `u2s`/`s2u` are inverse two's-complement conversions. ecrecover reads every prefix of its four words, and an input one byte longer, as the zero-padded 128 bytes ECREC reads, and refuses a `v` word with a high byte set. |

Every property of a passing run also has a mutant in `PROJECT.json`: a
plausible bug in the definition it is about (a dropped guard, a missing
reset, an off-by-one, a wrong offset) under which the same run fails.

### Bounds

- **Overlay.** Two keys and two values tell a lost write or a main/aux
  collision from a correct flush. The ten attempts are the code's literal.
- **Uncles.** Eight blocks is the least height at which an uncle of depth 7
  with a known parent exists. **Roots:** three blocks let a failed import
  follow an accepted one, and give replays of blocks whose uncles are
  followed by later blocks, after a block that declared its parent's root.
- **Working block.** Two senders and five transactions give a nonce gap, a
  cheap transaction below the ask, and two that do not fit one block's gas
  limit of 3. Two mined blocks let a transaction already in the chain meet
  the loop again.
- **Client.** Two RPC threads are the least for two `reopenChain` calls or a
  reopen racing a `call`; the runs use symmetry where all RPC threads may
  reopen. `MaxHanded = 1` in `client_views` (0 in the violation runs): one
  function is enough for it to wait across a stop, a reopen and a restart;
  a second one only lengthens the run.
- **Pacing.** Every integer cost from 1 to 12000 ticks (0.1 ms to 1.2 s)
  and starting amounts 1, 50, 999 and 1000: every regime of the step
  function, both caps, and the one-block-over-target case.
- **Modexp.** The length word is scaled from 32 bytes to `W = 1` so the
  numbers fit TLC's integers; no definition depends on its value. Inputs
  of up to six bytes cover every field, including those read past the end.
  The word helpers are checked over all 256 words of `Bits = 8`: the
  definitions use only the width, so the top-bit and power-of-two
  boundaries are the same cases as at 256 bits.
- **ecrecover.** An h256 is scaled to `HW = 2` bytes, the least that gives
  `v` a high byte. Inputs are every prefix of a hash, `v`, `r` and `s` word,
  and one byte more: `v` in {0, 27, 28, 29, 283} (283 has 27 in its low
  byte), `r` and `s` in {0, 1, N-1, N} for the order `SecpN = 65534`, and
  one hash for which recovery fails. A cut inside a word is what makes
  the zero padding matter.

### Fairness

- **WorkingBlock.** Weak fairness on the loop steps and on `Tick`: the
  worker keeps running the loop it is in, and the wall clock advances.
  `UntimedSpec` drops `Tick`, which is how the spec describes the loop.
- **ClientViews.** Strong fairness on each thread's steps: a thread blocked
  on a `shared_mutex` is woken at every release, so a step enabled
  infinitely often is taken. The same fairness covers the worker's loop
  (`Work`, `Pop`, `RunF`, `Loop`): the worker thread is scheduled, and
  `m_signalled` is notified by `executeInMainThread` and `stopWorking`.
- **SyncPacing.** Weak fairness on `SyncBlockQueue`: the worker calls it
  while the queue holds blocks, which during a catch-up is always.

## 4. Findings

1. **A write can be lost during commit** (`OverlayDB.cpp:70`, code bug).
   `commit()` releases the read lock after copying the batch and takes the
   write lock only to clear; a write in between is dropped.
2. **Failed imports are not rolled back** (`Block.cpp:700`, divergence).
   `enact` rolls back only on state-root and gas-used mismatches; the other
   failures leave buffered trie nodes, contrary to spec sections 7 and 8.2.
3. **The pool loop runs to its deadline** (`Block.cpp:307`, divergence).
   `goodTxs` counts only new successes in a pass, so once one snapshot
   transaction fails no pass can reach `ts.size()`; spec 4.3 says the loop
   stops after a pass with no new success.
4. **reopenChain deadlocks** (`Client.cpp:230`, code bug). It takes
   `x_postSeal` then `x_preSeal`, while its inline `startedWorking` holds
   `x_preSeal` and takes `x_postSeal`; spec section 5 asks for one order.
5. **call() races the worker** (`Client.cpp:354`, code bug). It reads
   `m_preSeal` and `m_postSeal` for a log line without their locks.

### Observations that are not findings

- At 0.2201 s per block the batch alternates between 4 and 5 blocks for
  ever: the adaptation need not settle, though it keeps returning to the
  target. Nothing in the spec promises it settles.
- `enact` accepts a header that declares its parent's state root even for a
  block whose transactions changed the state; the spec calls this a no-op
  block and does not forbid it otherwise. The chain then continues from the
  declared root; `SequentialReplayAgrees` fails if sync's mined-block
  branch keeps the executed state instead of rewinding.
- `populateFromChain` on a reused Block is not a replay from the parent.
  For genesis it empties the state and then syncs to genesis, which on a
  Block already at genesis changes nothing: TLC finds the call returning
  the empty state in the initial state (`Block.cpp:175`, `228`). Replaying
  the same block twice runs it on its own result. With `BlockReward = 0`
  this always throws (a nonce failure or stale receipts), but with
  `BlockReward = 1` TLC finds a transaction-free block that declares its
  parent's root: the second replay returns normally with the reward paid
  twice. src/ has no caller that reuses a Block this way, and the runs
  replay on a new Block or block after block.
- `Block::exec` drops from the pool a transaction the working block still
  holds (`Block.cpp:570`). In WorkingBlock the block is always mined, so
  the transaction reaches the chain. A block replaced by another head
  would lose it.
- `toLog2`'s comment (`Common.h:157`) promises the smallest n with
  2^n >= x; the loop shifts before it tests and returns floor(log2 x), one
  less for every x that is not a power of two. Nothing in src/ calls it,
  so no run checks it; `ToLog2` records what the code computes.
- The byte overload `toCompactBigEndian(byte, min)` ignores any `min` above
  1 (`CommonData.h`); it is not modelled.

## 5. Not modelled

- Transaction execution (`Executive`, the EVM) is reduced to "changes the
  state or faults". `Block::execute` is outside src/; the models take from
  the pool loop (which never appends what `execute` ran) that it appends
  the transaction and its receipt.
- Trie hashing and the bloom are reduced to "declared field right or wrong".
- Seal verification is an oracle that accepts headers.
- The client's filters and watches (`appendFromNewPending`,
  `appendFromBlock`, `noteChanged`) have no caller in src/ and the spec
  leaves them out of scope: nothing drives them, so a model would check
  only itself.
- BlockImport and OverlayDB are checked apart: BlockImport's state is an
  abstract account map, and OverlayDB already refines OverlayKV, the store
  BlockImport would write through; a composed model would multiply two
  state spaces without a property that needs both. `syncQueue` (stops the worker and never restarts it) and
  `queueBlock` (an unlocked size check that only sleeps) are called by
  tools and the network, not by the RPC threads the model runs.
- The hash functions, `recover` and `SignatureStruct::isValid` are crypto
  libraries outside src/; the models take digests as opaque. The size_t
  length overflow at `Precompiled.cpp:98` needs 32-byte lengths, out of
  TLC's integers; the pricer prices such inputs out of reach.
- `Block.cpp` lines 392-540 are commented out.
- `ChainParams::loadConfig`, `loadGenesis` and `loadGenesisState` copy
  JSON fields, with defaults, into the parameters; the state root they set
  is computed by `calculateStateRoot` and `jsonToAccountMap`, which are not
  in src/, and nothing in src/ loads a configuration. `createSealEngine`
  asks a registrar outside src/. Only the default registry is modelled.
- The RPC stub, logging and the key store have no state
  a property is about.
