------------------------------ MODULE OverlayDB ------------------------------
(***************************************************************************)
(* The overlay commit layer, src/libdevcore/OverlayDB.cpp.                 *)
(*                                                                         *)
(* An OverlayDB keeps two buffers in memory, m_main (trie nodes) and m_aux *)
(* (auxiliary records), each key -> (value, dirty), in front of a LevelDB  *)
(* handle m_db.  commit() copies the dirty entries of both buffers into    *)
(* one write batch under a read lock, writes the batch with up to ten      *)
(* attempts (sleeping i+1 seconds after the i-th failure, exit(-1) after   *)
(* the tenth), and then clears both buffers under a write lock.  The       *)
(* insert/kill/lookup/rollback operations live in MemoryDB and OverlayDB.h, *)
(* which are not in src/, and are modelled from the spec.                  *)
(*                                                                         *)
(* The committing thread's position in commit() is `pc`:                   *)
(*   "idle"     - not inside commit()                                      *)
(*   "writing"  - batch built and read lock released, in the retry loop    *)
(*   "clearing" - batch written, waiting for the write lock to clear       *)
(*   "halted"   - exit(-1) was called after the last failed attempt        *)
(***************************************************************************)
EXTENDS Naturals

CONSTANTS
    Keys,               \* trie-node and auxiliary keys (h256), model values
    Vals,               \* stored values, model values
    NoValue,            \* "absent": an empty lookup result / no batch entry
    MaxWriteAttempts,   \* the literal 10 of the retry loop
    ConcurrentInserts   \* may another thread insert while commit() runs?

ASSUME MaxWriteAttempts \in Nat \ {0}
ASSUME ConcurrentInserts \in BOOLEAN
ASSUME NoValue \notin Vals

VARIABLES
    main,      \* m_main: Keys -> [value, dirty]
    aux,       \* m_aux:  Keys -> [value, dirty]
    store,     \* the contents of the LevelDB behind m_db
    batch,     \* the ldb::WriteBatch being written: StoreKeys -> value or NoValue
    attempt,   \* the loop counter i of the retry loop
    pc         \* where the committing thread is in commit()

vars == <<main, aux, store, batch, attempt, pc>>

(* Keys of the backing store.  A main-trie key is written as its bytes, an *)
(* auxiliary key as its bytes followed by the byte 255, so the two key     *)
(* spaces never meet.                                                       *)
MainKey(k) == <<k>>
AuxKey(k) == <<k, 255>>
StoreKeys == {MainKey(k) : k \in Keys} \cup {AuxKey(k) : k \in Keys}

Entry == [value : Vals \cup {NoValue}, dirty : BOOLEAN]
Absent == [value |-> NoValue, dirty |-> FALSE]
NoBatch == [sk \in StoreKeys |-> NoValue]

TypeOK ==
    /\ main \in [Keys -> Entry]
    /\ aux \in [Keys -> Entry]
    /\ store \in [StoreKeys -> Vals \cup {NoValue}]
    /\ batch \in [StoreKeys -> Vals \cup {NoValue}]
    /\ attempt \in 0..(MaxWriteAttempts - 1)
    /\ pc \in {"idle", "writing", "clearing", "halted"}

(* lookup()/lookupAux(): a dirty buffered entry first, then the store.     *)
Lookup(sk) ==
    IF sk = MainKey(sk[1])
    THEN IF main[sk[1]].dirty THEN main[sk[1]].value ELSE store[sk]
    ELSE IF aux[sk[1]].dirty THEN aux[sk[1]].value ELSE store[sk]

(* A thread other than the committer may touch the buffers only while it  *)
(* does not hold the read lock of the batch copy; the committing thread    *)
(* itself touches them only outside commit().                              *)
MayMutate == IF ConcurrentInserts THEN pc # "halted" ELSE pc = "idle"

Init ==
    /\ main = [k \in Keys |-> Absent]
    /\ aux = [k \in Keys |-> Absent]
    /\ store = [sk \in StoreKeys |-> NoValue]
    /\ batch = NoBatch
    /\ attempt = 0
    /\ pc = "idle"

(* MemoryDB::insert: buffer a trie node.                                   *)
Insert(k, v) ==
    /\ MayMutate
    /\ main' = [main EXCEPT ![k] = [value |-> v, dirty |-> TRUE]]
    /\ UNCHANGED <<aux, store, batch, attempt, pc>>

(* MemoryDB::kill: drop the reference; the entry stays but is not dirty.   *)
Kill(k) ==
    /\ MayMutate
    /\ main[k].dirty
    /\ main' = [main EXCEPT ![k].dirty = FALSE]
    /\ UNCHANGED <<aux, store, batch, attempt, pc>>

(* MemoryDB::insertAux: buffer an auxiliary record.                        *)
InsertAux(k, v) ==
    /\ MayMutate
    /\ aux' = [aux EXCEPT ![k] = [value |-> v, dirty |-> TRUE]]
    /\ UNCHANGED <<main, store, batch, attempt, pc>>

(* OverlayDB::rollback: forget every buffered write.                       *)
Rollback ==
    /\ pc = "idle"
    /\ main' = [k \in Keys |-> Absent]
    /\ aux' = [k \in Keys |-> Absent]
    /\ UNCHANGED <<store, batch, attempt, pc>>

(* commit(), lines 30-51: under the read lock, copy every dirty main entry *)
(* to its key and every dirty aux entry to its key with the 255 suffix.    *)
BuildBatch ==
    /\ pc = "idle"
    /\ batch' = [sk \in StoreKeys |->
                    IF sk = MainKey(sk[1])
                    THEN IF main[sk[1]].dirty THEN main[sk[1]].value ELSE NoValue
                    ELSE IF aux[sk[1]].dirty THEN aux[sk[1]].value ELSE NoValue]
    /\ attempt' = 0
    /\ pc' = "writing"
    /\ UNCHANGED <<main, aux, store>>

(* lines 55-57: m_db->Write succeeds and the loop is left.                 *)
WriteSucceeds ==
    /\ pc = "writing"
    /\ store' = [sk \in StoreKeys |->
                    IF batch[sk] # NoValue THEN batch[sk] ELSE store[sk]]
    /\ pc' = "clearing"
    /\ UNCHANGED <<main, aux, batch, attempt>>

(* Two mistakes the retry loop could make: one attempt too many (`i <= 10` *)
(* with the exit at `i == 10`), and no exit at all after the last failure, *)
(* so that the loop ends and commit() goes on to clear the buffers.        *)
WriteFailsOneAttemptMore ==
    /\ pc = "writing"
    /\ IF attempt = MaxWriteAttempts
       THEN pc' = "halted" /\ UNCHANGED attempt
       ELSE attempt' = attempt + 1 /\ UNCHANGED pc
    /\ UNCHANGED <<main, aux, store, batch>>

WriteFailsFallThrough ==
    /\ pc = "writing"
    /\ IF attempt = MaxWriteAttempts - 1
       THEN pc' = "clearing" /\ UNCHANGED attempt
       ELSE attempt' = attempt + 1 /\ UNCHANGED pc
    /\ UNCHANGED <<main, aux, store, batch>>

(* lines 58-67: the write fails; after the last attempt the process exits, *)
(* otherwise it sleeps and retries the same batch.                         *)
WriteFails ==
    /\ pc = "writing"
    /\ IF attempt = MaxWriteAttempts - 1
       THEN pc' = "halted" /\ UNCHANGED attempt
       ELSE attempt' = attempt + 1 /\ UNCHANGED pc
    /\ UNCHANGED <<main, aux, store, batch>>

(* lines 69-75: under the write lock, clear both buffers.                  *)
ClearMaps ==
    /\ pc = "clearing"
    /\ main' = [k \in Keys |-> Absent]
    /\ aux' = [k \in Keys |-> Absent]
    /\ batch' = NoBatch
    /\ pc' = "idle"
    /\ UNCHANGED <<store, attempt>>

(* After exit(-1) nothing happens any more.                                *)
Halted ==
    /\ pc = "halted"
    /\ UNCHANGED vars

Next ==
    \/ \E k \in Keys, v \in Vals : Insert(k, v) \/ InsertAux(k, v)
    \/ \E k \in Keys : Kill(k)
    \/ Rollback
    \/ BuildBatch
    \/ WriteSucceeds
    \/ WriteFails
    \/ ClearMaps
    \/ Halted

Spec == Init /\ [][Next]_vars

-----------------------------------------------------------------------------
(* The overlay implements the abstract store of OverlayKV: what a lookup   *)
(* returns is the abstract view, the LevelDB contents are the durable      *)
(* state.  Every step of commit() must either leave the view unchanged or  *)
(* be the one step that makes the whole view durable; a buffered write may *)
(* never vanish from the view except by rollback or kill.  This is what    *)
(* the read-lock / unlocked-write / write-lock-clear sequence of commit()  *)
(* and its bounded retry loop have to get right.                           *)
KV == INSTANCE OverlayKV WITH
        kv <- [sk \in StoreKeys |-> Lookup(sk)],
        disk <- store,
        committing <- pc \in {"writing", "halted"}

ImplementsOverlayKV == KV!Spec

(* What every lookup returns.                                              *)
View == [sk \in StoreKeys |-> Lookup(sk)]

(* The clear at the end of commit() (lines 69-75) changes no lookup: every *)
(* value it drops from m_main and m_aux was written to the store by the    *)
(* batch, so a write buffered while the batch was on its way to LevelDB is *)
(* never silently replaced by the older stored value.                      *)
ClearLosesNothing == [][pc = "clearing" /\ pc' = "idle" => View' = View]_vars
=============================================================================
