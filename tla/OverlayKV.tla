----------------------------- MODULE OverlayKV -----------------------------
(***************************************************************************)
(* What the overlay promises its users (spec section 4.1), stated without  *)
(* buffers, batches or retries: a key/value view `kv` that every read      *)
(* returns, and the durable contents `disk` of the backing store.  A write *)
(* changes the view; a commit, once begun, ends only by making the whole   *)
(* view durable at once (or never ends, if the process stops); a discard   *)
(* (rollback) outside a commit returns the view to what is durable, and   *)
(* dropping one uncommitted write returns that key to its durable value.   *)
(***************************************************************************)
CONSTANTS StoreKeys, Vals, NoValue

VARIABLES kv, disk, committing

Put(k, v) ==
    /\ kv' = [kv EXCEPT ![k] = v]
    /\ UNCHANGED <<disk, committing>>

Revert(k) ==
    /\ kv' = [kv EXCEPT ![k] = disk[k]]
    /\ UNCHANGED <<disk, committing>>

BeginCommit ==
    /\ ~committing
    /\ committing' = TRUE
    /\ UNCHANGED <<kv, disk>>

Flush ==
    /\ committing
    /\ disk' = kv
    /\ committing' = FALSE
    /\ UNCHANGED kv

Discard ==
    /\ ~committing
    /\ kv' = disk
    /\ UNCHANGED <<disk, committing>>

Init ==
    /\ disk = [k \in StoreKeys |-> NoValue]
    /\ kv = disk
    /\ committing = FALSE

Next ==
    \/ \E k \in StoreKeys, v \in Vals : Put(k, v)
    \/ \E k \in StoreKeys : Revert(k)
    \/ BeginCommit
    \/ Flush
    \/ Discard

Spec == Init /\ [][Next]_<<kv, disk, committing>>
=============================================================================
