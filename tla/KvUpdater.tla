------------------------------ MODULE KvUpdater ------------------------------
(***************************************************************************)
(* What the interface Kv_updater (batch_commiter.h) promises the batch     *)
(* committer, and EngineRace's write path implements: a batch is applied   *)
(* to the store in one step and answered "done", or it is not applied at   *)
(* all and answered "busy" or "error".  Nothing else ever changes the      *)
(* store, except a restart, which this engine answers with an empty one    *)
(* (its replay is a stub).                                                 *)
(*                                                                         *)
(* A value is the number of the batch that wrote it; Absent says that the  *)
(* key was never written.                                                  *)
(***************************************************************************)
EXTENDS Naturals

CONSTANTS Keys,         \* the keys
          MaxBatches    \* bound: batches handed to the store

VARIABLES store,    \* the value the engine holds for each key
          batch,    \* the batch handed to write() last
          result    \* what write() answered; "pending" while it runs

kvvars == <<batch, result, store>>

Absent == 0

(* The keys of one batch with the number that stands for their new values. *)
Batches == [keys : (SUBSET Keys) \ {{}}, entries : Nat, version : Nat]

NoBatch == [keys |-> {}, entries |-> 0, version |-> 0]

Put(content, ks, v) == [k \in Keys |-> IF k \in ks THEN v ELSE content[k]]

EmptyStore == [k \in Keys |-> Absent]

KvInit == /\ store = EmptyStore
          /\ batch = NoBatch
          /\ result = "none"

KvBegin == /\ result # "pending"
           /\ batch.version < MaxBatches
           /\ batch' \in Batches
           /\ batch'.version = batch.version + 1
           /\ result' = "pending"
           /\ UNCHANGED store

KvApply == /\ result = "pending"
           /\ result' = "done"
           /\ store' = Put(store, batch.keys, batch.version)
           /\ UNCHANGED batch

KvRefuse == /\ result = "pending"
            /\ result' \in {"busy", "error"}
            /\ UNCHANGED <<batch, store>>

KvRestart == /\ result' = "none"
             /\ store' = EmptyStore
             /\ UNCHANGED batch

KvNext == KvBegin \/ KvApply \/ KvRefuse \/ KvRestart

KvSpec == KvInit /\ [][KvNext]_kvvars
==============================================================================
