--------------------------- MODULE MCEngineRace ---------------------------
(* Instances of EngineRace for TLC.                                        *)
EXTENDS EngineRace, TLC

Symmetry == Permutations(Keys)

(* A killed engine is followed for fewer batches than one that lives: the  *)
(* fourth batch, the one that finds the queue full, is left to the latter. *)
MaxBatchesAfterKill == 3
KilledEarly == crashes > 0 => batch.version <= MaxBatchesAfterKill

(* The last batch writes all keys: it is there to find the queue full.     *)
(* One of the first two may have two entries of a key.                     *)
LaterAreSimple ==
    /\ batch.version = MaxBatches => batch.keys = Keys
    /\ batch.version > 2 => batch.entries = Cardinality(batch.keys)
===========================================================================
