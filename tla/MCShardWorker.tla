--------------------------- MODULE MCShardWorker ---------------------------
(***************************************************************************)
(* ShardWorker for TLC, with the symmetry of its trace ids.                *)
(***************************************************************************)
EXTENDS ShardWorker, TLC

(* Trace ids are interchangeable; no liveness is checked under it. *)
Symmetry == Permutations(Ids)
=============================================================================
