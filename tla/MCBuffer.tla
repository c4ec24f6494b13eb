------------------------------ MODULE MCBuffer ------------------------------
(***************************************************************************)
(* Buffer for TLC, with the symmetry of its trace ids.                     *)
(***************************************************************************)
EXTENDS Buffer

(* Trace ids are interchangeable; no liveness is checked under it. *)
Symmetry == Permutations(Ids)
=============================================================================
