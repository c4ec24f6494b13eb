---------------------------- MODULE MCShardParts ----------------------------
(***************************************************************************)
(* ShardParts for TLC.                                                     *)
(***************************************************************************)
EXTENDS ShardParts

(* Every way for the traces to collide at the front of the table, or at    *)
(* its end, where a probe wraps around.                                    *)
AnyHash    == [Ids -> {0, HashRange - 1}]
AnyFibHash == [DecidedIds -> {0, HashRange - 1}]
=============================================================================
