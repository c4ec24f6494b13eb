---------------------------- MODULE MCLifecycle ----------------------------
(***************************************************************************)
(* Lifecycle for TLC.  Three keeps fill Loopback's channel, its delivery   *)
(* goroutine and the queue, all the links a Publish can wait behind; on    *)
(* NATS a Publish waits for none of them and two fill the rest.            *)
(***************************************************************************)
EXTENDS Lifecycle

PeerKeeps == [b \in BusKinds |-> IF b = "loopback" THEN 3 ELSE 2]
=============================================================================
