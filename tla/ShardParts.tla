----------------------------- MODULE ShardParts -----------------------------
(***************************************************************************)
(* Three parts of the shards, each in a module of its own and sharing no   *)
(* state: the buffer's trace index, the decided set, and the overload      *)
(* ladder.  A behaviour exercises one of them and leaves the others as     *)
(* they were built, so the state space is the sum of theirs.               *)
(***************************************************************************)
EXTENDS Overload

CONSTANTS Ids, InitialSlots, CompactFloor, SweepChunk, HashRange, Hashes, MaxPuts, MaxGen,
          DecidedIds, DecidedSlots, DecidedHashes, Deadlines, MaxMarks

VARIABLES part,     \* the part that is exercised
          x, hash, gen, minGen, puts, stored, sweeps,
          d, fibHash, marks

indexVars   == <<x, hash, gen, minGen, puts, stored, sweeps>>
decidedVars == <<d, fibHash, marks>>

X == INSTANCE TraceIndex
D == INSTANCE DecidedSet WITH Ids <- DecidedIds, InitialSlots <- DecidedSlots,
                              Hashes <- DecidedHashes, hash <- fibHash

ASSUME IndexAssumption == X!IndexConstants
ASSUME DecidedAssumption == D!DecidedConstants

PartsInit ==
    /\ part \in {"index", "decided", "ladder"}
    /\ Init /\ X!Init /\ D!Init
    /\ part # "index" => hash = [id \in Ids |-> 0]
    /\ part # "decided" => fibHash = [id \in DecidedIds |-> 0]
    /\ part # "ladder" => \A s \in Shards : segs[s] = << >>

PartsNext ==
    /\ UNCHANGED part
    /\ \/ part = "index" /\ X!Next /\ UNCHANGED <<vars, decidedVars>>
       \/ part = "decided" /\ D!Next /\ UNCHANGED <<vars, indexVars>>
       \/ part = "ladder" /\ Next /\ UNCHANGED <<indexVars, decidedVars>>

PartsSpec == PartsInit /\ [][PartsNext]_<<part, vars, indexVars, decidedVars>>

(* What TraceIndex and DecidedSet say of theirs. *)
FindsWhatWasPut  == X!FindsWhatWasPut
FullTurnReclaims == X!FullTurnReclaims
DecidedFound     == D!DecidedFound
=============================================================================
