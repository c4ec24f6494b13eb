----------------------------- MODULE SpanBuffer -----------------------------
(***************************************************************************)
(* What the disk buffer of a shard promises the worker that owns it        *)
(* (internal/buffer): a sequence of fragments that grows at the back,      *)
(* loses nothing younger than the window from the front unless the worker  *)
(* sacrifices it, and loses at most a suffix to a crash.  What Collect(id) *)
(* visits is the subsequence of `live' with that id.                       *)
(***************************************************************************)
EXTENDS Integers, Sequences

CONSTANTS
    Ids,        \* trace ids
    Window      \* Options.Window, W

VARIABLES
    now,        \* the clock
    appended,   \* fragments appended so far
    live,       \* the fragments Collect can reach, in append order
    early,      \* segments force-expired by the worker
    crashes     \* crashes so far

vars == <<now, appended, live, early, crashes>>

Init ==
    /\ now = 0
    /\ appended = 0
    /\ live = << >>
    /\ early = 0
    /\ crashes = 0

Advance ==
    /\ now' = now + 1
    /\ UNCHANGED <<appended, live, early, crashes>>

(* A successful append is visible at once and for good, behind all others. *)
Store ==
    /\ appended' = appended + 1
    /\ \E id \in Ids, at \in 0 .. now :
          live' = Append(live, [id |-> id, n |-> appended + 1, at |-> at])
    /\ UNCHANGED <<now, early, crashes>>

DropFront(k) == live' = SubSeq(live, k + 1, Len(live))

(* Expiry takes fragments older than the window, oldest append first. *)
Reclaim ==
    /\ UNCHANGED <<now, appended, early, crashes>>
    /\ \E k \in 1 .. Len(live) :
          /\ \A i \in 1 .. k : live[i].at < now - Window
          /\ DropFront(k)

(* A forced expiry takes the oldest appends whatever their age. *)
Sacrifice ==
    /\ early' = early + 1
    /\ \E k \in 0 .. Len(live) : DropFront(k)
    /\ UNCHANGED <<now, appended, crashes>>

(* A crash takes the newest appends. *)
Lose ==
    /\ crashes' = crashes + 1
    /\ \E k \in 0 .. Len(live) : live' = SubSeq(live, 1, k)
    /\ UNCHANGED <<now, appended, early>>

Next == Advance \/ Store \/ Reclaim \/ Sacrifice \/ Lose

Spec == Init /\ [][Next]_vars
=============================================================================
