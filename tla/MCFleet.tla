------------------------------ MODULE MCFleet ------------------------------
(***************************************************************************)
(* Fleet for TLC.                                                          *)
(***************************************************************************)
EXTENDS Fleet

CONSTANTS c1, c2, x, y

(* Both collectors have spans of x, and the first has spans of y. *)
SharedTrace == {<<c1, x>>, <<c2, x>>, <<c1, y>>}
=============================================================================
