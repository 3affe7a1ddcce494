----------------------------- MODULE Direction ------------------------------
(***************************************************************************)
(* The directions of a packet (IPGlobal.h).                                *)
(***************************************************************************)
UP == 1
DOWN == 2
UNKNOWN == 3
Directions == {UP, DOWN, UNKNOWN}

=============================================================================
