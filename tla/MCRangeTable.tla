---------------------------- MODULE MCRangeTable ----------------------------
(***************************************************************************)
(* Two ranges that differ in network and in mask: the lower two of four    *)
(* addresses, and the third.                                               *)
(***************************************************************************)
EXTENDS RangeTable

MCLines == {[network |-> 0, prefix |-> 1], [network |-> 2, prefix |-> 2]}

=============================================================================
