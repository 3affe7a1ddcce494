------------------------------ MODULE Handoff -------------------------------
(***************************************************************************)
(* What every stage of the probe's pipeline promises the next one: on each *)
(* lane an item that was accepted is handed over once, unaltered, and in   *)
(* the order of acceptance.  A stage may refuse an item before it accepts  *)
(* it.  The time rings (PacketRing, AgentRing) are implementations.        *)
(***************************************************************************)
EXTENDS Naturals, Sequences

CONSTANTS Lanes, Items

VARIABLES accepted, delivered      \* per lane, the items in order

Init ==
  /\ accepted  = [l \in Lanes |-> <<>>]
  /\ delivered = [l \in Lanes |-> <<>>]

Accept(l) ==
  /\ \E x \in Items : accepted' = [accepted EXCEPT ![l] = Append(@, x)]
  /\ UNCHANGED delivered

Deliver(l) ==
  /\ Len(delivered[l]) < Len(accepted[l])
  /\ delivered' = [delivered EXCEPT ![l] = Append(@, accepted[l][Len(@) + 1])]
  /\ UNCHANGED accepted

Next == \E l \in Lanes : Accept(l) \/ Deliver(l)

Spec == Init /\ [][Next]_<<accepted, delivered>>

=============================================================================
