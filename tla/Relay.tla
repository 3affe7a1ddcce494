------------------------------- MODULE Relay --------------------------------
(***************************************************************************)
(* What the probe promises from end to end: on each lane the items that    *)
(* come in are passed on once each, unaltered and in their order, but for  *)
(* those that are dropped on the way.  No two items of a lane are equal.   *)
(* Pipeline is the implementation.                                         *)
(***************************************************************************)
EXTENDS Naturals, Sequences, Functions

CONSTANTS Lanes, Items

VARIABLES accepted, dropped, passed    \* per lane: a sequence, a set, a sequence

Init ==
  /\ accepted = [l \in Lanes |-> <<>>]
  /\ dropped  = [l \in Lanes |-> {}]
  /\ passed   = [l \in Lanes |-> <<>>]

\* The places in a lane's sequence of the items on the way.
Waiting(l) ==
  {n \in DOMAIN accepted[l] : accepted[l][n] \notin dropped[l] \cup Range(passed[l])}

Accept(l) ==
  /\ \E x \in Items : accepted' = [accepted EXCEPT ![l] = Append(@, x)]
  /\ UNCHANGED <<dropped, passed>>

Drop(l) ==
  /\ \E n \in Waiting(l) : dropped' = [dropped EXCEPT ![l] = @ \cup {accepted[l][n]}]
  /\ UNCHANGED <<accepted, passed>>

\* The first of those on the way is passed on.
Pass(l) ==
  /\ \E n \in Waiting(l) :
       /\ \A m \in Waiting(l) : n <= m
       /\ passed' = [passed EXCEPT ![l] = Append(@, accepted[l][n])]
  /\ UNCHANGED <<accepted, dropped>>

Next == \E l \in Lanes : Accept(l) \/ Drop(l) \/ Pass(l)

Spec == Init /\ [][Next]_<<accepted, dropped, passed>>

=============================================================================
