-------------------------- MODULE PacketRingProofs --------------------------
(***************************************************************************)
(* Proofs about PacketRing, for every number of routers, ring size, cap    *)
(* and scheduling bound.                                                   *)
(*                                                                         *)
(* First CounterInv, which holds under any scheduling: the counters and    *)
(* the racing loads and stores on them.  It makes TypeOK inductive, since  *)
(* a router decodes only records that exist, and it gives CounterSound     *)
(* and, if the clock is read once, WithinAllocation.  Then ClockInv, which *)
(* follows the seconds behind the indices of the listener and of the       *)
(* routers: with Timely it gives NoOverlap.  RecordInv says where the      *)
(* records are: it gives NothingLost, FreshWhenDecoded and, step by step,  *)
(* that the ring implements Handoff.  TurnInv says what the round robin    *)
(* has put into the slot it is filling: it gives RefusedOnlyWhenFull.      *)
(***************************************************************************)
EXTENDS PacketRing, TimeRingProofs

\* What is stored and what is allocated are numbers, whatever the cap.
LEMMA SlotLimits == MAX_PKT \in Nat /\ MAX_LEN \in Nat
<1> DEFINE share == (PPS \div ROUTERS) \div PERCENT
<1>1. PPS \div ROUTERS \in Nat
  BY PacketRingAssumption, SMT
<1>2. share \in Nat
  BY <1>1, PacketRingAssumption, SMT
<1> HIDE DEF share
<1>3. share * CAP \in Nat /\ UINT_MAX + 1 \in Nat \ {0}
  BY <1>2, PacketRingAssumption, SMT
<1>4. (share * CAP) % (UINT_MAX + 1) \in Nat
  BY <1>3
<1> QED
  BY <1>1, <1>4 DEF MAX_PKT, MAX_LEN, share

\* Up to 100 percent, the cap is never more than what was allocated.
LEMMA CapWithinAllocation ==
  ASSUME CAP <= PERCENT PROVE MAX_PKT <= MAX_LEN
<1> DEFINE len == PPS \div ROUTERS
           share == len \div PERCENT
<1>1. len \in Nat /\ len <= PPS
  BY PacketRingAssumption, SMT
<1>2. share \in Nat /\ share * PERCENT <= len
  BY <1>1, PacketRingAssumption, SMT
<1> HIDE DEF len, share
<1>3. share * CAP \in Nat /\ share * CAP <= share * PERCENT
  BY <1>2, PacketRingAssumption, SMT
<1>4. share * CAP <= len /\ share * CAP <= UINT_MAX
  BY <1>1, <1>2, <1>3, PacketRingAssumption
<1>5. (share * CAP) % (UINT_MAX + 1) = share * CAP
  <2> DEFINE product == share * CAP
  <2>1. product \in Nat /\ product < UINT_MAX + 1 /\ UINT_MAX + 1 \in Nat \ {0}
    BY <1>3, <1>4, PacketRingAssumption
  <2> HIDE DEF product
  <2>2. product % (UINT_MAX + 1) = product
    BY <2>1, SMT
  <2> QED
    BY <2>2 DEF product
<1> QED
  BY <1>4, <1>5 DEF MAX_PKT, MAX_LEN, len, share

-----------------------------------------------------------------------------
(* The counters, under any scheduling.                                      *)

\* The listener's side: between its check and its store of the counter, the
\* counter only falls, so the store stays within the cap and never lowers it;
\* nor does it pass the allocation, which Fill has not got beyond.
ListenerCounts ==
  LET cnt == pktRepoCnt[Row][Slot]
  IN  /\ lpc \in {"fill", "load"} => cnt < MAX_PKT
      /\ lpc = "load" => cnt < MAX_LEN
      /\ lpc = "store" => cntLoad < MAX_PKT /\ cntLoad < MAX_LEN /\ cnt <= cntLoad
      /\ lpc \in {"load", "store"} => Row \in Routers
      /\ lpc # "idle" => \A r \in Routers : Len(stored[r]) < MAX_STORED

\* A router's side: between the reading of recCnt and the reset, the counter
\* covers the records not yet counted down.
RouterCounts(r) ==
  LET cnt == pktRepoCnt[r][lastTIndex[r]]
  IN  /\ recCnt[r] <= MAX_PKT /\ recCnt[r] <= MAX_LEN
      /\ rpc[r] = "mark" => recIdx[r] = 0 /\ recCnt[r] <= cnt
      /\ rpc[r] \in {"decode", "load", "store"} => recIdx[r] < recCnt[r]
      /\ rpc[r] \in {"decode", "load"} => recCnt[r] - recIdx[r] <= cnt
      /\ rpc[r] = "store" => recCnt[r] - recIdx[r] <= cntDec[r] /\ cntDec[r] <= cnt

CounterInv ==
  /\ \A r \in Rows, s \in TimeSlots : pktRepoCnt[r][s] <= MAX_PKT /\ pktRepoCnt[r][s] <= MAX_LEN
  /\ ListenerCounts
  /\ \A r \in Routers : RouterCounts(r)


THEOREM InitCounters == Init => TypeOK /\ CounterInv
<1> SUFFICES ASSUME Init PROVE TypeOK /\ CounterInv
  OBVIOUS
<1> USE TimeIndexAssumption, PacketRingAssumption, SlotLimits
<1>1. epochSec \in Seconds /\ epochSec \in Nat /\ epochSec - NIC_BEHIND \in Stamps
  BY DEF Init, Seconds, Stamps
<1>2. ReadTimeIndex(epochSec) \in TimeSlots /\ 0 \in TimeSlots /\ 0 \in Routers
      /\ 0 \in WriteIndices
  BY <1>1, ReadInRange DEF TimeSlots, WriteIndices, Routers
<1>3. EmptyPkt \in RawPkt /\ epochSec \in Stamps /\ 0 \in Stamps
  BY <1>1 DEF EmptyPkt, RawPkt, Seconds, Stamps
<1>4. TypeOK
  BY <1>1, <1>2, <1>3 DEF Init, TypeOK
<1>5. CounterInv
  <2>1. \A r \in Rows, s \in TimeSlots : pktRepoCnt[r][s] <= MAX_PKT /\ pktRepoCnt[r][s] <= MAX_LEN
    BY DEF Init
  <2>2. \A r \in Routers : RouterCounts(r)
    BY DEF Init, RouterCounts
  <2> QED
    BY <2>1, <2>2 DEF Init, CounterInv, ListenerCounts
<1> QED
  BY <1>4, <1>5

-----------------------------------------------------------------------------
(* What the actions need of the operators they call.                        *)

\* Every clock the listener may slot by is a second, and has a slot.
LEMMA ClockSlots ==
  ASSUME TypeOK
  PROVE  /\ ListenerClocks \subseteq Stamps /\ Stamps \subseteq Nat /\ Seconds \subseteq Stamps
         /\ \A clk \in Stamps : ReadTimeIndex(clk) \in TimeSlots
         /\ 0 \in Routers
<1>1. Stamps \subseteq Nat /\ Seconds \subseteq Stamps /\ 0 \in Routers
  BY PacketRingAssumption DEF Stamps, Seconds, Routers
<1>2. ListenerClocks \subseteq Stamps
  BY PacketRingAssumption DEF ListenerClocks, TypeOK, Stamps, Seconds
<1> QED
  BY <1>1, <1>2, ReadInRange

\* The listener is in the arrays, in the column of the second it read last,
\* and in the row of its own router if it reads the clock once.
LEMMA EntersSlot ==
  ASSUME TypeOK, EnterTimeIndex
  PROVE  /\ lClock' \in Stamps /\ tIdx' \in WriteIndices /\ pTidx' \in WriteIndices
         /\ routerToProcess' \in Routers /\ noOfPackets' \in Nat
         /\ ColumnOf(tIdx') = WriteTimeIndex(lClock')
         /\ ~REREADS => tIdx' \in TimeSlots
<1>1. lClock \in Stamps /\ epochSec \in Stamps /\ lClock \in Nat /\ epochSec \in Nat
  BY ClockSlots DEF TypeOK
<1>2. lClock' \in Stamps
  BY <1>1 DEF EnterTimeIndex, LastRead
<1>3. /\ tIdx' \in WriteIndices /\ ColumnOf(tIdx') = WriteTimeIndex(lClock')
      /\ ~REREADS => tIdx' \in TimeSlots
  BY <1>1, ColumnOfLastRead, ReadOnce DEF EnterTimeIndex
<1>4. routerToProcess' \in Routers /\ noOfPackets' \in Nat
  BY ClockSlots DEF EnterTimeIndex, TypeOK
<1> QED
  BY <1>2, <1>3, <1>4 DEF EnterTimeIndex

\* The listener's place is in the arrays, if not always in the repository.
LEMMA InArrays ==
  ASSUME TypeOK
  PROVE  Row \in Rows /\ Slot \in TimeSlots
<1>1. routerToProcess \in 0 .. ROUTERS - 1 /\ tIdx \in 0 .. TIME_INDEX
  BY DEF TypeOK, Routers, WriteIndices
<1> QED
  BY <1>1, PacketRingAssumption, TimeIndexAssumption
     DEF Row, Slot, RowOf, ColumnOf, Rows, TimeSlots

\* The rows the routers work on are rows of the arrays.
LEMMA RoutersInRows == Routers \subseteq Rows
  BY PacketRingAssumption DEF Routers, Rows

\* The record the listener builds is one of the modelled records.
LEMMA NewRecord ==
  ASSUME TypeOK, Row \in Routers, Len(stored[Row]) < MAX_STORED
  PROVE  NewPkt \in RawPkt
<1>1. stored[Row] \in Seq(RawPkt) /\ tvSec \in Stamps
  BY DEF TypeOK
<1>2. Len(stored[Row]) \in Nat
  BY <1>1
<1> QED
  BY <1>1, <1>2, PacketRingAssumption DEF NewPkt, RawPkt

-----------------------------------------------------------------------------
(* Every step preserves the types: the record decoded exists because of     *)
(* RouterCounts, the packet stored is a record because of ListenerCounts.   *)
LEMMA StepTypes == TypeOK /\ CounterInv /\ [Next]_vars => TypeOK'
<1> SUFFICES ASSUME TypeOK, CounterInv, [Next]_vars PROVE TypeOK'
  OBVIOUS
<1> USE PacketRingAssumption, RoutersInRows
    DEF vars, clockVars, repoVars, listenerVars, routerVars, historyVars
<1>1. CASE Tick
  <2>1. epochSec \in Seconds /\ epochSec < MAX_SEC
    BY <1>1 DEF Tick, TypeOK
  <2>2. epochSec' \in Seconds
    BY <1>1, <2>1 DEF Tick, Seconds
  <2> QED
    BY <1>1, <2>2 DEF Tick, TypeOK
<1>2. CASE SetPacketProcessing
  BY <1>2 DEF SetPacketProcessing, TypeOK
<1>3. CASE Receive
  <2>1. lClock' \in Stamps /\ lReadSec' \in Seconds
    BY <1>3, ClockSlots DEF Receive, TypeOK
  <2> QED
    BY <1>3, <2>1 DEF Receive, TypeOK
<1>4. CASE KeepIp \/ LeaveOther
  <2>1. /\ lClock' \in Stamps /\ tIdx' \in WriteIndices /\ pTidx' \in WriteIndices
        /\ routerToProcess' \in Routers /\ noOfPackets' \in Nat
    BY <1>4, EntersSlot DEF KeepIp, LeaveOther
  <2> QED
    BY <1>4, <2>1 DEF KeepIp, LeaveOther, TypeOK
<1>5. CASE CheckBusy \/ CheckRoom
  <2>1. StampOf \in Stamps
    BY ClockSlots DEF StampOf, TypeOK
  <2> QED
    BY <1>5, <2>1 DEF CheckBusy, CheckRoom, TypeOK
<1>6. CASE Fill
  <2>1. NewPkt \in RawPkt
    <3>1. Row \in Routers /\ Len(stored[Row]) < MAX_STORED
      BY <1>6 DEF Fill, CounterInv, ListenerCounts
    <3> QED
      BY <3>1, NewRecord
  <2>2. pktRepository' \in [Routers -> [TimeSlots -> [0 .. MAX_LEN - 1 -> RawPkt]]]
    <3>1. /\ Row \in Routers /\ Slot \in TimeSlots
          /\ pktRepository' =
               [pktRepository EXCEPT ![Row][Slot][pktRepoCnt[Row][Slot]] = NewPkt]
      BY <1>6, InArrays DEF Fill
    <3>2. pktRepository \in [Routers -> [TimeSlots -> [0 .. MAX_LEN - 1 -> RawPkt]]]
      BY DEF TypeOK
    <3> QED
      BY <2>1, <3>1, <3>2
  <2> QED
    BY <1>6, <2>2 DEF Fill, TypeOK
<1>7. CASE LoadCnt
  <2>1. cntLoad' \in Nat
    BY <1>7, InArrays DEF LoadCnt, TypeOK
  <2> QED
    BY <1>7, <2>1 DEF LoadCnt, TypeOK
<1>8. CASE StoreCnt
  <2>1. NewPkt \in RawPkt
    <3>1. Row \in Routers /\ Len(stored[Row]) < MAX_STORED
      BY <1>8 DEF StoreCnt, CounterInv, ListenerCounts
    <3> QED
      BY <3>1, NewRecord
  <2>2. stored' \in [Routers -> Seq(RawPkt)]
    <3>1. stored' = [stored EXCEPT ![Row] = Append(@, NewPkt)]
      BY <1>8 DEF StoreCnt
    <3>2. stored \in [Routers -> Seq(RawPkt)]
      BY DEF TypeOK
    <3>3. Row \in Routers => Append(stored[Row], NewPkt) \in Seq(RawPkt)
      BY <2>1, <3>2
    <3> QED
      BY <3>1, <3>2, <3>3
  <2>3. NextRouter \in Routers
    BY DEF NextRouter, Routers, TypeOK
  <2>4. pktRepoCnt' \in [Rows -> [TimeSlots -> Nat]]
    <3>1. pktRepoCnt' = [pktRepoCnt EXCEPT ![Row][Slot] = cntLoad + 1] /\ cntLoad + 1 \in Nat
      BY <1>8 DEF StoreCnt, TypeOK
    <3>2. pktRepoCnt \in [Rows -> [TimeSlots -> Nat]] /\ Row \in Rows /\ Slot \in TimeSlots
      BY InArrays DEF TypeOK
    <3> QED
      BY <3>1, <3>2
  <2>5. routerToProcess' \in Routers /\ noOfPackets' \in Nat
    <3>1. noOfPackets \in Nat /\ routerToProcess \in Routers
      BY DEF TypeOK
    <3> QED
      BY <1>8, <2>3, <3>1 DEF StoreCnt
  <2> QED
    BY <1>8, <2>2, <2>4, <2>5 DEF StoreCnt, TypeOK
<1>9. ASSUME NEW q \in Routers, Poll(q) PROVE TypeOK'
  <2>1. ReadTimeIndex(epochSec) \in TimeSlots
    BY ClockSlots DEF TypeOK
  <2> QED
    BY <1>9, <2>1 DEF Poll, TypeOK
<1>10. ASSUME NEW q \in Routers, TakeSlot(q) PROVE TypeOK'
  BY <1>10 DEF TakeSlot, TypeOK
<1>11. ASSUME NEW q \in Routers, MarkBusy(q) PROVE TypeOK'
  BY <1>11 DEF MarkBusy, TypeOK
<1>12. ASSUME NEW q \in Routers, Decode(q) PROVE TypeOK'
  <2>1. recIdx[q] \in 0 .. MAX_LEN - 1
    BY <1>12, SlotLimits DEF Decode, TypeOK, CounterInv, RouterCounts
  <2>2. pktRepository[q][lastTIndex[q]][recIdx[q]] \in RawPkt
    <3>1. pktRepository \in [Routers -> [TimeSlots -> [0 .. MAX_LEN - 1 -> RawPkt]]]
      BY DEF TypeOK
    <3>2. lastTIndex[q] \in TimeSlots
      BY DEF TypeOK
    <3>3. pktRepository[q][lastTIndex[q]] \in [0 .. MAX_LEN - 1 -> RawPkt]
      BY <3>1, <3>2
    <3> QED
      BY <2>1, <3>3
  <2>3. decoded' \in [Routers -> Seq(RawPkt)]
    BY <1>12, <2>2 DEF Decode, TypeOK
  <2> QED
    BY <1>12, <2>3 DEF Decode, TypeOK
<1>13. ASSUME NEW q \in Routers, LoadDec(q) PROVE TypeOK'
  BY <1>13 DEF LoadDec, TypeOK
<1>14. ASSUME NEW q \in Routers, StoreDec(q) PROVE TypeOK'
  <2>1. pktRepoCnt' \in [Rows -> [TimeSlots -> Nat]]
    <3>1. /\ pktRepoCnt \in [Rows -> [TimeSlots -> Nat]]
          /\ cntDec[q] \in Nat
      BY DEF TypeOK
    <3>2. (IF cntDec[q] = 0 THEN UINT_MAX ELSE cntDec[q] - 1) \in Nat
      BY <3>1
    <3> QED
      BY <1>14, <3>1, <3>2 DEF StoreDec
  <2>2. recIdx' \in [Routers -> Nat]
    <3>1. recIdx \in [Routers -> Nat]
      BY DEF TypeOK
    <3> QED
      BY <1>14, <3>1 DEF StoreDec
  <2> QED
    BY <1>14, <2>1, <2>2 DEF StoreDec, TypeOK
<1>15. ASSUME NEW q \in Routers, ZeroCnt(q) PROVE TypeOK'
  BY <1>15 DEF ZeroCnt, TypeOK
<1>16. ASSUME NEW q \in Routers, Release(q) PROVE TypeOK'
  <2>1. lastTIndex' \in [Routers -> TimeSlots]
    BY <1>16, NextInRange DEF Release, TypeOK
  <2>2. lastSec' \in [Routers -> Nat]
    <3>1. lastSec \in [Routers -> Nat]
      BY DEF TypeOK
    <3> QED
      BY <1>16, <3>1 DEF Release
  <2> QED
    BY <1>16, <2>1, <2>2 DEF Release, TypeOK
<1>17. CASE UNCHANGED vars
  BY <1>17 DEF TypeOK
<1> QED
  BY <1>1, <1>2, <1>3, <1>4, <1>5, <1>6, <1>7, <1>8, <1>9, <1>10, <1>11, <1>12,
     <1>13, <1>14, <1>15, <1>16, <1>17 DEF Next, ListenerStep, RouterStep

\* A step that leaves the counters alone: every counter fact is about one
\* slot, so a step of the listener cannot disturb a router's, nor the reverse.
LEMMA StepCounters == TypeOK /\ CounterInv /\ [Next]_vars => CounterInv'
<1> SUFFICES ASSUME TypeOK, CounterInv, [Next]_vars PROVE CounterInv'
  OBVIOUS
<1> USE SlotLimits, RoutersInRows
    DEF vars, clockVars, repoVars, listenerVars, routerVars, historyVars, Row, Slot
<1>1. CASE Tick \/ SetPacketProcessing \/ UNCHANGED vars
  BY <1>1 DEF Tick, SetPacketProcessing, CounterInv, ListenerCounts, RouterCounts
<1>2. CASE Receive \/ KeepIp \/ LeaveOther \/ CheckBusy
  <2>1. ListenerCounts'
    BY <1>2 DEF Receive, KeepIp, LeaveOther, CheckBusy, CounterInv, ListenerCounts
  <2> QED
    BY <1>2, <2>1 DEF Receive, KeepIp, LeaveOther, CheckBusy, CounterInv, RouterCounts
<1>3. CASE CheckRoom
  <2>1. UNCHANGED <<pktRepoCnt, tIdx, routerToProcess, stored>> /\ Row' = Row /\ Slot' = Slot
    BY <1>3 DEF CheckRoom, Row, Slot
  <2>2. ListenerCounts'
    BY <1>3, <2>1 DEF CheckRoom, Room, CounterInv, ListenerCounts
  <2> QED
    BY <1>3, <2>2 DEF CheckRoom, CounterInv, RouterCounts
<1>4. CASE Fill \/ LoadCnt
  <2>1. pktRepoCnt[Row][Slot] \in Nat
    BY InArrays DEF TypeOK
  <2>2. ListenerCounts'
    BY <1>4, <2>1 DEF Fill, LoadCnt, CounterInv, ListenerCounts
  <2> QED
    BY <1>4, <2>2 DEF Fill, LoadCnt, CounterInv, RouterCounts
<1>5. CASE StoreCnt
  <2>1. \A r \in Rows, s \in TimeSlots :
          /\ pktRepoCnt'[r][s] <= MAX_PKT /\ pktRepoCnt'[r][s] <= MAX_LEN
          /\ pktRepoCnt[r][s] <= pktRepoCnt'[r][s]
          /\ pktRepoCnt'[r][s] \in Nat
    <3> SUFFICES ASSUME NEW r \in Rows, NEW s \in TimeSlots
                 PROVE  /\ pktRepoCnt'[r][s] <= MAX_PKT /\ pktRepoCnt'[r][s] <= MAX_LEN
                        /\ pktRepoCnt[r][s] <= pktRepoCnt'[r][s]
                        /\ pktRepoCnt'[r][s] \in Nat
      OBVIOUS
    <3>1. CASE r = Row /\ s = Slot
      <4>1. pktRepoCnt'[r][s] = cntLoad + 1
        BY <1>5, <3>1 DEF StoreCnt, TypeOK
      <4>2. /\ cntLoad \in Nat /\ cntLoad < MAX_PKT /\ cntLoad < MAX_LEN
            /\ pktRepoCnt[r][s] <= cntLoad /\ pktRepoCnt[r][s] \in Nat
        BY <1>5, <3>1 DEF StoreCnt, CounterInv, ListenerCounts, TypeOK
      <4> QED
        BY <4>1, <4>2
    <3>2. CASE ~(r = Row /\ s = Slot)
      <4>1. pktRepoCnt'[r][s] = pktRepoCnt[r][s]
        BY <1>5, <3>2 DEF StoreCnt, TypeOK
      <4>2. pktRepoCnt[r][s] \in Nat /\ pktRepoCnt[r][s] <= MAX_PKT /\ pktRepoCnt[r][s] <= MAX_LEN
        BY DEF CounterInv, TypeOK
      <4> QED
        BY <4>1, <4>2
    <3> QED
      BY <3>1, <3>2
  <2>2. ListenerCounts'
    BY <1>5 DEF StoreCnt, ListenerCounts
  <2>3. ASSUME NEW r \in Routers PROVE RouterCounts(r)'
    <3> DEFINE cnt  == pktRepoCnt[r][lastTIndex[r]]
               more == pktRepoCnt'[r][lastTIndex[r]]
    <3>1. cnt \in Nat /\ more \in Nat /\ cnt <= more
      BY <2>1, RoutersInRows DEF TypeOK
    <3>2. /\ RouterCounts(r)
          /\ recCnt[r] \in Nat /\ recIdx[r] \in Nat /\ cntDec[r] \in Nat
      BY DEF CounterInv, TypeOK
    <3>3. UNCHANGED <<rpc, lastTIndex, recCnt, recIdx, cntDec>>
      BY <1>5 DEF StoreCnt
    <3> QED
      BY <3>1, <3>2, <3>3 DEF RouterCounts
  <2> QED
    BY <2>1, <2>2, <2>3 DEF CounterInv
<1>6. ASSUME NEW q \in Routers, Poll(q) PROVE CounterInv'
  BY <1>6 DEF Poll, CounterInv, ListenerCounts, RouterCounts
<1>7. ASSUME NEW q \in Routers, TakeSlot(q) PROVE CounterInv'
  BY <1>7 DEF TakeSlot, CounterInv, ListenerCounts, RouterCounts, TypeOK
<1>8. ASSUME NEW q \in Routers, MarkBusy(q) \/ Decode(q) \/ LoadDec(q) \/ Release(q)
      PROVE  CounterInv'
  <2>1. /\ ListenerCounts'
        /\ \A r \in Rows, s \in TimeSlots :
             pktRepoCnt'[r][s] <= MAX_PKT /\ pktRepoCnt'[r][s] <= MAX_LEN
    BY <1>8 DEF MarkBusy, Decode, LoadDec, Release, CounterInv, ListenerCounts
  <2>2. ASSUME NEW r \in Routers PROVE RouterCounts(r)'
    <3>1. RouterCounts(r)
      BY DEF CounterInv
    <3>2. /\ recCnt[r] \in Nat /\ recIdx[r] \in Nat /\ cntDec[r] \in Nat
          /\ pktRepoCnt[r][lastTIndex[r]] \in Nat
      BY DEF TypeOK
    <3>3. pktRepoCnt' = pktRepoCnt /\ recCnt' = recCnt /\ recIdx' = recIdx
      BY <1>8 DEF MarkBusy, Decode, LoadDec, Release
    <3>4. /\ rpc \in [Routers -> {"walk", "mark", "decode", "load", "store", "zero", "release"}]
          /\ cntDec \in [Routers -> Nat] /\ lastTIndex \in [Routers -> TimeSlots]
      BY DEF TypeOK
    <3>5. CASE r # q
      <4>1. rpc'[r] = rpc[r] /\ lastTIndex'[r] = lastTIndex[r] /\ cntDec'[r] = cntDec[r]
        BY <1>8, <3>4, <3>5 DEF MarkBusy, Decode, LoadDec, Release
      <4> QED
        BY <3>1, <3>3, <4>1 DEF RouterCounts
    <3>6. CASE r = q /\ MarkBusy(q)
      <4>1. /\ rpc[r] = "mark" /\ lastTIndex'[r] = lastTIndex[r]
            /\ rpc'[r] = IF recCnt[r] > 0 THEN "decode" ELSE "release"
        BY <3>4, <3>6 DEF MarkBusy
      <4> QED
        BY <3>1, <3>2, <3>3, <4>1 DEF RouterCounts
    <3>7. CASE r = q /\ Decode(q)
      <4>1. rpc[r] = "decode" /\ rpc'[r] = "load" /\ lastTIndex'[r] = lastTIndex[r]
        BY <3>4, <3>7 DEF Decode
      <4> QED
        BY <3>1, <3>2, <3>3, <4>1 DEF RouterCounts
    <3>8. CASE r = q /\ LoadDec(q)
      <4>1. /\ rpc[r] = "load" /\ rpc'[r] = "store" /\ lastTIndex'[r] = lastTIndex[r]
            /\ cntDec'[r] = pktRepoCnt[r][lastTIndex[r]]
        BY <3>4, <3>8 DEF LoadDec
      <4> QED
        BY <3>1, <3>2, <3>3, <4>1 DEF RouterCounts
    <3>9. CASE r = q /\ Release(q)
      <4>1. rpc'[r] = "walk"
        BY <3>4, <3>9 DEF Release
      <4> QED
        BY <3>1, <3>3, <4>1 DEF RouterCounts
    <3> QED
      BY <1>8, <3>5, <3>6, <3>7, <3>8, <3>9
  <2> QED
    BY <2>1, <2>2 DEF CounterInv
<1>9. ASSUME NEW q \in Routers, StoreDec(q) \/ ZeroCnt(q) PROVE CounterInv'
  <2>1. \A r \in Rows, s \in TimeSlots :
          /\ pktRepoCnt'[r][s] \in Nat
          /\ pktRepoCnt'[r][s] <= pktRepoCnt[r][s]
          /\ (r # q \/ s # lastTIndex[q]) => pktRepoCnt'[r][s] = pktRepoCnt[r][s]
    <3>0. pktRepoCnt \in [Rows -> [TimeSlots -> Nat]] /\ lastTIndex[q] \in TimeSlots
      BY DEF TypeOK
    <3>1. CASE StoreDec(q)
      <4>1. cntDec[q] \in Nat /\ recCnt[q] \in Nat /\ recIdx[q] \in Nat
        BY DEF TypeOK
      <4>2. /\ recIdx[q] < recCnt[q] /\ recCnt[q] - recIdx[q] <= cntDec[q]
            /\ cntDec[q] <= pktRepoCnt[q][lastTIndex[q]]
        BY <3>1 DEF StoreDec, CounterInv, RouterCounts
      <4>3. cntDec[q] - 1 \in Nat /\ cntDec[q] # 0
        BY <4>1, <4>2
      <4>4. pktRepoCnt' = [pktRepoCnt EXCEPT ![q][lastTIndex[q]] = cntDec[q] - 1]
        BY <3>1, <4>3 DEF StoreDec
      <4> QED
        BY <3>0, <4>1, <4>2, <4>3, <4>4
    <3>2. CASE ZeroCnt(q)
      <4>1. pktRepoCnt' = [pktRepoCnt EXCEPT ![q][lastTIndex[q]] = 0]
        BY <3>2 DEF ZeroCnt
      <4> QED
        BY <3>0, <4>1
    <3> QED
      BY <1>9, <3>1, <3>2
  <2>2. \A r \in Rows, s \in TimeSlots :
          pktRepoCnt'[r][s] <= MAX_PKT /\ pktRepoCnt'[r][s] <= MAX_LEN
    <3>1. \A r \in Rows, s \in TimeSlots :
            /\ pktRepoCnt[r][s] \in Nat
            /\ pktRepoCnt[r][s] <= MAX_PKT /\ pktRepoCnt[r][s] <= MAX_LEN
      BY DEF CounterInv, TypeOK
    <3> QED
      BY <2>1, <3>1
  <2>3. ListenerCounts'
    <3>1. UNCHANGED <<lpc, tIdx, routerToProcess, cntLoad, stored>> /\ Row' = Row /\ Slot' = Slot
      BY <1>9 DEF StoreDec, ZeroCnt, Row, Slot
    <3>2. /\ pktRepoCnt'[Row][Slot] <= pktRepoCnt[Row][Slot]
          /\ pktRepoCnt'[Row][Slot] \in Nat
          /\ pktRepoCnt[Row][Slot] \in Nat /\ cntLoad \in Nat
      BY <2>1, InArrays DEF TypeOK
    <3> QED
      BY <3>1, <3>2 DEF CounterInv, ListenerCounts
  <2>4. ASSUME NEW r \in Routers PROVE RouterCounts(r)'
    <3>1. RouterCounts(r)
      BY DEF CounterInv
    <3>2. CASE r # q
      <4>1. /\ rpc'[r] = rpc[r] /\ lastTIndex'[r] = lastTIndex[r] /\ recCnt'[r] = recCnt[r]
            /\ recIdx'[r] = recIdx[r] /\ cntDec'[r] = cntDec[r]
        BY <1>9, <3>2 DEF StoreDec, ZeroCnt, TypeOK
      <4>2. pktRepoCnt'[r][lastTIndex[r]] = pktRepoCnt[r][lastTIndex[r]]
        BY <2>1, <3>2 DEF TypeOK
      <4> QED
        BY <3>1, <4>1, <4>2 DEF RouterCounts
    <3>3. CASE r = q /\ ZeroCnt(q)
      BY <3>1, <3>3 DEF ZeroCnt, RouterCounts, TypeOK
    <3>4. CASE r = q /\ StoreDec(q)
      <4>1. /\ recCnt[q] \in Nat /\ recIdx[q] \in Nat /\ cntDec[q] \in Nat
            /\ recIdx[q] < recCnt[q] /\ recCnt[q] <= MAX_PKT /\ recCnt[q] <= MAX_LEN
            /\ recCnt[q] - recIdx[q] <= cntDec[q]
        BY <3>1, <3>4 DEF StoreDec, RouterCounts, TypeOK
      <4>2. pktRepoCnt'[q][lastTIndex[q]] = cntDec[q] - 1
        BY <3>4, <4>1 DEF StoreDec, TypeOK
      <4>3. /\ lastTIndex'[q] = lastTIndex[q] /\ recCnt'[q] = recCnt[q]
            /\ recIdx'[q] = recIdx[q] + 1
            /\ rpc'[q] = IF recIdx[q] + 1 < recCnt[q] THEN "decode" ELSE "zero"
        BY <3>4 DEF StoreDec, TypeOK
      <4> QED
        BY <3>4, <4>1, <4>2, <4>3 DEF RouterCounts
    <3> QED
      BY <1>9, <3>2, <3>3, <3>4
  <2> QED
    BY <2>2, <2>3, <2>4 DEF CounterInv
<1> QED
  BY <1>1, <1>2, <1>3, <1>4, <1>5, <1>6, <1>7, <1>8, <1>9 DEF Next, ListenerStep, RouterStep

-----------------------------------------------------------------------------
\* Every reachable state has the types, and the counters cover what they must,
\* for every number of routers, cap, ring size and scheduling.
THEOREM CountersInvariant == Spec => [](TypeOK /\ CounterInv)
<1>1. Init => TypeOK /\ CounterInv
  BY InitCounters
<1>2. (TypeOK /\ CounterInv) /\ [Next]_vars => (TypeOK /\ CounterInv)'
  BY StepTypes, StepCounters
<1> QED
  BY <1>1, <1>2, PTL DEF Spec

\* The packet ring's variables keep their types: in particular no router
\* decodes a record that was never allocated.
THEOREM TypeCorrect == Spec => []TypeOK
<1>1. TypeOK /\ CounterInv => TypeOK
  OBVIOUS
<1> QED
  BY <1>1, CountersInvariant, PTL

\* Under any scheduling of the threads, the racing ++ of the listener and --
\* of a router never take a counter below zero or above the cap.
THEOREM CounterSoundCorrect == Spec => []CounterSound
<1>1. TypeOK /\ CounterInv => CounterSound
  <2> SUFFICES ASSUME TypeOK, CounterInv, NEW r \in Routers
               PROVE  /\ rpc[r] = "store" => cntDec[r] > 0
                      /\ \A s \in TimeSlots : pktRepoCnt[r][s] <= MAX_PKT
    BY DEF CounterSound
  <2>1. recIdx[r] \in Nat /\ recCnt[r] \in Nat /\ cntDec[r] \in Nat
    BY DEF TypeOK
  <2> QED
    BY <2>1, RoutersInRows DEF CounterInv, RouterCounts
<1> QED
  BY <1>1, CountersInvariant, PTL

\* Read once, the clock leads the listener to rows of its own routers only.
LEMMA OnceInRow ==
  ASSUME ~REREADS
  PROVE  Spec => [](tIdx \in TimeSlots)
<1>1. Init => tIdx \in TimeSlots
  BY TimeIndexAssumption DEF Init, TimeSlots
<1>2. TypeOK /\ tIdx \in TimeSlots /\ [Next]_vars => (tIdx \in TimeSlots)'
  <2> SUFFICES ASSUME TypeOK, tIdx \in TimeSlots, [Next]_vars PROVE tIdx' \in TimeSlots
    OBVIOUS
  <2>1. CASE KeepIp \/ LeaveOther
    BY <2>1, EntersSlot DEF KeepIp, LeaveOther
  <2>2. CASE UNCHANGED tIdx
    BY <2>2
  <2> QED
    BY <2>1, <2>2
       DEF Next, ListenerStep, RouterStep, Tick, SetPacketProcessing, Receive, CheckBusy,
           CheckRoom, Fill, LoadCnt, StoreCnt, Poll, TakeSlot, MarkBusy, Decode, LoadDec,
           StoreDec, ZeroCnt, Release, vars, listenerVars
<1> QED
  BY <1>1, <1>2, TypeCorrect, PTL DEF Spec

\* Under any scheduling of the threads, the listener and the routers touch
\* only records that initializePktRepo allocated, if the build reads the clock
\* once and PPS_CAP_PERCENTAGE is at most 100.
THEOREM WithinAllocationCorrect ==
  ASSUME ~REREADS, CAP <= PERCENT PROVE Spec => []WithinAllocation
<1>1. TypeOK /\ CounterInv /\ tIdx \in TimeSlots => WithinAllocation
  <2> SUFFICES ASSUME TypeOK, CounterInv, tIdx \in TimeSlots PROVE WithinAllocation
    OBVIOUS
  <2>1. Row \in Routers
    BY TimeIndexAssumption DEF Row, RowOf, TimeSlots, TypeOK
  <2>2. pktRepoCnt[Row][Slot] \in Nat
    BY InArrays DEF TypeOK
  <2>3. lpc = "fill" => pktRepoCnt[Row][Slot] < MAX_LEN
    BY <2>2, SlotLimits, CapWithinAllocation DEF CounterInv, ListenerCounts
  <2>4. ASSUME NEW r \in Routers, rpc[r] = "decode" PROVE recIdx[r] < MAX_LEN
    <3>1. RouterCounts(r) /\ recIdx[r] \in Nat /\ recCnt[r] \in Nat
      BY DEF CounterInv, TypeOK
    <3> QED
      BY <2>4, <3>1, SlotLimits DEF RouterCounts
  <2> QED
    BY <2>1, <2>3, <2>4 DEF WithinAllocation
<1> QED
  BY <1>1, CountersInvariant, OnceInRow, PTL

-----------------------------------------------------------------------------
(* The seconds behind the indices, under Timely.                            *)

\* While a packet is in the listener's hands, its column is that of a second
\* not far from the clock's.
ListenerTimed ==
  lpc # "idle" =>
    /\ lReadSec <= epochSec /\ epochSec <= lReadSec + LISTENER_LAG
    /\ lReadSec <= lClock + NIC_BEHIND /\ lClock <= epochSec + NIC_AHEAD
    /\ lpc # "index" => Slot = WriteTimeIndex(lClock)

\* A router's indices are those of the seconds lastSec and readSec, it never
\* overtakes the clock, and it drains only slots of earlier seconds.
RouterTimed(r) ==
  /\ lastTIndex[r] = ReadTimeIndex(lastSec[r])
  /\ currTIndex[r] = ReadTimeIndex(readSec[r])
  /\ lastSec[r] <= readSec[r] /\ readSec[r] <= lastSec[r] + ROUTER_LAG
  /\ readSec[r] <= epochSec /\ epochSec <= readSec[r] + ROUTER_LAG
  /\ rpc[r] # "walk" => lastSec[r] < readSec[r]

ClockInv == ListenerTimed /\ \A r \in Routers : RouterTimed(r)

LEMMA InitClock == Init => ClockInv
<1> SUFFICES ASSUME Init PROVE ClockInv
  OBVIOUS
<1>1. epochSec \in Nat
  BY PacketRingAssumption, TimeIndexAssumption DEF Init
<1> QED
  BY <1>1, PacketRingAssumption DEF Init, ClockInv, ListenerTimed, RouterTimed

\* Less than a lap behind the clock it last read, a router compares indices
\* and decides as if it had compared seconds.
LEMMA IndexTellsSecond ==
  ASSUME Timely, TypeOK, NEW r \in Routers, RouterTimed(r)
  PROVE  (lastTIndex[r] = currTIndex[r]) <=> (lastSec[r] = readSec[r])
<1>1. lastSec[r] \in Nat /\ readSec[r] \in Nat
  BY PacketRingAssumption DEF TypeOK, Seconds
<1>2. readSec[r] < lastSec[r] + TIME_INDEX
  BY <1>1, PacketRingAssumption, TimeIndexAssumption DEF Timely, RouterTimed
<1>3. CASE lastSec[r] < readSec[r]
  BY <1>1, <1>2, <1>3, SlotsApart DEF RouterTimed
<1>4. CASE lastSec[r] = readSec[r]
  BY <1>4 DEF RouterTimed
<1> QED
  BY <1>1, <1>3, <1>4 DEF RouterTimed

LEMMA StepClock ==
  ASSUME Timely, TypeOK, ClockInv, [Next]_vars
  PROVE  ClockInv'
<1> USE DEF vars, clockVars, repoVars, listenerVars, routerVars, historyVars, Slot
<1>0. /\ epochSec \in Nat /\ lReadSec \in Nat /\ lClock \in Nat
      /\ \A r \in Routers : readSec[r] \in Nat /\ lastSec[r] \in Nat
      /\ lastSec \in [Routers -> Nat] /\ readSec \in [Routers -> Seconds]
      /\ rpc \in [Routers -> {"walk", "mark", "decode", "load", "store", "zero", "release"}]
      /\ lastTIndex \in [Routers -> TimeSlots] /\ currTIndex \in [Routers -> TimeSlots]
  BY PacketRingAssumption DEF TypeOK, Seconds, Stamps
<1>1. CASE Tick
  <2>1. ListenerTimed'
    BY <1>0, <1>1, PacketRingAssumption DEF Tick, ClockInv, ListenerTimed
  <2>2. ASSUME NEW r \in Routers PROVE RouterTimed(r)'
    BY <1>0, <1>1, PacketRingAssumption DEF Tick, ClockInv, RouterTimed
  <2> QED
    BY <2>1, <2>2 DEF ClockInv
<1>2. CASE SetPacketProcessing \/ UNCHANGED vars
  BY <1>2 DEF SetPacketProcessing, ClockInv, ListenerTimed, RouterTimed
<1>3. CASE Receive
  <2>0. lClock' \in ListenerClocks
    BY <1>3 DEF Receive
  <2>1. /\ lClock' \in Int /\ lReadSec' = epochSec /\ epochSec' = epochSec /\ lpc' = "index"
        /\ epochSec <= lClock' + NIC_BEHIND /\ lClock' <= epochSec + NIC_AHEAD
    BY <1>0, <1>3, <2>0, PacketRingAssumption DEF Receive, ListenerClocks
  <2>2. ListenerTimed'
    <3>0. LISTENER_LAG \in Nat /\ epochSec <= epochSec + LISTENER_LAG
      BY <1>0, PacketRingAssumption
    <3>1. lpc' # "idle" => /\ lReadSec' <= epochSec' /\ epochSec' <= lReadSec' + LISTENER_LAG
                           /\ lReadSec' <= lClock' + NIC_BEHIND /\ lClock' <= epochSec' + NIC_AHEAD
      BY <1>0, <2>1, <3>0
    <3> QED
      BY <2>1, <3>1 DEF ListenerTimed
  <2> QED
    BY <1>3, <2>2 DEF Receive, ClockInv, RouterTimed
<1>4. CASE KeepIp \/ LeaveOther
  <2>1. EnterTimeIndex /\ lpc = "index" /\ UNCHANGED <<epochSec, lReadSec, routerVars>>
    BY <1>4 DEF KeepIp, LeaveOther
  <2>2. Slot' = WriteTimeIndex(lClock')
    BY <2>1, EntersSlot DEF Slot
  <2>3. lClock' = lClock \/ (REREADS /\ lClock' = epochSec)
    BY <2>1 DEF EnterTimeIndex, LastRead
  <2>4. ListenerTimed'
    BY <1>0, <2>1, <2>2, <2>3, PacketRingAssumption DEF ClockInv, ListenerTimed
  <2> QED
    BY <2>1, <2>4 DEF ClockInv, RouterTimed
<1>5. CASE CheckBusy \/ CheckRoom \/ Fill \/ LoadCnt \/ StoreCnt
  <2>1. /\ UNCHANGED <<epochSec, lReadSec, lClock, routerVars, tIdx>>
        /\ lpc \notin {"idle", "index"}
        /\ lpc' # "index"
    BY <1>5 DEF CheckBusy, CheckRoom, Fill, LoadCnt, StoreCnt
  <2> QED
    BY <2>1 DEF ClockInv, ListenerTimed, RouterTimed, Slot
<1>6. ASSUME NEW q \in Routers, Poll(q) PROVE ClockInv'
  <2>1. lastSec[q] = readSec[q]
    BY <1>6, IndexTellsSecond DEF Poll, SlotsBehind, ClockInv
  <2>2. RouterTimed(q)'
    <3>1. /\ lastTIndex'[q] = lastTIndex[q] /\ lastSec'[q] = lastSec[q] /\ rpc'[q] = "walk"
          /\ currTIndex'[q] = ReadTimeIndex(epochSec) /\ readSec'[q] = epochSec
          /\ epochSec' = epochSec
      BY <1>0, <1>6 DEF Poll
    <3> QED
      BY <1>0, <2>1, <3>1, PacketRingAssumption DEF ClockInv, RouterTimed
  <2>3. ASSUME NEW r \in Routers, r # q PROVE RouterTimed(r)'
    BY <1>6, <2>3 DEF Poll, ClockInv, RouterTimed
  <2> QED
    BY <1>6, <2>2, <2>3 DEF Poll, ClockInv, ListenerTimed
<1>7. ASSUME NEW q \in Routers, TakeSlot(q) PROVE ClockInv'
  <2>1. lastSec[q] < readSec[q]
    BY <1>0, <1>7, IndexTellsSecond DEF TakeSlot, SlotsBehind, ClockInv, RouterTimed
  <2> QED
    BY <1>7, <2>1 DEF TakeSlot, ClockInv, ListenerTimed, RouterTimed
<1>8. ASSUME NEW q \in Routers,
             MarkBusy(q) \/ Decode(q) \/ LoadDec(q) \/ StoreDec(q) \/ ZeroCnt(q)
      PROVE  ClockInv'
  <2>1. UNCHANGED <<epochSec, listenerVars, lastTIndex, currTIndex, readSec, lastSec>>
    BY <1>8 DEF MarkBusy, Decode, LoadDec, StoreDec, ZeroCnt
  <2>2. \A r \in Routers : rpc'[r] # "walk" => rpc[r] # "walk"
    BY <1>0, <1>8 DEF MarkBusy, Decode, LoadDec, StoreDec, ZeroCnt
  <2> QED
    BY <2>1, <2>2 DEF ClockInv, ListenerTimed, RouterTimed
<1>9. ASSUME NEW q \in Routers, Release(q) PROVE ClockInv'
  <2>1. RouterTimed(q)'
    <3>1. /\ lastTIndex'[q] = ReadNextTimeIndex(lastTIndex[q]) /\ lastSec'[q] = lastSec[q] + 1
          /\ rpc'[q] = "walk" /\ rpc[q] = "release"
          /\ UNCHANGED <<currTIndex, readSec, epochSec>>
      BY <1>0, <1>9 DEF Release
    <3>2. lastTIndex'[q] = ReadTimeIndex(lastSec'[q])
      BY <1>0, <3>1, NextFollowsClock DEF ClockInv, RouterTimed
    <3> QED
      BY <1>0, <3>1, <3>2, PacketRingAssumption DEF ClockInv, RouterTimed
  <2>2. ASSUME NEW r \in Routers, r # q PROVE RouterTimed(r)'
    BY <1>9, <2>2 DEF Release, ClockInv, RouterTimed
  <2> QED
    BY <1>9, <2>1, <2>2 DEF Release, ClockInv, ListenerTimed
<1> QED
  BY <1>1, <1>2, <1>3, <1>4, <1>5, <1>6, <1>7, <1>8, <1>9 DEF Next, ListenerStep, RouterStep

\* The listener's slot is that of a second the clock has not reached, a
\* router's of one it has left, and less than a lap lies between them.
LEMMA TimedSlotsApart ==
  ASSUME Timely, TypeOK, ClockInv
  PROVE  NoOverlap
<1> SUFFICES ASSUME NEW r \in Routers, NEW s \in TimeSlots, Writing(r, s), Draining(r, s)
             PROVE  FALSE
  BY DEF NoOverlap
<1>1. /\ epochSec \in Nat /\ lReadSec \in Nat /\ lClock \in Nat
      /\ readSec[r] \in Nat /\ lastSec[r] \in Nat
  BY PacketRingAssumption DEF TypeOK, Seconds, Stamps
<1>2. /\ lReadSec <= epochSec /\ epochSec <= lReadSec + LISTENER_LAG
      /\ lReadSec <= lClock + NIC_BEHIND /\ lClock <= epochSec + NIC_AHEAD
      /\ s = WriteTimeIndex(lClock)
  BY DEF Writing, ClockInv, ListenerTimed
<1>3. /\ lastSec[r] < readSec[r] /\ readSec[r] <= lastSec[r] + ROUTER_LAG
      /\ readSec[r] <= epochSec /\ epochSec <= readSec[r] + ROUTER_LAG
      /\ s = ReadTimeIndex(lastSec[r])
  BY DEF Draining, ClockInv, RouterTimed
<1>4. lastSec[r] < lClock + 1 /\ lClock + 1 < lastSec[r] + TIME_INDEX
  BY <1>1, <1>2, <1>3, PacketRingAssumption, TimeIndexAssumption DEF Timely
<1>5. ReadTimeIndex(lastSec[r]) # ReadTimeIndex(lClock + 1)
  BY <1>1, <1>4, SlotsApart
<1>6. WriteTimeIndex(lClock) = ReadTimeIndex(lClock + 1)
  BY <1>1, WriteIsReadNext
<1> QED
  BY <1>2, <1>3, <1>5, <1>6

\* While the threads are scheduled within Timely, the listener and a router
\* never work on the same slot at once, whatever the number of routers and
\* the length of the ring: no lock is needed.
THEOREM NoOverlapCorrect ==
  ASSUME Timely PROVE Spec => []NoOverlap
<1>1. Init => ClockInv
  BY InitClock
<1>2. TypeOK /\ ClockInv /\ [Next]_vars => ClockInv'
  BY StepClock
<1>3. TypeOK /\ ClockInv => NoOverlap
  BY TimedSlotsApart
<1> QED
  BY <1>1, <1>2, <1>3, TypeCorrect, PTL DEF Spec

-----------------------------------------------------------------------------
(* The records, under Timely.                                               *)

\* The seconds whose slots router r has yet to leave: a lap of them.
Ahead(r) == lastSec[r] .. lastSec[r] + TIME_INDEX - 1

\* The first record of the slot being drained that is not decoded yet.
FirstLeft(r) == IF rpc[r] \in {"load", "store"} THEN recIdx[r] + 1 ELSE recIdx[r]

\* The records stored for a router and not decoded.
Held(r, sec, k) ==
  IF sec = lastSec[r] /\ rpc[r] # "walk"
  THEN FirstLeft(r) <= k /\ k < recCnt[r]
  ELSE k < pktRepoCnt[r][ReadTimeIndex(sec)]

Cells(r) == {c \in Cell : c[1] \in Ahead(r) /\ Held(r, c[1], c[2])}

Contents(r) == [c \in Cell |-> pktRepository[r][ReadTimeIndex(c[1])][c[2]]]

\* The stamp of a packet is the second of its slot, less the gap of one, or as
\* much later as a stamp may be late.
Stamped(sec, stamp) == sec <= stamp + 1 /\ stamp + 1 <= sec + StampLag

\* The listener: it fills slots up to that of its last second, and what it
\* fills is the record past the counter until it stores the counter.
ListenerPlaces ==
  /\ lClock <= epochSec + NIC_AHEAD
  /\ \A r \in Routers : \A sec \in Ahead(r) :
       pktRepoCnt[r][ReadTimeIndex(sec)] > 0 => sec <= lClock + 1
  /\ lpc \in {"room", "fill", "load", "store"} => Stamped(lClock + 1, tvSec)
  /\ lpc \in {"load", "store"} =>
       pktRepository[Row][Slot][pktRepoCnt[Row][Slot]] = NewPkt
  /\ lpc = "store" => cntLoad = pktRepoCnt[Row][Slot]

\* A router: nothing is added to the slot after it was counted, and nothing is
\* left of it when the counter is reset.
RouterPlaces(r) ==
  /\ rpc[r] = "mark" => recCnt[r] = pktRepoCnt[r][lastTIndex[r]]
  /\ rpc[r] = "zero" => recIdx[r] = recCnt[r]
  /\ rpc[r] = "release" => recIdx[r] = recCnt[r] /\ pktRepoCnt[r][lastTIndex[r]] = 0

\* What a router has yet to decode is what was stored for it and is left, in
\* the order of the seconds and of the records in a slot.
QueueInv(r) ==
  /\ HoldsQueue(RawPkt, Cells(r), Contents(r), stored[r], decoded[r])
  /\ \A c \in Cells(r) : Stamped(c[1], Contents(r)[c].tv_sec)

RecordInv ==
  /\ ListenerPlaces
  /\ \A r \in Routers : RouterPlaces(r)
  /\ \A r \in Routers : QueueInv(r)

-----------------------------------------------------------------------------
\* What the proofs below need of the types.
LEMMA Naturals ==
  ASSUME TypeOK
  PROVE  /\ epochSec \in Nat /\ lClock \in Nat /\ lReadSec \in Nat /\ tvSec \in Nat
         /\ \A r \in Routers : lastSec[r] \in Nat /\ readSec[r] \in Nat
         /\ \A r \in Routers, s \in TimeSlots : pktRepoCnt[r][s] \in Nat
         /\ \A r \in Routers : Ahead(r) \subseteq Nat
<1>1. Seconds \subseteq Nat /\ Stamps \subseteq Nat
  BY ClockSlots DEF Seconds
<1>2. /\ epochSec \in Nat /\ lClock \in Nat /\ lReadSec \in Nat /\ tvSec \in Nat
      /\ \A r \in Routers : lastSec[r] \in Nat /\ readSec[r] \in Nat
  BY <1>1, ClockSlots DEF TypeOK
<1>3. \A r \in Routers, s \in TimeSlots : pktRepoCnt[r][s] \in Nat
  BY RoutersInRows DEF TypeOK
<1>4. \A r \in Routers : Ahead(r) \subseteq Nat
  BY <1>2, TimeIndexAssumption DEF Ahead
<1> QED
  BY <1>2, <1>3, <1>4

\* A router's lap visits each slot once.
LEMMA OneSecondPerSlot ==
  ASSUME TypeOK, NEW r \in Routers, NEW a \in Ahead(r), NEW b \in Ahead(r),
         ReadTimeIndex(a) = ReadTimeIndex(b)
  PROVE  a = b
<1>1. /\ a \in Nat /\ b \in Nat
      /\ a < b + TIME_INDEX /\ b < a + TIME_INDEX
  BY Naturals, TimeIndexAssumption DEF Ahead
<1> QED
  BY <1>1, SlotsApart

\* The listener works on the slot of the second after its own, which every
\* router has yet to reach: it lies in the router's lap, and is not drained.
LEMMA ListenerAhead ==
  ASSUME Timely, TypeOK, ClockInv, lpc \notin {"idle", "index"}, NEW r \in Routers
  PROVE  /\ Slot = ReadTimeIndex(lClock + 1)
         /\ lClock + 1 \in Ahead(r) /\ readSec[r] <= lClock + 1
         /\ rpc[r] # "walk" => lastSec[r] < lClock + 1
<1>1. /\ epochSec \in Nat /\ lReadSec \in Nat /\ lClock \in Nat
      /\ readSec[r] \in Nat /\ lastSec[r] \in Nat
  BY Naturals
<1>2. /\ lReadSec <= epochSec /\ epochSec <= lReadSec + LISTENER_LAG
      /\ lReadSec <= lClock + NIC_BEHIND /\ lClock <= epochSec + NIC_AHEAD
      /\ Slot = WriteTimeIndex(lClock)
  BY DEF ClockInv, ListenerTimed
<1>3. /\ lastSec[r] <= readSec[r] /\ readSec[r] <= lastSec[r] + ROUTER_LAG
      /\ readSec[r] <= epochSec /\ epochSec <= readSec[r] + ROUTER_LAG
      /\ rpc[r] # "walk" => lastSec[r] < readSec[r]
  BY DEF ClockInv, RouterTimed
<1>4. WriteTimeIndex(lClock) = ReadTimeIndex(lClock + 1)
  BY <1>1, WriteIsReadNext
<1>5. epochSec <= lClock + 1 /\ lClock + 1 < lastSec[r] + TIME_INDEX
  BY <1>1, <1>2, <1>3, PacketRingAssumption, TimeIndexAssumption DEF Timely
<1> QED
  BY <1>1, <1>2, <1>3, <1>4, <1>5, TimeIndexAssumption DEF Ahead

\* The slot a router drains is that of the first second of its lap.
LEMMA DrainsFirst ==
  ASSUME TypeOK, ClockInv, NEW r \in Routers
  PROVE  /\ lastSec[r] \in Ahead(r) /\ lastTIndex[r] = ReadTimeIndex(lastSec[r])
         /\ \A sec \in Ahead(r) : ReadTimeIndex(sec) = lastTIndex[r] => sec = lastSec[r]
         /\ \A sec \in Ahead(r) : lastSec[r] <= sec /\ ReadTimeIndex(sec) \in TimeSlots
<1>1. lastSec[r] \in Ahead(r) /\ lastTIndex[r] = ReadTimeIndex(lastSec[r])
  BY Naturals, TimeIndexAssumption DEF Ahead, ClockInv, RouterTimed
<1>2. \A sec \in Ahead(r) : ReadTimeIndex(sec) = lastTIndex[r] => sec = lastSec[r]
  BY <1>1, OneSecondPerSlot
<1>3. \A sec \in Ahead(r) : lastSec[r] <= sec /\ ReadTimeIndex(sec) \in TimeSlots
  BY Naturals, ReadInRange DEF Ahead
<1> QED
  BY <1>1, <1>2, <1>3

\* A step that leaves a router's cells and what they hold leaves its queue.
LEMMA QueueStays ==
  ASSUME NEW r \in Routers, QueueInv(r), Cells(r)' = Cells(r),
         \A c \in Cells(r) : Contents(r)'[c] = Contents(r)[c],
         stored'[r] = stored[r], decoded'[r] = decoded[r]
  PROVE  QueueInv(r)'
<1> DEFINE cells == Cells(r)
           old == Contents(r)
           new == Contents(r)'
<1>1. HoldsQueue(RawPkt, cells, old, stored[r], decoded[r]) /\ \A c \in cells : new[c] = old[c]
  BY DEF QueueInv
<1>2. HoldsQueue(RawPkt, cells, new, stored[r], decoded[r])
  <2> HIDE DEF cells, old, new
  <2> QED
    BY <1>1, SameQueue
<1>3. \A c \in cells : Stamped(c[1], new[c].tv_sec)
  BY <1>1 DEF QueueInv
<1> QED
  BY <1>2, <1>3 DEF QueueInv, Stamped

\* Cells depend on the router's indices and counters only.
LEMMA CellsStay ==
  ASSUME NEW r \in Routers, TypeOK, ClockInv,
         rpc'[r] = rpc[r], lastSec'[r] = lastSec[r], recIdx'[r] = recIdx[r],
         recCnt'[r] = recCnt[r],
         \A s \in TimeSlots : pktRepoCnt'[r][s] = pktRepoCnt[r][s]
  PROVE  Cells(r)' = Cells(r)
<1>1. Ahead(r)' = Ahead(r)
  BY DEF Ahead
<1>2. ASSUME NEW sec \in Ahead(r), NEW k \in Nat PROVE Held(r, sec, k)' <=> Held(r, sec, k)
  BY DrainsFirst DEF Held, FirstLeft
<1> QED
  BY <1>1, <1>2 DEF Cells, Cell

\* Every cell is a record that was allocated.
LEMMA CellsAllocated ==
  ASSUME TypeOK, CounterInv, ClockInv, NEW r \in Routers, NEW c \in Cells(r)
  PROVE  /\ c[1] \in Ahead(r) /\ c[1] \in Nat /\ c[2] \in 0 .. MAX_LEN - 1
         /\ ReadTimeIndex(c[1]) \in TimeSlots /\ Held(r, c[1], c[2])
         /\ c = <<c[1], c[2]>> /\ c \in Cell
<1>1. c \in Cell /\ c[1] \in Ahead(r) /\ Held(r, c[1], c[2])
  BY DEF Cells
<1>2. c[1] \in Nat /\ c[2] \in Nat /\ c = <<c[1], c[2]>>
  BY <1>1 DEF Cell
<1>3. ReadTimeIndex(c[1]) \in TimeSlots
  BY <1>1, DrainsFirst
<1>4. c[2] < MAX_LEN
  <2>1. /\ pktRepoCnt[r][ReadTimeIndex(c[1])] <= MAX_LEN
        /\ pktRepoCnt[r][ReadTimeIndex(c[1])] \in Nat /\ recCnt[r] \in Nat
        /\ recCnt[r] <= MAX_LEN
    BY <1>3, RoutersInRows, Naturals DEF CounterInv, RouterCounts, TypeOK
  <2> QED
    BY <1>1, <1>2, <2>1, SlotLimits DEF Held
<1> QED
  BY <1>1, <1>2, <1>3, <1>4, SlotLimits

\* The cell the listener works on comes after all that its router holds.
LEMMA ListenerLast ==
  ASSUME Timely, TypeOK, CounterInv, ClockInv, ListenerPlaces,
         lpc \notin {"idle", "index"}, Row \in Routers, NEW c \in Cells(Row)
  PROVE  Before(c, <<lClock + 1, pktRepoCnt[Row][Slot]>>)
<1>1. /\ Slot = ReadTimeIndex(lClock + 1) /\ lClock + 1 \in Ahead(Row)
      /\ rpc[Row] # "walk" => lastSec[Row] < lClock + 1
  BY ListenerAhead
<1>2. /\ c[1] \in Ahead(Row) /\ c[1] \in Nat /\ c[2] \in Nat /\ Held(Row, c[1], c[2])
      /\ ReadTimeIndex(c[1]) \in TimeSlots
  BY CellsAllocated
<1>3. lastSec[Row] \in Nat /\ lClock \in Nat /\ pktRepoCnt[Row][ReadTimeIndex(c[1])] \in Nat
  BY <1>2, Naturals
<1>4. CASE c[1] = lClock + 1
  BY <1>1, <1>2, <1>3, <1>4 DEF Held, Before
<1>5. CASE c[1] # lClock + 1
  <2>1. CASE c[1] = lastSec[Row] /\ rpc[Row] # "walk"
    BY <1>1, <1>3, <2>1 DEF Before
  <2>2. CASE ~(c[1] = lastSec[Row] /\ rpc[Row] # "walk")
    <3>1. pktRepoCnt[Row][ReadTimeIndex(c[1])] > 0
      BY <1>2, <1>3, <2>2 DEF Held
    <3>2. c[1] <= lClock + 1
      BY <1>2, <3>1 DEF ListenerPlaces
    <3> QED
      BY <1>2, <1>3, <1>5, <3>2 DEF Before
  <2> QED
    BY <2>1, <2>2
<1> QED
  BY <1>4, <1>5

LEMMA InitRecords == Init => RecordInv
<1> SUFFICES ASSUME Init PROVE RecordInv
  OBVIOUS
<1>1. TypeOK
  BY InitCounters
<1>2. /\ lpc = "idle" /\ lClock <= epochSec + NIC_AHEAD
      /\ \A r \in Routers : rpc[r] = "walk" /\ stored[r] = <<>> /\ decoded[r] = <<>>
      /\ \A r \in Routers, s \in TimeSlots : pktRepoCnt[r][s] = 0
  BY <1>1, Naturals, RoutersInRows, PacketRingAssumption DEF Init
<1>3. \A r \in Routers : \A sec \in Ahead(r) : pktRepoCnt[r][ReadTimeIndex(sec)] = 0
  BY <1>1, <1>2, Naturals, ReadInRange
<1> HIDE DEF Init
<1>4. ListenerPlaces
  BY <1>2, <1>3 DEF ListenerPlaces
<1>5. ASSUME NEW r \in Routers PROVE RouterPlaces(r)
  BY <1>2 DEF RouterPlaces
<1>6. ASSUME NEW r \in Routers PROVE QueueInv(r)
  <2>1. ASSUME NEW c \in Cells(r) PROVE FALSE
    <3>1. c[1] \in Ahead(r) /\ c[2] \in Nat /\ Held(r, c[1], c[2])
      BY DEF Cells, Cell
    <3> QED
      BY <1>2, <1>3, <3>1 DEF Held
  <2>2. Cells(r) = {}
    BY <2>1
  <2>3. /\ Len(stored[r]) = 0 /\ Len(decoded[r]) = 0
        /\ stored[r] \in Seq(RawPkt) /\ decoded[r] \in Seq(RawPkt)
    BY <1>1, <1>2 DEF TypeOK
  <2> QED
    BY <2>2, <2>3 DEF QueueInv, HoldsQueue
<1> QED
  BY <1>4, <1>5, <1>6 DEF RecordInv

\* The clock, and the switch of processing.
LEMMA OthersKeepRecords ==
  ASSUME TypeOK, ClockInv, RecordInv, Tick \/ SetPacketProcessing \/ UNCHANGED vars
  PROVE  RecordInv'
<1> USE DEF vars, clockVars, repoVars, listenerVars, routerVars, historyVars
<1>1. /\ UNCHANGED <<repoVars, listenerVars, routerVars, historyVars>>
      /\ epochSec' >= epochSec /\ epochSec' \in Int
  BY Naturals DEF Tick, SetPacketProcessing
<1>2. ListenerPlaces'
  BY <1>1, Naturals, PacketRingAssumption
     DEF RecordInv, ListenerPlaces, Ahead, Stamped, NewPkt, Row, Slot
<1>3. ASSUME NEW r \in Routers PROVE RouterPlaces(r)' /\ QueueInv(r)'
  <2>1. Cells(r)' = Cells(r) /\ Contents(r)' = Contents(r)
    BY <1>1 DEF Cells, Contents, Ahead, Held, FirstLeft
  <2> QED
    BY <1>1, <2>1 DEF RecordInv, RouterPlaces, QueueInv, Stamped
<1> QED
  BY <1>2, <1>3 DEF RecordInv

-----------------------------------------------------------------------------
(* The listener's steps.                                                    *)

\* Up to Fill a callback moves the listener only.
LEMMA CallbackKeepsRecords ==
  ASSUME Timely, TypeOK, ClockInv, RecordInv,
         Receive \/ KeepIp \/ LeaveOther \/ CheckBusy \/ CheckRoom
  PROVE  RecordInv'
<1> USE DEF vars, clockVars, repoVars, listenerVars, routerVars, historyVars
<1>1. /\ UNCHANGED <<epochSec, repoVars, routerVars, historyVars>>
      /\ lpc' \notin {"load", "store"}
  BY DEF Receive, KeepIp, LeaveOther, CheckBusy, CheckRoom
<1>2. /\ epochSec \in Nat /\ lClock \in Nat /\ lReadSec \in Nat /\ tvSec \in Nat
      /\ lClock <= epochSec + NIC_AHEAD
      /\ REREADS => NIC_AHEAD = 0 /\ ~SOLARFLARE
      /\ ~HW_TIMESTAMP => NIC_BEHIND = 0 /\ NIC_AHEAD = 0
      /\ ~SOLARFLARE => ~HW_TIMESTAMP
      /\ NIC_AHEAD \in Nat /\ NIC_BEHIND \in Nat /\ LISTENER_LAG \in Nat
  BY Naturals, PacketRingAssumption DEF RecordInv, ListenerPlaces
<1>3. lClock' \in Int /\ lClock <= lClock' /\ lClock' <= epochSec + NIC_AHEAD
  <2>1. CASE Receive
    <3>1. lClock' \in ListenerClocks
      BY <2>1 DEF Receive
    <3>2. PICK d \in -NIC_BEHIND .. NIC_AHEAD : lClock' = epochSec + d /\ lClock' >= lClock
      BY <3>1 DEF ListenerClocks
    <3> QED
      BY <1>2, <3>2
  <2>2. CASE KeepIp \/ LeaveOther
    <3>1. lClock' = lClock \/ (REREADS /\ lClock' = epochSec)
      BY <2>2 DEF KeepIp, LeaveOther, EnterTimeIndex, LastRead
    <3> QED
      BY <1>2, <3>1
  <2>3. CASE CheckBusy \/ CheckRoom
    BY <1>2, <2>3 DEF CheckBusy, CheckRoom
  <2> QED
    BY <2>1, <2>2, <2>3
<1>4. lpc' \in {"room", "fill"} => Stamped(lClock + 1, tvSec') /\ lClock' = lClock
  <2>1. CASE CheckBusy
    <3>1. /\ lReadSec <= epochSec /\ epochSec <= lReadSec + LISTENER_LAG
          /\ lReadSec <= lClock + NIC_BEHIND
      BY <2>1 DEF CheckBusy, ClockInv, ListenerTimed
    <3>2. Stamped(lClock + 1, StampOf)
      BY <1>2, <3>1 DEF StampOf, Stamped, StampLag
    <3> QED
      BY <2>1, <3>2 DEF CheckBusy
  <2>2. CASE CheckRoom
    BY <2>2 DEF CheckRoom, RecordInv, ListenerPlaces
  <2> QED
    BY <2>1, <2>2 DEF Receive, KeepIp, LeaveOther
<1>5. ListenerPlaces'
  <2>0. PICK now \in Int : now = lClock' /\ lClock <= now
    BY <1>3
  <2>1. ASSUME NEW r \in Routers, NEW sec \in Ahead(r), pktRepoCnt[r][ReadTimeIndex(sec)] > 0
        PROVE  sec <= lClock' + 1
    <3>1. sec <= lClock + 1 /\ sec \in Int
      BY <2>1, Naturals DEF RecordInv, ListenerPlaces
    <3>2. lClock <= now /\ lClock \in Int
      BY <1>2, <2>0
    <3>3. sec <= now + 1
      BY <3>1, <3>2
    <3> QED
      BY <2>0, <3>3
  <2> QED
    BY <1>1, <1>3, <1>4, <2>1 DEF ListenerPlaces, Ahead, Stamped
<1>6. ASSUME NEW r \in Routers PROVE RouterPlaces(r)' /\ QueueInv(r)'
  <2>1. Cells(r)' = Cells(r) /\ Contents(r)' = Contents(r)
    BY <1>1 DEF Cells, Contents, Ahead, Held, FirstLeft
  <2> QED
    BY <1>1, <2>1 DEF RecordInv, RouterPlaces, QueueInv, Stamped
<1> QED
  BY <1>5, <1>6 DEF RecordInv

\* The record is written where no router looks: past what the slot holds.
LEMMA FillKeepsRecords ==
  ASSUME Timely, TypeOK, CounterInv, ClockInv, RecordInv, Fill
  PROVE  RecordInv'
<1> USE DEF vars, clockVars, repoVars, listenerVars, routerVars, historyVars
<1> DEFINE count == pktRepoCnt[Row][Slot]
<1>1. /\ UNCHANGED <<clockVars, pktRepoBusy, pktRepoCnt, routerVars, historyVars>>
      /\ UNCHANGED <<tIdx, tvSec, routerToProcess, cntLoad, lClock, lReadSec>>
      /\ lpc = "fill" /\ lpc' = "load" /\ Row \in Routers
      /\ Row' = Row /\ Slot' = Slot /\ NewPkt' = NewPkt
      /\ count < MAX_LEN
      /\ pktRepository' = [pktRepository EXCEPT ![Row][Slot][count] = NewPkt]
  BY DEF Fill, Row, Slot, NewPkt
<1>2. /\ pktRepository \in [Routers -> [TimeSlots -> [0 .. MAX_LEN - 1 -> RawPkt]]]
      /\ Slot \in TimeSlots /\ count \in 0 .. MAX_LEN - 1
  <2>1. Slot \in TimeSlots /\ count \in Nat /\ count < MAX_LEN
    BY <1>1, InArrays DEF TypeOK
  <2> QED
    BY <2>1, SlotLimits DEF TypeOK
<1>3. /\ pktRepository'[Row][Slot][count] = NewPkt
      /\ \A r \in Routers, s \in TimeSlots, k \in 0 .. MAX_LEN - 1 :
           (r # Row \/ s # Slot \/ k # count) =>
              pktRepository'[r][s][k] = pktRepository[r][s][k]
  <2> HIDE DEF count
  <2> QED
    BY <1>1, <1>2
<1>4. ListenerPlaces'
  BY <1>1, <1>3 DEF RecordInv, ListenerPlaces, Ahead, Stamped
<1>5. ASSUME NEW r \in Routers PROVE RouterPlaces(r)' /\ QueueInv(r)'
  <2>1. Cells(r)' = Cells(r)
    BY <1>1 DEF Cells, Ahead, Held, FirstLeft
  <2>2. ASSUME NEW c \in Cells(r) PROVE Contents(r)'[c] = Contents(r)[c]
    <3>1. /\ c \in Cell /\ c[2] \in 0 .. MAX_LEN - 1 /\ ReadTimeIndex(c[1]) \in TimeSlots
      BY CellsAllocated
    <3>2. CASE r # Row
      BY <1>3, <3>1, <3>2 DEF Contents
    <3>3. CASE r = Row
      <4>1. Before(c, <<lClock + 1, count>>)
        BY <1>1, <3>3, ListenerLast DEF RecordInv
      <4>2. Slot = ReadTimeIndex(lClock + 1) /\ lClock + 1 \in Ahead(Row) /\ lClock \in Nat
        BY <1>1, ListenerAhead, Naturals
      <4>3. c[1] \in Ahead(r) /\ c[1] \in Nat /\ count \in Nat
        BY <1>2, CellsAllocated
      <4>4. ReadTimeIndex(c[1]) # Slot \/ c[2] # count
        <5>1. ReadTimeIndex(c[1]) = Slot => c[1] = lClock + 1
          BY <1>1, <3>3, <4>2, <4>3, OneSecondPerSlot
        <5> HIDE DEF count
        <5> QED
          BY <3>1, <4>1, <4>2, <4>3, <5>1 DEF Before
      <4> QED
        BY <1>3, <3>1, <3>3, <4>4 DEF Contents
    <3> QED
      BY <3>2, <3>3
  <2>3. QueueInv(r)'
    BY <1>1, <2>1, <2>2, QueueStays DEF RecordInv
  <2> QED
    BY <1>1, <2>3 DEF RecordInv, RouterPlaces
<1> QED
  BY <1>4, <1>5 DEF RecordInv

LEMMA LoadKeepsRecords ==
  ASSUME RecordInv, LoadCnt
  PROVE  RecordInv'
<1> USE DEF vars, clockVars, repoVars, listenerVars, routerVars, historyVars
<1>1. /\ UNCHANGED <<clockVars, repoVars, routerVars, historyVars>>
      /\ UNCHANGED <<tvSec, lClock>>
      /\ lpc = "load" /\ lpc' = "store" /\ cntLoad' = pktRepoCnt[Row][Slot]
      /\ Row' = Row /\ Slot' = Slot /\ NewPkt' = NewPkt
  BY DEF LoadCnt, Row, Slot, NewPkt
<1>2. ListenerPlaces'
  BY <1>1 DEF RecordInv, ListenerPlaces, Ahead, Stamped
<1>3. ASSUME NEW r \in Routers PROVE RouterPlaces(r)' /\ QueueInv(r)'
  <2>1. Cells(r)' = Cells(r) /\ Contents(r)' = Contents(r)
    BY <1>1 DEF Cells, Contents, Ahead, Held, FirstLeft
  <2> QED
    BY <1>1, <2>1 DEF RecordInv, RouterPlaces, QueueInv, Stamped
<1> QED
  BY <1>2, <1>3 DEF RecordInv

\* The packet stored becomes the last of its router's queue.
LEMMA StoreKeepsRecords ==
  ASSUME Timely, TypeOK, CounterInv, ClockInv, RecordInv, StoreCnt
  PROVE  RecordInv'
<1> USE DEF vars, clockVars, repoVars, listenerVars, routerVars, historyVars
<1> DEFINE w == <<lClock + 1, cntLoad>>
<1>1. /\ UNCHANGED <<clockVars, pktRepoBusy, pktRepository, routerVars, decoded>>
      /\ UNCHANGED <<lClock, tvSec, lReadSec>>
      /\ lpc = "store" /\ lpc' = "idle"
      /\ pktRepoCnt' = [pktRepoCnt EXCEPT ![Row][Slot] = cntLoad + 1]
      /\ stored' = [stored EXCEPT ![Row] = Append(@, NewPkt)]
  BY DEF StoreCnt
<1>2. /\ Row \in Routers /\ Slot \in TimeSlots /\ cntLoad \in Nat /\ lClock \in Nat
      /\ pktRepoCnt \in [Rows -> [TimeSlots -> Nat]] /\ stored \in [Routers -> Seq(RawPkt)]
      /\ cntLoad = pktRepoCnt[Row][Slot] /\ pktRepository[Row][Slot][cntLoad] = NewPkt
  BY <1>1, InArrays, Naturals
     DEF TypeOK, CounterInv, ListenerCounts, RecordInv, ListenerPlaces
<1>3. /\ Slot = ReadTimeIndex(lClock + 1)
      /\ \A r \in Routers : /\ lClock + 1 \in Ahead(r)
                            /\ rpc[r] # "walk" => lastSec[r] < lClock + 1
  BY <1>1, <1>2, ListenerAhead
<1>4. /\ pktRepoCnt'[Row][Slot] = cntLoad + 1
      /\ \A r \in Routers, s \in TimeSlots :
           (r # Row \/ s # Slot) => pktRepoCnt'[r][s] = pktRepoCnt[r][s]
  BY <1>1, <1>2, RoutersInRows
<1>5. ListenerPlaces'
  <2>1. ASSUME NEW r \in Routers, NEW sec \in Ahead(r), pktRepoCnt'[r][ReadTimeIndex(sec)] > 0
        PROVE  sec <= lClock + 1
    <3>1. CASE ReadTimeIndex(sec) = Slot
      <4>1. sec = lClock + 1
        BY <1>3, <3>1, OneSecondPerSlot
      <4> QED
        BY <1>2, <4>1
    <3>2. CASE ReadTimeIndex(sec) # Slot
      <4>1. ReadTimeIndex(sec) \in TimeSlots
        BY DrainsFirst
      <4> QED
        BY <1>4, <2>1, <3>2, <4>1 DEF RecordInv, ListenerPlaces
    <3> QED
      BY <3>1, <3>2
  <2> QED
    BY <1>1, <2>1 DEF RecordInv, ListenerPlaces, Ahead
<1>6. ASSUME NEW r \in Routers PROVE RouterPlaces(r)'
  <2>1. ASSUME rpc[r] # "walk"
        PROVE  pktRepoCnt'[r][lastTIndex[r]] = pktRepoCnt[r][lastTIndex[r]]
    <3>1. /\ lastTIndex[r] = ReadTimeIndex(lastSec[r]) /\ lastSec[r] \in Ahead(r)
          /\ lastTIndex[r] \in TimeSlots
      BY DrainsFirst
    <3>2. lastSec[r] < lClock + 1 /\ lastSec[r] \in Nat
      BY <1>3, <2>1, Naturals
    <3>3. lastTIndex[r] # Slot
      BY <1>2, <1>3, <3>1, <3>2, OneSecondPerSlot
    <3> QED
      BY <1>4, <3>1, <3>3
  <2> QED
    BY <1>1, <2>1 DEF RecordInv, RouterPlaces
<1>7. ASSUME NEW r \in Routers, r # Row PROVE QueueInv(r)'
  <2>1. \A s \in TimeSlots : pktRepoCnt'[r][s] = pktRepoCnt[r][s]
    BY <1>4, <1>7
  <2>2. Cells(r)' = Cells(r)
    BY <1>1, <2>1, CellsStay
  <2>3. Contents(r)' = Contents(r) /\ stored'[r] = stored[r] /\ decoded'[r] = decoded[r]
    BY <1>1, <1>2, <1>7 DEF Contents
  <2> QED
    BY <2>2, <2>3, QueueStays DEF RecordInv
<1>8. ASSUME NEW r \in Routers, r = Row PROVE QueueInv(r)'
  <2>1. w \in Cell /\ w[1] = lClock + 1 /\ w[2] = cntLoad
    BY <1>2 DEF Cell
  <2>2. \A c \in Cells(r) : Before(c, w)
    BY <1>1, <1>2, <1>8, ListenerLast DEF RecordInv
  <2>3. ASSUME NEW c \in Cell, c[1] \in Ahead(r)
        PROVE  (c \in Cells(r) \/ c = w) <=> Held(r, c[1], c[2])'
    <3> HIDE DEF w
    <3>1. c \in Cells(r) <=> Held(r, c[1], c[2])
      BY <2>3 DEF Cells
    <3>2. c[2] \in Nat /\ ReadTimeIndex(c[1]) \in TimeSlots /\ lastSec[r] \in Nat
      BY <2>3, DrainsFirst, Naturals DEF Cell
    <3>3. CASE c[1] = lClock + 1
      <4>1. ~(c[1] = lastSec[r] /\ rpc[r] # "walk")
        BY <1>2, <1>3, <3>2, <3>3
      <4>2. c = w <=> c[2] = cntLoad
        BY <2>1, <2>3, <3>3 DEF Cell
      <4>3. Held(r, c[1], c[2]) <=> c[2] < cntLoad
        BY <1>2, <1>3, <1>8, <3>3, <4>1 DEF Held
      <4>4. Held(r, c[1], c[2])' <=> c[2] < cntLoad + 1
        BY <1>1, <1>3, <1>4, <1>8, <3>3, <4>1 DEF Held
      <4>5. c[2] < cntLoad + 1 <=> (c[2] < cntLoad \/ c[2] = cntLoad)
        BY <1>2, <3>2
      <4> QED
        BY <3>1, <4>2, <4>3, <4>4, <4>5
    <3>4. CASE c[1] # lClock + 1
      <4>1. ReadTimeIndex(c[1]) # Slot
        BY <1>2, <1>3, <2>3, <3>4, OneSecondPerSlot
      <4>2. pktRepoCnt'[r][ReadTimeIndex(c[1])] = pktRepoCnt[r][ReadTimeIndex(c[1])]
        BY <1>4, <3>2, <4>1
      <4>3. Held(r, c[1], c[2])' <=> Held(r, c[1], c[2])
        BY <1>1, <4>2 DEF Held, FirstLeft
      <4> QED
        BY <2>1, <3>1, <3>4, <4>3
    <3> QED
      BY <3>3, <3>4
  <2>4. Cells(r)' = Cells(r) \cup {w}
    <3>1. Ahead(r)' = Ahead(r) /\ w[1] \in Ahead(r)
      BY <1>1, <1>3, <2>1 DEF Ahead
    <3>2. \A c \in Cells(r) : c \in Cell /\ c[1] \in Ahead(r)
      BY DEF Cells
    <3>3. \A c : c \in Cells(r)' <=> c \in Cell /\ c[1] \in Ahead(r) /\ Held(r, c[1], c[2])'
      BY <3>1 DEF Cells
    <3> HIDE DEF w
    <3> QED
      BY <2>1, <2>3, <3>1, <3>2, <3>3
  <2>5. Contents(r)' = Contents(r) /\ Contents(r)[w] = NewPkt
    BY <1>1, <1>2, <1>3, <1>8, <2>1 DEF Contents
  <2>6. /\ NewPkt \in RawPkt /\ NewPkt.id = Len(stored[r]) + 1 /\ NewPkt.tv_sec = tvSec
        /\ Stamped(lClock + 1, tvSec)
    <3>1. NewPkt \in RawPkt
      BY <1>1, <1>2, NewRecord DEF CounterInv, ListenerCounts
    <3> QED
      BY <1>1, <1>8, <3>1 DEF NewPkt, RecordInv, ListenerPlaces
  <2>7. HoldsQueue(RawPkt, Cells(r) \cup {w}, Contents(r), Append(stored[r], NewPkt), decoded[r])
    <3>1. HoldsQueue(RawPkt, Cells(r), Contents(r), stored[r], decoded[r])
      BY DEF RecordInv, QueueInv
    <3>2. stored[r] \in Seq(RawPkt) /\ decoded[r] \in Seq(RawPkt)
      BY DEF TypeOK
    <3> HIDE DEF w
    <3> QED
      BY <2>1, <2>2, <2>5, <2>6, <3>1, <3>2, PutLast
  <2>8. stored'[r] = Append(stored[r], NewPkt) /\ decoded'[r] = decoded[r]
    BY <1>1, <1>2, <1>8
  <2>9. \A c \in Cells(r)' : Stamped(c[1], Contents(r)'[c].tv_sec)
    <3>1. \A c \in Cells(r) : Stamped(c[1], Contents(r)[c].tv_sec)
      BY DEF RecordInv, QueueInv
    <3> QED
      BY <2>1, <2>4, <2>5, <2>6, <3>1 DEF Stamped
  <2> QED
    BY <2>4, <2>5, <2>7, <2>8, <2>9 DEF QueueInv
<1> QED
  BY <1>5, <1>6, <1>7, <1>8 DEF RecordInv

-----------------------------------------------------------------------------
(* A router's steps.                                                        *)

\* A router's step changes its own indices and its own slot's counter, which
\* it never raises.
LEMMA RouterOwn ==
  ASSUME TypeOK, CounterInv, NEW q \in Routers, RouterStep(q)
  PROVE  /\ UNCHANGED <<epochSec, pktRepository, listenerVars, stored>>
         /\ \A r \in Routers : r # q =>
              /\ rpc'[r] = rpc[r] /\ lastTIndex'[r] = lastTIndex[r]
              /\ lastSec'[r] = lastSec[r] /\ recCnt'[r] = recCnt[r]
              /\ recIdx'[r] = recIdx[r] /\ decoded'[r] = decoded[r]
         /\ \A r \in Routers, s \in TimeSlots :
              (r # q \/ s # lastTIndex[q]) => pktRepoCnt'[r][s] = pktRepoCnt[r][s]
         /\ pktRepoCnt'[q][lastTIndex[q]] \in 0 .. pktRepoCnt[q][lastTIndex[q]]
         /\ rpc[q] = "walk" => pktRepoCnt' = pktRepoCnt
<1> USE DEF clockVars, repoVars, listenerVars, routerVars, historyVars
<1>1. /\ pktRepoCnt \in [Rows -> [TimeSlots -> Nat]] /\ lastTIndex \in [Routers -> TimeSlots]
      /\ q \in Rows /\ lastTIndex[q] \in TimeSlots /\ cntDec[q] \in Nat
      /\ recCnt[q] \in Nat /\ recIdx[q] \in Nat /\ pktRepoCnt[q][lastTIndex[q]] \in Nat
      /\ lastSec \in [Routers -> Nat] /\ recCnt \in [Routers -> Nat]
      /\ recIdx \in [Routers -> Nat] /\ decoded \in [Routers -> Seq(RawPkt)]
      /\ rpc \in [Routers -> {"walk", "mark", "decode", "load", "store", "zero", "release"}]
  BY RoutersInRows DEF TypeOK
<1>2. CASE StoreDec(q)
  <2>1. recIdx[q] < recCnt[q] /\ recCnt[q] - recIdx[q] <= cntDec[q]
        /\ cntDec[q] <= pktRepoCnt[q][lastTIndex[q]]
    BY <1>2 DEF StoreDec, CounterInv, RouterCounts
  <2>2. pktRepoCnt' = [pktRepoCnt EXCEPT ![q][lastTIndex[q]] = cntDec[q] - 1]
    <3>1. cntDec[q] # 0
      BY <1>1, <2>1
    <3> QED
      BY <1>2, <3>1 DEF StoreDec
  <2>3. pktRepoCnt'[q][lastTIndex[q]] \in 0 .. pktRepoCnt[q][lastTIndex[q]]
    BY <1>1, <2>1, <2>2
  <2>4. \A r \in Routers, s \in TimeSlots :
          (r # q \/ s # lastTIndex[q]) => pktRepoCnt'[r][s] = pktRepoCnt[r][s]
    BY <1>1, <2>2, RoutersInRows
  <2>5. UNCHANGED <<epochSec, pktRepository, listenerVars, stored, decoded, lastTIndex,
                    lastSec, recCnt>> /\ rpc[q] = "store"
        /\ \A r \in Routers : r # q => rpc'[r] = rpc[r] /\ recIdx'[r] = recIdx[r]
    BY <1>1, <1>2 DEF StoreDec
  <2> QED
    BY <2>3, <2>4, <2>5
<1>3. CASE ZeroCnt(q)
  <2>1. pktRepoCnt' = [pktRepoCnt EXCEPT ![q][lastTIndex[q]] = 0]
    BY <1>3 DEF ZeroCnt
  <2>2. pktRepoCnt'[q][lastTIndex[q]] \in 0 .. pktRepoCnt[q][lastTIndex[q]]
    BY <1>1, <2>1
  <2>3. \A r \in Routers, s \in TimeSlots :
          (r # q \/ s # lastTIndex[q]) => pktRepoCnt'[r][s] = pktRepoCnt[r][s]
    BY <1>1, <2>1, RoutersInRows
  <2>4. UNCHANGED <<epochSec, pktRepository, listenerVars, stored, decoded, lastTIndex,
                    lastSec, recCnt, recIdx>> /\ rpc[q] = "zero"
        /\ \A r \in Routers : r # q => rpc'[r] = rpc[r]
    BY <1>1, <1>3 DEF ZeroCnt
  <2> QED
    BY <2>2, <2>3, <2>4
<1>4. CASE Poll(q) \/ TakeSlot(q) \/ MarkBusy(q) \/ Decode(q) \/ LoadDec(q) \/ Release(q)
  <2>1. UNCHANGED <<epochSec, pktRepository, pktRepoCnt, listenerVars, stored>>
    BY <1>4 DEF Poll, TakeSlot, MarkBusy, Decode, LoadDec, Release
  <2>2. ASSUME NEW r \in Routers, r # q
        PROVE  /\ rpc'[r] = rpc[r] /\ lastTIndex'[r] = lastTIndex[r]
               /\ lastSec'[r] = lastSec[r] /\ recCnt'[r] = recCnt[r]
               /\ recIdx'[r] = recIdx[r] /\ decoded'[r] = decoded[r]
    BY <1>1, <1>4, <2>2 DEF Poll, TakeSlot, MarkBusy, Decode, LoadDec, Release
  <2> QED
    BY <1>1, <2>1, <2>2
<1> QED
  BY <1>2, <1>3, <1>4 DEF RouterStep

\* What a router does to its own records is all that has to be looked at: the
\* listener and the other routers are elsewhere.
LEMMA RouterKeepsOthers ==
  ASSUME Timely, TypeOK, CounterInv, ClockInv, RecordInv, NEW q \in Routers, RouterStep(q),
         RouterPlaces(q)', QueueInv(q)',
         \A sec \in Ahead(q)' :
           sec \in Ahead(q) \/ pktRepoCnt'[q][ReadTimeIndex(sec)] = 0
  PROVE  RecordInv'
<1> USE DEF listenerVars
<1>1. /\ UNCHANGED <<epochSec, pktRepository, listenerVars, stored>>
      /\ \A r \in Routers : r # q =>
           /\ rpc'[r] = rpc[r] /\ lastTIndex'[r] = lastTIndex[r]
           /\ lastSec'[r] = lastSec[r] /\ recCnt'[r] = recCnt[r]
           /\ recIdx'[r] = recIdx[r] /\ decoded'[r] = decoded[r]
      /\ \A r \in Routers, s \in TimeSlots :
           (r # q \/ s # lastTIndex[q]) => pktRepoCnt'[r][s] = pktRepoCnt[r][s]
  BY RouterOwn
<1>2. ASSUME NEW r \in Routers, r # q PROVE RouterPlaces(r)' /\ QueueInv(r)'
  <2>1. \A s \in TimeSlots : pktRepoCnt'[r][s] = pktRepoCnt[r][s]
    BY <1>1, <1>2
  <2>2. Cells(r)' = Cells(r) /\ Contents(r)' = Contents(r)
    BY <1>1, <1>2, <2>1, CellsStay DEF Contents
  <2>3. QueueInv(r)'
    BY <1>1, <1>2, <2>2, QueueStays DEF RecordInv
  <2>4. lastTIndex[r] \in TimeSlots
    BY DEF TypeOK
  <2> QED
    BY <1>1, <1>2, <2>1, <2>3, <2>4 DEF RecordInv, RouterPlaces
<1>3. ASSUME NEW r \in Routers, NEW sec \in Ahead(r)', pktRepoCnt'[r][ReadTimeIndex(sec)] > 0
      PROVE  sec <= lClock' + 1
  <2>1. sec \in Ahead(r)
    BY <1>1, <1>3 DEF Ahead
  <2>2. ReadTimeIndex(sec) \in TimeSlots /\ lastTIndex[q] \in TimeSlots
    BY <2>1, DrainsFirst DEF TypeOK
  <2>3. pktRepoCnt[r][ReadTimeIndex(sec)] > 0
    <3>1. CASE r # q \/ ReadTimeIndex(sec) # lastTIndex[q]
      BY <1>1, <1>3, <2>2, <3>1
    <3>2. CASE r = q /\ ReadTimeIndex(sec) = lastTIndex[q]
      <4>1. pktRepoCnt'[q][lastTIndex[q]] \in 0 .. pktRepoCnt[q][lastTIndex[q]]
        BY RouterOwn
      <4>2. pktRepoCnt[q][lastTIndex[q]] \in Nat
        BY <2>2, Naturals
      <4>3. pktRepoCnt[q][lastTIndex[q]] # 0
        BY <1>3, <3>2, <4>1, <4>2
      <4> QED
        BY <3>2, <4>2, <4>3
    <3> QED
      BY <3>1, <3>2
  <2> QED
    BY <1>1, <2>1, <2>3 DEF RecordInv, ListenerPlaces
<1>4. lpc \in {"load", "store"} => pktRepoCnt'[Row][Slot] = pktRepoCnt[Row][Slot]
  <2> SUFFICES ASSUME lpc \in {"load", "store"}
               PROVE  pktRepoCnt'[Row][Slot] = pktRepoCnt[Row][Slot]
    OBVIOUS
  <2>1. Row \in Routers /\ Slot \in TimeSlots /\ lastTIndex[q] \in TimeSlots
    BY InArrays DEF CounterInv, ListenerCounts, TypeOK
  <2>2. CASE Row # q \/ Slot # lastTIndex[q]
    BY <1>1, <2>1, <2>2
  <2>3. CASE Row = q /\ Slot = lastTIndex[q]
    <3>1. rpc[q] = "walk"
      <4>1. NoOverlap
        BY TimedSlotsApart
      <4> QED
        BY <2>1, <2>3, <4>1 DEF NoOverlap, Writing, Draining
    <3> QED
      BY <3>1, RouterOwn
  <2> QED
    BY <2>2, <2>3
<1>5. Row' = Row /\ Slot' = Slot /\ NewPkt' = NewPkt
  BY <1>1 DEF Row, Slot, NewPkt
<1>6. ListenerPlaces'
  BY <1>1, <1>3, <1>4, <1>5 DEF RecordInv, ListenerPlaces, Stamped
<1> QED
  BY <1>2, <1>6 DEF RecordInv

\* A step that takes no record out leaves the queue.
LEMMA NoneTaken ==
  ASSUME Timely, TypeOK, CounterInv, ClockInv, RecordInv, NEW q \in Routers, RouterStep(q),
         decoded'[q] = decoded[q], lastSec'[q] = lastSec[q],
         RouterPlaces(q)',
         \A k \in Nat : Held(q, lastSec[q], k)' <=> Held(q, lastSec[q], k)
  PROVE  RecordInv'
<1>1. /\ stored' = stored /\ pktRepository' = pktRepository
      /\ \A s \in TimeSlots : s # lastTIndex[q] => pktRepoCnt'[q][s] = pktRepoCnt[q][s]
  BY RouterOwn
<1>2. Ahead(q)' = Ahead(q)
  BY DEF Ahead
<1>3. ASSUME NEW sec \in Ahead(q), NEW k \in Nat PROVE Held(q, sec, k)' <=> Held(q, sec, k)
  <2>1. CASE sec = lastSec[q]
    BY <2>1
  <2>2. CASE sec # lastSec[q]
    <3>1. ReadTimeIndex(sec) # lastTIndex[q] /\ ReadTimeIndex(sec) \in TimeSlots
      BY <2>2, DrainsFirst
    <3> QED
      BY <1>1, <2>2, <3>1 DEF Held
  <2> QED
    BY <2>1, <2>2
<1>4. Cells(q)' = Cells(q)
  BY <1>2, <1>3 DEF Cells, Cell
<1>5. QueueInv(q)'
  BY <1>1, <1>4, QueueStays DEF RecordInv, Contents
<1> QED
  BY <1>2, <1>5, RouterKeepsOthers

\* Poll to MarkBusy, and the counting down: what is left of the slot stays.
LEMMA WalkKeepsRecords ==
  ASSUME Timely, TypeOK, CounterInv, ClockInv, RecordInv, NEW q \in Routers,
         Poll(q) \/ TakeSlot(q) \/ MarkBusy(q) \/ LoadDec(q) \/ StoreDec(q) \/ ZeroCnt(q)
  PROVE  RecordInv'
<1> USE DEF clockVars, repoVars, listenerVars, routerVars, historyVars
<1> DEFINE s == lastTIndex[q]
<1>0. RouterStep(q) /\ decoded' = decoded /\ lastSec' = lastSec /\ lastTIndex' = lastTIndex
  BY DEF RouterStep, Poll, TakeSlot, MarkBusy, LoadDec, StoreDec, ZeroCnt
<1>1. /\ rpc \in [Routers -> {"walk", "mark", "decode", "load", "store", "zero", "release"}]
      /\ recCnt \in [Routers -> Nat] /\ recIdx \in [Routers -> Nat]
      /\ s \in TimeSlots /\ s = ReadTimeIndex(lastSec[q])
      /\ pktRepoCnt \in [Rows -> [TimeSlots -> Nat]] /\ q \in Rows
      /\ pktRepoCnt[q][s] \in Nat
  <2>1. s = ReadTimeIndex(lastSec[q])
    BY DrainsFirst
  <2> QED
    BY <2>1, RoutersInRows DEF TypeOK
<1>2. RouterPlaces(q) /\ RouterCounts(q)
  BY DEF RecordInv, CounterInv
<1>3. CASE Poll(q)
  <2>1. rpc' = rpc /\ recCnt' = recCnt /\ recIdx' = recIdx /\ pktRepoCnt' = pktRepoCnt
    BY <1>3 DEF Poll
  <2>2. RouterPlaces(q)'
    BY <1>0, <1>2, <2>1 DEF RouterPlaces
  <2>3. \A k \in Nat : Held(q, lastSec[q], k)' <=> Held(q, lastSec[q], k)
    BY <1>0, <2>1 DEF Held, FirstLeft
  <2> QED
    BY <1>0, <2>2, <2>3, NoneTaken
<1>4. CASE TakeSlot(q)
  <2>1. /\ rpc[q] = "walk" /\ rpc'[q] = "mark" /\ pktRepoCnt' = pktRepoCnt
        /\ recCnt'[q] = pktRepoCnt[q][s] /\ recIdx'[q] = 0
    BY <1>1, <1>4 DEF TakeSlot
  <2>2. RouterPlaces(q)'
    BY <1>0, <2>1 DEF RouterPlaces
  <2>3. \A k \in Nat : Held(q, lastSec[q], k)' <=> Held(q, lastSec[q], k)
    BY <1>0, <1>1, <2>1 DEF Held, FirstLeft
  <2> QED
    BY <1>0, <2>2, <2>3, NoneTaken
<1>5. CASE MarkBusy(q)
  <2>1. /\ rpc[q] = "mark" /\ recCnt' = recCnt /\ recIdx' = recIdx /\ pktRepoCnt' = pktRepoCnt
        /\ rpc'[q] = IF recCnt[q] > 0 THEN "decode" ELSE "release"
    BY <1>1, <1>5 DEF MarkBusy
  <2>2. recIdx[q] = 0 /\ recCnt[q] = pktRepoCnt[q][s]
    BY <1>2, <2>1 DEF RouterPlaces, RouterCounts
  <2>3. RouterPlaces(q)'
    BY <1>0, <1>1, <2>1, <2>2 DEF RouterPlaces
  <2>4. \A k \in Nat : Held(q, lastSec[q], k)' <=> Held(q, lastSec[q], k)
    BY <1>0, <2>1 DEF Held, FirstLeft
  <2> QED
    BY <1>0, <2>3, <2>4, NoneTaken
<1>6. CASE LoadDec(q)
  <2>1. /\ rpc[q] = "load" /\ rpc'[q] = "store" /\ recCnt' = recCnt /\ recIdx' = recIdx
        /\ pktRepoCnt' = pktRepoCnt
    BY <1>1, <1>6 DEF LoadDec
  <2>2. RouterPlaces(q)'
    BY <2>1 DEF RouterPlaces
  <2>3. \A k \in Nat : Held(q, lastSec[q], k)' <=> Held(q, lastSec[q], k)
    BY <1>0, <2>1 DEF Held, FirstLeft
  <2> QED
    BY <1>0, <2>2, <2>3, NoneTaken
<1>7. CASE StoreDec(q)
  <2>1. /\ rpc[q] = "store" /\ recCnt' = recCnt /\ recIdx'[q] = recIdx[q] + 1
        /\ rpc'[q] = IF recIdx[q] + 1 < recCnt[q] THEN "decode" ELSE "zero"
    BY <1>1, <1>7 DEF StoreDec
  <2>2. recIdx[q] < recCnt[q] /\ recIdx[q] \in Nat /\ recCnt[q] \in Nat
    BY <1>1, <1>2, <2>1 DEF RouterCounts
  <2>3. rpc'[q] = "zero" => recIdx[q] + 1 = recCnt[q]
    BY <2>1, <2>2
  <2>4. RouterPlaces(q)'
    BY <2>1, <2>3 DEF RouterPlaces
  <2>5. \A k \in Nat : Held(q, lastSec[q], k)' <=> Held(q, lastSec[q], k)
    BY <1>0, <2>1 DEF Held, FirstLeft
  <2> QED
    BY <1>0, <2>4, <2>5, NoneTaken
<1>8. CASE ZeroCnt(q)
  <2>1. /\ rpc[q] = "zero" /\ rpc'[q] = "release" /\ recCnt' = recCnt /\ recIdx' = recIdx
        /\ pktRepoCnt'[q][s] = 0
    BY <1>1, <1>8 DEF ZeroCnt
  <2>2. RouterPlaces(q)'
    BY <1>0, <1>2, <2>1 DEF RouterPlaces
  <2>3. \A k \in Nat : Held(q, lastSec[q], k)' <=> Held(q, lastSec[q], k)
    BY <1>0, <2>1 DEF Held, FirstLeft
  <2> QED
    BY <1>0, <2>2, <2>3, NoneTaken
<1> QED
  BY <1>3, <1>4, <1>5, <1>6, <1>7, <1>8

\* The first cell of a router that decodes.
First(r) == <<lastSec[r], recIdx[r]>>

LEMMA FirstOfCells ==
  ASSUME TypeOK, CounterInv, ClockInv, NEW r \in Routers, rpc[r] = "decode"
  PROVE  /\ IsFirst(First(r), Cells(r))
         /\ Contents(r)[First(r)] = pktRepository[r][lastTIndex[r]][recIdx[r]]
         /\ lastSec[r] \in Nat /\ recIdx[r] \in Nat
<1> DEFINE f == First(r)
<1>1. /\ lastSec[r] \in Nat /\ recIdx[r] \in Nat /\ recIdx[r] < recCnt[r]
      /\ lastSec[r] \in Ahead(r) /\ lastTIndex[r] = ReadTimeIndex(lastSec[r])
  BY DrainsFirst, Naturals DEF TypeOK, CounterInv, RouterCounts
<1>2. f \in Cell /\ f[1] = lastSec[r] /\ f[2] = recIdx[r]
  BY <1>1 DEF First, Cell
<1>3. f \in Cells(r)
  BY <1>1, <1>2 DEF Cells, Held, FirstLeft
<1>4. ASSUME NEW c \in Cells(r) PROVE c = f \/ Before(f, c)
  <2>1. c[1] \in Nat /\ c[2] \in Nat /\ c = <<c[1], c[2]>> /\ lastSec[r] <= c[1]
    BY CellsAllocated, DrainsFirst
  <2>2. CASE c[1] = lastSec[r]
    <3>1. recIdx[r] <= c[2]
      BY <2>2, CellsAllocated DEF Held, FirstLeft
    <3>2. CASE c[2] = recIdx[r]
      BY <2>1, <2>2, <3>2 DEF First
    <3>3. CASE c[2] # recIdx[r]
      BY <1>1, <1>2, <2>1, <2>2, <3>1, <3>3 DEF Before
    <3> QED
      BY <3>2, <3>3
  <2>3. CASE c[1] # lastSec[r]
    BY <1>1, <1>2, <2>1, <2>3 DEF Before
  <2> QED
    BY <2>2, <2>3
<1>5. Contents(r)[f] = pktRepository[r][lastTIndex[r]][recIdx[r]]
  BY <1>1, <1>2 DEF Contents
<1> QED
  BY <1>1, <1>3, <1>4, <1>5 DEF IsFirst

\* The record decoded is the head of the router's queue.
LEMMA DecodeTakesHead ==
  ASSUME TypeOK, CounterInv, ClockInv, RecordInv, NEW q \in Routers, rpc[q] = "decode"
  PROVE  LET head == pktRepository[q][lastTIndex[q]][recIdx[q]]
         IN  /\ Len(decoded[q]) < Len(stored[q])
             /\ head = stored[q][Len(decoded[q]) + 1] /\ head \in RawPkt
             /\ Stamped(lastSec[q], head.tv_sec)
             /\ HoldsQueue(RawPkt, Cells(q) \ {First(q)}, Contents(q), stored[q],
                           Append(decoded[q], head))
<1> DEFINE head == pktRepository[q][lastTIndex[q]][recIdx[q]]
<1>1. /\ IsFirst(First(q), Cells(q)) /\ First(q) \in Cells(q)
      /\ Contents(q)[First(q)] = head /\ First(q)[1] = lastSec[q]
  BY FirstOfCells DEF First, IsFirst
<1>2. /\ HoldsQueue(RawPkt, Cells(q), Contents(q), stored[q], decoded[q])
      /\ Stamped(lastSec[q], head.tv_sec)
  BY <1>1 DEF RecordInv, QueueInv
<1> HIDE DEF head
<1>3. /\ Len(decoded[q]) < Len(stored[q])
      /\ Contents(q)[First(q)] = NextOut(stored[q], decoded[q])
      /\ HoldsQueue(RawPkt, Cells(q) \ {First(q)}, Contents(q), stored[q],
                    Append(decoded[q], Contents(q)[First(q)]))
  BY <1>1, <1>2, TakeFirst
<1>4. NextOut(stored[q], decoded[q]) \in RawPkt
  <2>1. stored[q] \in Seq(RawPkt) /\ decoded[q] \in Seq(RawPkt)
    BY DEF TypeOK
  <2>2. Len(decoded[q]) + 1 \in 1 .. Len(stored[q])
    BY <1>3, <2>1
  <2> QED
    BY <2>1, <2>2 DEF NextOut
<1> QED
  BY <1>1, <1>2, <1>3, <1>4 DEF NextOut, head

LEMMA DecodeKeepsRecords ==
  ASSUME Timely, TypeOK, CounterInv, ClockInv, RecordInv, NEW q \in Routers, Decode(q)
  PROVE  RecordInv'
<1> USE DEF clockVars, repoVars, listenerVars, routerVars, historyVars
<1> DEFINE head == pktRepository[q][lastTIndex[q]][recIdx[q]]
<1>1. /\ RouterStep(q) /\ rpc[q] = "decode" /\ rpc'[q] = "load"
      /\ UNCHANGED <<pktRepoCnt, pktRepository, lastSec, lastTIndex, recCnt, recIdx, stored>>
      /\ decoded'[q] = Append(decoded[q], head)
  BY DEF Decode, RouterStep, TypeOK
<1>2. RouterPlaces(q)'
  BY <1>1 DEF RouterPlaces
<1>3. Ahead(q)' = Ahead(q) /\ Contents(q)' = Contents(q)
  BY <1>1 DEF Ahead, Contents
<1>4. ASSUME NEW c \in Cell, c[1] \in Ahead(q)
      PROVE  Held(q, c[1], c[2])' <=> (Held(q, c[1], c[2]) /\ c # First(q))
  <2>1. /\ c[1] \in Nat /\ c[2] \in Nat /\ c = <<c[1], c[2]>>
        /\ recIdx[q] \in Nat /\ lastSec[q] \in Nat
    BY FirstOfCells, <1>1 DEF Cell
  <2>2. CASE c[1] = lastSec[q]
    <3>1. c = First(q) <=> c[2] = recIdx[q]
      BY <2>1, <2>2 DEF First
    <3>2. Held(q, c[1], c[2]) <=> recIdx[q] <= c[2] /\ c[2] < recCnt[q]
      BY <1>1, <2>2 DEF Held, FirstLeft
    <3>3. Held(q, c[1], c[2])' <=> recIdx[q] + 1 <= c[2] /\ c[2] < recCnt[q]
      BY <1>1, <2>2 DEF Held, FirstLeft
    <3>4. recIdx[q] + 1 <= c[2] <=> recIdx[q] <= c[2] /\ c[2] # recIdx[q]
      BY <2>1
    <3> QED
      BY <3>1, <3>2, <3>3, <3>4
  <2>3. CASE c[1] # lastSec[q]
    <3>1. c # First(q)
      BY <2>3 DEF First
    <3> QED
      BY <1>1, <2>3, <3>1 DEF Held
  <2> QED
    BY <2>2, <2>3
<1>5. Cells(q)' = Cells(q) \ {First(q)}
  BY <1>3, <1>4 DEF Cells
<1>6. QueueInv(q)'
  <2>1. HoldsQueue(RawPkt, Cells(q) \ {First(q)}, Contents(q), stored[q], Append(decoded[q], head))
    BY <1>1, DecodeTakesHead
  <2>2. \A c \in Cells(q)' : Stamped(c[1], Contents(q)'[c].tv_sec)
    BY <1>3, <1>5 DEF RecordInv, QueueInv, Stamped
  <2> QED
    BY <1>1, <1>3, <1>5, <2>1, <2>2 DEF QueueInv, Stamped
<1> QED
  BY <1>1, <1>2, <1>3, <1>6, RouterKeepsOthers

\* The slot left is empty, so it can be taken as that of the lap's last second.
LEMMA ReleaseKeepsRecords ==
  ASSUME Timely, TypeOK, CounterInv, ClockInv, RecordInv, NEW q \in Routers, Release(q)
  PROVE  RecordInv'
<1> USE DEF clockVars, repoVars, listenerVars, routerVars, historyVars
<1>1. /\ RouterStep(q) /\ rpc[q] = "release" /\ rpc'[q] = "walk"
      /\ UNCHANGED <<pktRepoCnt, pktRepository, recCnt, recIdx, stored, decoded>>
      /\ lastSec'[q] = lastSec[q] + 1
  BY DEF Release, RouterStep, TypeOK
<1>2. /\ lastSec[q] \in Nat /\ lastTIndex[q] = ReadTimeIndex(lastSec[q])
      /\ recIdx[q] = recCnt[q] /\ recIdx[q] \in Nat /\ pktRepoCnt[q][lastTIndex[q]] = 0
  BY <1>1, DrainsFirst, Naturals DEF RecordInv, RouterPlaces, TypeOK
<1>3. RouterPlaces(q)'
  BY <1>1 DEF RouterPlaces
<1> DEFINE next == lastSec[q] + TIME_INDEX
<1>4. pktRepoCnt'[q][ReadTimeIndex(next)] = 0
  BY <1>1, <1>2, SameSlotNextLap
<1>5. /\ \A sec \in Ahead(q)' : sec \in Ahead(q) \/ sec = next
      /\ \A sec \in Ahead(q) : sec \in Ahead(q)' \/ sec = lastSec[q]
      /\ \A sec \in Ahead(q)' : sec # lastSec[q]
  <2>1. Ahead(q)' = lastSec[q] + 1 .. lastSec[q] + 1 + TIME_INDEX - 1
    BY <1>1 DEF Ahead
  <2>2. Ahead(q) = lastSec[q] .. lastSec[q] + TIME_INDEX - 1
    BY DEF Ahead
  <2>3. ASSUME NEW sec \in lastSec[q] + 1 .. lastSec[q] + 1 + TIME_INDEX - 1
        PROVE  sec \in lastSec[q] .. lastSec[q] + TIME_INDEX - 1 \/ sec = next
    BY <1>2, TimeIndexAssumption
  <2>5. \A sec \in lastSec[q] + 1 .. lastSec[q] + 1 + TIME_INDEX - 1 : sec # lastSec[q]
    BY <1>2, TimeIndexAssumption
  <2>4. ASSUME NEW sec \in Ahead(q) PROVE sec \in Ahead(q)' \/ sec = lastSec[q]
    BY <1>2, <2>1, <2>2, TimeIndexAssumption
  <2> QED
    BY <2>1, <2>2, <2>3, <2>4, <2>5
<1>6. ASSUME NEW c \in Cell PROVE c \in Cells(q)' <=> c \in Cells(q)
  <2>1. c[2] \in Nat
    BY DEF Cell
  <2>2. Held(q, c[1], c[2])' <=> c[2] < pktRepoCnt[q][ReadTimeIndex(c[1])]
    BY <1>1 DEF Held
  <2>3. CASE c[1] = lastSec[q]
    <3>1. ~Held(q, c[1], c[2])
      BY <1>1, <1>2, <2>1, <2>3 DEF Held, FirstLeft
    <3> QED
      BY <1>5, <2>3, <3>1 DEF Cells
  <2>4. CASE c[1] # lastSec[q]
    <3>1. Held(q, c[1], c[2]) <=> Held(q, c[1], c[2])'
      BY <2>2, <2>4 DEF Held
    <3>2. Held(q, c[1], c[2])' => c[1] # next
      BY <1>1, <1>4, <2>1, <2>2
    <3> QED
      BY <1>5, <2>4, <3>1, <3>2 DEF Cells
  <2> QED
    BY <2>3, <2>4
<1>7. Cells(q)' = Cells(q)
  BY <1>6 DEF Cells
<1>8. QueueInv(q)'
  BY <1>1, <1>7, QueueStays DEF RecordInv, Contents
<1> QED
  BY <1>1, <1>3, <1>4, <1>5, <1>8, RouterKeepsOthers

LEMMA StepRecords ==
  ASSUME Timely, TypeOK, CounterInv, ClockInv, RecordInv, [Next]_vars
  PROVE  RecordInv'
<1>1. CASE Tick \/ SetPacketProcessing \/ UNCHANGED vars
  BY <1>1, OthersKeepRecords
<1>2. CASE Receive \/ KeepIp \/ LeaveOther \/ CheckBusy \/ CheckRoom
  BY <1>2, CallbackKeepsRecords
<1>3. CASE Fill
  BY <1>3, FillKeepsRecords
<1>4. CASE LoadCnt
  BY <1>4, LoadKeepsRecords
<1>5. CASE StoreCnt
  BY <1>5, StoreKeepsRecords
<1>6. ASSUME NEW q \in Routers, RouterStep(q) PROVE RecordInv'
  <2>1. CASE Decode(q)
    BY <2>1, DecodeKeepsRecords
  <2>2. CASE Release(q)
    BY <2>2, ReleaseKeepsRecords
  <2>3. CASE Poll(q) \/ TakeSlot(q) \/ MarkBusy(q) \/ LoadDec(q) \/ StoreDec(q) \/ ZeroCnt(q)
    BY <2>3, WalkKeepsRecords
  <2> QED
    BY <1>6, <2>1, <2>2, <2>3 DEF RouterStep
<1> QED
  BY <1>1, <1>2, <1>3, <1>4, <1>5, <1>6 DEF Next, ListenerStep

RingInv == TypeOK /\ CounterInv /\ ClockInv /\ RecordInv

\* Within Timely the records are where the counters and indices say: what a
\* router has yet to decode is, in order, what the listener stored for it.
THEOREM RecordsInvariant ==
  ASSUME Timely PROVE Spec => []RingInv
<1>1. Init => RingInv
  BY InitCounters, InitClock, InitRecords DEF RingInv
<1>2. RingInv /\ [Next]_vars => RingInv'
  BY StepTypes, StepCounters, StepClock, StepRecords DEF RingInv
<1> QED
  BY <1>1, <1>2, PTL DEF Spec

\* A packet stored and not yet decoded is in a cell of its router.
LEMMA LeftIsLive ==
  ASSUME RingInv PROVE NothingLost
<1> SUFFICES ASSUME NEW r \in Routers, NEW n \in Len(decoded[r]) + 1 .. Len(stored[r])
             PROVE  \E s \in TimeSlots, k \in 0 .. MAX_LEN - 1 :
                      Live(r, s, k) /\ pktRepository[r][s][k] = stored[r][n]
  BY DEF NothingLost
<1> USE DEF RingInv
<1>1. PICK c \in Cells(r) : Contents(r)[c].id = n
  BY DEF RecordInv, QueueInv, HoldsQueue
<1>2. Contents(r)[c] = stored[r][n]
  BY <1>1 DEF RecordInv, QueueInv, HoldsQueue
<1> DEFINE s == ReadTimeIndex(c[1])
           k == c[2]
<1>3. /\ s \in TimeSlots /\ k \in 0 .. MAX_LEN - 1 /\ c \in Cell
      /\ c[1] \in Ahead(r) /\ Held(r, c[1], c[2])
  BY CellsAllocated
<1>4. pktRepository[r][s][k] = stored[r][n]
  BY <1>2, <1>3 DEF Contents
<1>5. Live(r, s, k)
  <2>1. Draining(r, s) <=> (c[1] = lastSec[r] /\ rpc[r] # "walk")
    BY <1>3, DrainsFirst DEF Draining
  <2>2. recIdx[r] \in Nat /\ k \in Nat
    BY <1>3 DEF TypeOK
  <2>3. FirstLeft(r) <= k => recIdx[r] <= k
    BY <2>2 DEF FirstLeft
  <2> QED
    BY <1>3, <2>1, <2>3 DEF Held, Live
<1> QED
  BY <1>3, <1>4, <1>5

\* Within Timely no packet the listener stored is lost: it is decoded, or lies
\* in a record that its router has yet to come to; the reset of the counter
\* forgets none and the lap overwrites none, whatever the number of routers,
\* the cap and the length of the ring.
THEOREM NothingLostCorrect ==
  ASSUME Timely PROVE Spec => []NothingLost
<1>1. RingInv => NothingLost
  BY LeftIsLive
<1> QED
  BY <1>1, RecordsInvariant, PTL

\* Within Timely a router decodes each record in a later second than that of
\* its stamp, and no more than 2 * ROUTER_LAG + 1 seconds later.
THEOREM FreshWhenDecodedCorrect ==
  ASSUME Timely PROVE Spec => []FreshWhenDecoded
<1>1. ASSUME RingInv, NEW r \in Routers, rpc[r] = "decode"
      PROVE  LET age == epochSec - pktRepository[r][lastTIndex[r]][recIdx[r]].tv_sec
             IN  2 - StampLag <= age /\ age <= 2 * ROUTER_LAG + 1
  <2> DEFINE stamp == pktRepository[r][lastTIndex[r]][recIdx[r]].tv_sec
  <2>1. Stamped(lastSec[r], stamp)
    BY <1>1, DecodeTakesHead DEF RingInv
  <2>2. /\ lastSec[r] < readSec[r] /\ readSec[r] <= lastSec[r] + ROUTER_LAG
        /\ readSec[r] <= epochSec /\ epochSec <= readSec[r] + ROUTER_LAG
    BY <1>1 DEF RingInv, ClockInv, RouterTimed
  <2>3. lastSec[r] \in Nat /\ readSec[r] \in Nat /\ epochSec \in Nat
    BY <1>1, Naturals DEF RingInv
  <2>4. stamp \in Nat
    <3>1. pktRepository[r][lastTIndex[r]][recIdx[r]] \in RawPkt
      BY <1>1, DecodeTakesHead DEF RingInv
    <3> QED
      BY <1>1, <3>1, ClockSlots DEF RawPkt, RingInv
  <2> HIDE DEF stamp
  <2>5. 2 - StampLag <= epochSec - stamp /\ epochSec - stamp <= 2 * ROUTER_LAG + 1
    BY <2>1, <2>2, <2>3, <2>4, PacketRingAssumption DEF Stamped, StampLag, Timely
  <2> QED
    BY <2>5 DEF stamp
<1>2. RingInv => FreshWhenDecoded
  BY <1>1 DEF FreshWhenDecoded
<1> QED
  BY <1>2, RecordsInvariant, PTL

\* Every step is a step of the queue, or none of its business: StoreCnt takes
\* a packet in, and Decode gives out the one that is next.
LEMMA StepHandsOver ==
  ASSUME RingInv, [Next]_vars
  PROVE  [RouterQueue!Next]_<<stored, decoded>>
<1> USE DEF RingInv, vars, clockVars, repoVars, listenerVars, routerVars, historyVars
<1>1. CASE StoreCnt
  <2>1. /\ stored' = [stored EXCEPT ![Row] = Append(@, NewPkt)] /\ decoded' = decoded
        /\ lpc = "store"
    BY <1>1 DEF StoreCnt
  <2>2. Row \in Routers /\ NewPkt \in RawPkt
    BY <2>1, NewRecord DEF CounterInv, ListenerCounts
  <2> QED
    BY <2>1, <2>2 DEF RouterQueue!Next, RouterQueue!Accept
<1>2. ASSUME NEW q \in Routers, Decode(q) PROVE RouterQueue!Next
  <2>1. /\ decoded' = [decoded EXCEPT
                         ![q] = Append(@, pktRepository[q][lastTIndex[q]][recIdx[q]])]
        /\ stored' = stored /\ rpc[q] = "decode"
    BY <1>2 DEF Decode
  <2>2. /\ Len(decoded[q]) < Len(stored[q])
        /\ pktRepository[q][lastTIndex[q]][recIdx[q]] = stored[q][Len(decoded[q]) + 1]
    BY <2>1, DecodeTakesHead
  <2>3. RouterQueue!Deliver(q)
    BY <2>1, <2>2 DEF RouterQueue!Deliver
  <2> QED
    BY <2>3 DEF RouterQueue!Next
<1>3. ASSUME NEW q \in Routers, RouterStep(q), ~Decode(q)
      PROVE  UNCHANGED <<stored, decoded>>
  BY <1>3 DEF RouterStep, Poll, TakeSlot, MarkBusy, LoadDec, StoreDec, ZeroCnt, Release
<1>4. CASE Tick \/ SetPacketProcessing \/ UNCHANGED vars \/ (ListenerStep /\ ~StoreCnt)
  BY <1>4 DEF Tick, SetPacketProcessing, ListenerStep, Receive, KeepIp, LeaveOther,
              CheckBusy, CheckRoom, Fill, LoadCnt
<1> QED
  BY <1>1, <1>2, <1>3, <1>4 DEF Next, ListenerStep

\* Within Timely the unlocked ring implements a reliable queue from the
\* listener to each router: PacketRing refines Handoff.
THEOREM ReliableQueueCorrect ==
  ASSUME Timely PROVE Spec => ReliableQueue
<1>1. Init => RouterQueue!Init
  BY DEF Init, RouterQueue!Init
<1>2. RingInv /\ [Next]_vars => [RouterQueue!Next]_<<stored, decoded>>
  BY StepHandsOver
<1> QED
  BY <1>1, <1>2, RecordsInvariant, PTL DEF Spec, ReliableQueue, RouterQueue!Spec

-----------------------------------------------------------------------------
(* The round robin, under Timely.                                           *)

\* The routers passed since router b, on the way to p.
Passed(q, b, p) == IF b < p THEN b < q /\ q < p ELSE b < q \/ q < p

\* What is in the routers' slots, n, when their filling began with router b,
\* perhaps in the middle of b's turn, and router p has had k packets of its.
RoundFrom(b, p, k, n) ==
  IF p = b
  THEN \/ n[b] <= k /\ \A q \in Routers \ {b} : n[q] = 0
       \/ k < n[b] /\ \A q \in Routers \ {b} : n[q] = MAX_PKT
  ELSE /\ n[b] > 0 /\ n[p] = k
       /\ \A q \in Routers \ {b, p} : n[q] = IF Passed(q, b, p) THEN MAX_PKT ELSE 0

Round(p, k, n) == \E b \in Routers : RoundFrom(b, p, k, n)

Fills(s) == [q \in Routers |-> pktRepoCnt[q][s]]

Empty(s) == \A q \in Routers : pktRepoCnt[q][s] = 0

\* No packet was torn into the slot of the second clk, and no router has come
\* to it: then the turns alone say what it holds.
Undisturbed(clk) ==
  /\ REREADS => WriteTimeIndex(clk) # 0
  /\ \A r \in Routers : readSec[r] <= clk + 1

InTurn(s) == Empty(s) \/ (pTidx = s /\ Round(routerToProcess, noOfPackets, Fills(s)))

TurnInv ==
  /\ lpc \notin {"idle", "index"} => pTidx = tIdx
  /\ ~REREADS => tIdx # TIME_INDEX
  /\ MAX_PKT > 0 => noOfPackets < MAX_PKT
  /\ \A r \in Routers, s \in TimeSlots :
       pktRepoBusy[r][s] => rpc[r] # "walk" /\ lastTIndex[r] = s
  /\ MAX_PKT > 0 /\ Undisturbed(lClock) => InTurn(WriteTimeIndex(lClock))

\* One packet more, and perhaps the next router's turn.
LEMMA RoundGoesOn ==
  ASSUME NEW p \in Routers, NEW k \in Nat, k < MAX_PKT,
         NEW n \in [Routers -> Nat], NEW m \in [Routers -> Nat],
         m[p] = n[p] + 1, \A q \in Routers \ {p} : m[q] = n[q],
         \A q \in Routers : m[q] <= MAX_PKT,
         (\A q \in Routers : n[q] = 0) \/ Round(p, k, n),
         NEW next, next = IF p + 1 >= ROUTERS THEN 0 ELSE p + 1
  PROVE  IF k + 1 >= MAX_PKT THEN Round(next, 0, m) ELSE Round(p, k + 1, m)
<1>0. /\ MAX_PKT \in Nat /\ ROUTERS \in Nat /\ ROUTERS > 0
      /\ Routers = 0 .. ROUTERS - 1 /\ next \in Routers
  BY SlotLimits, PacketRingAssumption DEF Routers
<1>1. PICK b \in Routers : \/ b = p /\ \A q \in Routers : n[q] = 0
                           \/ RoundFrom(b, p, k, n)
  BY DEF Round
<1>2. CASE b = p /\ n[p] <= k /\ \A q \in Routers \ {p} : n[q] = 0
  <2>1. CASE k + 1 >= MAX_PKT
    <3>1. CASE next = p
      <4>1. \A q \in Routers : q = p
        BY <1>0, <3>1
      <4>2. RoundFrom(p, next, 0, m)
        BY <3>1, <4>1 DEF RoundFrom
      <4> QED
        BY <2>1, <4>2 DEF Round
    <3>2. CASE next # p
      <4>1. \A q \in Routers \ {p, next} : ~Passed(q, p, next)
        BY <1>0, <3>2 DEF Passed
      <4>2. RoundFrom(p, next, 0, m)
        BY <1>0, <1>2, <3>2, <4>1 DEF RoundFrom
      <4> QED
        BY <2>1, <4>2 DEF Round
    <3> QED
      BY <3>1, <3>2
  <2>2. CASE ~(k + 1 >= MAX_PKT)
    <3>1. RoundFrom(p, p, k + 1, m)
      BY <1>2 DEF RoundFrom
    <3> QED
      BY <2>2, <3>1 DEF Round
  <2> QED
    BY <2>1, <2>2
<1>3. CASE b = p /\ k < n[p] /\ \A q \in Routers \ {p} : n[q] = MAX_PKT
  <2>1. ~(k + 1 >= MAX_PKT)
    BY <1>0, <1>3
  <2>2. RoundFrom(p, p, k + 1, m)
    BY <1>3 DEF RoundFrom
  <2> QED
    BY <2>1, <2>2 DEF Round
<1>4. CASE b # p /\ RoundFrom(b, p, k, n)
  <2>0. /\ n[b] > 0 /\ n[p] = k /\ m[b] = n[b]
        /\ \A q \in Routers \ {b, p} : n[q] = IF Passed(q, b, p) THEN MAX_PKT ELSE 0
    BY <1>4 DEF RoundFrom
  <2>1. CASE k + 1 >= MAX_PKT
    <3>0. m[p] = MAX_PKT
      BY <1>0, <2>0, <2>1
    <3>1. CASE next = b
      <4>1. \A q \in Routers \ {b, p} : Passed(q, b, p)
        <5>1. CASE b = p + 1
          BY <1>0, <5>1 DEF Passed
        <5>2. CASE b = 0 /\ p = ROUTERS - 1
          BY <1>0, <5>2 DEF Passed
        <5>3. p \in 0 .. ROUTERS - 1 /\ b = IF p + 1 >= ROUTERS THEN 0 ELSE p + 1
          BY <1>0, <3>1
        <5>4. b = p + 1 \/ (b = 0 /\ p = ROUTERS - 1)
          BY <1>0, <5>3
        <5> QED
          BY <5>1, <5>2, <5>4
      <4>2. RoundFrom(b, next, 0, m)
        BY <2>0, <3>0, <3>1, <4>1 DEF RoundFrom
      <4> QED
        BY <2>1, <4>2 DEF Round
    <3>2. CASE next # b
      <4>1. /\ next # p /\ Passed(p, b, next) /\ ~Passed(next, b, p)
            /\ \A q \in Routers \ {b, p, next} : Passed(q, b, next) <=> Passed(q, b, p)
        BY <1>0, <1>4, <3>2 DEF Passed
      <4>2. m[next] = 0
        BY <1>0, <2>0, <3>2, <4>1
      <4>3. \A q \in Routers \ {b, next} : m[q] = IF Passed(q, b, next) THEN MAX_PKT ELSE 0
        BY <2>0, <3>0, <4>1
      <4>4. RoundFrom(b, next, 0, m)
        BY <2>0, <3>2, <4>2, <4>3 DEF RoundFrom
      <4> QED
        BY <2>1, <4>4 DEF Round
    <3> QED
      BY <3>1, <3>2
  <2>2. CASE ~(k + 1 >= MAX_PKT)
    <3>1. RoundFrom(b, p, k + 1, m)
      BY <1>4, <2>0 DEF RoundFrom
    <3> QED
      BY <2>2, <3>1 DEF Round
  <2> QED
    BY <2>1, <2>2
<1> QED
  BY <1>1, <1>2, <1>3, <1>4 DEF RoundFrom

\* In a round a router that has its share leaves no room with the others.
LEMMA FullTogether ==
  ASSUME NEW p \in Routers, NEW k \in Nat, k < MAX_PKT,
         NEW n \in [Routers -> Nat], \A q \in Routers : n[q] <= MAX_PKT,
         Round(p, k, n), n[p] >= MAX_PKT
  PROVE  \A q \in Routers : n[q] >= MAX_PKT
<1>1. PICK b \in Routers : RoundFrom(b, p, k, n)
  BY DEF Round
<1>2. MAX_PKT \in Nat
  BY SlotLimits
<1> QED
  BY <1>1, <1>2 DEF RoundFrom

\* A slot of a second after the listener's last one is empty, while no router
\* has come to it: every slot of the lap past the listener is.
LEMMA NextSlotEmpty ==
  ASSUME Timely, TypeOK, ClockInv, RecordInv,
         NEW clk \in Nat, lClock < clk, clk <= epochSec + NIC_AHEAD,
         \A r \in Routers : readSec[r] <= clk + 1
  PROVE  Empty(WriteTimeIndex(clk))
<1> SUFFICES ASSUME NEW r \in Routers PROVE pktRepoCnt[r][WriteTimeIndex(clk)] = 0
  BY DEF Empty
<1>1. /\ epochSec \in Nat /\ lClock \in Nat /\ readSec[r] \in Nat /\ lastSec[r] \in Nat
      /\ clk + 1 \in Nat /\ NIC_AHEAD \in Nat
  BY Naturals, PacketRingAssumption
<1>2. /\ lastSec[r] <= readSec[r] /\ readSec[r] <= lastSec[r] + ROUTER_LAG
      /\ readSec[r] <= epochSec /\ epochSec <= readSec[r] + ROUTER_LAG
      /\ readSec[r] <= clk + 1
  BY DEF ClockInv, RouterTimed
<1>3. lastSec[r] <= clk + 1 /\ clk + 1 < lastSec[r] + TIME_INDEX
  BY <1>1, <1>2, PacketRingAssumption, TimeIndexAssumption DEF Timely
<1>4. clk + 1 \in Ahead(r)
  BY <1>1, <1>3, TimeIndexAssumption DEF Ahead
<1>5. WriteTimeIndex(clk) = ReadTimeIndex(clk + 1) /\ WriteTimeIndex(clk) \in TimeSlots
  BY WriteIsReadNext
<1>6. ~(clk + 1 <= lClock + 1)
  BY <1>1
<1>7. pktRepoCnt[r][WriteTimeIndex(clk)] \in Nat
  BY <1>5, Naturals
<1> QED
  BY <1>4, <1>5, <1>6, <1>7 DEF RecordInv, ListenerPlaces

\* A router that has not come to the listener's slot works on another one.
LEMMA UndisturbedElsewhere ==
  ASSUME Timely, TypeOK, ClockInv, RecordInv, Undisturbed(lClock), NEW q \in Routers,
         rpc[q] # "walk"
  PROVE  lastTIndex[q] # WriteTimeIndex(lClock)
<1>1. /\ epochSec \in Nat /\ lClock \in Nat /\ readSec[q] \in Nat /\ lastSec[q] \in Nat
  BY Naturals
<1>2. /\ lastSec[q] < readSec[q] /\ readSec[q] <= lastSec[q] + ROUTER_LAG
      /\ readSec[q] <= epochSec /\ epochSec <= readSec[q] + ROUTER_LAG
      /\ readSec[q] <= lClock + 1 /\ lClock <= epochSec + NIC_AHEAD
      /\ lastTIndex[q] = ReadTimeIndex(lastSec[q])
  BY DEF ClockInv, RouterTimed, Undisturbed, RecordInv, ListenerPlaces
<1>3. lastSec[q] < lClock + 1 /\ lClock + 1 < lastSec[q] + TIME_INDEX
  BY <1>1, <1>2, PacketRingAssumption, TimeIndexAssumption DEF Timely
<1> QED
  BY <1>1, <1>2, <1>3, SlotsApart, WriteIsReadNext

\* A step that moves nothing of the round robin.
LEMMA TurnStays ==
  ASSUME TurnInv,
         UNCHANGED <<pktRepoBusy, pktRepoCnt, lClock, tIdx, pTidx, routerToProcess,
                     noOfPackets, rpc, lastTIndex, readSec>>,
         lpc' \in {"idle", "index"} \/ lpc \notin {"idle", "index"}
  PROVE  TurnInv'
<1>1. Fills(WriteTimeIndex(lClock))' = Fills(WriteTimeIndex(lClock))
  BY DEF Fills
<1> QED
  BY <1>1 DEF TurnInv, Undisturbed, InTurn, Empty, Round, RoundFrom

LEMMA InitTurn == Init => TurnInv
<1> SUFFICES ASSUME Init PROVE TurnInv
  OBVIOUS
<1>1. lClock \in Nat
  BY InitCounters, Naturals
<1>2. WriteTimeIndex(lClock) \in TimeSlots
  BY <1>1, WriteIsReadNext
<1>3. Empty(WriteTimeIndex(lClock))
  BY <1>2, RoutersInRows DEF Init, Empty
<1> QED
  BY <1>3, RoutersInRows, SlotLimits, TimeIndexAssumption DEF Init, TurnInv, InTurn

\* The clock goes on: the new slot is empty.
LEMMA ReceiveKeepsTurn ==
  ASSUME Timely, TypeOK, ClockInv, RecordInv, TurnInv, Receive
  PROVE  TurnInv'
<1> USE DEF clockVars, repoVars, listenerVars, routerVars, historyVars
<1>1. /\ UNCHANGED <<epochSec, pktRepoBusy, pktRepoCnt, tIdx, pTidx, routerToProcess,
                     noOfPackets, rpc, lastTIndex, readSec>>
      /\ lpc' = "index" /\ lClock' \in ListenerClocks
  BY DEF Receive
<1>2. PICK clk \in Nat : /\ clk = lClock' /\ lClock <= clk /\ clk <= epochSec + NIC_AHEAD
                         /\ epochSec <= clk + NIC_BEHIND
  <2>1. lClock' \in Nat
    BY <1>1, ClockSlots
  <2>2. PICK d \in -NIC_BEHIND .. NIC_AHEAD : lClock' = epochSec + d /\ lClock' >= lClock
    BY <1>1 DEF ListenerClocks
  <2> QED
    BY <2>1, <2>2, Naturals, PacketRingAssumption
<1>3. CASE clk = lClock
  BY <1>1, <1>2, <1>3, TurnStays
<1>4. CASE clk # lClock
  <2>1. lClock < clk
    BY <1>2, <1>4, Naturals
  <2>2. \A r \in Routers : readSec[r] <= clk + 1
    <3> SUFFICES ASSUME NEW r \in Routers PROVE readSec[r] <= clk + 1
      OBVIOUS
    <3>1. readSec[r] <= epochSec /\ readSec[r] \in Nat /\ epochSec \in Nat
      BY Naturals DEF ClockInv, RouterTimed
    <3>2. NIC_BEHIND <= 1 /\ NIC_BEHIND \in Nat
      BY PacketRingAssumption DEF Timely
    <3>3. clk \in Nat /\ epochSec <= clk + NIC_BEHIND
      BY <1>2
    <3> QED
      BY <3>1, <3>2, <3>3
  <2>3. Empty(WriteTimeIndex(clk))
    BY <1>2, <2>1, <2>2, NextSlotEmpty
  <2>4. Empty(WriteTimeIndex(lClock))'
    BY <1>1, <1>2, <2>3 DEF Empty
  <2> QED
    BY <1>1, <2>4 DEF TurnInv, InTurn
<1> QED
  BY <1>3, <1>4

\* The listener enters the slot of its clock: an empty one, or the one it was
\* in, where it goes on.
LEMMA EnterKeepsTurn ==
  ASSUME Timely, TypeOK, ClockInv, RecordInv, TurnInv, KeepIp \/ LeaveOther
  PROVE  TurnInv'
<1> USE DEF clockVars, repoVars, listenerVars, routerVars, historyVars
<1>1. /\ UNCHANGED <<epochSec, pktRepoBusy, pktRepoCnt, rpc, lastTIndex, readSec>>
      /\ lpc = "index" /\ EnterTimeIndex
  BY DEF KeepIp, LeaveOther
<1>2. /\ pTidx' = tIdx' /\ tIdx' = WriteIndex(lClock, lClock')
      /\ \/ pTidx = tIdx' /\ routerToProcess' = routerToProcess /\ noOfPackets' = noOfPackets
         \/ pTidx # tIdx' /\ routerToProcess' = 0 /\ noOfPackets' = 0
      /\ lClock' = lClock \/ (REREADS /\ lClock' = epochSec)
  BY <1>1 DEF EnterTimeIndex, LastRead
<1>3. /\ MAX_PKT > 0 => noOfPackets' < MAX_PKT
      /\ ~REREADS => tIdx' # TIME_INDEX
      /\ \A r \in Routers, s \in TimeSlots :
           pktRepoBusy'[r][s] => rpc'[r] # "walk" /\ lastTIndex'[r] = s
  <2>1. ~REREADS => tIdx' \in TimeSlots
    BY <1>1, EntersSlot
  <2> QED
    BY <1>1, <1>2, <2>1, TimeIndexAssumption DEF TurnInv, TimeSlots
<1> DEFINE s == WriteTimeIndex(lClock)
<1>4. MAX_PKT > 0 /\ Undisturbed(lClock)' => InTurn(s)'
  <2> SUFFICES ASSUME MAX_PKT > 0, Undisturbed(lClock)' PROVE InTurn(s)'
    OBVIOUS
  <2>1. CASE lClock' = lClock
    <3>1. Undisturbed(lClock)
      BY <1>1, <2>1 DEF Undisturbed
    <3>2. InTurn(s)
      BY <3>1 DEF TurnInv
    <3>3. tIdx' = s
      BY <1>2, <2>1 DEF WriteTimeIndex
    <3>4. CASE Empty(s)
      BY <1>1, <2>1, <3>4 DEF InTurn, Empty
    <3>5. CASE ~Empty(s)
      <4>1. /\ pTidx' = s /\ Round(routerToProcess, noOfPackets, Fills(s))
            /\ routerToProcess' = routerToProcess /\ noOfPackets' = noOfPackets
        BY <1>2, <3>2, <3>3, <3>5 DEF InTurn
      <4>2. Fills(s)' = Fills(s)
        BY <1>1, <2>1 DEF Fills
      <4> QED
        BY <2>1, <4>1, <4>2 DEF InTurn, Round, RoundFrom
    <3> QED
      BY <3>4, <3>5
  <2>2. CASE lClock' # lClock
    <3>1. REREADS /\ lClock' = epochSec /\ epochSec \in Nat /\ lClock \in Nat
          /\ NIC_AHEAD = 0
      BY <1>2, <2>2, Naturals, PacketRingAssumption
    <3>2. lClock < epochSec
      BY <2>2, <3>1 DEF RecordInv, ListenerPlaces
    <3>3. \A r \in Routers : readSec[r] <= epochSec + 1
      BY <1>1, <3>1 DEF Undisturbed
    <3>4. Empty(WriteTimeIndex(epochSec))
      BY <3>1, <3>2, <3>3, NextSlotEmpty
    <3> QED
      BY <1>1, <3>1, <3>4 DEF InTurn, Empty
  <2> QED
    BY <2>1, <2>2
<1> QED
  BY <1>2, <1>3, <1>4 DEF TurnInv

\* A slot in turn takes one packet of the router whose turn it is.
LEMMA StoreKeepsTurn ==
  ASSUME Timely, TypeOK, CounterInv, ClockInv, RecordInv, TurnInv, StoreCnt, CounterInv', TypeOK'
  PROVE  TurnInv'
<1> USE DEF clockVars, repoVars, listenerVars, routerVars, historyVars
<1> DEFINE s == WriteTimeIndex(lClock)
           p == routerToProcess
           k == noOfPackets
           n == Fills(s)
           m == Fills(s)'
<1>1. /\ UNCHANGED <<pktRepoBusy, lClock, tIdx, pTidx, rpc, lastTIndex, readSec>>
      /\ lpc = "store" /\ lpc' = "idle"
      /\ pktRepoCnt' = [pktRepoCnt EXCEPT ![Row][Slot] = cntLoad + 1]
      /\ IF k + 1 >= MAX_PKT THEN routerToProcess' = NextRouter /\ noOfPackets' = 0
                             ELSE routerToProcess' = p /\ noOfPackets' = k + 1
  BY DEF StoreCnt
<1>2. /\ Row \in Routers /\ Row \in Rows /\ Slot \in TimeSlots
      /\ cntLoad = pktRepoCnt[Row][Slot] /\ Slot = s
      /\ pktRepoCnt \in [Rows -> [TimeSlots -> Nat]]
      /\ p \in Routers /\ k \in Nat /\ tIdx \in WriteIndices
  BY <1>1, InArrays
     DEF TypeOK, CounterInv, ListenerCounts, RecordInv, ListenerPlaces, ClockInv, ListenerTimed
<1>3. MAX_PKT > 0 => noOfPackets' < MAX_PKT
  <2>1. MAX_PKT \in Nat
    BY SlotLimits
  <2> QED
    BY <1>1, <1>2, <2>1
<1>4. ASSUME MAX_PKT > 0, Undisturbed(lClock)' PROVE InTurn(s)'
  <2>1. Undisturbed(lClock) /\ s' = s
    BY <1>1, <1>4 DEF Undisturbed
  <2>2. InTurn(s) /\ k < MAX_PKT
    BY <1>4, <2>1 DEF TurnInv
  <2>3. pTidx = s /\ Row = p
    <3>1. pTidx = tIdx
      BY <1>1 DEF TurnInv
    <3>2. tIdx # TIME_INDEX
      <4>1. CASE ~REREADS
        BY <4>1 DEF TurnInv
      <4>2. CASE REREADS
        BY <1>2, <2>1, <4>2 DEF Undisturbed, Slot, ColumnOf
      <4> QED
        BY <4>1, <4>2
    <3> QED
      BY <1>2, <3>1, <3>2 DEF Row, Slot, RowOf, ColumnOf
  <2>4. n \in [Routers -> Nat] /\ m \in [Routers -> Nat]
    <3>1. s \in TimeSlots
      BY <1>2
    <3>2. pktRepoCnt' \in [Rows -> [TimeSlots -> Nat]]
      BY DEF TypeOK
    <3>3. n \in [Routers -> Nat]
      BY <1>2, <3>1, RoutersInRows DEF Fills
    <3>4. m = [q \in Routers |-> pktRepoCnt'[q][s]]
      BY <2>1 DEF Fills
    <3>5. m \in [Routers -> Nat]
      <4> HIDE DEF m
      <4> QED
        BY <3>1, <3>2, <3>4, RoutersInRows
    <3> QED
      BY <3>3, <3>5
  <2>5. m[p] = n[p] + 1 /\ \A q \in Routers \ {p} : m[q] = n[q]
    BY <1>1, <1>2, <2>1, <2>3, RoutersInRows DEF Fills
  <2>6. \A q \in Routers : m[q] <= MAX_PKT
    BY <1>2, <2>1, RoutersInRows DEF Fills, CounterInv
  <2>7. (\A q \in Routers : n[q] = 0) \/ Round(p, k, n)
    BY <2>2 DEF InTurn, Empty, Fills
  <2>8. IF k + 1 >= MAX_PKT THEN Round(NextRouter, 0, m) ELSE Round(p, k + 1, m)
    <3> HIDE DEF n, m
    <3> QED
      BY <1>2, <2>2, <2>4, <2>5, <2>6, <2>7, RoundGoesOn DEF NextRouter
  <2>9. Round(routerToProcess', noOfPackets', m)
    BY <1>1, <2>8
  <2> QED
    BY <1>1, <2>1, <2>3, <2>9 DEF InTurn, Round, RoundFrom
<1> QED
  BY <1>1, <1>3, <1>4 DEF TurnInv

\* A router marks and clears its own slot, and counts down another slot than
\* the listener's.
LEMMA RouterKeepsTurn ==
  ASSUME Timely, TypeOK, CounterInv, ClockInv, RecordInv, TurnInv, NEW q \in Routers,
         RouterStep(q)
  PROVE  TurnInv'
<1> USE DEF clockVars, repoVars, listenerVars, routerVars, historyVars
<1>1. /\ UNCHANGED listenerVars
      /\ \A r \in Routers : r # q => rpc'[r] = rpc[r] /\ lastTIndex'[r] = lastTIndex[r]
      /\ \A r \in Routers, s \in TimeSlots :
           (r # q \/ s # lastTIndex[q]) => pktRepoCnt'[r][s] = pktRepoCnt[r][s]
  BY RouterOwn
<1>2. \A r \in Routers, s \in TimeSlots :
        pktRepoBusy'[r][s] => rpc'[r] # "walk" /\ lastTIndex'[r] = s
  <2>0. /\ pktRepoBusy \in [Rows -> [TimeSlots -> BOOLEAN]]
        /\ rpc \in [Routers -> {"walk", "mark", "decode", "load", "store", "zero", "release"}]
        /\ lastTIndex \in [Routers -> TimeSlots]
        /\ \A r \in Routers, s \in TimeSlots :
             pktRepoBusy[r][s] => rpc[r] # "walk" /\ lastTIndex[r] = s
    BY DEF TypeOK, TurnInv
  <2>1. CASE MarkBusy(q)
    BY <2>0, <2>1, RoutersInRows DEF MarkBusy
  <2>2. CASE Release(q)
    BY <2>0, <2>2, RoutersInRows DEF Release
  <2>3. CASE ~MarkBusy(q) /\ ~Release(q)
    <3>1. /\ pktRepoBusy' = pktRepoBusy /\ lastTIndex' = lastTIndex
          /\ rpc[q] # "walk" => rpc'[q] # "walk"
      BY <2>0, <2>3 DEF RouterStep, Poll, TakeSlot, Decode, LoadDec, StoreDec, ZeroCnt
    <3> QED
      BY <1>1, <2>0, <3>1
  <2> QED
    BY <2>1, <2>2, <2>3
<1>3. ASSUME MAX_PKT > 0, Undisturbed(lClock)' PROVE InTurn(WriteTimeIndex(lClock))'
  <2> DEFINE s == WriteTimeIndex(lClock)
  <2>1. lClock' = lClock /\ s' = s /\ s \in TimeSlots
    BY <1>1, Naturals, WriteIsReadNext
  <2>2. Undisturbed(lClock)
    <3>1. CASE Poll(q)
      <4>1. readSec' = [readSec EXCEPT ![q] = epochSec] /\ readSec \in [Routers -> Seconds]
        BY <3>1 DEF Poll, TypeOK
      <4>2. /\ readSec[q] <= epochSec
            /\ readSec[q] \in Nat /\ epochSec \in Nat /\ lClock \in Nat
        BY Naturals DEF ClockInv, RouterTimed
      <4>3. \A r \in Routers : readSec'[r] <= lClock + 1
        BY <1>3, <2>1 DEF Undisturbed
      <4>4. epochSec <= lClock + 1
        BY <4>1, <4>3
      <4>5. readSec[q] <= lClock + 1
        BY <4>2, <4>4
      <4>6. \A r \in Routers : readSec[r] <= lClock + 1
        BY <4>1, <4>3, <4>5
      <4> QED
        BY <1>3, <2>1, <4>6 DEF Undisturbed
    <3>2. CASE ~Poll(q)
      <4>1. readSec' = readSec
        BY <3>2 DEF RouterStep, TakeSlot, MarkBusy, Decode, LoadDec, StoreDec, ZeroCnt, Release
      <4> QED
        BY <1>3, <2>1, <4>1 DEF Undisturbed
    <3> QED
      BY <3>1, <3>2
  <2>3. \A r \in Routers : pktRepoCnt'[r][s] = pktRepoCnt[r][s]
    <3>1. CASE rpc[q] = "walk"
      <4>1. pktRepoCnt' = pktRepoCnt
        BY <3>1 DEF RouterStep, Poll, TakeSlot, MarkBusy, Decode, LoadDec, StoreDec, ZeroCnt,
                    Release
      <4> QED
        BY <4>1
    <3>2. CASE rpc[q] # "walk"
      <4>1. s # lastTIndex[q]
        BY <2>2, <3>2, UndisturbedElsewhere
      <4> QED
        BY <1>1, <2>1, <4>1
    <3> QED
      BY <3>1, <3>2
  <2>4. InTurn(s)
    BY <1>3, <2>2 DEF TurnInv
  <2>5. CASE Empty(s)
    BY <2>1, <2>3, <2>5 DEF InTurn, Empty
  <2>6. CASE ~Empty(s)
    <3>1. Fills(s)' = Fills(s)
      BY <2>1, <2>3 DEF Fills
    <3>2. pTidx = s /\ Round(routerToProcess, noOfPackets, Fills(s))
      BY <2>4, <2>6 DEF InTurn
    <3> QED
      BY <1>1, <2>1, <3>1, <3>2 DEF InTurn, Round, RoundFrom
  <2> QED
    BY <2>5, <2>6
<1> QED
  BY <1>1, <1>2, <1>3 DEF TurnInv

LEMMA StepTurn ==
  ASSUME Timely, RingInv, TurnInv, [Next]_vars
  PROVE  TurnInv'
<1> USE DEF RingInv
<1>1. CASE Tick \/ SetPacketProcessing \/ UNCHANGED vars
  BY <1>1, TurnStays
     DEF Tick, SetPacketProcessing, vars, clockVars, repoVars, listenerVars, routerVars
<1>2. CASE CheckBusy \/ CheckRoom \/ Fill \/ LoadCnt
  BY <1>2, TurnStays
     DEF CheckBusy, CheckRoom, Fill, LoadCnt, clockVars, repoVars, listenerVars, routerVars
<1>3. CASE Receive
  BY <1>3, ReceiveKeepsTurn
<1>4. CASE KeepIp \/ LeaveOther
  BY <1>4, EnterKeepsTurn
<1>5. CASE StoreCnt
  BY <1>5, StepTypes, StepCounters, StoreKeepsTurn
<1>6. ASSUME NEW q \in Routers, RouterStep(q) PROVE TurnInv'
  BY <1>6, RouterKeepsTurn
<1> QED
  BY <1>1, <1>2, <1>3, <1>4, <1>5, <1>6 DEF Next, ListenerStep

\* The busy flag is never met: a router marks the slot it drains, and the
\* listener is in another.
LEMMA NeverBusy ==
  ASSUME Timely, RingInv, TurnInv, lpc = "check", Row \in Routers
  PROVE  ~pktRepoBusy[Row][Slot]
<1> SUFFICES ASSUME pktRepoBusy[Row][Slot] PROVE FALSE
  OBVIOUS
<1> USE DEF RingInv
<1>1. Slot \in TimeSlots
  BY InArrays
<1>2. rpc[Row] # "walk" /\ lastTIndex[Row] = Slot
  BY <1>1 DEF TurnInv
<1>3. /\ Slot = ReadTimeIndex(lClock + 1) /\ lClock + 1 \in Ahead(Row)
      /\ lastSec[Row] < lClock + 1
  BY <1>2, ListenerAhead
<1>4. lClock + 1 = lastSec[Row]
  BY <1>2, <1>3, DrainsFirst
<1> QED
  BY <1>3, <1>4, Naturals

\* Within Timely, for every number of routers and every cap, the round robin
\* leaves a packet out only when the slots of all the routers are full.
THEOREM RefusedOnlyWhenFullCorrect ==
  ASSUME Timely PROVE Spec => RefusedOnlyWhenFull
<1>1. ASSUME RingInv, TurnInv, [Next]_vars, lpc \in {"check", "room"}, lpc' = "idle",
             packetProcessing = "on", REREADS => Slot # 0
      PROVE  \A r \in Routers : pktRepoCnt[r][Slot] >= MAX_PKT
  <2> USE DEF RingInv
  <2>0. MAX_PKT \in Nat /\ Slot \in TimeSlots
    BY <1>1, SlotLimits, InArrays
  <2>1. CASE MAX_PKT = 0
    BY <1>1, <2>0, <2>1, Naturals
  <2>2. CASE MAX_PKT > 0
    <3>1. /\ Slot = WriteTimeIndex(lClock) /\ pTidx = tIdx
          /\ \A r \in Routers : readSec[r] <= lClock + 1
      <4>1. \A r \in Routers : readSec[r] <= lClock + 1
        BY <1>1, ListenerAhead
      <4> QED
        BY <1>1, <4>1 DEF ClockInv, ListenerTimed, TurnInv
    <3>2. Undisturbed(lClock) /\ tIdx # TIME_INDEX
      BY <1>1, <3>1, TimeIndexAssumption DEF Undisturbed, TurnInv, Slot, ColumnOf
    <3>3. /\ Row = routerToProcess /\ Slot = tIdx /\ Row \in Routers
      BY <1>1, <3>2 DEF Row, Slot, RowOf, ColumnOf, TypeOK
    <3>4. CheckBusy \/ CheckRoom
      BY <1>1 DEF Next, ListenerStep, RouterStep, Tick, SetPacketProcessing, Receive, KeepIp,
                  LeaveOther, Fill, LoadCnt, StoreCnt, Poll, TakeSlot, MarkBusy, Decode, LoadDec,
                  StoreDec, ZeroCnt, Release, vars, listenerVars
    <3>5. CheckRoom /\ ~(pktRepoCnt[Row][Slot] < MAX_PKT)
      BY <1>1, <3>3, <3>4, NeverBusy DEF CheckBusy, CheckRoom, Room
    <3> DEFINE n == Fills(Slot)
    <3>6. n \in [Routers -> Nat] /\ n[Row] >= MAX_PKT /\ \A r \in Routers : n[r] <= MAX_PKT
      <4>1. \A r \in Routers : pktRepoCnt[r][Slot] \in Nat /\ pktRepoCnt[r][Slot] <= MAX_PKT
        BY <1>1, <2>0, Naturals, RoutersInRows DEF CounterInv
      <4> QED
        BY <2>0, <3>3, <3>5, <4>1 DEF Fills
    <3>7. Round(Row, noOfPackets, n)
      <4>1. InTurn(Slot)
        BY <1>1, <2>2, <3>1, <3>2 DEF TurnInv
      <4>2. ~Empty(Slot)
        BY <2>0, <2>2, <3>3, <3>6 DEF Empty, Fills
      <4> QED
        BY <3>3, <4>1, <4>2 DEF InTurn
    <3>8. noOfPackets \in Nat /\ noOfPackets < MAX_PKT
      BY <1>1, <2>2 DEF TypeOK, TurnInv
    <3>9. \A r \in Routers : n[r] >= MAX_PKT
      <4> HIDE DEF n
      <4> QED
        BY <3>3, <3>6, <3>7, <3>8, FullTogether
    <3> QED
      BY <3>9 DEF Fills
  <2> QED
    BY <2>0, <2>1, <2>2
<1>2. Init => TurnInv
  BY InitTurn, InitCounters
<1>3. ASSUME RingInv, TurnInv, [Next]_vars PROVE TurnInv'
  BY <1>3, StepTurn
<1>4. RingInv /\ TurnInv /\ [Next]_vars
      => [(/\ lpc \in {"check", "room"} /\ lpc' = "idle" /\ packetProcessing = "on"
           /\ REREADS => Slot # 0)
          => \A r \in Routers : pktRepoCnt[r][Slot] >= MAX_PKT]_vars
  BY <1>1
<1> QED
  BY <1>2, <1>3, <1>4, RecordsInvariant, PTL DEF Spec, RefusedOnlyWhenFull
=============================================================================
