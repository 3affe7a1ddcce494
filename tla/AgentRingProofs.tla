-------------------------- MODULE AgentRingProofs --------------------------
(***************************************************************************)
(* Proofs about AgentRing, for every number of routers, ring size, cap and *)
(* scheduling bound.                                                       *)
(*                                                                         *)
(* TypeOK needs only that a push under way is counted (PushCounted).       *)
(* ClockInv follows the seconds behind the indices and gives, with Timely, *)
(* NoOverlap.  CounterInv holds under any scheduling: it gives             *)
(* SlotWithinCap when the clock is read once, so that each lane has one    *)
(* router that pushes into it.  RecordInv says where the records are: with *)
(* both assumptions, the cells that the agent has yet to come to hold what *)
(* was pushed and is not sent, in order.  It gives NothingLost,            *)
(* SentBySecond and the refinement of Handoff.                             *)
(***************************************************************************)
EXTENDS AgentRing, TimeRingProofs

Places == {"idle", "index", "check", "copy", "load", "store"}

-----------------------------------------------------------------------------
(* What the actions need of the operators they call.                        *)

\* A push under way is one of the pushes allowed for.
PushCounted == \A q \in Routers : rpc[q] # "idle" => Len(pushed[q]) < MAX_PUSHED

\* The routers' rows, and the first lane.
LEMMA RowsOfRouters == /\ Routers \subseteq Rows /\ 0 \in Routers /\ 0 \in TimeSlots
                       /\ 0 \in WriteIndices /\ Seconds \subseteq Nat /\ 0 \in Seconds
  BY AgentRingAssumption, TimeIndexAssumption
     DEF Routers, Rows, TimeSlots, WriteIndices, Seconds

\* Wherever the macro leads a push, it is in the arrays, and in the column of
\* the second read last.
LEMMA PushInArrays ==
  ASSUME TypeOK, NEW q \in Routers
  PROVE  Row(q) \in Rows /\ Slot(q) \in TimeSlots
<1>1. idx[q] \in 0 .. TIME_INDEX /\ q \in 0 .. ROUTERS - 1
  BY DEF TypeOK, WriteIndices, Routers
<1> QED
  BY <1>1, AgentRingAssumption, TimeIndexAssumption
     DEF Row, Slot, RowOf, ColumnOf, Rows, TimeSlots

\* The message a push makes is one of the modelled messages.
LEMMA NewMessage ==
  ASSUME TypeOK, NEW q \in Routers, Len(pushed[q]) < MAX_PUSHED
  PROVE  Message(q) \in MPacket
<1>1. pushed[q] \in Seq(MPacket) /\ pushSec[q] \in Seconds
  BY DEF TypeOK
<1>2. Len(pushed[q]) \in Nat
  BY <1>1
<1> QED
  BY <1>1, <1>2, AgentRingAssumption DEF Message, MPacket

\* A lane's records stay messages when one is put at any key.
LEMMA PutInSeq ==
  ASSUME NEW records \in Seq(MPacket), NEW k \in Nat, NEW x \in MPacket
  PROVE  Put(records, k, x) \in Seq(MPacket)
<1>1. CASE k < Len(records)
  <2>1. k + 1 \in 1 .. Len(records)
    BY <1>1
  <2>2. [records EXCEPT ![k + 1] = x] \in Seq(MPacket)
    BY <2>1
  <2> QED
    BY <1>1, <2>2 DEF Put
<1>2. CASE ~(k < Len(records))
  BY <1>2 DEF Put
<1> QED
  BY <1>1, <1>2

\* Whatever key is read, a message is found.
LEMMA RecordInSet ==
  ASSUME NEW records \in Seq(MPacket), NEW k \in Nat
  PROVE  Record(records, k) \in MPacket
<1>1. CASE k < Len(records)
  BY <1>1 DEF Record
<1>2. CASE ~(k < Len(records))
  BY <1>2, RowsOfRouters, AgentRingAssumption DEF Record, Unset, MPacket
<1> QED
  BY <1>1, <1>2

\* After a lane the agent is at a lane again, and at a slot.
LEMMA LaneDoneTypes ==
  ASSUME TypeOK, LaneDone
  PROVE  lane' \in Routers /\ lastProcessedIndex' \in TimeSlots /\ lastSec' \in Nat
<1>1. lane \in 0 .. ROUTERS - 1 /\ lastProcessedIndex \in TimeSlots /\ lastSec \in Nat
  BY DEF TypeOK, Routers
<1>2. CASE lane + 1 < ROUTERS
  BY <1>1, <1>2, AgentRingAssumption DEF LaneDone, Routers
<1>3. CASE ~(lane + 1 < ROUTERS)
  BY <1>1, <1>3, RowsOfRouters, NextInRange DEF LaneDone
<1> QED
  BY <1>2, <1>3

-----------------------------------------------------------------------------
(* Types.                                                                   *)

LEMMA InitTypes == Init => TypeOK /\ PushCounted
<1> SUFFICES ASSUME Init PROVE TypeOK /\ PushCounted
  OBVIOUS
<1>1. epochSec \in Seconds /\ epochSec \in Nat
  BY AgentRingAssumption, TimeIndexAssumption DEF Init, Seconds
<1>2. ReadTimeIndex(epochSec) \in TimeSlots
  BY <1>1, ReadInRange
<1> QED
  BY <1>1, <1>2, RowsOfRouters DEF Init, TypeOK, PushCounted

\* Every step preserves the types.
LEMMA StepTypes == TypeOK /\ PushCounted /\ [Next]_vars => TypeOK'
<1> SUFFICES ASSUME TypeOK, PushCounted, [Next]_vars PROVE TypeOK'
  OBVIOUS
<1> USE RowsOfRouters DEF vars, ringVars, routerVars, agentVars, historyVars
<1>1. CASE Tick
  <2>1. epochSec' \in Seconds
    BY <1>1, AgentRingAssumption DEF Tick, TypeOK, Seconds
  <2> QED
    BY <1>1, <2>1 DEF Tick, TypeOK
<1>2. ASSUME NEW q \in Routers, StartPush(q) PROVE TypeOK'
  BY <1>2 DEF StartPush, TypeOK
<1>3. ASSUME NEW q \in Routers, Index(q) PROVE TypeOK'
  <2>1. pushSec[q] \in Seconds /\ epochSec \in Seconds /\ pushSec[q] \in Nat /\ epochSec \in Nat
    BY DEF TypeOK
  <2>2. pushSec'[q] = (IF REREADS THEN LastRead(pushSec[q], epochSec) ELSE pushSec[q])
    BY <1>3 DEF Index, TypeOK
  <2>3. WriteIndex(pushSec[q], pushSec'[q]) \in WriteIndices /\ pushSec'[q] \in Seconds
    BY <2>1, <2>2, ColumnOfLastRead, ReadOnce DEF LastRead
  <2>4. pushSec' \in [Routers -> Seconds]
    BY <1>3, <2>2, <2>3 DEF Index, TypeOK
  <2>5. idx' \in [Routers -> WriteIndices]
    BY <1>3, <2>3 DEF Index, TypeOK
  <2> QED
    BY <1>3, <2>4, <2>5 DEF Index, TypeOK
<1>4. ASSUME NEW q \in Routers, Drop(q) \/ Accept(q) PROVE TypeOK'
  BY <1>4 DEF Drop, Accept, TypeOK
<1>5. ASSUME NEW q \in Routers, Copy(q) PROVE TypeOK'
  <2>1. Message(q) \in MPacket
    BY <1>5, NewMessage DEF Copy, PushCounted
  <2>2. Row(q) \in Rows /\ Slot(q) \in TimeSlots
    BY PushInArrays
  <2>3. store[Row(q)][Slot(q)] \in Seq(MPacket) /\ cnt[Row(q)][Slot(q)] \in Nat
    BY <2>2 DEF TypeOK
  <2> DEFINE records == Put(store[Row(q)][Slot(q)], cnt[Row(q)][Slot(q)], Message(q))
  <2>4. records \in Seq(MPacket)
    BY <2>1, <2>3, PutInSeq
  <2> HIDE DEF records
  <2>5. store' = [store EXCEPT ![Row(q)][Slot(q)] = records]
    BY <1>5 DEF Copy, records
  <2>6. store' \in [Rows -> [TimeSlots -> Seq(MPacket)]]
    BY <2>2, <2>4, <2>5 DEF TypeOK
  <2> QED
    BY <1>5, <2>6 DEF Copy, TypeOK
<1>6. ASSUME NEW q \in Routers, LoadCnt(q) PROVE TypeOK'
  <2>1. cnt[Row(q)][Slot(q)] \in Nat
    BY PushInArrays DEF TypeOK
  <2> QED
    BY <1>6, <2>1 DEF LoadCnt, TypeOK
<1>7. ASSUME NEW q \in Routers, StoreCnt(q) PROVE TypeOK'
  <2>1. Message(q) \in MPacket
    BY <1>7, NewMessage DEF StoreCnt, PushCounted
  <2>2. pushed' \in [Routers -> Seq(MPacket)]
    <3>1. pushed \in [Routers -> Seq(MPacket)]
      BY DEF TypeOK
    <3>2. Append(pushed[q], Message(q)) \in Seq(MPacket)
      BY <2>1, <3>1
    <3> QED
      BY <1>7, <3>1, <3>2 DEF StoreCnt
  <2>3. cnt' \in [Rows -> [TimeSlots -> Nat]]
    <3>0. cntLoad[q] \in Nat
      BY DEF TypeOK
    <3>1. cnt \in [Rows -> [TimeSlots -> Nat]]
      BY DEF TypeOK
    <3>4. cntLoad[q] + 1 \in Nat
      BY <3>0
    <3>2. Row(q) \in Rows /\ Slot(q) \in TimeSlots
      BY PushInArrays
    <3>3. cnt' = [cnt EXCEPT ![Row(q)][Slot(q)] = cntLoad[q] + 1]
      BY <1>7 DEF StoreCnt
    <3> QED
      BY <3>1, <3>2, <3>3, <3>4
  <2> QED
    BY <1>7, <2>2, <2>3 DEF StoreCnt, TypeOK
<1>8. CASE Poll
  <2>1. ReadTimeIndex(epochSec) \in TimeSlots
    BY ReadInRange DEF TypeOK
  <2> QED
    BY <1>8, <2>1 DEF Poll, TypeOK
<1>9. CASE TakeLane
  <2>1. cnt[lane][lastProcessedIndex] \in Nat
    BY DEF TypeOK
  <2>2. lane' \in Routers /\ lastProcessedIndex' \in TimeSlots /\ lastSec' \in Nat
    BY <1>9, LaneDoneTypes DEF TakeLane, TypeOK
  <2> QED
    BY <1>9, <2>1, <2>2 DEF TakeLane, TypeOK
<1>10. CASE Deliver
  <2> DEFINE msg == Record(store[lane][lastProcessedIndex], recIdx)
  <2>1. msg \in MPacket
    <3>1. store[lane][lastProcessedIndex] \in Seq(MPacket) /\ recIdx \in Nat
      BY DEF TypeOK
    <3> QED
      BY <3>1, RecordInSet
  <2>2. sent' = [sent EXCEPT ![lane] = Append(@, msg)] /\ sentSecs' = Append(sentSecs, msg.sec)
    BY <1>10 DEF Deliver
  <2> HIDE DEF msg
  <2>3. sent' \in [Routers -> Seq(MPacket)]
    <3>1. sent \in [Routers -> Seq(MPacket)] /\ lane \in Routers
      BY DEF TypeOK
    <3>2. Append(sent[lane], msg) \in Seq(MPacket)
      BY <2>1, <3>1
    <3> QED
      BY <2>2, <3>1, <3>2
  <2>4. sentSecs' \in Seq(Seconds)
    <3>1. msg.sec \in Seconds /\ sentSecs \in Seq(Seconds)
      BY <2>1 DEF MPacket, TypeOK
    <3> QED
      BY <2>2, <3>1
  <2> QED
    BY <1>10, <2>3, <2>4 DEF Deliver, TypeOK
<1>11. CASE LoadDec
  <2>1. cnt[lane][lastProcessedIndex] \in Nat
    BY DEF TypeOK
  <2> QED
    BY <1>11, <2>1 DEF LoadDec, TypeOK
<1>12. CASE StoreDec
  <2>1. cnt' \in [Rows -> [TimeSlots -> Nat]]
    <3>1. (IF cntDec = 0 THEN UINT_MAX ELSE cntDec - 1) \in Nat
      BY AgentRingAssumption DEF TypeOK
    <3> QED
      BY <1>12, <3>1 DEF StoreDec, TypeOK
  <2>2. recIdx' \in Nat
    BY <1>12 DEF StoreDec, TypeOK
  <2> QED
    BY <1>12, <2>1, <2>2 DEF StoreDec, TypeOK
<1>13. CASE ZeroCnt
  <2>1. cnt' \in [Rows -> [TimeSlots -> Nat]]
    BY <1>13 DEF ZeroCnt, TypeOK
  <2>2. lane' \in Routers /\ lastProcessedIndex' \in TimeSlots /\ lastSec' \in Nat
    BY <1>13, LaneDoneTypes DEF ZeroCnt
  <2> QED
    BY <1>13, <2>1, <2>2 DEF ZeroCnt, TypeOK
<1>14. CASE UNCHANGED vars
  BY <1>14 DEF TypeOK
<1> QED
  BY <1>1, <1>2, <1>3, <1>4, <1>5, <1>6, <1>7, <1>8, <1>9, <1>10, <1>11, <1>12, <1>13, <1>14
     DEF Next, AgentStep, RouterStep

\* A push is begun only while one is left, and counted as it ends.
LEMMA StepPushes == TypeOK /\ PushCounted /\ [Next]_vars => PushCounted'
<1> SUFFICES ASSUME TypeOK, PushCounted, [Next]_vars, NEW r \in Routers, rpc'[r] # "idle"
             PROVE  Len(pushed'[r]) < MAX_PUSHED
  BY DEF PushCounted
<1> USE DEF vars, ringVars, routerVars, agentVars, historyVars
<1>0. rpc \in [Routers -> Places] /\ pushed \in [Routers -> Seq(MPacket)]
  BY DEF TypeOK, Places
<1>1. CASE UNCHANGED <<rpc, pushed>>
  BY <1>1 DEF PushCounted
<1>2. ASSUME NEW q \in Routers, StartPush(q) PROVE Len(pushed'[r]) < MAX_PUSHED
  BY <1>0, <1>2 DEF StartPush, PushCounted
<1>3. ASSUME NEW q \in Routers, Index(q) \/ Drop(q) \/ Accept(q) \/ Copy(q) \/ LoadCnt(q)
      PROVE  Len(pushed'[r]) < MAX_PUSHED
  <2>1. pushed' = pushed /\ rpc[r] # "idle"
    BY <1>0, <1>3 DEF Index, Drop, Accept, Copy, LoadCnt
  <2> QED
    BY <2>1 DEF PushCounted
<1>4. ASSUME NEW q \in Routers, StoreCnt(q) PROVE Len(pushed'[r]) < MAX_PUSHED
  BY <1>0, <1>4 DEF StoreCnt, PushCounted
<1> QED
  BY <1>1, <1>2, <1>3, <1>4
     DEF Next, Tick, AgentStep, RouterStep, Poll, TakeLane, Deliver, LoadDec, StoreDec, ZeroCnt

\* The agent ring's variables keep their types, for every number of routers
\* and ring size, under any scheduling: no index leaves the arrays' rows and
\* columns, even in a build that reads the clock twice.
THEOREM TypeCorrect == Spec => []TypeOK
<1>1. (TypeOK /\ PushCounted) /\ [Next]_vars => (TypeOK /\ PushCounted)'
  BY StepTypes, StepPushes
<1> QED
  BY <1>1, InitTypes, PTL DEF Spec

-----------------------------------------------------------------------------
(* The seconds behind the indices, under Timely.                            *)

\* A push is in the column of a second not far from the clock's.
PushTimed(q) ==
  rpc[q] # "idle" =>
    /\ pushSec[q] <= epochSec /\ epochSec <= pushSec[q] + PUSH_LAG
    /\ rpc[q] # "index" => Slot(q) = WriteTimeIndex(pushSec[q])

\* The agent's indices are those of the seconds lastSec and readSec, it never
\* overtakes the clock, and it sends only from slots of earlier seconds.
AgentTimed ==
  /\ lastProcessedIndex = ReadTimeIndex(lastSec) /\ curIndex = ReadTimeIndex(readSec)
  /\ lastSec <= readSec /\ readSec <= lastSec + AGENT_LAG
  /\ readSec <= epochSec /\ epochSec <= readSec + AGENT_LAG
  /\ apc # "take" => lastSec < readSec

ClockInv == AgentTimed /\ \A q \in Routers : PushTimed(q)

LEMMA InitClock == Init => ClockInv
<1> SUFFICES ASSUME Init PROVE ClockInv
  OBVIOUS
<1>1. epochSec \in Nat
  BY TimeIndexAssumption DEF Init
<1> QED
  BY <1>1, AgentRingAssumption DEF Init, ClockInv, AgentTimed, PushTimed

\* Less than a lap behind the clock it last read, the agent compares indices
\* and decides as if it had compared seconds.
LEMMA IndexTellsSecond ==
  ASSUME Timely, TypeOK, AgentTimed
  PROVE  SlotsBehind <=> lastSec < readSec
<1>1. lastSec \in Nat /\ readSec \in Nat
  BY RowsOfRouters DEF TypeOK
<1>2. readSec < lastSec + TIME_INDEX
  BY <1>1, AgentRingAssumption, TimeIndexAssumption DEF Timely, AgentTimed
<1>3. CASE lastSec < readSec
  BY <1>1, <1>2, <1>3, SlotsApart DEF AgentTimed, SlotsBehind
<1>4. CASE lastSec = readSec
  BY <1>1, <1>4 DEF AgentTimed, SlotsBehind
<1> QED
  BY <1>1, <1>3, <1>4 DEF AgentTimed

\* Finishing a lane of a slot behind the clock leaves the agent timed.
LEMMA LaneDoneTimed ==
  ASSUME TypeOK, AgentTimed, lastSec < readSec, LaneDone, apc' = "take",
         UNCHANGED <<curIndex, readSec, epochSec>>
  PROVE  AgentTimed'
<1>1. lastSec \in Nat /\ readSec \in Nat /\ epochSec \in Nat
  BY RowsOfRouters DEF TypeOK
<1>2. \/ lastProcessedIndex' = lastProcessedIndex /\ lastSec' = lastSec
      \/ lastProcessedIndex' = ReadNextTimeIndex(lastProcessedIndex) /\ lastSec' = lastSec + 1
  BY DEF LaneDone
<1>3. lastProcessedIndex' = ReadTimeIndex(lastSec')
  BY <1>1, <1>2, NextFollowsClock DEF AgentTimed
<1> QED
  BY <1>1, <1>2, <1>3, AgentRingAssumption DEF AgentTimed

LEMMA StepClock ==
  ASSUME Timely, TypeOK, ClockInv, [Next]_vars
  PROVE  ClockInv'
<1> USE DEF vars, ringVars, routerVars, agentVars, historyVars, Slot
<1>0. /\ epochSec \in Nat /\ readSec \in Nat /\ lastSec \in Nat
      /\ \A q \in Routers : pushSec[q] \in Nat
      /\ pushSec \in [Routers -> Seconds] /\ rpc \in [Routers -> Places]
      /\ idx \in [Routers -> WriteIndices]
  BY RowsOfRouters DEF TypeOK, Places
<1>1. CASE Tick
  <2>1. AgentTimed'
    BY <1>0, <1>1, AgentRingAssumption DEF Tick, ClockInv, AgentTimed
  <2>2. ASSUME NEW q \in Routers PROVE PushTimed(q)'
    BY <1>0, <1>1, AgentRingAssumption DEF Tick, ClockInv, PushTimed
  <2> QED
    BY <2>1, <2>2 DEF ClockInv
<1>2. CASE UNCHANGED vars
  BY <1>2 DEF ClockInv, AgentTimed, PushTimed
<1>3. ASSUME NEW q \in Routers, RouterStep(q) PROVE ClockInv'
  <2>1. UNCHANGED <<epochSec, agentVars>>
    BY <1>3 DEF RouterStep, StartPush, Index, Drop, Accept, Copy, LoadCnt, StoreCnt
  <2>2. AgentTimed'
    BY <2>1 DEF ClockInv, AgentTimed
  <2>3. ASSUME NEW p \in Routers, p # q PROVE PushTimed(p)'
    <3>1. rpc'[p] = rpc[p] /\ idx'[p] = idx[p] /\ pushSec'[p] = pushSec[p]
      BY <1>0, <1>3, <2>3
         DEF RouterStep, StartPush, Index, Drop, Accept, Copy, LoadCnt, StoreCnt
    <3> QED
      BY <2>1, <3>1 DEF ClockInv, PushTimed
  <2>4. PushTimed(q)'
    <3>1. CASE StartPush(q)
      BY <1>0, <2>1, <3>1, AgentRingAssumption DEF StartPush, PushTimed
    <3>2. CASE Index(q)
      <4>1. /\ rpc[q] = "index" /\ idx'[q] = WriteIndex(pushSec[q], pushSec'[q])
            /\ pushSec'[q] = (IF REREADS THEN LastRead(pushSec[q], epochSec) ELSE pushSec[q])
        BY <1>0, <3>2 DEF Index
      <4>2. Slot(q)' = WriteTimeIndex(pushSec'[q])
        BY <1>0, <4>1, ColumnOfLastRead, ReadOnce
      <4>3. pushSec'[q] = pushSec[q] \/ pushSec'[q] = epochSec
        BY <4>1 DEF LastRead
      <4> QED
        BY <1>0, <2>1, <4>1, <4>2, <4>3, AgentRingAssumption DEF ClockInv, PushTimed
    <3>3. CASE Drop(q) \/ Accept(q) \/ Copy(q) \/ LoadCnt(q) \/ StoreCnt(q)
      <4>1. /\ rpc[q] \notin {"idle", "index"} /\ rpc'[q] # "index"
            /\ UNCHANGED <<pushSec, idx>>
        BY <1>0, <3>3 DEF Drop, Accept, Copy, LoadCnt, StoreCnt
      <4> QED
        BY <2>1, <4>1 DEF ClockInv, PushTimed
    <3> QED
      BY <1>3, <3>1, <3>2, <3>3 DEF RouterStep
  <2> QED
    BY <2>2, <2>3, <2>4 DEF ClockInv
<1>4. CASE AgentStep
  <2>1. UNCHANGED <<epochSec, routerVars>>
    BY <1>4 DEF AgentStep, Poll, TakeLane, Deliver, LoadDec, StoreDec, ZeroCnt
  <2>2. \A q \in Routers : PushTimed(q)'
    BY <2>1 DEF ClockInv, PushTimed
  <2>3. AgentTimed'
    <3>1. CASE Poll
      <4>1. lastSec = readSec
        BY <1>0, <3>1, IndexTellsSecond DEF Poll, ClockInv, AgentTimed
      <4> QED
        BY <1>0, <3>1, <4>1, AgentRingAssumption DEF Poll, ClockInv, AgentTimed
    <3>2. CASE TakeLane
      <4>1. lastSec < readSec
        BY <3>2, IndexTellsSecond DEF TakeLane, ClockInv
      <4>2. CASE recCnt' > 0
        BY <3>2, <4>1, <4>2 DEF TakeLane, ClockInv, AgentTimed
      <4>3. CASE ~(recCnt' > 0)
        BY <3>2, <4>1, <4>3, LaneDoneTimed DEF TakeLane, ClockInv
      <4> QED
        BY <4>2, <4>3
    <3>3. CASE Deliver \/ LoadDec \/ StoreDec
      <4>1. apc # "take" /\ UNCHANGED <<lastProcessedIndex, curIndex, readSec, lastSec, epochSec>>
        BY <3>3 DEF Deliver, LoadDec, StoreDec
      <4> QED
        BY <4>1 DEF ClockInv, AgentTimed
    <3>4. CASE ZeroCnt
      BY <3>4, LaneDoneTimed DEF ZeroCnt, ClockInv, AgentTimed
    <3> QED
      BY <1>4, <3>1, <3>2, <3>3, <3>4 DEF AgentStep
  <2> QED
    BY <2>2, <2>3 DEF ClockInv
<1> QED
  BY <1>1, <1>2, <1>3, <1>4 DEF Next

\* A push's slot is that of a second the clock has not reached, the agent's of
\* one it has left, and less than a lap lies between them.
LEMMA TimedSlotsApart ==
  ASSUME Timely, TypeOK, ClockInv
  PROVE  NoOverlap
<1> SUFFICES ASSUME NEW p \in Routers, NEW q \in Routers, NEW s \in TimeSlots,
                    Pushing(p, s), Sending(q, s)
             PROVE  FALSE
  BY DEF NoOverlap
<1>1. epochSec \in Nat /\ readSec \in Nat /\ lastSec \in Nat /\ pushSec[p] \in Nat
  BY RowsOfRouters DEF TypeOK
<1>2. pushSec[p] <= epochSec /\ epochSec <= pushSec[p] + PUSH_LAG
      /\ s = WriteTimeIndex(pushSec[p])
  BY DEF Pushing, ClockInv, PushTimed
<1>3. /\ lastSec < readSec /\ readSec <= lastSec + AGENT_LAG
      /\ readSec <= epochSec /\ epochSec <= readSec + AGENT_LAG
      /\ s = ReadTimeIndex(lastSec)
  BY DEF Sending, ClockInv, AgentTimed
<1>4. lastSec < pushSec[p] + 1 /\ pushSec[p] + 1 < lastSec + TIME_INDEX
  BY <1>1, <1>2, <1>3, AgentRingAssumption, TimeIndexAssumption DEF Timely
<1>5. ReadTimeIndex(lastSec) # ReadTimeIndex(pushSec[p] + 1)
  BY <1>1, <1>4, SlotsApart
<1>6. WriteTimeIndex(pushSec[p]) = ReadTimeIndex(pushSec[p] + 1)
  BY <1>1, WriteIsReadNext
<1> QED
  BY <1>2, <1>3, <1>5, <1>6

\* While the threads are scheduled within Timely, no router pushes into the
\* slot the agent sends from, in whatever lane, whatever the number of routers
\* and the length of the ring: the missing busy flag is not missed.
THEOREM NoOverlapCorrect ==
  ASSUME Timely PROVE Spec => []NoOverlap
<1>1. TypeOK /\ ClockInv /\ [Next]_vars => ClockInv'
  BY StepClock
<1>2. TypeOK /\ ClockInv => NoOverlap
  BY TimedSlotsApart
<1> QED
  BY <1>1, <1>2, InitClock, TypeCorrect, PTL DEF Spec

-----------------------------------------------------------------------------
(* The counters, under any scheduling, when the clock is read once.         *)

\* A push: only its router counts the lane up, so between the check and the
\* store of the counter it only falls.
PushCounts(q) ==
  LET count == cnt[q][Slot(q)]
  IN  /\ idx[q] \in TimeSlots
      /\ rpc[q] \in {"copy", "load"} => (CAPPED => count <= MAX_PACKET_PUSH_SOCKET)
      /\ rpc[q] = "store" => /\ count <= cntLoad[q]
                             /\ CAPPED => cntLoad[q] <= MAX_PACKET_PUSH_SOCKET

\* The agent: the counter covers the messages not yet counted down.
AgentCounts ==
  LET count == cnt[lane][lastProcessedIndex]
  IN  /\ apc \in {"deliver", "load", "store"} => recIdx < recCnt
      /\ apc \in {"deliver", "load"} => recCnt - recIdx <= count
      /\ apc = "store" => recCnt - recIdx <= cntDec /\ cntDec <= count

WithinCap ==
  CAPPED => \A q \in Routers, s \in TimeSlots : cnt[q][s] <= MAX_PACKET_PUSH_SOCKET + 1

CounterInv == WithinCap /\ AgentCounts /\ \A q \in Routers : PushCounts(q)

LEMMA CapIsNat == MAX_PACKET_PUSH_SOCKET \in Nat
  BY AgentRingAssumption DEF MAX_PACKET_PUSH_SOCKET

\* An index that is a slot leads to the router's own row.
LEMMA OwnLane ==
  ASSUME NEW q, idx[q] \in TimeSlots
  PROVE  Row(q) = q /\ Slot(q) \in TimeSlots
  BY TimeIndexAssumption DEF Row, Slot, RowOf, ColumnOf, TimeSlots

LEMMA InitCounters == Init => CounterInv
  BY CapIsNat, RowsOfRouters DEF Init, CounterInv, WithinCap, AgentCounts, PushCounts

\* A step of a push raises its own lane's counter at most, to no more than the
\* cap and one: the agent's count still covers what it has to send.
LEMMA PushKeepsCounts ==
  ASSUME ~REREADS, TypeOK, CounterInv, NEW q \in Routers, RouterStep(q)
  PROVE  CounterInv'
<1> USE RowsOfRouters, CapIsNat DEF ringVars, agentVars, historyVars, Slot
<1>0. /\ cnt \in [Rows -> [TimeSlots -> Nat]] /\ idx \in [Routers -> WriteIndices]
      /\ rpc \in [Routers -> Places] /\ cntLoad \in [Routers -> Nat]
      /\ lane \in Routers /\ lastProcessedIndex \in TimeSlots
      /\ recCnt \in Nat /\ recIdx \in Nat /\ cntDec \in Nat
  BY DEF TypeOK, Places
<1>1. PushCounts(q) /\ Row(q) = q /\ Slot(q) \in TimeSlots
  BY OwnLane DEF CounterInv, PushCounts
<1>2. UNCHANGED <<apc, lane, lastProcessedIndex, recCnt, recIdx, cntDec>>
  BY DEF RouterStep, StartPush, Index, Drop, Accept, Copy, LoadCnt, StoreCnt
<1>3. ASSUME NEW p \in Routers, p # q
      PROVE  rpc'[p] = rpc[p] /\ idx'[p] = idx[p] /\ cntLoad'[p] = cntLoad[p]
  BY <1>0, <1>3 DEF RouterStep, StartPush, Index, Drop, Accept, Copy, LoadCnt, StoreCnt
<1>4. CASE ~StoreCnt(q)
  <2>1. cnt' = cnt
    BY <1>4 DEF RouterStep, StartPush, Index, Drop, Accept, Copy, LoadCnt
  <2>2. WithinCap' /\ AgentCounts'
    BY <1>2, <2>1 DEF CounterInv, WithinCap, AgentCounts
  <2>3. ASSUME NEW p \in Routers, p # q PROVE PushCounts(p)'
    BY <1>3, <2>1, <2>3 DEF CounterInv, PushCounts
  <2>4. PushCounts(q)'
    <3>1. CASE StartPush(q) \/ Drop(q)
      BY <1>0, <1>1, <2>1, <3>1 DEF StartPush, Drop, PushCounts
    <3>2. CASE Index(q)
      <4>1. idx'[q] \in TimeSlots
        <5>1. pushSec[q] \in Nat /\ pushSec'[q] = pushSec[q]
          BY <3>2 DEF Index, TypeOK
        <5>2. idx'[q] = WriteIndex(pushSec[q], pushSec[q])
          BY <1>0, <3>2, <5>1 DEF Index
        <5> QED
          BY <5>1, <5>2, ReadOnce
      <4> QED
        BY <1>0, <3>2, <4>1 DEF Index, PushCounts
    <3>3. CASE Accept(q)
      <4>1. /\ rpc[q] = "check" /\ rpc'[q] = "copy" /\ idx' = idx
            /\ CAPPED => ~(cnt[q][Slot(q)] > MAX_PACKET_PUSH_SOCKET)
        BY <1>0, <1>1, <3>3 DEF Accept, Full
      <4>2. cnt[q][Slot(q)] \in Nat
        BY <1>0, <1>1
      <4> QED
        BY <1>1, <2>1, <4>1, <4>2 DEF PushCounts
    <3>4. CASE Copy(q)
      BY <1>0, <1>1, <2>1, <3>4 DEF Copy, PushCounts
    <3>5. CASE LoadCnt(q)
      <4>1. /\ rpc[q] = "load" /\ rpc'[q] = "store" /\ idx' = idx
            /\ cntLoad'[q] = cnt[q][Slot(q)]
        BY <1>0, <1>1, <3>5 DEF LoadCnt
      <4>2. cnt[q][Slot(q)] \in Nat
        BY <1>0, <1>1
      <4> QED
        BY <1>1, <2>1, <4>1, <4>2 DEF PushCounts
    <3> QED
      BY <1>4, <3>1, <3>2, <3>3, <3>4, <3>5 DEF RouterStep
  <2> QED
    BY <2>2, <2>3, <2>4 DEF CounterInv
<1>5. CASE StoreCnt(q)
  <2>1. /\ cnt' = [cnt EXCEPT ![q][Slot(q)] = cntLoad[q] + 1]
        /\ rpc[q] = "store" /\ rpc'[q] = "idle" /\ idx' = idx
    BY <1>0, <1>1, <1>5 DEF StoreCnt
  <2>2. /\ cnt[q][Slot(q)] <= cntLoad[q] /\ cntLoad[q] \in Nat /\ cnt[q][Slot(q)] \in Nat
        /\ CAPPED => cntLoad[q] <= MAX_PACKET_PUSH_SOCKET
    BY <1>0, <1>1, <2>1 DEF PushCounts
  <2>3. \A r \in Routers, s \in TimeSlots :
          /\ cnt'[r][s] \in Nat /\ cnt[r][s] <= cnt'[r][s]
          /\ r # q => cnt'[r][s] = cnt[r][s]
          /\ cnt'[r][s] = cnt[r][s] \/ cnt'[r][s] = cntLoad[q] + 1
    BY <1>0, <1>1, <2>1, <2>2
  <2>4. WithinCap'
    <3>1. CAPPED => cntLoad[q] + 1 <= MAX_PACKET_PUSH_SOCKET + 1
      BY <2>2
    <3> QED
      BY <2>3, <3>1 DEF CounterInv, WithinCap
  <2>5. AgentCounts'
    <3>1. /\ cnt[lane][lastProcessedIndex] \in Nat /\ cnt'[lane][lastProcessedIndex] \in Nat
          /\ cnt[lane][lastProcessedIndex] <= cnt'[lane][lastProcessedIndex]
      BY <1>0, <2>3
    <3> QED
      BY <1>0, <1>2, <3>1 DEF CounterInv, AgentCounts
  <2>6. ASSUME NEW p \in Routers, p # q PROVE PushCounts(p)'
    <3>1. idx[p] \in TimeSlots /\ Slot(p) \in TimeSlots
      BY OwnLane DEF CounterInv, PushCounts
    <3>2. cnt'[p][Slot(p)] = cnt[p][Slot(p)]
      BY <2>3, <2>6, <3>1
    <3> QED
      BY <1>3, <2>1, <2>6, <3>2 DEF CounterInv, PushCounts
  <2>7. PushCounts(q)'
    BY <1>1, <2>1 DEF PushCounts
  <2> QED
    BY <2>4, <2>5, <2>6, <2>7 DEF CounterInv
<1> QED
  BY <1>4, <1>5

\* A step of the agent lowers counters only, and none below zero.
LEMMA AgentKeepsCounts ==
  ASSUME TypeOK, CounterInv, AgentStep
  PROVE  CounterInv'
<1> USE RowsOfRouters, CapIsNat DEF ringVars, routerVars, historyVars, Slot
<1>0. /\ cnt \in [Rows -> [TimeSlots -> Nat]]
      /\ lane \in Routers /\ lastProcessedIndex \in TimeSlots
      /\ recCnt \in Nat /\ recIdx \in Nat /\ cntDec \in Nat
      /\ \A q \in Routers : cntLoad[q] \in Nat
  BY DEF TypeOK
<1>1. UNCHANGED <<rpc, idx, cntLoad>>
  BY DEF AgentStep, Poll, TakeLane, Deliver, LoadDec, StoreDec, ZeroCnt
<1>2. ASSUME StoreDec
      PROVE  /\ cntDec - 1 \in Nat /\ cntDec - 1 <= cnt[lane][lastProcessedIndex]
             /\ recCnt - recIdx <= cntDec /\ recIdx < recCnt
             /\ cnt' = [cnt EXCEPT ![lane][lastProcessedIndex] = cntDec - 1]
  <2>1. /\ recIdx < recCnt /\ recCnt - recIdx <= cntDec
        /\ cntDec <= cnt[lane][lastProcessedIndex] /\ cnt[lane][lastProcessedIndex] \in Nat
    BY <1>0, <1>2 DEF StoreDec, CounterInv, AgentCounts
  <2>2. cntDec # 0
    BY <1>0, <2>1
  <2> QED
    BY <1>0, <1>2, <2>1, <2>2 DEF StoreDec
<1>3. \A r \in Routers, s \in TimeSlots : cnt'[r][s] \in Nat /\ cnt'[r][s] <= cnt[r][s]
  <2>1. CASE UNCHANGED cnt
    BY <1>0, <2>1
  <2>2. CASE StoreDec
    BY <1>0, <1>2, <2>2
  <2>3. CASE ZeroCnt
    <3>1. cnt' = [cnt EXCEPT ![lane][lastProcessedIndex] = 0]
      BY <2>3 DEF ZeroCnt
    <3> QED
      BY <1>0, <3>1
  <2> QED
    BY <2>1, <2>2, <2>3 DEF AgentStep, Poll, TakeLane, Deliver, LoadDec
<1>4. WithinCap'
  <2>1. \A r \in Routers, s \in TimeSlots : cnt[r][s] \in Nat
    BY <1>0
  <2> QED
    BY <1>3, <2>1 DEF CounterInv, WithinCap
<1>5. ASSUME NEW q \in Routers PROVE PushCounts(q)'
  <2>1. PushCounts(q) /\ Slot(q) \in TimeSlots
    BY OwnLane DEF CounterInv, PushCounts
  <2>2. /\ cnt'[q][Slot(q)] \in Nat /\ cnt[q][Slot(q)] \in Nat
        /\ cnt'[q][Slot(q)] <= cnt[q][Slot(q)] /\ cntLoad[q] \in Nat
    BY <1>0, <1>3, <2>1
  <2> QED
    BY <1>1, <2>1, <2>2 DEF PushCounts
<1>6. AgentCounts'
  <2>1. CASE Poll
    BY <2>1 DEF Poll, CounterInv, AgentCounts
  <2>2. CASE TakeLane
    <3>1. CASE recCnt' > 0
      BY <1>0, <2>2, <3>1 DEF TakeLane, AgentCounts
    <3>2. CASE ~(recCnt' > 0)
      BY <2>2, <3>2 DEF TakeLane, AgentCounts
    <3> QED
      BY <3>1, <3>2
  <2>3. CASE Deliver
    BY <2>3 DEF Deliver, CounterInv, AgentCounts
  <2>4. CASE LoadDec
    BY <1>0, <2>4 DEF LoadDec, CounterInv, AgentCounts
  <2>5. CASE StoreDec
    <3>1. /\ cnt'[lane][lastProcessedIndex] = cntDec - 1
          /\ UNCHANGED <<lane, lastProcessedIndex, recCnt>> /\ recIdx' = recIdx + 1
          /\ apc' = IF recIdx + 1 < recCnt THEN "deliver" ELSE "zero"
      BY <1>0, <1>2, <2>5 DEF StoreDec
    <3> QED
      BY <1>0, <1>2, <2>5, <3>1 DEF AgentCounts
  <2>6. CASE ZeroCnt
    BY <2>6 DEF ZeroCnt, AgentCounts
  <2> QED
    BY <2>1, <2>2, <2>3, <2>4, <2>5, <2>6 DEF AgentStep
<1> QED
  BY <1>4, <1>5, <1>6 DEF CounterInv

LEMMA StepCounters ==
  ASSUME ~REREADS, TypeOK, CounterInv, [Next]_vars
  PROVE  CounterInv'
<1>1. CASE Tick \/ UNCHANGED vars
  BY <1>1 DEF Tick, vars, ringVars, routerVars, agentVars, CounterInv, WithinCap,
              AgentCounts, PushCounts, Slot
<1> QED
  BY <1>1, PushKeepsCounts, AgentKeepsCounts DEF Next

\* Under any scheduling, a capped slot never holds more than one message over
\* the cap, and no -- of the agent wraps, if the build reads the clock once:
\* then each lane has one router that pushes into it.
THEOREM SlotWithinCapCorrect ==
  ASSUME ~REREADS PROVE Spec => []SlotWithinCap
<1>1. TypeOK /\ CounterInv /\ [Next]_vars => CounterInv'
  BY StepCounters
<1>2. TypeOK /\ CounterInv => SlotWithinCap
  <2> SUFFICES ASSUME TypeOK, CounterInv PROVE SlotWithinCap
    OBVIOUS
  <2>1. recIdx \in Nat /\ recCnt \in Nat /\ cntDec \in Nat
    BY DEF TypeOK
  <2> QED
    BY <2>1 DEF CounterInv, WithinCap, AgentCounts, SlotWithinCap
<1> QED
  BY <1>1, <1>2, InitCounters, TypeCorrect, PTL DEF Spec

-----------------------------------------------------------------------------
(* The records, under Timely, when the clock is read once.                  *)

\* The first second whose slot the agent has yet to leave in lane q.
NextSec(q) == IF q < lane THEN lastSec + 1 ELSE lastSec

\* The seconds whose slots it has yet to leave there: a lap of them.
Ahead(q) == NextSec(q) .. NextSec(q) + TIME_INDEX - 1

\* The agent is at work on the slot of second sec in lane q.
InHand(q, sec) == apc # "take" /\ lane = q /\ sec = lastSec

\* The first record of the slot in hand that is not sent yet.
FirstLeft == IF apc \in {"load", "store"} THEN recIdx + 1 ELSE recIdx

\* The records pushed by a router and not sent.
Held(q, sec, k) ==
  IF InHand(q, sec) THEN FirstLeft <= k /\ k < recCnt
                    ELSE k < cnt[q][ReadTimeIndex(sec)]

Cells(q) == {c \in Cell : c[1] \in Ahead(q) /\ Held(q, c[1], c[2])}

Contents(q) == [c \in Cell |-> Record(store[q][ReadTimeIndex(c[1])], c[2])]

\* A router: it fills slots up to that of the second of its last push, and
\* what it fills is the record past the counter until it stores the counter.
PushPlaces(q) ==
  /\ pushSec[q] <= epochSec
  /\ \A sec \in Ahead(q) : cnt[q][ReadTimeIndex(sec)] > 0 => sec <= pushSec[q] + 1
  /\ \A s \in TimeSlots : cnt[q][s] <= Len(store[q][s])
  /\ rpc[q] \in {"load", "store"} =>
       /\ cnt[q][Slot(q)] < Len(store[q][Slot(q)])
       /\ Record(store[q][Slot(q)], cnt[q][Slot(q)]) = Message(q)
  /\ rpc[q] = "store" => cntLoad[q] = cnt[q][Slot(q)]

\* The agent: nothing is left of a slot when its counter is reset, and what
\* was sent is of seconds before that of the slot it is at.
AgentPlaces ==
  /\ lane > 0 => lastSec < readSec
  /\ apc # "take" => recCnt <= Len(store[lane][lastProcessedIndex])
  /\ apc = "zero" => recIdx = recCnt
  /\ \A n \in 1 .. Len(sentSecs) : sentSecs[n] < lastSec

\* What the agent has yet to send of a router's is what the router pushed and
\* is left, in the order of the seconds and of the records in a slot.  It is
\* from the second before its slot's, and no record is past its id.
QueueInv(q) ==
  /\ HoldsQueue(MPacket, Cells(q), Contents(q), pushed[q], sent[q])
  /\ \A c \in Cells(q) : /\ Contents(q)[c].sec + 1 = c[1]
                         /\ c[2] < Contents(q)[c].id

RecordInv ==
  /\ AgentPlaces
  /\ \A q \in Routers : PushPlaces(q)
  /\ \A q \in Routers : QueueInv(q)

-----------------------------------------------------------------------------
\* What the proofs below need of the types.
LEMMA Naturals ==
  ASSUME TypeOK
  PROVE  /\ epochSec \in Nat /\ lastSec \in Nat /\ readSec \in Nat /\ lane \in Nat
         /\ lane \in Routers /\ lastProcessedIndex \in TimeSlots
         /\ recCnt \in Nat /\ recIdx \in Nat
         /\ \A q \in Routers : q \in Nat /\ pushSec[q] \in Nat /\ cntLoad[q] \in Nat
         /\ \A q \in Routers : NextSec(q) \in Nat /\ Ahead(q) \subseteq Nat
         /\ \A q \in Routers, s \in TimeSlots :
              cnt[q][s] \in Nat /\ store[q][s] \in Seq(MPacket) /\ Len(store[q][s]) \in Nat
<1>1. /\ epochSec \in Nat /\ lastSec \in Nat /\ readSec \in Nat /\ lane \in Nat
      /\ lane \in Routers /\ lastProcessedIndex \in TimeSlots
      /\ recCnt \in Nat /\ recIdx \in Nat
      /\ \A q \in Routers : q \in Nat /\ pushSec[q] \in Nat /\ cntLoad[q] \in Nat
  <2>1. \A q \in Routers : q \in Nat
    BY AgentRingAssumption DEF Routers
  <2> QED
    BY <2>1, RowsOfRouters DEF TypeOK
<1>2. \A q \in Routers : NextSec(q) \in Nat /\ Ahead(q) \subseteq Nat
  BY <1>1, TimeIndexAssumption DEF NextSec, Ahead
<1>3. ASSUME NEW q \in Routers, NEW s \in TimeSlots
      PROVE  cnt[q][s] \in Nat /\ store[q][s] \in Seq(MPacket) /\ Len(store[q][s]) \in Nat
  <2>1. cnt[q][s] \in Nat /\ store[q][s] \in Seq(MPacket)
    BY RowsOfRouters DEF TypeOK
  <2> QED
    BY <2>1
<1> QED
  BY <1>1, <1>2, <1>3

\* A lane's lap visits each slot once, and begins at the slot the agent is to
\* leave there.
LEMMA LapOfLane ==
  ASSUME TypeOK, ClockInv, NEW q \in Routers
  PROVE  /\ \A a, b \in Ahead(q) : ReadTimeIndex(a) = ReadTimeIndex(b) => a = b
         /\ \A sec \in Ahead(q) : NextSec(q) <= sec /\ ReadTimeIndex(sec) \in TimeSlots
         /\ q = lane => /\ lastSec \in Ahead(q) /\ NextSec(q) = lastSec
                        /\ lastProcessedIndex = ReadTimeIndex(lastSec)
<1>1. ASSUME NEW a \in Ahead(q), NEW b \in Ahead(q), ReadTimeIndex(a) = ReadTimeIndex(b)
      PROVE  a = b
  <2>1. a \in Nat /\ b \in Nat /\ a < b + TIME_INDEX /\ b < a + TIME_INDEX
    <3>1. a \in Nat /\ b \in Nat /\ NextSec(q) \in Nat
      BY Naturals
    <3> QED
      BY <3>1, TimeIndexAssumption DEF Ahead
  <2> QED
    BY <1>1, <2>1, SlotsApart
<1>2. \A sec \in Ahead(q) : NextSec(q) <= sec /\ ReadTimeIndex(sec) \in TimeSlots
  BY Naturals, ReadInRange DEF Ahead
<1>3. q = lane => /\ lastSec \in Ahead(q) /\ NextSec(q) = lastSec
                  /\ lastProcessedIndex = ReadTimeIndex(lastSec)
  BY Naturals, TimeIndexAssumption DEF Ahead, NextSec, ClockInv, AgentTimed
<1> QED
  BY <1>1, <1>2, <1>3

\* A push works on the slot of the second after its own, which the agent has
\* yet to reach in every lane.
LEMMA PushAhead ==
  ASSUME Timely, TypeOK, CounterInv, ClockInv, AgentPlaces, NEW q \in Routers,
         rpc[q] \notin {"idle", "index"}
  PROVE  /\ Row(q) = q /\ Slot(q) \in TimeSlots /\ Slot(q) = ReadTimeIndex(pushSec[q] + 1)
         /\ pushSec[q] + 1 \in Ahead(q) /\ ~InHand(q, pushSec[q] + 1)
<1>1. /\ epochSec \in Nat /\ lastSec \in Nat /\ readSec \in Nat /\ pushSec[q] \in Nat
      /\ q \in Nat /\ lane \in Nat
  BY Naturals
<1>2. Row(q) = q /\ Slot(q) \in TimeSlots
  BY OwnLane DEF CounterInv, PushCounts
<1>3. /\ pushSec[q] <= epochSec /\ epochSec <= pushSec[q] + PUSH_LAG
      /\ Slot(q) = WriteTimeIndex(pushSec[q])
      /\ lastSec <= readSec /\ readSec <= lastSec + AGENT_LAG
      /\ readSec <= epochSec /\ epochSec <= readSec + AGENT_LAG
      /\ apc # "take" => lastSec < readSec
      /\ lane > 0 => lastSec < readSec
  BY DEF ClockInv, PushTimed, AgentTimed, AgentPlaces
<1>4. WriteTimeIndex(pushSec[q]) = ReadTimeIndex(pushSec[q] + 1)
  BY <1>1, WriteIsReadNext
<1>5. /\ readSec <= pushSec[q] + 1 /\ pushSec[q] + 1 < lastSec + TIME_INDEX
  BY <1>1, <1>3, AgentRingAssumption, TimeIndexAssumption DEF Timely
<1>6. NextSec(q) <= readSec /\ NextSec(q) \in {lastSec, lastSec + 1}
  BY <1>1, <1>3 DEF NextSec
<1>7. pushSec[q] + 1 \in Ahead(q)
  BY <1>1, <1>5, <1>6, TimeIndexAssumption DEF Ahead
<1>8. ~InHand(q, pushSec[q] + 1)
  BY <1>1, <1>3, <1>5 DEF InHand
<1> QED
  BY <1>2, <1>3, <1>4, <1>7, <1>8

\* Every cell is a record that was made.
LEMMA CellsMade ==
  ASSUME TypeOK, ClockInv, RecordInv, NEW q \in Routers, NEW c \in Cells(q)
  PROVE  /\ c[1] \in Ahead(q) /\ c[1] \in Nat /\ c[2] \in Nat /\ c \in Cell
         /\ c = <<c[1], c[2]>> /\ ReadTimeIndex(c[1]) \in TimeSlots
         /\ Held(q, c[1], c[2]) /\ c[2] < Len(store[q][ReadTimeIndex(c[1])])
<1>1. c \in Cell /\ c[1] \in Ahead(q) /\ Held(q, c[1], c[2])
  BY DEF Cells
<1>2. c[1] \in Nat /\ c[2] \in Nat /\ c = <<c[1], c[2]>>
  BY <1>1 DEF Cell
<1>3. ReadTimeIndex(c[1]) \in TimeSlots
  BY <1>1, LapOfLane
<1>4. /\ cnt[q][ReadTimeIndex(c[1])] \in Nat /\ recCnt \in Nat
      /\ Len(store[q][ReadTimeIndex(c[1])]) \in Nat
  BY <1>3, Naturals
<1>5. CASE InHand(q, c[1])
  <2>1. recCnt <= Len(store[q][ReadTimeIndex(c[1])])
    BY <1>5, LapOfLane DEF InHand, RecordInv, AgentPlaces
  <2> QED
    BY <1>1, <1>2, <1>3, <1>4, <1>5, <2>1 DEF Held
<1>6. CASE ~InHand(q, c[1])
  <2>1. cnt[q][ReadTimeIndex(c[1])] <= Len(store[q][ReadTimeIndex(c[1])])
    BY <1>3 DEF RecordInv, PushPlaces
  <2> QED
    BY <1>1, <1>2, <1>3, <1>4, <1>6, <2>1 DEF Held
<1> QED
  BY <1>5, <1>6

\* The cell a push works on comes after all that its router has in the store.
LEMMA PushLast ==
  ASSUME Timely, TypeOK, CounterInv, ClockInv, RecordInv, NEW q \in Routers,
         rpc[q] \notin {"idle", "index"}, NEW c \in Cells(q)
  PROVE  Before(c, <<pushSec[q] + 1, cnt[q][Slot(q)]>>)
<1>1. /\ Slot(q) = ReadTimeIndex(pushSec[q] + 1) /\ pushSec[q] + 1 \in Ahead(q)
      /\ ~InHand(q, pushSec[q] + 1)
  BY PushAhead DEF RecordInv
<1>2. /\ c[1] \in Ahead(q) /\ c[1] \in Nat /\ c[2] \in Nat /\ Held(q, c[1], c[2])
      /\ ReadTimeIndex(c[1]) \in TimeSlots
  BY CellsMade
<1>3. pushSec[q] \in Nat /\ cnt[q][ReadTimeIndex(c[1])] \in Nat /\ NextSec(q) \in Nat
  BY <1>2, Naturals
<1>4. CASE c[1] = pushSec[q] + 1
  BY <1>1, <1>2, <1>3, <1>4 DEF Held, Before
<1>5. CASE c[1] # pushSec[q] + 1
  <2>1. CASE InHand(q, c[1])
    <3>1. NextSec(q) = c[1]
      BY <2>1, LapOfLane DEF InHand
    <3>2. NextSec(q) <= pushSec[q] + 1
      BY <1>1, LapOfLane
    <3> QED
      BY <1>2, <1>3, <1>5, <3>1, <3>2 DEF Before
  <2>2. CASE ~InHand(q, c[1])
    <3>1. cnt[q][ReadTimeIndex(c[1])] > 0
      BY <1>2, <1>3, <2>2 DEF Held
    <3>2. c[1] <= pushSec[q] + 1
      BY <1>2, <3>1 DEF RecordInv, PushPlaces
    <3> QED
      BY <1>2, <1>3, <1>5, <3>2 DEF Before
  <2> QED
    BY <2>1, <2>2
<1> QED
  BY <1>4, <1>5

\* A step that leaves a router's cells and what they hold leaves its queue.
LEMMA QueueStays ==
  ASSUME NEW q \in Routers, QueueInv(q), Cells(q)' = Cells(q),
         \A c \in Cells(q) : Contents(q)'[c] = Contents(q)[c],
         pushed'[q] = pushed[q], sent'[q] = sent[q]
  PROVE  QueueInv(q)'
<1> DEFINE cells == Cells(q)
           old == Contents(q)
           new == Contents(q)'
<1>1. HoldsQueue(MPacket, cells, old, pushed[q], sent[q]) /\ \A c \in cells : new[c] = old[c]
  BY DEF QueueInv
<1>2. HoldsQueue(MPacket, cells, new, pushed[q], sent[q])
  <2> HIDE DEF cells, old, new
  <2> QED
    BY <1>1, SameQueue
<1>3. \A c \in cells : new[c].sec + 1 = c[1] /\ c[2] < new[c].id
  BY <1>1 DEF QueueInv
<1> QED
  BY <1>2, <1>3 DEF QueueInv

LEMMA InitRecords == Init => RecordInv
<1> SUFFICES ASSUME Init PROVE RecordInv
  OBVIOUS
<1>1. TypeOK
  BY InitTypes
<1>2. /\ apc = "take" /\ lane = 0 /\ sentSecs = <<>>
      /\ \A q \in Routers : /\ rpc[q] = "idle" /\ pushed[q] = <<>> /\ sent[q] = <<>>
                            /\ pushSec[q] <= epochSec
      /\ \A q \in Routers, s \in TimeSlots : cnt[q][s] = 0
  BY <1>1, Naturals, RowsOfRouters DEF Init
<1>3. \A q \in Routers : \A sec \in Ahead(q) : cnt[q][ReadTimeIndex(sec)] = 0
  BY <1>1, <1>2, Naturals, ReadInRange
<1> HIDE DEF Init
<1>4. AgentPlaces
  BY <1>2 DEF AgentPlaces
<1>5. ASSUME NEW q \in Routers PROVE PushPlaces(q)
  <2>1. \A s \in TimeSlots : cnt[q][s] <= Len(store[q][s])
    <3> SUFFICES ASSUME NEW s \in TimeSlots PROVE cnt[q][s] <= Len(store[q][s])
      OBVIOUS
    <3>1. cnt[q][s] = 0 /\ Len(store[q][s]) \in Nat
      BY <1>1, <1>2, Naturals
    <3> QED
      BY <3>1
  <2> QED
    BY <1>2, <1>3, <2>1 DEF PushPlaces
<1>6. ASSUME NEW q \in Routers PROVE QueueInv(q)
  <2>1. ASSUME NEW c \in Cells(q) PROVE FALSE
    <3>1. c[1] \in Ahead(q) /\ c[2] \in Nat /\ Held(q, c[1], c[2])
      BY DEF Cells, Cell
    <3> QED
      BY <1>2, <1>3, <3>1 DEF Held, InHand
  <2>2. Cells(q) = {}
    BY <2>1
  <2>3. /\ Len(pushed[q]) = 0 /\ Len(sent[q]) = 0
        /\ pushed[q] \in Seq(MPacket) /\ sent[q] \in Seq(MPacket)
    BY <1>1, <1>2 DEF TypeOK
  <2> QED
    BY <2>2, <2>3 DEF QueueInv, HoldsQueue
<1> QED
  BY <1>4, <1>5, <1>6 DEF RecordInv

\* The clock.
LEMMA TickKeepsRecords ==
  ASSUME TypeOK, RecordInv, Tick \/ UNCHANGED vars
  PROVE  RecordInv'
<1> USE DEF vars, ringVars, routerVars, agentVars, historyVars
<1>1. /\ UNCHANGED <<ringVars, routerVars, agentVars, historyVars>>
      /\ epochSec' = epochSec \/ epochSec' = epochSec + 1
  BY DEF Tick
<1>2. ASSUME NEW q \in Routers PROVE PushPlaces(q)'
  <2>1. pushSec[q] <= epochSec'
    <3>1. pushSec[q] <= epochSec /\ pushSec[q] \in Nat /\ epochSec \in Nat
      BY Naturals DEF RecordInv, PushPlaces
    <3> QED
      BY <1>1, <3>1
  <2> QED
    BY <1>1, <2>1 DEF RecordInv, PushPlaces, Ahead, NextSec, Slot, Message
<1>3. ASSUME NEW q \in Routers PROVE QueueInv(q)'
  <2>1. Cells(q)' = Cells(q) /\ Contents(q)' = Contents(q)
    BY <1>1 DEF Cells, Contents, Ahead, NextSec, Held, InHand, FirstLeft
  <2> QED
    BY <1>1, <2>1 DEF RecordInv, QueueInv
<1> QED
  BY <1>1, <1>2, <1>3 DEF RecordInv, AgentPlaces

\* A record put where the last one ends, or over one that is not needed.
LEMMA PutAtEnd ==
  ASSUME NEW records \in Seq(MPacket), NEW k \in Nat, k <= Len(records), NEW x \in MPacket
  PROVE  LET new == Put(records, k, x)
         IN  /\ new \in Seq(MPacket) /\ Len(new) \in Nat
             /\ Len(records) <= Len(new) /\ k < Len(new) /\ Record(new, k) = x
             /\ \A j \in Nat : j < Len(records) /\ j # k => Record(new, j) = Record(records, j)
<1> DEFINE new == Put(records, k, x)
<1>1. Len(records) \in Nat
  OBVIOUS
<1>2. CASE k < Len(records)
  <2>1. /\ new = [records EXCEPT ![k + 1] = x] /\ k + 1 \in 1 .. Len(records)
        /\ DOMAIN records = 1 .. Len(records) /\ \A i \in 1 .. Len(records) : records[i] \in MPacket
    BY <1>1, <1>2 DEF Put
  <2>2. Len(new) = Len(records) /\ new[k + 1] = x /\ new \in Seq(MPacket)
    BY <1>1, <2>1
  <2>3. \A i \in 1 .. Len(records) : i # k + 1 => new[i] = records[i]
    BY <1>1, <2>1
  <2> HIDE DEF new
  <2>4. Record(new, k) = x
    BY <1>2, <2>2 DEF Record
  <2>5. ASSUME NEW j \in Nat, j < Len(records), j # k PROVE Record(new, j) = Record(records, j)
    <3>1. j + 1 \in 1 .. Len(records) /\ j + 1 # k + 1
      BY <1>1, <2>5
    <3> QED
      BY <2>2, <2>3, <2>5, <3>1 DEF Record
  <2> QED
    BY <1>1, <1>2, <2>2, <2>4, <2>5 DEF new
<1>3. CASE k = Len(records)
  <2>1. new = Append(records, x)
    BY <1>1, <1>3 DEF Put
  <2>2. /\ Len(new) = Len(records) + 1 /\ new[k + 1] = x /\ new \in Seq(MPacket)
        /\ \A i \in 1 .. Len(records) : new[i] = records[i]
    BY <1>1, <1>3, <2>1
  <2> HIDE DEF new
  <2>3. k < Len(new) /\ Len(records) <= Len(new) /\ Len(new) \in Nat
    BY <1>1, <1>3, <2>2
  <2>4. Record(new, k) = x
    BY <2>2, <2>3 DEF Record
  <2>5. ASSUME NEW j \in Nat, j < Len(records) PROVE Record(new, j) = Record(records, j)
    <3>1. j + 1 \in 1 .. Len(records) /\ j < Len(new)
      BY <1>1, <2>2, <2>5
    <3> QED
      BY <2>2, <2>5, <3>1 DEF Record
  <2> QED
    BY <2>2, <2>3, <2>4, <2>5 DEF new
<1> QED
  BY <1>1, <1>2, <1>3

-----------------------------------------------------------------------------
(* The steps of a push.                                                     *)

\* A push is of its own router, and of its own lane.
LEMMA PushOwn ==
  ASSUME ~REREADS, TypeOK, CounterInv, NEW q \in Routers, RouterStep(q)
  PROVE  /\ UNCHANGED <<epochSec, agentVars, sent, sentSecs>>
         /\ \A p \in Routers : p # q =>
              /\ rpc'[p] = rpc[p] /\ idx'[p] = idx[p] /\ pushSec'[p] = pushSec[p]
              /\ cntLoad'[p] = cntLoad[p] /\ pushed'[p] = pushed[p]
              /\ \A s \in TimeSlots : cnt'[p][s] = cnt[p][s] /\ store'[p][s] = store[p][s]
<1> USE RowsOfRouters DEF ringVars, routerVars, agentVars, historyVars
<1>1. Row(q) = q /\ Slot(q) \in TimeSlots
  BY OwnLane DEF CounterInv, PushCounts
<1>2. UNCHANGED <<epochSec, agentVars, sent, sentSecs>>
  BY DEF RouterStep, StartPush, Index, Drop, Accept, Copy, LoadCnt, StoreCnt
<1>3. ASSUME NEW p \in Routers, p # q
      PROVE  /\ rpc'[p] = rpc[p] /\ idx'[p] = idx[p] /\ pushSec'[p] = pushSec[p]
             /\ cntLoad'[p] = cntLoad[p] /\ pushed'[p] = pushed[p]
             /\ \A s \in TimeSlots : cnt'[p][s] = cnt[p][s] /\ store'[p][s] = store[p][s]
  <2>0. /\ rpc \in [Routers -> Places] /\ idx \in [Routers -> WriteIndices]
        /\ cntLoad \in [Routers -> Nat] /\ pushSec \in [Routers -> Seconds]
        /\ pushed \in [Routers -> Seq(MPacket)]
        /\ cnt \in [Rows -> [TimeSlots -> Nat]] /\ store \in [Rows -> [TimeSlots -> Seq(MPacket)]]
    BY DEF TypeOK, Places
  <2>1. CASE Copy(q)
    BY <1>1, <1>3, <2>0, <2>1 DEF Copy
  <2>2. CASE StoreCnt(q)
    BY <1>1, <1>3, <2>0, <2>2 DEF StoreCnt
  <2>3. CASE StartPush(q) \/ Index(q) \/ Drop(q) \/ Accept(q) \/ LoadCnt(q)
    BY <1>3, <2>0, <2>3 DEF StartPush, Index, Drop, Accept, LoadCnt
  <2> QED
    BY <2>1, <2>2, <2>3 DEF RouterStep
<1> QED
  BY <1>2, <1>3

\* What it does is seen by its router's queue and, if it writes a record, by
\* the agent.
LEMMA PushKeepsOthers ==
  ASSUME ~REREADS, TypeOK, CounterInv, RecordInv, NEW q \in Routers, RouterStep(q),
         PushPlaces(q)', QueueInv(q)', AgentPlaces'
  PROVE  RecordInv'
<1> USE DEF agentVars
<1>1. UNCHANGED <<epochSec, agentVars, sent, sentSecs>>
  BY PushOwn
<1>2. ASSUME NEW p \in Routers, p # q PROVE PushPlaces(p)' /\ QueueInv(p)'
  <2>1. /\ rpc'[p] = rpc[p] /\ idx'[p] = idx[p] /\ pushSec'[p] = pushSec[p]
        /\ cntLoad'[p] = cntLoad[p] /\ pushed'[p] = pushed[p]
        /\ \A s \in TimeSlots : cnt'[p][s] = cnt[p][s] /\ store'[p][s] = store[p][s]
    BY <1>2, PushOwn
  <2>2. /\ Ahead(p)' = Ahead(p) /\ Slot(p)' = Slot(p) /\ Message(p)' = Message(p)
        /\ Slot(p) \in TimeSlots
    BY <1>1, <2>1, OwnLane DEF Ahead, NextSec, Slot, Message, CounterInv, PushCounts
  <2>3. \A sec \in Ahead(p) : ReadTimeIndex(sec) \in TimeSlots
    BY Naturals, ReadInRange
  <2>4. PushPlaces(p)'
    BY <1>1, <2>1, <2>2, <2>3 DEF RecordInv, PushPlaces
  <2>5. Cells(p)' = Cells(p)
    <3>1. ASSUME NEW sec \in Ahead(p), NEW k \in Nat PROVE Held(p, sec, k)' <=> Held(p, sec, k)
      BY <1>1, <2>1, <2>3 DEF Held, InHand, FirstLeft
    <3> QED
      BY <2>2, <3>1 DEF Cells, Cell
  <2>6. \A c \in Cells(p) : Contents(p)'[c] = Contents(p)[c]
    BY <2>1, <2>3 DEF Cells, Contents
  <2>7. QueueInv(p)'
    BY <1>1, <2>1, <2>5, <2>6, QueueStays DEF RecordInv
  <2> QED
    BY <2>4, <2>7
<1> QED
  BY <1>2 DEF RecordInv

\* Up to Copy a push moves its router only, and on to a later second.
LEMMA StartKeepsRecords ==
  ASSUME ~REREADS, TypeOK, CounterInv, RecordInv, NEW q \in Routers,
         StartPush(q) \/ Index(q) \/ Drop(q) \/ Accept(q)
  PROVE  RecordInv'
<1> USE DEF ringVars, routerVars, agentVars, historyVars
<1>1. /\ RouterStep(q) /\ UNCHANGED <<epochSec, ringVars, cntLoad, agentVars, historyVars>>
      /\ rpc'[q] \notin {"load", "store"}
      /\ pushSec'[q] = pushSec[q] \/ pushSec'[q] = epochSec
  BY DEF StartPush, Index, Drop, Accept, RouterStep, TypeOK
<1>2. AgentPlaces'
  BY <1>1 DEF RecordInv, AgentPlaces
<1>3. PushPlaces(q)'
  <2>1. PICK now \in Nat : now = pushSec'[q] /\ pushSec[q] <= now /\ now <= epochSec
    <3>1. pushSec[q] <= epochSec /\ pushSec[q] \in Nat /\ epochSec \in Nat
      BY Naturals DEF RecordInv, PushPlaces
    <3> QED
      BY <1>1, <3>1
  <2>2. ASSUME NEW sec \in Ahead(q), cnt[q][ReadTimeIndex(sec)] > 0 PROVE sec <= now + 1
    <3>1. sec <= pushSec[q] + 1 /\ sec \in Nat /\ pushSec[q] \in Nat
      BY <2>2, Naturals DEF RecordInv, PushPlaces
    <3>2. pushSec[q] <= now
      BY <2>1
    <3> QED
      BY <3>1, <3>2
  <2> QED
    BY <1>1, <2>1, <2>2 DEF RecordInv, PushPlaces, Ahead, NextSec
<1>4. QueueInv(q)'
  <2>1. Cells(q)' = Cells(q) /\ Contents(q)' = Contents(q)
    BY <1>1 DEF Cells, Contents, Ahead, NextSec, Held, InHand, FirstLeft
  <2> QED
    BY <1>1, <2>1, QueueStays DEF RecordInv
<1> QED
  BY <1>1, <1>2, <1>3, <1>4, PushKeepsOthers

\* The record is made, or made anew, where the agent does not look.
LEMMA CopyKeepsRecords ==
  ASSUME ~REREADS, Timely, TypeOK, PushCounted, CounterInv, ClockInv, RecordInv,
         NEW q \in Routers, Copy(q)
  PROVE  RecordInv'
<1> USE DEF ringVars, routerVars, agentVars, historyVars
<1> DEFINE count == cnt[q][Slot(q)]
           old == store[q][Slot(q)]
           new == Put(old, count, Message(q))
<1>1. /\ RouterStep(q) /\ UNCHANGED <<epochSec, cnt, idx, cntLoad, pushSec, agentVars, historyVars>>
      /\ rpc[q] = "copy" /\ rpc'[q] = "load"
      /\ Slot(q)' = Slot(q) /\ Message(q)' = Message(q)
  BY DEF Copy, RouterStep, TypeOK, Slot, Message
<1>2. /\ Row(q) = q /\ Slot(q) \in TimeSlots /\ Slot(q) = ReadTimeIndex(pushSec[q] + 1)
      /\ pushSec[q] + 1 \in Ahead(q) /\ ~InHand(q, pushSec[q] + 1)
  BY <1>1, PushAhead DEF RecordInv
<1>3. /\ count \in Nat /\ old \in Seq(MPacket) /\ Len(old) \in Nat /\ count <= Len(old)
      /\ Message(q) \in MPacket
  <2>1. Message(q) \in MPacket
    BY <1>1, NewMessage DEF PushCounted
  <2> QED
    BY <1>2, <2>1, Naturals DEF RecordInv, PushPlaces
<1>4. /\ new \in Seq(MPacket) /\ Len(new) \in Nat /\ Len(old) <= Len(new) /\ count < Len(new)
      /\ Record(new, count) = Message(q)
      /\ \A k \in Nat : k < Len(old) /\ k # count => Record(new, k) = Record(old, k)
  <2> HIDE DEF count, old
  <2> QED
    BY <1>3, PutAtEnd
<1>5. /\ store'[q][Slot(q)] = new
      /\ \A s \in TimeSlots : s # Slot(q) => store'[q][s] = store[q][s]
  <2>1. store' = [store EXCEPT ![q][Slot(q)] = new]
    BY <1>2 DEF Copy
  <2>2. store \in [Rows -> [TimeSlots -> Seq(MPacket)]] /\ q \in Rows
    BY RowsOfRouters DEF TypeOK
  <2> HIDE DEF new
  <2> QED
    BY <1>2, <2>1, <2>2
<1> HIDE DEF new
<1>6. AgentPlaces'
  <2>1. ASSUME apc # "take"
        PROVE  store'[lane][lastProcessedIndex] = store[lane][lastProcessedIndex]
    <3>1. CASE lane = q
      <4>1. lastProcessedIndex # Slot(q)
        BY <1>2, <2>1, <3>1, LapOfLane DEF InHand
      <4> QED
        BY <1>5, <3>1, <4>1, Naturals
    <3>2. CASE lane # q
      BY <1>1, <3>2, Naturals, PushOwn
    <3> QED
      BY <3>1, <3>2
  <2> QED
    BY <1>1, <2>1 DEF RecordInv, AgentPlaces
<1>7. PushPlaces(q)'
  <2>1. \A s \in TimeSlots : cnt[q][s] <= Len(store'[q][s])
    <3> SUFFICES ASSUME NEW s \in TimeSlots PROVE cnt[q][s] <= Len(store'[q][s])
      OBVIOUS
    <3>1. CASE s = Slot(q)
      BY <1>3, <1>4, <1>5, <3>1
    <3>2. CASE s # Slot(q)
      BY <1>5, <3>2 DEF RecordInv, PushPlaces
    <3> QED
      BY <3>1, <3>2
  <2> QED
    BY <1>1, <1>4, <1>5, <2>1 DEF RecordInv, PushPlaces, Ahead, NextSec
<1>8. QueueInv(q)'
  <2>1. Cells(q)' = Cells(q)
    BY <1>1 DEF Cells, Ahead, NextSec, Held, InHand, FirstLeft
  <2>2. ASSUME NEW c \in Cells(q) PROVE Contents(q)'[c] = Contents(q)[c]
    <3>1. /\ c \in Cell /\ c[1] \in Ahead(q) /\ c[1] \in Nat /\ c[2] \in Nat
          /\ ReadTimeIndex(c[1]) \in TimeSlots
          /\ c[2] < Len(store[q][ReadTimeIndex(c[1])])
      BY CellsMade
    <3>2. CASE ReadTimeIndex(c[1]) # Slot(q)
      BY <1>5, <3>1, <3>2 DEF Contents
    <3>3. CASE ReadTimeIndex(c[1]) = Slot(q)
      <4>1. c[1] = pushSec[q] + 1
        BY <1>2, <3>1, <3>3, LapOfLane
      <4>2. Before(c, <<pushSec[q] + 1, count>>)
        BY <1>1, PushLast
      <4>3. c[2] # count
        <5> HIDE DEF count
        <5> QED
          BY <1>3, <3>1, <4>1, <4>2 DEF Before
      <4>4. Record(new, c[2]) = Record(old, c[2])
        BY <1>4, <3>1, <3>3, <4>3
      <4> QED
        BY <1>5, <3>1, <3>3, <4>4 DEF Contents
    <3> QED
      BY <3>2, <3>3
  <2> QED
    BY <1>1, <2>1, <2>2, QueueStays DEF RecordInv
<1> QED
  BY <1>1, <1>6, <1>7, <1>8, PushKeepsOthers

LEMMA LoadKeepsRecords ==
  ASSUME ~REREADS, TypeOK, CounterInv, RecordInv, NEW q \in Routers, LoadCnt(q)
  PROVE  RecordInv'
<1> USE DEF ringVars, routerVars, agentVars, historyVars
<1>0. Row(q) = q
  BY OwnLane DEF CounterInv, PushCounts
<1>1. /\ RouterStep(q) /\ UNCHANGED <<epochSec, ringVars, idx, pushSec, agentVars, historyVars>>
      /\ rpc[q] = "load" /\ rpc'[q] = "store" /\ cntLoad'[q] = cnt[q][Slot(q)]
      /\ Slot(q)' = Slot(q) /\ Message(q)' = Message(q)
  BY <1>0 DEF LoadCnt, RouterStep, TypeOK, Slot, Message
<1>2. AgentPlaces' /\ PushPlaces(q)'
  BY <1>1 DEF RecordInv, AgentPlaces, PushPlaces, Ahead, NextSec
<1>3. QueueInv(q)'
  <2>1. Cells(q)' = Cells(q) /\ Contents(q)' = Contents(q)
    BY <1>1 DEF Cells, Contents, Ahead, NextSec, Held, InHand, FirstLeft
  <2> QED
    BY <1>1, <2>1, QueueStays DEF RecordInv
<1> QED
  BY <1>1, <1>2, <1>3, PushKeepsOthers

\* The message pushed becomes the last of its router's queue.
LEMMA StoreKeepsRecords ==
  ASSUME ~REREADS, Timely, TypeOK, PushCounted, CounterInv, ClockInv, RecordInv,
         NEW q \in Routers, StoreCnt(q)
  PROVE  RecordInv'
<1> USE DEF ringVars, routerVars, agentVars, historyVars
<1> DEFINE slot == Slot(q)
           sec1 == pushSec[q] + 1
           w == <<sec1, cntLoad[q]>>
<1>0. Row(q) = q
  BY OwnLane DEF CounterInv, PushCounts
<1>1. /\ RouterStep(q) /\ UNCHANGED <<epochSec, store, idx, cntLoad, pushSec, agentVars>>
      /\ UNCHANGED <<sent, sentSecs>>
      /\ rpc[q] = "store" /\ rpc'[q] = "idle"
      /\ cnt' = [cnt EXCEPT ![q][slot] = cntLoad[q] + 1]
      /\ pushed'[q] = Append(pushed[q], Message(q))
  BY <1>0 DEF StoreCnt, RouterStep, TypeOK
<1>2. /\ slot \in TimeSlots /\ slot = ReadTimeIndex(sec1)
      /\ sec1 \in Ahead(q) /\ ~InHand(q, sec1)
  BY <1>1, PushAhead DEF RecordInv
<1>3. /\ cntLoad[q] \in Nat /\ pushSec[q] \in Nat /\ sec1 \in Nat
      /\ cntLoad[q] = cnt[q][slot] /\ cntLoad[q] < Len(store[q][slot])
      /\ Len(store[q][slot]) \in Nat /\ Record(store[q][slot], cntLoad[q]) = Message(q)
  BY <1>1, <1>2, Naturals DEF RecordInv, PushPlaces
<1>4. /\ cnt'[q][slot] = cntLoad[q] + 1
      /\ \A s \in TimeSlots : s # slot => cnt'[q][s] = cnt[q][s]
  <2>1. cnt \in [Rows -> [TimeSlots -> Nat]] /\ q \in Rows
    BY RowsOfRouters DEF TypeOK
  <2> QED
    BY <1>1, <1>2, <2>1
<1>5. AgentPlaces'
  BY <1>1 DEF RecordInv, AgentPlaces
<1>6. PushPlaces(q)'
  <2>1. ASSUME NEW sec \in Ahead(q), cnt'[q][ReadTimeIndex(sec)] > 0 PROVE sec <= sec1
    <3>1. CASE ReadTimeIndex(sec) = slot
      <4>1. sec = sec1
        BY <1>2, <3>1, LapOfLane
      <4> QED
        BY <1>3, <4>1
    <3>2. CASE ReadTimeIndex(sec) # slot
      <4>1. ReadTimeIndex(sec) \in TimeSlots
        BY LapOfLane
      <4> QED
        BY <1>4, <2>1, <3>2, <4>1 DEF RecordInv, PushPlaces
    <3> QED
      BY <3>1, <3>2
  <2>2. \A s \in TimeSlots : cnt'[q][s] <= Len(store[q][s])
    <3> SUFFICES ASSUME NEW s \in TimeSlots PROVE cnt'[q][s] <= Len(store[q][s])
      OBVIOUS
    <3>1. CASE s = slot
      BY <1>3, <1>4, <3>1
    <3>2. CASE s # slot
      BY <1>4, <3>2 DEF RecordInv, PushPlaces
    <3> QED
      BY <3>1, <3>2
  <2> QED
    BY <1>1, <2>1, <2>2 DEF RecordInv, PushPlaces, Ahead, NextSec
<1>7. w \in Cell /\ w[1] = sec1 /\ w[2] = cntLoad[q]
  BY <1>3 DEF Cell
<1>8. \A c \in Cells(q) : Before(c, w)
  BY <1>1, <1>3, PushLast
<1>9. ASSUME NEW c \in Cell, c[1] \in Ahead(q)
      PROVE  Held(q, c[1], c[2])' <=> c \in Cells(q) \/ c = w
  <2> HIDE DEF w
  <2>1. c \in Cells(q) <=> Held(q, c[1], c[2])
    BY <1>9 DEF Cells
  <2>2. c[2] \in Nat /\ c = <<c[1], c[2]>> /\ ReadTimeIndex(c[1]) \in TimeSlots
    BY <1>9, LapOfLane DEF Cell
  <2>3. CASE c[1] = sec1
    <3>1. c = w <=> c[2] = cntLoad[q]
      BY <1>7, <1>9, <2>3 DEF Cell
    <3>2. Held(q, c[1], c[2]) <=> c[2] < cntLoad[q]
      BY <1>2, <1>3, <2>3 DEF Held
    <3>3. Held(q, c[1], c[2])' <=> c[2] < cntLoad[q] + 1
      BY <1>1, <1>2, <1>4, <2>3 DEF Held, InHand
    <3>4. c[2] < cntLoad[q] + 1 <=> (c[2] < cntLoad[q] \/ c[2] = cntLoad[q])
      BY <1>3, <2>2
    <3> QED
      BY <2>1, <3>1, <3>2, <3>3, <3>4
  <2>4. CASE c[1] # sec1
    <3>1. ReadTimeIndex(c[1]) # slot
      BY <1>2, <1>9, <2>4, LapOfLane
    <3>2. cnt'[q][ReadTimeIndex(c[1])] = cnt[q][ReadTimeIndex(c[1])]
      BY <1>4, <2>2, <3>1
    <3>3. Held(q, c[1], c[2])' <=> Held(q, c[1], c[2])
      BY <1>1, <3>2 DEF Held, InHand, FirstLeft
    <3> QED
      BY <1>7, <2>1, <2>4, <3>3
  <2> QED
    BY <2>3, <2>4
<1>10. Cells(q)' = Cells(q) \cup {w}
  <2>1. Ahead(q)' = Ahead(q) /\ w[1] \in Ahead(q)
    BY <1>1, <1>2, <1>7 DEF Ahead, NextSec
  <2>2. \A c \in Cells(q) : c \in Cell /\ c[1] \in Ahead(q)
    BY DEF Cells
  <2>3. \A c : c \in Cells(q)' <=> c \in Cell /\ c[1] \in Ahead(q) /\ Held(q, c[1], c[2])'
    BY <2>1 DEF Cells
  <2> HIDE DEF w
  <2> QED
    BY <1>7, <1>9, <2>1, <2>2, <2>3
<1>11. Contents(q)' = Contents(q) /\ Contents(q)[w] = Message(q)
  BY <1>1, <1>2, <1>3, <1>7 DEF Contents
<1>12. QueueInv(q)'
  <2>1. /\ Message(q) \in MPacket /\ Message(q).id = Len(pushed[q]) + 1
        /\ Message(q).sec + 1 = sec1
    <3>1. Message(q) \in MPacket
      BY <1>1, NewMessage DEF PushCounted
    <3> QED
      BY <3>1 DEF Message
  <2>2. HoldsQueue(MPacket, Cells(q), Contents(q), pushed[q], sent[q])
    BY DEF RecordInv, QueueInv
  <2>3. HoldsQueue(MPacket, Cells(q) \cup {w}, Contents(q),
                   Append(pushed[q], Message(q)), sent[q])
    <3> HIDE DEF w
    <3> QED
      BY <1>7, <1>8, <1>11, <2>1, <2>2, PutLast
  <2>4. cntLoad[q] < Message(q).id
    <3>1. Len(pushed[q]) \in Nat
      <4>1. pushed[q] \in Seq(MPacket)
        BY DEF TypeOK
      <4> QED
        BY <4>1
    <3>2. CASE cntLoad[q] = 0
      BY <2>1, <3>1, <3>2
    <3>3. CASE cntLoad[q] > 0
      <4> DEFINE last == <<sec1, cntLoad[q] - 1>>
      <4>1. last \in Cell /\ last[1] = sec1 /\ last[2] = cntLoad[q] - 1
        BY <1>3, <3>3 DEF Cell
      <4> HIDE DEF last
      <4>2. last \in Cells(q)
        BY <1>2, <1>3, <4>1 DEF Cells, Held
      <4>3. last[2] < Contents(q)[last].id /\ Contents(q)[last].id \in 1 .. Len(pushed[q])
        <5>1. Len(sent[q]) \in Nat
          BY <2>2 DEF HoldsQueue
        <5>2. Contents(q)[last].id \in Len(sent[q]) + 1 .. Len(pushed[q])
          BY <2>2, <4>2 DEF HoldsQueue
        <5> QED
          BY <3>1, <4>2, <5>1, <5>2 DEF RecordInv, QueueInv
      <4>4. PICK i \in 1 .. Len(pushed[q]) : last[2] < i
        BY <4>3
      <4>5. cntLoad[q] - 1 < i
        BY <4>1, <4>4
      <4>6. cntLoad[q] < Len(pushed[q]) + 1
        BY <1>3, <3>1, <4>5
      <4> QED
        BY <2>1, <4>6
    <3> QED
      BY <1>3, <3>2, <3>3
  <2>5. \A c \in Cells(q)' : Contents(q)'[c].sec + 1 = c[1] /\ c[2] < Contents(q)'[c].id
    <3>1. \A c \in Cells(q) : Contents(q)[c].sec + 1 = c[1] /\ c[2] < Contents(q)[c].id
      BY DEF RecordInv, QueueInv
    <3> HIDE DEF w
    <3> QED
      BY <1>7, <1>10, <1>11, <2>1, <2>4, <3>1
  <2> QED
    BY <1>1, <1>10, <1>11, <2>3, <2>5 DEF QueueInv
<1> QED
  BY <1>1, <1>5, <1>6, <1>12, PushKeepsOthers

-----------------------------------------------------------------------------
(* The steps of the agent.                                                  *)

\* One entry of a table of counters is lowered.
LEMMA EntryLowered ==
  ASSUME NEW f \in [Rows -> [TimeSlots -> Nat]], NEW g, NEW r \in Rows, NEW t \in TimeSlots,
         NEW v \in Nat, v <= f[r][t], g = [f EXCEPT ![r][t] = v]
  PROVE  \A q \in Rows, s \in TimeSlots :
           /\ g[q][s] \in Nat /\ g[q][s] <= f[q][s]
           /\ (q # r \/ s # t) => g[q][s] = f[q][s]
<1> SUFFICES ASSUME NEW q \in Rows, NEW s \in TimeSlots
             PROVE  /\ g[q][s] \in Nat /\ g[q][s] <= f[q][s]
                    /\ (q # r \/ s # t) => g[q][s] = f[q][s]
  OBVIOUS
<1>1. CASE q = r /\ s = t
  BY <1>1
<1>2. CASE q # r \/ s # t
  <2>1. g[q][s] = f[q][s] /\ f[q][s] \in Nat
    BY <1>2
  <2> QED
    BY <1>2, <2>1
<1> QED
  BY <1>1, <1>2

\* A step of the agent counts down the slot it is at, in its lane, and leaves
\* the lap of every other lane.
LEMMA AgentOwn ==
  ASSUME TypeOK, CounterInv, AgentStep
  PROVE  /\ UNCHANGED <<epochSec, store, routerVars, pushed>>
         /\ \A q \in Routers, s \in TimeSlots :
              /\ cnt'[q][s] \in Nat /\ cnt'[q][s] <= cnt[q][s]
              /\ (q # lane \/ s # lastProcessedIndex) => cnt'[q][s] = cnt[q][s]
         /\ \A q \in Routers : q # lane =>
              NextSec(q)' = NextSec(q) /\ sent'[q] = sent[q]
         /\ UNCHANGED <<lane, lastSec>> \/ (LaneDone /\ apc' = "take")
<1> USE RowsOfRouters DEF ringVars, routerVars, historyVars
<1>1. /\ cnt \in [Rows -> [TimeSlots -> Nat]] /\ sent \in [Routers -> Seq(MPacket)]
      /\ lane \in Routers /\ lastProcessedIndex \in TimeSlots
      /\ recCnt \in Nat /\ recIdx \in Nat /\ cntDec \in Nat
  BY DEF TypeOK
<1>2. UNCHANGED <<epochSec, store, routerVars, pushed>>
  BY DEF AgentStep, Poll, TakeLane, Deliver, LoadDec, StoreDec, ZeroCnt
<1>3. \A q \in Routers, s \in TimeSlots :
        /\ cnt'[q][s] \in Nat /\ cnt'[q][s] <= cnt[q][s]
        /\ (q # lane \/ s # lastProcessedIndex) => cnt'[q][s] = cnt[q][s]
  <2>1. CASE UNCHANGED cnt
    BY <1>1, <2>1
  <2>2. CASE StoreDec
    <3>1. /\ recIdx < recCnt /\ recCnt - recIdx <= cntDec
          /\ cntDec <= cnt[lane][lastProcessedIndex] /\ cnt[lane][lastProcessedIndex] \in Nat
      BY <1>1, <2>2 DEF StoreDec, CounterInv, AgentCounts
    <3>2. cntDec # 0 /\ cntDec - 1 \in Nat /\ cntDec - 1 <= cnt[lane][lastProcessedIndex]
      BY <1>1, <3>1
    <3>3. cnt' = [cnt EXCEPT ![lane][lastProcessedIndex] = cntDec - 1]
      BY <2>2, <3>2 DEF StoreDec
    <3> QED
      BY <1>1, <3>2, <3>3, EntryLowered
  <2>3. CASE ZeroCnt
    <3>1. cnt' = [cnt EXCEPT ![lane][lastProcessedIndex] = 0]
      BY <2>3 DEF ZeroCnt
    <3>2. 0 <= cnt[lane][lastProcessedIndex] /\ 0 \in Nat
      BY <1>1
    <3> QED
      BY <1>1, <3>1, <3>2, EntryLowered
  <2> QED
    BY <2>1, <2>2, <2>3 DEF AgentStep, Poll, TakeLane, Deliver, LoadDec
<1>4. UNCHANGED <<lane, lastSec>> \/ (LaneDone /\ apc' = "take")
  BY DEF AgentStep, Poll, TakeLane, Deliver, LoadDec, StoreDec, ZeroCnt
<1>5. ASSUME NEW q \in Routers, q # lane PROVE NextSec(q)' = NextSec(q) /\ sent'[q] = sent[q]
  <2>1. sent'[q] = sent[q]
    BY <1>1, <1>5 DEF AgentStep, Poll, TakeLane, Deliver, LoadDec, StoreDec, ZeroCnt
  <2>2. CASE UNCHANGED <<lane, lastSec>>
    BY <2>1, <2>2 DEF NextSec
  <2>3. CASE LaneDone
    <3>1. q \in 0 .. ROUTERS - 1 /\ lane \in 0 .. ROUTERS - 1 /\ ROUTERS \in Nat
      BY <1>1, AgentRingAssumption DEF Routers
    <3>2. CASE lane + 1 < ROUTERS
      <4>1. lane' = lane + 1 /\ lastSec' = lastSec
        BY <2>3, <3>2 DEF LaneDone
      <4>2. q < lane + 1 <=> q < lane
        BY <1>5, <3>1
      <4> QED
        BY <2>1, <4>1, <4>2 DEF NextSec
    <3>3. CASE ~(lane + 1 < ROUTERS)
      <4>1. lane' = 0 /\ lastSec' = lastSec + 1
        BY <2>3, <3>3 DEF LaneDone
      <4>2. q < lane /\ ~(q < 0)
        BY <1>5, <3>1, <3>3
      <4> QED
        BY <2>1, <4>1, <4>2 DEF NextSec
    <3> QED
      BY <3>2, <3>3
  <2> QED
    BY <1>4, <2>2, <2>3
<1> QED
  BY <1>2, <1>3, <1>4, <1>5

\* It is seen by the queue of the agent's lane only.
LEMMA AgentKeepsOthers ==
  ASSUME Timely, TypeOK, CounterInv, ClockInv, RecordInv, AgentStep,
         AgentPlaces', NEW l \in Routers, l = lane, QueueInv(l)',
         \A sec \in Ahead(l)' : sec \in Ahead(l) \/ cnt'[l][ReadTimeIndex(sec)] = 0
  PROVE  RecordInv'
<1> USE DEF routerVars
<1>1. /\ UNCHANGED <<epochSec, store, routerVars, pushed>>
      /\ \A q \in Routers, s \in TimeSlots :
           /\ cnt'[q][s] \in Nat /\ cnt'[q][s] <= cnt[q][s]
           /\ (q # lane \/ s # lastProcessedIndex) => cnt'[q][s] = cnt[q][s]
  BY AgentOwn
<1>2. ASSUME NEW q \in Routers
      PROVE  \A sec \in Ahead(q)' : sec \in Ahead(q) \/ cnt'[q][ReadTimeIndex(sec)] = 0
  <2>1. CASE q # lane
    BY <2>1, AgentOwn DEF Ahead
  <2> QED
    BY <2>1
<1>3. ASSUME NEW q \in Routers PROVE PushPlaces(q)'
  <2>1. Slot(q)' = Slot(q) /\ Message(q)' = Message(q) /\ Slot(q) \in TimeSlots
    BY <1>1, OwnLane DEF Slot, Message, CounterInv, PushCounts
  <2>2. ASSUME NEW sec \in Ahead(q)', cnt'[q][ReadTimeIndex(sec)] > 0 PROVE sec <= pushSec[q] + 1
    <3>1. sec \in Ahead(q)
      BY <1>2, <2>2
    <3>2. ReadTimeIndex(sec) \in TimeSlots
      BY <3>1, LapOfLane
    <3>3. /\ cnt'[q][ReadTimeIndex(sec)] \in Nat /\ cnt[q][ReadTimeIndex(sec)] \in Nat
          /\ cnt'[q][ReadTimeIndex(sec)] <= cnt[q][ReadTimeIndex(sec)]
      BY <1>1, <3>2, Naturals
    <3>4. cnt[q][ReadTimeIndex(sec)] > 0
      BY <2>2, <3>3
    <3> QED
      BY <3>1, <3>4 DEF RecordInv, PushPlaces
  <2>3. \A s \in TimeSlots : cnt'[q][s] <= Len(store[q][s])
    <3> SUFFICES ASSUME NEW s \in TimeSlots PROVE cnt'[q][s] <= Len(store[q][s])
      OBVIOUS
    <3>1. /\ cnt'[q][s] \in Nat /\ cnt'[q][s] <= cnt[q][s] /\ cnt[q][s] <= Len(store[q][s])
          /\ cnt[q][s] \in Nat /\ Len(store[q][s]) \in Nat
      BY <1>1, Naturals DEF RecordInv, PushPlaces
    <3> QED
      BY <3>1
  <2>4. rpc[q] \in {"load", "store"} => cnt'[q][Slot(q)] = cnt[q][Slot(q)]
    <3> SUFFICES ASSUME rpc[q] \in {"load", "store"} PROVE cnt'[q][Slot(q)] = cnt[q][Slot(q)]
      OBVIOUS
    <3>1. CASE apc = "take"
      BY <1>1, <2>1, <3>1 DEF AgentStep, Poll, TakeLane, Deliver, LoadDec, StoreDec, ZeroCnt,
                              ringVars
    <3>2. CASE apc # "take" /\ q = lane
      <4>1. /\ Slot(q) = ReadTimeIndex(pushSec[q] + 1) /\ pushSec[q] + 1 \in Ahead(q)
            /\ ~InHand(q, pushSec[q] + 1)
        BY PushAhead DEF RecordInv
      <4>2. Slot(q) # lastProcessedIndex
        BY <3>2, <4>1, LapOfLane DEF InHand
      <4> QED
        BY <1>1, <2>1, <4>2
    <3>3. CASE q # lane
      BY <1>1, <2>1, <3>3
    <3> QED
      BY <3>1, <3>2, <3>3
  <2> QED
    BY <1>1, <2>1, <2>2, <2>3, <2>4 DEF RecordInv, PushPlaces
<1>4. ASSUME NEW q \in Routers, q # lane PROVE QueueInv(q)'
  <2>1. Ahead(q)' = Ahead(q) /\ sent'[q] = sent[q]
    BY <1>4, AgentOwn DEF Ahead
  <2>2. ASSUME NEW sec \in Ahead(q), NEW k \in Nat PROVE Held(q, sec, k)' <=> Held(q, sec, k)
    <3>1. ~InHand(q, sec) /\ ~InHand(q, sec)'
      BY <1>4, AgentOwn DEF InHand
    <3>2. cnt'[q][ReadTimeIndex(sec)] = cnt[q][ReadTimeIndex(sec)]
      BY <1>1, <1>4, LapOfLane
    <3> QED
      BY <3>1, <3>2 DEF Held
  <2>3. Cells(q)' = Cells(q)
    BY <2>1, <2>2 DEF Cells, Cell
  <2>4. Contents(q)' = Contents(q)
    BY <1>1 DEF Contents
  <2> QED
    BY <1>1, <2>1, <2>3, <2>4, QueueStays DEF RecordInv
<1> QED
  BY <1>3, <1>4 DEF RecordInv

\* A step that neither sends nor leaves the lane, and holds back no record.
LEMMA NoneSent ==
  ASSUME Timely, TypeOK, CounterInv, ClockInv, RecordInv, AgentStep,
         UNCHANGED <<lane, lastSec, sent>>, AgentPlaces',
         \A k \in Nat : Held(lane, lastSec, k)' <=> Held(lane, lastSec, k)
  PROVE  RecordInv'
<1> DEFINE l == lane
<1>1. /\ l \in Routers /\ UNCHANGED <<store, pushed>>
      /\ \A s \in TimeSlots : s # lastProcessedIndex => cnt'[l][s] = cnt[l][s]
  BY AgentOwn, Naturals
<1>2. Ahead(l)' = Ahead(l)
  BY DEF Ahead, NextSec
<1>3. ASSUME NEW sec \in Ahead(l), NEW k \in Nat PROVE Held(l, sec, k)' <=> Held(l, sec, k)
  <2>1. CASE sec = lastSec
    BY <2>1
  <2>2. CASE sec # lastSec
    <3>1. ReadTimeIndex(sec) # lastProcessedIndex /\ ReadTimeIndex(sec) \in TimeSlots
      BY <1>1, <2>2, LapOfLane
    <3> QED
      BY <1>1, <2>2, <3>1 DEF Held, InHand
  <2> QED
    BY <2>1, <2>2
<1>4. Cells(l)' = Cells(l) /\ Contents(l)' = Contents(l)
  BY <1>1, <1>2, <1>3 DEF Cells, Cell, Contents
<1>5. QueueInv(l)'
  BY <1>1, <1>4, QueueStays DEF RecordInv
<1> QED
  BY <1>1, <1>2, <1>5, AgentKeepsOthers

\* Poll, and the counting down: what is left of the slot stays.
LEMMA WalkKeepsRecords ==
  ASSUME Timely, TypeOK, CounterInv, ClockInv, RecordInv,
         Poll \/ (TakeLane /\ recCnt' > 0) \/ LoadDec \/ StoreDec
  PROVE  RecordInv'
<1> USE DEF ringVars, routerVars, historyVars
<1>0. AgentStep /\ UNCHANGED <<lane, lastSec, lastProcessedIndex, sent, sentSecs, store>>
  BY DEF AgentStep, Poll, TakeLane, LoadDec, StoreDec
<1>1. /\ recCnt \in Nat /\ recIdx \in Nat /\ lane \in Routers
      /\ lastProcessedIndex \in TimeSlots /\ lastProcessedIndex = ReadTimeIndex(lastSec)
      /\ cnt[lane][lastProcessedIndex] \in Nat
  BY Naturals, LapOfLane
<1>2. AgentPlaces
  BY DEF RecordInv
<1>3. CASE Poll
  <2>1. apc = "take" /\ apc' = "take" /\ cnt' = cnt /\ ~(lane > 0)
    BY <1>2, <1>3, IndexTellsSecond DEF Poll, ClockInv, AgentPlaces
  <2>2. AgentPlaces'
    BY <1>0, <1>2, <2>1 DEF AgentPlaces
  <2>3. \A k \in Nat : Held(lane, lastSec, k)' <=> Held(lane, lastSec, k)
    BY <1>0, <2>1 DEF Held, InHand
  <2> QED
    BY <1>0, <2>2, <2>3, NoneSent
<1>4. CASE TakeLane /\ recCnt' > 0
  <2>1. /\ apc = "take" /\ apc' = "deliver" /\ cnt' = cnt /\ readSec' = readSec
        /\ recCnt' = cnt[lane][lastProcessedIndex] /\ recIdx' = 0
    BY <1>4 DEF TakeLane
  <2>2. cnt[lane][lastProcessedIndex] <= Len(store[lane][lastProcessedIndex])
    BY <1>1 DEF RecordInv, PushPlaces
  <2>3. AgentPlaces'
    BY <1>0, <1>2, <2>1, <2>2 DEF AgentPlaces
  <2>4. \A k \in Nat : Held(lane, lastSec, k)' <=> Held(lane, lastSec, k)
    BY <1>0, <1>1, <2>1 DEF Held, InHand, FirstLeft
  <2> QED
    BY <1>0, <2>3, <2>4, NoneSent
<1>5. CASE LoadDec
  <2>1. /\ apc = "load" /\ apc' = "store" /\ readSec' = readSec /\ recCnt' = recCnt
        /\ recIdx' = recIdx
    BY <1>5 DEF LoadDec
  <2>2. AgentPlaces'
    BY <1>0, <1>2, <2>1 DEF AgentPlaces
  <2>3. \A k \in Nat : Held(lane, lastSec, k)' <=> Held(lane, lastSec, k)
    BY <1>0, <2>1 DEF Held, InHand, FirstLeft
  <2> QED
    BY <1>0, <2>2, <2>3, NoneSent
<1>6. CASE StoreDec
  <2>1. /\ apc = "store" /\ readSec' = readSec /\ recCnt' = recCnt /\ recIdx' = recIdx + 1
        /\ apc' = IF recIdx + 1 < recCnt THEN "deliver" ELSE "zero"
    BY <1>6 DEF StoreDec
  <2>2. recIdx < recCnt
    BY <2>1 DEF CounterInv, AgentCounts
  <2>3. apc' = "zero" => recIdx + 1 = recCnt
    BY <1>1, <2>1, <2>2
  <2>4. AgentPlaces'
    BY <1>0, <1>2, <2>1, <2>3 DEF AgentPlaces
  <2>5. \A k \in Nat : Held(lane, lastSec, k)' <=> Held(lane, lastSec, k)
    BY <1>0, <2>1 DEF Held, InHand, FirstLeft
  <2> QED
    BY <1>0, <2>4, <2>5, NoneSent
<1> QED
  BY <1>3, <1>4, <1>5, <1>6

\* The first cell of the agent's lane, when it is about to send.
First == <<lastSec, recIdx>>

\* The record the agent is about to send.
ToSend == Record(store[lane][lastProcessedIndex], recIdx)

LEMMA FirstOfCells ==
  ASSUME TypeOK, CounterInv, ClockInv, RecordInv, apc = "deliver"
  PROVE  /\ IsFirst(First, Cells(lane)) /\ Contents(lane)[First] = ToSend
         /\ lastSec \in Nat /\ recIdx \in Nat
<1>1. /\ lastSec \in Nat /\ recIdx \in Nat /\ recCnt \in Nat /\ recIdx < recCnt
      /\ lane \in Routers /\ lastSec \in Ahead(lane) /\ NextSec(lane) = lastSec
      /\ lastProcessedIndex = ReadTimeIndex(lastSec)
  BY Naturals, LapOfLane DEF CounterInv, AgentCounts
<1>2. First \in Cell /\ First[1] = lastSec /\ First[2] = recIdx
  BY <1>1 DEF First, Cell
<1>3. First \in Cells(lane)
  BY <1>1, <1>2 DEF Cells, Held, InHand, FirstLeft
<1>4. ASSUME NEW c \in Cells(lane) PROVE c = First \/ Before(First, c)
  <2>1. /\ c[1] \in Nat /\ c[2] \in Nat /\ c = <<c[1], c[2]>> /\ c[1] \in Ahead(lane)
        /\ Held(lane, c[1], c[2])
    BY <1>1, CellsMade
  <2>2. lastSec <= c[1]
    BY <1>1, <2>1, LapOfLane
  <2>3. CASE c[1] = lastSec
    <3>1. recIdx <= c[2]
      BY <2>1, <2>3 DEF Held, InHand, FirstLeft
    <3>2. CASE c[2] = recIdx
      BY <2>1, <2>3, <3>2 DEF First
    <3>3. CASE c[2] # recIdx
      BY <1>1, <1>2, <2>1, <2>3, <3>1, <3>3 DEF Before
    <3> QED
      BY <3>2, <3>3
  <2>4. CASE c[1] # lastSec
    BY <1>1, <1>2, <2>1, <2>2, <2>4 DEF Before
  <2> QED
    BY <2>3, <2>4
<1>5. Contents(lane)[First] = ToSend
  BY <1>1, <1>2 DEF Contents, ToSend
<1> QED
  BY <1>1, <1>3, <1>4, <1>5 DEF IsFirst

\* The record sent is the head of the queue of the agent's lane.
LEMMA DeliverTakesHead ==
  ASSUME TypeOK, CounterInv, ClockInv, RecordInv, apc = "deliver"
  PROVE  /\ Len(sent[lane]) < Len(pushed[lane])
         /\ ToSend = pushed[lane][Len(sent[lane]) + 1]
         /\ ToSend.sec + 1 = lastSec
         /\ HoldsQueue(MPacket, Cells(lane) \ {First}, Contents(lane), pushed[lane],
                       Append(sent[lane], ToSend))
<1>0. lane \in Routers
  BY Naturals
<1>1. /\ IsFirst(First, Cells(lane)) /\ First \in Cells(lane)
      /\ Contents(lane)[First] = ToSend /\ First[1] = lastSec
  BY FirstOfCells DEF First, IsFirst
<1>2. /\ HoldsQueue(MPacket, Cells(lane), Contents(lane), pushed[lane], sent[lane])
      /\ ToSend.sec + 1 = lastSec
  BY <1>0, <1>1 DEF RecordInv, QueueInv
<1>3. /\ Len(sent[lane]) < Len(pushed[lane])
      /\ Contents(lane)[First] = NextOut(pushed[lane], sent[lane])
      /\ HoldsQueue(MPacket, Cells(lane) \ {First}, Contents(lane), pushed[lane],
                    Append(sent[lane], Contents(lane)[First]))
  BY <1>1, <1>2, TakeFirst
<1> QED
  BY <1>1, <1>2, <1>3 DEF NextOut

LEMMA DeliverKeepsRecords ==
  ASSUME Timely, TypeOK, CounterInv, ClockInv, RecordInv, Deliver
  PROVE  RecordInv'
<1> USE DEF ringVars, routerVars, historyVars
<1> DEFINE l == lane
<1>1. /\ AgentStep /\ apc = "deliver" /\ apc' = "load"
      /\ UNCHANGED <<cnt, store, lane, lastSec, readSec, lastProcessedIndex, recCnt, recIdx,
                     pushed>>
      /\ l \in Routers /\ sent'[l] = Append(sent[l], ToSend)
      /\ sentSecs' = Append(sentSecs, ToSend.sec)
  BY DEF Deliver, AgentStep, TypeOK, ToSend
<1>2. AgentPlaces'
  <2>1. /\ ToSend.sec \in Seconds /\ Seconds \subseteq Nat /\ lastSec \in Nat
        /\ sentSecs \in Seq(Seconds)
    <3>1. store[l][lastProcessedIndex] \in Seq(MPacket) /\ recIdx \in Nat /\ lastSec \in Nat
      BY Naturals
    <3>2. ToSend \in MPacket
      BY <3>1, RecordInSet DEF ToSend
    <3> QED
      BY <3>1, <3>2, RowsOfRouters DEF MPacket, TypeOK
  <2>2. ToSend.sec < lastSec
    <3>1. ToSend.sec + 1 = lastSec
      BY <1>1, DeliverTakesHead
    <3>2. ToSend.sec \in Nat
      BY <2>1
    <3> HIDE DEF ToSend
    <3> QED
      BY <3>1, <3>2
  <2>3. \A n \in 1 .. Len(sentSecs) : sentSecs[n] < lastSec
    BY DEF RecordInv, AgentPlaces
  <2>4. \A n \in 1 .. Len(sentSecs') : sentSecs'[n] < lastSec
    <3> DEFINE s == ToSend.sec
    <3>1. s \in Seconds /\ s < lastSec /\ sentSecs' = Append(sentSecs, s)
      BY <1>1, <2>1, <2>2
    <3> HIDE DEF s
    <3> QED
      BY <2>1, <2>3, <3>1
  <2> QED
    BY <1>1, <2>4 DEF RecordInv, AgentPlaces
<1>3. Ahead(l)' = Ahead(l) /\ Contents(l)' = Contents(l)
  BY <1>1 DEF Ahead, NextSec, Contents
<1>4. ASSUME NEW c \in Cell, c[1] \in Ahead(l)
      PROVE  Held(l, c[1], c[2])' <=> (Held(l, c[1], c[2]) /\ c # First)
  <2>1. /\ c[1] \in Nat /\ c[2] \in Nat /\ c = <<c[1], c[2]>>
        /\ recIdx \in Nat /\ lastSec \in Nat
    BY FirstOfCells, <1>1 DEF Cell
  <2>2. CASE c[1] = lastSec
    <3>1. c = First <=> c[2] = recIdx
      BY <2>1, <2>2 DEF First
    <3>2. Held(l, c[1], c[2]) <=> recIdx <= c[2] /\ c[2] < recCnt
      BY <1>1, <2>2 DEF Held, InHand, FirstLeft
    <3>3. Held(l, c[1], c[2])' <=> recIdx + 1 <= c[2] /\ c[2] < recCnt
      BY <1>1, <2>2 DEF Held, InHand, FirstLeft
    <3>4. recIdx + 1 <= c[2] <=> recIdx <= c[2] /\ c[2] # recIdx
      BY <2>1
    <3> QED
      BY <3>1, <3>2, <3>3, <3>4
  <2>3. CASE c[1] # lastSec
    <3>1. c # First
      BY <2>3 DEF First
    <3> QED
      BY <1>1, <2>3, <3>1 DEF Held, InHand
  <2> QED
    BY <2>2, <2>3
<1>5. Cells(l)' = Cells(l) \ {First}
  BY <1>3, <1>4 DEF Cells
<1>6. QueueInv(l)'
  <2>1. HoldsQueue(MPacket, Cells(l) \ {First}, Contents(l), pushed[l], Append(sent[l], ToSend))
    BY <1>1, DeliverTakesHead
  <2>2. \A c \in Cells(l)' : /\ Contents(l)'[c].sec + 1 = c[1]
                             /\ c[2] < Contents(l)'[c].id
    BY <1>1, <1>3, <1>5 DEF RecordInv, QueueInv
  <2>3. HoldsQueue(MPacket, Cells(l)', Contents(l)', pushed'[l], sent'[l])
    BY <1>1, <1>3, <1>5, <2>1
  <2> QED
    BY <1>1, <2>2, <2>3 DEF QueueInv
<1> QED
  BY <1>1, <1>2, <1>3, <1>6, AgentKeepsOthers

\* The lane left is empty at the slot, so the slot can be taken there as that
\* of the lap's last second.
LEMMA LaneMovesOn ==
  ASSUME Timely, TypeOK, CounterInv, ClockInv, RecordInv, AgentStep, LaneDone,
         apc' = "take", UNCHANGED <<sent, sentSecs, readSec>>, lastSec < readSec,
         cnt'[lane][lastProcessedIndex] = 0, \A k \in Nat : ~Held(lane, lastSec, k)
  PROVE  RecordInv'
<1>0. PICK l \in Routers : l = lane
  BY Naturals
<1> DEFINE next == lastSec + TIME_INDEX
<1>1. /\ UNCHANGED <<store, pushed>> /\ lane \in Nat /\ lastSec \in Nat
      /\ \A s \in TimeSlots : s # lastProcessedIndex => cnt'[l][s] = cnt[l][s]
      /\ lastProcessedIndex = ReadTimeIndex(lastSec) /\ NextSec(l) = lastSec
      /\ sent'[l] = sent[l]
  BY <1>0, AgentOwn, Naturals, LapOfLane
<1>2. /\ \/ lane' = lane + 1 /\ lastSec' = lastSec
         \/ lane' = 0 /\ lastSec' = lastSec + 1
  BY DEF LaneDone
<1>3. AgentPlaces'
  <2>1. \A n \in 1 .. Len(sentSecs) : sentSecs[n] < lastSec
    BY DEF RecordInv, AgentPlaces
  <2>3. \A n \in 1 .. Len(sentSecs) : sentSecs[n] < lastSec + 1
    <3> SUFFICES ASSUME NEW n \in 1 .. Len(sentSecs) PROVE sentSecs[n] < lastSec + 1
      OBVIOUS
    <3>1. sentSecs \in Seq(Seconds)
      BY DEF TypeOK
    <3>2. PICK s \in Nat : sentSecs[n] = s
      <4>1. sentSecs[n] \in Seconds
        BY <3>1
      <4> QED
        BY <4>1, RowsOfRouters
    <3>3. s < lastSec
      BY <2>1, <3>2
    <3>4. s < lastSec + 1
      BY <1>1, <3>3
    <3> QED
      BY <3>2, <3>4
  <2>4. CASE lane' = lane + 1 /\ lastSec' = lastSec
    BY <2>1, <2>4 DEF AgentPlaces
  <2>5. CASE lane' = 0 /\ lastSec' = lastSec + 1
    BY <2>3, <2>5 DEF AgentPlaces
  <2> QED
    BY <1>2, <2>4, <2>5
<1>4. Ahead(l)' = lastSec + 1 .. lastSec + 1 + TIME_INDEX - 1
  <2>1. CASE lane' = lane + 1 /\ lastSec' = lastSec
    <3>1. l < lane + 1
      BY <1>0, <1>1
    <3>2. NextSec(l)' = lastSec + 1
      BY <2>1, <3>1 DEF NextSec
    <3> QED
      BY <3>2 DEF Ahead
  <2>2. CASE lane' = 0 /\ lastSec' = lastSec + 1
    <3>1. ~(l < 0)
      BY <1>0, <1>1
    <3>2. NextSec(l)' = lastSec + 1
      BY <2>2, <3>1 DEF NextSec
    <3> QED
      BY <3>2 DEF Ahead
  <2> QED
    BY <1>2, <2>1, <2>2
<1>5. /\ \A sec \in Ahead(l)' : sec \in Ahead(l) \/ sec = next
      /\ \A sec \in Ahead(l) : sec \in Ahead(l)' \/ sec = lastSec
      /\ \A sec \in Ahead(l)' : sec # lastSec
  <2>1. Ahead(l) = lastSec .. lastSec + TIME_INDEX - 1
    BY <1>1 DEF Ahead
  <2>2. ASSUME NEW sec \in lastSec + 1 .. lastSec + 1 + TIME_INDEX - 1
        PROVE  (sec \in lastSec .. lastSec + TIME_INDEX - 1 \/ sec = next) /\ sec # lastSec
    BY <1>1, TimeIndexAssumption
  <2>3. ASSUME NEW sec \in lastSec .. lastSec + TIME_INDEX - 1
        PROVE  sec \in lastSec + 1 .. lastSec + 1 + TIME_INDEX - 1 \/ sec = lastSec
    BY <1>1, TimeIndexAssumption
  <2> QED
    BY <1>4, <2>1, <2>2, <2>3
<1>6. cnt'[l][ReadTimeIndex(next)] = 0
  BY <1>0, <1>1, SameSlotNextLap
<1>7. ASSUME NEW c \in Cell PROVE c \in Cells(l)' <=> c \in Cells(l)
  <2>1. c[2] \in Nat
    BY DEF Cell
  <2>2. Held(l, c[1], c[2])' <=> c[2] < cnt'[l][ReadTimeIndex(c[1])]
    BY DEF Held, InHand
  <2>3. CASE c[1] = lastSec
    <3>1. ~Held(l, c[1], c[2])
      BY <1>0, <2>1, <2>3
    <3> QED
      BY <1>5, <2>3, <3>1 DEF Cells
  <2>4. CASE c[1] # lastSec
    <3>1. c[1] \in Ahead(l) => (Held(l, c[1], c[2]) <=> Held(l, c[1], c[2])')
      <4> SUFFICES ASSUME c[1] \in Ahead(l)
                   PROVE  Held(l, c[1], c[2]) <=> Held(l, c[1], c[2])'
        OBVIOUS
      <4>1. lastSec \in Ahead(l) /\ ReadTimeIndex(c[1]) \in TimeSlots
        BY <1>0, LapOfLane
      <4>2. ReadTimeIndex(c[1]) # lastProcessedIndex
        BY <1>1, <2>4, <4>1, LapOfLane
      <4>3. cnt'[l][ReadTimeIndex(c[1])] = cnt[l][ReadTimeIndex(c[1])]
        BY <1>1, <4>1, <4>2
      <4> QED
        BY <2>2, <2>4, <4>3 DEF Held, InHand
    <3>2. Held(l, c[1], c[2])' => c[1] # next
      BY <1>6, <2>1, <2>2
    <3> QED
      BY <1>5, <2>4, <3>1, <3>2 DEF Cells
  <2> QED
    BY <2>3, <2>4
<1>8. Cells(l)' = Cells(l)
  BY <1>7 DEF Cells
<1>9. QueueInv(l)'
  <2>1. pushed'[l] = pushed[l] /\ Contents(l)' = Contents(l)
    BY <1>1 DEF Contents
  <2> QED
    BY <1>1, <1>8, <2>1, QueueStays DEF RecordInv
<1>10. \A sec \in Ahead(l)' : sec \in Ahead(l) \/ cnt'[l][ReadTimeIndex(sec)] = 0
  BY <1>5, <1>6
<1> QED
  BY <1>0, <1>3, <1>9, <1>10, AgentKeepsOthers

\* A lane with nothing in the slot, and one whose messages are all sent.
LEMMA LaneDoneKeepsRecords ==
  ASSUME Timely, TypeOK, CounterInv, ClockInv, RecordInv,
         (TakeLane /\ ~(recCnt' > 0)) \/ ZeroCnt
  PROVE  RecordInv'
<1> USE DEF ringVars, routerVars, historyVars
<1>0. /\ AgentStep /\ LaneDone /\ apc' = "take" /\ UNCHANGED <<sent, sentSecs, readSec>>
  BY DEF AgentStep, TakeLane, ZeroCnt
<1>1. /\ lane \in Routers /\ lastProcessedIndex \in TimeSlots /\ recIdx \in Nat /\ recCnt \in Nat
      /\ lastProcessedIndex = ReadTimeIndex(lastSec)
      /\ cnt[lane][lastProcessedIndex] \in Nat
  BY Naturals, LapOfLane
<1>2. CASE TakeLane /\ ~(recCnt' > 0)
  <2>1. /\ SlotsBehind /\ apc = "take" /\ cnt' = cnt
        /\ ~(cnt[lane][lastProcessedIndex] > 0)
    BY <1>2 DEF TakeLane
  <2>2. lastSec < readSec
    BY <2>1, IndexTellsSecond DEF ClockInv
  <2>3. cnt'[lane][lastProcessedIndex] = 0
    BY <1>1, <2>1
  <2>4. ASSUME NEW k \in Nat PROVE ~Held(lane, lastSec, k)
    BY <1>1, <2>1 DEF Held, InHand
  <2> QED
    BY <1>0, <2>2, <2>3, <2>4, LaneMovesOn
<1>3. CASE ZeroCnt
  <2>1. apc = "zero" /\ cnt' = [cnt EXCEPT ![lane][lastProcessedIndex] = 0]
    BY <1>3 DEF ZeroCnt
  <2>2. lastSec < readSec
    BY <2>1 DEF ClockInv, AgentTimed
  <2>3. cnt'[lane][lastProcessedIndex] = 0
    BY <1>1, <2>1, RowsOfRouters DEF TypeOK
  <2>4. recIdx = recCnt
    BY <2>1 DEF RecordInv, AgentPlaces
  <2>5. ASSUME NEW k \in Nat PROVE ~Held(lane, lastSec, k)
    BY <1>1, <2>1, <2>4 DEF Held, InHand, FirstLeft
  <2> QED
    BY <1>0, <2>2, <2>3, <2>5, LaneMovesOn
<1> QED
  BY <1>2, <1>3

LEMMA StepRecords ==
  ASSUME Timely, ~REREADS, TypeOK, PushCounted, CounterInv, ClockInv, RecordInv, [Next]_vars
  PROVE  RecordInv'
<1>1. CASE Tick \/ UNCHANGED vars
  BY <1>1, TickKeepsRecords
<1>2. ASSUME NEW q \in Routers, RouterStep(q) PROVE RecordInv'
  BY <1>2, StartKeepsRecords, CopyKeepsRecords, LoadKeepsRecords, StoreKeepsRecords
     DEF RouterStep
<1>3. CASE AgentStep
  BY <1>3, WalkKeepsRecords, DeliverKeepsRecords, LaneDoneKeepsRecords DEF AgentStep
<1> QED
  BY <1>1, <1>2, <1>3 DEF Next

StoreInv == TypeOK /\ PushCounted /\ CounterInv /\ ClockInv /\ RecordInv

\* Within Timely, and when the clock is read once, the records are where the
\* counters and indices say: what the agent has yet to send of a router's is,
\* in order, what the router pushed.
THEOREM StoreInvariant ==
  ASSUME Timely, ~REREADS PROVE Spec => []StoreInv
<1>1. Init => StoreInv
  BY InitTypes, InitCounters, InitClock, InitRecords DEF StoreInv
<1>2. StoreInv /\ [Next]_vars => StoreInv'
  BY StepTypes, StepPushes, StepCounters, StepClock, StepRecords DEF StoreInv
<1> QED
  BY <1>1, <1>2, PTL DEF Spec

\* A message pushed and not yet sent is in a cell of its router.
LEMMA LeftIsLive ==
  ASSUME StoreInv PROVE NothingLost
<1> SUFFICES ASSUME NEW q \in Routers, NEW n \in Len(sent[q]) + 1 .. Len(pushed[q])
             PROVE  \E s \in TimeSlots, k \in 0 .. MAX_PUSHED - 1 :
                      /\ k < Len(store[q][s]) /\ Live(q, s, k)
                      /\ store[q][s][k + 1] = pushed[q][n]
  BY DEF NothingLost
<1> USE DEF StoreInv
<1>1. PICK c \in Cells(q) : Contents(q)[c].id = n
  BY DEF RecordInv, QueueInv, HoldsQueue
<1>2. Contents(q)[c] = pushed[q][n] /\ c[2] < n
  BY <1>1 DEF RecordInv, QueueInv, HoldsQueue
<1> DEFINE s == ReadTimeIndex(c[1])
           k == c[2]
<1>3. /\ s \in TimeSlots /\ k \in Nat /\ c \in Cell /\ c[1] \in Ahead(q) /\ Held(q, c[1], c[2])
      /\ k < Len(store[q][s])
  BY CellsMade
<1>4. k \in 0 .. MAX_PUSHED - 1
  <2>1. pushed[q] \in Seq(MPacket) /\ sent[q] \in Seq(MPacket)
    BY DEF TypeOK
  <2>2. n \in 1 .. Len(pushed[q])
    BY <2>1
  <2>3. pushed[q][n] \in MPacket /\ pushed[q][n].id = n
    BY <1>1, <1>2, <2>1, <2>2
  <2>4. n \in 0 .. MAX_PUSHED
    BY <2>3 DEF MPacket
  <2> QED
    BY <1>2, <1>3, <2>4, AgentRingAssumption
<1>5. store[q][s][k + 1] = pushed[q][n]
  BY <1>2, <1>3 DEF Contents, Record
<1>6. Live(q, s, k)
  <2>1. Sending(q, s) <=> InHand(q, c[1])
    <3>1. CASE q = lane
      BY <1>3, <3>1, LapOfLane DEF Sending, InHand
    <3>2. CASE q # lane
      BY <3>2 DEF Sending, InHand
    <3> QED
      BY <3>1, <3>2
  <2>2. recIdx \in Nat /\ k \in Nat
    BY <1>3, Naturals
  <2>3. FirstLeft <= k => recIdx <= k
    BY <2>2 DEF FirstLeft
  <2> QED
    BY <1>3, <2>1, <2>3 DEF Held, Live
<1> QED
  BY <1>3, <1>4, <1>5, <1>6

\* Within Timely, when the clock is read once, no message is lost: it is sent,
\* or lies in a record that the agent has yet to come to; the reset of the
\* counter forgets none and the lap overwrites none, whatever the number of
\* routers, the cap and the length of the ring.
THEOREM NothingLostCorrect ==
  ASSUME Timely, ~REREADS PROVE Spec => []NothingLost
<1>1. StoreInv => NothingLost
  BY LeftIsLive
<1> QED
  BY <1>1, StoreInvariant, PTL

\* What is sent is of the second before the agent's slot, and all that was
\* sent before it is of that second or an earlier one.
LEMMA StepSendsInOrder ==
  ASSUME StoreInv, SentBySecond, [Next]_vars
  PROVE  SentBySecond'
<1> USE DEF StoreInv, vars, ringVars, routerVars, agentVars, historyVars
<1>1. CASE Deliver
  <2>1. PICK s \in Seconds : sentSecs' = Append(sentSecs, s) /\ s + 1 = lastSec
    <3>1. ToSend.sec + 1 = lastSec
      BY <1>1, DeliverTakesHead DEF Deliver
    <3>2. store[lane][lastProcessedIndex] \in Seq(MPacket) /\ recIdx \in Nat
      BY Naturals
    <3>3. ToSend \in MPacket
      BY <3>2, RecordInSet DEF ToSend
    <3> QED
      BY <1>1, <3>1, <3>3 DEF Deliver, ToSend, MPacket
  <2>2. /\ sentSecs \in Seq(Seconds) /\ lastSec \in Nat /\ s \in Nat
        /\ \A n \in 1 .. Len(sentSecs) : sentSecs[n] \in Nat
    <3>1. sentSecs \in Seq(Seconds) /\ lastSec \in Nat /\ s \in Nat
      BY RowsOfRouters DEF TypeOK
    <3>2. \A n \in 1 .. Len(sentSecs) : sentSecs[n] \in Seconds
      BY <3>1
    <3> QED
      BY <3>1, <3>2, RowsOfRouters
  <2>3. \A n \in 1 .. Len(sentSecs) : sentSecs[n] <= s
    <3> SUFFICES ASSUME NEW n \in 1 .. Len(sentSecs) PROVE sentSecs[n] <= s
      OBVIOUS
    <3>1. PICK t \in Nat : sentSecs[n] = t
      BY <2>2
    <3>2. t < lastSec
      BY <3>1 DEF RecordInv, AgentPlaces
    <3>3. t <= s
      BY <2>1, <2>2, <3>2
    <3> QED
      BY <3>1, <3>3
  <2>4. PICK more : more = sentSecs'
    OBVIOUS
  <2>5. /\ Len(more) = Len(sentSecs) + 1 /\ more[Len(sentSecs) + 1] = s
        /\ \A n \in 1 .. Len(sentSecs) : more[n] = sentSecs[n]
    BY <2>1, <2>2, <2>4
  <2>6. ASSUME NEW m \in 1 .. Len(more), NEW n \in 1 .. Len(more), m <= n
        PROVE  more[m] <= more[n]
    <3>0. Len(sentSecs) \in Nat
      BY <2>2
    <3>1. CASE n \in 1 .. Len(sentSecs)
      <4>1. m \in 1 .. Len(sentSecs)
        BY <2>6, <3>0, <3>1
      <4> QED
        BY <2>5, <2>6, <3>1, <4>1 DEF SentBySecond
    <3>2. CASE n = Len(sentSecs) + 1 /\ m \in 1 .. Len(sentSecs)
      BY <2>3, <2>5, <3>2
    <3>3. CASE n = Len(sentSecs) + 1 /\ m = Len(sentSecs) + 1
      BY <2>2, <2>5, <3>3
    <3> QED
      BY <2>5, <3>0, <3>1, <3>2, <3>3
  <2> QED
    BY <2>4, <2>6 DEF SentBySecond
<1>2. CASE ~Deliver
  <2>1. sentSecs' = sentSecs
    BY <1>2 DEF Next, Tick, AgentStep, RouterStep, Poll, TakeLane, LoadDec, StoreDec, ZeroCnt,
                StartPush, Index, Drop, Accept, Copy, LoadCnt, StoreCnt
  <2> QED
    BY <2>1 DEF SentBySecond
<1> QED
  BY <1>1, <1>2

\* Within Timely, when the clock is read once, the messages of all routers
\* together leave in the order of the seconds in which they were pushed.
THEOREM SentBySecondCorrect ==
  ASSUME Timely, ~REREADS PROVE Spec => []SentBySecond
<1>1. Init => SentBySecond
  BY DEF Init, SentBySecond
<1>2. StoreInv /\ SentBySecond /\ [Next]_vars => SentBySecond'
  BY StepSendsInOrder
<1> QED
  BY <1>1, <1>2, StoreInvariant, PTL DEF Spec

\* Every step is a step of the queue, or none of its business: StoreCnt takes
\* a message in, and Deliver gives out the one that is next.
LEMMA StepHandsOver ==
  ASSUME StoreInv, [Next]_vars
  PROVE  [AgentQueue!Next]_<<pushed, sent>>
<1> USE DEF StoreInv, vars, ringVars, routerVars, agentVars, historyVars
<1>1. ASSUME NEW q \in Routers, StoreCnt(q) PROVE AgentQueue!Next
  <2>1. /\ pushed' = [pushed EXCEPT ![q] = Append(@, Message(q))] /\ sent' = sent
        /\ Message(q) \in MPacket
    BY <1>1, NewMessage DEF StoreCnt, PushCounted
  <2> QED
    BY <2>1 DEF AgentQueue!Next, AgentQueue!Accept
<1>2. CASE Deliver
  <2>1. /\ sent' = [sent EXCEPT ![lane] = Append(@, ToSend)] /\ pushed' = pushed
        /\ apc = "deliver" /\ lane \in Routers
    BY <1>2, Naturals DEF Deliver, ToSend
  <2>2. /\ Len(sent[lane]) < Len(pushed[lane])
        /\ ToSend = pushed[lane][Len(sent[lane]) + 1]
    BY <2>1, DeliverTakesHead
  <2>3. AgentQueue!Deliver(lane)
    BY <2>1, <2>2 DEF AgentQueue!Deliver
  <2> QED
    BY <2>1, <2>3 DEF AgentQueue!Next
<1>3. CASE Tick \/ (AgentStep /\ ~Deliver) \/ UNCHANGED vars
  BY <1>3 DEF Tick, AgentStep, Poll, TakeLane, LoadDec, StoreDec, ZeroCnt
<1>4. ASSUME NEW q \in Routers, RouterStep(q), ~StoreCnt(q) PROVE UNCHANGED <<pushed, sent>>
  BY <1>4 DEF RouterStep, StartPush, Index, Drop, Accept, Copy, LoadCnt
<1> QED
  BY <1>1, <1>2, <1>3, <1>4 DEF Next

\* Within Timely, when the clock is read once, the store is a reliable queue
\* from each router to the server: AgentRing refines Handoff.
THEOREM ReliableQueueCorrect ==
  ASSUME Timely, ~REREADS PROVE Spec => ReliableQueue
<1>1. Init => AgentQueue!Init
  BY DEF Init, AgentQueue!Init
<1>2. StoreInv /\ [Next]_vars => [AgentQueue!Next]_<<pushed, sent>>
  BY StepHandsOver
<1> QED
  BY <1>1, <1>2, StoreInvariant, PTL DEF Spec, ReliableQueue, AgentQueue!Spec

=============================================================================
