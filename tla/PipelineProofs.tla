--------------------------- MODULE PipelineProofs ---------------------------
(***************************************************************************)
(* Proofs about Pipeline, for every value of its constants.                *)
(*                                                                         *)
(* What is proved of PacketRing and of AgentRing was proved of each alone, *)
(* against any producer or consumer.  A step of the composition is a step  *)
(* of each ring or leaves it as it is: so each ring's specification, and   *)
(* with it what was proved of the ring, holds of the whole.                *)
(*                                                                         *)
(* On top of that: AgeInv keeps the age of what is pushed, and gives       *)
(* SentInTime; RelayInv keeps what became of each packet decoded, and      *)
(* gives the refinement of Relay.                                          *)
(***************************************************************************)
EXTENDS Pipeline, TLAPS

LEMMA PacketRingStep == [Next]_vars => [P!Next]_(P!vars)
<1> USE DEF P!vars, P!clockVars, P!repoVars, P!listenerVars, P!routerVars, P!historyVars,
            packetVars
<1> SUFFICES ASSUME [Next]_vars PROVE P!Next \/ UNCHANGED P!vars
  OBVIOUS
<1>1. CASE Tick
  BY <1>1 DEF Tick, P!Next
<1>2. CASE Listener
  BY <1>2 DEF Listener, P!Next
<1>3. CASE Agent
  <2>1. UNCHANGED epochSec
    BY <1>3 DEF Agent, A!AgentStep, A!Poll, A!TakeLane, A!Deliver, A!LoadDec, A!StoreDec,
                A!ZeroCnt
  <2> QED
    BY <1>3, <2>1 DEF Agent
<1>4. ASSUME NEW r \in Routers, RouterStep(r) PROVE P!Next \/ UNCHANGED P!vars
  <2>0. r \in P!Routers
    BY DEF Routers, P!Routers
  <2>1. CASE RouterLoop(r)
    BY <2>0, <2>1 DEF RouterLoop, P!Next, P!RouterStep
  <2>2. CASE DecodeOnly(r) \/ DecodeToPush(r)
    BY <2>0, <2>2 DEF DecodeOnly, DecodeToPush, P!Next, P!RouterStep
  <2>3. CASE PushStep(r)
    BY <2>3 DEF PushStep, A!Index, A!Accept, A!Copy, A!LoadCnt
  <2>4. CASE PushDropped(r) \/ PushDone(r)
    BY <2>4 DEF PushDropped, PushDone, A!Drop, A!StoreCnt
  <2> QED
    BY <1>4, <2>1, <2>2, <2>3, <2>4 DEF RouterStep
<1>5. CASE UNCHANGED vars
  BY <1>5 DEF vars
<1> QED
  BY <1>1, <1>2, <1>3, <1>4, <1>5 DEF Next

\* The composition is a behaviour of the packet ring: a router that pushes
\* what it decodes is one of the routers PacketRing allows.
THEOREM ImplementsPacketRing == Spec => P!Spec
<1>1. Init => P!Init
  BY DEF Init
<1> QED
  BY <1>1, PacketRingStep, PTL DEF Spec, P!Spec

LEMMA AgentRingStep == [Next]_vars => [A!Next]_(A!vars)
<1> USE DEF A!vars, A!ringVars, A!routerVars, A!agentVars, A!historyVars, agentVars
<1> SUFFICES ASSUME [Next]_vars PROVE A!Next \/ UNCHANGED A!vars
  OBVIOUS
<1>1. CASE Tick
  BY <1>1 DEF Tick, A!Next
<1>2. CASE Listener
  <2>1. UNCHANGED epochSec
    BY <1>2 DEF Listener, P!ListenerStep, P!SetPacketProcessing, P!Receive, P!KeepIp,
                P!LeaveOther, P!CheckBusy, P!CheckRoom, P!Fill, P!LoadCnt, P!StoreCnt,
                P!clockVars
  <2> QED
    BY <1>2, <2>1 DEF Listener
<1>3. CASE Agent
  BY <1>3 DEF Agent, A!Next
<1>4. ASSUME NEW r \in Routers, RouterStep(r) PROVE A!Next \/ UNCHANGED A!vars
  <2>0. r \in A!Routers
    BY DEF Routers, A!Routers
  <2>1. CASE RouterLoop(r) \/ DecodeOnly(r)
    BY <2>1 DEF RouterLoop, DecodeOnly, P!Poll, P!TakeSlot, P!MarkBusy, P!Decode, P!LoadDec,
                P!StoreDec, P!ZeroCnt, P!Release, P!clockVars
  <2>2. CASE DecodeToPush(r) \/ PushStep(r) \/ PushDropped(r) \/ PushDone(r)
    BY <2>0, <2>2 DEF DecodeToPush, PushStep, PushDropped, PushDone, A!Next, A!RouterStep
  <2> QED
    BY <1>4, <2>1, <2>2 DEF RouterStep
<1>5. CASE UNCHANGED vars
  BY <1>5 DEF vars
<1> QED
  BY <1>1, <1>2, <1>3, <1>4, <1>5 DEF Next

\* The composition is a behaviour of the agent's store: its guard on a push's
\* length costs the composition no step that the packet ring allows.
THEOREM ImplementsAgentRing == Spec => A!Spec
<1>1. Init => A!Init
  BY DEF Init
<1> QED
  BY <1>1, AgentRingStep, PTL DEF Spec, A!Spec

-----------------------------------------------------------------------------
(* What was proved of each ring holds of the composition.                   *)

PP == INSTANCE PacketRingProofs

AP == INSTANCE AgentRingProofs WITH
  PUSH_LAG <- ROUTER_LAG, MAX_PUSHED <- MAX_STORED,
  cnt <- ipMsgCnt, store <- ipMsg, rpc <- pushPc, cntLoad <- msgCntLoad,
  recCnt <- msgRecCnt, recIdx <- msgRecIdx, cntDec <- msgCntDec,
  readSec <- agentReadSec, lastSec <- agentLastSec

\* PP and AP are the rings again, as their proofs name them: the definitions
\* are the same, letter by letter.
LEMMA SamePacketRing == /\ PP!Init <=> P!Init
                        /\ [PP!Next]_(PP!vars) <=> [P!Next]_(P!vars)
<1> USE DEF
      P!vars, PP!vars, P!clockVars, PP!clockVars, P!repoVars, PP!repoVars,
      P!listenerVars, PP!listenerVars, P!routerVars, PP!routerVars, P!historyVars,
      PP!historyVars
<1>1. PP!Init <=> P!Init
  BY DEF
      P!Init, PP!Init, P!Rows, PP!Rows, P!Routers, PP!Routers, P!TimeSlots,
      PP!TimeSlots, P!MAX_LEN, PP!MAX_LEN, P!EmptyPkt, PP!EmptyPkt, P!ReadTimeIndex,
      PP!ReadTimeIndex
<1>2. PP!Next <=> P!Next
  BY DEF
      P!Next, PP!Next, P!Tick, PP!Tick, P!SetPacketProcessing, PP!SetPacketProcessing,
      P!ListenerStep, PP!ListenerStep, P!Receive, PP!Receive, P!KeepIp, PP!KeepIp,
      P!LeaveOther, PP!LeaveOther, P!CheckBusy, PP!CheckBusy, P!CheckRoom, PP!CheckRoom,
      P!Fill, PP!Fill, P!LoadCnt, PP!LoadCnt, P!StoreCnt, PP!StoreCnt, P!RouterStep,
      PP!RouterStep, P!Poll, PP!Poll, P!TakeSlot, PP!TakeSlot, P!MarkBusy, PP!MarkBusy,
      P!Decode, PP!Decode, P!LoadDec, PP!LoadDec, P!StoreDec, PP!StoreDec, P!ZeroCnt,
      PP!ZeroCnt, P!Release, PP!Release, P!Routers, PP!Routers, P!EnterTimeIndex,
      PP!EnterTimeIndex, P!ListenerClocks, PP!ListenerClocks, P!LastRead, PP!LastRead,
      P!ReadsAgain, PP!ReadsAgain, P!WriteIndex, PP!WriteIndex, P!Row, PP!Row, P!Slot,
      PP!Slot, P!RowOf, PP!RowOf, P!ColumnOf, PP!ColumnOf, P!StampOf, PP!StampOf,
      P!Room, PP!Room, P!MAX_PKT, PP!MAX_PKT, P!MAX_LEN, PP!MAX_LEN, P!NewPkt, PP!NewPkt,
      P!NextRouter, PP!NextRouter, P!SlotsBehind, PP!SlotsBehind, P!ReadTimeIndex,
      PP!ReadTimeIndex, P!ReadNextTimeIndex, PP!ReadNextTimeIndex
<1> QED
  BY <1>1, <1>2

LEMMA SameAgentRing == /\ AP!Init <=> A!Init
                       /\ [AP!Next]_(AP!vars) <=> [A!Next]_(A!vars)
<1> USE DEF
      A!vars, AP!vars, A!ringVars, AP!ringVars, A!routerVars, AP!routerVars,
      A!agentVars, AP!agentVars, A!historyVars, AP!historyVars
<1>1. AP!Init <=> A!Init
  BY DEF
      A!Init, AP!Init, A!Rows, AP!Rows, A!Routers, AP!Routers, A!TimeSlots,
      AP!TimeSlots, A!ReadTimeIndex, AP!ReadTimeIndex
<1>2. AP!Next <=> A!Next
  BY DEF
      A!Next, AP!Next, A!Tick, AP!Tick, A!AgentStep, AP!AgentStep, A!RouterStep,
      AP!RouterStep, A!Routers, AP!Routers, A!StartPush, AP!StartPush, A!Index,
      AP!Index, A!Drop, AP!Drop, A!Accept, AP!Accept, A!Copy, AP!Copy, A!LoadCnt,
      AP!LoadCnt, A!StoreCnt, AP!StoreCnt, A!Poll, AP!Poll, A!TakeLane, AP!TakeLane,
      A!LaneDone, AP!LaneDone, A!Deliver, AP!Deliver, A!LoadDec, AP!LoadDec, A!StoreDec,
      AP!StoreDec, A!ZeroCnt, AP!ZeroCnt, A!Row, AP!Row, A!Slot, AP!Slot, A!RowOf,
      AP!RowOf, A!ColumnOf, AP!ColumnOf, A!Full, AP!Full, A!MAX_PACKET_PUSH_SOCKET,
      AP!MAX_PACKET_PUSH_SOCKET, A!Message, AP!Message, A!Put, AP!Put, A!Record,
      AP!Record, A!Unset, AP!Unset, A!SlotsBehind, AP!SlotsBehind, A!LastRead,
      AP!LastRead, A!ReadsAgain, AP!ReadsAgain, A!WriteIndex, AP!WriteIndex,
      A!ReadTimeIndex, AP!ReadTimeIndex, A!ReadNextTimeIndex, AP!ReadNextTimeIndex
<1> QED
  BY <1>1, <1>2

LEMMA PacketRingHolds == Spec => PP!Spec
  BY SamePacketRing, ImplementsPacketRing, PTL DEF P!Spec, PP!Spec

LEMMA AgentRingHolds == Spec => AP!Spec
  BY SameAgentRing, ImplementsAgentRing, PTL DEF A!Spec, AP!Spec

\* Both rings at work, and the routers the consumers of one and the producers
\* of the other: while the threads are scheduled within the bounds of both, no
\* slot of PKTStore and no lane of the agent's store has two users at once,
\* for every number of routers and length of the rings.
THEOREM RingsApart ==
  ASSUME P!Timely, A!Timely
  PROVE  Spec => [](P!NoOverlap /\ A!NoOverlap)
<1>1. PP!Timely /\ AP!Timely
  BY DEF P!Timely, PP!Timely, A!Timely, AP!Timely
<1>2. PP!Spec => []PP!NoOverlap
  BY <1>1, PipelineAssumption, PP!NoOverlapCorrect
<1>3. AP!Spec => []AP!NoOverlap
  BY <1>1, PipelineAssumption, AP!NoOverlapCorrect
<1>4. PP!NoOverlap <=> P!NoOverlap
  BY DEF
      P!NoOverlap, PP!NoOverlap, P!Writing, PP!Writing, P!Draining, PP!Draining,
      P!Routers, PP!Routers, P!TimeSlots, PP!TimeSlots, P!Row, PP!Row, P!Slot, PP!Slot,
      P!RowOf, PP!RowOf, P!ColumnOf, PP!ColumnOf
<1>5. AP!NoOverlap <=> A!NoOverlap
  BY DEF
      A!NoOverlap, AP!NoOverlap, A!Pushing, AP!Pushing, A!Sending, AP!Sending,
      A!Routers, AP!Routers, A!TimeSlots, AP!TimeSlots, A!Row, AP!Row, A!Slot, AP!Slot,
      A!RowOf, AP!RowOf, A!ColumnOf, AP!ColumnOf
<1> QED
  BY <1>2, <1>3, <1>4, <1>5, PacketRingHolds, AgentRingHolds, PTL

-----------------------------------------------------------------------------
(* The push inside its router's loop.                                       *)

LoopInv ==
  /\ epochSec \in Nat
  /\ readSec \in [Routers -> Nat] /\ pushSec \in [Routers -> Nat]
  /\ \A r \in Routers : readSec[r] <= epochSec
  /\ PushWithinLoop

LEMMA InitLoop == Init => LoopInv
<1> SUFFICES ASSUME Init PROVE LoopInv
  OBVIOUS
<1>1. epochSec \in Nat
  BY PipelineAssumption DEF Init, P!TimeIndexAssumption, P!PacketRingAssumption
<1> QED
  BY <1>1 DEF Init, P!Init, A!Init, P!Routers, A!Routers, Routers, LoopInv, PushWithinLoop

LEMMA StepLoop == LoopInv /\ [Next]_vars => LoopInv'
<1> USE DEF LoopInv, PushWithinLoop
<1> SUFFICES ASSUME LoopInv, [Next]_vars PROVE LoopInv'
  OBVIOUS
<1>1. CASE Tick
  BY <1>1 DEF Tick, P!Tick, A!Tick, P!routerVars, A!routerVars
<1>2. CASE Listener
  <2>1. UNCHANGED <<epochSec, readSec, pushSec, pushPc>>
    BY <1>2 DEF Listener, P!ListenerStep, P!SetPacketProcessing, P!Receive, P!KeepIp,
                P!LeaveOther, P!CheckBusy, P!CheckRoom, P!Fill, P!LoadCnt, P!StoreCnt,
                P!clockVars, P!routerVars, agentVars
  <2> QED
    BY <2>1
<1>3. CASE Agent
  <2>1. UNCHANGED <<epochSec, readSec, pushSec, pushPc>>
    BY <1>3 DEF Agent, A!AgentStep, A!Poll, A!TakeLane, A!Deliver, A!LoadDec, A!StoreDec,
                A!ZeroCnt, A!routerVars, packetVars
  <2> QED
    BY <2>1
<1>4. ASSUME NEW r \in Routers, RouterStep(r) PROVE LoopInv'
  <2>1. CASE RouterLoop(r)
    <3>1. /\ UNCHANGED <<epochSec, pushSec, pushPc>> /\ pushPc[r] = "idle"
          /\ readSec' \in {readSec, [readSec EXCEPT ![r] = epochSec]}
      BY <2>1 DEF RouterLoop, NotPushing, P!Poll, P!TakeSlot, P!MarkBusy, P!LoadDec,
                  P!StoreDec, P!ZeroCnt, P!Release, P!clockVars, agentVars
    <3> QED
      BY <3>1
  <2>2. CASE DecodeOnly(r)
    BY <2>2 DEF DecodeOnly, P!Decode, P!clockVars, agentVars
  <2>3. CASE DecodeToPush(r)
    <3>1. /\ UNCHANGED <<epochSec, readSec>>
          /\ pushSec' = [pushSec EXCEPT ![r] = epochSec]
          /\ pushPc' = [pushPc EXCEPT ![r] = "index"]
      BY <2>3 DEF DecodeToPush, P!Decode, P!clockVars, A!StartPush
    <3> QED
      BY <3>1
  <2>4. CASE PushStep(r) \/ PushDropped(r) \/ PushDone(r)
    <3>1. UNCHANGED <<epochSec, readSec>>
      BY <2>4 DEF PushStep, PushDropped, PushDone, A!Index, A!Accept, A!Copy, A!LoadCnt,
                  A!Drop, A!StoreCnt, packetVars
    <3>2. pushPc[r] # "idle" /\ \E pc : pushPc' = [pushPc EXCEPT ![r] = pc]
      BY <2>4 DEF PushStep, PushDropped, PushDone, A!Index, A!Accept, A!Copy, A!LoadCnt,
                  A!Drop, A!StoreCnt
    <3>3. \/ UNCHANGED pushSec
          \/ pushSec' = [pushSec EXCEPT ![r] = epochSec]
          \/ pushSec' = [pushSec EXCEPT ![r] = pushSec[r]]
      BY <2>4 DEF PushStep, PushDropped, PushDone, A!Index, A!Accept, A!Copy, A!LoadCnt,
                  A!Drop, A!StoreCnt, A!LastRead
    <3> QED
      BY <3>1, <3>2, <3>3
  <2> QED
    BY <1>4, <2>1, <2>2, <2>3, <2>4 DEF RouterStep
<1>5. CASE UNCHANGED vars
  BY <1>5 DEF vars, packetVars, agentVars
<1> QED
  BY <1>1, <1>2, <1>3, <1>4, <1>5 DEF Next

\* A push begins after its router's loop last read the clock and ends before
\* the loop reads it again, so the bound on the loop bounds the push.
THEOREM PushWithinLoopCorrect == Spec => []PushWithinLoop
<1>1. LoopInv => PushWithinLoop
  BY DEF LoopInv
<1> QED
  BY <1>1, InitLoop, StepLoop, PTL DEF Spec

-----------------------------------------------------------------------------
(* The age of a message.                                                    *)

\* What is proved of the rings, within both rings' bounds and when the clock is
\* read once.
Rings == PP!RingInv /\ PP!FreshWhenDecoded /\ AP!StoreInv

LEMMA RingsHold ==
  ASSUME P!Timely, A!Timely, ~REREADS
  PROVE  Spec => []Rings
<1>1. PP!Timely /\ AP!Timely
  BY DEF P!Timely, PP!Timely, A!Timely, AP!Timely
<1>2. PP!Spec => []PP!RingInv
  BY <1>1, PipelineAssumption, PP!RecordsInvariant
<1>3. PP!Spec => []PP!FreshWhenDecoded
  BY <1>1, PipelineAssumption, PP!FreshWhenDecodedCorrect
<1>4. AP!Spec => []AP!StoreInv
  BY <1>1, PipelineAssumption, AP!StoreInvariant
<1> QED
  BY <1>2, <1>3, <1>4, PacketRingHolds, AgentRingHolds, PTL DEF Rings

\* A packet stamped stamp is decoded, and its push begun, in second sec.
Fresh(stamp, sec) ==
  /\ stamp \in Nat /\ sec \in Nat
  /\ 2 - P!StampLag <= sec - stamp /\ sec - stamp <= 2 * ROUTER_LAG + 1

\* A push is of the packet its router decoded last, and each message that was
\* pushed is of the packet noted for it.
Aged(r) ==
  /\ pushPc[r] # "idle" => /\ rpc[r] = "load" /\ decoded[r] # <<>>
                           /\ Fresh(Last(decoded[r]).tv_sec, pushSec[r])
  /\ Len(source[r]) = Len(pushed[r])
  /\ \A n \in 1 .. Len(pushed[r]) : Fresh(source[r][n].tv_sec, pushed[r][n].sec)

AgeInv == source \in [Routers -> Seq(P!RawPkt)] /\ \A r \in Routers : Aged(r)

\* What the steps need of the types.
LEMMA RingTypes ==
  ASSUME Rings
  PROVE  /\ decoded \in [Routers -> Seq(P!RawPkt)]
         /\ rpc \in [Routers -> {"walk", "mark", "decode", "load", "store", "zero", "release"}]
         /\ pushPc \in [Routers -> {"idle", "index", "check", "copy", "load", "store"}]
         /\ pushSec \in [Routers -> Nat] /\ pushed \in [Routers -> Seq(A!MPacket)]
         /\ epochSec \in Nat
<1>1. /\ PP!RawPkt = P!RawPkt /\ PP!Routers = Routers /\ AP!Routers = Routers
      /\ AP!MPacket = A!MPacket /\ AP!Seconds \subseteq Nat
  BY PipelineAssumption, P!PacketRingAssumption
     DEF PP!RawPkt, P!RawPkt, PP!Stamps, P!Stamps, PP!Routers, AP!Routers, Routers,
         AP!MPacket, A!MPacket, AP!Seconds, A!Seconds
<1> QED
  BY <1>1 DEF Rings, PP!RingInv, AP!StoreInv, PP!TypeOK, AP!TypeOK

LEMMA InitAge == Init => AgeInv
<1> SUFFICES ASSUME Init PROVE AgeInv
  OBVIOUS
<1>1. source \in [Routers -> Seq(P!RawPkt)]
  BY DEF Init
<1>2. ASSUME NEW r \in Routers PROVE Aged(r)
  <2>1. pushPc[r] = "idle" /\ source[r] = <<>> /\ pushed[r] = <<>>
    BY DEF Init, A!Init, A!Routers, Routers
  <2> QED
    BY <2>1 DEF Aged
<1> QED
  BY <1>1, <1>2 DEF AgeInv

\* A packet is fresh when it is decoded.
LEMMA DecodedFresh ==
  ASSUME Rings, NEW r \in Routers, P!Decode(r)
  PROVE  /\ rpc[r] = "decode" /\ rpc' = [rpc EXCEPT ![r] = "load"]
         /\ \E x \in P!RawPkt : /\ Fresh(x.tv_sec, epochSec)
                                /\ decoded' = [decoded EXCEPT ![r] = Append(@, x)]
                                /\ decoded[r] \in Seq(P!RawPkt)
<1> DEFINE x == pktRepository[r][lastTIndex[r]][recIdx[r]]
<1>1. /\ rpc[r] = "decode" /\ rpc' = [rpc EXCEPT ![r] = "load"]
      /\ decoded' = [decoded EXCEPT ![r] = Append(@, x)]
  BY DEF P!Decode
<1>2. r \in PP!Routers
  BY DEF PP!Routers, Routers
<1>3. x \in PP!RawPkt
  BY <1>1, <1>2, PipelineAssumption, PP!DecodeTakesHead DEF Rings, PP!RingInv
<1>4. PP!RawPkt = P!RawPkt
  BY DEF PP!RawPkt, P!RawPkt, PP!Stamps, P!Stamps
<1>5. x.tv_sec \in Nat
  BY <1>3, PipelineAssumption, P!PacketRingAssumption DEF PP!RawPkt, PP!Stamps
<1>6. 2 - P!StampLag <= epochSec - x.tv_sec /\ epochSec - x.tv_sec <= 2 * ROUTER_LAG + 1
  BY <1>1, <1>2 DEF Rings, PP!FreshWhenDecoded, PP!StampLag, P!StampLag
<1> HIDE DEF x
<1>7. Fresh(x.tv_sec, epochSec)
  BY <1>5, <1>6, RingTypes DEF Fresh
<1> QED
  BY <1>1, <1>3, <1>4, <1>7, RingTypes

LEMMA StepAge ==
  ASSUME ~REREADS, Rings, AgeInv, [Next]_vars
  PROVE  AgeInv'
<1>0. /\ decoded \in [Routers -> Seq(P!RawPkt)]
      /\ rpc \in [Routers -> {"walk", "mark", "decode", "load", "store", "zero", "release"}]
      /\ pushPc \in [Routers -> {"idle", "index", "check", "copy", "load", "store"}]
      /\ pushSec \in [Routers -> Nat] /\ pushed \in [Routers -> Seq(A!MPacket)]
      /\ epochSec \in Nat
  BY RingTypes
<1> DEFINE Kept(q) == /\ rpc'[q] = rpc[q] /\ decoded'[q] = decoded[q] /\ source'[q] = source[q]
                      /\ pushPc'[q] = pushPc[q] /\ pushSec'[q] = pushSec[q]
                      /\ pushed'[q] = pushed[q]
<1>1. ASSUME NEW q \in Routers, Kept(q) PROVE Aged(q)'
  BY <1>1 DEF AgeInv, Aged, Fresh
<1>2. CASE Tick \/ Listener \/ Agent \/ UNCHANGED vars
  <2>1. UNCHANGED <<rpc, decoded, source, pushPc, pushSec, pushed>>
    BY <1>2 DEF Tick, P!Tick, A!Tick, P!routerVars, P!historyVars, A!routerVars, A!historyVars,
                fateVars, Listener, P!ListenerStep, P!SetPacketProcessing, P!Receive, P!KeepIp,
                P!LeaveOther, P!CheckBusy, P!CheckRoom, P!Fill, P!LoadCnt, P!StoreCnt, agentVars,
                Agent, A!AgentStep, A!Poll, A!TakeLane, A!Deliver, A!LoadDec, A!StoreDec,
                A!ZeroCnt, packetVars, vars
  <2>2. \A q \in Routers : Kept(q)
    BY <2>1
  <2> QED
    BY <1>1, <2>1, <2>2 DEF AgeInv
<1>3. ASSUME NEW r \in Routers, RouterStep(r) PROVE AgeInv'
  <2>1. ASSUME NEW q \in Routers, q # r PROVE Kept(q)
    <3>1. CASE RouterLoop(r)
      <4>1. decoded' = decoded /\ rpc'[q] = rpc[q]
        BY <1>0, <2>1, <3>1
           DEF RouterLoop, P!Poll, P!TakeSlot, P!MarkBusy, P!LoadDec, P!StoreDec, P!ZeroCnt,
               P!Release, P!historyVars
      <4> QED
        BY <3>1, <4>1 DEF RouterLoop, agentVars, fateVars
    <3>2. CASE DecodeOnly(r)
      BY <1>0, <2>1, <3>2 DEF DecodeOnly, P!Decode, agentVars
    <3>3. CASE DecodeToPush(r)
      BY <1>0, <2>1, <3>3 DEF DecodeToPush, P!Decode, A!StartPush, A!historyVars, fateVars
    <3>4. CASE PushStep(r)
      BY <1>0, <2>1, <3>4 DEF PushStep, A!Index, A!Accept, A!Copy, A!LoadCnt, A!historyVars,
                              packetVars, fateVars
    <3>5. CASE PushDropped(r)
      BY <1>0, <2>1, <3>5 DEF PushDropped, A!Drop, A!historyVars, packetVars
    <3>6. CASE PushDone(r)
      BY <1>0, <2>1, <3>6 DEF PushDone, A!StoreCnt, packetVars, AgeInv
    <3> QED
      BY <1>3, <3>1, <3>2, <3>3, <3>4, <3>5, <3>6 DEF RouterStep
  <2>2. Aged(r)
    BY DEF AgeInv
  <2>3. CASE RouterLoop(r)
    <3>1. /\ pushPc[r] = "idle" /\ UNCHANGED <<pushPc, pushed, source>>
      BY <2>3 DEF RouterLoop, NotPushing, agentVars, fateVars
    <3>2. Aged(r)'
      BY <2>2, <3>1 DEF Aged, Fresh
    <3> QED
      BY <1>1, <2>1, <3>2, <3>1 DEF AgeInv
  <2>4. CASE DecodeOnly(r)
    <3>1. rpc[r] = "decode" /\ UNCHANGED <<pushPc, pushed, source>>
      BY <2>4 DEF DecodeOnly, P!Decode, agentVars
    <3>2. pushPc'[r] = "idle"
      BY <2>2, <3>1 DEF Aged
    <3>3. Aged(r)'
      BY <2>2, <3>1, <3>2 DEF Aged, Fresh
    <3> QED
      BY <1>1, <2>1, <3>3, <3>1 DEF AgeInv
  <2>5. CASE DecodeToPush(r)
    <3>1. PICK x \in P!RawPkt : /\ Fresh(x.tv_sec, epochSec) /\ rpc'[r] = "load"
                                /\ decoded'[r] = Append(decoded[r], x)
      BY <1>0, <2>5, DecodedFresh DEF DecodeToPush
    <3>2. pushSec'[r] = epochSec /\ UNCHANGED <<pushed, source>>
      BY <1>0, <2>5 DEF DecodeToPush, A!StartPush, A!historyVars, fateVars
    <3>3. Last(decoded'[r]) = x
      BY <1>0, <3>1 DEF Last
    <3>4. Fresh(Last(decoded'[r]).tv_sec, pushSec'[r])
      BY <3>1, <3>2, <3>3
    <3>5. Aged(r)'
      BY <2>2, <3>1, <3>2, <3>4 DEF Aged, Fresh
    <3> QED
      BY <1>1, <2>1, <3>2, <3>5 DEF AgeInv
  <2>6. CASE PushStep(r)
    <3>1. /\ pushPc[r] # "idle" /\ UNCHANGED <<rpc, decoded, pushed, source>>
          /\ pushSec'[r] = pushSec[r]
      BY <1>0, <2>6 DEF PushStep, A!Index, A!Accept, A!Copy, A!LoadCnt, packetVars, fateVars,
                        A!historyVars
    <3>2. Aged(r)'
      BY <2>2, <3>1 DEF Aged, Fresh
    <3> QED
      BY <1>1, <2>1, <3>2, <3>1 DEF AgeInv
  <2>7. CASE PushDropped(r)
    <3>1. pushPc'[r] = "idle" /\ UNCHANGED <<pushed, source>>
      BY <1>0, <2>7 DEF PushDropped, A!Drop, A!historyVars
    <3>2. Aged(r)'
      BY <2>2, <3>1 DEF Aged, Fresh
    <3> QED
      BY <1>1, <2>1, <3>2, <3>1 DEF AgeInv
  <2>8. CASE PushDone(r)
    <3> DEFINE pkt == Last(decoded[r])
               msg == A!Message(r)
    <3>1. /\ pushPc[r] # "idle" /\ pushPc'[r] = "idle" /\ decoded[r] # <<>>
          /\ Fresh(pkt.tv_sec, msg.sec)
          /\ pushed'[r] = Append(pushed[r], msg)
          /\ source' = [source EXCEPT ![r] = Append(@, pkt)]
      BY <1>0, <2>2, <2>8 DEF PushDone, A!StoreCnt, A!Message, Aged
    <3>2. pkt \in P!RawPkt
      <4>1. decoded[r] \in Seq(P!RawPkt) /\ decoded[r] # <<>>
        BY <1>0, <3>1
      <4>2. Len(decoded[r]) \in 1 .. Len(decoded[r])
        BY <4>1
      <4> QED
        BY <4>1, <4>2 DEF Last
    <3>3. msg \in A!MPacket
      <4>1. r \in AP!Routers /\ AP!Message(r) = A!Message(r) /\ AP!MPacket = A!MPacket
        BY DEF AP!Routers, Routers, AP!Message, A!Message, AP!MPacket, A!MPacket, AP!Seconds,
               A!Seconds
      <4>2. AP!TypeOK /\ Len(pushed[r]) < MAX_STORED
        BY <3>1, <4>1 DEF Rings, AP!StoreInv, AP!PushCounted
      <4>3. AP!Message(r) \in AP!MPacket
        BY <4>1, <4>2, PipelineAssumption, AP!NewMessage
           DEF P!TimeIndexAssumption, A!AgentRingAssumption
      <4> QED
        BY <4>1, <4>3
    <3> HIDE DEF pkt, msg
    <3>4. PICK sources, messages : sources = source'[r] /\ messages = pushed'[r]
      OBVIOUS
    <3>5. sources = Append(source[r], pkt) /\ messages = Append(pushed[r], msg)
      BY <3>1, <3>4 DEF AgeInv
    <3>6. /\ source[r] \in Seq(P!RawPkt) /\ pushed[r] \in Seq(A!MPacket)
          /\ Len(source[r]) = Len(pushed[r])
          /\ \A n \in 1 .. Len(pushed[r]) : Fresh(source[r][n].tv_sec, pushed[r][n].sec)
      BY <1>0, <2>2 DEF AgeInv, Aged
    <3>7. /\ Len(sources) = Len(messages) /\ sources \in Seq(P!RawPkt)
          /\ \A n \in 1 .. Len(messages) : Fresh(sources[n].tv_sec, messages[n].sec)
      <4>0. /\ Len(sources) = Len(source[r]) + 1 /\ sources \in Seq(P!RawPkt)
            /\ sources[Len(source[r]) + 1] = pkt
            /\ \A n \in 1 .. Len(source[r]) : sources[n] = source[r][n]
        BY <3>2, <3>5, <3>6
      <4>1. /\ Len(messages) = Len(pushed[r]) + 1 /\ Len(pushed[r]) \in Nat
            /\ messages[Len(pushed[r]) + 1] = msg
            /\ \A n \in 1 .. Len(pushed[r]) : messages[n] = pushed[r][n]
        BY <3>3, <3>5, <3>6
      <4>2. ASSUME NEW n \in 1 .. Len(messages) PROVE Fresh(sources[n].tv_sec, messages[n].sec)
        <5>1. n \in 1 .. Len(pushed[r]) \/ n = Len(pushed[r]) + 1
          BY <4>1
        <5> QED
          BY <3>1, <3>6, <4>0, <4>1, <5>1
      <4> QED
        BY <3>6, <4>0, <4>1, <4>2
    <3>8. Aged(r)'
      BY <3>1, <3>4, <3>7 DEF Aged, Fresh
    <3>9. source' \in [Routers -> Seq(P!RawPkt)]
      BY <3>1, <3>4, <3>5, <3>7 DEF AgeInv
    <3> QED
      BY <1>1, <2>1, <3>8, <3>9 DEF AgeInv
  <2> QED
    BY <1>3, <2>3, <2>4, <2>5, <2>6, <2>7, <2>8 DEF RouterStep
<1> QED
  BY <1>2, <1>3 DEF Next

\* Within the bounds of both rings, and when the clock is read once, a message
\* is sent so long after its packet's capture as the rings' delays add up to,
\* and no sooner than their gaps.
LEMMA SendsInTime ==
  ASSUME Rings, AgeInv, apc = "deliver"
  PROVE  SentInTime
<1> DEFINE msg == AP!ToSend
           n == Len(sent[lane]) + 1
<1>1. /\ lane \in Routers /\ sent[lane] \in Seq(A!MPacket) /\ pushed[lane] \in Seq(A!MPacket)
      /\ agentLastSec \in Nat /\ agentReadSec \in Nat /\ epochSec \in Nat
  <2>1. /\ AP!Routers = Routers /\ AP!MPacket = A!MPacket /\ AP!Seconds \subseteq Nat
    BY PipelineAssumption, A!AgentRingAssumption
       DEF AP!Routers, Routers, AP!MPacket, A!MPacket, AP!Seconds, A!Seconds
  <2> QED
    BY <2>1 DEF Rings, AP!StoreInv, AP!TypeOK
<1>2. /\ Len(sent[lane]) < Len(pushed[lane]) /\ msg = pushed[lane][n]
      /\ msg.sec + 1 = agentLastSec
  BY PipelineAssumption, AP!DeliverTakesHead DEF Rings, AP!StoreInv
<1>3. n \in 1 .. Len(pushed[lane])
  BY <1>1, <1>2
<1>4. msg.id = n
  <2>1. lane \in AP!Routers
    BY <1>1 DEF AP!Routers, Routers
  <2> QED
    BY <1>2, <1>3, <2>1 DEF Rings, AP!StoreInv, AP!RecordInv, AP!QueueInv, AP!HoldsQueue
<1>5. Fresh(source[lane][n].tv_sec, msg.sec)
  BY <1>1, <1>2, <1>3 DEF AgeInv, Aged
<1>6. /\ agentLastSec < agentReadSec /\ agentReadSec <= agentLastSec + AGENT_LAG
      /\ agentReadSec <= epochSec /\ epochSec <= agentReadSec + AGENT_LAG
  BY DEF Rings, AP!StoreInv, AP!ClockInv, AP!AgentTimed
<1>7. msg = A!Record(ipMsg[lane][lastProcessedIndex], msgRecIdx)
  BY DEF AP!ToSend, AP!Record, A!Record, AP!Unset, A!Unset
<1> HIDE DEF msg, n
<1> DEFINE stamp == source[lane][n].tv_sec
<1>8. 4 - P!StampLag <= epochSec - stamp /\ epochSec - stamp <= 2 * ROUTER_LAG + 2 * AGENT_LAG + 2
  <2>1. PICK t, s \in Nat : t = stamp /\ s = msg.sec
    BY <1>5 DEF Fresh
  <2>2. 2 - P!StampLag <= s - t /\ s - t <= 2 * ROUTER_LAG + 1 /\ s + 1 = agentLastSec
    BY <1>2, <1>5, <2>1 DEF Fresh
  <2>3. PICK late \in Int : late = P!StampLag /\ ROUTER_LAG \in Nat /\ AGENT_LAG \in Nat
    BY PipelineAssumption DEF P!StampLag, P!PacketRingAssumption, A!AgentRingAssumption
  <2>4. 2 - late <= s - t
    BY <2>2, <2>3
  <2>5. 4 - late <= epochSec - t
    BY <1>1, <1>6, <2>2, <2>3, <2>4
  <2>6. epochSec - t <= 2 * ROUTER_LAG + 2 * AGENT_LAG + 2
    BY <1>1, <1>6, <2>2, <2>3
  <2> QED
    BY <2>1, <2>3, <2>5, <2>6
<1> QED
  BY <1>4, <1>7, <1>8 DEF SentInTime

\* Within the bounds of both rings, and when the clock is read once, a message
\* is sent no later after its packet's capture than the rings' delays add up
\* to, and no sooner than their gaps, for every number of routers, ring length,
\* cap and lag.
THEOREM SentInTimeCorrect ==
  ASSUME P!Timely, A!Timely, ~REREADS
  PROVE  Spec => []SentInTime
<1>1. Rings /\ AgeInv /\ [Next]_vars => AgeInv'
  BY StepAge
<1>2. Rings /\ AgeInv => SentInTime
  <2>1. apc # "deliver" => SentInTime
    BY DEF SentInTime
  <2> QED
    BY <2>1, SendsInTime
<1> QED
  BY <1>1, <1>2, InitAge, RingsHold, PTL DEF Spec

-----------------------------------------------------------------------------
(* What became of the packets of a router.                                  *)

\* Of the packets taken the first done are settled: each was dropped, or its
\* message was pushed and it is in noted, in the order of their coming.
Fate(taken, noted, dropped, done) ==
  /\ taken \in Seq(P!RawPkt) /\ noted \in Seq(P!RawPkt) /\ done \in 0 .. Len(taken)
  /\ \A n \in 1 .. Len(taken) : taken[n].id = n
  /\ \A n \in 1 .. Len(noted) : noted[n].id \in 1 .. done /\ taken[noted[n].id] = noted[n]
  /\ \A m, n \in 1 .. Len(noted) : m < n => noted[m].id < noted[n].id
  /\ \A p \in dropped : p.id \in 1 .. done /\ taken[p.id] = p
  /\ \A n \in 1 .. Len(noted) : noted[n] \notin dropped
  /\ \A k \in 1 .. done : taken[k] \in dropped \/ \E n \in 1 .. Len(noted) : noted[n].id = k

\* The places of the packets on the way when the first k noted were passed on.
OnTheWay(taken, noted, dropped, k) ==
  {n \in 1 .. Len(taken) : taken[n] \notin dropped \cup {noted[i] : i \in 1 .. k}}

LEMMA FateOfNew ==
  ASSUME NEW taken, NEW noted, NEW dropped, NEW done, Fate(taken, noted, dropped, done),
         NEW x \in P!RawPkt, x.id = Len(taken) + 1
  PROVE  Fate(Append(taken, x), noted, dropped, done)
<1>1. PICK more : more = Append(taken, x)
  OBVIOUS
<1>2. /\ more \in Seq(P!RawPkt) /\ Len(more) = Len(taken) + 1 /\ more[Len(taken) + 1] = x
      /\ \A n \in 1 .. Len(taken) : more[n] = taken[n]
  BY <1>1 DEF Fate
<1>3. \A n \in 1 .. Len(more) : more[n].id = n
  <2>1. \A n \in 1 .. Len(more) : n \in 1 .. Len(taken) \/ n = Len(taken) + 1
    BY <1>2 DEF Fate
  <2> QED
    BY <1>2, <2>1 DEF Fate
<1>4. \A n \in 1 .. done : more[n] = taken[n]
  BY <1>2 DEF Fate
<1>5. done \in 0 .. Len(more)
  BY <1>2 DEF Fate
<1>6. Fate(more, noted, dropped, done)
  BY <1>2, <1>3, <1>4, <1>5 DEF Fate
<1> QED
  BY <1>1, <1>6

LEMMA FateOfDropped ==
  ASSUME NEW taken, NEW noted, NEW dropped, NEW done, Fate(taken, noted, dropped, done),
         done < Len(taken)
  PROVE  Fate(taken, noted, dropped \cup {taken[done + 1]}, done + 1)
<1>1. PICK next \in Nat : next = done + 1
  BY DEF Fate
<1>2. /\ next \in 1 .. Len(taken) /\ next \in 0 .. Len(taken) /\ taken[next].id = next
      /\ \A k : k \in 1 .. next <=> k \in 1 .. done \/ k = next
      /\ next \notin 1 .. done
  BY <1>1 DEF Fate
<1>3. \A n \in 1 .. Len(noted) : noted[n] # taken[next]
  BY <1>2 DEF Fate
<1>4. Fate(taken, noted, dropped \cup {taken[next]}, next)
  BY <1>2, <1>3 DEF Fate
<1> QED
  BY <1>1, <1>4

LEMMA FateOfNoted ==
  ASSUME NEW taken, NEW noted, NEW dropped, NEW done, Fate(taken, noted, dropped, done),
         done < Len(taken)
  PROVE  Fate(taken, Append(noted, taken[done + 1]), dropped, done + 1)
<1>1. PICK next \in Nat : next = done + 1
  BY DEF Fate
<1>2. /\ next \in 1 .. Len(taken) /\ next \in 0 .. Len(taken) /\ taken[next].id = next
      /\ \A k : k \in 1 .. next <=> k \in 1 .. done \/ k = next
      /\ next \notin 1 .. done /\ taken[next] \in P!RawPkt
      /\ \A k \in 1 .. done : k < next
  BY <1>1 DEF Fate
<1>3. PICK more, last : more = Append(noted, taken[next]) /\ last = Len(noted) + 1
  OBVIOUS
<1>4. /\ more \in Seq(P!RawPkt) /\ Len(more) = last /\ more[last] = taken[next]
      /\ \A n \in 1 .. Len(noted) : more[n] = noted[n]
      /\ \A n : n \in 1 .. last <=> n \in 1 .. Len(noted) \/ n = last
      /\ \A n \in 1 .. Len(noted) : n < last /\ ~(last < n)
      /\ ~(last < last)
  BY <1>2, <1>3 DEF Fate
<1>5. \A n \in 1 .. last : more[n].id \in 1 .. next /\ taken[more[n].id] = more[n]
  <2>1. \A n \in 1 .. Len(noted) : more[n].id \in 1 .. done /\ taken[more[n].id] = more[n]
    BY <1>4 DEF Fate
  <2>2. next \in 1 .. next
    BY <1>2
  <2> QED
    BY <1>2, <1>4, <2>1, <2>2
<1>6. \A m, n \in 1 .. last : m < n => more[m].id < more[n].id
  <2> SUFFICES ASSUME NEW m \in 1 .. last, NEW n \in 1 .. last, m < n
               PROVE  more[m].id < more[n].id
    OBVIOUS
  <2>1. m \in 1 .. Len(noted)
    BY <1>3, <1>4 DEF Fate
  <2>2. CASE n \in 1 .. Len(noted)
    BY <1>4, <2>1, <2>2 DEF Fate
  <2>3. CASE n = last
    <3>1. more[m].id \in 1 .. done /\ more[n].id = next
      BY <1>2, <1>4, <2>1, <2>3 DEF Fate
    <3> QED
      BY <1>2, <3>1
  <2> QED
    BY <1>4, <2>2, <2>3
<1>7. taken[next] \notin dropped
  BY <1>2 DEF Fate
<1>8. \A n \in 1 .. last : more[n] \notin dropped
  BY <1>4, <1>7 DEF Fate
<1>9. \A k \in 1 .. next : taken[k] \in dropped \/ \E n \in 1 .. last : more[n].id = k
  <2>1. ASSUME NEW k \in 1 .. done, taken[k] \notin dropped
        PROVE  \E n \in 1 .. last : more[n].id = k
    <3>1. PICK n \in 1 .. Len(noted) : noted[n].id = k
      BY <2>1 DEF Fate
    <3> QED
      BY <1>4, <3>1
  <2>2. last \in 1 .. last
    BY <1>3 DEF Fate
  <2> QED
    BY <1>2, <1>4, <2>1, <2>2
<1>10. \A p \in dropped : p.id \in 1 .. next /\ taken[p.id] = p
  BY <1>2 DEF Fate
<1>11. Fate(taken, more, dropped, next)
  BY <1>2, <1>4, <1>5, <1>6, <1>8, <1>9, <1>10 DEF Fate
<1> QED
  BY <1>1, <1>3, <1>11

\* The first packet that is not settled is on the way.
LEMMA UnsettledOnTheWay ==
  ASSUME NEW taken, NEW noted, NEW dropped, NEW done, Fate(taken, noted, dropped, done),
         done < Len(taken), NEW k \in 0 .. Len(noted)
  PROVE  done + 1 \in OnTheWay(taken, noted, dropped, k)
<1>1. PICK next \in Nat : next = done + 1
  BY DEF Fate
<1>2. next \in 1 .. Len(taken) /\ taken[next].id = next /\ next \notin 1 .. done
  BY <1>1 DEF Fate
<1>3. \A i \in 1 .. k : i \in 1 .. Len(noted)
  BY DEF Fate
<1>4. taken[next] \notin dropped /\ \A i \in 1 .. Len(noted) : noted[i] # taken[next]
  BY <1>2 DEF Fate
<1> QED
  BY <1>1, <1>2, <1>3, <1>4 DEF OnTheWay

\* The packet noted next is the first of those on the way.
LEMMA NotedIsFirst ==
  ASSUME NEW taken, NEW noted, NEW dropped, NEW done, Fate(taken, noted, dropped, done),
         NEW k \in Nat, k < Len(noted)
  PROVE  LET n == noted[k + 1].id
         IN  /\ n \in OnTheWay(taken, noted, dropped, k) /\ taken[n] = noted[k + 1]
             /\ \A m \in OnTheWay(taken, noted, dropped, k) : n <= m
<1>1. PICK next \in 1 .. Len(noted) : next = k + 1
  BY DEF Fate
<1>2. PICK n \in Nat : n = noted[next].id
  BY DEF Fate
<1>3. n \in 1 .. done /\ n \in 1 .. Len(taken) /\ taken[n] = noted[next]
  <2>1. noted[next].id \in 1 .. done /\ taken[noted[next].id] = noted[next]
    BY DEF Fate
  <2>2. done \in 0 .. Len(taken) /\ Len(taken) \in Nat
    BY DEF Fate
  <2> QED
    BY <1>2, <2>1, <2>2
<1>4. \A i \in 1 .. k : i \in 1 .. Len(noted) /\ i < next
  BY <1>1 DEF Fate
<1>5. n \in OnTheWay(taken, noted, dropped, k)
  <2>1. \A i \in 1 .. k : noted[i].id < noted[next].id
    BY <1>4 DEF Fate
  <2>2. \A i \in 1 .. k : noted[i].id \in Int
    BY <1>4 DEF Fate
  <2>3. \A i \in 1 .. k : noted[i] # noted[next]
    BY <1>2, <2>1, <2>2
  <2>4. noted[next] \notin dropped
    BY DEF Fate
  <2> QED
    BY <1>3, <2>3, <2>4 DEF OnTheWay
<1>6. ASSUME NEW m \in OnTheWay(taken, noted, dropped, k) PROVE n <= m
  <2>1. m \in 1 .. Len(taken) /\ taken[m] \notin dropped
        /\ \A i \in 1 .. k : taken[m] # noted[i]
    BY DEF OnTheWay
  <2> SUFFICES ASSUME m < n PROVE FALSE
    BY <2>1
  <2>2. m \in 1 .. done
    BY <1>3, <2>1 DEF Fate
  <2>3. PICK i \in 1 .. Len(noted) : noted[i].id = m
    BY <2>1, <2>2 DEF Fate
  <2>4. taken[m] = noted[i]
    BY <2>3 DEF Fate
  <2>5. i \notin 1 .. k
    BY <2>1, <2>4
  <2>6. next <= i
    BY <1>1, <2>5
  <2>7. next = i \/ next < i
    BY <2>6
  <2>8. noted[next].id = noted[i].id \/ noted[next].id < noted[i].id
    BY <2>7 DEF Fate
  <2> QED
    BY <1>2, <2>1, <2>3, <2>8
<1> QED
  BY <1>1, <1>2, <1>3, <1>5, <1>6

-----------------------------------------------------------------------------
(* The pipeline as a relay.                                                 *)

\* The packets a router is done with: all it decoded, but the one whose
\* message it is pushing.
Settled(r) == IF pushPc[r] = "idle" THEN Len(decoded[r]) ELSE Len(decoded[r]) - 1

Traced(r) ==
  /\ Len(decoded[r]) <= Len(stored[r])
  /\ \A n \in 1 .. Len(decoded[r]) : decoded[r][n] = stored[r][n]
  /\ Fate(stored[r], source[r], gone[r], Settled(r))
  /\ sent[r] \in Seq(A!MPacket) /\ Len(sent[r]) <= Len(source[r])
  /\ \A n \in 1 .. Len(sent[r]) : sent[r][n].id = n

RelayInv == gone \in [Routers -> SUBSET P!RawPkt] /\ \A r \in Routers : Traced(r)

relayVars == <<stored, gone, Passed>>

\* What the steps need of the types.
LEMMA RelayTypes ==
  ASSUME Rings, AgeInv, RelayInv
  PROVE  /\ stored \in [Routers -> Seq(P!RawPkt)] /\ decoded \in [Routers -> Seq(P!RawPkt)]
         /\ source \in [Routers -> Seq(P!RawPkt)] /\ sent \in [Routers -> Seq(A!MPacket)]
         /\ gone \in [Routers -> SUBSET P!RawPkt]
         /\ pushPc \in [Routers -> {"idle", "index", "check", "copy", "load", "store"}]
         /\ \A r \in Routers : pushPc[r] # "idle" => rpc[r] = "load" /\ decoded[r] # <<>>
<1>1. /\ PP!RawPkt = P!RawPkt /\ PP!Routers = Routers /\ AP!Routers = Routers
      /\ AP!MPacket = A!MPacket
  BY DEF PP!RawPkt, P!RawPkt, PP!Stamps, P!Stamps, PP!Routers, AP!Routers, Routers,
         AP!MPacket, A!MPacket, AP!Seconds, A!Seconds
<1>2. stored \in [Routers -> Seq(P!RawPkt)] /\ sent \in [Routers -> Seq(A!MPacket)]
  BY <1>1 DEF Rings, PP!RingInv, AP!StoreInv, PP!TypeOK, AP!TypeOK
<1>3. \A r \in Routers : pushPc[r] # "idle" => rpc[r] = "load" /\ decoded[r] # <<>>
  BY DEF AgeInv, Aged
<1> QED
  BY <1>2, <1>3, RingTypes DEF AgeInv, RelayInv

\* The packets passed on are those noted first.
LEMMA PassedNoted ==
  ASSUME NEW noted \in Seq(P!RawPkt), NEW given \in Seq(A!MPacket),
         Len(given) <= Len(noted), \A n \in 1 .. Len(given) : given[n].id = n
  PROVE  [n \in DOMAIN given |-> IF given[n].id \in DOMAIN noted THEN noted[given[n].id]
                                                                 ELSE P!EmptyPkt]
         = [n \in 1 .. Len(given) |-> noted[n]]
<1>1. DOMAIN given = 1 .. Len(given) /\ DOMAIN noted = 1 .. Len(noted)
  OBVIOUS
<1>2. \A n \in 1 .. Len(given) : given[n].id = n /\ n \in DOMAIN noted
  BY <1>1
<1>3. \A n \in 1 .. Len(given) :
        (IF given[n].id \in DOMAIN noted THEN noted[given[n].id] ELSE P!EmptyPkt) = noted[n]
  BY <1>2
<1> QED
  BY <1>1, <1>3

LEMMA PassedSeen ==
  ASSUME Rings, AgeInv, RelayInv
  PROVE  /\ Passed = [r \in Routers |-> [n \in 1 .. Len(sent[r]) |-> source[r][n]]]
         /\ \A r \in Routers : EndToEnd!Waiting(r)
                                 = OnTheWay(stored[r], source[r], gone[r], Len(sent[r]))
<1>1. \A r \in Routers : /\ source[r] \in Seq(P!RawPkt) /\ sent[r] \in Seq(A!MPacket)
                         /\ Len(sent[r]) <= Len(source[r])
                         /\ \A n \in 1 .. Len(sent[r]) : sent[r][n].id = n
  BY DEF RelayInv, Traced, Fate
<1> DEFINE Sent(r) == [n \in DOMAIN sent[r] |-> IF sent[r][n].id \in DOMAIN source[r]
                                                  THEN source[r][sent[r][n].id] ELSE P!EmptyPkt]
           Noted(r) == [n \in 1 .. Len(sent[r]) |-> source[r][n]]
<1>2. Passed = [r \in Routers |-> Noted(r)]
  <2>1. \A r \in Routers : Sent(r) = Noted(r)
    BY <1>1, PassedNoted
  <2>2. Passed = [r \in Routers |-> Sent(r)]
    BY Zenon DEF Passed
  <2> HIDE DEF Sent, Noted
  <2> QED
    BY <2>1, <2>2
<1>3. ASSUME NEW r \in Routers
      PROVE  EndToEnd!Waiting(r) = OnTheWay(stored[r], source[r], gone[r], Len(sent[r]))
  <2>1. DOMAIN stored[r] = 1 .. Len(stored[r])
    BY RelayTypes
  <2>2. Passed[r] = [i \in 1 .. Len(sent[r]) |-> source[r][i]]
    BY <1>2
  <2>3. EndToEnd!Range(Passed[r]) = {source[r][i] : i \in 1 .. Len(sent[r])}
    BY <2>2 DEF EndToEnd!Range
  <2> QED
    BY <2>1, <2>3 DEF EndToEnd!Waiting, OnTheWay
<1> QED
  BY <1>2, <1>3

\* Nothing became of a router's packets.
LEMMA StaysTraced ==
  ASSUME NEW q \in Routers, Traced(q),
         stored'[q] = stored[q], decoded'[q] = decoded[q], source'[q] = source[q],
         gone'[q] = gone[q], sent'[q] = sent[q], Settled(q)' = Settled(q)
  PROVE  Traced(q)'
  BY DEF Traced

LEMMA InitRelay == Init => RelayInv /\ EndToEnd!Init
<1> SUFFICES ASSUME Init PROVE RelayInv /\ EndToEnd!Init
  OBVIOUS
<1>1. /\ stored = [r \in Routers |-> <<>>] /\ decoded = [r \in Routers |-> <<>>]
      /\ sent = [r \in Routers |-> <<>>] /\ source = [r \in Routers |-> <<>>]
      /\ gone = [r \in Routers |-> {}] /\ pushPc = [r \in Routers |-> "idle"]
  BY DEF Init, P!Init, A!Init, P!Routers, A!Routers, Routers
<1>2. ASSUME NEW r \in Routers PROVE Traced(r)
  <2>1. /\ stored[r] = <<>> /\ decoded[r] = <<>> /\ source[r] = <<>> /\ sent[r] = <<>>
        /\ gone[r] = {} /\ Settled(r) = 0
    BY <1>1 DEF Settled
  <2>2. Fate(<<>>, <<>>, {}, 0)
    BY DEF Fate
  <2> QED
    BY <2>1, <2>2 DEF Traced
<1>3. Passed = [r \in Routers |-> <<>>]
  BY <1>1 DEF Passed
<1> QED
  BY <1>1, <1>2, <1>3 DEF RelayInv, EndToEnd!Init

\* A step that stores, decodes, notes, drops and sends nothing.
LEMMA StaysRelayed ==
  ASSUME Rings, AgeInv, RelayInv, UNCHANGED <<stored, decoded, source, gone, sent>>,
         \A q \in Routers : pushPc'[q] = "idle" <=> pushPc[q] = "idle"
  PROVE  RelayInv' /\ UNCHANGED relayVars
<1>1. ASSUME NEW q \in Routers PROVE Traced(q)'
  <2>1. Traced(q) /\ Settled(q)' = Settled(q)
    BY DEF RelayInv, Settled
  <2> QED
    BY <2>1, StaysTraced
<1> QED
  BY <1>1 DEF RelayInv, relayVars, Passed

\* PKTStore's listener takes a packet in.
LEMMA StoreRelays ==
  ASSUME Rings, AgeInv, RelayInv, P!StoreCnt, UNCHANGED <<agentVars, fateVars>>
  PROVE  RelayInv' /\ EndToEnd!Next
<1> DEFINE q == P!Row
           x == P!NewPkt
<1>1. /\ P!Row = PP!Row /\ P!NewPkt = PP!NewPkt /\ PP!RawPkt = P!RawPkt /\ PP!Routers = Routers
  BY DEF P!Row, PP!Row, P!RowOf, PP!RowOf, P!NewPkt, PP!NewPkt, PP!RawPkt, P!RawPkt, PP!Stamps,
         P!Stamps, PP!Routers, Routers
<1>2. /\ lpc = "store" /\ stored' = [stored EXCEPT ![q] = Append(@, x)]
      /\ UNCHANGED <<decoded, source, gone, sent, pushPc>>
  BY DEF P!StoreCnt, P!routerVars, agentVars, fateVars
<1>3. q \in Routers /\ x \in P!RawPkt
  <2>1. PP!TypeOK /\ PP!Row \in PP!Routers /\ Len(stored[PP!Row]) < MAX_STORED
    BY <1>2 DEF Rings, PP!RingInv, PP!CounterInv, PP!ListenerCounts
  <2> QED
    BY <1>1, <2>1, PipelineAssumption, PP!NewRecord
<1>4. x.id = Len(stored[q]) + 1
  BY DEF P!NewPkt
<1> HIDE DEF q, x
<1>5. PICK r \in Routers : r = q
  BY <1>3
<1>6. stored' = [stored EXCEPT ![r] = Append(@, x)]
  BY <1>2, <1>5
<1>7. PICK more : more = Append(stored[r], x)
  OBVIOUS
<1>8. stored'[r] = more /\ \A p \in Routers : p # r => stored'[p] = stored[p]
  BY <1>6, <1>7, RelayTypes
<1>9. Traced(r)'
  <2>1. Traced(r) /\ stored[r] \in Seq(P!RawPkt) /\ decoded[r] \in Seq(P!RawPkt)
    BY RelayTypes DEF RelayInv
  <2>2. /\ Len(more) = Len(stored[r]) + 1
        /\ \A n \in 1 .. Len(stored[r]) : more[n] = stored[r][n]
    BY <1>3, <1>7, <2>1
  <2>3. Len(decoded[r]) <= Len(more) /\ \A n \in 1 .. Len(decoded[r]) : decoded[r][n] = more[n]
    BY <2>1, <2>2 DEF Traced
  <2>4. Fate(more, source[r], gone[r], Settled(r))
    BY <1>3, <1>4, <1>5, <1>7, <2>1, FateOfNew DEF Traced
  <2>5. Settled(r)' = Settled(r)
    BY <1>2 DEF Settled
  <2> QED
    BY <1>2, <1>8, <2>1, <2>3, <2>4, <2>5 DEF Traced
<1>10. ASSUME NEW p \in Routers, p # r PROVE Traced(p)'
  BY <1>2, <1>8, <1>10, StaysTraced DEF RelayInv, Settled
<1>11. EndToEnd!Accept(r)
  BY <1>2, <1>3, <1>6 DEF EndToEnd!Accept, Passed
<1> QED
  BY <1>2, <1>9, <1>10, <1>11 DEF RelayInv, EndToEnd!Next

\* The next packet is settled by being dropped.
LEMMA DropRelays ==
  ASSUME Rings, AgeInv, RelayInv, NEW r \in Routers, Settled(r) < Len(stored[r]),
         gone' = [gone EXCEPT ![r] = @ \cup {stored[r][Settled(r) + 1]}],
         UNCHANGED <<stored, source, sent>>
  PROVE  /\ EndToEnd!Next /\ gone' \in [Routers -> SUBSET P!RawPkt]
         /\ Fate(stored[r], source[r], gone'[r], Settled(r) + 1)
<1>1. Traced(r) /\ stored[r] \in Seq(P!RawPkt) /\ Settled(r) \in 0 .. Len(stored[r])
  BY DEF RelayInv, Traced, Fate
<1>2. Settled(r) + 1 \in DOMAIN stored[r] /\ stored[r][Settled(r) + 1] \in P!RawPkt
  BY <1>1
<1>3. gone' \in [Routers -> SUBSET P!RawPkt]
  BY <1>2, RelayTypes
<1>4. Fate(stored[r], source[r], gone'[r], Settled(r) + 1)
  BY <1>1, FateOfDropped, RelayTypes DEF Traced
<1>5. Settled(r) + 1 \in EndToEnd!Waiting(r)
  <2>1. Len(sent[r]) \in 0 .. Len(source[r])
    BY <1>1, RelayTypes DEF Traced
  <2> QED
    BY <1>1, <2>1, UnsettledOnTheWay, PassedSeen DEF Traced
<1>6. EndToEnd!Drop(r)
  BY <1>5 DEF EndToEnd!Drop, Passed
<1> QED
  BY <1>3, <1>4, <1>6 DEF EndToEnd!Next

\* What a router decodes is the next of its packets, none being pushed.
LEMMA DecodeInTurn ==
  ASSUME Rings, AgeInv, RelayInv, NEW r \in Routers, P!Decode(r)
  PROVE  /\ Len(decoded[r]) < Len(stored[r]) /\ Settled(r) = Len(decoded[r])
         /\ pushPc[r] = "idle"
         /\ decoded' = [decoded EXCEPT ![r] = Append(@, stored[r][Len(decoded[r]) + 1])]
<1> DEFINE x == pktRepository[r][lastTIndex[r]][recIdx[r]]
<1>1. /\ rpc[r] = "decode" /\ decoded' = [decoded EXCEPT ![r] = Append(@, x)]
  BY DEF P!Decode
<1>2. r \in PP!Routers
  BY DEF PP!Routers, Routers
<1>3. Len(decoded[r]) < Len(stored[r]) /\ x = stored[r][Len(decoded[r]) + 1]
  BY <1>1, <1>2, PipelineAssumption, PP!DecodeTakesHead DEF Rings, PP!RingInv
<1>4. pushPc[r] = "idle"
  BY <1>1, RelayTypes
<1> QED
  BY <1>1, <1>3, <1>4 DEF Settled

\* The packets decoded are the first of those stored, after the next as before.
LEMMA DecodedStaysPrefix ==
  ASSUME NEW items, NEW taken \in Seq(items), NEW given \in Seq(items), Len(given) < Len(taken),
         \A n \in 1 .. Len(given) : given[n] = taken[n],
         NEW more, more = Append(given, taken[Len(given) + 1])
  PROVE  /\ Len(more) = Len(given) + 1 /\ Len(more) <= Len(taken)
         /\ \A n \in 1 .. Len(more) : more[n] = taken[n]
         /\ more[Len(more)] = taken[Len(given) + 1]
<1>1. Len(given) + 1 \in 1 .. Len(taken) /\ taken[Len(given) + 1] \in items
  OBVIOUS
<1>2. /\ Len(more) = Len(given) + 1 /\ more[Len(given) + 1] = taken[Len(given) + 1]
      /\ \A n \in 1 .. Len(given) : more[n] = given[n]
  BY <1>1
<1>3. \A n \in 1 .. Len(more) : more[n] = taken[n]
  BY <1>2
<1> QED
  BY <1>1, <1>2, <1>3

LEMMA DecodeOnlyRelays ==
  ASSUME Rings, AgeInv, RelayInv, NEW r \in Routers, DecodeOnly(r)
  PROVE  RelayInv' /\ EndToEnd!Next
<1> DEFINE x == stored[r][Len(decoded[r]) + 1]
<1>1. /\ Len(decoded[r]) < Len(stored[r]) /\ Settled(r) = Len(decoded[r]) /\ pushPc[r] = "idle"
      /\ decoded' = [decoded EXCEPT ![r] = Append(@, x)]
  BY DecodeInTurn DEF DecodeOnly
<1>2. UNCHANGED <<stored, source, sent, pushPc>>
  BY DEF DecodeOnly, P!Decode, agentVars
<1>3. PICK more : more = decoded'[r]
  OBVIOUS
<1>4. /\ Len(more) = Len(decoded[r]) + 1 /\ Len(more) <= Len(stored[r])
      /\ \A n \in 1 .. Len(more) : more[n] = stored[r][n]
      /\ Last(more) = x
  <2>1. more = Append(decoded[r], x)
    BY <1>1, <1>3, RelayTypes
  <2>2. /\ stored[r] \in Seq(P!RawPkt) /\ decoded[r] \in Seq(P!RawPkt)
        /\ \A n \in 1 .. Len(decoded[r]) : decoded[r][n] = stored[r][n]
    BY RelayTypes DEF RelayInv, Traced
  <2>3. /\ Len(more) = Len(decoded[r]) + 1 /\ Len(more) <= Len(stored[r])
        /\ \A n \in 1 .. Len(more) : more[n] = stored[r][n]
        /\ more[Len(more)] = x
    BY <1>1, <2>1, <2>2, DecodedStaysPrefix
  <2> QED
    BY <2>3 DEF Last
<1>5. gone' = [gone EXCEPT ![r] = @ \cup {stored[r][Settled(r) + 1]}]
  BY <1>1, <1>3, <1>4 DEF DecodeOnly
<1>6. /\ EndToEnd!Next /\ gone' \in [Routers -> SUBSET P!RawPkt]
      /\ Fate(stored[r], source[r], gone'[r], Settled(r) + 1)
  BY <1>1, <1>2, <1>5, DropRelays
<1>7. Traced(r)'
  <2>1. Settled(r)' = Settled(r) + 1
    BY <1>1, <1>2, <1>3, <1>4 DEF Settled
  <2> QED
    BY <1>2, <1>3, <1>4, <1>6, <2>1 DEF RelayInv, Traced
<1>8. ASSUME NEW q \in Routers, q # r PROVE Traced(q)'
  <2>1. decoded'[q] = decoded[q] /\ gone'[q] = gone[q]
    BY <1>1, <1>5, <1>8, RelayTypes
  <2> QED
    BY <1>2, <2>1, StaysTraced DEF RelayInv, Settled
<1> QED
  BY <1>6, <1>7, <1>8 DEF RelayInv

LEMMA DecodeToPushRelays ==
  ASSUME Rings, AgeInv, RelayInv, NEW r \in Routers, DecodeToPush(r)
  PROVE  RelayInv' /\ UNCHANGED relayVars
<1> DEFINE x == stored[r][Len(decoded[r]) + 1]
<1>1. /\ Len(decoded[r]) < Len(stored[r]) /\ Settled(r) = Len(decoded[r])
      /\ decoded' = [decoded EXCEPT ![r] = Append(@, x)]
  BY DecodeInTurn DEF DecodeToPush
<1>2. /\ UNCHANGED <<stored, source, sent, gone>>
      /\ pushPc' = [pushPc EXCEPT ![r] = "index"]
  BY DEF DecodeToPush, P!Decode, A!StartPush, A!historyVars, fateVars
<1>3. PICK more : more = decoded'[r]
  OBVIOUS
<1>4. /\ Len(more) = Len(decoded[r]) + 1 /\ Len(more) <= Len(stored[r])
      /\ \A n \in 1 .. Len(more) : more[n] = stored[r][n]
      /\ Len(decoded[r]) \in Nat
  <2>1. more = Append(decoded[r], x)
    BY <1>1, <1>3, RelayTypes
  <2>2. /\ stored[r] \in Seq(P!RawPkt) /\ decoded[r] \in Seq(P!RawPkt)
        /\ \A n \in 1 .. Len(decoded[r]) : decoded[r][n] = stored[r][n]
    BY RelayTypes DEF RelayInv, Traced
  <2> QED
    BY <1>1, <2>1, <2>2, DecodedStaysPrefix
<1>5. Traced(r)'
  <2>1. Settled(r)' = Settled(r)
    <3>1. pushPc'[r] = "index"
      BY <1>2, RelayTypes
    <3> QED
      BY <1>1, <1>3, <1>4, <3>1 DEF Settled
  <2> QED
    BY <1>2, <1>3, <1>4, <2>1 DEF RelayInv, Traced
<1>6. ASSUME NEW q \in Routers, q # r PROVE Traced(q)'
  <2>1. decoded'[q] = decoded[q] /\ pushPc'[q] = pushPc[q]
    BY <1>1, <1>2, <1>6, RelayTypes
  <2> QED
    BY <1>2, <2>1, StaysTraced DEF RelayInv, Settled
<1> QED
  BY <1>2, <1>5, <1>6 DEF RelayInv, relayVars, Passed

\* The packet being pushed is the first that is not settled.
LEMMA PushedIsNext ==
  ASSUME Rings, AgeInv, RelayInv, NEW r \in Routers, pushPc[r] # "idle"
  PROVE  /\ Settled(r) < Len(stored[r]) /\ Settled(r) + 1 = Len(decoded[r])
         /\ Last(decoded[r]) = stored[r][Settled(r) + 1]
<1>1. /\ decoded[r] \in Seq(P!RawPkt) /\ stored[r] \in Seq(P!RawPkt) /\ decoded[r] # <<>>
      /\ Traced(r)
  BY RelayTypes DEF RelayInv
<1>2. Len(decoded[r]) \in 1 .. Len(decoded[r]) /\ Settled(r) = Len(decoded[r]) - 1
  BY <1>1 DEF Settled
<1>3. Settled(r) + 1 = Len(decoded[r]) /\ Settled(r) < Len(stored[r])
  BY <1>1, <1>2 DEF Traced
<1> QED
  BY <1>1, <1>2, <1>3 DEF Traced, Last

LEMMA PushDroppedRelays ==
  ASSUME Rings, AgeInv, RelayInv, NEW r \in Routers, PushDropped(r)
  PROVE  RelayInv' /\ EndToEnd!Next
<1>1. /\ pushPc[r] # "idle" /\ pushPc' = [pushPc EXCEPT ![r] = "idle"]
      /\ UNCHANGED <<stored, decoded, source, sent>>
      /\ gone' = [gone EXCEPT ![r] = @ \cup {Last(decoded[r])}]
  BY DEF PushDropped, A!Drop, A!historyVars, packetVars
<1>2. /\ Settled(r) < Len(stored[r]) /\ Settled(r) + 1 = Len(decoded[r])
      /\ Last(decoded[r]) = stored[r][Settled(r) + 1]
  BY <1>1, PushedIsNext
<1>3. /\ EndToEnd!Next /\ gone' \in [Routers -> SUBSET P!RawPkt]
      /\ Fate(stored[r], source[r], gone'[r], Settled(r) + 1)
  BY <1>1, <1>2, DropRelays
<1>4. Traced(r)'
  <2>1. Settled(r)' = Settled(r) + 1
    <3>1. pushPc'[r] = "idle"
      BY <1>1, RelayTypes
    <3> QED
      BY <1>1, <1>2, <3>1 DEF Settled
  <2> QED
    BY <1>1, <1>3, <2>1 DEF RelayInv, Traced
<1>5. ASSUME NEW q \in Routers, q # r PROVE Traced(q)'
  <2>1. pushPc'[q] = pushPc[q] /\ gone'[q] = gone[q]
    BY <1>1, <1>5, RelayTypes
  <2> QED
    BY <1>1, <2>1, StaysTraced DEF RelayInv, Settled
<1> QED
  BY <1>3, <1>4, <1>5 DEF RelayInv

LEMMA PushDoneRelays ==
  ASSUME Rings, AgeInv, RelayInv, NEW r \in Routers, PushDone(r)
  PROVE  RelayInv' /\ UNCHANGED relayVars
<1> DEFINE x == stored[r][Settled(r) + 1]
<1>1. /\ pushPc[r] # "idle" /\ pushPc' = [pushPc EXCEPT ![r] = "idle"]
      /\ UNCHANGED <<stored, decoded, gone, sent>>
      /\ source' = [source EXCEPT ![r] = Append(@, Last(decoded[r]))]
  BY DEF PushDone, A!StoreCnt, packetVars
<1>2. /\ Settled(r) < Len(stored[r]) /\ Settled(r) + 1 = Len(decoded[r])
      /\ Last(decoded[r]) = x
  BY <1>1, PushedIsNext
<1>3. Traced(r) /\ Settled(r) \in 0 .. Len(stored[r])
  BY DEF RelayInv, Traced, Fate
<1>4. x \in P!RawPkt
  <2>1. stored[r] \in Seq(P!RawPkt) /\ Settled(r) + 1 \in 1 .. Len(stored[r])
    BY <1>2, <1>3, RelayTypes
  <2> QED
    BY <2>1
<1>5. Fate(stored[r], Append(source[r], x), gone[r], Settled(r) + 1)
  BY <1>2, <1>3, FateOfNoted DEF Traced
<1> HIDE DEF x
<1>6. PICK noted : noted = source'[r]
  OBVIOUS
<1>7. /\ noted = Append(source[r], x)
      /\ \A q \in Routers : q # r => source'[q] = source[q] /\ pushPc'[q] = pushPc[q]
      /\ pushPc'[r] = "idle"
  BY <1>1, <1>2, <1>6, RelayTypes
<1>8. /\ Len(sent[r]) <= Len(source[r]) /\ Len(sent[r]) \in Nat
      /\ Len(noted) = Len(source[r]) + 1 /\ Len(source[r]) \in Nat
      /\ \A n \in 1 .. Len(source[r]) : noted[n] = source[r][n]
  BY <1>3, <1>4, <1>7, RelayTypes DEF Traced
<1>9. Traced(r)'
  <2>1. Settled(r)' = Settled(r) + 1
    BY <1>1, <1>2, <1>7 DEF Settled
  <2>2. Len(sent[r]) <= Len(noted)
    BY <1>8
  <2> QED
    BY <1>1, <1>3, <1>5, <1>6, <1>7, <2>1, <2>2 DEF Traced
<1>10. ASSUME NEW q \in Routers, q # r PROVE Traced(q)'
  BY <1>1, <1>7, <1>10, StaysTraced DEF RelayInv, Settled
<1>11. RelayInv'
  BY <1>1, <1>9, <1>10 DEF RelayInv
<1>12. UNCHANGED Passed
  <2> DEFINE Seen(q) == [n \in 1 .. Len(sent[q]) |-> source[q][n]]
             SeenNow(q) == [n \in 1 .. Len(sent[q]) |-> source'[q][n]]
  <2>1. ASSUME NEW q \in Routers
        PROVE  /\ source'[q] \in Seq(P!RawPkt) /\ sent[q] \in Seq(A!MPacket)
               /\ Len(sent[q]) <= Len(source'[q])
               /\ \A n \in 1 .. Len(sent[q]) : sent[q][n].id = n
    BY <1>1, <1>11 DEF RelayInv, Traced, Fate
  <2>2. ASSUME NEW q \in Routers PROVE SeenNow(q) = Seen(q)
    <3>1. CASE q = r
      <4>1. \A n \in 1 .. Len(sent[r]) : n \in 1 .. Len(source[r])
        BY <1>8
      <4> QED
        BY <1>6, <1>8, <3>1, <4>1
    <3>2. CASE q # r
      BY <1>7, <3>2
    <3> QED
      BY <3>1, <3>2
  <2> DEFINE Sent(q) == [n \in DOMAIN sent[q] |-> IF sent[q][n].id \in DOMAIN source'[q]
                                              THEN source'[q][sent[q][n].id] ELSE P!EmptyPkt]
  <2>3. ASSUME NEW q \in Routers PROVE Sent(q) = SeenNow(q)
    <3>1. PICK given, now : given = sent[q] /\ now = source'[q]
      OBVIOUS
    <3>2. [n \in DOMAIN given |-> IF given[n].id \in DOMAIN now THEN now[given[n].id]
                                                                ELSE P!EmptyPkt]
          = [n \in 1 .. Len(given) |-> now[n]]
      BY <2>1, <3>1, PassedNoted
    <3> QED
      BY <3>1, <3>2
  <2>4. Passed' = [q \in Routers |-> Sent(q)]
    BY <1>1 DEF Passed, P!EmptyPkt
  <2>5. Passed = [q \in Routers |-> Seen(q)]
    BY PassedSeen
  <2> HIDE DEF Seen, SeenNow, Sent
  <2> QED
    BY <2>2, <2>3, <2>4, <2>5
<1> QED
  BY <1>1, <1>11, <1>12 DEF relayVars

\* The agent passes on the first packet on the way.
LEMMA DeliverRelays ==
  ASSUME Rings, AgeInv, RelayInv, A!Deliver, UNCHANGED <<packetVars, fateVars>>
  PROVE  RelayInv' /\ EndToEnd!Next
<1> DEFINE msg == AP!ToSend
<1>1. /\ apc = "deliver" /\ sent' = [sent EXCEPT ![lane] = Append(@, msg)]
      /\ UNCHANGED <<stored, decoded, source, gone, pushPc>>
  BY DEF A!Deliver, AP!ToSend, A!Record, AP!Record, A!Unset, AP!Unset, A!routerVars, packetVars,
         fateVars
<1>2. lane \in Routers /\ pushed[lane] \in Seq(A!MPacket) /\ AP!Routers = Routers
  <2>1. AP!Routers = Routers /\ AP!MPacket = A!MPacket
    BY DEF AP!Routers, Routers, AP!MPacket, A!MPacket, AP!Seconds, A!Seconds
  <2> QED
    BY <2>1 DEF Rings, AP!StoreInv, AP!TypeOK
<1>3. /\ Len(sent[lane]) < Len(pushed[lane]) /\ msg = pushed[lane][Len(sent[lane]) + 1]
  BY <1>1, PipelineAssumption, AP!DeliverTakesHead DEF Rings, AP!StoreInv
<1> HIDE DEF msg
<1>4. PICK r \in Routers : r = lane
  BY <1>2
<1>5. PICK k, next \in Nat : k = Len(sent[r]) /\ next = k + 1
  BY RelayTypes
<1>6. /\ next \in 1 .. Len(pushed[r]) /\ k < Len(source[r]) /\ next \in 1 .. Len(source[r])
      /\ Len(source[r]) \in Nat
  <2>1. Len(source[r]) = Len(pushed[r]) /\ Len(source[r]) \in Nat
    BY RelayTypes DEF AgeInv, Aged
  <2> QED
    BY <1>3, <1>4, <1>5, <2>1
<1>7. msg \in A!MPacket /\ msg.id = next
  <2>1. \A n \in 1 .. Len(pushed[r]) : pushed[r][n].id = n
    BY <1>2, <1>4 DEF Rings, AP!StoreInv, AP!RecordInv, AP!QueueInv, AP!HoldsQueue
  <2> QED
    BY <1>2, <1>3, <1>4, <1>5, <1>6, <2>1
<1>8. Traced(r) /\ sent[r] \in Seq(A!MPacket)
  BY RelayTypes DEF RelayInv
<1>9. PICK given : given = sent'[r]
  OBVIOUS
<1>10. /\ given = Append(sent[r], msg)
       /\ \A q \in Routers : q # r => sent'[q] = sent[q]
  BY <1>1, <1>4, <1>9, RelayTypes
<1>11. /\ given \in Seq(A!MPacket) /\ Len(given) = next /\ given[next] = msg
       /\ \A n \in 1 .. k : given[n] = sent[r][n]
  BY <1>5, <1>7, <1>8, <1>10
<1>12. \A n \in 1 .. next : n \in 1 .. k \/ n = next
  BY <1>5
<1>13. \A n \in 1 .. Len(given) : given[n].id = n
  BY <1>5, <1>7, <1>8, <1>11, <1>12 DEF Traced
<1>14. Traced(r)'
  <2>1. Settled(r)' = Settled(r) /\ Len(given) <= Len(source[r])
    BY <1>1, <1>6, <1>11 DEF Settled
  <2> QED
    BY <1>1, <1>8, <1>9, <1>11, <1>13, <2>1 DEF Traced
<1>15. ASSUME NEW q \in Routers, q # r PROVE Traced(q)'
  BY <1>1, <1>10, <1>15, StaysTraced DEF RelayInv, Settled
<1>16. RelayInv'
  BY <1>1, <1>14, <1>15 DEF RelayInv
<1>17. Passed' = [Passed EXCEPT ![r] = Append(@, source[r][next])]
  <2> DEFINE Seen(q)    == [n \in 1 .. Len(sent[q]) |-> source[q][n]]
             SeenNow(q) == [n \in 1 .. Len(sent'[q]) |-> source[q][n]]
             Sent(q) == [n \in DOMAIN sent'[q] |-> IF sent'[q][n].id \in DOMAIN source[q]
                                               THEN source[q][sent'[q][n].id] ELSE P!EmptyPkt]
  <2>1. ASSUME NEW q \in Routers
        PROVE  /\ source[q] \in Seq(P!RawPkt) /\ sent'[q] \in Seq(A!MPacket)
               /\ Len(sent'[q]) <= Len(source[q])
               /\ \A n \in 1 .. Len(sent'[q]) : sent'[q][n].id = n
    BY <1>1, <1>16 DEF RelayInv, Traced, Fate
  <2>2. ASSUME NEW q \in Routers PROVE Sent(q) = SeenNow(q)
    <3>1. PICK now : now = sent'[q]
      OBVIOUS
    <3> HIDE DEF Sent, SeenNow
    <3>2. /\ source[q] \in Seq(P!RawPkt) /\ now \in Seq(A!MPacket) /\ Len(now) <= Len(source[q])
          /\ \A n \in 1 .. Len(now) : now[n].id = n
      BY <2>1, <3>1
    <3>3. [n \in DOMAIN now |-> IF now[n].id \in DOMAIN source[q] THEN source[q][now[n].id]
                                                                  ELSE P!EmptyPkt]
          = [n \in 1 .. Len(now) |-> source[q][n]]
      BY <3>2, PassedNoted
    <3> QED
      BY <3>1, <3>3 DEF Sent, SeenNow
  <2>3. \A q \in Routers : q # r => SeenNow(q) = Seen(q)
    BY <1>10
  <2>4. SeenNow(r) = Append(Seen(r), source[r][next])
    <3>1. /\ Seen(r) \in Seq(P!RawPkt) /\ Len(Seen(r)) = k
          /\ \A n \in 1 .. k : Seen(r)[n] = source[r][n]
      BY <1>5, <1>6, RelayTypes
    <3>2. SeenNow(r) = [n \in 1 .. next |-> source[r][n]]
      BY <1>9, <1>11
    <3> HIDE DEF Seen, SeenNow
    <3>3. Append(Seen(r), source[r][next])
            = [n \in 1 .. next |-> IF n = next THEN source[r][next] ELSE Seen(r)[n]]
      BY <1>5, <3>1
    <3>4. \A n \in 1 .. next :
            (IF n = next THEN source[r][next] ELSE Seen(r)[n]) = source[r][n]
      BY <1>12, <3>1
    <3> QED
      BY <3>2, <3>3, <3>4
  <2>5. Passed' = [q \in Routers |-> Sent(q)]
    BY <1>1 DEF Passed, P!EmptyPkt
  <2>6. Passed = [q \in Routers |-> Seen(q)]
    BY PassedSeen
  <2> HIDE DEF Seen, SeenNow, Sent
  <2> QED
    BY <2>2, <2>3, <2>4, <2>5, <2>6
<1>18. EndToEnd!Pass(r)
  <2> DEFINE n == source[r][next].id
  <2>1. /\ n \in EndToEnd!Waiting(r) /\ stored[r][n] = source[r][next]
        /\ \A m \in EndToEnd!Waiting(r) : n <= m
    BY <1>5, <1>6, <1>8, NotedIsFirst, PassedSeen DEF Traced
  <2> HIDE DEF n
  <2> QED
    BY <1>1, <1>17, <2>1 DEF EndToEnd!Pass
<1> QED
  BY <1>16, <1>18 DEF EndToEnd!Next

LEMMA StepRelay ==
  ASSUME Rings, AgeInv, RelayInv, [Next]_vars
  PROVE  RelayInv' /\ [EndToEnd!Next]_relayVars
<1>1. CASE Tick \/ UNCHANGED vars \/ (Listener /\ ~P!StoreCnt) \/ (Agent /\ ~A!Deliver)
  <2>1. UNCHANGED <<stored, decoded, source, gone, sent, pushPc>>
    BY <1>1 DEF Tick, P!Tick, A!Tick, P!routerVars, P!historyVars, A!routerVars, A!historyVars,
                fateVars, Listener, P!ListenerStep, P!SetPacketProcessing, P!Receive, P!KeepIp,
                P!LeaveOther, P!CheckBusy, P!CheckRoom, P!Fill, P!LoadCnt, agentVars,
                Agent, A!AgentStep, A!Poll, A!TakeLane, A!LoadDec, A!StoreDec,
                A!ZeroCnt, packetVars, vars
  <2> QED
    BY <2>1, StaysRelayed
<1>2. CASE Listener /\ P!StoreCnt
  BY <1>2, StoreRelays DEF Listener
<1>3. CASE Agent /\ A!Deliver
  BY <1>3, DeliverRelays DEF Agent
<1>4. ASSUME NEW r \in Routers, RouterStep(r)
      PROVE  RelayInv' /\ (EndToEnd!Next \/ UNCHANGED relayVars)
  <2>1. CASE RouterLoop(r)
    <3>1. UNCHANGED <<stored, decoded, source, gone, sent, pushPc>>
      BY <2>1 DEF RouterLoop, P!Poll, P!TakeSlot, P!MarkBusy, P!LoadDec, P!StoreDec, P!ZeroCnt,
                  P!Release, P!historyVars, agentVars, fateVars
    <3> QED
      BY <3>1, StaysRelayed
  <2>2. CASE PushStep(r)
    <3>1. /\ UNCHANGED <<stored, decoded, source, gone, sent>> /\ pushPc[r] # "idle"
          /\ \E pc \in {"check", "copy", "load", "store"} : pushPc' = [pushPc EXCEPT ![r] = pc]
      BY <2>2 DEF PushStep, A!Index, A!Accept, A!Copy, A!LoadCnt, A!historyVars, packetVars,
                  fateVars
    <3>2. \A q \in Routers : pushPc'[q] = "idle" <=> pushPc[q] = "idle"
      BY <3>1, RelayTypes
    <3> QED
      BY <3>1, <3>2, StaysRelayed
  <2> QED
    BY <1>4, <2>1, <2>2, DecodeOnlyRelays, DecodeToPushRelays, PushDroppedRelays, PushDoneRelays
       DEF RouterStep
<1> QED
  BY <1>1, <1>2, <1>3, <1>4 DEF Next

\* From the listener to the socket nothing is altered, doubled or put out of
\* order, and what does not get through was dropped by its router: within the
\* bounds of both rings, and when the clock is read once, the pipeline
\* implements Relay, for every number of routers, ring length, cap and lag.
THEOREM ReliableRelayCorrect ==
  ASSUME P!Timely, A!Timely, ~REREADS
  PROVE  Spec => ReliableRelay
<1>1. Init => RelayInv /\ EndToEnd!Init
  BY InitRelay
<1>2. Rings /\ AgeInv /\ RelayInv /\ [Next]_vars => RelayInv' /\ [EndToEnd!Next]_relayVars
  BY StepRelay
<1>3. Rings /\ AgeInv /\ [Next]_vars => AgeInv'
  BY StepAge
<1> QED
  BY <1>1, <1>2, <1>3, InitAge, RingsHold, PTL
     DEF Spec, ReliableRelay, EndToEnd!Spec, relayVars

=============================================================================
