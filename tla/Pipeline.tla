------------------------------ MODULE Pipeline ------------------------------
(***************************************************************************)
(* One interface from end to end: the listener's callback, PKTStore, the   *)
(* PacketRouters, the store of one agent, and the agent.  PacketRing and   *)
(* AgentRing are composed: they share the clock, and a router is ONE       *)
(* thread in both.  It pushes a packet's message while it decodes the      *)
(* packet (PacketRouter::decodePacket), before the -- of the counter; so   *)
(* a push is part of the router's loop, and is as late as that loop.       *)
(*                                                                         *)
(* The packets are those of one protocol, whose agent is modelled.  What   *)
(* decides that a packet leads to no message is in Classify; here it is a  *)
(* choice.                                                                 *)
(***************************************************************************)
EXTENDS Naturals, Sequences, SequencesExt

CONSTANTS
  \* those of PacketRing
  TIME_INDEX, ROUTERS, PPS, CAP, PERCENT, SOLARFLARE, REREADS, HW_TIMESTAMP, NIC_BEHIND,
  NIC_AHEAD, ROUTER_LAG, LISTENER_LAG, UINT_MAX, MAX_SEC, MAX_STORED,
  \* those of AgentRing that are its own
  LAST_CAP, CAPPED, AGENT_LAG,
  FIRST_SEC      \* bound: the second in which the threads start

VARIABLES
  epochSec,
  \* those of PacketRing
  packetProcessing, pktRepoBusy, pktRepoCnt, pktRepository,
  lpc, tIdx, pTidx, tvSec, routerToProcess, noOfPackets, cntLoad,
  rpc, lastTIndex, currTIndex, recCnt, recIdx, cntDec,
  lReadSec, lClock, readSec, lastSec, stored, decoded,
  \* those of AgentRing
  ipMsgCnt, ipMsg, pushPc, idx, msgCntLoad, pushSec,
  apc, lastProcessedIndex, curIndex, lane, msgRecCnt, msgRecIdx, msgCntDec,
  agentReadSec, agentLastSec, pushed, sent, sentSecs,
  \* history: the packets that led to no message, and for each message pushed
  \* the packet it is of
  gone, source

P == INSTANCE PacketRing

A == INSTANCE AgentRing WITH
  PUSH_LAG <- ROUTER_LAG, MAX_PUSHED <- MAX_STORED,
  cnt <- ipMsgCnt, store <- ipMsg, rpc <- pushPc, cntLoad <- msgCntLoad,
  recCnt <- msgRecCnt, recIdx <- msgRecIdx, cntDec <- msgCntDec,
  readSec <- agentReadSec, lastSec <- agentLastSec

\* The constants meet the assumptions of both rings, and the threads start in
\* the first lap of each.
ASSUME PipelineAssumption ==
  /\ P!TimeIndexAssumption /\ P!PacketRingAssumption /\ A!AgentRingAssumption
  /\ FIRST_SEC \in NIC_BEHIND .. TIME_INDEX - 1

Routers == 0 .. ROUTERS - 1

packetVars ==
  <<packetProcessing, pktRepoBusy, pktRepoCnt, pktRepository, lpc, tIdx, pTidx, tvSec,
    routerToProcess, noOfPackets, cntLoad, rpc, lastTIndex, currTIndex, recCnt, recIdx, cntDec,
    lReadSec, lClock, readSec, lastSec, stored, decoded>>
agentVars ==
  <<ipMsgCnt, ipMsg, pushPc, idx, msgCntLoad, pushSec, apc, lastProcessedIndex, curIndex, lane,
    msgRecCnt, msgRecIdx, msgCntDec, agentReadSec, agentLastSec, pushed, sent, sentSecs>>
fateVars   == <<gone, source>>
vars == <<epochSec, packetVars, agentVars, fateVars>>

Init ==
  /\ epochSec = FIRST_SEC /\ P!Init /\ A!Init
  /\ gone = [r \in Routers |-> {}] /\ source = [r \in Routers |-> <<>>]

-----------------------------------------------------------------------------
Tick == P!Tick /\ A!Tick /\ UNCHANGED fateVars

Listener == (P!ListenerStep \/ P!SetPacketProcessing) /\ UNCHANGED <<agentVars, fateVars>>

\* A queue between the router and its pushes: the loop goes on during a push.
DoesNotWait(r) == TRUE

\* decodePacket returns after the push.
NotPushing(r) == pushPc[r] = "idle"

\* Everything in a router's loop but decodePacket.
RouterLoop(r) ==
  /\ NotPushing(r)
  /\ \/ P!Poll(r) \/ P!TakeSlot(r) \/ P!MarkBusy(r) \/ P!LoadDec(r) \/ P!StoreDec(r)
     \/ P!ZeroCnt(r) \/ P!Release(r)
  /\ UNCHANGED <<agentVars, fateVars>>

\* decodePacket, of a packet that leads to no message.
DecodeOnly(r) ==
  /\ P!Decode(r)
  /\ gone' = [gone EXCEPT ![r] = @ \cup {Last(decoded'[r])}]
  /\ UNCHANGED <<agentVars, source>>

\* decodePacket, of one whose message is to be pushed.
DecodeToPush(r) == P!Decode(r) /\ A!StartPush(r) /\ UNCHANGED fateVars

PushStep(r) ==
  /\ A!Index(r) \/ A!Accept(r) \/ A!Copy(r) \/ A!LoadCnt(r)
  /\ UNCHANGED <<packetVars, fateVars>>

\* The agent's slot is full.
PushDropped(r) ==
  /\ A!Drop(r)
  /\ gone' = [gone EXCEPT ![r] = @ \cup {Last(decoded[r])}]
  /\ UNCHANGED <<packetVars, source>>

PushDone(r) ==
  /\ A!StoreCnt(r)
  /\ source' = [source EXCEPT ![r] = Append(@, Last(decoded[r]))]
  /\ UNCHANGED <<packetVars, gone>>

RouterStep(r) ==
  \/ RouterLoop(r) \/ DecodeOnly(r) \/ DecodeToPush(r)
  \/ PushStep(r) \/ PushDropped(r) \/ PushDone(r)

Agent == A!AgentStep /\ UNCHANGED <<packetVars, fateVars>>

Next == Tick \/ Listener \/ Agent \/ \E r \in Routers : RouterStep(r)

Spec == Init /\ [][Next]_vars

\* The fairness of the two rings; the router is one thread.
Fairness ==
  /\ SF_vars(Tick)
  /\ WF_vars(lpc # "idle" /\ P!ListenerStep /\ UNCHANGED <<agentVars, fateVars>>)
  /\ WF_vars(Agent)
  /\ \A r \in Routers : WF_vars(RouterStep(r))

FairSpec == Spec /\ Fairness

-----------------------------------------------------------------------------
(* Properties.                                                              *)

\* The packets whose messages were sent.
Passed ==
  [r \in Routers |-> [n \in DOMAIN sent[r] |->
     IF sent[r][n].id \in DOMAIN source[r] THEN source[r][sent[r][n].id] ELSE P!EmptyPkt]]

EndToEnd == INSTANCE Relay WITH
  Lanes <- Routers, Items <- P!RawPkt, accepted <- stored, dropped <- gone, passed <- Passed

\* The messages of a router leave in the order in which their packets came to
\* it, one for each packet that was not dropped, of that packet.
ReliableRelay == EndToEnd!Spec

\* The guard on a push in AgentRing, that it spans at most ROUTER_LAG ticks, is
\* no assumption here: a push is part of its router's loop.
PushWithinLoop == \A r \in Routers : pushPc[r] # "idle" => readSec[r] <= pushSec[r]

\* A message is sent at the latest so long after its packet was captured: each
\* ring adds its own delay, and one slot's gap.  And not at once: the two gaps
\* alone take four seconds, less what the stamp may be late.
SentInTime ==
  apc = "deliver" =>
    LET msg == A!Record(ipMsg[lane][lastProcessedIndex], msgRecIdx)
    IN  msg.id \in DOMAIN source[lane] =>
          LET age == epochSec - source[lane][msg.id].tv_sec
          IN  4 - P!StampLag <= age /\ age <= 2 * ROUTER_LAG + 2 * AGENT_LAG + 2

\* A packet stored early enough before the clock's bound is dropped by its
\* router, or its message is sent.
StoredIsSent ==
  \A r \in Routers : \A n \in 1 .. MAX_STORED :
    (Len(stored[r]) >= n /\ stored[r][n].tv_sec + 2 * ROUTER_LAG + 3 <= MAX_SEC)
      ~> \E p \in gone[r] \cup Range(Passed[r]) : p.id = n

=============================================================================
