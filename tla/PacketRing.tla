----------------------------- MODULE PacketRing -----------------------------
(***************************************************************************)
(* One network interface: the listener callback (EthernetSource, or the    *)
(* Solarflare PacketListener) stores raw packets in PKTStore, and the      *)
(* interface's PacketRouters take them out again.                          *)
(*                                                                         *)
(* The threads share, with no lock and no atomic, the clock                *)
(* CURRENT_EPOCH_SEC and for each router and time index a busy flag, a     *)
(* counter and an array of records.  An action below is what a thread does *)
(* between two accesses to that shared state; the ++ and -- of the counter *)
(* are a load and a store, as the build makes them.                        *)
(*                                                                         *)
(* Interfaces share none of this state (every array is indexed by intfId), *)
(* so one interface is modelled.  decodePacket's own effects and the       *)
(* minute change at the head of the router's loop are in other modules.    *)
(***************************************************************************)
EXTENDS TimeRing, Sequences

CONSTANTS
  ROUTERS,       \* IPGlobal::ROUTER_PER_INTERFACE of the interface
  PPS,           \* IPGlobal::PPS_PER_INTERFACE of the interface
  CAP,           \* IPGlobal::PPS_CAP_PERCENTAGE of the interface
  PERCENT,       \* what CAP is a share of: 100 in the program
  SOLARFLARE,    \* TRUE: PacketListener::consume_packet, FALSE: EthernetSource
  REREADS,       \* the build reads the clock anew each time a macro names it
  HW_TIMESTAMP,  \* cfg_timestamping: Solarflare slots by the NIC's own clock
  NIC_BEHIND,    \* seconds the NIC's clock may be behind the host's
  NIC_AHEAD,     \* seconds the NIC's clock may be ahead of the host's
  ROUTER_LAG,    \* ticks a router's loop may see between two clock reads
  LISTENER_LAG,  \* ticks the callback may see from its clock read to its end
  UINT_MAX,      \* the largest uint32_t
  MAX_SEC,       \* bound: the clock stops there
  MAX_STORED     \* bound: packets stored for a router in a behaviour

Routers == 0 .. ROUTERS - 1

\* The arrays have a row for each of 8 routers: one more than the interface's
\* routers can be reached, for which no record was allocated.
Rows == 0 .. ROUTERS

\* MAX_PKT_ALLOWED_PER_TIME_INDEX: what the listener stores in a slot.  The
\* division by 100 comes first, so fewer than 100 packets per router give 0.
\* The product is a uint32_t, and get_PPSCap takes any cap: above 100 it may
\* pass what is allocated.
MAX_PKT == (((PPS \div ROUTERS) \div PERCENT) * CAP) % (UINT_MAX + 1)

\* RawPkts initializePktRepo allocates for a slot.
MAX_LEN == PPS \div ROUTERS

ASSUME PacketRingAssumption ==
  /\ ROUTERS \in Nat \ {0}
  /\ PPS \in Nat /\ PERCENT \in Nat \ {0} /\ CAP \in Nat
  /\ SOLARFLARE \in BOOLEAN /\ HW_TIMESTAMP \in BOOLEAN
  /\ HW_TIMESTAMP => SOLARFLARE
  /\ REREADS \in BOOLEAN /\ (REREADS => ~SOLARFLARE)
  /\ NIC_BEHIND \in Nat /\ NIC_AHEAD \in Nat
  /\ ~HW_TIMESTAMP => NIC_BEHIND = 0 /\ NIC_AHEAD = 0
  /\ ROUTER_LAG \in Nat \ {0} /\ LISTENER_LAG \in Nat
  /\ UINT_MAX \in Nat /\ PPS <= UINT_MAX
  /\ MAX_SEC \in Nat /\ NIC_BEHIND + TIME_INDEX <= MAX_SEC + 1 /\ MAX_STORED \in Nat

VARIABLES
  epochSec,             \* IPGlobal::CURRENT_EPOCH_SEC
  packetProcessing,     \* IPGlobal::PACKET_PROCESSING: "init", "on", "off"
  \* PKTStore, [router][time index]
  pktRepoBusy, pktRepoCnt, pktRepository,
  \* the listener: its pc, members and locals
  lpc, tIdx, pTidx, tvSec, routerToProcess, noOfPackets, cntLoad,
  \* the routers: pc, members and locals of run and processQueueDecode
  rpc, lastTIndex, currTIndex, recCnt, recIdx, cntDec,
  \* history, read by no guard but Tick's: when the listener and each router
  \* last read the clock, the second behind lastTIndex, and what was stored
  \* and decoded
  lReadSec, lClock, readSec, lastSec, stored, decoded

clockVars    == <<epochSec, packetProcessing>>
repoVars     == <<pktRepoBusy, pktRepoCnt, pktRepository>>
listenerVars == <<lpc, tIdx, pTidx, tvSec, routerToProcess, noOfPackets,
                  cntLoad, lReadSec, lClock>>
routerVars   == <<rpc, lastTIndex, currTIndex, recCnt, recIdx, cntDec,
                  readSec, lastSec>>
historyVars  == <<stored, decoded>>
vars == <<clockVars, repoVars, listenerVars, routerVars, historyVars>>

Seconds  == 0 .. MAX_SEC                     \* what the host's clock shows
Stamps   == 0 .. MAX_SEC + NIC_AHEAD         \* and what the NIC's may
RawPkt   == [id : 0 .. MAX_STORED, tv_sec : Stamps]
EmptyPkt == [id |-> 0, tv_sec |-> 0]

TypeOK ==
  /\ epochSec \in Seconds /\ packetProcessing \in {"init", "on", "off"}
  /\ pktRepoBusy \in [Rows -> [TimeSlots -> BOOLEAN]]
  /\ pktRepoCnt \in [Rows -> [TimeSlots -> Nat]]
  /\ pktRepository \in [Routers -> [TimeSlots -> [0 .. MAX_LEN - 1 -> RawPkt]]]
  /\ lpc \in {"idle", "index", "check", "room", "fill", "load", "store"}
  /\ tIdx \in WriteIndices /\ pTidx \in WriteIndices /\ tvSec \in Stamps
  /\ routerToProcess \in Routers /\ noOfPackets \in Nat
  /\ cntLoad \in Nat /\ lReadSec \in Seconds /\ lClock \in Stamps
  /\ rpc \in [Routers -> {"walk", "mark", "decode", "load", "store", "zero", "release"}]
  /\ lastTIndex \in [Routers -> TimeSlots] /\ currTIndex \in [Routers -> TimeSlots]
  /\ recCnt \in [Routers -> Nat] /\ recIdx \in [Routers -> Nat]
  /\ cntDec \in [Routers -> Nat]
  /\ readSec \in [Routers -> Seconds] /\ lastSec \in [Routers -> Nat]
  /\ stored \in [Routers -> Seq(RawPkt)] /\ decoded \in [Routers -> Seq(RawPkt)]


-----------------------------------------------------------------------------
(* SpectaProbe::initializePktRepo, the constructors, and PacketRouter::run  *)
(* up to its loop.  The routers start before the listener does.             *)
Init ==
  /\ epochSec \in NIC_BEHIND .. NIC_BEHIND + TIME_INDEX - 1
  /\ packetProcessing = "init"
  /\ pktRepoBusy = [r \in Rows |-> [s \in TimeSlots |-> FALSE]]
  /\ pktRepoCnt = [r \in Rows |-> [s \in TimeSlots |-> 0]]
  /\ pktRepository =
       [r \in Routers |-> [s \in TimeSlots |-> [k \in 0 .. MAX_LEN - 1 |-> EmptyPkt]]]
  /\ lpc = "idle" /\ tIdx = 0 /\ pTidx = 0 /\ tvSec = 0
  /\ routerToProcess = 0 /\ noOfPackets = 0 /\ cntLoad = 0
  /\ lReadSec = epochSec /\ lClock = epochSec - NIC_BEHIND
  /\ rpc = [r \in Routers |-> "walk"]
  /\ lastTIndex = [r \in Routers |-> ReadTimeIndex(epochSec)]
  /\ currTIndex = [r \in Routers |-> ReadTimeIndex(epochSec)]
  /\ recCnt = [r \in Routers |-> 0] /\ recIdx = [r \in Routers |-> 0]
  /\ cntDec = [r \in Routers |-> 0]
  /\ readSec = [r \in Routers |-> epochSec] /\ lastSec = [r \in Routers |-> epochSec]
  /\ stored = [r \in Routers |-> <<>>] /\ decoded = [r \in Routers |-> <<>>]

-----------------------------------------------------------------------------
(* glbTimer::run publishes the next second.  Its guard is the one           *)
(* assumption on scheduling: no router loop spans more than ROUTER_LAG      *)
(* ticks, and no listener callback more than LISTENER_LAG.                  *)
Tick ==
  /\ epochSec < MAX_SEC
  /\ \A r \in Routers : epochSec + 1 - readSec[r] <= ROUTER_LAG
  /\ lpc # "idle" => epochSec + 1 - lReadSec <= LISTENER_LAG
  /\ epochSec' = epochSec + 1
  /\ UNCHANGED <<packetProcessing, repoVars, listenerVars, routerVars, historyVars>>

\* SpectaProbe::start turns PACKET_PROCESSING on, stopPacketCapturing turns it off.
SetPacketProcessing ==
  /\ \/ packetProcessing = "init" /\ packetProcessing' = "on"
     \/ packetProcessing = "on" /\ packetProcessing' = "off"
  /\ UNCHANGED <<epochSec, repoVars, listenerVars, routerVars, historyVars>>

-----------------------------------------------------------------------------
(* The listener: one callback per packet.                                   *)

\* The clock the listener slots by: CURRENT_EPOCH_SEC, or the stamp of the
\* NIC, which differs from it but does not run backwards.
ListenerClocks ==
  {clk \in {epochSec + d : d \in -NIC_BEHIND .. NIC_AHEAD} : clk >= lClock}

\* A packet has come, and PKT_WRITE_TIME_INDEX reads the clock.
Receive ==
  /\ lpc = "idle" /\ \A r \in Routers : Len(stored[r]) < MAX_STORED
  /\ lClock' \in ListenerClocks
  /\ lReadSec' = epochSec
  /\ lpc' = "index"
  /\ UNCHANGED <<clockVars, repoVars, tIdx, pTidx, tvSec, routerToProcess, noOfPackets,
                 cntLoad, routerVars, historyVars>>

\* The macro's second read.  A packet of a new time index starts again with
\* router 0.  (An index met again a whole lap later does not: pTidx equals it.)
EnterTimeIndex ==
  /\ lClock' = IF REREADS THEN LastRead(lClock, epochSec) ELSE lClock
  /\ tIdx' = WriteIndex(lClock, lClock')
  /\ pTidx' = tIdx'
  /\ routerToProcess' = IF pTidx # tIdx' THEN 0 ELSE routerToProcess
  /\ noOfPackets' = IF pTidx # tIdx' THEN 0 ELSE noOfPackets

\* A packet the listener keeps.
KeepIp ==
  /\ lpc = "index"
  /\ EnterTimeIndex
  /\ lpc' = "check"
  /\ UNCHANGED <<clockVars, repoVars, tvSec, cntLoad, lReadSec, routerVars, historyVars>>

\* Not IP, VLAN or MPLS, or IPv6 while IPV6_PROCESSING is off: EthernetSource
\* returns after it has entered the time index, PacketListener before.
LeaveOther ==
  /\ ~SOLARFLARE
  /\ lpc = "index"
  /\ EnterTimeIndex
  /\ lpc' = "idle"
  /\ UNCHANGED <<clockVars, repoVars, tvSec, cntLoad, lReadSec, routerVars, historyVars>>

\* Where in the arrays the listener is.
Row  == RowOf(routerToProcess, tIdx)
Slot == ColumnOf(tIdx)

\* EthernetSource reads the clock again for the stamp, PacketListener does not.
StampOf == IF SOLARFLARE THEN lClock ELSE epochSec

\* Packets are processed, and the router is not at work on the slot.
CheckBusy ==
  /\ lpc = "check"
  /\ tvSec' = StampOf
  /\ lpc' = IF packetProcessing = "on" /\ ~pktRepoBusy[Row][Slot] THEN "room" ELSE "idle"
  /\ UNCHANGED <<clockVars, repoVars, tIdx, pTidx, routerToProcess, noOfPackets,
                 cntLoad, lReadSec, lClock, routerVars, historyVars>>

\* The bound missed by one.
RoomOffByOne == pktRepoCnt[Row][Slot] <= MAX_PKT

Room == pktRepoCnt[Row][Slot] < MAX_PKT

CheckRoom ==
  /\ lpc = "room"
  /\ lpc' = IF Room THEN "fill" ELSE "idle"
  /\ UNCHANGED <<clockVars, repoVars, tIdx, pTidx, tvSec, routerToProcess, noOfPackets,
                 cntLoad, lReadSec, lClock, routerVars, historyVars>>

\* A packet is known by its position among those stored for its router.
NewPkt == [id |-> Len(stored[Row]) + 1, tv_sec |-> tvSec]

\* The record is taken at the counter's value NOW, not at the one checked.  A
\* record that was not allocated is a null pointer: there the program ends.
Fill ==
  /\ lpc = "fill" /\ Row \in Routers /\ pktRepoCnt[Row][Slot] < MAX_LEN
  /\ pktRepository' = [pktRepository EXCEPT ![Row][Slot][pktRepoCnt[Row][Slot]] = NewPkt]
  /\ lpc' = "load"
  /\ UNCHANGED <<clockVars, pktRepoBusy, pktRepoCnt, tIdx, pTidx, tvSec, routerToProcess,
                 noOfPackets, cntLoad, lReadSec, lClock, routerVars, historyVars>>

LoadCnt ==
  /\ lpc = "load"
  /\ cntLoad' = pktRepoCnt[Row][Slot]
  /\ lpc' = "store"
  /\ UNCHANGED <<clockVars, repoVars, tIdx, pTidx, tvSec, routerToProcess, noOfPackets,
                 lReadSec, lClock, routerVars, historyVars>>

\* A round robin that does not turn.
SameRouter == routerToProcess

NextRouter == IF routerToProcess + 1 >= ROUTERS THEN 0 ELSE routerToProcess + 1

\* The counter's ++, then the move to the next router after MAX_PKT packets.
StoreCnt ==
  /\ lpc = "store"
  /\ pktRepoCnt' = [pktRepoCnt EXCEPT ![Row][Slot] = cntLoad + 1]
  /\ stored' = [stored EXCEPT ![Row] = Append(@, NewPkt)]
  /\ IF noOfPackets + 1 >= MAX_PKT
     THEN /\ routerToProcess' = NextRouter
          /\ noOfPackets' = 0
     ELSE /\ noOfPackets' = noOfPackets + 1
          /\ UNCHANGED routerToProcess
  /\ lpc' = "idle"
  /\ UNCHANGED <<clockVars, pktRepoBusy, pktRepository, tIdx, pTidx, tvSec, cntLoad,
                 lReadSec, lClock, routerVars, decoded>>

ListenerStep ==
  \/ Receive \/ KeepIp \/ LeaveOther \/ CheckBusy \/ CheckRoom \/ Fill \/ LoadCnt \/ StoreCnt

-----------------------------------------------------------------------------
(* The routers: PacketRouter::run's loop and processQueueDecode.            *)

\* The loop's condition written as an order: false across the ring's end.
SlotsBehindByOrder(r) == lastTIndex[r] < currTIndex[r]

SlotsBehind(r) == lastTIndex[r] # currTIndex[r]

\* The clock read at the head of the loop, when no slot is behind.
Poll(r) ==
  /\ rpc[r] = "walk" /\ ~SlotsBehind(r)
  /\ currTIndex' = [currTIndex EXCEPT ![r] = ReadTimeIndex(epochSec)]
  /\ readSec' = [readSec EXCEPT ![r] = epochSec]
  /\ UNCHANGED <<clockVars, repoVars, listenerVars, rpc, lastTIndex, recCnt, recIdx,
                 cntDec, lastSec, historyVars>>

\* recCnt = pktRepository_cnt: how many records this pass decodes.
TakeSlot(r) ==
  /\ rpc[r] = "walk" /\ SlotsBehind(r)
  /\ recCnt' = [recCnt EXCEPT ![r] = pktRepoCnt[r][lastTIndex[r]]]
  /\ recIdx' = [recIdx EXCEPT ![r] = 0]
  /\ rpc' = [rpc EXCEPT ![r] = "mark"]
  /\ UNCHANGED <<clockVars, repoVars, listenerVars, lastTIndex, currTIndex,
                 cntDec, readSec, lastSec, historyVars>>

\* pktRepository_busy = true, after the count was taken.
MarkBusy(r) ==
  /\ rpc[r] = "mark"
  /\ pktRepoBusy' = [pktRepoBusy EXCEPT ![r][lastTIndex[r]] = TRUE]
  /\ rpc' = [rpc EXCEPT ![r] = IF recCnt[r] > 0 THEN "decode" ELSE "release"]
  /\ UNCHANGED <<clockVars, pktRepoCnt, pktRepository, listenerVars, lastTIndex,
                 currTIndex, recCnt, recIdx, cntDec, readSec, lastSec, historyVars>>

\* decodePacket(pktRepository[i])
Decode(r) ==
  /\ rpc[r] = "decode"
  /\ decoded' = [decoded EXCEPT ![r] = Append(@, pktRepository[r][lastTIndex[r]][recIdx[r]])]
  /\ rpc' = [rpc EXCEPT ![r] = "load"]
  /\ UNCHANGED <<clockVars, repoVars, listenerVars, lastTIndex, currTIndex, recCnt, recIdx,
                 cntDec, readSec, lastSec, stored>>

LoadDec(r) ==
  /\ rpc[r] = "load"
  /\ cntDec' = [cntDec EXCEPT ![r] = pktRepoCnt[r][lastTIndex[r]]]
  /\ rpc' = [rpc EXCEPT ![r] = "store"]
  /\ UNCHANGED <<clockVars, repoVars, listenerVars, lastTIndex, currTIndex, recCnt, recIdx,
                 readSec, lastSec, historyVars>>

\* The counter's --, on a uint32_t.
StoreDec(r) ==
  /\ rpc[r] = "store"
  /\ pktRepoCnt' = [pktRepoCnt EXCEPT
                      ![r][lastTIndex[r]] = IF cntDec[r] = 0 THEN UINT_MAX ELSE cntDec[r] - 1]
  /\ recIdx' = [recIdx EXCEPT ![r] = @ + 1]
  /\ rpc' = [rpc EXCEPT ![r] = IF recIdx[r] + 1 < recCnt[r] THEN "decode" ELSE "zero"]
  /\ UNCHANGED <<clockVars, pktRepoBusy, pktRepository, listenerVars, lastTIndex, currTIndex,
                 recCnt, cntDec, readSec, lastSec, historyVars>>

\* pktRepository_cnt = 0, whatever was added since recCnt was read.
ZeroCnt(r) ==
  /\ rpc[r] = "zero"
  /\ pktRepoCnt' = [pktRepoCnt EXCEPT ![r][lastTIndex[r]] = 0]
  /\ rpc' = [rpc EXCEPT ![r] = "release"]
  /\ UNCHANGED <<clockVars, pktRepoBusy, pktRepository, listenerVars, lastTIndex, currTIndex,
                 recCnt, recIdx, cntDec, readSec, lastSec, historyVars>>

\* pktRepository_busy = false, and on to the next slot.
Release(r) ==
  /\ rpc[r] = "release"
  /\ pktRepoBusy' = [pktRepoBusy EXCEPT ![r][lastTIndex[r]] = FALSE]
  /\ lastTIndex' = [lastTIndex EXCEPT ![r] = ReadNextTimeIndex(@)]
  /\ lastSec' = [lastSec EXCEPT ![r] = @ + 1]
  /\ rpc' = [rpc EXCEPT ![r] = "walk"]
  /\ UNCHANGED <<clockVars, pktRepoCnt, pktRepository, listenerVars, currTIndex, recCnt,
                 recIdx, cntDec, readSec, historyVars>>

RouterStep(r) ==
  \/ Poll(r) \/ TakeSlot(r) \/ MarkBusy(r) \/ Decode(r)
  \/ LoadDec(r) \/ StoreDec(r) \/ ZeroCnt(r) \/ Release(r)

-----------------------------------------------------------------------------
Next ==
  \/ Tick
  \/ SetPacketProcessing
  \/ ListenerStep
  \/ \E r \in Routers : RouterStep(r)

Spec == Init /\ [][Next]_vars

-----------------------------------------------------------------------------
(* Properties.                                                              *)

\* The bounds on scheduling under which the ring is safe.  A slot is written
\* at most LISTENER_LAG + NIC_BEHIND seconds late, and the gap is one slot; it
\* is drained at most 2 * ROUTER_LAG seconds late, and the ring has TIME_INDEX.
Timely ==
  /\ LISTENER_LAG + NIC_BEHIND <= 1
  /\ 2 * ROUTER_LAG + NIC_AHEAD + 1 < TIME_INDEX

Writing(r, s) == lpc \in {"fill", "load", "store"} /\ Row = r /\ Slot = s

Draining(r, s) == lastTIndex[r] = s /\ rpc[r] # "walk"

\* No slot is written by the listener while its router drains it: the only
\* protection the unlocked counters and records have (the busy flag is set
\* after the count is read, and checked before the record is written).
NoOverlap == \A r \in Routers, s \in TimeSlots : ~(Writing(r, s) /\ Draining(r, s))

\* Every stored packet is decoded, or is still in a live record of a slot its
\* router has not finished with: none is overwritten, and none is forgotten
\* when processQueueDecode sets the counter to 0.
Live(r, s, k) ==
  IF Draining(r, s) THEN recIdx[r] <= k /\ k < recCnt[r] ELSE k < pktRepoCnt[r][s]

NothingLost ==
  \A r \in Routers : \A n \in Len(decoded[r]) + 1 .. Len(stored[r]) :
    \E s \in TimeSlots, k \in 0 .. MAX_LEN - 1 :
      Live(r, s, k) /\ pktRepository[r][s][k] = stored[r][n]

\* A router receives the packets stored for it once each, in order, and
\* unaltered: the ring is a reliable queue per router.
RouterQueue == INSTANCE Handoff WITH
  Lanes <- Routers, Items <- RawPkt, accepted <- stored, delivered <- decoded

ReliableQueue == RouterQueue!Spec

\* By how much a stamp may be later than the clock read that chose its slot.
StampLag == IF SOLARFLARE THEN 0 ELSE LISTENER_LAG

\* While a record is decoded its stamp is from an earlier second, two seconds
\* before unless it is late, and from no more than 2 * ROUTER_LAG + 1 seconds
\* ago: BWData files it under its second modulo 100 and its router's minute,
\* and needs both.
FreshWhenDecoded ==
  \A r \in Routers : rpc[r] = "decode" =>
    LET age == epochSec - pktRepository[r][lastTIndex[r]][recIdx[r]].tv_sec
    IN  2 - StampLag <= age /\ age <= 2 * ROUTER_LAG + 1

\* While PACKET_PROCESSING is on, the listener refuses a packet only if the
\* slots of ALL the interface's routers are full: the round robin never
\* insists on a full router while another has room.  Slot 0 is left out of it
\* when the clock is read anew: a packet put there by a torn index lies in a
\* row out of turn, and the robin may then meet a full router too early.
RefusedOnlyWhenFull ==
  [][(/\ lpc \in {"check", "room"} /\ lpc' = "idle" /\ packetProcessing = "on"
      /\ REREADS => Slot # 0)
       => \A r \in Routers : pktRepoCnt[r][Slot] >= MAX_PKT]_vars

\* Whatever the scheduling: the listener writes only records that exist, and
\* a router reads only records that exist.  It takes a build that reads the
\* clock once and a cap of at most 100 percent.
WithinAllocation ==
  /\ lpc = "fill" => Row \in Routers /\ pktRepoCnt[Row][Slot] < MAX_LEN
  /\ \A r \in Routers : rpc[r] = "decode" => recIdx[r] < MAX_LEN

\* Whatever the scheduling: the racing ++ and -- never take a uint32_t
\* counter below zero, and never above what the listener may store.
CounterSound ==
  \A r \in Routers :
    /\ rpc[r] = "store" => cntDec[r] > 0
    /\ \A s \in TimeSlots : pktRepoCnt[r][s] <= MAX_PKT

=============================================================================
