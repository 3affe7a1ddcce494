----------------------------- MODULE AgentRing ------------------------------
(***************************************************************************)
(* One interface and one protocol: the interface's PacketRouters push      *)
(* messages into the store of a TcpAgent, UdpAgent, DnsAgent or AaaAgent,  *)
(* whose one thread sends them to the server.                              *)
(*                                                                         *)
(* The store is a time ring like PKTStore, with one lane per router, but   *)
(* it has no busy flag, its producers are several threads, each push reads *)
(* the clock anew, and the records are made as they are needed.  An action *)
(* is again what a thread does between two accesses to shared state.       *)
(***************************************************************************)
EXTENDS TimeRing, Sequences

CONSTANTS
  ROUTERS,       \* IPGlobal::ROUTER_PER_INTERFACE of the interface
  LAST_CAP,      \* the cap a router of the last interface computes, from its PPS
  REREADS,       \* the build reads the clock anew each time a macro names it
  CAPPED,        \* TRUE: TCP and UDP, FALSE: DNS and AAA, which have no cap
  AGENT_LAG,     \* ticks the agent's loop may see between two clock reads
  PUSH_LAG,      \* ticks a push may see between two clock reads, and then to its end
  UINT_MAX,      \* the largest uint32_t
  MAX_SEC,       \* bound: the clock stops there
  MAX_PUSHED     \* bound: messages a router pushes in a behaviour

Routers == 0 .. ROUTERS - 1

\* The arrays have a row for each of 8 routers: one more than the interface's
\* routers can be reached.
Rows == 0 .. ROUTERS

\* MAX_PACKET_PUSH_SOCKET is ONE variable of the program.  Every router sets it
\* to its interface's cap as it starts; they start one after the other, in the
\* order of the interfaces, and before any packet is processed: what each logs
\* as its own cap is not what its pushes obey.
MAX_PACKET_PUSH_SOCKET == LAST_CAP

ASSUME AgentRingAssumption ==
  /\ ROUTERS \in Nat \ {0}
  /\ LAST_CAP \in Nat /\ CAPPED \in BOOLEAN /\ REREADS \in BOOLEAN
  /\ AGENT_LAG \in Nat \ {0} /\ PUSH_LAG \in Nat
  /\ UINT_MAX \in Nat
  /\ MAX_SEC \in Nat /\ TIME_INDEX <= MAX_SEC + 1 /\ MAX_PUSHED \in Nat

VARIABLES
  epochSec,             \* IPGlobal::CURRENT_EPOCH_SEC
  cnt, store,           \* tcpAgent::cnt and ::store, [router][time index]
  \* the routers: pc and locals of push...ToAgentQueue and copyMsgObj
  rpc, idx, cntLoad,
  \* the agent: pc, and locals of run, processQueue and pushToServer
  apc, lastProcessedIndex, curIndex, lane, recCnt, recIdx, cntDec,
  \* history, read by no guard but Tick's: the second each push read last, the
  \* seconds behind the agent's indices, what was pushed and sent per router,
  \* and the seconds of the messages sent, of all routers
  pushSec, readSec, lastSec, pushed, sent, sentSecs

ringVars    == <<cnt, store>>
routerVars  == <<rpc, idx, cntLoad, pushSec>>
agentVars   == <<apc, lastProcessedIndex, curIndex, lane, recCnt, recIdx, cntDec,
                 readSec, lastSec>>
historyVars == <<pushed, sent, sentSecs>>
vars == <<epochSec, ringVars, routerVars, agentVars, historyVars>>

Seconds == 0 .. MAX_SEC
MPacket == [id : 0 .. MAX_PUSHED, sec : Seconds]
Unset   == [id |-> 0, sec |-> 0]

TypeOK ==
  /\ epochSec \in Seconds
  /\ cnt \in [Rows -> [TimeSlots -> Nat]]
  /\ store \in [Rows -> [TimeSlots -> Seq(MPacket)]]
  /\ rpc \in [Routers -> {"idle", "index", "check", "copy", "load", "store"}]
  /\ idx \in [Routers -> WriteIndices] /\ cntLoad \in [Routers -> Nat]
  /\ apc \in {"take", "deliver", "load", "store", "zero"}
  /\ lastProcessedIndex \in TimeSlots /\ curIndex \in TimeSlots
  /\ lane \in Routers /\ recCnt \in Nat /\ recIdx \in Nat /\ cntDec \in Nat
  /\ pushSec \in [Routers -> Seconds] /\ readSec \in Seconds /\ lastSec \in Nat
  /\ pushed \in [Routers -> Seq(MPacket)] /\ sent \in [Routers -> Seq(MPacket)]
  /\ sentSecs \in Seq(Seconds)

-----------------------------------------------------------------------------
\* initializeAgentMaps, and the agent's run up to its loop.
Init ==
  /\ epochSec \in 0 .. TIME_INDEX - 1
  /\ cnt = [q \in Rows |-> [s \in TimeSlots |-> 0]]
  /\ store = [q \in Rows |-> [s \in TimeSlots |-> <<>>]]
  /\ rpc = [q \in Routers |-> "idle"]
  /\ idx = [q \in Routers |-> 0] /\ cntLoad = [q \in Routers |-> 0]
  /\ apc = "take"
  /\ lastProcessedIndex = ReadTimeIndex(epochSec) /\ curIndex = ReadTimeIndex(epochSec)
  /\ lane = 0 /\ recCnt = 0 /\ recIdx = 0 /\ cntDec = 0
  /\ pushSec = [q \in Routers |-> epochSec] /\ readSec = epochSec /\ lastSec = epochSec
  /\ pushed = [q \in Routers |-> <<>>] /\ sent = [q \in Routers |-> <<>>]
  /\ sentSecs = <<>>

-----------------------------------------------------------------------------
(* glbTimer::run.  The guard is the assumption on scheduling: no loop of    *)
(* the agent spans more than AGENT_LAG ticks, though deliver may block in   *)
(* the socket, and no push more than PUSH_LAG.                              *)
Tick ==
  /\ epochSec < MAX_SEC
  /\ epochSec + 1 - readSec <= AGENT_LAG
  /\ \A q \in Routers : rpc[q] # "idle" => epochSec + 1 - pushSec[q] <= PUSH_LAG
  /\ epochSec' = epochSec + 1
  /\ UNCHANGED <<ringVars, routerVars, agentVars, historyVars>>

-----------------------------------------------------------------------------
(* The routers: pushTcpToAgentQueue and its three siblings.                 *)

\* PKT_WRITE_TIME_INDEX reads the clock.
StartPush(q) ==
  /\ rpc[q] = "idle" /\ Len(pushed[q]) < MAX_PUSHED
  /\ pushSec' = [pushSec EXCEPT ![q] = epochSec]
  /\ rpc' = [rpc EXCEPT ![q] = "index"]
  /\ UNCHANGED <<epochSec, ringVars, idx, cntLoad, agentVars, historyVars>>

\* The macro's second read, and its result.
Index(q) ==
  /\ rpc[q] = "index"
  /\ pushSec' = [pushSec EXCEPT ![q] = IF REREADS THEN LastRead(@, epochSec) ELSE @]
  /\ idx' = [idx EXCEPT ![q] = WriteIndex(pushSec[q], pushSec'[q])]
  /\ rpc' = [rpc EXCEPT ![q] = "check"]
  /\ UNCHANGED <<epochSec, ringVars, cntLoad, agentVars, historyVars>>

\* Where in the arrays the push is.
Row(q)  == RowOf(q, idx[q])
Slot(q) == ColumnOf(idx[q])

\* A cap that counts the message about to be pushed twice.
FullAtTwice(q) == CAPPED /\ cnt[Row(q)][Slot(q)] > 2 * MAX_PACKET_PUSH_SOCKET

\* "cnt > MAX_PACKET_PUSH_SOCKET": the slot takes one message more than that.
Full(q) == CAPPED /\ cnt[Row(q)][Slot(q)] > MAX_PACKET_PUSH_SOCKET

Drop(q) ==
  /\ rpc[q] = "check" /\ Full(q)
  /\ rpc' = [rpc EXCEPT ![q] = "idle"]
  /\ UNCHANGED <<epochSec, ringVars, idx, cntLoad, pushSec, agentVars, historyVars>>

Accept(q) ==
  /\ rpc[q] = "check" /\ ~Full(q)
  /\ rpc' = [rpc EXCEPT ![q] = "copy"]
  /\ UNCHANGED <<epochSec, ringVars, idx, cntLoad, pushSec, agentVars, historyVars>>

\* A message is known by its position among those pushed by its router.
Message(q) == [id |-> Len(pushed[q]) + 1, sec |-> pushSec[q]]

\* The record of an unordered_map at key k, made if it is not there: keys are
\* used in turn, so the map is a sequence.
Put(records, k, x) ==
  IF k < Len(records) THEN [records EXCEPT ![k + 1] = x] ELSE Append(records, x)

\* The record at key k: reading makes it too.
Record(records, k) == IF k < Len(records) THEN records[k + 1] ELSE Unset

\* ip_msg[ip_msg_cnt].copy(msgObj), at the counter's value now.
Copy(q) ==
  /\ rpc[q] = "copy"
  /\ store' = [store EXCEPT ![Row(q)][Slot(q)] = Put(@, cnt[Row(q)][Slot(q)], Message(q))]
  /\ rpc' = [rpc EXCEPT ![q] = "load"]
  /\ UNCHANGED <<epochSec, cnt, idx, cntLoad, pushSec, agentVars, historyVars>>

LoadCnt(q) ==
  /\ rpc[q] = "load"
  /\ cntLoad' = [cntLoad EXCEPT ![q] = cnt[Row(q)][Slot(q)]]
  /\ rpc' = [rpc EXCEPT ![q] = "store"]
  /\ UNCHANGED <<epochSec, ringVars, idx, pushSec, agentVars, historyVars>>

\* ip_msg_cnt++
StoreCnt(q) ==
  /\ rpc[q] = "store"
  /\ cnt' = [cnt EXCEPT ![Row(q)][Slot(q)] = cntLoad[q] + 1]
  /\ pushed' = [pushed EXCEPT ![q] = Append(@, Message(q))]
  /\ rpc' = [rpc EXCEPT ![q] = "idle"]
  /\ UNCHANGED <<epochSec, store, idx, cntLoad, pushSec, agentVars, sent, sentSecs>>

RouterStep(q) ==
  StartPush(q) \/ Index(q) \/ Drop(q) \/ Accept(q) \/ Copy(q) \/ LoadCnt(q) \/ StoreCnt(q)

-----------------------------------------------------------------------------
(* The agent: run's loop, processQueue over the routers, pushToServer.      *)

SlotsBehind == lastProcessedIndex # curIndex

\* The clock read at the head of the loop, when no slot is behind.
Poll ==
  /\ apc = "take" /\ ~SlotsBehind
  /\ curIndex' = ReadTimeIndex(epochSec) /\ readSec' = epochSec
  /\ UNCHANGED <<epochSec, ringVars, routerVars, apc, lastProcessedIndex, lane, recCnt,
                 recIdx, cntDec, lastSec, historyVars>>

\* The next router's lane of the slot, or the next slot after the last lane.
LaneDone ==
  IF lane + 1 < ROUTERS
  THEN /\ lane' = lane + 1
       /\ UNCHANGED <<lastProcessedIndex, lastSec>>
  ELSE /\ lane' = 0
       /\ lastProcessedIndex' = ReadNextTimeIndex(lastProcessedIndex)
       /\ lastSec' = lastSec + 1

\* recCnt = ip_cnt; nothing is done for a lane with no message.
TakeLane ==
  /\ apc = "take" /\ SlotsBehind
  /\ recCnt' = cnt[lane][lastProcessedIndex]
  /\ recIdx' = 0
  /\ IF recCnt' > 0
     THEN /\ apc' = "deliver"
          /\ UNCHANGED <<lane, lastProcessedIndex, lastSec>>
     ELSE /\ LaneDone
          /\ UNCHANGED apc
  /\ UNCHANGED <<epochSec, ringVars, routerVars, curIndex, cntDec, readSec, historyVars>>

\* deliver(&ip[i]): the message goes to the socket.
Deliver ==
  /\ apc = "deliver"
  /\ LET msg == Record(store[lane][lastProcessedIndex], recIdx)
     IN  /\ sent' = [sent EXCEPT ![lane] = Append(@, msg)]
         /\ sentSecs' = Append(sentSecs, msg.sec)
  /\ apc' = "load"
  /\ UNCHANGED <<epochSec, ringVars, routerVars, lastProcessedIndex, curIndex, lane, recCnt,
                 recIdx, cntDec, readSec, lastSec, pushed>>

LoadDec ==
  /\ apc = "load"
  /\ cntDec' = cnt[lane][lastProcessedIndex]
  /\ apc' = "store"
  /\ UNCHANGED <<epochSec, ringVars, routerVars, lastProcessedIndex, curIndex, lane, recCnt,
                 recIdx, readSec, lastSec, historyVars>>

\* ip_cnt--, on a uint32_t.
StoreDec ==
  /\ apc = "store"
  /\ cnt' = [cnt EXCEPT ![lane][lastProcessedIndex] =
               IF cntDec = 0 THEN UINT_MAX ELSE cntDec - 1]
  /\ recIdx' = recIdx + 1
  /\ apc' = IF recIdx + 1 < recCnt THEN "deliver" ELSE "zero"
  /\ UNCHANGED <<epochSec, store, routerVars, lastProcessedIndex, curIndex, lane, recCnt,
                 cntDec, readSec, lastSec, historyVars>>

\* ip_cnt = 0, whatever was pushed since recCnt was read; on to the next lane.
ZeroCnt ==
  /\ apc = "zero"
  /\ cnt' = [cnt EXCEPT ![lane][lastProcessedIndex] = 0]
  /\ apc' = "take"
  /\ LaneDone
  /\ UNCHANGED <<epochSec, store, routerVars, curIndex, recCnt, recIdx, cntDec, readSec,
                 historyVars>>

AgentStep == Poll \/ TakeLane \/ Deliver \/ LoadDec \/ StoreDec \/ ZeroCnt

-----------------------------------------------------------------------------
Next == Tick \/ AgentStep \/ \E q \in Routers : RouterStep(q)

Spec == Init /\ [][Next]_vars

-----------------------------------------------------------------------------
(* Properties.                                                              *)

\* The bounds on scheduling under which the ring is safe.
Timely == PUSH_LAG <= 1 /\ 2 * AGENT_LAG + 1 < TIME_INDEX

Pushing(q, s) == rpc[q] \in {"copy", "load", "store"} /\ Slot(q) = s

Sending(q, s) == lastProcessedIndex = s /\ lane = q /\ apc # "take"

\* No router pushes into the lane and slot that the agent is sending: there
\* is no busy flag here, so only the time ring keeps them apart.
NoOverlap == \A p, q \in Routers, s \in TimeSlots :
  ~(Pushing(p, s) /\ Row(p) = q /\ Sending(q, s))

\* Every message pushed is sent, or is a live record of a slot the agent has
\* not finished with: setting the counter to 0 forgets none.
Live(q, s, k) ==
  IF Sending(q, s) THEN recIdx <= k /\ k < recCnt ELSE k < cnt[q][s]

NothingLost ==
  \A q \in Routers : \A n \in Len(sent[q]) + 1 .. Len(pushed[q]) :
    \E s \in TimeSlots, k \in 0 .. MAX_PUSHED - 1 :
      /\ k < Len(store[q][s])
      /\ Live(q, s, k)
      /\ store[q][s][k + 1] = pushed[q][n]

\* The agent sends the messages of each router once each, in order and
\* unaltered: the store is a reliable queue per router.
AgentQueue == INSTANCE Handoff WITH
  Lanes <- Routers, Items <- MPacket, accepted <- pushed, delivered <- sent

ReliableQueue == AgentQueue!Spec

\* Over all routers together, messages leave in the order of the seconds in
\* which they were pushed: the server never sees an earlier second's message
\* after a later one's, though the agent goes through the routers in turn.
SentBySecond ==
  \A m, n \in 1 .. Len(sentSecs) : m <= n => sentSecs[m] <= sentSecs[n]

\* A capped slot never holds more than one message over the cap in force, the
\* racing ++ and -- notwithstanding, and no counter wraps below zero.
SlotWithinCap ==
  /\ CAPPED => \A q \in Routers, s \in TimeSlots : cnt[q][s] <= MAX_PACKET_PUSH_SOCKET + 1
  /\ apc = "store" => cntDec > 0

=============================================================================
