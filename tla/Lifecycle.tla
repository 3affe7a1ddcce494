----------------------------- MODULE Lifecycle ------------------------------
(***************************************************************************)
(* The program from main to exit: the main thread starts the others, turns *)
(* the traffic on, stops pushing round midnight; the admin port's thread   *)
(* pauses and resumes; a signal's handler stops the threads one kind after *)
(* the other, with a sleep between.  They meet in flags that each writes   *)
(* without a lock.  One packet of one interface, any that finds room and    *)
(* makes a message, is followed to see what a stop leaves behind: from the *)
(* listener through the packet ring, its router, the agents' ring and its  *)
(* agent.                                                                  *)
(*                                                                         *)
(* The handler runs on the main thread, to which the kernel gives a        *)
(* process's signal first, so main stands still meanwhile.  At most one    *)
(* signal comes, once the handler is set.  Sleeps of main and of the admin *)
(* thread take any time; those of the handler GRACE ticks of the clock.    *)
(***************************************************************************)
EXTENDS Naturals

CONSTANTS
  NO_OF_INTERFACES,
  FOLLOWED,       \* the interface whose packet is followed
  GRACE,          \* seconds the handler sleeps between its phases
  LISTENER_LAG,   \* ticks a callback may see
  ROUTER_LAG,     \* ticks the router may see between two clock reads
  AGENT_LAG       \* ticks the agent may see between two clock reads

Interfaces == 1 .. NO_OF_INTERFACES

\* A slot is emptied by the first turn that reads the clock two seconds, or more,
\* after the one the slot was chosen by: the one-slot gap of the time rings.
DUE == 2
Ages == 0 .. DUE

\* The lags are taken to be within the bounds that keep the rings apart (Timely, in
\* PacketRing and AgentRing), so that other packets do not matter to the one followed.
ASSUME LifecycleAssumption ==
  /\ NO_OF_INTERFACES \in Nat /\ FOLLOWED \in Interfaces
  /\ GRACE \in Nat /\ LISTENER_LAG \in 0 .. 1
  /\ ROUTER_LAG \in Nat \ {0} /\ AGENT_LAG \in Nat \ {0}

VARIABLES
  \* the flags of IPGlobal: ..._RUNNING_STATUS, TIMER_PROCESSING, ...
  probe, stats, timer, listener, router, agent, packetProcessing, pushToQueue,
  \* main: where it is and its loops' counter; the handler's phase, and what is
  \* left of its sleep
  main, infCounter, phase, left,
  \* the admin thread
  admin, adminCounter,
  \* the packet: where it is, and the age of the second its slot was chosen by
  place, age,
  \* the router and the agent of its interface, and the ticks since they read the clock
  rpc, routerAge, apc, agentAge,
  \* history, read by no guard: the signal came before main's loop; before main
  \* set PROBE_RUNNING_STATUS; the operator's last word was PAUSE; it met a loop
  \* that turns pushing on
  early, tooEarly, paused, met

runFlags   == <<probe, stats, timer, listener, router, agent>>
mainVars   == <<main, infCounter>>
handler    == <<phase, left>>
adminVars  == <<admin, adminCounter>>
packet     == <<place, age>>
routerVars == <<rpc, routerAge>>
agentVars  == <<apc, agentAge>>
packetVars == <<packet, routerVars, agentVars>>
signalPast == <<early, tooEarly>>
pausePast  == <<paused, met>>
vars == <<runFlags, packetProcessing, pushToQueue, mainVars, handler, adminVars, packetVars,
          signalPast, pausePast>>

PerInterface == [Interfaces -> BOOLEAN]
AllOff == [i \in Interfaces |-> FALSE]

FlagTypes ==
  /\ probe \in BOOLEAN /\ stats \in BOOLEAN /\ timer \in BOOLEAN
  /\ listener \in PerInterface /\ router \in PerInterface /\ agent \in PerInterface
  /\ packetProcessing \in PerInterface /\ pushToQueue \in PerInterface

PastTypes ==
  early \in BOOLEAN /\ tooEarly \in BOOLEAN /\ paused \in BOOLEAN /\ met \in BOOLEAN

TypeOK ==
  /\ FlagTypes
  /\ main \in {"boot", "clock", "pause", "threads", "nics", "admin", "push", "traffic",
               "run", "body", "dayOff", "dayOn", "gone"}
  /\ infCounter \in Interfaces
  /\ phase \in {"none", "traffic", "stats", "listeners", "routers", "rest", "over"}
  /\ left \in 0 .. GRACE
  /\ admin \in {"unborn", "test", "receive", "pause", "resume", "gone"}
  /\ adminCounter \in Interfaces
  /\ place \in {"outside", "callback", "ring", "router", "lane", "agent", "done"}
  /\ age \in Ages
  /\ rpc \in {"unborn", "test", "sleep", "decode", "gone"} /\ routerAge \in 0 .. ROUTER_LAG
  /\ apc \in {"unborn", "test", "sleep", "send", "gone"} /\ agentAge \in 0 .. AGENT_LAG
  /\ PastTypes

-----------------------------------------------------------------------------
\* The handler is set; main is about to set PROBE_RUNNING_STATUS.
Init ==
  /\ probe = TRUE /\ stats = TRUE /\ timer = FALSE
  /\ listener = AllOff /\ router = AllOff /\ agent = AllOff
  /\ packetProcessing = AllOff /\ pushToQueue = AllOff
  /\ main = "boot" /\ infCounter = 1 /\ phase = "none" /\ left = 0
  /\ admin = "unborn" /\ adminCounter = 1
  /\ place = "outside" /\ age = 0
  /\ rpc = "unborn" /\ routerAge = 0 /\ apc = "unborn" /\ agentAge = 0
  /\ early = FALSE /\ tooEarly = FALSE /\ paused = FALSE /\ met = FALSE

-----------------------------------------------------------------------------
(* A second goes by: for the handler's sleep, and, while glbTimer runs, on   *)
(* the clock.  The guard is the assumption on scheduling.                    *)

\* A thread of the pc given, which read the clock n ticks ago, sees one more.
SeesTick(pc, n) == IF pc \in {"unborn", "gone"} THEN n ELSE n + 1

ClockTicks ==
  /\ place = "callback" => age < LISTENER_LAG
  /\ age' = IF place \in {"callback", "ring", "lane"} /\ age < DUE THEN age + 1 ELSE age
  /\ routerAge' = SeesTick(rpc, routerAge) /\ routerAge' <= ROUTER_LAG
  /\ agentAge' = SeesTick(apc, agentAge) /\ agentAge' <= AGENT_LAG

Tick ==
  /\ main # "gone"
  /\ left' = IF left > 0 THEN left - 1 ELSE 0
  /\ IF timer THEN ClockTicks ELSE UNCHANGED <<age, routerAge, agentAge>>
  /\ UNCHANGED <<runFlags, packetProcessing, pushToQueue, mainVars, phase, adminVars, place, rpc,
                 apc, signalPast, pausePast>>

-----------------------------------------------------------------------------
(* The main thread.                                                         *)

MainAt(pc) == main = pc /\ phase \in {"none", "over"}

\* A loop whose counter wraps before its end.
NextInterfaceWraps(pc) ==
  /\ infCounter' = IF infCounter < NO_OF_INTERFACES THEN infCounter + 1 ELSE 1
  /\ UNCHANGED main

\* One turn of a loop over the interfaces, and on to pc after the last.
NextInterface(pc) ==
  IF infCounter < NO_OF_INTERFACES
  THEN infCounter' = infCounter + 1 /\ UNCHANGED main
  ELSE infCounter' = 1 /\ main' = pc

\* main: the handler is set before the flag it clears.
Boot ==
  /\ MainAt("boot")
  /\ probe' = TRUE
  /\ main' = "clock"
  /\ UNCHANGED <<stats, timer, listener, router, agent, packetProcessing, pushToQueue, infCounter,
                 handler, adminVars, packetVars, signalPast, pausePast>>

\* main waits until the thread it has just created says that it runs
\* (isRepositoryInitialized), here and for each router, agent and listener.
\* The waits are left out: such a thread says so before it looks at its flag
\* for the first time, so none of them depends on the flags.
CreateTimer ==
  /\ MainAt("clock")
  /\ timer' = TRUE
  /\ main' = "pause"
  /\ UNCHANGED <<probe, stats, listener, router, agent, packetProcessing, pushToQueue, infCounter,
                 handler, adminVars, packetVars, signalPast, pausePast>>

PauseIncoming ==
  /\ MainAt("pause")
  /\ packetProcessing' = AllOff
  /\ main' = "threads"
  /\ UNCHANGED <<runFlags, pushToQueue, infCounter, handler, adminVars, packetVars, signalPast,
                 pausePast>>

\* createRoutersPerInterface, one interface's router and agents.
CreateRouter ==
  /\ MainAt("threads")
  /\ router' = [router EXCEPT ![infCounter] = TRUE]
  /\ agent' = [agent EXCEPT ![infCounter] = TRUE]
  /\ IF infCounter = FOLLOWED THEN rpc' = "test" /\ apc' = "test" ELSE UNCHANGED <<rpc, apc>>
  /\ NextInterface("nics")
  /\ UNCHANGED <<probe, stats, timer, listener, packetProcessing, pushToQueue, handler, adminVars,
                 packet, routerAge, agentAge, signalPast, pausePast>>

InitializeNIC ==
  /\ MainAt("nics")
  /\ listener' = [listener EXCEPT ![infCounter] = TRUE]
  /\ NextInterface("admin")
  /\ UNCHANGED <<probe, stats, timer, router, agent, packetProcessing, pushToQueue, handler,
                 adminVars, packetVars, signalPast, pausePast>>

CreateAdmin ==
  /\ MainAt("admin")
  /\ admin' = "test"
  /\ main' = "push"
  /\ UNCHANGED <<runFlags, packetProcessing, pushToQueue, infCounter, handler, adminCounter,
                 packetVars, signalPast, pausePast>>

\* The loop left after the interface it began with.
TurnOnFirst(pc, next) ==
  /\ MainAt(pc)
  /\ pushToQueue' = [pushToQueue EXCEPT ![infCounter] = TRUE]
  /\ main' = next
  /\ met' = (met \/ admin = "pause")
  /\ UNCHANGED <<runFlags, packetProcessing, infCounter, handler, adminVars, packetVars,
                 signalPast, paused>>

\* A store of the loop that turns pushing on, from the loop at pc.
TurnOn(pc, next) ==
  /\ MainAt(pc)
  /\ pushToQueue' = [pushToQueue EXCEPT ![infCounter] = TRUE]
  /\ NextInterface(next)
  /\ met' = (met \/ admin = "pause")
  /\ UNCHANGED <<runFlags, packetProcessing, handler, adminVars, packetVars, signalPast, paused>>

PushToQueue == TurnOn("push", "traffic")

\* packetProcessing(true): one interface, then a sleep.
ResumeIncoming ==
  /\ MainAt("traffic")
  /\ packetProcessing' = [packetProcessing EXCEPT ![infCounter] = TRUE]
  /\ NextInterface("run")
  /\ UNCHANGED <<runFlags, pushToQueue, handler, adminVars, packetVars, signalPast, pausePast>>

\* exit(0) ends every thread, whatever it is at.
LoopTest ==
  /\ MainAt("run")
  /\ main' = IF probe THEN "body" ELSE "gone"
  /\ UNCHANGED <<runFlags, packetProcessing, pushToQueue, infCounter, handler, adminVars,
                 packetVars, signalPast, pausePast>>

SameDay ==
  /\ MainAt("body")
  /\ main' = "run"
  /\ UNCHANGED <<runFlags, packetProcessing, pushToQueue, infCounter, handler, adminVars,
                 packetVars, signalPast, pausePast>>

DayChanged ==
  /\ MainAt("body")
  /\ main' = "dayOff"
  /\ met' = FALSE
  /\ UNCHANGED <<runFlags, packetProcessing, pushToQueue, infCounter, handler, adminVars,
                 packetVars, signalPast, paused>>

\* The day's change that does not come to its second loop.
DayOffOnly ==
  /\ MainAt("dayOff")
  /\ pushToQueue' = [pushToQueue EXCEPT ![infCounter] = FALSE]
  /\ NextInterface("run")
  /\ UNCHANGED <<runFlags, packetProcessing, handler, adminVars, packetVars, signalPast,
                 pausePast>>

DayOff ==
  /\ MainAt("dayOff")
  /\ pushToQueue' = [pushToQueue EXCEPT ![infCounter] = FALSE]
  /\ NextInterface("dayOn")
  /\ UNCHANGED <<runFlags, packetProcessing, handler, adminVars, packetVars, signalPast,
                 pausePast>>

DayOn == TurnOn("dayOn", "run")

MainStep ==
  \/ Boot \/ CreateTimer \/ PauseIncoming \/ CreateRouter \/ InitializeNIC \/ CreateAdmin
  \/ PushToQueue \/ ResumeIncoming \/ LoopTest \/ SameDay \/ DayChanged \/ DayOff \/ DayOn

-----------------------------------------------------------------------------
(* The handler: sig_handler and stopPacketCapturing.                        *)

Started == main \in {"run", "body", "dayOff", "dayOn"}

Signal ==
  /\ phase = "none" /\ main # "gone"
  /\ phase' = "traffic"
  /\ early' = ~Started /\ tooEarly' = (main = "boot")
  /\ UNCHANGED <<runFlags, packetProcessing, pushToQueue, mainVars, left, adminVars, packetVars,
                 pausePast>>

\* A phase that another follows at once.
PhaseAtOnce(p, next) ==
  /\ phase = p /\ left = 0
  /\ phase' = next /\ left' = 0
  /\ UNCHANGED <<pushToQueue, mainVars, adminVars, packetVars, signalPast, pausePast>>

\* The sleep before phase p is over; another follows.
Phase(p, next) ==
  /\ phase = p /\ left = 0
  /\ phase' = next /\ left' = GRACE
  /\ UNCHANGED <<pushToQueue, mainVars, adminVars, packetVars, signalPast, pausePast>>

\* The handler that leaves the traffic to the listeners' stop.
StopTrafficLater ==
  /\ Phase("traffic", "stats")
  /\ UNCHANGED <<runFlags, packetProcessing>>

StopTraffic ==
  /\ Phase("traffic", "stats")
  /\ packetProcessing' = AllOff
  /\ UNCHANGED runFlags

StopStats ==
  /\ Phase("stats", "listeners")
  /\ stats' = FALSE
  /\ UNCHANGED <<probe, timer, listener, router, agent, packetProcessing>>

StopListeners ==
  /\ Phase("listeners", "routers")
  /\ listener' = AllOff
  /\ UNCHANGED <<probe, stats, timer, router, agent, packetProcessing>>

StopRouters ==
  /\ Phase("routers", "rest")
  /\ router' = AllOff
  /\ UNCHANGED <<probe, stats, timer, listener, agent, packetProcessing>>

StopRest ==
  /\ phase = "rest" /\ left = 0
  /\ phase' = "over"
  /\ timer' = FALSE /\ agent' = AllOff /\ probe' = FALSE
  /\ UNCHANGED <<stats, listener, router, packetProcessing, pushToQueue, mainVars, left, adminVars,
                 packetVars, signalPast, pausePast>>

HandlerStep == StopTraffic \/ StopStats \/ StopListeners \/ StopRouters \/ StopRest

-----------------------------------------------------------------------------
(* The admin port's thread.                                                 *)

AdminAt(pc) ==
  /\ main # "gone" /\ admin = pc
  /\ UNCHANGED <<runFlags, packetProcessing, mainVars, handler, packetVars, signalPast>>

\* The while; then zmq_recv waits, through a change of the flag too.
AdminTest ==
  /\ AdminAt("test")
  /\ admin' = IF stats THEN "receive" ELSE "gone"
  /\ UNCHANGED <<pushToQueue, adminCounter, pausePast>>

TurningOn == main \in {"push", "dayOn"}

PauseTraffic ==
  /\ AdminAt("receive")
  /\ admin' = "pause"
  /\ paused' = TRUE /\ met' = TurningOn
  /\ UNCHANGED <<pushToQueue, adminCounter>>

ResumeTraffic ==
  /\ AdminAt("receive")
  /\ admin' = "resume"
  /\ paused' = FALSE /\ met' = FALSE
  /\ UNCHANGED <<pushToQueue, adminCounter>>

\* LOAD, or no command known: no flag of these.
OtherCommand ==
  /\ AdminAt("receive")
  /\ admin' = "test"
  /\ UNCHANGED <<pushToQueue, adminCounter, pausePast>>

\* A store of the command's loop.
AdminStore(pc, value) ==
  /\ AdminAt(pc)
  /\ pushToQueue' = [pushToQueue EXCEPT ![adminCounter] = value]
  /\ IF adminCounter < NO_OF_INTERFACES
     THEN adminCounter' = adminCounter + 1 /\ UNCHANGED admin
     ELSE adminCounter' = 1 /\ admin' = "test"
  /\ met' = (met \/ (pc = "pause" /\ TurningOn))
  /\ UNCHANGED paused

AdminStep ==
  \/ AdminTest \/ PauseTraffic \/ ResumeTraffic \/ OtherCommand
  \/ AdminStore("pause", FALSE) \/ AdminStore("resume", TRUE)

-----------------------------------------------------------------------------
(* The threads of the packet's interface.                                   *)

ThreadStep ==
  /\ main # "gone"
  /\ UNCHANGED <<runFlags, packetProcessing, pushToQueue, mainVars, handler, adminVars,
                 signalPast, pausePast>>

\* packetReaderCallback up to its last test.  With the listener's flag off the callback
\* breaks the capture loop; with PACKET_PROCESSING off it drops the packet.  The clock
\* may tick between the choice of the slot and the test of PACKET_PROCESSING.
Receive ==
  /\ ThreadStep
  /\ place = "outside"
  /\ listener[FOLLOWED] /\ packetProcessing[FOLLOWED]
  /\ place' = "callback" /\ age' \in 0 .. LISTENER_LAG
  /\ UNCHANGED <<routerVars, agentVars>>

StorePacket ==
  /\ ThreadStep
  /\ place = "callback"
  /\ place' = "ring"
  /\ UNCHANGED <<age, routerVars, agentVars>>

RouterTest ==
  /\ ThreadStep
  /\ rpc = "test"
  /\ rpc' = IF router[FOLLOWED] THEN "sleep" ELSE "gone"
  /\ UNCHANGED <<packet, routerAge, agentVars>>

\* After the sleep, the clock read, which decides what the turn empties.
RouterPoll ==
  /\ ThreadStep
  /\ rpc = "sleep"
  /\ rpc' = "decode" /\ routerAge' = 0
  /\ IF place = "ring" /\ age = DUE THEN place' = "router" /\ age' = 0 ELSE UNCHANGED packet
  /\ UNCHANGED agentVars

\* The slots decoded; the packet's message is pushed, if pushing is on.
RouterDecode ==
  /\ ThreadStep
  /\ rpc = "decode"
  /\ rpc' = "test"
  /\ IF place = "router"
     THEN place' = IF pushToQueue[FOLLOWED] THEN "lane" ELSE "done"
     ELSE UNCHANGED place
  /\ UNCHANGED <<age, routerAge, agentVars>>

AgentTest ==
  /\ ThreadStep
  /\ apc = "test"
  /\ apc' = IF agent[FOLLOWED] THEN "sleep" ELSE "gone"
  /\ UNCHANGED <<packet, routerVars, agentAge>>

AgentPoll ==
  /\ ThreadStep
  /\ apc = "sleep"
  /\ apc' = "send" /\ agentAge' = 0
  /\ IF place = "lane" /\ age = DUE THEN place' = "agent" /\ age' = 0 ELSE UNCHANGED packet
  /\ UNCHANGED routerVars

AgentSend ==
  /\ ThreadStep
  /\ apc = "send"
  /\ apc' = "test"
  /\ place' = IF place = "agent" THEN "done" ELSE place
  /\ UNCHANGED <<age, routerVars, agentAge>>

RouterStep == RouterTest \/ RouterPoll \/ RouterDecode
AgentStep  == AgentTest \/ AgentPoll \/ AgentSend

Next ==
  \/ Tick \/ MainStep \/ Signal \/ HandlerStep \/ AdminStep
  \/ Receive \/ StorePacket \/ RouterStep \/ AgentStep

Spec == Init /\ [][Next]_vars

Fairness ==
  /\ SF_vars(Tick) /\ WF_vars(MainStep) /\ WF_vars(HandlerStep)
  /\ WF_vars(StorePacket) /\ WF_vars(RouterStep) /\ WF_vars(AgentStep)

FairSpec == Spec /\ Fairness

-----------------------------------------------------------------------------
(* Properties.                                                              *)

\* The handler's sleeps are long enough for the lags.  With sleeps of 5 s these
\* are the lags that rings of ten slots bear: four seconds for each thread.
StopTimely ==
  /\ 3 * GRACE > ROUTER_LAG + 1
  /\ 4 * GRACE > 2 * ROUTER_LAG + 2 * AGENT_LAG + 2

\* A stop that finds the program started leaves no packet behind in the ring: the
\* router goes only after it has emptied it, and no callback fills it again.
RoutedBeforeStop ==
  StopTimely /\ rpc = "gone" /\ ~early => place \notin {"callback", "ring", "router"}

\* When the program exits, a packet taken in is decoded and its message, if it was
\* pushed, sent, unless the signal came before the start was over.
SentBeforeExit ==
  StopTimely /\ main = "gone" /\ ~early => place \in {"outside", "done"}

AtRest == main \in {"run", "body"} /\ admin \notin {"pause", "resume"}

\* With main and the admin thread at rest, all interfaces push or none does,
\* unless a PAUSE met one of main's loops that turn pushing on.
AllPushOrNone ==
  AtRest /\ ~met => \A i, j \in Interfaces : pushToQueue[i] = pushToQueue[j]

\* An interface is not left without pushing by the day's change, nor by a RESUME
\* that ran beside it: only an operator's PAUSE does that.
PausedByOperator ==
  AtRest => \A i \in Interfaces : ~pushToQueue[i] => paused

\* A program that is signalled exits, unless the signal met the one step between
\* setting the handler and setting PROBE_RUNNING_STATUS.
SignalledExits == (phase # "none" /\ ~tooEarly) ~> main = "gone"

=============================================================================
