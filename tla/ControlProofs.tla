---------------------------- MODULE ControlProofs ----------------------------
(***************************************************************************)
(* What is proved of the program's control: of Lifecycle, its types and    *)
(* that a stop leaves nothing behind; of Config, what a start and a LOAD   *)
(* make of client.config.                                                  *)
(*                                                                         *)
(* Lifecycle holds for every number of interfaces, every length of the     *)
(* handler's sleeps and every lag.  The argument counts the ticks since    *)
(* the traffic was stopped, and bounds them by where the packet is.        *)
(*                                                                         *)
(* Config holds for every set of keys that are followed, every content of  *)
(* the files and every number of LOADs.  A file is followed word by word:  *)
(* what its lines so far say of a key, and what one line more makes of it. *)
(***************************************************************************)
EXTENDS Lifecycle, Config, SequenceTheorems, FiniteSetTheorems, TLAPS

\* The ticks since StopTraffic, as far as the handler's sleeps tell them.
Elapsed ==
  CASE phase = "stats"     -> GRACE - left
    [] phase = "listeners" -> 2 * GRACE - left
    [] phase = "routers"   -> 3 * GRACE - left
    [] phase = "rest"      -> 4 * GRACE - left
    [] phase = "over"      -> 4 * GRACE
    [] OTHER               -> 0

\* main has started the router and the agent of the packet's interface.
Born ==
  \/ main \notin {"boot", "clock", "pause", "threads"}
  \/ main = "threads" /\ infCounter > FOLLOWED

\* main before it lets the traffic in.
Preparing == {"boot", "clock", "pause", "threads", "nics", "admin", "push"}

MainInv ==
  /\ main \in {"boot", "clock", "pause"} => infCounter = 1
  /\ ~probe => phase = "over"
  /\ main = "gone" => phase = "over"
  /\ phase \in {"none", "traffic"} => left = 0
  /\ phase = "none" => ~early

\* The flags and the threads follow the handler's phases.
FlagInv ==
  /\ phase # "none" => Started \/ main = "gone"
  /\ main \notin {"boot", "clock"} => timer = (phase # "over")
  /\ Born => rpc # "unborn" /\ apc # "unborn"
  /\ rpc # "unborn" => router[FOLLOWED] = (phase \notin {"rest", "over"})
  /\ apc # "unborn" => agent[FOLLOWED] = (phase # "over")
  /\ rpc = "gone" => phase \in {"rest", "over"}
  /\ apc = "gone" => phase = "over"
  /\ phase \notin {"none", "traffic"} => ~packetProcessing[FOLLOWED]
  /\ main \in Preparing => ~packetProcessing[FOLLOWED] /\ place = "outside"

\* By when a packet moves on: each bound is the one before and a turn's lag.
DrainInv ==
  /\ place = "callback" => Elapsed <= age /\ age <= LISTENER_LAG
  /\ place = "ring" /\ age < DUE => Elapsed <= age
  /\ place = "ring" /\ age = DUE => Elapsed <= routerAge + 1
  /\ place = "router" => rpc = "decode" /\ age = 0 /\ Elapsed <= ROUTER_LAG + 1 + routerAge
  /\ place = "lane" /\ age < DUE => Elapsed <= 2 * ROUTER_LAG + 1 + age
  /\ place = "lane" /\ age = DUE => Elapsed <= 2 * ROUTER_LAG + 2 + agentAge
  /\ place = "agent" => apc = "send" /\ Elapsed <= 2 * ROUTER_LAG + 2 + AGENT_LAG + agentAge

\* main with no loop over PUSH_TO_QUEUE at hand.
Calm == main \in {"traffic", "run", "body"}

\* The interfaces that push.
Pushing == {i \in Interfaces : pushToQueue[i]}

\* Where the loops over PUSH_TO_QUEUE are, and what they have done so far.
PushInv ==
  /\ main \in {"boot", "clock", "pause", "threads", "nics", "admin"} => admin = "unborn"
  /\ main \in {"boot", "clock", "pause", "admin", "run", "body"} => infCounter = 1
  /\ admin \notin {"pause", "resume"} => adminCounter = 1
  /\ admin = "pause" => paused
  /\ admin = "resume" => ~met
  /\ \A i \in Interfaces \ Pushing :
       \/ paused
       \/ main \in {"boot", "clock", "pause", "threads", "nics", "admin", "dayOff"}
       \/ TurningOn /\ i >= infCounter
       \/ admin = "resume" /\ i >= adminCounter
  /\ ~met /\ TurningOn => \A i \in Interfaces : i < infCounter =>
       i \in Pushing \/ (admin = "resume" /\ i >= adminCounter)
  /\ ~met /\ Calm => \A i \in Interfaces : i < adminCounter =>
       /\ admin = "pause" => i \notin Pushing
       /\ admin = "resume" => i \in Pushing
  /\ ~met /\ Calm /\ admin \notin {"pause", "resume"} =>
       Pushing = {} \/ Pushing = Interfaces

IInv == TypeOK /\ MainInv /\ (~early => FlagInv) /\ (StopTimely /\ ~early => DrainInv)

-----------------------------------------------------------------------------
(* Types.                                                                   *)

\* Every step of the program keeps the types.
LEMMA TypeStep ==
  ASSUME TypeOK, [Next]_vars
  PROVE  TypeOK'
PROOF
  <1> USE LifecycleAssumption DEF TypeOK, FlagTypes, PastTypes, Interfaces, PerInterface, AllOff,
                                  Ages, DUE
  <1>1. CASE Tick
    BY <1>1 DEF Tick, ClockTicks, SeesTick, runFlags, mainVars, handler, adminVars, packet,
       routerVars, agentVars, packetVars, signalPast, pausePast
  <1>2. CASE Boot
    BY <1>2 DEF Boot, MainAt, runFlags, mainVars, handler, adminVars, packet, routerVars,
       agentVars, packetVars, signalPast, pausePast
  <1>3. CASE CreateTimer
    BY <1>3 DEF CreateTimer, MainAt, runFlags, mainVars, handler, adminVars, packet, routerVars,
       agentVars, packetVars, signalPast, pausePast
  <1>4. CASE PauseIncoming
    BY <1>4 DEF PauseIncoming, MainAt, runFlags, mainVars, handler, adminVars, packet,
       routerVars, agentVars, packetVars, signalPast, pausePast
  <1>5. CASE CreateRouter
    BY <1>5 DEF CreateRouter, NextInterface, MainAt, runFlags, mainVars, handler, adminVars,
       packet, routerVars, agentVars, packetVars, signalPast, pausePast
  <1>6. CASE InitializeNIC
    BY <1>6 DEF InitializeNIC, NextInterface, MainAt, runFlags, mainVars, handler, adminVars,
       packet, routerVars, agentVars, packetVars, signalPast, pausePast
  <1>7. CASE CreateAdmin
    BY <1>7 DEF CreateAdmin, MainAt, runFlags, mainVars, handler, adminVars, packet, routerVars,
       agentVars, packetVars, signalPast, pausePast
  <1>8. CASE PushToQueue
    BY <1>8 DEF PushToQueue, TurnOn, NextInterface, MainAt, runFlags, mainVars, handler,
       adminVars, packet, routerVars, agentVars, packetVars, signalPast, pausePast
  <1>9. CASE ResumeIncoming
    BY <1>9 DEF ResumeIncoming, NextInterface, MainAt, runFlags, mainVars, handler, adminVars,
       packet, routerVars, agentVars, packetVars, signalPast, pausePast
  <1>10. CASE LoopTest
    BY <1>10 DEF LoopTest, MainAt, runFlags, mainVars, handler, adminVars, packet, routerVars,
       agentVars, packetVars, signalPast, pausePast
  <1>11. CASE SameDay
    BY <1>11 DEF SameDay, MainAt, runFlags, mainVars, handler, adminVars, packet, routerVars,
       agentVars, packetVars, signalPast, pausePast
  <1>12. CASE DayChanged
    <2>1. PastTypes'
      BY <1>12, Zenon DEF DayChanged, MainAt, runFlags, mainVars, handler, adminVars, packet,
                          routerVars,
         agentVars, packetVars, signalPast, pausePast
    <2>2. QED
      BY <1>12, <2>1 DEF DayChanged, MainAt, runFlags, mainVars, handler, adminVars, packet,
                         routerVars,
         agentVars, packetVars, signalPast, pausePast
  <1>13. CASE DayOff
    BY <1>13 DEF DayOff, NextInterface, MainAt, runFlags, mainVars, handler, adminVars, packet,
       routerVars, agentVars, packetVars, signalPast, pausePast
  <1>14. CASE DayOn
    BY <1>14 DEF DayOn, TurnOn, NextInterface, MainAt, runFlags, mainVars, handler, adminVars,
       packet, routerVars, agentVars, packetVars, signalPast, pausePast
  <1>15. CASE Signal
    BY <1>15 DEF Signal, Started, runFlags, mainVars, handler, adminVars, packet, routerVars,
       agentVars, packetVars, signalPast, pausePast
  <1>16. CASE StopTraffic
    BY <1>16 DEF StopTraffic, Phase, runFlags, mainVars, handler, adminVars, packet, routerVars,
       agentVars, packetVars, signalPast, pausePast
  <1>17. CASE StopStats
    <2>1. FlagTypes'
      BY <1>17, Zenon DEF StopStats, Phase, runFlags, mainVars, handler, adminVars, packet,
                          routerVars,
         agentVars, packetVars, signalPast, pausePast
    <2>2. QED
      BY <1>17, <2>1 DEF StopStats, Phase, runFlags, mainVars, handler, adminVars, packet,
                         routerVars,
         agentVars, packetVars, signalPast, pausePast
  <1>18. CASE StopListeners
    BY <1>18 DEF StopListeners, Phase, runFlags, mainVars, handler, adminVars, packet,
       routerVars, agentVars, packetVars, signalPast, pausePast
  <1>19. CASE StopRouters
    BY <1>19 DEF StopRouters, Phase, runFlags, mainVars, handler, adminVars, packet, routerVars,
       agentVars, packetVars, signalPast, pausePast
  <1>20. CASE StopRest
    <2>1. FlagTypes'
      BY <1>20, Zenon DEF StopRest, runFlags, mainVars, handler, adminVars, packet, routerVars,
         agentVars, packetVars, signalPast, pausePast
    <2>2. QED
      BY <1>20, <2>1 DEF StopRest, runFlags, mainVars, handler, adminVars, packet, routerVars,
         agentVars, packetVars, signalPast, pausePast
  <1>21. CASE AdminTest
    BY <1>21 DEF AdminTest, AdminAt, runFlags, mainVars, handler, adminVars, packet, routerVars,
       agentVars, packetVars, signalPast, pausePast
  <1>22. CASE PauseTraffic
    BY <1>22 DEF PauseTraffic, AdminAt, TurningOn, runFlags, mainVars, handler, adminVars,
       packet, routerVars, agentVars, packetVars, signalPast, pausePast
  <1>23. CASE ResumeTraffic
    <2>1. PastTypes'
      BY <1>23, Zenon DEF ResumeTraffic, AdminAt, runFlags, mainVars, handler, adminVars, packet,
                          routerVars,
         agentVars, packetVars, signalPast, pausePast
    <2>2. QED
      BY <1>23, <2>1 DEF ResumeTraffic, AdminAt, runFlags, mainVars, handler, adminVars, packet,
                         routerVars,
         agentVars, packetVars, signalPast, pausePast
  <1>24. CASE OtherCommand
    BY <1>24 DEF OtherCommand, AdminAt, runFlags, mainVars, handler, adminVars, packet,
       routerVars, agentVars, packetVars, signalPast, pausePast
  <1>25. CASE AdminStore("pause", FALSE)
    BY <1>25 DEF AdminStore, AdminAt, TurningOn, runFlags, mainVars, handler, adminVars, packet,
       routerVars, agentVars, packetVars, signalPast, pausePast
  <1>26. CASE AdminStore("resume", TRUE)
    BY <1>26 DEF AdminStore, AdminAt, TurningOn, runFlags, mainVars, handler, adminVars, packet,
       routerVars, agentVars, packetVars, signalPast, pausePast
  <1>27. CASE Receive
    BY <1>27 DEF Receive, ThreadStep, runFlags, mainVars, handler, adminVars, packet,
       routerVars, agentVars, packetVars, signalPast, pausePast
  <1>28. CASE StorePacket
    BY <1>28 DEF StorePacket, ThreadStep, runFlags, mainVars, handler, adminVars, packet,
       routerVars, agentVars, packetVars, signalPast, pausePast
  <1>29. CASE RouterTest
    BY <1>29 DEF RouterTest, ThreadStep, runFlags, mainVars, handler, adminVars, packet,
       routerVars, agentVars, packetVars, signalPast, pausePast
  <1>30. CASE RouterPoll
    BY <1>30 DEF RouterPoll, ThreadStep, runFlags, mainVars, handler, adminVars, packet,
       routerVars, agentVars, packetVars, signalPast, pausePast
  <1>31. CASE RouterDecode
    BY <1>31 DEF RouterDecode, ThreadStep, runFlags, mainVars, handler, adminVars, packet,
       routerVars, agentVars, packetVars, signalPast, pausePast
  <1>32. CASE AgentTest
    BY <1>32 DEF AgentTest, ThreadStep, runFlags, mainVars, handler, adminVars, packet,
       routerVars, agentVars, packetVars, signalPast, pausePast
  <1>33. CASE AgentPoll
    BY <1>33 DEF AgentPoll, ThreadStep, runFlags, mainVars, handler, adminVars, packet,
       routerVars, agentVars, packetVars, signalPast, pausePast
  <1>34. CASE AgentSend
    BY <1>34 DEF AgentSend, ThreadStep, runFlags, mainVars, handler, adminVars, packet,
       routerVars, agentVars, packetVars, signalPast, pausePast
  <1>35. CASE UNCHANGED vars
    BY <1>35 DEF vars, runFlags, mainVars, handler, adminVars, packet, routerVars, agentVars,
       packetVars, signalPast, pausePast
  <1>36. QED
    BY <1>1, <1>2, <1>3, <1>4, <1>5, <1>6, <1>7, <1>8, <1>9, <1>10, <1>11, <1>12, <1>13, <1>14,
       <1>15, <1>16, <1>17, <1>18, <1>19, <1>20, <1>21, <1>22, <1>23, <1>24, <1>25, <1>26,
       <1>27, <1>28, <1>29, <1>30, <1>31, <1>32, <1>33, <1>34, <1>35
       DEF Next, MainStep, HandlerStep, AdminStep, RouterStep, AgentStep

\* The types hold at first.
LEMMA TypeInit == Init => TypeOK
PROOF
  <1> USE LifecycleAssumption DEF Init, Interfaces, PerInterface, AllOff
  <1>1. Init => FlagTypes
    BY Zenon DEF FlagTypes
  <1>2. Init => PastTypes
    BY Zenon DEF PastTypes
  <1>3. QED
    BY <1>1, <1>2 DEF TypeOK, Ages, DUE

\* The variables keep their types: no loop's counter leaves the interfaces, and no
\* lag its bound, however main, handler, admin and threads interleave.
THEOREM TypeCorrect == Spec => []TypeOK
PROOF
  <1>1. Init => TypeOK
    BY TypeInit
  <1>2. TypeOK /\ [Next]_vars => TypeOK'
    BY TypeStep
  <1>3. QED
    BY <1>1, <1>2, PTL DEF Spec

-----------------------------------------------------------------------------
(* The invariant.                                                           *)

\* Every step keeps what is known of main and of the handler's signal.
LEMMA MainInvStep ==
  ASSUME TypeOK, MainInv, [Next]_vars
  PROVE  MainInv'
PROOF
  <1> USE DEF MainInv, TypeOK, Interfaces
  <1>1. CASE Tick
    BY <1>1 DEF Tick, ClockTicks, SeesTick, runFlags, mainVars, handler, adminVars, packet,
       routerVars, agentVars, packetVars, signalPast, pausePast
  <1>2. CASE Boot
    BY <1>2 DEF Boot, MainAt, runFlags, mainVars, handler, adminVars, packet, routerVars,
       agentVars, packetVars, signalPast, pausePast
  <1>3. CASE CreateTimer
    BY <1>3 DEF CreateTimer, MainAt, runFlags, mainVars, handler, adminVars, packet, routerVars,
       agentVars, packetVars, signalPast, pausePast
  <1>4. CASE PauseIncoming
    BY <1>4 DEF PauseIncoming, MainAt, runFlags, mainVars, handler, adminVars, packet,
       routerVars, agentVars, packetVars, signalPast, pausePast
  <1>5. CASE CreateRouter
    BY <1>5 DEF CreateRouter, NextInterface, MainAt, runFlags, mainVars, handler, adminVars,
       packet, routerVars, agentVars, packetVars, signalPast, pausePast
  <1>6. CASE InitializeNIC
    BY <1>6 DEF InitializeNIC, NextInterface, MainAt, runFlags, mainVars, handler, adminVars,
       packet, routerVars, agentVars, packetVars, signalPast, pausePast
  <1>7. CASE CreateAdmin
    BY <1>7 DEF CreateAdmin, MainAt, runFlags, mainVars, handler, adminVars, packet, routerVars,
       agentVars, packetVars, signalPast, pausePast
  <1>8. CASE PushToQueue
    BY <1>8 DEF PushToQueue, TurnOn, NextInterface, MainAt, runFlags, mainVars, handler,
       adminVars, packet, routerVars, agentVars, packetVars, signalPast, pausePast
  <1>9. CASE ResumeIncoming
    BY <1>9 DEF ResumeIncoming, NextInterface, MainAt, runFlags, mainVars, handler, adminVars,
       packet, routerVars, agentVars, packetVars, signalPast, pausePast
  <1>10. CASE LoopTest
    BY <1>10 DEF LoopTest, MainAt, runFlags, mainVars, handler, adminVars, packet, routerVars,
       agentVars, packetVars, signalPast, pausePast
  <1>11. CASE SameDay
    BY <1>11 DEF SameDay, MainAt, runFlags, mainVars, handler, adminVars, packet, routerVars,
       agentVars, packetVars, signalPast, pausePast
  <1>12. CASE DayChanged
    BY <1>12 DEF DayChanged, MainAt, runFlags, mainVars, handler, adminVars, packet, routerVars,
       agentVars, packetVars, signalPast, pausePast
  <1>13. CASE DayOff
    BY <1>13 DEF DayOff, NextInterface, MainAt, runFlags, mainVars, handler, adminVars, packet,
       routerVars, agentVars, packetVars, signalPast, pausePast
  <1>14. CASE DayOn
    BY <1>14 DEF DayOn, TurnOn, NextInterface, MainAt, runFlags, mainVars, handler, adminVars,
       packet, routerVars, agentVars, packetVars, signalPast, pausePast
  <1>15. CASE Signal
    BY <1>15 DEF Signal, Started, runFlags, mainVars, handler, adminVars, packet, routerVars,
       agentVars, packetVars, signalPast, pausePast
  <1>16. CASE StopTraffic
    BY <1>16 DEF StopTraffic, Phase, runFlags, mainVars, handler, adminVars, packet, routerVars,
       agentVars, packetVars, signalPast, pausePast
  <1>17. CASE StopStats
    BY <1>17 DEF StopStats, Phase, runFlags, mainVars, handler, adminVars, packet, routerVars,
       agentVars, packetVars, signalPast, pausePast
  <1>18. CASE StopListeners
    BY <1>18 DEF StopListeners, Phase, runFlags, mainVars, handler, adminVars, packet,
       routerVars, agentVars, packetVars, signalPast, pausePast
  <1>19. CASE StopRouters
    BY <1>19 DEF StopRouters, Phase, runFlags, mainVars, handler, adminVars, packet, routerVars,
       agentVars, packetVars, signalPast, pausePast
  <1>20. CASE StopRest
    BY <1>20 DEF StopRest, runFlags, mainVars, handler, adminVars, packet, routerVars,
       agentVars, packetVars, signalPast, pausePast
  <1>21. CASE AdminTest
    BY <1>21 DEF AdminTest, AdminAt, runFlags, mainVars, handler, adminVars, packet, routerVars,
       agentVars, packetVars, signalPast, pausePast
  <1>22. CASE PauseTraffic
    BY <1>22 DEF PauseTraffic, AdminAt, TurningOn, runFlags, mainVars, handler, adminVars,
       packet, routerVars, agentVars, packetVars, signalPast, pausePast
  <1>23. CASE ResumeTraffic
    BY <1>23 DEF ResumeTraffic, AdminAt, runFlags, mainVars, handler, adminVars, packet,
       routerVars, agentVars, packetVars, signalPast, pausePast
  <1>24. CASE OtherCommand
    BY <1>24 DEF OtherCommand, AdminAt, runFlags, mainVars, handler, adminVars, packet,
       routerVars, agentVars, packetVars, signalPast, pausePast
  <1>25. CASE AdminStore("pause", FALSE)
    BY <1>25 DEF AdminStore, AdminAt, TurningOn, runFlags, mainVars, handler, adminVars, packet,
       routerVars, agentVars, packetVars, signalPast, pausePast
  <1>26. CASE AdminStore("resume", TRUE)
    BY <1>26 DEF AdminStore, AdminAt, TurningOn, runFlags, mainVars, handler, adminVars, packet,
       routerVars, agentVars, packetVars, signalPast, pausePast
  <1>27. CASE Receive
    BY <1>27 DEF Receive, ThreadStep, runFlags, mainVars, handler, adminVars, packet,
       routerVars, agentVars, packetVars, signalPast, pausePast
  <1>28. CASE StorePacket
    BY <1>28 DEF StorePacket, ThreadStep, runFlags, mainVars, handler, adminVars, packet,
       routerVars, agentVars, packetVars, signalPast, pausePast
  <1>29. CASE RouterTest
    BY <1>29 DEF RouterTest, ThreadStep, runFlags, mainVars, handler, adminVars, packet,
       routerVars, agentVars, packetVars, signalPast, pausePast
  <1>30. CASE RouterPoll
    BY <1>30 DEF RouterPoll, ThreadStep, runFlags, mainVars, handler, adminVars, packet,
       routerVars, agentVars, packetVars, signalPast, pausePast
  <1>31. CASE RouterDecode
    BY <1>31 DEF RouterDecode, ThreadStep, runFlags, mainVars, handler, adminVars, packet,
       routerVars, agentVars, packetVars, signalPast, pausePast
  <1>32. CASE AgentTest
    BY <1>32 DEF AgentTest, ThreadStep, runFlags, mainVars, handler, adminVars, packet,
       routerVars, agentVars, packetVars, signalPast, pausePast
  <1>33. CASE AgentPoll
    BY <1>33 DEF AgentPoll, ThreadStep, runFlags, mainVars, handler, adminVars, packet,
       routerVars, agentVars, packetVars, signalPast, pausePast
  <1>34. CASE AgentSend
    BY <1>34 DEF AgentSend, ThreadStep, runFlags, mainVars, handler, adminVars, packet,
       routerVars, agentVars, packetVars, signalPast, pausePast
  <1>35. CASE UNCHANGED vars
    BY <1>35 DEF vars, runFlags, mainVars, handler, adminVars, packet, routerVars, agentVars,
       packetVars, signalPast, pausePast
  <1>36. QED
    BY <1>1, <1>2, <1>3, <1>4, <1>5, <1>6, <1>7, <1>8, <1>9, <1>10, <1>11, <1>12, <1>13, <1>14,
       <1>15, <1>16, <1>17, <1>18, <1>19, <1>20, <1>21, <1>22, <1>23, <1>24, <1>25, <1>26,
       <1>27, <1>28, <1>29, <1>30, <1>31, <1>32, <1>33, <1>34, <1>35
       DEF Next, MainStep, HandlerStep, AdminStep, RouterStep, AgentStep

\* Every step keeps the agreement of flags, threads and phases, in a program that
\* was not signalled during its start.
LEMMA FlagInvStep ==
  ASSUME TypeOK, MainInv, ~early => FlagInv, [Next]_vars, ~early'
  PROVE  FlagInv'
PROOF
  <1> USE LifecycleAssumption DEF FlagInv, MainInv, Started, Born, Preparing, TypeOK, Interfaces,
                                  PerInterface, AllOff
  <1>1. CASE Tick
    BY <1>1 DEF Tick, ClockTicks, SeesTick, runFlags, mainVars, handler, adminVars, packet,
       routerVars, agentVars, packetVars, signalPast, pausePast
  <1>2. CASE Boot
    BY <1>2 DEF Boot, MainAt, runFlags, mainVars, handler, adminVars, packet, routerVars,
       agentVars, packetVars, signalPast, pausePast
  <1>3. CASE CreateTimer
    BY <1>3 DEF CreateTimer, MainAt, runFlags, mainVars, handler, adminVars, packet, routerVars,
       agentVars, packetVars, signalPast, pausePast
  <1>4. CASE PauseIncoming
    BY <1>4 DEF PauseIncoming, MainAt, runFlags, mainVars, handler, adminVars, packet,
       routerVars, agentVars, packetVars, signalPast, pausePast
  <1>5. CASE CreateRouter
    <2>1. phase = "none" /\ ~early /\ router \in PerInterface /\ agent \in PerInterface
      BY <1>5 DEF CreateRouter, MainAt, FlagTypes, signalPast
    <2>2. CASE infCounter = FOLLOWED
      BY <1>5, <2>1, <2>2 DEF CreateRouter, NextInterface, MainAt, handler, packet, signalPast
    <2>3. CASE infCounter # FOLLOWED
      <3>1. UNCHANGED <<rpc, apc, timer, packetProcessing, phase, place>>
        BY <1>5, <2>3 DEF CreateRouter, handler, packet
      <3>2. router'[FOLLOWED] = router[FOLLOWED] /\ agent'[FOLLOWED] = agent[FOLLOWED]
        BY <1>5, <2>1, <2>3 DEF CreateRouter
      <3>3. Born' => Born
        BY <1>5, <2>3 DEF CreateRouter, NextInterface, MainAt
      <3>4. main' \in {"threads", "nics"} /\ main = "threads"
        BY <1>5 DEF CreateRouter, NextInterface, MainAt
      <3>5. QED
        BY <2>1, <3>1, <3>2, <3>3, <3>4
    <2>4. QED
      BY <2>2, <2>3
  <1>6. CASE InitializeNIC
    BY <1>6 DEF InitializeNIC, NextInterface, MainAt, runFlags, mainVars, handler, adminVars,
       packet, routerVars, agentVars, packetVars, signalPast, pausePast
  <1>7. CASE CreateAdmin
    BY <1>7 DEF CreateAdmin, MainAt, runFlags, mainVars, handler, adminVars, packet, routerVars,
       agentVars, packetVars, signalPast, pausePast
  <1>8. CASE PushToQueue
    BY <1>8 DEF PushToQueue, TurnOn, NextInterface, MainAt, runFlags, mainVars, handler,
       adminVars, packet, routerVars, agentVars, packetVars, signalPast, pausePast
  <1>9. CASE ResumeIncoming
    BY <1>9 DEF ResumeIncoming, NextInterface, MainAt, runFlags, mainVars, handler, adminVars,
       packet, routerVars, agentVars, packetVars, signalPast, pausePast
  <1>10. CASE LoopTest
    BY <1>10 DEF LoopTest, MainAt, runFlags, mainVars, handler, adminVars, packet, routerVars,
       agentVars, packetVars, signalPast, pausePast
  <1>11. CASE SameDay
    BY <1>11 DEF SameDay, MainAt, runFlags, mainVars, handler, adminVars, packet, routerVars,
       agentVars, packetVars, signalPast, pausePast
  <1>12. CASE DayChanged
    BY <1>12 DEF DayChanged, MainAt, runFlags, mainVars, handler, adminVars, packet, routerVars,
       agentVars, packetVars, signalPast, pausePast
  <1>13. CASE DayOff
    BY <1>13 DEF DayOff, NextInterface, MainAt, runFlags, mainVars, handler, adminVars, packet,
       routerVars, agentVars, packetVars, signalPast, pausePast
  <1>14. CASE DayOn
    BY <1>14 DEF DayOn, TurnOn, NextInterface, MainAt, runFlags, mainVars, handler, adminVars,
       packet, routerVars, agentVars, packetVars, signalPast, pausePast
  <1>15. CASE Signal
    BY <1>15 DEF Signal, Started, runFlags, mainVars, handler, adminVars, packet, routerVars,
       agentVars, packetVars, signalPast, pausePast
  <1>16. CASE StopTraffic
    BY <1>16 DEF StopTraffic, Phase, runFlags, mainVars, handler, adminVars, packet, routerVars,
       agentVars, packetVars, signalPast, pausePast
  <1>17. CASE StopStats
    BY <1>17 DEF StopStats, Phase, runFlags, mainVars, handler, adminVars, packet, routerVars,
       agentVars, packetVars, signalPast, pausePast
  <1>18. CASE StopListeners
    BY <1>18 DEF StopListeners, Phase, runFlags, mainVars, handler, adminVars, packet,
       routerVars, agentVars, packetVars, signalPast, pausePast
  <1>19. CASE StopRouters
    BY <1>19 DEF StopRouters, Phase, runFlags, mainVars, handler, adminVars, packet, routerVars,
       agentVars, packetVars, signalPast, pausePast
  <1>20. CASE StopRest
    BY <1>20 DEF StopRest, runFlags, mainVars, handler, adminVars, packet, routerVars,
       agentVars, packetVars, signalPast, pausePast
  <1>21. CASE AdminTest
    BY <1>21 DEF AdminTest, AdminAt, runFlags, mainVars, handler, adminVars, packet, routerVars,
       agentVars, packetVars, signalPast, pausePast
  <1>22. CASE PauseTraffic
    BY <1>22 DEF PauseTraffic, AdminAt, TurningOn, runFlags, mainVars, handler, adminVars,
       packet, routerVars, agentVars, packetVars, signalPast, pausePast
  <1>23. CASE ResumeTraffic
    BY <1>23 DEF ResumeTraffic, AdminAt, runFlags, mainVars, handler, adminVars, packet,
       routerVars, agentVars, packetVars, signalPast, pausePast
  <1>24. CASE OtherCommand
    BY <1>24 DEF OtherCommand, AdminAt, runFlags, mainVars, handler, adminVars, packet,
       routerVars, agentVars, packetVars, signalPast, pausePast
  <1>25. CASE AdminStore("pause", FALSE)
    BY <1>25 DEF AdminStore, AdminAt, TurningOn, runFlags, mainVars, handler, adminVars, packet,
       routerVars, agentVars, packetVars, signalPast, pausePast
  <1>26. CASE AdminStore("resume", TRUE)
    BY <1>26 DEF AdminStore, AdminAt, TurningOn, runFlags, mainVars, handler, adminVars, packet,
       routerVars, agentVars, packetVars, signalPast, pausePast
  <1>27. CASE Receive
    BY <1>27 DEF Receive, ThreadStep, runFlags, mainVars, handler, adminVars, packet,
       routerVars, agentVars, packetVars, signalPast, pausePast
  <1>28. CASE StorePacket
    BY <1>28 DEF StorePacket, ThreadStep, runFlags, mainVars, handler, adminVars, packet,
       routerVars, agentVars, packetVars, signalPast, pausePast
  <1>29. CASE RouterTest
    BY <1>29 DEF RouterTest, ThreadStep, runFlags, mainVars, handler, adminVars, packet,
       routerVars, agentVars, packetVars, signalPast, pausePast
  <1>30. CASE RouterPoll
    BY <1>30 DEF RouterPoll, ThreadStep, runFlags, mainVars, handler, adminVars, packet,
       routerVars, agentVars, packetVars, signalPast, pausePast
  <1>31. CASE RouterDecode
    BY <1>31 DEF RouterDecode, ThreadStep, runFlags, mainVars, handler, adminVars, packet,
       routerVars, agentVars, packetVars, signalPast, pausePast
  <1>32. CASE AgentTest
    BY <1>32 DEF AgentTest, ThreadStep, runFlags, mainVars, handler, adminVars, packet,
       routerVars, agentVars, packetVars, signalPast, pausePast
  <1>33. CASE AgentPoll
    BY <1>33 DEF AgentPoll, ThreadStep, runFlags, mainVars, handler, adminVars, packet,
       routerVars, agentVars, packetVars, signalPast, pausePast
  <1>34. CASE AgentSend
    BY <1>34 DEF AgentSend, ThreadStep, runFlags, mainVars, handler, adminVars, packet,
       routerVars, agentVars, packetVars, signalPast, pausePast
  <1>35. CASE UNCHANGED vars
    BY <1>35 DEF vars, runFlags, mainVars, handler, adminVars, packet, routerVars, agentVars,
       packetVars, signalPast, pausePast
  <1>36. QED
    BY <1>1, <1>2, <1>3, <1>4, <1>5, <1>6, <1>7, <1>8, <1>9, <1>10, <1>11, <1>12, <1>13, <1>14,
       <1>15, <1>16, <1>17, <1>18, <1>19, <1>20, <1>21, <1>22, <1>23, <1>24, <1>25, <1>26,
       <1>27, <1>28, <1>29, <1>30, <1>31, <1>32, <1>33, <1>34, <1>35
       DEF Next, MainStep, HandlerStep, AdminStep, RouterStep, AgentStep

\* What the handler's phase says of the ticks since the traffic was stopped.
LEMMA ElapsedOfPhase ==
  ASSUME TypeOK
  PROVE  /\ Elapsed \in Nat
         /\ phase \in {"none", "traffic"} => Elapsed = 0
         /\ phase = "rest" => Elapsed >= 3 * GRACE
         /\ phase = "over" => Elapsed = 4 * GRACE
PROOF
  BY LifecycleAssumption DEF TypeOK, Elapsed

\* A tick adds one at most, and nothing unless the handler is at work.
LEMMA ElapsedOnTick ==
  ASSUME TypeOK, Tick
  PROVE  /\ Elapsed' <= Elapsed + 1
         /\ phase \in {"none", "over"} => Elapsed' = Elapsed
PROOF
  BY LifecycleAssumption DEF TypeOK, Tick, Elapsed

\* No other step adds anything: a phase begins when the sleep before it is over.
LEMMA ElapsedElse ==
  ASSUME TypeOK, MainInv, Signal \/ HandlerStep \/ UNCHANGED handler
  PROVE  Elapsed' = Elapsed
PROOF
  BY LifecycleAssumption
     DEF TypeOK, MainInv, Elapsed, Signal, HandlerStep, StopTraffic, StopStats, StopListeners,
         StopRouters, StopRest, Phase, handler

\* Every step keeps the bounds, the router and the agent being there to move the
\* packet on for as long as it can be on its way.
LEMMA DrainInvStep ==
  ASSUME TypeOK, TypeOK', MainInv, FlagInv, DrainInv, StopTimely, [Next]_vars, ~early
  PROVE  DrainInv'
PROOF
  <1> USE LifecycleAssumption DEF DrainInv, DUE
  <1>1. Elapsed \in Nat /\ age \in 0 .. 2 /\ routerAge \in 0 .. ROUTER_LAG
        /\ agentAge \in 0 .. AGENT_LAG /\ age' \in 0 .. 2
        /\ routerAge' \in 0 .. ROUTER_LAG /\ agentAge' \in 0 .. AGENT_LAG
    BY ElapsedOfPhase DEF TypeOK, Ages
  <1>2. CASE Tick
    <2>1. CASE ~timer
      <3>1. Elapsed' = Elapsed
        BY <1>2, <2>1, ElapsedOnTick DEF FlagInv, Started
      <3>2. QED
        BY <1>1, <1>2, <2>1, <3>1 DEF Tick
    <2>2. CASE timer
      <3>1. ClockTicks /\ UNCHANGED <<place, rpc, apc>>
        BY <1>2, <2>2 DEF Tick
      <3>2. Elapsed' <= Elapsed + 1 /\ Elapsed' \in Nat
        BY <1>2, ElapsedOnTick, ElapsedOfPhase, TypeOK' DEF TypeOK, Elapsed
      <3>3. phase # "none" => rpc # "unborn" /\ apc # "unborn"
        BY DEF FlagInv, Born, Started
      <3>4. phase = "none" => Elapsed' = 0
        BY <1>2, ElapsedOnTick, ElapsedOfPhase
      <3>5. place = "ring" => rpc # "gone"
        BY <1>1, ElapsedOfPhase DEF FlagInv, StopTimely
      <3>6. place = "lane" => apc # "gone"
        BY <1>1, ElapsedOfPhase DEF FlagInv, StopTimely
      <3>7. CASE phase = "none"
        BY <1>1, <3>1, <3>4, <3>7 DEF ClockTicks, SeesTick
      <3>8. CASE phase # "none"
        BY <1>1, <3>1, <3>2, <3>3, <3>5, <3>6, <3>8 DEF ClockTicks, SeesTick
      <3>9. QED
        BY <3>7, <3>8
    <2>3. QED
      BY <2>1, <2>2 DEF Tick, TypeOK, FlagTypes
  <1>3. CASE Signal \/ HandlerStep
    <2>1. UNCHANGED packetVars /\ Elapsed' = Elapsed
      BY <1>3, ElapsedElse
         DEF Signal, HandlerStep, StopTraffic, StopStats, StopListeners, StopRouters, StopRest,
             Phase
    <2>2. QED
      BY <2>1 DEF packetVars, packet, routerVars, agentVars
  <1>4. CASE MainStep
    <2>1. Elapsed' = Elapsed /\ UNCHANGED packet /\ UNCHANGED <<routerAge, agentAge>>
      BY <1>4, ElapsedElse
         DEF MainStep, Boot, CreateTimer, PauseIncoming, CreateRouter, InitializeNIC, CreateAdmin,
             PushToQueue, ResumeIncoming, LoopTest, SameDay, DayChanged, DayOff, DayOn, TurnOn,
             packetVars, routerVars, agentVars
    <2>2. main = "threads" => place = "outside"
      BY DEF FlagInv, Preparing
    <2>3. main # "threads" => UNCHANGED <<rpc, apc>>
      BY <1>4
         DEF MainStep, Boot, CreateTimer, PauseIncoming, CreateRouter, InitializeNIC, CreateAdmin,
             PushToQueue, ResumeIncoming, LoopTest, SameDay, DayChanged, DayOff, DayOn, TurnOn,
             MainAt, packetVars, routerVars, agentVars
    <2>4. QED
      BY <1>1, <2>1, <2>2, <2>3 DEF packet
  <1>5. CASE AdminStep \/ UNCHANGED vars
    <2>1. UNCHANGED packetVars /\ UNCHANGED handler
      BY <1>5 DEF AdminStep, AdminTest, PauseTraffic, ResumeTraffic, OtherCommand, AdminStore,
                  AdminAt, vars
    <2>2. QED
      BY <2>1, ElapsedElse DEF packetVars, packet, routerVars, agentVars
  <1>6. CASE Receive
    <2>1. phase \in {"none", "traffic"} /\ Elapsed' = Elapsed
      BY <1>6, ElapsedElse DEF Receive, ThreadStep, FlagInv
    <2>2. QED
      BY <1>1, <1>6, <2>1, ElapsedOfPhase DEF Receive
  <1>7. CASE StorePacket
    BY <1>1, <1>7, ElapsedElse DEF StorePacket, ThreadStep, packet, routerVars, agentVars
  <1>8. CASE RouterTest
    BY <1>1, <1>8, ElapsedElse DEF RouterTest, ThreadStep, packet, routerVars, agentVars
  <1>9. CASE RouterPoll
    <2>1. Elapsed' = Elapsed
      BY <1>9, ElapsedElse DEF RouterPoll, ThreadStep
    <2>2. CASE place = "ring" /\ age = DUE
      BY <1>1, <1>9, <2>1, <2>2 DEF RouterPoll, agentVars, routerVars
    <2>3. CASE ~(place = "ring" /\ age = DUE)
      BY <1>1, <1>9, <2>1, <2>3 DEF RouterPoll, packet, agentVars, routerVars
    <2>4. QED
      BY <2>2, <2>3
  <1>10. CASE RouterDecode
    BY <1>1, <1>10, ElapsedElse DEF RouterDecode, ThreadStep, packet, routerVars, agentVars
  <1>11. CASE AgentTest
    BY <1>1, <1>11, ElapsedElse DEF AgentTest, ThreadStep, packet, routerVars, agentVars
  <1>12. CASE AgentPoll
    <2>1. Elapsed' = Elapsed
      BY <1>12, ElapsedElse DEF AgentPoll, ThreadStep
    <2>2. CASE place = "lane" /\ age = DUE
      BY <1>1, <1>12, <2>1, <2>2 DEF AgentPoll, agentVars, routerVars
    <2>3. CASE ~(place = "lane" /\ age = DUE)
      BY <1>1, <1>12, <2>1, <2>3 DEF AgentPoll, packet, agentVars, routerVars
    <2>4. QED
      BY <2>2, <2>3
  <1>13. CASE AgentSend
    BY <1>1, <1>13, ElapsedElse DEF AgentSend, ThreadStep, packet, routerVars, agentVars
  <1>14. QED
    BY <1>2, <1>3, <1>4, <1>5, <1>6, <1>7, <1>8, <1>9, <1>10, <1>11, <1>12, <1>13
       DEF Next, RouterStep, AgentStep

\* The signal comes once, and early is decided then.
LEMMA EarlyIsDecided ==
  ASSUME TypeOK, MainInv, [Next]_vars, ~early'
  PROVE  ~early
PROOF
  BY DEF MainInv, Next, MainStep, HandlerStep, AdminStep, RouterStep, AgentStep, Tick,
         Boot, MainAt, CreateTimer, PauseIncoming, CreateRouter, InitializeNIC, CreateAdmin,
         PushToQueue, TurnOn, ResumeIncoming, LoopTest, SameDay, DayChanged, DayOff, DayOn,
         Signal, StopTraffic, Phase, StopStats, StopListeners, StopRouters, StopRest, AdminTest,
         AdminAt, PauseTraffic, TurningOn, ResumeTraffic, OtherCommand, AdminStore, Receive,
         ThreadStep, StorePacket, RouterTest, RouterPoll, RouterDecode, AgentTest, AgentPoll,
         AgentSend, signalPast, vars

\* The invariant holds at first,
LEMMA InvariantInit == Init => IInv
PROOF
  <1> SUFFICES ASSUME Init PROVE IInv
    OBVIOUS
  <1> USE LifecycleAssumption DEF Init
  <1>1. TypeOK
    BY TypeInit
  <1>2. QED
    BY <1>1, Zenon DEF IInv, MainInv, FlagInv, DrainInv, Born, Preparing, AllOff

\* and every step keeps it.
LEMMA InvariantStep == IInv /\ [Next]_vars => IInv'
PROOF
  <1> SUFFICES ASSUME IInv, [Next]_vars PROVE IInv'
    OBVIOUS
  <1>1. TypeOK' /\ MainInv'
    BY TypeStep, MainInvStep DEF IInv
  <1>2. ~early' => ~early
    BY EarlyIsDecided DEF IInv
  <1>3. ~early' => FlagInv'
    BY <1>2, FlagInvStep DEF IInv
  <1>4. StopTimely /\ ~early' => DrainInv'
    BY <1>1, <1>2, DrainInvStep DEF IInv
  <1>5. StopTimely' = StopTimely
    BY DEF StopTimely
  <1>6. QED
    BY <1>1, <1>3, <1>4, <1>5 DEF IInv

-----------------------------------------------------------------------------
(* A stop leaves nothing behind.                                            *)

\* The invariant: a program that was signalled when it had started moves its packet
\* on within a turn's lag at each place, counted in ticks since the traffic stopped.
THEOREM StopInvariant == Spec => []IInv
PROOF
  BY InvariantInit, InvariantStep, PTL DEF Spec

\* For every length of the sleeps and all lags within StopTimely, a router that has
\* gone leaves no packet in its ring.
THEOREM RoutedBeforeStopCorrect == Spec => []RoutedBeforeStop
PROOF
  <1>1. IInv => RoutedBeforeStop
    <2> SUFFICES ASSUME IInv, StopTimely, rpc = "gone", ~early
                 PROVE  place \notin {"callback", "ring", "router"}
      BY DEF RoutedBeforeStop
    <2>1. Elapsed >= 3 * GRACE
      BY LifecycleAssumption, ElapsedOfPhase DEF IInv, FlagInv
    <2>2. QED
      BY <2>1, LifecycleAssumption, ElapsedOfPhase
         DEF IInv, DrainInv, TypeOK, StopTimely, Ages, DUE
  <1>2. QED
    BY <1>1, StopInvariant, PTL

\* And when the program exits, the packet is decoded and its message sent.
THEOREM SentBeforeExitCorrect == Spec => []SentBeforeExit
PROOF
  <1>1. IInv => SentBeforeExit
    <2> SUFFICES ASSUME IInv, StopTimely, main = "gone", ~early
                 PROVE  place \in {"outside", "done"}
      BY DEF SentBeforeExit
    <2>1. Elapsed = 4 * GRACE
      BY ElapsedOfPhase DEF IInv, MainInv
    <2>2. QED
      BY <2>1, LifecycleAssumption, ElapsedOfPhase
         DEF IInv, DrainInv, TypeOK, StopTimely, Ages, DUE
  <1>2. QED
    BY <1>1, StopInvariant, PTL

-----------------------------------------------------------------------------
(* Pausing and the day's change.                                            *)

\* A store to PUSH_TO_QUEUE adds its interface to those that push, or takes it out.
LEMMA PushStore ==
  ASSUME pushToQueue \in PerInterface, NEW c \in Interfaces, NEW value \in BOOLEAN,
         pushToQueue' = [pushToQueue EXCEPT ![c] = value]
  PROVE  Pushing' = IF value THEN Pushing \cup {c} ELSE Pushing \ {c}
PROOF
  <1>1. pushToQueue'[c] = value /\ \A i \in Interfaces \ {c} : pushToQueue'[i] = pushToQueue[i]
    BY DEF PerInterface
  <1>2. Interfaces' = Interfaces
    BY DEF Interfaces
  <1>3. CASE value
    BY <1>1, <1>2, <1>3, Zenon DEF Pushing
  <1>4. CASE ~value
    BY <1>1, <1>2, <1>4, Zenon DEF Pushing
  <1>5. QED
    BY <1>3, <1>4

\* A store of main's loop that turns pushing on keeps PushInv.
LEMMA TurnOnKeeps ==
  ASSUME TypeOK, PushInv, NEW from, NEW next, TurnOn(from, next),
         \/ from = "push" /\ next = "traffic"
         \/ from = "dayOn" /\ next = "run"
  PROVE  PushInv'
PROOF
  <1>1. /\ pushToQueue \in PerInterface /\ infCounter \in Interfaces /\ adminCounter \in Interfaces
        /\ paused \in BOOLEAN /\ met \in BOOLEAN
    BY DEF TypeOK, FlagTypes, PastTypes
  <1>2. Pushing' = Pushing \cup {infCounter}
    BY <1>1, PushStore DEF TurnOn
  <1>3. /\ ~met' => ~met /\ admin # "pause"
        /\ paused' <=> paused
    BY Zenon DEF TurnOn
  <1>4. admin = "resume" => ~met'
    BY <1>1 DEF TurnOn, PushInv
  <1>5. main = from /\ admin' = admin /\ adminCounter' = adminCounter
    BY DEF TurnOn, MainAt, adminVars
  <1>6. \/ infCounter < NO_OF_INTERFACES /\ infCounter' = infCounter + 1 /\ main' = main
        \/ infCounter >= NO_OF_INTERFACES /\ infCounter' = 1 /\ main' = next
    BY LifecycleAssumption, <1>1 DEF TurnOn, NextInterface, Interfaces
  <1>7. TurningOn /\ Pushing \subseteq Interfaces
    BY <1>5 DEF TurningOn, Pushing
  <1>8. ASSUME ~met', main' = next, admin \notin {"pause", "resume"}
        PROVE  Pushing' = Interfaces
    <2>1. infCounter = NO_OF_INTERFACES
      BY LifecycleAssumption, <1>1, <1>5, <1>6, <1>8 DEF Interfaces
    <2>2. \A i \in Interfaces : i < infCounter => i \in Pushing
      BY <1>3, <1>7, <1>8 DEF PushInv
    <2>3. \A i \in Interfaces : i = infCounter \/ i < infCounter
      BY LifecycleAssumption, <2>1 DEF Interfaces
    <2>4. QED
      BY <1>1, <1>2, <1>7, <2>2, <2>3, Zenon
  <1>9. Interfaces' = Interfaces
    BY DEF Interfaces
  <1>10. QED
    BY LifecycleAssumption, <1>1, <1>2, <1>3, <1>4, <1>5, <1>6, <1>7, <1>8, <1>9
       DEF PushInv, TurningOn, Calm, Interfaces

\* A store of main's first loop of the day's change keeps PushInv.
LEMMA DayOffKeeps ==
  ASSUME TypeOK, PushInv, DayOff
  PROVE  PushInv'
PROOF
  <1>1. /\ pushToQueue \in PerInterface /\ infCounter \in Interfaces /\ adminCounter \in Interfaces
        /\ paused \in BOOLEAN /\ met \in BOOLEAN
    BY DEF TypeOK, FlagTypes, PastTypes
  <1>2. Pushing' = Pushing \ {infCounter}
    BY <1>1, PushStore DEF DayOff
  <1>3. (met' <=> met) /\ (paused' <=> paused)
    BY Zenon DEF DayOff, pausePast
  <1>4. main = "dayOff" /\ admin' = admin /\ adminCounter' = adminCounter
    BY DEF DayOff, MainAt, adminVars
  <1>5. \/ infCounter < NO_OF_INTERFACES /\ infCounter' = infCounter + 1 /\ main' = main
        \/ infCounter >= NO_OF_INTERFACES /\ infCounter' = 1 /\ main' = "dayOn"
    BY LifecycleAssumption, <1>1 DEF DayOff, NextInterface, Interfaces
  <1>6. QED
    BY LifecycleAssumption, <1>1, <1>2, <1>3, <1>4, <1>5
       DEF PushInv, TurningOn, Calm, Interfaces

\* A store of the loop of a PAUSE keeps PushInv.
LEMMA PauseKeeps ==
  ASSUME TypeOK, PushInv, AdminStore("pause", FALSE)
  PROVE  PushInv'
PROOF
  <1>1. /\ pushToQueue \in PerInterface /\ infCounter \in Interfaces /\ adminCounter \in Interfaces
        /\ paused \in BOOLEAN /\ met \in BOOLEAN
    BY DEF TypeOK, FlagTypes, PastTypes
  <1>2. Pushing' = Pushing \ {adminCounter}
    BY <1>1, PushStore DEF AdminStore
  <1>3. (~met' => ~met /\ ~TurningOn) /\ (paused' <=> paused)
    BY Zenon DEF AdminStore
  <1>4. admin = "pause" /\ main' = main /\ infCounter' = infCounter
    BY DEF AdminStore, AdminAt, mainVars
  <1>5. \/ adminCounter < NO_OF_INTERFACES /\ adminCounter' = adminCounter + 1 /\ admin' = admin
        \/ adminCounter >= NO_OF_INTERFACES /\ adminCounter' = 1 /\ admin' = "test"
    BY LifecycleAssumption, <1>1 DEF AdminStore, Interfaces
  <1>6. Pushing \subseteq Interfaces /\ (TurningOn' <=> TurningOn)
    BY <1>4 DEF TurningOn, Pushing
  <1>7. QED
    BY LifecycleAssumption, <1>1, <1>2, <1>3, <1>4, <1>5, <1>6
       DEF PushInv, TurningOn, Calm, Interfaces

\* A store of the loop of a RESUME keeps PushInv.
LEMMA ResumeKeeps ==
  ASSUME TypeOK, PushInv, AdminStore("resume", TRUE)
  PROVE  PushInv'
PROOF
  <1>1. /\ pushToQueue \in PerInterface /\ infCounter \in Interfaces /\ adminCounter \in Interfaces
        /\ paused \in BOOLEAN /\ met \in BOOLEAN
    BY DEF TypeOK, FlagTypes, PastTypes
  <1>2. Pushing' = Pushing \cup {adminCounter}
    BY <1>1, PushStore DEF AdminStore
  <1>3. (met' <=> met) /\ (paused' <=> paused)
    BY Zenon DEF AdminStore
  <1>4. admin = "resume" /\ main' = main /\ infCounter' = infCounter
    BY DEF AdminStore, AdminAt, mainVars
  <1>5. \/ adminCounter < NO_OF_INTERFACES /\ adminCounter' = adminCounter + 1 /\ admin' = admin
        \/ adminCounter >= NO_OF_INTERFACES /\ adminCounter' = 1 /\ admin' = "test"
    BY LifecycleAssumption, <1>1 DEF AdminStore, Interfaces
  <1>6. Pushing \subseteq Interfaces /\ (TurningOn' <=> TurningOn)
    BY <1>4 DEF TurningOn, Pushing
  <1>7. ASSUME ~met, Calm, admin' = "test"
        PROVE  Pushing' = Interfaces
    <2>1. adminCounter = NO_OF_INTERFACES
      BY LifecycleAssumption, <1>1, <1>4, <1>5, <1>7 DEF Interfaces
    <2>2. \A i \in Interfaces : i < adminCounter => i \in Pushing
      BY <1>4, <1>7 DEF PushInv
    <2>3. \A i \in Interfaces : i = adminCounter \/ i < adminCounter
      BY LifecycleAssumption, <2>1 DEF Interfaces
    <2>4. QED
      BY <1>1, <1>2, <1>6, <2>2, <2>3, Zenon
  <1>8. Interfaces' = Interfaces
    BY DEF Interfaces
  <1>9. QED
    BY LifecycleAssumption, <1>1, <1>2, <1>3, <1>4, <1>5, <1>6, <1>7, <1>8
       DEF PushInv, TurningOn, Calm, Interfaces

\* A step of main that leaves PUSH_TO_QUEUE alone keeps PushInv.
LEMMA MainMoveKeeps ==
  ASSUME TypeOK, PushInv,
         \/ Boot \/ CreateTimer \/ PauseIncoming \/ CreateRouter \/ InitializeNIC
         \/ CreateAdmin \/ ResumeIncoming \/ LoopTest \/ SameDay \/ DayChanged
  PROVE  PushInv'
PROOF
  <1>1. /\ infCounter \in Interfaces /\ adminCounter \in Interfaces
        /\ paused \in BOOLEAN /\ met \in BOOLEAN
    BY DEF TypeOK, FlagTypes, PastTypes
  <1>2. Pushing' = Pushing /\ adminCounter' = adminCounter
    BY DEF Pushing, Interfaces, Boot, CreateTimer, PauseIncoming, CreateRouter, InitializeNIC,
           CreateAdmin, ResumeIncoming, LoopTest, SameDay, DayChanged, adminVars
  <1>3. paused' <=> paused
    BY DEF Boot, CreateTimer, PauseIncoming, CreateRouter, InitializeNIC,
           CreateAdmin, ResumeIncoming, LoopTest, SameDay, DayChanged, pausePast
  <1>4. CASE Boot \/ CreateTimer \/ PauseIncoming \/ LoopTest \/ SameDay
    <2>1. /\ infCounter' = infCounter /\ admin' = admin /\ (met' <=> met)
          /\ \/ main \in {"boot", "clock", "pause"} /\ main' \in {"clock", "pause", "threads"}
             \/ main \in {"run", "body"} /\ main' \in {"run", "body", "gone"}
      BY <1>4 DEF Boot, CreateTimer, PauseIncoming, LoopTest, SameDay, MainAt, adminVars, pausePast
    <2>2. QED
      BY <1>1, <1>2, <1>3, <2>1 DEF PushInv, TurningOn, Calm
  <1>5. CASE CreateRouter \/ InitializeNIC \/ ResumeIncoming
    <2>1. /\ admin' = admin /\ (met' <=> met)
          /\ \/ infCounter' = infCounter + 1 /\ main' = main
             \/ infCounter' = 1
          /\ \/ main = "threads" /\ main' \in {"threads", "nics"}
             \/ main = "nics" /\ main' \in {"nics", "admin"}
             \/ main = "traffic" /\ main' \in {"traffic", "run"}
      BY <1>5 DEF CreateRouter, InitializeNIC, ResumeIncoming, NextInterface, MainAt, adminVars,
                  pausePast
    <2>2. QED
      BY <1>1, <1>2, <1>3, <2>1 DEF PushInv, TurningOn, Calm
  <1>6. CASE CreateAdmin
    <2>1. /\ infCounter' = infCounter /\ admin' = "test" /\ (met' <=> met)
          /\ main = "admin" /\ main' = "push"
      BY <1>6 DEF CreateAdmin, MainAt, pausePast
    <2>2. QED
      BY <1>1, <1>2, <1>3, <2>1 DEF PushInv, TurningOn, Calm, Interfaces
  <1>7. CASE DayChanged
    <2>1. /\ infCounter' = infCounter /\ admin' = admin
          /\ main = "body" /\ main' = "dayOff"
      BY <1>7 DEF DayChanged, MainAt, adminVars
    <2>2. ~met'
      BY <1>7, Zenon DEF DayChanged
    <2>3. QED
      BY <1>1, <1>2, <1>3, <2>1, <2>2 DEF PushInv, TurningOn, Calm
  <1>8. QED
    BY <1>4, <1>5, <1>6, <1>7

\* A step of the admin thread that leaves PUSH_TO_QUEUE alone keeps PushInv.
LEMMA AdminMoveKeeps ==
  ASSUME TypeOK, PushInv, AdminTest \/ PauseTraffic \/ ResumeTraffic \/ OtherCommand
  PROVE  PushInv'
PROOF
  <1>1. /\ infCounter \in Interfaces /\ adminCounter \in Interfaces
        /\ paused \in BOOLEAN /\ met \in BOOLEAN
    BY DEF TypeOK, FlagTypes, PastTypes
  <1>2. /\ Pushing' = Pushing /\ adminCounter' = adminCounter
        /\ main' = main /\ infCounter' = infCounter
    BY DEF Pushing, Interfaces, AdminTest, PauseTraffic, ResumeTraffic, OtherCommand, AdminAt,
           mainVars
  <1>3. CASE AdminTest \/ OtherCommand
    <2>1. /\ (met' <=> met) /\ (paused' <=> paused)
          /\ admin \in {"test", "receive"} /\ admin' \in {"test", "receive", "gone"}
      BY <1>3 DEF AdminTest, OtherCommand, AdminAt, pausePast
    <2>2. QED
      BY <1>1, <1>2, <2>1 DEF PushInv, TurningOn, Calm
  <1>4. CASE PauseTraffic
    <2>1. paused' /\ (~met' => ~TurningOn)
      BY <1>4, Zenon DEF PauseTraffic
    <2>2. admin = "receive" /\ admin' = "pause"
      BY <1>4 DEF PauseTraffic, AdminAt
    <2>3. QED
      BY <1>1, <1>2, <2>1, <2>2 DEF PushInv, TurningOn, Calm, Interfaces
  <1>5. CASE ResumeTraffic
    <2>1. ~paused' /\ ~met'
      BY <1>5, Zenon DEF ResumeTraffic
    <2>2. admin = "receive" /\ admin' = "resume"
      BY <1>5 DEF ResumeTraffic, AdminAt
    <2>3. QED
      BY <1>1, <1>2, <2>1, <2>2 DEF PushInv, TurningOn, Calm, Interfaces
  <1>6. QED
    BY <1>3, <1>4, <1>5

\* Every step keeps PushInv, the loops of main and of the admin thread taking turns
\* as they may.
LEMMA PushInvStep ==
  ASSUME TypeOK, PushInv, [Next]_vars
  PROVE  PushInv'
PROOF
  <1>1. CASE UNCHANGED <<mainVars, adminVars, pushToQueue, pausePast>>
    BY <1>1 DEF PushInv, Pushing, Interfaces, TurningOn, Calm, mainVars, adminVars, pausePast
  <1>2. CASE MainStep
    BY <1>2, MainMoveKeeps, TurnOnKeeps, DayOffKeeps DEF MainStep, PushToQueue, DayOn
  <1>3. CASE AdminStep
    BY <1>3, AdminMoveKeeps, PauseKeeps, ResumeKeeps DEF AdminStep
  <1>4. CASE Tick \/ Signal \/ HandlerStep \/ UNCHANGED vars
    BY <1>1, <1>4 DEF Tick, Signal, HandlerStep, StopTraffic, StopStats, StopListeners, StopRouters,
                      StopRest, Phase, vars
  <1>5. CASE Receive \/ StorePacket \/ RouterStep \/ AgentStep
    BY <1>1, <1>5 DEF Receive, StorePacket, RouterStep, AgentStep, RouterTest, RouterPoll,
                      RouterDecode, AgentTest, AgentPoll, AgentSend, ThreadStep
  <1>6. QED
    BY <1>2, <1>3, <1>4, <1>5 DEF Next

\* With main and the admin thread at rest, all interfaces push or none does, unless
\* a PAUSE met a loop that turns pushing on: for any number of interfaces.
THEOREM AllPushOrNoneCorrect == Spec => []AllPushOrNone
PROOF
  <1>1. Init => PushInv
    BY LifecycleAssumption DEF Init, PushInv, Calm, TurningOn, AllOff, Interfaces
  <1>2. TypeOK /\ PushInv /\ [Next]_vars => PushInv'
    BY PushInvStep
  <1>3. TypeOK /\ PushInv => AllPushOrNone
    <2> SUFFICES ASSUME TypeOK, PushInv, AtRest, ~met
                 PROVE  \A i, j \in Interfaces : pushToQueue[i] = pushToQueue[j]
      BY DEF AllPushOrNone
    <2>1. \A i \in Interfaces : pushToQueue[i] \in BOOLEAN
      BY DEF TypeOK, FlagTypes, PerInterface
    <2>2. Pushing = {} \/ Pushing = Interfaces
      BY DEF PushInv, AtRest, Calm
    <2>3. QED
      BY <2>1, <2>2, Zenon DEF Pushing
  <1>4. QED
    BY <1>1, <1>2, <1>3, TypeCorrect, PTL DEF Spec

\* Only an operator's PAUSE leaves an interface without pushing.
THEOREM PausedByOperatorCorrect == Spec => []PausedByOperator
PROOF
  <1>1. Init => PushInv
    BY LifecycleAssumption DEF Init, PushInv, Calm, TurningOn, AllOff, Interfaces
  <1>2. TypeOK /\ PushInv /\ [Next]_vars => PushInv'
    BY PushInvStep
  <1>3. PushInv => PausedByOperator
    <2> SUFFICES ASSUME PushInv, AtRest, NEW i \in Interfaces, ~pushToQueue[i]
                 PROVE  paused
      BY DEF PausedByOperator
    <2>1. i \notin Pushing
      BY DEF Pushing
    <2>2. QED
      BY <2>1 DEF PushInv, AtRest, TurningOn
  <1>4. QED
    BY <1>1, <1>2, <1>3, TypeCorrect, PTL DEF Spec
-----------------------------------------------------------------------------
(* The settings.  The sorts of the keys, and the flags some wait for.       *)

\* A key is of one sort.
LEMMA SortsApart ==
  ASSUME NEW key \in AllKeys
  PROVE  /\ key \in Flags   => key \notin Scalars /\ key \notin Arrays /\ key \notin Tables
         /\ key \in Flags   => key \notin Vectors
         /\ key \in Scalars => key \notin Arrays /\ key \notin Tables /\ key \notin Vectors
         /\ key \in Arrays  => key \notin Tables /\ key \notin Vectors
         /\ key \in Tables  => key \notin Vectors
         /\ \/ key \in Flags \/ key \in Scalars \/ key \in Arrays \/ key \in Tables
            \/ key \in Vectors
<1>1. key \in Flags => key \notin Scalars
  BY DEF Flags, Scalars, PeeringFlags
<1>2. key \in Flags => key \notin Arrays
  BY DEF Flags, Arrays, PeeringFlags
<1>3. key \in Flags => key \notin Tables /\ key \notin Vectors
  BY DEF Flags, Tables, Vectors, PeeringFlags, PeeringTables
<1>4. key \in Scalars => key \notin Arrays
  BY DEF Scalars, Arrays
<1>5. key \in Scalars => key \notin Tables /\ key \notin Vectors
  BY DEF Scalars, Tables, Vectors, PeeringTables
<1>6. key \in Arrays => key \notin Tables /\ key \notin Vectors
  BY DEF Arrays, Tables, Vectors, PeeringTables
<1>7. key \in Tables => key \notin Vectors
  BY DEF Tables, Vectors, PeeringTables
<1> QED
  BY <1>1, <1>2, <1>3, <1>4, <1>5, <1>6, <1>7 DEF AllKeys

\* A key waits for one of three flags, which are followed and wait for none; arrays and
\* vectors but the CDN's ranges wait for nothing.
LEMMA GateFlags ==
  ASSUME NEW key \in KEYS
  PROVE  /\ Gate(key).is \in BOOLEAN
         /\ Gated(key) => /\ Gate(key).flag \in KEYS /\ Gate(key).flag \in Flags
                          /\ ~Gated(Gate(key).flag)
         /\ key \in Arrays => ~Gated(key)
<1>1. Gate(key) \in {[flag |-> "USER_IPV4_DIR_STATUS", is |-> FALSE],
                     [flag |-> "PROCESS_CDN", is |-> TRUE],
                     [flag |-> "PROCESS_PEERING", is |-> TRUE], [flag |-> "none", is |-> FALSE]}
  BY DEF Gate
<1>2. PICK flag \in {"USER_IPV4_DIR_STATUS", "PROCESS_CDN", "PROCESS_PEERING", "none"},
           is \in BOOLEAN : Gate(key) = [flag |-> flag, is |-> is]
  BY <1>1
<1>3. Gated(key) => Gate(key).flag \in {"USER_IPV4_DIR_STATUS", "PROCESS_CDN", "PROCESS_PEERING"}
  BY <1>2 DEF Gated
<1>4. \A name \in {"USER_IPV4_DIR_STATUS", "PROCESS_CDN", "PROCESS_PEERING"} :
        name \in KEYS /\ name \in Flags
  BY ConfigAssumption DEF Flags
<1>5. \A name \in {"USER_IPV4_DIR_STATUS", "PROCESS_CDN", "PROCESS_PEERING"} : ~Gated(name)
  BY DEF Gated, Gate, PeeringFlags, PeeringTables
<1>6. key \in Arrays => ~Gated(key)
  BY DEF Gated, Gate, PeeringFlags, PeeringTables, Arrays
<1> QED
  BY <1>2, <1>3, <1>4, <1>5, <1>6

-----------------------------------------------------------------------------
(* Words and values.                                                        *)

\* What the commas of a word separate, those of the initial values among it; a word.
Text == STRING \cup {"false", "2", "3", "23", "59", "30", "100", ToString(FREQ_MIN)}
Word == Seq(Text)

\* The initial values are words.
LEMMA DefaultIsWord ==
  ASSUME NEW key \in KEYS
  PROVE  /\ Default(key) \in Word
         /\ key \in Flags => Default(key) = <<"false">>
         /\ key \in Vectors => Default(key) = <<>>
<1>1. key \in Flags => Default(key) = <<"false">>
  BY DEF Default, Flags, PeeringFlags
<1>2. key \in Vectors => Default(key) = <<>>
  BY DEF Default, Flags, PeeringFlags, Vectors
<1>3. \/ Default(key) \in {<<"false">>, <<ToString(FREQ_MIN)>>, <<"2">>, <<"3">>, <<>>,
                          <<"23">>, <<"59">>, <<"30">>}
      \/ Default(key) = [i \in 1 .. MAX_INTERFACE_SUPPORT |-> "100"]
  BY DEF Default
<1>4. \A text \in Text : <<text>> \in Word
  BY DEF Word
<1>5. <<>> \in Word
  BY DEF Word
<1>6. {"false", "2", "3", "23", "59", "30", "100"} \subseteq Text
  BY DEF Text
<1>7. ToString(FREQ_MIN) \in Text
  BY DEF Text
<1>8. [i \in 1 .. MAX_INTERFACE_SUPPORT |-> "100"] \in Word
  BY <1>6, ConfigAssumption DEF Word
<1> QED
  BY <1>1, <1>2, <1>3, <1>4, <1>5, <1>6, <1>7, <1>8

\* What is stored of a value, by the sort of its key.
LEMMA StoredBySort ==
  ASSUME NEW key \in AllKeys, NEW old, NEW value
  PROVE  /\ key \in Flags => Stored(key, old, value) = IF value = <<"true">> THEN value
                                                       ELSE <<"false">>
         /\ key \in Scalars \cup Tables => Stored(key, old, value) = value
         /\ key \in Arrays =>
              Stored(key, old, value) = value \o SubSeq(old, Len(value) + 1, Len(old))
         /\ key \in Vectors => Stored(key, old, value) = old \o value
  BY SortsApart DEF Stored

\* A word and what of another one is beyond its length.
Over(old, value) == value \o SubSeq(old, Len(value) + 1, Len(old))

\* Their lengths and entries.
LEMMA Overlay ==
  ASSUME NEW old \in Word, NEW value \in Word
  PROVE  /\ Over(old, value) \in Word
         /\ DOMAIN Over(old, value) = DOMAIN old \cup DOMAIN value
         /\ \A i \in DOMAIN value : Over(old, value)[i] = value[i]
         /\ \A i \in DOMAIN old \ DOMAIN value : Over(old, value)[i] = old[i]
<1>0. PICK new : new = Over(old, value)
  OBVIOUS
<1>1. PICK m \in Nat, n \in Nat : m = Len(old) /\ n = Len(value)
  BY LenProperties DEF Word
<1>2. DOMAIN old = 1 .. m /\ DOMAIN value = 1 .. n
  BY <1>1, LenProperties DEF Word
<1>3. PICK rest \in Word : rest = SubSeq(old, n + 1, m)
  <2>1. \A i \in n + 1 .. m : old[i] \in Text
    BY <1>1, ElementOfSeq DEF Word
  <2>2. SubSeq(old, n + 1, m) \in Word
    BY <2>1, SubSeqProperties DEF Word
  <2> QED
    BY <2>2
<1>4. PICK r \in Nat : /\ r = Len(rest) /\ r = IF n < m THEN m - n ELSE 0
                       /\ \A j \in 1 .. r : rest[j] = old[n + j]
  <2>1. \A i \in n + 1 .. m : old[i] \in Text
    BY <1>1, ElementOfSeq DEF Word
  <2>2. /\ Len(rest) = IF n + 1 <= m THEN m - (n + 1) + 1 ELSE 0
        /\ \A i \in 1 .. m - (n + 1) + 1 : rest[i] = old[n + 1 + i - 1]
    BY <1>3, <2>1, SubSeqProperties
  <2>3. PICK r \in Nat : r = Len(rest)
    BY LenProperties DEF Word
  <2>4. r = IF n < m THEN m - n ELSE 0
    BY <2>2, <2>3
  <2>5. ASSUME NEW j \in 1 .. r PROVE rest[j] = old[n + j]
    <3>1. j \in 1 .. m - (n + 1) + 1 /\ n + 1 + j - 1 = n + j
      BY <2>4
    <3> QED
      BY <2>2, <3>1
  <2> QED
    BY <2>3, <2>4, <2>5
<1>5. new = value \o rest
  BY <1>0, <1>1, <1>3 DEF Over
<1>6. /\ new \in Word /\ Len(new) = n + r
      /\ \A i \in 1 .. n + r : new[i] = IF i <= n THEN value[i] ELSE rest[i - n]
  <2>1. /\ value \o rest \in Word /\ Len(value \o rest) = Len(value) + Len(rest)
        /\ \A i \in 1 .. Len(value) + Len(rest) :
             (value \o rest)[i] = IF i <= Len(value) THEN value[i] ELSE rest[i - Len(value)]
    BY ConcatProperties, Zenon DEF Word
  <2> QED
    BY <1>1, <1>4, <1>5, <2>1
<1>7. DOMAIN new = 1 .. n + r
  BY <1>6, LenProperties DEF Word
<1>8. 1 .. n + r = 1 .. m \cup 1 .. n
  BY <1>4
<1>9. \A i \in 1 .. n : new[i] = value[i]
  BY <1>4, <1>6
<1>10. ASSUME NEW i \in 1 .. m, i \notin 1 .. n PROVE new[i] = old[i]
  <2>1. PICK j \in 1 .. r : i = n + j /\ i \in 1 .. n + r
    <3>1. i - n \in 1 .. r /\ i = n + (i - n) /\ i \in 1 .. n + r
      BY <1>4, <1>10
    <3> QED
      BY <3>1
  <2>2. new[i] = rest[i - n] /\ i - n = j
    BY <1>6, <2>1
  <2> QED
    BY <1>4, <2>1, <2>2
<1> QED
  BY <1>0, <1>2, <1>6, <1>7, <1>8, <1>9, <1>10

\* An array's entry is the value's, or where it has none the one there was.
Overlaid(new, old, value) ==
  /\ DOMAIN new = DOMAIN old \cup DOMAIN value
  /\ \A i \in DOMAIN value : new[i] = value[i]
  /\ \A i \in DOMAIN old \ DOMAIN value : new[i] = old[i]

LEMMA StoredArray ==
  ASSUME NEW key \in Arrays, NEW old \in Word, NEW value \in Word
  PROVE  Stored(key, old, value) \in Word /\ Overlaid(Stored(key, old, value), old, value)
<1>1. Stored(key, old, value) = Over(old, value)
  BY StoredBySort DEF AllKeys, Over
<1>2. /\ Over(old, value) \in Word
      /\ DOMAIN Over(old, value) = DOMAIN old \cup DOMAIN value
      /\ \A i \in DOMAIN value : Over(old, value)[i] = value[i]
      /\ \A i \in DOMAIN old \ DOMAIN value : Over(old, value)[i] = old[i]
  BY Overlay
<1> QED
  BY <1>1, <1>2, Zenon DEF Overlaid

\* What is stored of a word is a word.
LEMMA StoredIsWord ==
  ASSUME NEW key \in AllKeys, NEW old \in Word, NEW value \in Word
  PROVE  Stored(key, old, value) \in Word
<1>1. <<"false">> \in Word
  BY DEF Word, Text
<1>2. old \o value \in Word
  BY ConcatProperties DEF Word
<1>3. \/ Stored(key, old, value) \in {value, <<"false">>, old \o value}
      \/ key \in Arrays
  BY StoredBySort DEF AllKeys
<1> QED
  BY <1>1, <1>2, <1>3, StoredArray

-----------------------------------------------------------------------------
(* What one more line of a key makes of its value.                          *)

\* A line behind some others.
Behind(lines, n) == \A m \in lines : m < n

\* The greatest of some lines and one after them is that one.
LEMMA LastIsMax ==
  ASSUME NEW lines \in SUBSET Nat, NEW n \in Nat, Behind(lines, n)
  PROVE  Max(lines \cup {n}) = n
<1>1. n \in lines \cup {n} /\ \A m \in lines \cup {n} : n >= m
  BY DEF Behind
<1>2. \A x \in lines \cup {n} : (\A m \in lines \cup {n} : x >= m) => x = n
  BY DEF Behind
<1> QED
  BY <1>1, <1>2 DEF Max

\* Without a line a key has its initial value.
LEMMA AfterNothing ==
  ASSUME NEW key \in AllKeys, key \notin Arrays, NEW file
  PROVE  ValueAfter(file, key, {}) = Default(key)
  BY SortsApart DEF ValueAfter

\* With one it has the last line's, by its sort.
LEMMA AfterScalars ==
  ASSUME NEW key \in AllKeys, NEW file, NEW lines, lines # {}
  PROVE  /\ key \in Flags =>
              ValueAfter(file, key, lines) =
                IF ValueOf(file, Max(lines)) = <<"true">> THEN ValueOf(file, Max(lines))
                ELSE <<"false">>
         /\ key \in Scalars \cup Tables =>
              ValueAfter(file, key, lines) = ValueOf(file, Max(lines))
  BY SortsApart DEF ValueAfter

\* An array is the last line's entry by entry.
LEMMA AfterArrays ==
  ASSUME NEW key \in Arrays, NEW file, NEW lines
  PROVE  ValueAfter(file, key, lines) = ArrayAfter(file, key, lines)
<1>1. key \in AllKeys
  BY DEF AllKeys
<1> QED
  BY <1>1, SortsApart DEF ValueAfter

\* A line more of what is no list: its value.
LEMMA ScalarGrows ==
  ASSUME NEW key \in AllKeys, key \notin Arrays, key \notin Vectors, NEW file, NEW old,
         NEW lines \in SUBSET Nat, NEW n \in Nat, Behind(lines, n)
  PROVE  ValueAfter(file, key, lines \cup {n}) = Stored(key, old, ValueOf(file, n))
<1>1. Max(lines \cup {n}) = n /\ lines \cup {n} # {}
  BY LastIsMax
<1>2. key \in Flags \/ key \in Scalars \cup Tables
  BY SortsApart
<1>3. PICK value, all : value = ValueOf(file, n) /\ all = lines \cup {n}
  OBVIOUS
<1>4. Max(all) = n /\ all # {}
  BY <1>1, <1>3
<1>5. /\ key \in Flags =>
           ValueAfter(file, key, all) = IF value = <<"true">> THEN value ELSE <<"false">>
      /\ key \in Scalars \cup Tables => ValueAfter(file, key, all) = value
  BY <1>3, <1>4, AfterScalars
<1> QED
  BY <1>2, <1>3, <1>5, StoredBySort

\* A line more of an array.
LEMMA ArrayGrows ==
  ASSUME NEW key \in Arrays, NEW file, NEW old \in Word,
         NEW lines \in SUBSET Nat, NEW n \in Nat, Behind(lines, n),
         ValueOf(file, n) \in Word, old = ValueAfter(file, key, lines)
  PROVE  ValueAfter(file, key, lines \cup {n}) = Stored(key, old, ValueOf(file, n))
<1> DEFINE entry(all, i) == IF Naming(file, all, i) = {} THEN Default(key)[i]
                            ELSE ValueOf(file, Max(Naming(file, all, i)))[i]
           named(all) == DOMAIN Default(key) \cup UNION {DOMAIN ValueOf(file, m) : m \in all}
<1>1. \A all : ValueAfter(file, key, all) = [i \in named(all) |-> entry(all, i)]
  BY AfterArrays DEF ArrayAfter
<1>2. PICK value \in Word : value = ValueOf(file, n)
  OBVIOUS
<1>3. PICK new \in Word : new = Stored(key, old, value)
  BY StoredArray
<1>4. /\ DOMAIN new = DOMAIN old \cup DOMAIN value
      /\ \A i \in DOMAIN value : new[i] = value[i]
      /\ \A i \in DOMAIN old \ DOMAIN value : new[i] = old[i]
  <2>1. Overlaid(new, old, value)
    BY <1>3, StoredArray
  <2> QED
    BY <2>1 DEF Overlaid
<1>5. DOMAIN old = named(lines) /\ \A i \in named(lines) : old[i] = entry(lines, i)
  BY <1>1
<1>6. named(lines \cup {n}) = named(lines) \cup DOMAIN value
  BY <1>2
<1>7. \A i \in DOMAIN value : entry(lines \cup {n}, i) = value[i]
  <2> TAKE i \in DOMAIN value
  <2>1. Naming(file, lines \cup {n}, i) = Naming(file, lines, i) \cup {n}
    BY <1>2 DEF Naming
  <2>2. Naming(file, lines, i) \in SUBSET Nat /\ Behind(Naming(file, lines, i), n)
    BY DEF Naming, Behind
  <2>3. Max(Naming(file, lines \cup {n}, i)) = n /\ Naming(file, lines \cup {n}, i) # {}
    BY <2>1, <2>2, LastIsMax
  <2> QED
    BY <1>2, <2>3
<1>8. \A i : i \notin DOMAIN value => entry(lines \cup {n}, i) = entry(lines, i)
  <2> SUFFICES ASSUME NEW i, i \notin DOMAIN value
               PROVE  Naming(file, lines \cup {n}, i) = Naming(file, lines, i)
    OBVIOUS
  <2> QED
    BY <1>2 DEF Naming
<1>9. new = [i \in DOMAIN new |-> new[i]]
  BY DEF Word
<1> HIDE DEF entry, named
<1>10. DOMAIN new = named(lines \cup {n})
  BY <1>4, <1>5, <1>6
<1>11. \A i \in DOMAIN new : new[i] = entry(lines \cup {n}, i)
  BY <1>4, <1>5, <1>6, <1>7, <1>8
<1>12. new = [i \in named(lines \cup {n}) |-> entry(lines \cup {n}, i)]
  BY <1>9, <1>10, <1>11
<1> QED
  BY <1>1, <1>2, <1>3, <1>12

\* The entries of a line more, and their places.
LEMMA EntriesGrow ==
  ASSUME NEW file, NEW lines \in SUBSET Nat, NEW n \in Nat, Behind(lines, n),
         ValueOf(file, n) \in Word, IsFiniteSet(Entries(file, lines))
  PROVE  /\ Entries(file, lines \cup {n}) =
              Entries(file, lines) \cup ({n} \X DOMAIN ValueOf(file, n))
         /\ IsFiniteSet(Entries(file, lines \cup {n}))
         /\ Cardinality(Entries(file, lines \cup {n})) =
              Cardinality(Entries(file, lines)) + Len(ValueOf(file, n))
         /\ \A entry \in Entries(file, lines) :
              Place(file, lines \cup {n}, entry) = Place(file, lines, entry)
         /\ \A i \in DOMAIN ValueOf(file, n) :
              Place(file, lines \cup {n}, <<n, i>>) = Cardinality(Entries(file, lines)) + i
<1>1. PICK value \in Word : value = ValueOf(file, n)
  OBVIOUS
<1>2. PICK more : more = {n} \X DOMAIN value
  OBVIOUS
<1>3. Entries(file, lines \cup {n}) = Entries(file, lines) \cup more
  BY <1>1, <1>2 DEF Entries
<1>4. \A entry \in Entries(file, lines) : entry[1] \in lines
  BY DEF Entries
<1>5. IsFiniteSet(more) /\ Cardinality(more) = Len(value)
  <2>1. PICK b \in Nat : b = Len(value) /\ DOMAIN value = 1 .. b
    BY LenProperties DEF Word
  <2>2. IsFiniteSet(1 .. b) /\ Cardinality(1 .. b) = b
    <3>1. 1 \in Int /\ b \in Int
      OBVIOUS
    <3>2. IsFiniteSet(1 .. b) /\ Cardinality(1 .. b) = IF 1 > b THEN 0 ELSE b - 1 + 1
      BY <3>1, FS_Interval, Zenon
    <3>3. (IF 1 > b THEN 0 ELSE b - 1 + 1) = b
      OBVIOUS
    <3> QED
      BY <3>2, <3>3
  <2>3. PICK pair : pair = [i \in 1 .. b |-> <<n, i>>]
    OBVIOUS
  <2>4. pair \in [1 .. b -> more]
    BY <1>2, <2>1, <2>3
  <2>5. \A i, j \in DOMAIN pair : pair[i] = pair[j] => i = j
    BY <2>3
  <2>6. \A e \in more : \E i \in 1 .. b : pair[i] = e
    BY <1>2, <2>1, <2>3
  <2>7. pair \in Bijection(1 .. b, more)
    BY <2>4, <2>5, <2>6 DEF Bijection, Injection, Surjection, IsInjective
  <2>8. ExistsBijection(1 .. b, more)
    BY <2>7 DEF ExistsBijection
  <2> QED
    BY <2>1, <2>2, <2>8, FS_Bijection
<1>6. Entries(file, lines) \cap more = {}
  BY <1>2, <1>4 DEF Behind
<1>7. /\ IsFiniteSet(Entries(file, lines \cup {n}))
      /\ Cardinality(Entries(file, lines \cup {n})) = Cardinality(Entries(file, lines)) + Len(value)
  <2>1. PICK c \in Nat, b \in Nat : c = Cardinality(Entries(file, lines)) /\ b = Len(value)
    BY FS_CardinalityType, LenProperties DEF Word
  <2>2. Cardinality(Entries(file, lines) \cap more) = 0
    BY <1>6, FS_EmptySet
  <2>3. /\ IsFiniteSet(Entries(file, lines) \cup more)
        /\ Cardinality(Entries(file, lines) \cup more) =
             Cardinality(Entries(file, lines)) + Cardinality(more)
               - Cardinality(Entries(file, lines) \cap more)
    BY <1>5, FS_Union
  <2>4. Cardinality(Entries(file, lines) \cup more) = c + b - 0
    BY <1>5, <2>1, <2>2, <2>3
  <2>5. c + b - 0 = c + b
    OBVIOUS
  <2> QED
    BY <1>3, <2>1, <2>3, <2>4, <2>5
<1>8. ASSUME NEW entry \in Entries(file, lines)
      PROVE  Place(file, lines \cup {n}, entry) = Place(file, lines, entry)
  <2>1. PICK f \in Nat : f = entry[1] /\ f < n
    BY <1>4 DEF Behind
  <2>2. ~(n < f)
    BY <2>1
  <2>3. {m \in lines \cup {n} : m < f} = {m \in lines : m < f}
    BY <2>2, Zenon
  <2> QED
    BY <2>1, <2>3 DEF Place
<1>9. ASSUME NEW i \in DOMAIN value
      PROVE  Place(file, lines \cup {n}, <<n, i>>) = Cardinality(Entries(file, lines)) + i
  <2>1. {m \in lines \cup {n} : m < n} = lines
    <3>1. ~(n < n)
      OBVIOUS
    <3> QED
      BY <3>1, Zenon DEF Behind
  <2>2. <<n, i>>[1] = n /\ <<n, i>>[2] = i
    OBVIOUS
  <2> QED
    BY <2>1, <2>2, Zenon DEF Place
<1> QED
  BY <1>1, <1>2, <1>3, <1>7, <1>8, <1>9

\* A vector that has the entries of some lines: the places are its own.
Vector(value, file, lines) ==
  /\ IsFiniteSet(Entries(file, lines))
  /\ HasEntries(value, file, lines)
  /\ \A entry \in Entries(file, lines) : Place(file, lines, entry) \in 1 .. Len(value)

\* A line more of a vector.
LEMMA VectorGrows ==
  ASSUME NEW file, NEW old \in Word,
         NEW lines \in SUBSET Nat, NEW n \in Nat, Behind(lines, n),
         ValueOf(file, n) \in Word, Vector(old, file, lines)
  PROVE  Vector(old \o ValueOf(file, n), file, lines \cup {n})
<1>1. PICK value \in Word : value = ValueOf(file, n)
  OBVIOUS
<1>2. PICK all : all = lines \cup {n}
  OBVIOUS
<1>3. PICK had : had = Entries(file, lines) /\ Len(old) = Cardinality(had)
  BY DEF Vector, HasEntries
<1>4. PICK a \in Nat, b \in Nat : a = Len(old) /\ b = Len(value)
  BY LenProperties DEF Word
<1>5. DOMAIN value = 1 .. b
  BY <1>4, LenProperties DEF Word
<1>6. PICK new : new = old \o value
  OBVIOUS
<1>7. /\ Len(new) = a + b
      /\ \A i \in 1 .. a + b : new[i] = IF i <= a THEN old[i] ELSE value[i - a]
  <2>1. /\ Len(old \o value) = Len(old) + Len(value)
        /\ \A i \in 1 .. Len(old) + Len(value) :
             (old \o value)[i] = IF i <= Len(old) THEN old[i] ELSE value[i - Len(old)]
    BY ConcatProperties, Zenon DEF Word
  <2> QED
    BY <1>4, <1>6, <2>1
<1>8. /\ Entries(file, all) = had \cup ({n} \X DOMAIN value) /\ IsFiniteSet(Entries(file, all))
      /\ Cardinality(Entries(file, all)) = a + b
      /\ \A entry \in had : Place(file, all, entry) = Place(file, lines, entry)
      /\ \A i \in 1 .. b : Place(file, all, <<n, i>>) = a + i
  <2>1. IsFiniteSet(Entries(file, lines))
    BY DEF Vector
  <2>2. /\ Entries(file, lines \cup {n}) =
             Entries(file, lines) \cup ({n} \X DOMAIN ValueOf(file, n))
        /\ IsFiniteSet(Entries(file, lines \cup {n}))
        /\ Cardinality(Entries(file, lines \cup {n})) =
             Cardinality(Entries(file, lines)) + Len(ValueOf(file, n))
        /\ \A entry \in Entries(file, lines) :
             Place(file, lines \cup {n}, entry) = Place(file, lines, entry)
        /\ \A i \in DOMAIN ValueOf(file, n) :
             Place(file, lines \cup {n}, <<n, i>>) = Cardinality(Entries(file, lines)) + i
    BY <2>1, EntriesGrow
  <2> QED
    BY <1>1, <1>2, <1>3, <1>4, <1>5, <2>2
<1>9. ASSUME NEW entry \in had
      PROVE  /\ Place(file, all, entry) \in 1 .. a + b
             /\ new[Place(file, all, entry)] = ValueOf(file, entry[1])[entry[2]]
  <2>1. PICK p \in 1 .. a : p = Place(file, lines, entry) /\ p = Place(file, all, entry)
    BY <1>3, <1>4, <1>8 DEF Vector
  <2>2. old[p] = ValueOf(file, entry[1])[entry[2]]
    BY <1>3, <2>1 DEF Vector, HasEntries
  <2>3. p \in 1 .. a + b /\ new[p] = old[p]
    BY <1>7
  <2> QED
    BY <2>1, <2>2, <2>3
<1>10. ASSUME NEW entry \in {n} \X DOMAIN value
       PROVE  /\ Place(file, all, entry) \in 1 .. a + b
              /\ new[Place(file, all, entry)] = ValueOf(file, entry[1])[entry[2]]
  <2>1. PICK i \in 1 .. b : entry = <<n, i>>
    BY <1>5
  <2>2. Place(file, all, entry) = a + i
    BY <1>8, <2>1
  <2>3. a + i \in 1 .. a + b /\ new[a + i] = value[i]
    <3>1. a + i \in 1 .. a + b /\ ~(a + i <= a) /\ a + i - a = i
      OBVIOUS
    <3> QED
      BY <1>7, <3>1
  <2>4. ValueOf(file, entry[1])[entry[2]] = value[i]
    BY <1>1, <2>1
  <2> QED
    BY <2>2, <2>3, <2>4
<1>11. Vector(new, file, all)
  <2>1. \A entry \in Entries(file, all) :
          /\ Place(file, all, entry) \in 1 .. Len(new)
          /\ new[Place(file, all, entry)] = ValueOf(file, entry[1])[entry[2]]
    BY <1>7, <1>8, <1>9, <1>10
  <2> QED
    BY <1>7, <1>8, <2>1 DEF Vector, HasEntries
<1> QED
  BY <1>1, <1>2, <1>6, <1>11

-----------------------------------------------------------------------------
(* Reading a file word by word.                                             *)

Before(lines, n) == {m \in lines : m < n}

\* What is read at a position is a word, behind the file's end too.
LEMMA WordOfFile ==
  ASSUME NEW file \in Seq(Word), NEW n \in Nat
  PROVE  WordAt(file, n) \in Word
<1>1. <<>> \in Word
  BY EmptySeq DEF Word
<1>2. n \in DOMAIN file => file[n] \in Word
  BY LenProperties, ElementOfSeq
<1> QED
  BY <1>1, <1>2 DEF WordAt

\* A key's line is followed by its value, in a file of keys and values.
LEMMA LineHasValue ==
  ASSUME NEW file \in Seq(Word), WellFormed(file), NEW key \in KEYS, NEW n \in LinesOf(file, key)
  PROVE  /\ n \in 1 .. Len(file) /\ n + 1 \in 1 .. Len(file)
         /\ WordAt(file, n + 1) = ValueOf(file, n) /\ ValueOf(file, n) \in Word
         /\ n + 1 \notin LinesOf(file, key)
         /\ \A other \in KEYS : n + 1 \notin LinesOf(file, other)
<1>1. PICK length \in Nat : length = Len(file) /\ DOMAIN file = 1 .. length
  BY LenProperties
<1>2. n \in 1 .. length /\ file[n] = <<key>>
  BY <1>1 DEF LinesOf
<1>3. /\ length % 2 = 0
      /\ \A m \in 1 .. length : m % 2 = 0 => \A other \in KEYS : file[m] # <<other>>
  BY <1>1 DEF WellFormed
<1>4. n % 2 # 0
  BY <1>2, <1>3
<1>5. n + 1 \in 1 .. length /\ (n + 1) % 2 = 0
  BY <1>2, <1>3, <1>4
<1>6. \A other \in KEYS : n + 1 \notin LinesOf(file, other)
  BY <1>3, <1>5 DEF LinesOf
<1>7. WordAt(file, n + 1) = file[n + 1]
  BY <1>1, <1>5 DEF WordAt
<1>8. WordAt(file, n + 1) \in Word
  BY <1>5, WordOfFile
<1> QED
  BY <1>1, <1>2, <1>5, <1>6, <1>7, <1>8 DEF ValueOf

\* What a turn of a reader's loop does to each key, and how far it goes.
LEMMA TurnTakes ==
  ASSUME NEW file \in Seq(Word), NEW n \in 1 .. Len(file), NEW taken \in SUBSET KEYS, NEW next,
         setting \in [KEYS -> Word], Turn(file, n, taken, next)
  PROVE  /\ setting' \in [KEYS -> Word]
         /\ next \in {n + 1, n + 2}
         /\ \A key \in taken : n \in LinesOf(file, key) =>
              /\ next = n + 2
              /\ setting'[key] = Stored(key, setting[key], WordAt(file, n + 1))
         /\ \A key \in KEYS : ~(key \in taken /\ n \in LinesOf(file, key)) =>
              setting'[key] = setting[key]
         /\ (\A key \in taken : n \notin LinesOf(file, key)) => next = n + 1
<1>1. n \in DOMAIN file /\ WordAt(file, n) = file[n]
  BY LenProperties DEF WordAt
<1>2. PICK keys : keys = {key \in taken : n \in LinesOf(file, key)}
  OBVIOUS
<1>3. keys = {key \in taken : WordAt(file, n) = <<key>>}
  BY <1>1, <1>2 DEF LinesOf
<1>4. /\ setting' = [key \in KEYS |-> IF key \in keys
                                      THEN Stored(key, setting[key], WordAt(file, n + 1))
                                      ELSE setting[key]]
      /\ next = IF keys = {} THEN n + 1 ELSE n + 2
  BY <1>3 DEF Turn
<1>5. \A key \in KEYS : Stored(key, setting[key], WordAt(file, n + 1)) \in Word
  <2>1. WordAt(file, n + 1) \in Word
    BY WordOfFile
  <2> QED
    BY <2>1, StoredIsWord, ConfigAssumption
<1> QED
  BY <1>2, <1>4, <1>5

\* The lines a turn passes: the one it is at.
LEMMA LinesPassed ==
  ASSUME NEW file \in Seq(Word), WellFormed(file), NEW n \in 1 .. Len(file), NEW key \in KEYS,
         NEW next \in {n + 1, n + 2},
         next = n + 2 => \E other \in KEYS : n \in LinesOf(file, other)
  PROVE  Before(LinesOf(file, key), next) =
           IF n \in LinesOf(file, key) THEN Before(LinesOf(file, key), n) \cup {n}
           ELSE Before(LinesOf(file, key), n)
<1>1. LinesOf(file, key) \in SUBSET Nat
  BY LenProperties DEF LinesOf
<1>2. next = n + 2 => n + 1 \notin LinesOf(file, key)
  BY LineHasValue
<1>3. \A m \in LinesOf(file, key) : m < next <=> m < n \/ m = n
  <2> TAKE m \in LinesOf(file, key)
  <2>1. m \in Nat /\ n \in Nat
    BY <1>1
  <2>2. next = n + 2 => m # n + 1
    BY <1>2
  <2> QED
    BY <2>1, <2>2
<1> QED
  BY <1>3 DEF Before

-----------------------------------------------------------------------------
(* The start.  While main reads client.config every key has the value that  *)
(* its lines so far give it.                                                *)

Reads(file, key, n, value) ==
  LET lines == Before(TakenLines(file, key), n)
  IN  IF key \in Vectors THEN Vector(value, file, lines)
                         ELSE value = ValueAfter(file, key, lines)

StartInv ==
  pc = "config" /\ WellFormed(words) =>
    \A key \in KEYS : Reads(words, key, at, setting[key])

ConfigTypes ==
  /\ config \in Seq(Word) /\ words \in Seq(Word) /\ loadWords \in Seq(Word) /\ userip \in Word
  /\ setting \in [KEYS -> Word]
  /\ at \in Nat \ {0} /\ loadAt \in Nat \ {0}

\* Before the first word every key has its initial value.
LEMMA NothingRead ==
  ASSUME NEW file \in Seq(Word), NEW key \in KEYS
  PROVE  Reads(file, key, 1, Default(key))
<1>1. Before(TakenLines(file, key), 1) = {}
  BY LenProperties DEF Before, TakenLines, LinesOf
<1>2. key \in AllKeys /\ Default(key) \in Word
  BY ConfigAssumption, DefaultIsWord
<1>3. CASE key \in Vectors
  <2>1. Default(key) = <<>> /\ Len(<<>>) = 0
    BY <1>3, DefaultIsWord
  <2>2. Entries(file, {}) = {}
    BY DEF Entries
  <2>3. Vector(<<>>, file, {})
    BY <2>1, <2>2, FS_EmptySet DEF Vector, HasEntries
  <2> QED
    BY <1>1, <1>3, <2>1, <2>3 DEF Reads
<1>4. CASE key \in Arrays
  <2>1. PICK value \in Word : value = Default(key)
    BY <1>2
  <2>2. value = [i \in DOMAIN value |-> value[i]]
    BY DEF Word
  <2>3. \A i : Naming(file, {}, i) = {}
    BY DEF Naming
  <2>4. ArrayAfter(file, key, {}) = [i \in DOMAIN value |-> value[i]]
    BY <2>1, <2>3 DEF ArrayAfter
  <2>5. ValueAfter(file, key, {}) = Default(key)
    BY <1>4, <2>1, <2>2, <2>4, AfterArrays
  <2> QED
    BY <1>1, <1>2, <1>4, <2>5, SortsApart DEF Reads
<1>5. CASE key \notin Vectors /\ key \notin Arrays
  BY <1>1, <1>2, <1>5, AfterNothing DEF Reads
<1> QED
  BY <1>3, <1>4, <1>5

\* The flag a key waits for is as the lines before say.
LEMMA FlagAsSaid ==
  ASSUME NEW file \in Seq(Word), NEW settings \in [KEYS -> Word], NEW n \in Nat,
         NEW flag \in KEYS, flag \in Flags, ~Gated(flag), Reads(file, flag, n, settings[flag])
  PROVE  IsOn(settings, flag) <=> Says(file, flag, n)
<1>1. PICK lines : lines = {m \in LinesOf(file, flag) : m < n}
  OBVIOUS
<1>2. Before(TakenLines(file, flag), n) = lines
  BY <1>1 DEF Before, TakenLines
<1>3. flag \in AllKeys /\ flag \notin Arrays /\ flag \notin Vectors
  BY SortsApart, ConfigAssumption
<1>4. settings[flag] = ValueAfter(file, flag, lines)
  BY <1>2, <1>3 DEF Reads
<1>5. CASE lines = {}
  <2>1. settings[flag] = <<"false">>
    BY <1>3, <1>4, <1>5, AfterNothing, DefaultIsWord
  <2> QED
    BY <1>1, <1>5, <2>1 DEF IsOn, Says
<1>6. CASE lines # {}
  <2>1. PICK last : last = ValueOf(file, Max(lines))
    OBVIOUS
  <2>2. settings[flag] = IF last = <<"true">> THEN last ELSE <<"false">>
    BY <1>3, <1>4, <1>6, <2>1, AfterScalars
  <2>3. Says(file, flag, n) <=> last = <<"true">>
    BY <1>1, <1>6, <2>1 DEF Says, ValueOf
  <2> QED
    BY <2>2, <2>3 DEF IsOn
<1> QED
  BY <1>5, <1>6

\* So a start takes the lines that the flags before them let it take.
LEMMA TakenAsSaid ==
  ASSUME NEW file \in Seq(Word), NEW settings \in [KEYS -> Word], NEW key \in KEYS,
         NEW n \in LinesOf(file, key), n \in Nat,
         \A k \in KEYS : Reads(file, k, n, settings[k])
  PROVE  Taken(settings, key) <=> n \in TakenLines(file, key)
<1>1. CASE ~Gated(key)
  BY <1>1 DEF Taken, TakenLines
<1>2. CASE Gated(key)
  <2>1. PICK flag \in KEYS : flag = Gate(key).flag /\ flag \in Flags /\ ~Gated(flag)
    BY <1>2, GateFlags
  <2>2. IsOn(settings, flag) <=> Says(file, flag, n)
    BY <2>1, FlagAsSaid
  <2>3. IsOn(settings, flag) \in BOOLEAN /\ Says(file, flag, n) \in BOOLEAN
    BY DEF IsOn, Says
  <2>4. (IsOn(settings, flag) = Gate(key).is) <=> (Says(file, flag, n) = Gate(key).is)
    BY <2>2, <2>3
  <2>5. Taken(settings, key) <=> (IsOn(settings, flag) = Gate(key).is)
    BY <1>2, <2>1 DEF Taken
  <2>6. n \in TakenLines(file, key) <=> (Says(file, flag, n) = Gate(key).is)
    BY <1>2, <2>1 DEF TakenLines
  <2> QED
    BY <2>4, <2>5, <2>6
<1> QED
  BY <1>1, <1>2

\* A line that is taken gives its key what is stored.
LEMMA LineRead ==
  ASSUME NEW file \in Seq(Word), WellFormed(file), NEW key \in KEYS, NEW old \in Word,
         NEW lines \in SUBSET Nat, NEW n \in LinesOf(file, key), Behind(lines, n)
  PROVE  /\ key \in Vectors /\ Vector(old, file, lines) =>
              Vector(Stored(key, old, ValueOf(file, n)), file, lines \cup {n})
         /\ key \notin Vectors /\ old = ValueAfter(file, key, lines) =>
              Stored(key, old, ValueOf(file, n)) = ValueAfter(file, key, lines \cup {n})
<1>1. n \in Nat /\ ValueOf(file, n) \in Word
  <2>1. n \in 1 .. Len(file) /\ ValueOf(file, n) \in Word
    BY LineHasValue
  <2> QED
    BY <2>1, LenProperties
<1>2. key \in AllKeys
  BY ConfigAssumption
<1>3. CASE key \in Vectors
  <2>1. Stored(key, old, ValueOf(file, n)) = old \o ValueOf(file, n)
    BY <1>2, <1>3, StoredBySort
  <2> QED
    BY <1>1, <1>3, <2>1, VectorGrows
<1>4. CASE key \in Arrays
  <2>1. key \notin Vectors
    BY <1>2, <1>4, SortsApart
  <2> QED
    BY <1>1, <1>4, <2>1, ArrayGrows
<1>5. CASE key \notin Vectors /\ key \notin Arrays
  <2>1. ValueAfter(file, key, lines \cup {n}) = Stored(key, old, ValueOf(file, n))
    BY <1>1, <1>2, <1>5, ScalarGrows, Zenon
  <2> QED
    BY <1>5, <2>1
<1> QED
  BY <1>3, <1>4, <1>5

\* The lines a start takes, over one turn of its loop.
LEMMA LinesTaken ==
  ASSUME NEW file \in Seq(Word), WellFormed(file), NEW n \in 1 .. Len(file), NEW key \in KEYS,
         NEW next \in {n + 1, n + 2},
         next = n + 2 => \E other \in KEYS : n \in LinesOf(file, other)
  PROVE  /\ n \in TakenLines(file, key) =>
              Before(TakenLines(file, key), next) = Before(TakenLines(file, key), n) \cup {n}
         /\ n \notin TakenLines(file, key) =>
              Before(TakenLines(file, key), next) = Before(TakenLines(file, key), n)
<1>1. TakenLines(file, key) \subseteq LinesOf(file, key)
  BY DEF TakenLines
<1>2. \A m \in LinesOf(file, key) : m < next <=> m < n \/ m = n
  <2>1. Before(LinesOf(file, key), next) =
          IF n \in LinesOf(file, key) THEN Before(LinesOf(file, key), n) \cup {n}
          ELSE Before(LinesOf(file, key), n)
    BY LinesPassed
  <2>2. n < next
    OBVIOUS
  <2> QED
    BY <2>1, <2>2 DEF Before
<1> QED
  BY <1>1, <1>2 DEF Before

\* A turn of the start's loop: the heart of StartKept.
LEMMA WordRead ==
  ASSUME ConfigTypes, StartInv, ReadConfig
  PROVE  StartInv'
<1> SUFFICES ASSUME WellFormed(words)
             PROVE  \A key \in KEYS : Reads(words, key, at, setting[key])'
  BY DEF StartInv, ReadConfig
<1>1. /\ pc = "config" /\ words' = words /\ at \in 1 .. Len(words)
      /\ Turn(words, at, {key \in KEYS : Taken(setting, key)}, at')
  BY LenProperties DEF ReadConfig, ConfigTypes
<1>2. PICK file, n, next : /\ file = words /\ n = at /\ next = at'
                          /\ file \in Seq(Word) /\ n \in Nat
  BY DEF ConfigTypes
<1>3. PICK taken \in SUBSET KEYS : taken = {key \in KEYS : Taken(setting, key)}
  OBVIOUS
<1>4. /\ WellFormed(file) /\ n \in 1 .. Len(file) /\ setting \in [KEYS -> Word]
      /\ Turn(file, n, taken, next)
      /\ \A key \in KEYS : Reads(file, key, n, setting[key])
  BY <1>1, <1>2, <1>3 DEF StartInv, ConfigTypes
<1>5. /\ next \in {n + 1, n + 2}
      /\ \A key \in taken : n \in LinesOf(file, key) =>
           /\ next = n + 2
           /\ setting'[key] = Stored(key, setting[key], WordAt(file, n + 1))
      /\ \A key \in KEYS : ~(key \in taken /\ n \in LinesOf(file, key)) =>
           setting'[key] = setting[key]
      /\ (\A key \in taken : n \notin LinesOf(file, key)) => next = n + 1
  BY <1>2, <1>4, TurnTakes
<1>6. next = n + 2 => \E other \in KEYS : n \in LinesOf(file, other)
  BY <1>2, <1>5
<1>7. \A key \in KEYS : n \in LinesOf(file, key) => (key \in taken <=> n \in TakenLines(file, key))
  BY <1>2, <1>3, <1>4, TakenAsSaid
<1>8. ASSUME NEW key \in KEYS
      PROVE  Reads(file, key, next, setting'[key])
  <2>1. /\ n \in TakenLines(file, key) =>
             Before(TakenLines(file, key), next) = Before(TakenLines(file, key), n) \cup {n}
        /\ n \notin TakenLines(file, key) =>
             Before(TakenLines(file, key), next) = Before(TakenLines(file, key), n)
    <3>1. /\ WellFormed(file) /\ n \in 1 .. Len(file) /\ file \in Seq(Word)
          /\ next \in {n + 1, n + 2}
          /\ next = n + 2 => \E other \in KEYS : n \in LinesOf(file, other)
      BY <1>2, <1>4, <1>5, <1>6
    <3> QED
      BY ONLY <3>1, <1>8, LinesTaken
  <2>2. CASE n \notin TakenLines(file, key)
    <3>1. setting'[key] = setting[key]
      BY <1>5, <1>7, <2>2
    <3> QED
      BY <1>4, <2>1, <2>2, <3>1 DEF Reads
  <2>3. CASE n \in TakenLines(file, key)
    <3>1. n \in LinesOf(file, key) /\ key \in taken
      BY <1>7, <2>3 DEF TakenLines
    <3>2. setting'[key] = Stored(key, setting[key], ValueOf(file, n))
      BY <1>2, <1>4, <1>5, <3>1, LineHasValue
    <3>3. PICK lines : lines = Before(TakenLines(file, key), n)
      OBVIOUS
    <3>5. lines \in SUBSET Nat /\ Behind(lines, n)
      <4>1. TakenLines(file, key) \subseteq Nat
        BY <1>2, LenProperties DEF TakenLines, LinesOf
      <4> QED
        BY <3>3, <4>1 DEF Before, Behind
    <3>4. /\ key \in Vectors /\ Vector(setting[key], file, lines) =>
               Vector(Stored(key, setting[key], ValueOf(file, n)), file, lines \cup {n})
          /\ key \notin Vectors /\ setting[key] = ValueAfter(file, key, lines) =>
               Stored(key, setting[key], ValueOf(file, n)) = ValueAfter(file, key, lines \cup {n})
      <4>1. PICK old \in Word : old = setting[key]
        BY <1>4
      <4>2. /\ file \in Seq(Word) /\ WellFormed(file) /\ n \in LinesOf(file, key)
            /\ lines \in SUBSET Nat /\ Behind(lines, n)
        BY <1>2, <1>4, <3>1, <3>5
      <4>3. /\ key \in Vectors /\ Vector(old, file, lines) =>
                 Vector(Stored(key, old, ValueOf(file, n)), file, lines \cup {n})
            /\ key \notin Vectors /\ old = ValueAfter(file, key, lines) =>
                 Stored(key, old, ValueOf(file, n)) = ValueAfter(file, key, lines \cup {n})
        BY <4>2, LineRead
      <4> QED
        BY <4>1, <4>3
    <3> QED
      BY <1>4, <2>1, <2>3, <3>2, <3>3, <3>4 DEF Reads
  <2> QED
    BY <2>2, <2>3
<1> QED
  BY <1>1, <1>2, <1>8

-----------------------------------------------------------------------------
(* The types, and the start over every step.                                *)

\* The files that are read are sequences of words.
LEMMA FilesOfWords ==
  /\ \A file \in CONFIGS \cup EDITED : file \in Seq(Word)
  /\ \A file \in USER_FILES : file \in Word
<1>1. STRING \subseteq Text
  BY DEF Text
<1>2. \A word \in Seq(STRING) : word \in Word
  BY <1>1, SeqMonotonic, Zenon DEF Word
<1>3. Seq(STRING) \subseteq Word
  BY <1>2
<1>4. \A file \in Seq(Seq(STRING)) : file \in Seq(Word)
  BY <1>3, SeqMonotonic, Zenon
<1> QED
  BY <1>2, <1>4, ConfigAssumption

\* Where a LOAD's thread runs, main is past the start.
LEMMA LoadsWhenRunning ==
  /\ LoadKey => pc \in {"running", "user"}
  /\ Load => pc \in {"running", "user"}
  BY DEF LoadKey, Load, MayLoad, AdminRuns

\* A turn of the LOAD's loop.
LEMMA LoadTurn ==
  ASSUME ConfigTypes, LoadKey
  PROVE  /\ loadAt \in 1 .. Len(loadWords) /\ Reloadable \cap KEYS \in SUBSET KEYS
         /\ Turn(loadWords, loadAt, Reloadable \cap KEYS, loadAt')
  BY LenProperties DEF ConfigTypes, LoadKey

\* Every step keeps the types.
LEMMA TypesKept ==
  ASSUME ConfigTypes, [ConfigNext]_configVars
  PROVE  ConfigTypes'
<1>1. CASE Edit
  BY <1>1, FilesOfWords DEF Edit, ConfigTypes, readVars, loadVars
<1>2. CASE ReadConfig
  <2>1. PICK file, n, taken : /\ file = words /\ n = at
                              /\ taken = {key \in KEYS : Taken(setting, key)}
                              /\ file \in Seq(Word) /\ n \in 1 .. Len(file)
                              /\ taken \in SUBSET KEYS /\ setting \in [KEYS -> Word]
    <3>1. at \in 1 .. Len(words) /\ words \in Seq(Word) /\ setting \in [KEYS -> Word]
      BY <1>2, LenProperties DEF ReadConfig, ConfigTypes
    <3>2. {key \in KEYS : Taken(setting, key)} \in SUBSET KEYS
      OBVIOUS
    <3> QED
      BY <3>1, <3>2
  <2>2. Turn(file, n, taken, at')
    BY <1>2, <2>1 DEF ReadConfig
  <2>3. setting' \in [KEYS -> Word] /\ at' \in {n + 1, n + 2}
    BY <2>1, <2>2, TurnTakes
  <2>4. at' \in Nat \ {0}
    BY <2>1, <2>3, LenProperties
  <2> QED
    BY <1>2, <2>3, <2>4 DEF ReadConfig, ConfigTypes, files, loadVars
<1>3. CASE ConfigRead
  BY <1>3 DEF ConfigRead, ConfigTypes, files, loadVars
<1>4. CASE ReadUser
  BY <1>4 DEF ReadUser, ConfigTypes, files, loadVars
<1>5. CASE Minute
  BY <1>5 DEF Minute, ConfigTypes, files, loadVars
<1>6. CASE OpenFails
  BY <1>6 DEF OpenFails, ConfigTypes, files, loadVars
<1>7. CASE Load
  BY <1>7 DEF Load, ConfigTypes, files, readVars
<1>8. CASE LoadKey
  <2>1. PICK file, n, taken : /\ file = loadWords /\ n = loadAt /\ taken = Reloadable \cap KEYS
                              /\ file \in Seq(Word) /\ n \in 1 .. Len(file)
                              /\ taken \in SUBSET KEYS /\ setting \in [KEYS -> Word]
                              /\ Turn(file, n, taken, loadAt')
    BY <1>8, LoadTurn DEF ConfigTypes
  <2>3. setting' \in [KEYS -> Word] /\ loadAt' \in {n + 1, n + 2}
    BY <2>1, TurnTakes
  <2>4. loadAt' \in Nat \ {0}
    BY <2>1, <2>3, LenProperties
  <2> QED
    BY <1>8, <2>3, <2>4 DEF LoadKey, ConfigTypes, files, readVars
<1>9. CASE LoadEnds
  BY <1>9 DEF LoadEnds, ConfigTypes, files, readVars
<1>10. CASE UNCHANGED configVars
  BY <1>10 DEF ConfigTypes, configVars, files, readVars, loadVars
<1> QED
  BY <1>1, <1>2, <1>3, <1>4, <1>5, <1>6, <1>7, <1>8, <1>9, <1>10
  DEF ConfigNext, ReadStep, LoadStep

\* The start's first state.
LEMMA StartInit ==
  ASSUME ConfigInit
  PROVE  ConfigTypes /\ StartInv
<1>1. /\ setting = [key \in KEYS |-> Default(key)]
      /\ at = 1 /\ words = config /\ config \in CONFIGS /\ userip \in USER_FILES
      /\ loadWords = <<>> /\ loadAt = 1
  BY DEF ConfigInit
<1>2. setting \in [KEYS -> Word]
  BY <1>1, DefaultIsWord
<1>3. <<>> \in Seq(Word)
  BY EmptySeq
<1>4. ConfigTypes
  BY <1>1, <1>2, <1>3, FilesOfWords DEF ConfigTypes
<1>5. \A key \in KEYS : Reads(words, key, at, setting[key])
  BY <1>1, <1>4, NothingRead DEF ConfigTypes
<1> QED
  BY <1>4, <1>5 DEF StartInv

\* Every step keeps what a start has read.
LEMMA StartKept ==
  ASSUME ConfigTypes, StartInv, [ConfigNext]_configVars
  PROVE  StartInv'
<1>1. CASE ReadConfig
  BY <1>1, WordRead
<1>2. CASE pc' # "config"
  BY <1>2 DEF StartInv
<1>3. CASE UNCHANGED <<pc, words, at, setting>>
  BY <1>3 DEF StartInv
<1>4. ReadConfig \/ pc' # "config" \/ UNCHANGED <<pc, words, at, setting>>
  <2>1. CASE LoadKey
    BY <2>1, LoadsWhenRunning DEF LoadKey, readVars
  <2>2. CASE ~LoadKey
    BY <2>2 DEF ConfigNext, ReadStep, LoadStep, Edit, ConfigRead, ReadUser, Minute, OpenFails,
                Load, LoadEnds, files, readVars, loadVars, configVars
  <2> QED
    BY <2>1, <2>2
<1> QED
  BY <1>1, <1>2, <1>3, <1>4

\* While client.config is read as the program starts, every key has the value that its
\* lines so far give it: what StartReadsLast says of the whole file.
THEOREM StartInvariant == ConfigSpec => [](ConfigTypes /\ StartInv)
<1>1. ConfigInit => ConfigTypes /\ StartInv
  BY StartInit
<1>2. ConfigTypes /\ StartInv /\ [ConfigNext]_configVars => (ConfigTypes /\ StartInv)'
  BY TypesKept, StartKept
<1> QED
  BY <1>1, <1>2, PTL DEF ConfigSpec

\* A start gives every key the value of its last line that is taken, with the
\* entries of arrays and vectors each from its line, for every file of keys
\* and values.
THEOREM StartReadsLastCorrect == ConfigSpec => []StartReadsLast
<1>1. ASSUME ConfigTypes, StartInv
      PROVE  StartReadsLast
  <2> SUFFICES ASSUME pc = "config", at > Len(words), WellFormed(words), NEW key \in KEYS
               PROVE  IF key \in Vectors
                      THEN HasEntries(setting[key], words, TakenLines(words, key))
                      ELSE setting[key] = AsStarted(words, key)
    BY DEF StartReadsLast
  <2>1. Reads(words, key, at, setting[key])
    BY <1>1 DEF StartInv
  <2>2. Before(TakenLines(words, key), at) = TakenLines(words, key)
    <3>1. PICK length \in Nat : length = Len(words) /\ DOMAIN words = 1 .. length
      BY <1>1, LenProperties DEF ConfigTypes
    <3>2. \A m \in TakenLines(words, key) : m < at
      <4> TAKE m \in TakenLines(words, key)
      <4>1. m \in 1 .. length
        BY <3>1 DEF TakenLines, LinesOf
      <4>2. at \in Nat /\ at > length
        BY <1>1, <3>1 DEF ConfigTypes
      <4> QED
        BY <4>1, <4>2
    <3> QED
      BY <3>2, Zenon DEF Before
  <2> QED
    BY <2>1, <2>2 DEF Reads, AsStarted, Vector
<1> QED
  BY <1>1, StartInvariant, PTL

-----------------------------------------------------------------------------
(* A LOAD.  What it has met of a key's lines decides on the key.            *)

\* An array's entries that some lines name are theirs.
LastEntries(file, lines, value) ==
  \A i : Naming(file, lines, i) # {} =>
    i \in DOMAIN value /\ value[i] = ValueOf(file, Max(Naming(file, lines, i)))[i]

\* The lines have a last one, and decide on the key.
LastLines(file, key, lines, value) ==
  /\ \E last \in lines : \A m \in lines : m <= last
  /\ key \notin Arrays => value = ValueAfter(file, key, lines)
  /\ key \in Arrays => LastEntries(file, lines, value)

Loaded(file, key, n, value) ==
  LET lines == Before(LinesOf(file, key), n)
  IN  lines # {} => LastLines(file, key, lines, value)

\* The keys a LOAD decides on: not the vectors, and not the ranges the user's
\* file gives.
ByLoad(settings) ==
  {key \in (Reloadable \cap KEYS) \ Vectors :
     key = "IPV4_RANGE" => ~IsOn(settings, "USER_IPV4_DIR_STATUS")}

ReloadInv ==
  /\ loading => pc \in {"running", "user", "exited"}
  /\ pc \in {"first", "user"} => IsOn(setting, "USER_IPV4_DIR_STATUS")
  /\ loading /\ WellFormed(loadWords) =>
       \A key \in ByLoad(setting) : Loaded(loadWords, key, loadAt, setting[key])

\* One line more of an array.
LEMMA LoadedArray ==
  ASSUME NEW key \in Arrays, NEW file, NEW old \in Word, NEW lines \in SUBSET Nat, NEW n \in Nat,
         Behind(lines, n), ValueOf(file, n) \in Word, LastEntries(file, lines, old)
  PROVE  LastEntries(file, lines \cup {n}, Stored(key, old, ValueOf(file, n)))
<1>1. PICK value \in Word : value = ValueOf(file, n)
  OBVIOUS
<1>2. PICK new \in Word : new = Stored(key, old, value)
  BY StoredArray
<1>3. /\ DOMAIN new = DOMAIN old \cup DOMAIN value
      /\ \A i \in DOMAIN value : new[i] = value[i]
      /\ \A i \in DOMAIN old \ DOMAIN value : new[i] = old[i]
  <2>1. Overlaid(new, old, value)
    BY <1>2, StoredArray
  <2> QED
    BY <2>1 DEF Overlaid
<1>4. ASSUME NEW i, Naming(file, lines \cup {n}, i) # {}
      PROVE  i \in DOMAIN new /\ new[i] = ValueOf(file, Max(Naming(file, lines \cup {n}, i)))[i]
  <2>1. CASE i \in DOMAIN value
    <3>1. Naming(file, lines \cup {n}, i) = Naming(file, lines, i) \cup {n}
      BY <1>1, <2>1 DEF Naming
    <3>2. Naming(file, lines, i) \in SUBSET Nat /\ Behind(Naming(file, lines, i), n)
      BY DEF Naming, Behind
    <3>3. Max(Naming(file, lines \cup {n}, i)) = n
      BY <3>1, <3>2, LastIsMax
    <3> QED
      BY <1>1, <1>3, <2>1, <3>3
  <2>2. CASE i \notin DOMAIN value
    <3>1. Naming(file, lines \cup {n}, i) = Naming(file, lines, i)
      BY <1>1, <2>2 DEF Naming
    <3>2. i \in DOMAIN old /\ old[i] = ValueOf(file, Max(Naming(file, lines, i)))[i]
      BY <1>4, <3>1 DEF LastEntries
    <3> QED
      BY <1>3, <2>2, <3>1, <3>2
  <2> QED
    BY <2>1, <2>2
<1> QED
  BY <1>1, <1>2, <1>4 DEF LastEntries

\* One line more of a key, and its last lines are those with it.
LEMMA LoadedGrows ==
  ASSUME NEW file \in Seq(Word), WellFormed(file), NEW key \in KEYS, key \notin Vectors,
         NEW old \in Word, NEW lines \in SUBSET Nat, NEW n \in LinesOf(file, key),
         Behind(lines, n),
         lines # {} => LastLines(file, key, lines, old)
  PROVE  LastLines(file, key, lines \cup {n}, Stored(key, old, ValueOf(file, n)))
<1>1. n \in Nat /\ ValueOf(file, n) \in Word /\ key \in AllKeys
  <2>1. n \in 1 .. Len(file) /\ ValueOf(file, n) \in Word
    BY LineHasValue
  <2> QED
    BY <2>1, LenProperties, ConfigAssumption
<1>2. \E last \in lines \cup {n} : \A m \in lines \cup {n} : m <= last
  <2>1. \A m \in lines \cup {n} : m <= n
    BY <1>1 DEF Behind
  <2> QED
    BY <2>1
<1>3. CASE key \notin Vectors /\ key \notin Arrays
  <2>1. ValueAfter(file, key, lines \cup {n}) = Stored(key, old, ValueOf(file, n))
    BY <1>1, <1>3, ScalarGrows
  <2> QED
    BY <1>2, <1>3, <2>1 DEF LastLines
<1>4. CASE key \in Arrays
  <2>1. LastEntries(file, lines, old)
    <3>1. lines = {} => LastEntries(file, lines, old)
      BY DEF LastEntries, Naming
    <3> QED
      BY <1>4, <3>1 DEF LastLines
  <2>2. LastEntries(file, lines \cup {n}, Stored(key, old, ValueOf(file, n)))
    BY <1>1, <1>4, <2>1, LoadedArray
  <2> QED
    BY <1>2, <1>4, <2>2 DEF LastLines
<1> QED
  BY <1>3, <1>4

\* A word more of the LOAD's file.
LEMMA LoadedWord ==
  ASSUME ConfigTypes, LoadKey, WellFormed(loadWords), NEW key \in (Reloadable \cap KEYS) \ Vectors,
         Loaded(loadWords, key, loadAt, setting[key])
  PROVE  Loaded(loadWords, key, loadAt', setting'[key])
<1>1. PICK file, n, next, taken :
        /\ file = loadWords /\ n = loadAt /\ next = loadAt' /\ taken = Reloadable \cap KEYS
        /\ file \in Seq(Word) /\ n \in 1 .. Len(file) /\ taken \in SUBSET KEYS
        /\ setting \in [KEYS -> Word] /\ Turn(file, n, taken, next)
  BY LoadTurn DEF ConfigTypes
<1>2. /\ next \in {n + 1, n + 2}
      /\ \A k \in taken : n \in LinesOf(file, k) =>
           /\ next = n + 2
           /\ setting'[k] = Stored(k, setting[k], WordAt(file, n + 1))
      /\ \A k \in KEYS : ~(k \in taken /\ n \in LinesOf(file, k)) =>
           setting'[k] = setting[k]
      /\ (\A k \in taken : n \notin LinesOf(file, k)) => next = n + 1
  <2>1. /\ file \in Seq(Word) /\ n \in 1 .. Len(file) /\ taken \in SUBSET KEYS
        /\ setting \in [KEYS -> Word] /\ Turn(file, n, taken, next)
    BY <1>1
  <2> QED
    BY ONLY <2>1, TurnTakes
<1>3. n \in Nat
  BY <1>1, LenProperties
<1>4. next = n + 2 => \E other \in KEYS : n \in LinesOf(file, other)
  BY <1>1, <1>2, <1>3
<1>5. /\ WellFormed(file) /\ key \in KEYS /\ key \in taken /\ key \notin Vectors
      /\ Loaded(file, key, n, setting[key])
  BY <1>1
<1>6. Before(LinesOf(file, key), next) =
        IF n \in LinesOf(file, key) THEN Before(LinesOf(file, key), n) \cup {n}
        ELSE Before(LinesOf(file, key), n)
  <2>1. /\ file \in Seq(Word) /\ WellFormed(file) /\ n \in 1 .. Len(file) /\ key \in KEYS
        /\ next \in {n + 1, n + 2}
        /\ next = n + 2 => \E other \in KEYS : n \in LinesOf(file, other)
    BY <1>1, <1>2, <1>4, <1>5
  <2> QED
    BY ONLY <2>1, LinesPassed
<1>7. CASE n \notin LinesOf(file, key)
  BY <1>1, <1>2, <1>5, <1>6, <1>7 DEF Loaded
<1>8. CASE n \in LinesOf(file, key)
  <2>1. setting'[key] = Stored(key, setting[key], ValueOf(file, n))
    <3>1. WordAt(file, n + 1) = ValueOf(file, n)
      BY <1>1, <1>5, <1>8, LineHasValue
    <3> QED
      BY <1>2, <1>5, <1>8, <3>1
  <2>2. PICK lines : lines = Before(LinesOf(file, key), n)
    OBVIOUS
  <2>3. lines \in SUBSET Nat /\ Behind(lines, n)
    <3>1. LinesOf(file, key) \subseteq Nat
      BY <1>1, LenProperties DEF LinesOf
    <3> QED
      BY <2>2, <3>1 DEF Before, Behind
  <2>4. PICK old \in Word : old = setting[key]
    BY <1>1, <1>5
  <2>5. /\ file \in Seq(Word) /\ WellFormed(file) /\ key \in KEYS /\ key \notin Vectors
        /\ n \in LinesOf(file, key)
        /\ lines # {} => LastLines(file, key, lines, old)
    BY <1>1, <1>5, <1>8, <2>2, <2>4 DEF Loaded
  <2>6. LastLines(file, key, lines \cup {n}, Stored(key, old, ValueOf(file, n)))
    BY <2>3, <2>5, LoadedGrows
  <2> QED
    BY <1>1, <1>6, <1>8, <2>1, <2>2, <2>4, <2>6 DEF Loaded
<1> QED
  BY <1>7, <1>8

\* A LOAD leaves the flag that says whose the ranges are, so what it decides on.
LEMMA LoadKeeps ==
  ASSUME ConfigTypes, LoadKey
  PROVE  IsOn(setting', "USER_IPV4_DIR_STATUS") <=> IsOn(setting, "USER_IPV4_DIR_STATUS")
<1>1. PICK taken : taken = Reloadable \cap KEYS
  OBVIOUS
<1>2. \A k \in KEYS : k \notin taken => setting'[k] = setting[k]
  BY <1>1, LoadTurn, TurnTakes DEF ConfigTypes
<1>3. "USER_IPV4_DIR_STATUS" \in KEYS /\ "USER_IPV4_DIR_STATUS" \notin taken
  BY <1>1, ConfigAssumption DEF Reloadable, PeeringFlags
<1> QED
  BY <1>2, <1>3 DEF IsOn

\* Every step keeps what a LOAD has read.
LEMMA LoadKept ==
  ASSUME ConfigTypes, ReloadInv, [ConfigNext]_configVars
  PROVE  ReloadInv'
<1>1. CASE LoadKey
  <2>1. /\ loading /\ loading' /\ pc' = pc /\ loadWords' = loadWords
    BY <1>1 DEF LoadKey, readVars
  <2>2. ByLoad(setting') = ByLoad(setting)
    BY <1>1, LoadKeeps DEF ByLoad
  <2>3. ASSUME WellFormed(loadWords), NEW key \in ByLoad(setting)
        PROVE  Loaded(loadWords, key, loadAt', setting'[key])
    <3>1. key \in (Reloadable \cap KEYS) \ Vectors
      BY DEF ByLoad
    <3>2. Loaded(loadWords, key, loadAt, setting[key])
      BY <2>1, <2>3 DEF ReloadInv
    <3> QED
      BY <1>1, <2>3, <3>1, <3>2, LoadedWord
  <2> QED
    BY <1>1, <2>1, <2>2, <2>3, LoadKeeps DEF ReloadInv
<1>2. CASE ReadUser
  <2>1. /\ IsOn(setting, "USER_IPV4_DIR_STATUS") /\ pc' = "running"
        /\ setting' = [setting EXCEPT !["IPV4_RANGE"] = userip]
        /\ UNCHANGED <<loading, loadWords, loadAt>>
    BY <1>2 DEF ReadUser, ReloadInv, loadVars
  <2>2. \A key \in KEYS : key # "IPV4_RANGE" => setting'[key] = setting[key]
    BY <2>1 DEF ConfigTypes
  <2>3. IsOn(setting', "USER_IPV4_DIR_STATUS")
    BY <2>1, <2>2, ConfigAssumption DEF IsOn
  <2>4. \A key \in ByLoad(setting') : key \in ByLoad(setting) /\ setting'[key] = setting[key]
    BY <2>2, <2>3 DEF ByLoad
  <2> QED
    BY <2>1, <2>4 DEF ReloadInv
<1>3. CASE Load
  <2>1. pc \in {"running", "user"} /\ pc' = pc /\ setting' = setting /\ loadAt' = 1
    BY <1>3, LoadsWhenRunning DEF Load, readVars
  <2>2. \A key : Loaded(loadWords', key, 1, setting[key])
    <3>1. loadWords' \in Seq(Word)
      BY <1>3 DEF Load, ConfigTypes
    <3>2. \A key : Before(LinesOf(loadWords', key), 1) = {}
      BY <3>1, LenProperties DEF Before, LinesOf
    <3> QED
      BY <3>2 DEF Loaded
  <2> QED
    BY <2>1, <2>2 DEF ReloadInv
<1>4. CASE ReadConfig
  BY <1>4 DEF ReadConfig, ReloadInv, loadVars
<1>5. CASE UNCHANGED <<setting, loading, loadWords, loadAt>> \/ (setting' = setting /\ ~loading')
  <2>1. pc' = pc \/ pc' = "running" \/ ConfigRead \/ Minute \/ OpenFails
    BY DEF ConfigNext, ReadStep, LoadStep, Edit, LoadEnds, LoadKey, Load, ReadUser, ReadConfig,
       configVars, readVars
  <2>2. pc' \in {"first", "user"} => IsOn(setting, "USER_IPV4_DIR_STATUS")
    <3>1. CASE pc' = pc
      BY <3>1 DEF ReloadInv
    <3>2. CASE ConfigRead
      BY <3>2 DEF ConfigRead
    <3>3. CASE Minute
      BY <3>3 DEF Minute
    <3>4. CASE OpenFails
      BY <3>4 DEF OpenFails
    <3> QED
      BY <2>1, <3>1, <3>2, <3>3, <3>4
  <2>3. loading' => pc' \in {"running", "user", "exited"}
    <3>1. loading' => loading
      <4>1. loading' = loading \/ ~loading'
        BY <1>5
      <4> QED
        BY <4>1, Zenon
    <3>2. CASE pc' = pc
      BY <3>1, <3>2 DEF ReloadInv
    <3>3. CASE ConfigRead
      BY <3>1, <3>3 DEF ConfigRead, ReloadInv
    <3>4. CASE Minute
      BY <3>4 DEF Minute
    <3>5. CASE OpenFails
      BY <3>5 DEF OpenFails
    <3> QED
      BY <2>1, <3>2, <3>3, <3>4, <3>5
  <2> QED
    BY <1>5, <2>2, <2>3 DEF ReloadInv
<1>6. \/ LoadKey \/ ReadUser \/ Load \/ ReadConfig
      \/ UNCHANGED <<setting, loading, loadWords, loadAt>> \/ (setting' = setting /\ ~loading')
  BY DEF ConfigNext, ReadStep, LoadStep, Edit, ConfigRead, Minute, OpenFails, LoadEnds,
     configVars, loadVars
<1> QED
  BY <1>1, <1>2, <1>3, <1>4, <1>5, <1>6

\* While a LOAD is executed, every key it decides on is as the key's last line among
\* those it has met says.
THEOREM ReloadInvariant == ConfigSpec => []ReloadInv
<1>1. ConfigInit => ReloadInv
  BY DEF ConfigInit, ReloadInv
<1>2. ConfigTypes /\ ReloadInv /\ [ConfigNext]_configVars => ReloadInv'
  BY LoadKept
<1>3. ConfigSpec => []ConfigTypes
  BY StartInvariant, PTL
<1> QED
  BY <1>1, <1>2, <1>3, PTL DEF ConfigSpec

\* The lines a start takes give what all give, if they have the last one.
LEMMA SameLast ==
  ASSUME NEW file, NEW key \in AllKeys, key \notin Arrays, key \notin Vectors,
         NEW lines \in SUBSET Nat, NEW taken \in SUBSET lines,
         \E last \in lines : \A m \in lines : m <= last, Max(lines) \in taken
  PROVE  ValueAfter(file, key, taken) = ValueAfter(file, key, lines)
<1>1. PICK last \in lines : \A m \in lines : m <= last
  OBVIOUS
<1>2. Max(lines) = last
  <2>1. last \in lines /\ \A m \in lines : last >= m
    BY <1>1
  <2>2. \A x \in lines : (\A m \in lines : x >= m) => x = last
    BY <1>1
  <2> QED
    BY <2>1, <2>2 DEF Max
<1>3. Max(taken) = last
  <2>1. last \in taken /\ \A m \in taken : last >= m
    BY <1>1, <1>2
  <2>2. \A x \in taken : (\A m \in taken : x >= m) => x = last
    BY <1>1, <2>1
  <2> QED
    BY <2>1, <2>2 DEF Max
<1>4. taken # {} /\ lines # {}
  BY <1>1
<1>5. key \in Flags \/ key \in Scalars \cup Tables
  BY SortsApart
<1>6. PICK value : value = ValueOf(file, last)
  OBVIOUS
<1>7. /\ key \in Flags =>
           ValueAfter(file, key, taken) = IF value = <<"true">> THEN value ELSE <<"false">>
      /\ key \in Scalars \cup Tables => ValueAfter(file, key, taken) = value
  BY <1>3, <1>4, <1>6, AfterScalars
<1>8. /\ key \in Flags =>
           ValueAfter(file, key, lines) = IF value = <<"true">> THEN value ELSE <<"false">>
      /\ key \in Scalars \cup Tables => ValueAfter(file, key, lines) = value
  BY <1>2, <1>4, <1>6, AfterScalars
<1> QED
  BY <1>5, <1>7, <1>8

\* A LOAD leaves the keys whose last line a start takes as a restart would, but for the
\* vectors, the user's ranges and what of an array the file does not name.
THEOREM LoadIsRestartCorrect == ConfigSpec => LoadIsRestart
<1>1. ASSUME ConfigTypes, ReloadInv, LoadEnds, WellFormed(loadWords),
             NEW key \in (Reloadable \cap KEYS) \ Vectors,
             LinesOf(loadWords, key) # {},
             Max(LinesOf(loadWords, key)) \in TakenLines(loadWords, key),
             key = "IPV4_RANGE" => ~IsOn(setting, "USER_IPV4_DIR_STATUS")
      PROVE  IF key \in Arrays
             THEN \A i \in DOMAIN AsStarted(loadWords, key) :
                    Naming(loadWords, LinesOf(loadWords, key), i) # {} =>
                      setting[key][i] = AsStarted(loadWords, key)[i]
             ELSE setting[key] = AsStarted(loadWords, key)
  <2>1. PICK file, lines, taken : /\ file = loadWords /\ lines = LinesOf(loadWords, key)
                                  /\ taken = TakenLines(loadWords, key)
    OBVIOUS
  <2>2. /\ file \in Seq(Word) /\ lines \in SUBSET Nat /\ taken \in SUBSET lines
        /\ Before(lines, loadAt) = lines /\ key \in AllKeys /\ key \notin Vectors
    <3>1. PICK length \in Nat : length = Len(file) /\ DOMAIN file = 1 .. length
      BY <1>1, <2>1, LenProperties DEF ConfigTypes
    <3>2. loadAt \in Nat /\ loadAt > length
      BY <1>1, <2>1, <3>1 DEF ConfigTypes, LoadEnds
    <3>3. lines \subseteq 1 .. length
      BY <2>1, <3>1 DEF LinesOf
    <3>4. \A m \in lines : m \in Nat /\ m < loadAt
      BY <3>2, <3>3
    <3>5. Before(lines, loadAt) = lines
      BY <3>4, Zenon DEF Before
    <3>6. taken \in SUBSET lines
      BY <2>1 DEF TakenLines
    <3> QED
      BY <1>1, <2>1, <3>4, <3>5, <3>6, ConfigAssumption DEF ConfigTypes
  <2>3. LastLines(file, key, lines, setting[key])
    <3>1. loading /\ key \in ByLoad(setting)
      BY <1>1 DEF LoadEnds, ByLoad
    <3>2. Loaded(file, key, loadAt, setting[key])
      BY <1>1, <2>1, <3>1 DEF ReloadInv
    <3> QED
      BY <1>1, <2>1, <2>2, <3>2 DEF Loaded
  <2>4. AsStarted(loadWords, key) = ValueAfter(file, key, taken)
    BY <2>1 DEF AsStarted
  <2>5. CASE key \notin Arrays
    <3>1. /\ \E last \in lines : \A m \in lines : m <= last
          /\ setting[key] = ValueAfter(file, key, lines)
      BY <2>3, <2>5 DEF LastLines
    <3>2. ValueAfter(file, key, taken) = ValueAfter(file, key, lines)
      BY <1>1, <2>1, <2>2, <2>5, <3>1, SameLast
    <3> QED
      BY <2>4, <2>5, <3>1, <3>2
  <2>6. CASE key \in Arrays
    <3>1. taken = lines
      BY <1>1, <2>1, <2>6, GateFlags DEF TakenLines
    <3>2. AsStarted(loadWords, key) = ArrayAfter(file, key, lines)
      BY <2>4, <2>6, <3>1, AfterArrays
    <3>3. LastEntries(file, lines, setting[key])
      BY <2>3, <2>6 DEF LastLines
    <3>4. \A i \in DOMAIN ArrayAfter(file, key, lines) : Naming(file, lines, i) # {} =>
            ArrayAfter(file, key, lines)[i] = ValueOf(file, Max(Naming(file, lines, i)))[i]
      BY DEF ArrayAfter
    <3> QED
      BY <2>1, <2>6, <3>2, <3>3, <3>4 DEF LastEntries
  <2> QED
    BY <2>5, <2>6
<1>2. ConfigTypes /\ ReloadInv => (LoadEnds /\ WellFormed(loadWords) =>
       \A key \in (Reloadable \cap KEYS) \ Vectors :
         LET lines == LinesOf(loadWords, key)
         IN  /\ lines # {} /\ Max(lines) \in TakenLines(loadWords, key)
             /\ key = "IPV4_RANGE" => ~IsOn(setting, "USER_IPV4_DIR_STATUS")
             => LET value == AsStarted(loadWords, key)
                IN  IF key \in Arrays
                    THEN \A i \in DOMAIN value :
                           Naming(loadWords, lines, i) # {} => setting[key][i] = value[i]
                    ELSE setting[key] = value)
  BY <1>1, Zenon
<1> QED
  BY <1>2, StartInvariant, ReloadInvariant, PTL DEF ConfigSpec, LoadIsRestart

=============================================================================
