------------------------------ MODULE DnsLock -------------------------------
(***************************************************************************)
(* The PacketRouters of all interfaces parse DNS packets one at a time:    *)
(* UDPParser::lockDnsMap and unLockDnsMap build a lock from a counter, a   *)
(* pthread mutex and a condition variable (namespace mapDnsLock), and      *)
(* parsePacketDNS enters the addresses it finds in DNSGlobal::dnsLookUpMap *)
(* under it.  An action is what a thread does while it holds the mutex, or *)
(* between two times it does; only the test and the wait need the mutex    *)
(* held from one action to the next.                                       *)
(***************************************************************************)
EXTENDS Naturals, FiniteSets

CONSTANTS
  ROUTERS,      \* the PacketRouter threads
  NOBODY        \* no thread

ASSUME DnsLockAssumption == NOBODY \notin ROUTERS

VARIABLES
  lockCount,    \* the mutex: who holds it, or NOBODY
  nonzero,      \* the condition variable: who waits on it
  count,        \* mapDnsLock::count, set to 1 by initializeLocks
  pc            \* where each router is

vars == <<lockCount, nonzero, count, pc>>

Places ==
  {"out",       \* not in the parser's DNS branch
   "enter",     \* in lockDnsMap, before pthread_mutex_lock
   "test",      \* at the while, holding the mutex
   "wait",      \* in pthread_cond_wait
   "parse",     \* between lockDnsMap and unLockDnsMap
   "leave"}     \* in unLockDnsMap, before pthread_mutex_lock

TypeOK ==
  /\ lockCount \in ROUTERS \cup {NOBODY}
  /\ nonzero \subseteq ROUTERS
  /\ count \in Nat
  /\ pc \in [ROUTERS -> Places]

Init ==
  /\ lockCount = NOBODY /\ nonzero = {} /\ count = 1
  /\ pc = [r \in ROUTERS |-> "out"]

-----------------------------------------------------------------------------
Go(r, from, to) == pc[r] = from /\ pc' = [pc EXCEPT ![r] = to]

\* A DNS packet to parse: lockDnsMap is called.
Call(r) ==
  /\ Go(r, "out", "enter")
  /\ UNCHANGED <<lockCount, nonzero, count>>

MutexToEnter(r) ==
  /\ Go(r, "enter", "test")
  /\ lockCount = NOBODY /\ lockCount' = r
  /\ UNCHANGED <<nonzero, count>>

\* pthread_cond_wait lets go of the mutex and waits, in one.
Wait(r) ==
  /\ count = 0
  /\ Go(r, "test", "wait")
  /\ nonzero' = nonzero \cup {r}
  /\ lockCount' = NOBODY
  /\ UNCHANGED count

\* pthread_cond_wait may return though nobody signalled.
WakeForNothing(r) ==
  /\ nonzero' = nonzero \ {r} /\ nonzero' # nonzero
  /\ UNCHANGED <<lockCount, count, pc>>

\* Woken, the router takes the mutex again, and tests again.
MutexAfterWait(r) ==
  /\ r \notin nonzero
  /\ Go(r, "wait", "test")
  /\ lockCount = NOBODY /\ lockCount' = r
  /\ UNCHANGED <<nonzero, count>>

\* An "if" in the place of the while: the wait was worth it.
WaitedIsEnough(r) == TRUE

\* The while's condition no longer holds.
MayPass(r) == count # 0

Pass(r) ==
  /\ MayPass(r)
  /\ Go(r, "test", "parse")
  /\ count' = count - 1
  /\ lockCount' = NOBODY
  /\ UNCHANGED nonzero

\* parsePacketDNS is done.
Parsed(r) ==
  /\ Go(r, "parse", "leave")
  /\ UNCHANGED <<lockCount, nonzero, count>>

\* The test made after the count has been increased.
CountWasZeroLate == count + 1 = 0

\* "if (count == 0) signal", before the count is increased.
CountWasZero == count = 0

\* pthread_cond_signal wakes one of the routers that wait, if any does.
Signal ==
  IF CountWasZero /\ nonzero # {}
  THEN \E r \in nonzero : nonzero' = nonzero \ {r}
  ELSE UNCHANGED nonzero

\* unLockDnsMap, from its pthread_mutex_lock to its pthread_mutex_unlock.
Release(r) ==
  /\ lockCount = NOBODY
  /\ Go(r, "leave", "out")
  /\ Signal
  /\ count' = count + 1
  /\ UNCHANGED lockCount

RouterStep(r) ==
  \/ MutexToEnter(r) \/ Wait(r) \/ MutexAfterWait(r) \/ Pass(r) \/ Parsed(r) \/ Release(r)

Next == \E r \in ROUTERS : Call(r) \/ WakeForNothing(r) \/ RouterStep(r)

Spec == Init /\ [][Next]_vars

-----------------------------------------------------------------------------
(* Properties.                                                              *)

Inside(r) == pc[r] \in {"parse", "leave"}

\* One router at a time is between lockDnsMap and unLockDnsMap: the maps of
\* DNSGlobal have no other protection from two routers that insert at once.
OneInside == \A q, r \in ROUTERS : Inside(q) /\ Inside(r) => q = r

Awake(r) == (pc[r] = "wait" /\ r \notin nonzero) \/ pc[r] = "test"

\* No wake-up is lost: when the lock is free while routers sleep on it, one
\* has been woken and is on its way, though unLockDnsMap signals only if the
\* count was 0 and new routers may overtake whom it woke.
NoLostWakeup == (count > 0 /\ nonzero # {}) => \E r \in ROUTERS : Awake(r)

\* As long as routers want to parse DNS packets, some router gets to (under the
\* fairness of DnsDump).
SomeoneParses ==
  (\E r \in ROUTERS : pc[r] \in {"enter", "test", "wait"}) ~> (\E r \in ROUTERS : pc[r] = "parse")

=============================================================================
