----------------------------- MODULE LockProofs ------------------------------
(***************************************************************************)
(* The two components with a lock, for any number of threads, addresses,   *)
(* maps, messages and files: the lock of the DNS map excludes, and no      *)
(* wake-up of it is lost; the routers of the dump use it as those of       *)
(* DnsLock do; what the dump publishes is whole, though it never takes     *)
(* that lock; the log writes what it was given in order and loses no       *)
(* message of a file that stays open, whatever its mutex does; and that    *)
(* mutex excludes while no fopen fails.                                    *)
(***************************************************************************)
EXTENDS DnsDump, LogQueue, Integers, FiniteSetTheorems, TLAPS

-----------------------------------------------------------------------------
(* The lock.  Its inductive invariant.                                      *)

\* Who waits on the condition variable is in pthread_cond_wait.
WaitersWait == \A r \in nonzero : pc[r] = "wait"

\* Exactly the router at the while holds the mutex from one action to the next.
HolderTests == \A r \in ROUTERS : pc[r] = "test" <=> lockCount = r

\* The count is what is left of the one that initializeLocks put there: 0 with
\* a router inside, 1 with none.
CountIsFree ==
  /\ count \in {0, 1}
  /\ count = 0 <=> \E r \in ROUTERS : Inside(r)

LockInv == TypeOK /\ WaitersWait /\ HolderTests /\ CountIsFree /\ OneInside /\ NoLostWakeup

\* The lock as initializeLocks sets it up satisfies the invariant.
LEMMA InitLock == Init => LockInv
  BY DnsLockAssumption
     DEF Init, LockInv, TypeOK, Places, WaitersWait, HolderTests, CountIsFree, OneInside,
         NoLostWakeup, Inside

\* Each step of a thread keeps the lock's variables typed, the waiters in their
\* wait and the mutex with the router at the while.
LEMMA MutexStep ==
  ASSUME LockInv, [Next]_vars
  PROVE  TypeOK' /\ WaitersWait' /\ HolderTests'
<1> USE DEF LockInv, TypeOK, Places, WaitersWait, HolderTests, Go
<1>1. CASE UNCHANGED vars
  BY <1>1 DEF vars
<1>2. ASSUME NEW r \in ROUTERS, Call(r) PROVE TypeOK' /\ WaitersWait' /\ HolderTests'
  BY <1>2 DEF Call
<1>3. ASSUME NEW r \in ROUTERS, WakeForNothing(r) PROVE TypeOK' /\ WaitersWait' /\ HolderTests'
  BY <1>3 DEF WakeForNothing
<1>4. ASSUME NEW r \in ROUTERS, MutexToEnter(r) PROVE TypeOK' /\ WaitersWait' /\ HolderTests'
  BY <1>4, DnsLockAssumption DEF MutexToEnter
<1>5. ASSUME NEW r \in ROUTERS, Wait(r) PROVE TypeOK' /\ WaitersWait' /\ HolderTests'
  BY <1>5, DnsLockAssumption DEF Wait
<1>6. ASSUME NEW r \in ROUTERS, MutexAfterWait(r) PROVE TypeOK' /\ WaitersWait' /\ HolderTests'
  BY <1>6, DnsLockAssumption DEF MutexAfterWait
<1>7. ASSUME NEW r \in ROUTERS, Pass(r) PROVE TypeOK' /\ WaitersWait' /\ HolderTests'
  BY <1>7, DnsLockAssumption DEF Pass, MayPass, CountIsFree
<1>8. ASSUME NEW r \in ROUTERS, Parsed(r) PROVE TypeOK' /\ WaitersWait' /\ HolderTests'
  BY <1>8 DEF Parsed
<1>9. ASSUME NEW r \in ROUTERS, Release(r) PROVE TypeOK' /\ WaitersWait' /\ HolderTests'
  BY <1>9 DEF Release, Signal, CountWasZero
<1> QED
  BY <1>1, <1>2, <1>3, <1>4, <1>5, <1>6, <1>7, <1>8, <1>9 DEF Next, RouterStep

\* Each step of a thread keeps the count right and one router inside: only a
\* router that has seen the count at 1 goes in, and it leaves 0 behind.
LEMMA CountStep ==
  ASSUME LockInv, [Next]_vars
  PROVE  CountIsFree' /\ OneInside'
<1> USE DEF LockInv, TypeOK, CountIsFree, OneInside, Inside, Go
<1>1. ASSUME NEW r \in ROUTERS, Pass(r) PROVE CountIsFree' /\ OneInside'
  BY <1>1 DEF Pass, MayPass
<1>2. ASSUME NEW r \in ROUTERS, Parsed(r) PROVE CountIsFree' /\ OneInside'
  BY <1>2 DEF Parsed
<1>3. ASSUME NEW r \in ROUTERS, Release(r) PROVE CountIsFree' /\ OneInside'
  BY <1>3 DEF Release
<1>4. ASSUME count' = count, \A r \in ROUTERS : Inside(r)' <=> Inside(r)
      PROVE  CountIsFree' /\ OneInside'
  BY <1>4
<1>5. CASE UNCHANGED vars
  BY <1>5, <1>4 DEF vars
<1>6. ASSUME NEW r \in ROUTERS,
             Call(r) \/ WakeForNothing(r) \/ MutexToEnter(r) \/ Wait(r) \/ MutexAfterWait(r)
      PROVE  CountIsFree' /\ OneInside'
  BY <1>6, <1>4 DEF Call, WakeForNothing, MutexToEnter, Wait, MutexAfterWait
<1> QED
  BY <1>1, <1>2, <1>3, <1>5, <1>6 DEF Next, RouterStep

\* Each step of a thread leaves a router awake while the lock is free and
\* routers sleep on it: the one that frees it found the count at 0, so it
\* signalled, and one that is awake stays so until it finds the lock taken.
LEMMA WakeStep ==
  ASSUME LockInv, [Next]_vars
  PROVE  NoLostWakeup'
<1> USE DEF LockInv, TypeOK, WaitersWait, NoLostWakeup, Awake, Go
<1>1. CASE UNCHANGED vars
  BY <1>1 DEF vars
<1>2. ASSUME NEW r \in ROUTERS, Call(r) \/ Parsed(r) PROVE NoLostWakeup'
  BY <1>2 DEF Call, Parsed
<1>3. ASSUME NEW r \in ROUTERS, WakeForNothing(r) PROVE NoLostWakeup'
  BY <1>3 DEF WakeForNothing
<1>4. ASSUME NEW r \in ROUTERS, MutexToEnter(r) \/ MutexAfterWait(r) PROVE NoLostWakeup'
  BY <1>4 DEF MutexToEnter, MutexAfterWait
<1>5. ASSUME NEW r \in ROUTERS, Wait(r) \/ Pass(r) PROVE NoLostWakeup'
  BY <1>5 DEF Wait, Pass, MayPass, CountIsFree
<1>6. ASSUME NEW r \in ROUTERS, Release(r) PROVE NoLostWakeup'
  <2>1. count = 0 /\ pc[r] = "leave"
    BY <1>6 DEF Release, CountIsFree, Inside
  <2>2. CASE nonzero = {}
    BY <1>6, <2>2 DEF Release, Signal
  <2>3. CASE nonzero # {}
    <3>1. PICK q \in nonzero : nonzero' = nonzero \ {q}
      BY <1>6, <2>1, <2>3 DEF Release, Signal, CountWasZero
    <3>2. q \in ROUTERS /\ pc'[q] = "wait" /\ q \notin nonzero'
      BY <1>6, <2>1, <3>1 DEF Release
    <3> QED
      BY <3>2
  <2> QED
    BY <2>2, <2>3
<1> QED
  BY <1>1, <1>2, <1>3, <1>4, <1>5, <1>6 DEF Next, RouterStep

\* The invariant holds throughout, whatever the threads do.
THEOREM LockInvariant == Spec => []LockInv
<1>1. LockInv /\ [Next]_vars => LockInv'
  BY MutexStep, CountStep, WakeStep DEF LockInv
<1> QED
  BY InitLock, <1>1, PTL DEF Spec

-----------------------------------------------------------------------------
(* What follows.                                                            *)

\* One router at a time is between lockDnsMap and unLockDnsMap, for any number
\* of routers and whatever pthread_cond_wait returns for.
THEOREM OneInsideCorrect == Spec => []OneInside
  BY LockInvariant, PTL DEF LockInv

\* No wake-up is lost, though unLockDnsMap signals only on a count of 0, and
\* though routers that never slept may take the lock first.
THEOREM NoLostWakeupCorrect == Spec => []NoLostWakeup
  BY LockInvariant, PTL DEF LockInv

-----------------------------------------------------------------------------
(* The dump.  Its inductive invariant.                                      *)

\* An address is half entered only by the router inside the lock, and its node
\* is not there before it is linked.
EntriesLocked ==
  /\ \A r \in ROUTERS : entry[r] # NoEntry => pc[r] = "parse"
  /\ \A ip \in Doing("link") : dnsLookUpMap[ip] = "absent"

\* An owed address has its name, nobody assigns it, and no node is linked into
\* the map it is in while the walk is there.
OwedSafe ==
  /\ \A ip \in owed : dnsLookUpMap[ip] = "named" /\ ip \notin Doing("assign")
  /\ mpc = "walk" =>
       \A ip \in owed, j \in Doing("link") : Bucket(ip) = bucket => Bucket(j) # bucket

\* Where the walk has been.
Passed(ip) ==
  \/ mpc = "rename"
  \/ mpc = "walk" /\ (Bucket(ip) < bucket \/ (Bucket(ip) = bucket /\ ip <= elem))

\* The file has every owed address the walk has passed, unless the disk was full.
RowsWritten == ~failed => \A ip \in owed : Passed(ip) => csvIn[ip] = "named"

DumpInv == LockInv /\ DumpTypeOK /\ EntriesLocked /\ OwedSafe /\ RowsWritten

-----------------------------------------------------------------------------
\* An address is in one of the maps.
LEMMA BucketType == \A ip \in IPS : Bucket(ip) \in 0 .. BUCKETS - 1
  BY DnsDumpAssumption DEF Bucket

\* With an empty map nothing is owed.
LEMMA InitDump == DumpInit => DumpInv
<1> SUFFICES ASSUME DumpInit PROVE DumpInv
  OBVIOUS
<1>1. LockInv
  BY InitLock DEF DumpInit
<1>2. DumpTypeOK
  <2>1. csvIn \in Rows /\ csv \in Rows
    BY DEF DumpInit, NoRows, Rows
  <2>2. dnsDumpLoop \in 0 .. DNS_DUMP_TIME - 1 /\ bucket \in 0 .. BUCKETS - 1
    BY DnsDumpAssumption DEF DumpInit
  <2>3. /\ entry \in [ROUTERS -> {NoEntry} \cup [ip : IPS, step : {"link", "assign"}]]
        /\ answers \in [ROUTERS -> 0 .. DNS_ANSWER]
    BY DnsDumpAssumption DEF DumpInit
  <2> QED
    BY <1>1, <2>1, <2>2, <2>3 DEF LockInv, DumpTypeOK, DumpInit
<1>3. Doing("link") = {} /\ owed = {}
  BY DEF DumpInit, Doing, NoEntry
<1> QED
  BY <1>1, <1>2, <1>3 DEF DumpInv, DumpInit, EntriesLocked, OwedSafe, RowsWritten

\* What the dump's module adds to the routers' steps does not touch the lock.
LEMMA LockUntouched == [DumpNext]_dumpVars => [Next]_vars
  BY DEF DumpNext, dumpVars, LockStep, EntryStep, Resolve, Link, Assign, ParseEnds,
         MinuteChange, MainStep, CountMinute, OpenFile, OpenFails, WriteRow, WriteFails,
         EndOfBucket, Rename, Next, RouterStep

\* So the lock's invariant holds here too.
LEMMA LockKept == LockInv /\ [DumpNext]_dumpVars => LockInv'
  BY LockUntouched, MutexStep, CountStep, WakeStep DEF LockInv

\* The variables keep their types.
LEMMA DumpTyped ==
  ASSUME DumpInv, DumpNext
  PROVE  DumpTypeOK'
<1> USE DEF DumpInv, DumpTypeOK
<1>0. TypeOK'
  BY LockKept DEF LockInv
<1>1. ASSUME NEW r \in ROUTERS, LockStep(r) PROVE DumpTypeOK'
  BY <1>0, <1>1 DEF LockStep, mapVars, mainVars
<1>2. ASSUME NEW r \in ROUTERS, Resolve(r) PROVE DumpTypeOK'
  <2>1. PICK ip \in IPS, step \in {"link", "assign"} :
           entry' = [entry EXCEPT ![r] = [ip |-> ip, step |-> step]]
        /\ owed' = owed \ Unsafe(ip, step)
    BY <1>2 DEF Resolve
  <2>2. answers' \in [ROUTERS -> 0 .. DNS_ANSWER]
    BY <1>2, DnsDumpAssumption DEF Resolve
  <2>3. entry' \in [ROUTERS -> {NoEntry} \cup [ip : IPS, step : {"link", "assign"}]]
    BY <2>1
  <2> QED
    BY <1>0, <1>2, <2>1, <2>2, <2>3 DEF Resolve, mainVars
<1>3. ASSUME NEW r \in ROUTERS, Link(r) PROVE DumpTypeOK'
  <2>1. entry[r] \in [ip : IPS, step : {"link", "assign"}]
    BY <1>3 DEF Link, NoEntry
  <2>2. [entry[r] EXCEPT !.step = "assign"] \in [ip : IPS, step : {"link", "assign"}]
    BY <2>1
  <2>3. entry' = [entry EXCEPT ![r] = [entry[r] EXCEPT !.step = "assign"]]
    BY <1>3 DEF Link
  <2>4. entry' \in [ROUTERS -> {NoEntry} \cup [ip : IPS, step : {"link", "assign"}]]
    BY <2>2, <2>3
  <2>5. dnsLookUpMap' \in [IPS -> {"absent", "empty", "named"}]
    BY <1>3, <2>1 DEF Link
  <2> QED
    BY <1>0, <1>3, <2>4, <2>5 DEF Link, mainVars
<1>4. ASSUME NEW r \in ROUTERS, Assign(r) PROVE DumpTypeOK'
  <2>1. entry[r] \in [ip : IPS, step : {"link", "assign"}]
    BY <1>4 DEF Assign, NoEntry
  <2>2. dnsLookUpMap' \in [IPS -> {"absent", "empty", "named"}]
    BY <1>4, <2>1 DEF Assign
  <2>3. entry' \in [ROUTERS -> {NoEntry} \cup [ip : IPS, step : {"link", "assign"}]]
    BY <1>4 DEF Assign
  <2> QED
    BY <1>0, <1>4, <2>2, <2>3 DEF Assign, mainVars
<1>5. ASSUME NEW r \in ROUTERS, ParseEnds(r) PROVE DumpTypeOK'
  BY <1>0, <1>5, DnsDumpAssumption DEF ParseEnds, mainVars
<1>6. CASE MinuteChange \/ OpenFails \/ Rename \/ WriteFails
  BY <1>0, <1>6 DEF MinuteChange, OpenFails, Rename, WriteFails, mapVars
<1>7. CASE CountMinute
  <2>1. dnsDumpLoop' \in 0 .. DNS_DUMP_TIME - 1
    BY <1>7, DnsDumpAssumption DEF CountMinute
  <2>2. mpc' \in {"loop", "open"}
    BY <1>7 DEF CountMinute
  <2> QED
    BY <1>0, <1>7, <2>1, <2>2 DEF CountMinute, mapVars
<1>8. CASE OpenFile
  <2>1. csvIn' \in Rows
    BY <1>8 DEF OpenFile, Opened, NoRows, Rows
  <2>2. bucket' \in 0 .. BUCKETS - 1 /\ elem' \in IPS \cup {0}
    BY <1>8, DnsDumpAssumption DEF OpenFile
  <2>3. owed' \subseteq IPS
    BY <1>8 DEF OpenFile
  <2> QED
    BY <1>0, <1>8, <2>1, <2>2, <2>3 DEF OpenFile, mapVars
<1>9. CASE WriteRow
  <2>1. PICK ip \in NextNodes, name \in {"named", "broken"} :
           elem' = ip /\ csvIn' = IF failed THEN csvIn ELSE [csvIn EXCEPT ![ip] = name]
    BY <1>9 DEF WriteRow, ReadName
  <2>2. ip \in IPS
    BY DEF NextNodes, Nodes, Doing
  <2>3. csvIn' \in Rows
    BY <2>1, <2>2 DEF Rows
  <2> QED
    BY <1>0, <1>9, <2>1, <2>2, <2>3 DEF WriteRow, mapVars
<1>10. CASE EndOfBucket
  <2>1. bucket' \in 0 .. BUCKETS - 1
    BY <1>10, DnsDumpAssumption DEF EndOfBucket, LastBucket
  <2>2. owed' \subseteq IPS /\ mpc' \in {"walk", "rename"}
    BY <1>10 DEF EndOfBucket
  <2> QED
    BY <1>0, <1>10, <2>1, <2>2 DEF EndOfBucket, mapVars
<1> QED
  BY <1>1, <1>2, <1>3, <1>4, <1>5, <1>6, <1>7, <1>8, <1>9, <1>10
     DEF DumpNext, EntryStep, MainStep

\* Two routers are never both in the middle of an entry.
LEMMA OneEntry ==
  ASSUME DumpInv, NEW q \in ROUTERS, NEW r \in ROUTERS,
         entry[q] # NoEntry, entry[r] # NoEntry
  PROVE  q = r
  BY DEF DumpInv, LockInv, OneInside, Inside, EntriesLocked

\* What a router's entry does to the sets of addresses being linked and assigned.
LEMMA DoingStep ==
  ASSUME DumpInv, NEW r \in ROUTERS, NEW step \in {"link", "assign"}
  PROVE  /\ \A ip \in IPS, s \in {"link", "assign"} :
              entry' = [entry EXCEPT ![r] = [ip |-> ip, step |-> s]] /\ entry[r] = NoEntry
                => Doing(step)' = Doing(step) \cup (IF s = step THEN {ip} ELSE {})
         /\ Link(r) => /\ entry[r].ip \in IPS
                       /\ Doing("link")' = {} /\ Doing("link") = {entry[r].ip}
                       /\ Doing("assign")' = {entry[r].ip}
         /\ Assign(r) => /\ entry[r].ip \in IPS
                         /\ Doing("link")' = {} /\ Doing("link") = {}
                         /\ Doing("assign")' = {} /\ Doing("assign") = {entry[r].ip}
         /\ entry' = entry => Doing(step)' = Doing(step)
<1> USE DEF Doing
<1>1. entry \in [ROUTERS -> {NoEntry} \cup [ip : IPS, step : {"link", "assign"}]]
  BY DEF DumpInv, DumpTypeOK
<1>2. ASSUME NEW ip \in IPS, NEW s \in {"link", "assign"},
             entry' = [entry EXCEPT ![r] = [ip |-> ip, step |-> s]], entry[r] = NoEntry
      PROVE  Doing(step)' = Doing(step) \cup (IF s = step THEN {ip} ELSE {})
  BY <1>1, <1>2 DEF NoEntry
<1>3. ASSUME entry[r] # NoEntry, NEW q \in ROUTERS, q # r PROVE entry[q] = NoEntry
  BY <1>3, OneEntry
<1>4. ASSUME Link(r)
      PROVE  /\ entry[r].ip \in IPS
             /\ Doing("link")' = {} /\ Doing("link") = {entry[r].ip}
             /\ Doing("assign")' = {entry[r].ip}
  <2>1. entry[r] \in [ip : IPS, step : {"link", "assign"}] /\ entry[r].step = "link"
    BY <1>1, <1>4 DEF Link, NoEntry
  <2>2. entry[r] = [ip |-> entry[r].ip, step |-> "link"]
    BY <2>1
  <2>3. entry' = [entry EXCEPT ![r] = [ip |-> entry[r].ip, step |-> "assign"]]
    <3>1. entry' = [entry EXCEPT ![r] = [entry[r] EXCEPT !.step = "assign"]]
      BY <1>4 DEF Link
    <3>2. [entry[r] EXCEPT !.step = "assign"] = [ip |-> entry[r].ip, step |-> "assign"]
      BY <2>1
    <3> QED
      BY <3>1, <3>2
  <2>4. entry[r] # NoEntry
    BY <2>1 DEF NoEntry
  <2> QED
    BY <1>1, <1>3, <2>1, <2>2, <2>3, <2>4 DEF NoEntry
<1>5. ASSUME Assign(r)
      PROVE  /\ entry[r].ip \in IPS
             /\ Doing("link")' = {} /\ Doing("link") = {}
             /\ Doing("assign")' = {} /\ Doing("assign") = {entry[r].ip}
  <2>1. entry[r] \in [ip : IPS, step : {"link", "assign"}] /\ entry[r].step = "assign"
    BY <1>1, <1>5 DEF Assign, NoEntry
  <2>2. entry[r] = [ip |-> entry[r].ip, step |-> "assign"]
    BY <2>1
  <2>3. entry[r] # NoEntry
    BY <2>1 DEF NoEntry
  <2>4. entry' = [entry EXCEPT ![r] = NoEntry]
    BY <1>5 DEF Assign
  <2>5. \A q \in ROUTERS : entry'[q] = NoEntry
    BY <1>1, <1>3, <2>3, <2>4
  <2>6. Doing("link")' = {} /\ Doing("assign")' = {}
    BY <2>5 DEF NoEntry
  <2>7. \A q \in ROUTERS : q # r => entry[q] = NoEntry
    BY <1>3, <2>3
  <2>8. Doing("link") = {}
    BY <2>2, <2>7 DEF NoEntry
  <2>9. Doing("assign") = {entry[r].ip}
    BY <2>1, <2>2, <2>7 DEF NoEntry
  <2> QED
    BY <2>1, <2>6, <2>8, <2>9
<1> QED
  BY <1>2, <1>4, <1>5

\* A router enters addresses inside the lock only, and links only what is absent.
LEMMA EntriesStep ==
  ASSUME DumpInv, DumpNext
  PROVE  EntriesLocked'
<1> USE DEF DumpInv, EntriesLocked, DumpTypeOK, TypeOK
<1>1. ASSUME NEW r \in ROUTERS, LockStep(r) PROVE EntriesLocked'
  <2>1. entry' = entry /\ dnsLookUpMap' = dnsLookUpMap
    BY <1>1 DEF LockStep, mapVars
  <2>2. \A q \in ROUTERS : pc[q] = "parse" => pc'[q] = "parse"
    BY <1>1 DEF LockStep, Call, WakeForNothing, MutexToEnter, Wait, MutexAfterWait, Pass,
                Release, Go
  <2> QED
    BY <2>1, <2>2 DEF Doing
<1>2. ASSUME NEW r \in ROUTERS, Resolve(r) PROVE EntriesLocked'
  <2>1. PICK ip \in IPS, step \in {"link", "assign"} :
          /\ step = "link" => dnsLookUpMap[ip] = "absent"
          /\ entry' = [entry EXCEPT ![r] = [ip |-> ip, step |-> step]]
    BY <1>2 DEF Resolve
  <2>2. entry[r] = NoEntry /\ pc[r] = "parse"
    BY <1>2 DEF Resolve
  <2>3. Doing("link")' = Doing("link") \cup (IF step = "link" THEN {ip} ELSE {})
    BY <2>1, <2>2, DoingStep
  <2>4. dnsLookUpMap' = dnsLookUpMap /\ pc' = pc
    BY <1>2 DEF Resolve, vars
  <2> QED
    BY <2>1, <2>2, <2>3, <2>4
<1>3. ASSUME NEW r \in ROUTERS, Link(r) \/ Assign(r) PROVE EntriesLocked'
  <2>1. Doing("link")' = {}
    BY <1>3, DoingStep
  <2>2. pc' = pc
    BY <1>3 DEF Link, Assign, vars
  <2>3. \A q \in ROUTERS : entry'[q] # NoEntry => entry[q] # NoEntry
    BY <1>3 DEF Link, Assign, NoEntry
  <2> QED
    BY <2>1, <2>2, <2>3
<1>4. ASSUME NEW r \in ROUTERS, ParseEnds(r) PROVE EntriesLocked'
  BY <1>4 DEF ParseEnds, Parsed, Go, Doing
<1>5. CASE MinuteChange \/ MainStep \/ WriteFails
  <2>1. entry' = entry /\ dnsLookUpMap' = dnsLookUpMap /\ pc' = pc
    BY <1>5 DEF MinuteChange, MainStep, CountMinute, OpenFile, OpenFails, WriteRow,
                WriteFails, EndOfBucket, Rename, mapVars, vars
  <2> QED
    BY <2>1 DEF Doing
<1> QED
  BY <1>1, <1>2, <1>3, <1>4, <1>5 DEF DumpNext, EntryStep

\* An entry takes what it may spoil from what is owed; the walk, when it comes
\* to a map, takes what an entry under way may spoil.
LEMMA OwedStep ==
  ASSUME DumpInv, DumpNext
  PROVE  OwedSafe'
<1> USE DEF DumpInv, OwedSafe, DumpTypeOK
<1>1. ASSUME entry' = entry, dnsLookUpMap' = dnsLookUpMap, mpc' = mpc, bucket' = bucket,
             owed' = owed
      PROVE  OwedSafe'
  BY <1>1 DEF Doing, Bucket
<1>2. ASSUME NEW r \in ROUTERS, Resolve(r) PROVE OwedSafe'
  <2>1. PICK ip \in IPS, step \in {"link", "assign"} :
          /\ entry' = [entry EXCEPT ![r] = [ip |-> ip, step |-> step]]
          /\ owed' = owed \ Unsafe(ip, step)
    BY <1>2 DEF Resolve
  <2>2. entry[r] = NoEntry
    BY <1>2 DEF Resolve
  <2>3. /\ Doing("link")' = Doing("link") \cup (IF step = "link" THEN {ip} ELSE {})
        /\ Doing("assign")' = Doing("assign") \cup (IF step = "assign" THEN {ip} ELSE {})
    BY <2>1, <2>2, DoingStep
  <2>4. dnsLookUpMap' = dnsLookUpMap /\ mpc' = mpc /\ bucket' = bucket
    BY <1>2 DEF Resolve, mainVars
  <2>5. \A j \in owed' : j \in owed /\ j \notin Unsafe(ip, step)
    BY <2>1
  <2>6. CASE step = "assign"
    BY <2>3, <2>4, <2>5, <2>6 DEF Unsafe, Bucket
  <2>7. CASE step = "link"
    BY <2>3, <2>4, <2>5, <2>7 DEF Unsafe, Bucket
  <2> QED
    BY <2>6, <2>7
<1>3. ASSUME NEW r \in ROUTERS, Link(r) PROVE OwedSafe'
  <2>1. /\ entry[r].ip \in IPS /\ Doing("link")' = {} /\ Doing("link") = {entry[r].ip}
        /\ Doing("assign")' = {entry[r].ip}
    BY <1>3, DoingStep
  <2>2. dnsLookUpMap[entry[r].ip] = "absent"
    BY <2>1 DEF EntriesLocked
  <2>3. dnsLookUpMap' = [dnsLookUpMap EXCEPT ![entry[r].ip] = "empty"] /\ owed' = owed
    BY <1>3 DEF Link
  <2> QED
    BY <2>1, <2>2, <2>3
<1>4. ASSUME NEW r \in ROUTERS, Assign(r) PROVE OwedSafe'
  <2>1. entry[r].ip \in IPS /\ Doing("link")' = {} /\ Doing("assign")' = {}
    BY <1>4, DoingStep
  <2>2. dnsLookUpMap' = [dnsLookUpMap EXCEPT ![entry[r].ip] = "named"] /\ owed' = owed
    BY <1>4 DEF Assign
  <2> QED
    BY <2>1, <2>2
<1>5. CASE OpenFile
  <2>1. \A step \in {"link", "assign"} : Doing(step)' = Doing(step)
    BY <1>5 DEF OpenFile, mapVars, Doing
  <2>2. \A ip \in owed' : /\ dnsLookUpMap[ip] = "named" /\ ip \notin Doing("assign")
                          /\ \A j \in Doing("link") : Bucket(j) = 0 => Bucket(ip) # 0
    BY <1>5 DEF OpenFile
  <2>3. bucket' = 0 /\ dnsLookUpMap' = dnsLookUpMap
    BY <1>5 DEF OpenFile, mapVars
  <2> QED
    BY <2>1, <2>2, <2>3 DEF Bucket
<1>6. CASE EndOfBucket
  <2>1. \A step \in {"link", "assign"} : Doing(step)' = Doing(step)
    BY <1>6 DEF EndOfBucket, mapVars, Doing
  <2>2. owed' \subseteq owed /\ dnsLookUpMap' = dnsLookUpMap
    BY <1>6 DEF EndOfBucket, mapVars
  <2>3. mpc' = "walk" =>
          \A ip \in owed', j \in Doing("link") : Bucket(j) = bucket' => Bucket(ip) # bucket'
    BY <1>6 DEF EndOfBucket
  <2> QED
    BY <2>1, <2>2, <2>3 DEF Bucket
<1>7. CASE CountMinute \/ OpenFails \/ Rename
  <2>1. \A step \in {"link", "assign"} : Doing(step)' = Doing(step)
    BY <1>7 DEF CountMinute, OpenFails, Rename, mapVars, Doing
  <2>2. mpc' # "walk" /\ owed' = owed /\ dnsLookUpMap' = dnsLookUpMap
    BY <1>7 DEF CountMinute, OpenFails, Rename, mapVars
  <2> QED
    BY <2>1, <2>2
<1>8. ASSUME NEW r \in ROUTERS, LockStep(r) \/ ParseEnds(r) PROVE OwedSafe'
  BY <1>1, <1>8 DEF LockStep, ParseEnds, mapVars, mainVars
<1>9. CASE MinuteChange \/ WriteRow \/ WriteFails
  BY <1>1, <1>9 DEF MinuteChange, WriteRow, WriteFails, mapVars
<1> QED
  BY <1>2, <1>3, <1>4, <1>5, <1>6, <1>7, <1>8, <1>9 DEF DumpNext, EntryStep, MainStep

\* The row of an owed address is written as the walk comes to it: while nobody
\* links into the map, the iterator goes from each address to the next one.
LEMMA WalkStep ==
  ASSUME DumpInv, WriteRow \/ EndOfBucket
  PROVE  RowsWritten'
<1> USE DEF DumpInv, OwedSafe, RowsWritten, Passed, DumpTypeOK
<1>0. IPS \subseteq Nat /\ bucket \in Nat /\ elem \in Nat /\ mpc = "walk"
  BY DnsDumpAssumption DEF WriteRow, EndOfBucket
<1>1. ASSUME NEW ip \in owed, Bucket(ip) = bucket PROVE ~Racing
  BY <1>0, <1>1 DEF Racing, Doing
<1>2. \A ip \in owed : Bucket(ip) = bucket => ip \in Nodes(bucket)
  BY DEF Nodes
<1>3. CASE WriteRow
  <2>0. PICK ip \in NextNodes : \E name \in ReadName(ip) :
           elem' = ip /\ csvIn' = IF failed THEN csvIn ELSE [csvIn EXCEPT ![ip] = name]
    BY <1>3 DEF WriteRow
  <2>1. PICK name \in ReadName(ip) :
           elem' = ip /\ csvIn' = IF failed THEN csvIn ELSE [csvIn EXCEPT ![ip] = name]
    BY <2>0
  <2>2. ip \in IPS /\ Bucket(ip) = bucket
    BY DEF NextNodes, Nodes, Doing
  <2>3. mpc' = mpc /\ failed' = failed /\ bucket' = bucket /\ owed' = owed
    BY <1>3 DEF WriteRow
  <2> SUFFICES ASSUME ~failed, NEW j \in owed, Passed(j)' PROVE csvIn'[j] = "named"
    BY <2>3
  <2>4. CASE j = ip
    <3>1. ReadName(ip) = {"named"}
      BY <2>4 DEF ReadName
    <3> QED
      BY <2>1, <2>2, <2>4, <3>1 DEF Rows
  <2>5. CASE j # ip
    <3>1. CASE Bucket(j) # bucket
      BY <1>0, <2>1, <2>2, <2>3, <2>5, <3>1 DEF Bucket, Rows
    <3>2. CASE Bucket(j) = bucket
      <4>1. ip \in Nodes(bucket) /\ ip > elem /\ \A k \in Nodes(bucket) : k > elem => ip <= k
        BY <1>1, <3>2 DEF NextNodes
      <4>2. j <= ip
        BY <1>0, <2>1, <2>3, <3>2 DEF Bucket
      <4>3. j <= elem
        BY <1>0, <1>2, <2>2, <2>5, <3>2, <4>1, <4>2
      <4> QED
        BY <1>0, <2>1, <2>2, <2>5, <3>2, <4>3 DEF Rows
    <3> QED
      BY <3>1, <3>2
  <2> QED
    BY <2>4, <2>5
<1>4. CASE EndOfBucket
  <2>1. csvIn' = csvIn /\ failed' = failed /\ owed' \subseteq owed
    BY <1>4 DEF EndOfBucket
  <2>2. \A j \in owed : Bucket(j) = bucket => j <= elem
    BY <1>1, <1>2, <1>4 DEF EndOfBucket, AtEnd
  <2>3. \A j \in owed : Bucket(j) \in Nat /\ Bucket(j) <= BUCKETS - 1
    BY BucketType, DnsDumpAssumption
  <2>4. \A j \in owed' : Passed(j)' => Passed(j)
    <3>1. CASE LastBucket
      BY <1>0, <1>4, <2>1, <2>2, <2>3, <3>1, DnsDumpAssumption DEF EndOfBucket, LastBucket
    <3>2. CASE ~LastBucket
      <4>1. bucket' = bucket + 1 /\ elem' = 0 /\ mpc' = "walk"
        BY <1>0, <1>4, <3>2 DEF EndOfBucket
      <4>2. ASSUME NEW j \in owed', Passed(j)' PROVE Bucket(j) <= bucket
        <5>1. j \in IPS /\ j > 0
          BY <2>1, <4>2, DnsDumpAssumption
        <5>2. Bucket(j)' = Bucket(j)
          BY DEF Bucket
        <5> QED
          BY <1>0, <2>1, <2>3, <4>1, <4>2, <5>1, <5>2
      <4> QED
        BY <1>0, <2>1, <2>2, <2>3, <4>2
    <3> QED
      BY <3>1, <3>2
  <2> QED
    BY <2>1, <2>4
<1> QED
  BY <1>3, <1>4

\* No other step adds to what is owed, or takes from the file or from the walk.
LEMMA RowsStep ==
  ASSUME DumpInv, DumpNext
  PROVE  RowsWritten'
<1> USE DEF DumpInv, RowsWritten, Passed
<1>1. ASSUME owed' \subseteq owed, csvIn' = csvIn, mpc' = mpc, bucket' = bucket, elem' = elem,
             failed => failed'
      PROVE  RowsWritten'
  BY <1>1 DEF Bucket
<1>2. ASSUME NEW r \in ROUTERS, LockStep(r) \/ EntryStep(r) PROVE RowsWritten'
  BY <1>1, <1>2 DEF LockStep, EntryStep, Resolve, Link, Assign, ParseEnds, mainVars
<1>3. CASE MinuteChange \/ WriteFails
  BY <1>1, <1>3 DEF MinuteChange, WriteFails
<1>4. CASE CountMinute \/ OpenFails \/ Rename
  <2>1. mpc' \notin {"walk", "rename"}
    BY <1>4 DEF CountMinute, OpenFails, Rename
  <2> QED
    BY <2>1
<1>5. CASE OpenFile
  <2>1. bucket' = 0 /\ elem' = 0 /\ mpc' = "walk" /\ owed' \subseteq IPS
    BY <1>5 DEF OpenFile
  <2>2. \A ip \in owed' : ip > 0 /\ Bucket(ip) \in Nat
    BY <2>1, BucketType, DnsDumpAssumption
  <2> QED
    BY <2>1, <2>2, DnsDumpAssumption DEF Bucket
<1> QED
  BY <1>2, <1>3, <1>4, <1>5, WalkStep DEF DumpNext, MainStep

\* The invariant holds throughout.
THEOREM DumpInvariant == DumpSpec => []DumpInv
<1>1. DumpInv /\ [DumpNext]_dumpVars => DumpInv'
  <2> SUFFICES ASSUME DumpInv, [DumpNext]_dumpVars PROVE DumpInv'
    OBVIOUS
  <2>1. CASE DumpNext
    BY <2>1, LockKept, DumpTyped, EntriesStep, OwedStep, RowsStep DEF DumpInv
  <2>2. CASE UNCHANGED dumpVars
    <3>1. LockInv'
      BY LockKept DEF DumpInv
    <3> QED
      BY <2>2, <3>1 DEF DumpInv, dumpVars, mapVars, mainVars, vars, DumpTypeOK, TypeOK,
           EntriesLocked, OwedSafe, RowsWritten, Passed, Doing, Bucket
  <2> QED
    BY <2>1, <2>2
<1> QED
  BY InitDump, <1>1, PTL DEF DumpSpec

-----------------------------------------------------------------------------
(* What follows.                                                            *)

\* A program that dumps its map uses the lock as DnsLock says: main, which
\* walks the maps without it, takes nothing from what the lock promises.
THEOREM DumpIsDnsLock == DumpSpec => Spec
<1>1. DumpInit => Init
  BY DEF DumpInit
<1> QED
  BY <1>1, LockUntouched, PTL DEF DumpSpec, Spec

\* For any number of routers, addresses and maps, and wherever routers and the
\* walk meet: a file is published whole.
THEOREM PublishedWholeCorrect == DumpSpec => PublishedWhole
<1>1. ASSUME DumpInv, [DumpNext]_dumpVars
      PROVE  [csv' # csv \/ (mpc = "rename" /\ mpc' # mpc)
                => failed \/ \A ip \in owed : csv'[ip] = "named"]_dumpVars
  <2>1. CASE Rename
    BY <1>1, <2>1 DEF Rename, DumpInv, RowsWritten, Passed
  <2>2. CASE ~Rename
    <3>1. csv' = csv /\ (mpc = "rename" => mpc' = mpc)
      BY <1>1, <2>2 DEF DumpNext, dumpVars, mainVars, LockStep, EntryStep, Resolve, Link,
           Assign, ParseEnds, MinuteChange, MainStep, CountMinute, OpenFile, OpenFails,
           WriteRow, WriteFails, EndOfBucket
    <3> QED
      BY <3>1
  <2> QED
    BY <2>1, <2>2
<1> QED
  BY <1>1, DumpInvariant, PTL DEF DumpSpec, PublishedWhole

-----------------------------------------------------------------------------
(* The log.  Its inductive invariant, whether fopen may fail or not: nothing *)
(* in it speaks of the mutex, which a failed fopen leaves open.             *)

\* How many messages were taken out of the queue, and with how many of them the log's
\* thread is done: written, or lost.
Taken == Len(pushed) - Len(queue)
Done  == IF fpc \in {"lock", "check", "write"} THEN Taken - 1 ELSE Taken

\* Messages are numbered in the order in which they were logged, each for a file that
\* was opened already.
PushedNumbered ==
  \A i \in 1 .. Len(pushed) : pushed[i].id = i /\ pushed[i].for < fileNo

\* The queue has what was logged and not taken, in its order; and the message taken
\* last is the thread's until it has unlocked.
QueueIsRest ==
  /\ Len(queue) <= Len(pushed)
  /\ \A j \in 1 .. Len(queue) : queue[j] = pushed[Taken + j]

MsgIsTaken == IF fpc = "pop" THEN msg = <<>> ELSE Taken > 0 /\ msg = <<pushed[Taken]>>

\* The open file is the last that was opened, and no later one has anything.
LastIsOpen ==
  /\ stream \in {0, fileNo - 1}
  /\ dpc = "fopen" => fileNo <= MAX_FILES
  /\ \A f \in Files : fileNo <= f => file[f] = <<>>

\* The files have nothing but what the thread is done with.
WrittenIsDone ==
  \A f \in Files : \A i \in 1 .. Len(file[f]) : file[f][i].id <= Done

\* What the thread is done with, and was logged for the file that is open, is written.
DoneIsWritten ==
  \A i \in 1 .. Done : stream = pushed[i].for => pushed[i] \in Written

LogInv ==
  /\ LogTypeOK /\ PushedNumbered /\ QueueIsRest /\ MsgIsTaken /\ LastIsOpen
  /\ WrittenIsDone /\ WrittenInOrder /\ DoneIsWritten

\* The log as initializeLog leaves it satisfies the invariant.
LEMMA InitLog == LogInit => LogInv
<1> SUFFICES ASSUME LogInit PROVE LogInv
  OBVIOUS
<1>1. LogTypeOK
  <2>1. stream \in 0 .. MAX_FILES /\ fileNo \in 2 .. MAX_FILES + 1
    BY LogQueueAssumption DEF LogInit
  <2>2. queue \in Seq(Messages) /\ pushed \in Seq(Messages) /\ file \in [Files -> Seq(Messages)]
    BY DEF LogInit
  <2> QED
    BY <2>1, <2>2 DEF LogInit, LogTypeOK
<1>2. Len(pushed) = 0 /\ Len(queue) = 0 /\ \A f \in Files : Len(file[f]) = 0
  BY DEF LogInit
<1> QED
  BY <1>1, <1>2, LogQueueAssumption
     DEF LogInit, LogInv, PushedNumbered, QueueIsRest, MsgIsTaken, LastIsOpen, WrittenIsDone,
         WrittenInOrder, DoneIsWritten, Done, Taken

\* The sequences of the invariant, and how many messages are taken and done with.
LEMMA LogNumbers ==
  ASSUME LogInv
  PROVE  /\ queue \in Seq(Messages) /\ pushed \in Seq(Messages)
         /\ Len(queue) \in Nat /\ Len(pushed) \in Nat
         /\ Taken \in Nat /\ Taken + Len(queue) = Len(pushed)
         /\ Done \in {Taken - 1, Taken} /\ Done \in Nat
         /\ fileNo \in Nat /\ stream \in Nat
         /\ \A f \in Files : file[f] \in Seq(Messages) /\ Len(file[f]) \in Nat
         /\ \A i \in 1 .. Len(pushed) : pushed[i] \in Messages
<1>1. queue \in Seq(Messages) /\ pushed \in Seq(Messages) /\ fileNo \in Nat /\ stream \in Nat
  BY LogQueueAssumption DEF LogInv, LogTypeOK
<1>2. Len(queue) \in Nat /\ Len(pushed) \in Nat /\ Len(queue) <= Len(pushed)
  BY <1>1 DEF LogInv, QueueIsRest
<1>3. Taken \in Nat /\ Taken + Len(queue) = Len(pushed)
  BY <1>2 DEF Taken
<1>4. Done \in {Taken - 1, Taken} /\ Done \in Nat
  BY <1>3 DEF Done, LogInv, MsgIsTaken
<1>5. \A f \in Files : file[f] \in Seq(Messages) /\ Len(file[f]) \in Nat
  BY DEF LogInv, LogTypeOK
<1> QED
  BY <1>1, <1>2, <1>3, <1>4, <1>5

\* A message in a file is one, and its number is a number.
LEMMA InFiles ==
  ASSUME LogInv, NEW f \in Files, NEW i \in 1 .. Len(file[f])
  PROVE  file[f][i] \in Messages /\ file[f][i].id \in Nat
<1>1. file[f] \in Seq(Messages)
  BY DEF LogInv, LogTypeOK
<1>2. file[f][i] \in Messages
  BY <1>1
<1>3. file[f][i].id \in 1 .. MAX_MSGS
  BY <1>2 DEF Messages
<1> QED
  BY <1>2, <1>3, LogQueueAssumption

\* The message that the log's thread has is the one taken last.
LEMMA InHand ==
  ASSUME LogInv, fpc # "pop"
  PROVE  Taken > 0 /\ Taken \in 1 .. Len(pushed) /\ msg = <<pushed[Taken]>>
<1>1. Taken \in Nat /\ Len(queue) \in Nat /\ Len(pushed) \in Nat
      /\ Taken + Len(queue) = Len(pushed)
  BY LogNumbers
<1>2. Taken > 0 /\ msg = <<pushed[Taken]>>
  BY DEF LogInv, MsgIsTaken
<1>3. Taken \in 1 .. Len(pushed)
  BY <1>1, <1>2
<1> QED
  BY <1>2, <1>3

\* What is left alone keeps the invariant.
LEMMA LogRests ==
  ASSUME LogInv, LogTypeOK', UNCHANGED <<stream, queue, fileNo, msg, file, pushed>>,
         Done' = Done, fpc' = "pop" <=> fpc = "pop", dpc' = "fopen" => fileNo <= MAX_FILES
  PROVE  LogInv'
<1>1. Taken' = Taken
  BY DEF Taken
<1>2. Written' = Written
  BY DEF Written
<1>3. PushedNumbered' /\ QueueIsRest' /\ MsgIsTaken' /\ LastIsOpen'
  BY <1>1 DEF LogInv, PushedNumbered, QueueIsRest, MsgIsTaken, LastIsOpen
<1>4. WrittenIsDone' /\ WrittenInOrder' /\ DoneIsWritten'
  BY <1>2 DEF LogInv, WrittenIsDone, WrittenInOrder, DoneIsWritten
<1> QED
  BY <1>3, <1>4 DEF LogInv

\* A thread that takes or frees the mutex, or waits, changes nothing else.
LEMMA MutexOnly ==
  ASSUME LogInv,
         \/ \E w \in WRITERS : EnterLog(w)
         \/ LockToOpen \/ UnlockFailed \/ UnlockOpened \/ LockToClose
         \/ WaitForPush \/ LockToWrite
  PROVE  LogInv'
<1>1. UNCHANGED <<stream, queue, fileNo, msg, file, pushed>>
  BY DEF EnterLog, LockToOpen, UnlockFailed, UnlockOpened, LockToClose, WaitForPush, LockToWrite
<1>2. LogTypeOK'
  <2> USE DEF LogInv, LogTypeOK, Lock, Unlock
  <2>1. CASE \E w \in WRITERS : EnterLog(w)
    BY <2>1 DEF EnterLog
  <2>2. CASE LockToOpen \/ UnlockFailed \/ UnlockOpened \/ LockToClose
    BY <2>2 DEF LockToOpen, UnlockFailed, UnlockOpened, LockToClose
  <2>3. CASE WaitForPush \/ LockToWrite
    BY <2>3 DEF WaitForPush, LockToWrite
  <2> QED
    BY <2>1, <2>2, <2>3
<1>3. Done' = Done /\ (fpc' = "pop" <=> fpc = "pop")
  <2>1. fpc' = fpc \/ (fpc = "lock" /\ fpc' = "check")
    BY DEF EnterLog, LockToOpen, UnlockFailed, UnlockOpened, LockToClose, WaitForPush, LockToWrite
  <2>2. Taken' = Taken
    BY <1>1 DEF Taken
  <2> QED
    BY <2>1, <2>2 DEF Done
<1>4. dpc' = "fopen" => fileNo <= MAX_FILES
  BY DEF EnterLog, LockToOpen, UnlockFailed, UnlockOpened, LockToClose, WaitForPush, LockToWrite,
         LogInv, LastIsOpen
<1> QED
  BY <1>1, <1>2, <1>3, <1>4, LogRests

\* Closing the file, and opening the next: nothing was logged for that one yet.
LEMMA FileChange ==
  ASSUME LogInv, Fopen \/ Close
  PROVE  LogInv'
<1>1. /\ UNCHANGED <<queue, fpc, msg, file, pushed>> /\ fileNo' \in {fileNo, fileNo + 1}
      /\ stream' \in {0, fileNo} /\ (stream' = fileNo => fileNo' = fileNo + 1)
      /\ dpc' # "fopen" /\ fileNo \in 2 .. MAX_FILES + 1
  <2>1. fileNo \in 2 .. MAX_FILES + 1
    BY DEF LogInv, LogTypeOK
  <2>2. CASE Fopen
    BY <2>1, <2>2 DEF Fopen
  <2>3. CASE Close
    BY <2>1, <2>3, LogQueueAssumption DEF Close
  <2> QED
    BY <2>2, <2>3
<1>2. LogTypeOK'
  <2>1. CASE Fopen
    <3>1. fileNo \in 2 .. MAX_FILES /\ fileNo + 1 \in 2 .. MAX_FILES + 1
      BY <1>1, <2>1, LogQueueAssumption DEF Fopen, LogInv, LastIsOpen
    <3>2. stream' \in 0 .. MAX_FILES /\ fileNo' \in 2 .. MAX_FILES + 1
      BY <2>1, <3>1, LogQueueAssumption DEF Fopen
    <3> QED
      BY <2>1, <3>2 DEF Fopen, LogInv, LogTypeOK
  <2>2. CASE Close
    <3>1. stream' \in 0 .. MAX_FILES
      BY <2>2, LogQueueAssumption DEF Close
    <3> QED
      BY <2>2, <3>1 DEF Close, Unlock, LogInv, LogTypeOK
  <2> QED
    BY <2>1, <2>2
<1>3. Taken' = Taken /\ Done' = Done /\ Written' = Written
  BY <1>1 DEF Taken, Done, Written
<1>4. QueueIsRest' /\ MsgIsTaken' /\ WrittenIsDone' /\ WrittenInOrder'
  BY <1>1, <1>3 DEF LogInv, QueueIsRest, MsgIsTaken, WrittenIsDone, WrittenInOrder
<1>5. \A i \in 1 .. Len(pushed) : pushed[i].for \in Nat /\ pushed[i].for > 0
  <2>1. \A i \in 1 .. Len(pushed) : pushed[i] \in [id : 1 .. MAX_MSGS, for : 1 .. MAX_FILES]
    BY LogNumbers DEF Messages
  <2> QED
    BY <2>1, LogQueueAssumption
<1>6. PushedNumbered'
  <2>1. \A i \in 1 .. Len(pushed) : pushed[i].id = i /\ pushed[i].for < fileNo
    BY DEF LogInv, PushedNumbered
  <2>2. PICK n \in Nat : fileNo' = n /\ n >= fileNo
    BY <1>1
  <2>3. \A i \in 1 .. Len(pushed) : pushed[i].id = i /\ pushed[i].for < n
    BY <1>1, <1>5, <2>1, <2>2
  <2> QED
    BY <1>1, <2>2, <2>3 DEF PushedNumbered
<1>7. LastIsOpen'
  <2>1. stream' \in {0, fileNo' - 1}
    <3>1. PICK n \in Nat : n = fileNo
      BY <1>1
    <3>2. stream' = 0 \/ (stream' = n /\ fileNo' = n + 1)
      BY <1>1, <3>1
    <3>3. (n + 1) - 1 = n
      BY <3>1
    <3> QED
      BY <3>2, <3>3
  <2>2. ASSUME NEW f \in Files, fileNo' <= f PROVE file'[f] = <<>>
    <3>1. f \in Nat /\ fileNo <= f
      BY <1>1, <2>2, LogQueueAssumption DEF Files
    <3> QED
      BY <1>1, <3>1 DEF LogInv, LastIsOpen
  <2> QED
    BY <1>1, <2>1, <2>2 DEF LastIsOpen
<1>8. DoneIsWritten'
  <2> SUFFICES ASSUME NEW i \in 1 .. Done, stream' = pushed[i].for PROVE FALSE
    BY <1>1, <1>3 DEF DoneIsWritten
  <2>1. i \in 1 .. Len(pushed)
    BY LogNumbers
  <2>2. pushed[i].for < fileNo /\ pushed[i].for > 0 /\ pushed[i].for \in Nat
    BY <1>5, <2>1 DEF LogInv, PushedNumbered
  <2> QED
    BY <1>1, <2>2
<1> QED
  BY <1>2, <1>4, <1>6, <1>7, <1>8 DEF LogInv

\* Logging: the message is numbered next, and for the file that is open.
LEMMA MessageLogged ==
  ASSUME LogInv, NEW w \in WRITERS, LeaveLog(w)
  PROVE  LogInv'
<1> DEFINE m == [id |-> Len(pushed) + 1, for |-> stream]
<1>1. /\ UNCHANGED <<stream, fileNo, dpc, fpc, msg, file>>
      /\ \/ UNCHANGED <<queue, pushed>>
         \/ /\ stream # 0 /\ Len(pushed) < MAX_MSGS
            /\ queue' = Append(queue, m) /\ pushed' = Append(pushed, m)
  BY DEF LeaveLog, StreamOpen, Push
<1>2. mutex' \in WRITERS \cup {MAIN, FLUSH, NO_THREAD} /\ waiting' \in BOOLEAN
      /\ wpc' \in [WRITERS -> {"out", "in"}] /\ strIsOwn' = strIsOwn
  BY DEF LeaveLog, Unlock, Push, LogInv, LogTypeOK
<1>3. CASE UNCHANGED <<queue, pushed>>
  <2>1. LogTypeOK'
    BY <1>1, <1>2, <1>3 DEF LogInv, LogTypeOK
  <2>2. Done' = Done /\ (dpc' = "fopen" => fileNo <= MAX_FILES)
    BY <1>1, <1>3 DEF Done, Taken, LogInv, LastIsOpen
  <2> QED
    BY <1>1, <1>3, <2>1, <2>2, LogRests
<1>4. CASE /\ stream # 0 /\ Len(pushed) < MAX_MSGS
           /\ queue' = Append(queue, m) /\ pushed' = Append(pushed, m)
  <2>1. m \in Messages
    <3>1. Len(pushed) + 1 \in 1 .. MAX_MSGS /\ stream \in 1 .. MAX_FILES
      BY <1>4, LogNumbers, LogQueueAssumption DEF LogInv, LogTypeOK
    <3> QED
      BY <3>1 DEF Messages
  <2>2. m.id = Len(pushed) + 1 /\ m.for = stream
    OBVIOUS
  <2>3. stream = fileNo - 1 /\ stream < fileNo /\ stream > 0
    <3>1. PICK n \in Nat : n = fileNo /\ n > 1
      BY LogQueueAssumption DEF LogInv, LogTypeOK
    <3>2. stream = n - 1
      BY <1>4, <3>1 DEF LogInv, LastIsOpen
    <3>3. n - 1 < n /\ n - 1 > 0
      BY <3>1
    <3> QED
      BY <3>1, <3>2, <3>3
  <2> HIDE DEF m
  <2>4. /\ queue' \in Seq(Messages) /\ Len(queue') = Len(queue) + 1
        /\ \A j \in 1 .. Len(queue) : queue'[j] = queue[j]
        /\ queue'[Len(queue) + 1] = m
    BY <1>4, <2>1, LogNumbers
  <2>5. /\ pushed' \in Seq(Messages) /\ Len(pushed') = Len(pushed) + 1
        /\ \A i \in 1 .. Len(pushed) : pushed'[i] = pushed[i]
        /\ pushed'[Len(pushed) + 1] = m
    BY <1>4, <2>1, LogNumbers
  <2>6. LogTypeOK'
    BY <1>1, <1>2, <2>4, <2>5 DEF LogInv, LogTypeOK
  <2>7. Taken' = Taken /\ Done' = Done
    <3>1. PICK n \in Nat, k \in Nat : n = Len(pushed) /\ k = Len(queue)
      BY LogNumbers
    <3>2. (n + 1) - (k + 1) = n - k
      BY <3>1
    <3>3. Taken' = Taken
      BY <2>4, <2>5, <3>1, <3>2 DEF Taken
    <3> QED
      BY <1>1, <3>3 DEF Done
  <2>8. PushedNumbered'
    <3>1. PICK n \in Nat : n = Len(pushed)
      BY LogNumbers
    <3>2. \A i \in 1 .. n + 1 : i \in 1 .. n \/ i = n + 1
      BY <3>1
    <3>3. \A i \in 1 .. n : pushed'[i].id = i /\ pushed'[i].for < fileNo
      BY <2>5, <3>1 DEF LogInv, PushedNumbered
    <3>4. pushed'[n + 1].id = n + 1 /\ pushed'[n + 1].for < fileNo
      BY <2>2, <2>3, <2>5, <3>1
    <3> QED
      BY <1>1, <2>5, <3>1, <3>2, <3>3, <3>4 DEF PushedNumbered
  <2>9. QueueIsRest'
    <3>1. PICK n \in Nat, k \in Nat : n = Len(pushed) /\ k = Len(queue)
      BY LogNumbers
    <3>2. k + 1 <= n + 1 /\ Taken \in Nat /\ Taken + k = n
      BY <3>1, LogNumbers DEF LogInv, QueueIsRest
    <3>3. \A j \in 1 .. k + 1 : j \in 1 .. k \/ (j = k + 1 /\ Taken + j = n + 1)
      BY <3>1, <3>2
    <3>4. \A j \in 1 .. k : Taken + j \in 1 .. n
      BY <3>1, <3>2
    <3>5. \A j \in 1 .. k : queue'[j] = pushed'[Taken + j]
      BY <2>4, <2>5, <3>1, <3>4 DEF LogInv, QueueIsRest
    <3>6. queue'[k + 1] = pushed'[n + 1]
      BY <2>4, <2>5, <3>1
    <3>7. \A j \in 1 .. k + 1 : queue'[j] = pushed'[Taken + j]
      BY <3>3, <3>5, <3>6
    <3> QED
      BY <2>4, <2>5, <2>7, <3>1, <3>2, <3>7 DEF QueueIsRest
  <2>10. MsgIsTaken'
    <3>1. MsgIsTaken /\ Taken \in Nat /\ Taken <= Len(pushed)
      BY LogNumbers DEF LogInv
    <3>2. CASE fpc = "pop"
      BY <1>1, <3>1, <3>2 DEF MsgIsTaken
    <3>3. CASE fpc # "pop"
      <4>1. Taken > 0 /\ msg = <<pushed[Taken]>>
        BY <3>1, <3>3 DEF MsgIsTaken
      <4>2. Taken \in 1 .. Len(pushed)
        BY <3>1, <4>1
      <4>3. pushed'[Taken] = pushed[Taken]
        BY <2>5, <4>2
      <4>4. Taken' > 0 /\ msg' = <<pushed'[Taken']>> /\ fpc' # "pop"
        BY <1>1, <2>7, <3>3, <4>1, <4>3
      <4> QED
        BY <4>4 DEF MsgIsTaken
    <3> QED
      BY <3>2, <3>3
  <2>11. LastIsOpen'
    BY <1>1 DEF LogInv, LastIsOpen
  <2>12. Written' = Written
    BY <1>1 DEF Written
  <2>13. WrittenIsDone' /\ WrittenInOrder'
    BY <1>1, <2>7 DEF LogInv, WrittenIsDone, WrittenInOrder
  <2>14. DoneIsWritten'
    <3>1. \A i \in 1 .. Done : i \in 1 .. Len(pushed)
      BY LogNumbers
    <3>2. \A i \in 1 .. Done : stream = pushed[i].for => pushed[i] \in Written
      BY DEF LogInv, DoneIsWritten
    <3>3. \A i \in 1 .. Done : pushed'[i] = pushed[i]
      BY <2>5, <3>1
    <3> QED
      BY <1>1, <2>7, <2>12, <3>2, <3>3 DEF DoneIsWritten
  <2> QED
    BY <2>6, <2>8, <2>9, <2>10, <2>11, <2>13, <2>14 DEF LogInv
<1> QED
  BY <1>1, <1>3, <1>4

\* Taking the next message out of the queue.
LEMMA MessageTaken ==
  ASSUME LogInv, Pop
  PROVE  LogInv'
<1>1. /\ UNCHANGED <<mutex, stream, strIsOwn, waiting, wpc, dpc, fileNo, file, pushed>>
      /\ fpc = "pop" /\ fpc' = "lock" /\ queue # <<>>
      /\ msg' = <<Head(queue)>> /\ queue' = Tail(queue)
  BY DEF Pop
<1>2. /\ Len(queue) > 0 /\ Head(queue) = queue[1] /\ Head(queue) \in Messages
      /\ Tail(queue) \in Seq(Messages) /\ Len(Tail(queue)) = Len(queue) - 1
      /\ \A j \in 1 .. Len(queue) - 1 : Tail(queue)[j] = queue[j + 1]
  <2>1. queue \in Seq(Messages) /\ queue # <<>>
    BY <1>1, LogNumbers
  <2>2. Len(queue) > 0 /\ Head(queue) = queue[1] /\ queue[1] \in Messages
    BY <2>1
  <2>3. Tail(queue) \in Seq(Messages) /\ Len(Tail(queue)) = Len(queue) - 1
    BY <2>1
  <2>4. \A j \in 1 .. Len(queue) - 1 : Tail(queue)[j] = queue[j + 1]
    BY <2>1
  <2> QED
    BY <2>2, <2>3, <2>4
<1>3. LogTypeOK'
  BY <1>1, <1>2 DEF LogInv, LogTypeOK
<1>4. PICK n \in Nat, k \in Nat : n = Len(pushed) /\ k = Len(queue) - 1 /\ Len(queue) = k + 1
  <2>1. Len(queue) \in Nat /\ Len(pushed) \in Nat
    BY LogNumbers
  <2>2. PICK n \in Nat, q \in Nat : n = Len(pushed) /\ q = Len(queue)
    BY <2>1
  <2>3. q - 1 \in Nat /\ q = (q - 1) + 1
    BY <1>2, <2>2
  <2> QED
    BY <2>2, <2>3
<1>5. Taken = n - (k + 1) /\ Taken \in Nat /\ Taken' = n - k /\ n - k = Taken + 1 /\ k <= n
  <2>1. Taken = n - (k + 1) /\ Taken \in Nat /\ k <= n /\ n - k = Taken + 1
    BY <1>4, LogNumbers DEF Taken
  <2>2. Taken' = n - k
    BY <1>1, <1>2, <1>4 DEF Taken
  <2> QED
    BY <2>1, <2>2
<1>6. Done' = Done
  <2>1. Done = Taken
    BY <1>1 DEF Done
  <2>2. Taken' = Taken + 1 /\ Done' = Taken' - 1
    BY <1>1, <1>5 DEF Done
  <2>3. (Taken + 1) - 1 = Taken
    BY <1>5
  <2> QED
    BY <2>1, <2>2, <2>3
<1>7. QueueIsRest'
  <2>1. \A j \in 1 .. k : j + 1 \in 1 .. Len(queue) /\ Taken + (j + 1) = (n - k) + j
    BY <1>4, <1>5
  <2>2. \A j \in 1 .. k : Tail(queue)[j] = pushed[(n - k) + j]
    BY <1>2, <1>4, <2>1 DEF LogInv, QueueIsRest
  <2> QED
    BY <1>1, <1>2, <1>4, <1>5, <2>2 DEF QueueIsRest
<1>8. MsgIsTaken'
  <2>1. queue[1] = pushed[Taken + 1]
    BY <1>2, LogNumbers DEF LogInv, QueueIsRest
  <2>2. Taken' = Taken + 1 /\ Taken + 1 > 0
    BY <1>5
  <2> QED
    BY <1>1, <1>2, <2>1, <2>2 DEF MsgIsTaken
<1>9. Written' = Written
  BY <1>1 DEF Written
<1>10. PushedNumbered' /\ LastIsOpen' /\ WrittenIsDone' /\ WrittenInOrder' /\ DoneIsWritten'
  BY <1>1, <1>6, <1>9
     DEF LogInv, PushedNumbered, LastIsOpen, WrittenIsDone, WrittenInOrder, DoneIsWritten
<1> QED
  BY <1>3, <1>7, <1>8, <1>10 DEF LogInv

\* With no file open a message is lost, also when the file is closed between the test and
\* the write: what was logged for a file that may be open again is not meant.
LEMMA MessageLost ==
  ASSUME LogInv, CheckStream \/ FwriteNull
  PROVE  LogInv'
<1>1. /\ UNCHANGED <<mutex, stream, strIsOwn, queue, waiting, wpc, dpc, fileNo, msg, file, pushed>>
      /\ fpc \in {"check", "write"} /\ fpc' \in {"write", "unlock", "crashed"}
      /\ stream # 0 => fpc' = "write"
  BY DEF CheckStream, FwriteNull
<1>2. LogTypeOK'
  BY <1>1 DEF LogInv, LogTypeOK
<1>3. Taken' = Taken /\ Written' = Written
  BY <1>1 DEF Taken, Written
<1>4. Done <= Done' /\ Done' \in Nat /\ Done' \in {Done, Taken} /\ (stream # 0 => Done' = Done)
  <2>1. Done = Taken - 1 /\ Taken \in Nat /\ Taken - 1 \in Nat
    BY <1>1, LogNumbers DEF Done
  <2>2. Done' = Taken - 1 \/ (Done' = Taken /\ stream = 0)
    BY <1>1, <1>3 DEF Done
  <2> QED
    BY <2>1, <2>2
<1>5. PushedNumbered' /\ QueueIsRest' /\ MsgIsTaken' /\ LastIsOpen' /\ WrittenInOrder'
  BY <1>1, <1>3
     DEF LogInv, PushedNumbered, QueueIsRest, MsgIsTaken, LastIsOpen, WrittenInOrder
<1>6. WrittenIsDone'
  <2>1. \A f \in Files : \A i \in 1 .. Len(file[f]) : file[f][i].id \in Nat
    <3>1. \A f \in Files : \A i \in 1 .. Len(file[f]) : file[f][i] \in Messages
      BY LogNumbers
    <3>2. \A q \in Messages : q.id \in 1 .. MAX_MSGS
      BY DEF Messages
    <3>3. \A q \in Messages : q.id \in Nat
      BY <3>2, LogQueueAssumption
    <3> QED
      BY <3>1, <3>3
  <2>2. PICK d \in Nat : d = Done' /\ Done <= d /\ Done \in Nat
    BY <1>4, LogNumbers
  <2>3. \A f \in Files : \A i \in 1 .. Len(file[f]) : file[f][i].id <= d
    BY <2>1, <2>2 DEF LogInv, WrittenIsDone
  <2> QED
    BY <1>1, <2>2, <2>3 DEF WrittenIsDone
<1>7. DoneIsWritten'
  <2>1. CASE stream # 0
    BY <1>1, <1>3, <1>4, <2>1 DEF LogInv, DoneIsWritten
  <2>2. CASE stream = 0
    <3>1. \A q \in Messages : q.for \in 1 .. MAX_FILES
      BY DEF Messages
    <3>2. \A i \in 1 .. Len(pushed) : pushed[i].for # 0
      BY <3>1, LogNumbers, LogQueueAssumption
    <3>3. \A i \in 1 .. Taken : i \in 1 .. Len(pushed)
      BY LogNumbers
    <3>4. \A i \in 1 .. Done : i \in 1 .. Taken
      BY LogNumbers
    <3>5. \A i \in 1 .. Done' : i \in 1 .. Len(pushed)
      BY <1>4, <3>3, <3>4
    <3> QED
      BY <1>1, <2>2, <3>2, <3>5 DEF DoneIsWritten
  <2> QED
    BY <2>1, <2>2
<1> QED
  BY <1>2, <1>5, <1>6, <1>7 DEF LogInv

\* Writing: the message goes behind all that is written, for its number is the greatest
\* taken, and no file is younger than the open one but empty ones.
LEMMA MessageWritten ==
  ASSUME LogInv, Fwrite
  PROVE  LogInv'
<1> DEFINE m == pushed[Taken]
           n == Len(file[stream])
<1>1. /\ UNCHANGED <<mutex, stream, strIsOwn, queue, waiting, wpc, dpc, fileNo, msg, pushed>>
      /\ fpc = "write" /\ fpc' = "unlock" /\ stream # 0
      /\ file' = [file EXCEPT ![stream] = file[stream] \o msg]
  BY DEF Fwrite
<1>2. Taken > 0 /\ msg = <<m>> /\ Taken \in 1 .. Len(pushed)
  BY <1>1, InHand
<1>3. m \in Messages /\ m.id = Taken /\ m.for < fileNo
  BY <1>2, LogNumbers DEF LogInv, PushedNumbered
<1>4. stream \in Files /\ stream = fileNo - 1 /\ fileNo \in Nat /\ fileNo > 1
  <2>1. stream \in 0 .. MAX_FILES /\ fileNo \in 2 .. MAX_FILES + 1
    BY DEF LogInv, LogTypeOK
  <2>2. stream \in Files /\ fileNo \in Nat /\ fileNo > 1
    BY <1>1, <2>1, LogQueueAssumption DEF Files
  <2> QED
    BY <1>1, <2>2 DEF LogInv, LastIsOpen
<1>5. m.for <= stream
  <2>1. m.for \in Nat
    <3>1. m.for \in 1 .. MAX_FILES
      BY <1>3 DEF Messages
    <3> QED
      BY <3>1, LogQueueAssumption
  <2> QED
    BY <1>3, <1>4, <2>1
<1>6. \A f \in Files : fileNo <= f <=> stream < f
  BY <1>4, LogQueueAssumption DEF Files
<1>7. Taken' = Taken /\ Done = Taken - 1 /\ Done' = Taken
  BY <1>1 DEF Taken, Done
<1>8. n \in Nat /\ file[stream] \in Seq(Messages) /\ file \in [Files -> Seq(Messages)]
  BY <1>4, LogNumbers DEF LogInv, LogTypeOK
<1> HIDE DEF m
<1>9. /\ file'[stream] \in Seq(Messages) /\ Len(file'[stream]) = n + 1
      /\ \A i \in 1 .. n : file'[stream][i] = file[stream][i]
      /\ file'[stream][n + 1] = m
      /\ \A f \in Files : f # stream => file'[f] = file[f]
  <2>1. PICK s \in Seq(Messages) : s = file[stream]
    BY <1>8
  <2>2. s \o <<m>> \in Seq(Messages) /\ Len(s \o <<m>>) = Len(s) + 1
    BY <1>3, <2>1
  <2>3. (s \o <<m>>)[Len(s) + 1] = m
    BY <1>3, <2>1
  <2>4. \A i \in 1 .. Len(s) : (s \o <<m>>)[i] = s[i]
    BY <1>3, <2>1
  <2>5. file'[stream] = s \o <<m>> /\ \A f \in Files : f # stream => file'[f] = file[f]
    BY <1>1, <1>2, <1>4, <1>8, <2>1
  <2> QED
    BY <2>1, <2>2, <2>3, <2>4, <2>5
<1> HIDE DEF n
<1>10. file' \in [Files -> Seq(Messages)]
  <2>1. file[stream] \o msg \in Seq(Messages)
    BY <1>1, <1>4, <1>8, <1>9
  <2> QED
    BY <1>1, <1>8, <2>1
<1>11. LogTypeOK'
  BY <1>1, <1>10 DEF LogInv, LogTypeOK
<1>12. \A f \in Files : \A i \in 1 .. Len(file'[f]) :
         \/ i \in 1 .. Len(file[f]) /\ file'[f][i] = file[f][i]
         \/ f = stream /\ i = n + 1 /\ file'[f][i] = m
  <2> SUFFICES ASSUME NEW f \in Files, NEW i \in 1 .. Len(file'[f])
               PROVE  \/ i \in 1 .. Len(file[f]) /\ file'[f][i] = file[f][i]
                      \/ f = stream /\ i = n + 1 /\ file'[f][i] = m
    OBVIOUS
  <2>1. CASE f # stream
    BY <1>9, <2>1
  <2>2. CASE f = stream
    <3>1. i \in 1 .. n + 1
      BY <1>9, <2>2
    <3>2. i \in 1 .. n \/ i = n + 1
      BY <1>8, <3>1
    <3> QED
      BY <1>9, <2>2, <3>2 DEF n
  <2> QED
    BY <2>1, <2>2
<1>13. \A f \in Files : \A i \in 1 .. Len(file[f]) :
         i \in 1 .. Len(file'[f]) /\ file'[f][i] = file[f][i]
  <2> SUFFICES ASSUME NEW f \in Files, NEW i \in 1 .. Len(file[f])
               PROVE  i \in 1 .. Len(file'[f]) /\ file'[f][i] = file[f][i]
    OBVIOUS
  <2>1. CASE f # stream
    BY <1>9, <2>1
  <2>2. CASE f = stream
    <3>1. i \in 1 .. n
      BY <2>2 DEF n
    <3>2. i \in 1 .. n + 1
      BY <1>8, <3>1
    <3> QED
      BY <1>9, <2>2, <3>1, <3>2
  <2> QED
    BY <2>1, <2>2
<1>14. \A f \in Files : \A i \in 1 .. Len(file[f]) :
         file[f][i].id \in Nat /\ file[f][i].id <= Taken - 1
  BY <1>7, InFiles DEF LogInv, WrittenIsDone
<1>15. PushedNumbered' /\ QueueIsRest' /\ MsgIsTaken'
  <2>1. PushedNumbered' /\ QueueIsRest'
    BY <1>1, <1>7 DEF LogInv, PushedNumbered, QueueIsRest
  <2>2. Taken' > 0 /\ msg' = <<pushed'[Taken]>>
    BY <1>1, <1>2, <1>7 DEF m
  <2> QED
    BY <1>1, <1>7, <2>1, <2>2 DEF MsgIsTaken
<1>16. LastIsOpen'
  <2>1. \A f \in Files : fileNo <= f => f # stream
    BY <1>4, <1>6
  <2> QED
    BY <1>1, <1>9, <2>1 DEF LogInv, LastIsOpen
<1>17. WrittenIsDone'
  <2>1. \A f \in Files : \A i \in 1 .. Len(file'[f]) : file'[f][i].id <= Taken
    <3> SUFFICES ASSUME NEW f \in Files, NEW i \in 1 .. Len(file'[f])
                 PROVE  file'[f][i].id <= Taken
      OBVIOUS
    <3>1. CASE i \in 1 .. Len(file[f]) /\ file'[f][i] = file[f][i]
      <4>1. PICK d \in Nat : d = file[f][i].id /\ d <= Taken - 1
        BY <1>14, <3>1
      <4>2. PICK t \in Nat : t = Taken
        BY LogNumbers
      <4> QED
        BY <3>1, <4>1, <4>2
    <3>2. CASE file'[f][i] = m
      BY <1>3, <3>2, LogNumbers
    <3> QED
      BY <1>12, <3>1, <3>2
  <2> QED
    BY <1>7, <2>1 DEF WrittenIsDone
<1>18. WrittenInOrder'
  <2>1. ASSUME NEW f \in Files, NEW i \in 1 .. Len(file'[f]) PROVE file'[f][i].for <= f
    BY <1>3, <1>5, <1>12 DEF LogInv, WrittenInOrder
  <2>2. ASSUME NEW f \in Files, NEW g \in Files,
               NEW i \in 1 .. Len(file'[f]), NEW j \in 1 .. Len(file'[g]),
               f < g \/ (f = g /\ i < j)
        PROVE  file'[f][i].id < file'[g][j].id
    <3>1. CASE /\ i \in 1 .. Len(file[f]) /\ file'[f][i] = file[f][i]
               /\ j \in 1 .. Len(file[g]) /\ file'[g][j] = file[g][j]
      BY <2>2, <3>1 DEF LogInv, WrittenInOrder
    <3>2. CASE /\ i \in 1 .. Len(file[f]) /\ file'[f][i] = file[f][i]
               /\ file'[g][j] = m
      <4>1. PICK d \in Nat : d = file[f][i].id /\ d <= Taken - 1
        BY <1>14, <3>2
      <4>2. PICK t \in Nat : t = Taken
        BY LogNumbers
      <4> QED
        BY <1>3, <3>2, <4>1, <4>2
    <3>3. CASE f = stream /\ i = n + 1
      <4>1. CASE f < g
        <5>1. file[g] = <<>> /\ file'[g] = file[g]
          <6>1. g # stream /\ fileNo <= g
            BY <1>4, <1>6, <3>3, <4>1
          <6> QED
            BY <1>9, <6>1 DEF LogInv, LastIsOpen
        <5>2. Len(file'[g]) = 0
          BY <5>1
        <5> QED
          BY <5>2
      <4>2. CASE f = g /\ i < j
        <5>1. j \in 1 .. n + 1
          BY <1>9, <3>3, <4>2
        <5> QED
          BY <1>8, <3>3, <4>2, <5>1
      <4> QED
        BY <2>2, <4>1, <4>2
    <3> QED
      BY <1>12, <3>1, <3>2, <3>3
  <2> QED
    BY <2>1, <2>2 DEF WrittenInOrder
<1>19. DoneIsWritten'
  <2>1. ASSUME NEW q \in Written PROVE q \in Written'
    <3>1. PICK f \in Files : q \in Range(file[f])
      BY <2>1 DEF Written
    <3>2. PICK i \in 1 .. Len(file[f]) : q = file[f][i]
      BY <3>1, LogNumbers DEF Range
    <3>3. i \in 1 .. Len(file'[f]) /\ q = file'[f][i]
      BY <1>13, <3>2
    <3>4. file'[f] \in Seq(Messages)
      BY <1>10
    <3> QED
      BY <3>3, <3>4 DEF Written, Range
  <2>2. m \in Written'
    <3>1. n + 1 \in 1 .. Len(file'[stream])
      BY <1>8, <1>9
    <3>2. m \in Range(file'[stream])
      BY <1>9, <3>1 DEF Range
    <3> QED
      BY <1>4, <3>2 DEF Written
  <2>3. \A i \in 1 .. Taken : i \in 1 .. Done \/ i = Taken
    BY <1>7, LogNumbers
  <2> QED
    BY <1>1, <1>7, <2>1, <2>2, <2>3 DEF LogInv, DoneIsWritten, m
<1> QED
  BY <1>11, <1>15, <1>16, <1>17, <1>18, <1>19 DEF LogInv

\* Done with a message.
LEMMA MessageLeft ==
  ASSUME LogInv, UnlockWritten
  PROVE  LogInv'
<1>1. /\ UNCHANGED <<stream, strIsOwn, queue, waiting, wpc, dpc, fileNo, file, pushed>>
      /\ fpc = "unlock" /\ fpc' = "pop" /\ msg' = <<>> /\ mutex' = NO_THREAD
  BY DEF UnlockWritten, Unlock
<1>2. LogTypeOK'
  BY <1>1 DEF LogInv, LogTypeOK
<1>3. Taken' = Taken /\ Done' = Done /\ Written' = Written
  BY <1>1 DEF Taken, Done, Written
<1>4. PushedNumbered' /\ QueueIsRest' /\ MsgIsTaken' /\ LastIsOpen' /\ WrittenIsDone'
  BY <1>1, <1>3
     DEF LogInv, PushedNumbered, QueueIsRest, MsgIsTaken, LastIsOpen, WrittenIsDone
<1>5. WrittenInOrder' /\ DoneIsWritten'
  BY <1>1, <1>3 DEF LogInv, WrittenInOrder, DoneIsWritten
<1> QED
  BY <1>2, <1>4, <1>5 DEF LogInv

LEMMA LogStep == LogInv /\ [LogNext]_logVars => LogInv'
<1> SUFFICES ASSUME LogInv, [LogNext]_logVars PROVE LogInv'
  OBVIOUS
<1>1. CASE UNCHANGED logVars
  BY <1>1 DEF logVars, LogInv, LogTypeOK, PushedNumbered, QueueIsRest, MsgIsTaken, LastIsOpen,
              WrittenIsDone, WrittenInOrder, DoneIsWritten, Written, Taken, Done
<1>2. CASE DayChange
  BY <1>2, MutexOnly, FileChange DEF DayChange
<1>3. CASE FlushStep
  BY <1>3, MutexOnly, MessageTaken, MessageLost, MessageWritten, MessageLeft DEF FlushStep
<1>4. CASE \E w \in WRITERS : EnterLog(w) \/ LeaveLog(w)
  BY <1>4, MutexOnly, MessageLogged
<1> QED
  BY <1>1, <1>2, <1>3, <1>4 DEF LogNext

\* The inductive invariant of the log.
THEOREM LogInvariant == LogSpec => []LogInv
<1> QED
  BY InitLog, LogStep, PTL DEF LogSpec

\* From file to file the log is in the order in which messages were logged, none twice,
\* and none in a file older than the one that was open then: however many threads log,
\* and even when a failed fopen lets two of them into the code that the mutex guards.
THEOREM WrittenInOrderCorrect == LogSpec => []WrittenInOrder
<1>1. LogInv => WrittenInOrder
  BY DEF LogInv
<1> QED
  BY <1>1, LogInvariant, PTL

\* A message is lost or filed late only if its file was closed meanwhile.
THEOREM KeptWhileOpenCorrect == LogSpec => []KeptWhileOpen
<1>1. LogInv => KeptWhileOpen
  <2> SUFFICES ASSUME LogInv, NEW i \in 1 .. Len(pushed), stream = pushed[i].for
               PROVE  pushed[i] \in Range(queue) \cup Range(msg) \cup Written
    BY DEF KeptWhileOpen
  <2>1. CASE i <= Done
    <3>1. i \in 1 .. Done
      BY <2>1, LogNumbers
    <3> QED
      BY <3>1 DEF LogInv, DoneIsWritten
  <2>2. CASE i > Taken
    <3>1. i - Taken \in 1 .. Len(queue) /\ Taken + (i - Taken) = i
      BY <2>2, LogNumbers
    <3>2. pushed[i] = queue[i - Taken]
      BY <3>1 DEF LogInv, QueueIsRest
    <3>3. queue \in Seq(Messages)
      BY LogNumbers
    <3> QED
      BY <3>1, <3>2, <3>3 DEF Range
  <2>3. CASE i = Taken /\ Done # Taken
    <3>1. fpc # "pop"
      BY <2>3 DEF Done
    <3>2. msg = <<pushed[Taken]>>
      BY <3>1 DEF LogInv, MsgIsTaken
    <3>3. pushed[i] \in Range(msg)
      BY <2>3, <3>2 DEF Range
    <3> QED
      BY <3>3
  <2>4. i <= Done \/ i > Taken \/ (i = Taken /\ Done # Taken)
    BY LogNumbers
  <2> QED
    BY <2>1, <2>2, <2>3, <2>4
<1> QED
  BY <1>1, LogInvariant, PTL

-----------------------------------------------------------------------------
(* The log's mutex, as long as fopen does not fail.                         *)

\* Who is in the code that the mutex guards has it, and no open has failed.
LockHeld ==
  /\ \A w \in WRITERS : wpc[w] = "in" => mutex = w
  /\ dpc \in {"fopen", "opened", "close"} => mutex = MAIN
  /\ fpc \in {"check", "write", "unlock"} => mutex = FLUSH
  /\ dpc # "failed"

\* One thread at a time is in the code that the log's mutex guards ("per-instance
\* mutex", Log.h), as long as no fopen fails.
THEOREM OneInLogCorrect == ~OPEN_MAY_FAIL => (LogSpec => []OneInLog)
<1> SUFFICES ASSUME ~OPEN_MAY_FAIL PROVE LogSpec => []OneInLog
  OBVIOUS
<1>1. LogInit => LockHeld
  BY DEF LogInit, LockHeld
<1>2. LogInv /\ LockHeld /\ [LogNext]_logVars => LockHeld'
  <2> SUFFICES ASSUME LogInv, LockHeld, [LogNext]_logVars PROVE LockHeld'
    OBVIOUS
  <2>1. wpc \in [WRITERS -> {"out", "in"}]
    BY DEF LogInv, LogTypeOK
  <2>2. CASE UNCHANGED logVars
    BY <2>2 DEF logVars, LockHeld
  <2>3. CASE DayChange
    BY <2>3, LogQueueAssumption
       DEF DayChange, LockToOpen, Fopen, UnlockFailed, UnlockOpened, LockToClose, Close,
           Lock, Unlock, LockHeld
  <2>4. CASE FlushStep
    BY <2>4, LogQueueAssumption
       DEF FlushStep, WaitForPush, Pop, LockToWrite, CheckStream, Fwrite, FwriteNull,
           UnlockWritten, Lock, Unlock, LockHeld
  <2>5. ASSUME NEW w \in WRITERS, EnterLog(w) \/ LeaveLog(w) PROVE LockHeld'
    BY <2>1, <2>5, LogQueueAssumption DEF EnterLog, LeaveLog, Lock, Unlock, LockHeld
  <2> QED
    BY <2>2, <2>3, <2>4, <2>5 DEF LogNext
<1>3. LogInv /\ LockHeld => OneInLog
  <2> SUFFICES ASSUME LogInv, LockHeld PROVE Cardinality(InLog) <= 1
    BY DEF OneInLog
  <2>1. InLog \subseteq {mutex}
    BY DEF InLog, LockHeld
  <2>2. IsFiniteSet({mutex}) /\ Cardinality({mutex}) = 1
    BY FS_Singleton
  <2>3. Cardinality(InLog) <= Cardinality({mutex})
    BY <2>1, <2>2, FS_Subset
  <2> QED
    BY <2>2, <2>3
<1> QED
  BY <1>1, <1>2, <1>3, LogInvariant, PTL DEF LogSpec

=============================================================================
