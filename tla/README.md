# A TLA+ model of the Spectra probe client

The program is a packet probe: it captures packets on up to eight network interfaces, classifies
them, sends a message per packet to a session server over ZeroMQ, and writes a bandwidth row a
minute.  It is a set of threads that hand data to each other through global arrays, almost all of
them without a lock: what keeps two threads apart is that they use different *seconds* of a ring.
This directory holds TLA+ modules of those hand-overs, configurations that TLC checks, and theorems
that TLAPS checks.  Line references are to `src/`.

## 1. The system

### Threads and what they share

| Thread | Code | Writes | Reads |
|---|---|---|---|
| clock (`glbTimer`), one | `core/src/glbTimer.cpp` | `CURRENT_EPOCH_SEC`, later in the loop `CURRENT_MIN`, hour, day | the host's time |
| listener, one per interface | `packetsource/ethernet/src/EthernetSource.cpp`, or `packetsource/solarflare/src/PacketListener.cpp` | `PKTStore::pktRepository`, `pktRepoCnt` | the clock, `pktRepoBusy`, `PACKET_PROCESSING` |
| `PacketRouter`, several per interface | `core/src/PacketRouter.cpp`, parsers | `pktRepoBusy`, `pktRepoCnt`; the agent stores; the per-minute volumes; the DNS maps | the clock, `pktRepository` |
| Tcp, Udp, Dns, Aaa agent, one each per interface | `core/src/TcpAgent.cpp` and its three siblings | the counters of the agent store | the clock, the agent store |
| `processBw`, one | `core/src/processBw.cpp` | the row | what the routers publish |
| Log's own thread | `utility/log/src/Log.cpp` `_flush` | the log file | the log's queue |
| main | `core/src/Main.cpp`, `core/src/SpectaProbe.cpp`, `core/src/GConfig.cpp` | the running flags, `PACKET_PROCESSING`, `PUSH_TO_QUEUE`, log file, settings, the dump's files | the clock, the DNS maps |
| admin port | `core/src/AdminPortReader.cpp` | `PUSH_TO_QUEUE`, settings | commands, `client.config` |
| statistics, NIC monitors | `ProbeStats*.cpp`, `InterfaceMonitor.cpp` | nothing shared | counters |

`initializeLocks` sets up the only lock round shared data besides the log's: the one of the DNS maps.

### Components, their state and operations, and what makes them correct

* **Time rings** (`core/inc/IPGlobal.h:72-74`).  Three macros turn a second into one of ten slots: a
  producer fills the slot of the *next* second, a consumer empties the slots of the seconds *before*
  the current one.  Correct: producer and consumer of one lane are never in one slot.
* **Packet ring** (`PKTStore`: `[interface][router][10]` of busy flag, counter, array of `RawPkt`).
  The listener's callback chooses slot and router, tests busy and room, fills a record, counts it
  up.  The router walks the slots up to the clock's, reads the count, marks the slot busy, decodes
  the records counting them down, sets the count to 0, frees the slot.  Correct: every stored packet
  is decoded once, in order, unaltered; a record decoded is young enough for the bandwidth arrays;
  nothing is refused while another router has room; counters never wrap; only allocated records are
  touched.
* **Agent stores** (`tcpAgent`, `udpAgent`, `dnsAgent`, `aaaAgent`: `[interface][router][10]` of
  counter and map of `MPacket`).  Routers push (`push*ToAgentQueue`, `copyMsgObj`), one agent per
  protocol sends.  There is no busy flag.  Correct: as above, and messages leave in the order of
  their seconds over all routers.
* **Bandwidth** (`BWData`, `CDNData`, `PeeringData`, `processBw`).  Each router files packet sizes
  in one of two arrays of 100 seconds, chosen by the minute's parity; as the minute changes it
  publishes the other array's total and busiest second; `processBw` sums the routers' fields into a
  row.  Correct: each published minute is exact and counted once; a row is not stale.
* **DNS map lock** (`plugins/tcp/src/UDPParser.cpp:32-48`): a mutex, a condition variable and a
  counter.  Correct: one router inside; a waiter is always woken.
* **DNS maps and their dump** (`DnsData::updateDns`, `ProbeUtility::dnsDumpIpv4Data`): routers enter
  addresses in ten maps under that lock; main walks the maps without it every `DNS_DUMP_TIME`
  minutes, writes a file and renames it over the published one.  Correct: the published file lacks
  only what the routers changed under the walk, and comes to be right when they rest.
* **Log** (`utility/log`): callers enqueue, a thread writes, the main thread changes the file at
  midnight.  Correct: messages in order, in the file that was open or a later one, none lost while
  its file stays open; one thread at a time in the guarded code.
* **Classification** (`decodePacket`, `checkCDNV4`, `checkPeering`, the parsers).  Per router one
  `MPacket`, a union of four records reset before each packet, and the parser's `vlan_id`, which is
  not reset.  Correct: a record has its own packet's VLAN, DNS flag and name, though the records share
  bytes; a packet is counted once, and as the CDN's or a peer's or neither's.
* **Table of the operator's ranges** (`IPV4_RANGE`, `IPV4_NO_OF_RANGE`): rewritten in place by the admin
  port's LOAD and by main's `readUserIpv4Config`, scanned by the routers for the direction.  Correct:
  a scan finds what it would in one table; a load leaves its file's ranges.
* **Start, day change, shutdown, admin port**: flags written by main, by the admin port's thread and
  by a signal handler that runs on main.  Main starts clock, routers and agents, listeners and admin
  port, then turns pushing and traffic on, one interface a minute; at midnight it turns
  `PUSH_TO_QUEUE` off, waits, and on again, 30 s an interface.  The handler turns off traffic,
  statistics, listeners, routers, and the rest, 5 s apart, and main exits.  Correct: a stop leaves no
  packet behind, and comes to an end; no interface is left without pushing by accident.
* **Configuration** (`GConfig`, and `AdminPortReader::refreshConfig` for LOAD): two loops that read a
  file word by word, try every key they know on each word, and write `IPGlobal`'s variables; the
  start asks for flags (`PROCESS_CDN`, `PROCESS_PEERING`, `USER_IPV4_DIR_STATUS`) that LOAD does not
  ask for.  Correct: a key has the value of its last line that counts; a LOAD leaves what a restart
  would; the user's file of ranges prevails over `client.config`'s where it is in use.
* **Statistics, vendored libraries** (`zmq.hpp`, `solar*.h`): printing, I/O.

### What is hard here

Unlocked counters with `++` on one thread and `--` on another; a busy flag that is set after the
count was read; indices computed from a clock that goes on ticking; a macro that reads the clock
twice; a second clock (the NIC's); minutes told apart by parity and by `!=` on 0..59; a condition
variable signalled only for a zero count; a mutex unlocked twice on an error path; threads told to
stop one after the other with sleeps in between.  `PROJECT.json` lists each with its line and the
properties that would catch it, or why none does yet.

## 2. Modules

| Module | Models | Extends |
|---|---|---|
| `TimeRing` | the three index macros, for a ring of `TIME_INDEX` slots | |
| `TimeRingProofs` | what the macros give | `TimeRing` |
| `Handoff` | abstract: a lane is a reliable queue | |
| `Relay` | abstract: a lane passes on, in order, what it does not drop | |
| `PacketRing` | clock, listener (Ethernet or Solarflare), routers of one interface | `TimeRing`; instance of `Handoff` |
| `PacketRingProofs` | | `PacketRing`, `TimeRingProofs` |
| `AgentRing` | clock, routers and one agent of one interface and protocol | `TimeRing`; instance of `Handoff` |
| `AgentRingProofs` | | `AgentRing`, `TimeRingProofs` |
| `Pipeline` | the two rings composed: one clock, the router one thread in both | instances of `PacketRing`, `AgentRing` and `Relay` |
| `PipelineProofs` | | `Pipeline`; instances of the rings' proofs |
| `Bandwidth` | clock (second and minute apart), routers' volumes, `processBw`, LOAD's switch | |
| `BandwidthProofs` | | `Bandwidth` |
| `LogQueue` | writers, the main thread's file change, `_flush`, `SafeQueue` | |
| `DnsLock` | `lockDnsMap`, `unLockDnsMap` | |
| `DnsDump` | the DNS maps, main's walk of them, and the two files | `DnsLock` |
| `LockProofs` | | `DnsDump`, `LogQueue` |
| `Lifecycle` | main, signal handler, admin thread, and one packet from listener to socket | |
| `Direction` | the three directions of a packet | |
| `Classify` | parsers and `decodePacket`, one router, packet after packet | `Direction` |
| `Config` | the two files, the start's reading, LOAD, and main's rereading of the user's ranges | |
| `MCConfig` | the files of the run | `Config` |
| `ControlProofs` | | `Lifecycle`, `Config` |
| `RangeTable` | the table of ranges, its loaders and their strtok, one router's scan | `Direction` |
| `ParserProofs` | | `RangeTable`, `Classify` |
| `MCRangeTable` | the ranges of the run | `RangeTable` |

A configuration instantiates its module directly where its constants are numbers and sets of model
values, and through an `MC` module where they are records or sequences (`MCRangeTable`, `MCConfig`).

### Grain

An action is what a thread does between two accesses to shared state.  `x++` and `x--` on a shared
counter are two actions, load and store.  Reads of state that only the reading thread writes are
part of the action that uses them.  History variables (the second behind an index, what was stored
and decoded) are read by no guard, with one exception: the guard of the clock's tick.

### Time and scheduling

The rings are safe only if threads are not too late, and no code enforces it: no test looks at the
age of a slot.  The models make that dependence explicit.  `Tick` is enabled only while no loop of a
consumer has seen more than `ROUTER_LAG` (`AGENT_LAG`) ticks since it read the clock, and no
producer more than `LISTENER_LAG` (`PUSH_LAG`) since it read the clock.  `Timely` then says which
bounds the ring tolerates:

* producer lag plus what the NIC's clock is behind: at most 1 second, the one-slot gap;
* twice the consumer's lag, plus one, plus what the NIC's clock is ahead: less than the ring.

Router and agent loops sleep 25 ms a turn, `processBw` 1 s, and a callback or a push is a few
microseconds, so with ten slots consumers may be four seconds late; a `send` that blocks for longer
(`TcpAgent.cpp:79`) breaks the bound.  Properties that hold under *any* scheduling (`CounterSound`,
`WithinAllocation`, types) are proved without `Timely`.  In `Pipeline` the two rings' bounds are in
force at once, and a push needs none of its own: it is part of its router's loop.

The clock of the models goes on by single seconds.  The program's is the host's (`glbTimer.cpp:26`), and
somebody may set it: a step forward is a thread late by as much, which the lags cover; after a step back a
router whose slot is now ahead of the clock walks almost the whole ring, the listener's slot included.
That is assumed not to happen.

### The clock read twice

`PKT_WRITE_TIME_INDEX(epochsec, idx)` (`IPGlobal.h:73`) names its argument twice.
`EthernetSource.cpp:179` and `PacketRouter.cpp:331`, `:344`, `:356`, `:366` pass the global
`CURRENT_EPOCH_SEC` itself, and `probe.mk:12` builds with `-O0`, which loads the global twice.  If the
clock ticks in between, from the last-but-one to the last second of a lap, the index is 10: slot 0
of the next router's row of the array, or of a row never allocated.  `REREADS` says whether the build
loads twice (`TRUE`, the makefile's) or once (`FALSE`, what an optimizing build makes of it, and what
`PacketListener.cpp:126-132`, which passes a local, does in any build).  The runs and theorems say
which they use:

* `PacketRing` (two routers) passes with `TRUE`: a packet in another router's row is still in the
  right column, and there is one listener, so no safety is lost as long as the row exists;
* `Pipeline` uses `FALSE`, as the Solarflare listener, whose path it follows, passes a local;
* `PacketRingTorn` (one router) shows the row that does not exist: a null pointer;
* `AgentRing` passes with `FALSE`.  With `TRUE` a push may go into another router's
  lane, beside that router's own push, or into one that no agent sends: `NothingLost`,
  `ReliableQueue` and `SentBySecond` fail.  The theorems on `AgentRing` that need `FALSE` say so.

### State and code

`PacketRing`: `epochSec` is `IPGlobal::CURRENT_EPOCH_SEC`; `packetProcessing` is
`PACKET_PROCESSING[intf]`, with its start, on and off; `pktRepoBusy`, `pktRepoCnt`, `pktRepository`
are `PKTStore`'s; `tIdx`, `pTidx`, `routerToProcess`, `noOfPackets` the listener's members;
`lastTIndex`, `currTIndex` the router's.  Actions follow the callback (`Receive`, `KeepIp` or
`LeaveOther`, `CheckBusy`, `CheckRoom`, `Fill`, `LoadCnt`, `StoreCnt`) and the router's loop (`Poll`,
`TakeSlot`, `MarkBusy`, `Decode`, `LoadDec`, `StoreDec`, `ZeroCnt`, `Release`).  A packet is its
position among those stored for its router, and its stamp.  The cap (`CAP`, `PERCENT`) is any number, as
`get_PPSCap` refuses none: above 100 the slot may hold more than `initializePktRepo` allocated, and the
program ends where `Fill` would follow a null pointer.  `CounterSound` and the ring's other theorems hold
of every cap, 0 included, where nothing is stored; only `WithinAllocation` needs it to be at most 100.

`AgentRing`: `cnt` and `store` are the agent namespace's; a push is `StartPush`, `Index`, `Drop` or
`Accept`, `Copy`, `LoadCnt`, `StoreCnt`; the agent `Poll`, `TakeLane`, `Deliver`, `LoadDec`,
`StoreDec`, `ZeroCnt`.  The four protocols differ only by `CAPPED`.  `MAX_PACKET_PUSH_SOCKET` is one
variable of the program that each starting router overwrites; the value in force is that of the last
interface's (`LAST_CAP`).

`Pipeline`: the variables of both rings, renamed where they would clash (`ipMsgCnt` is `AgentRing`'s
`cnt`).  `RouterLoop` is a router's step that pushes nothing, `DecodeOnly` and `DecodeToPush` the call
of `decodePacket`, `PushStep`, `PushDropped` and `PushDone` the push inside it.  `gone` remembers the
packets that led to no message, `source` the packet of each message.

`Bandwidth`: a volume is the set of packets it counts, so exactness is equality of sets.  `bucket` is
`bw_i_r_t` and its likes, `pub` the `IPGlobal::BW_...` fields a router publishes, `row` what
`buildBwCSV` has added up so far.  `prevMin`, `curMin` are the router's members.  `on` says which
of `PROCESS_CDN` and `PROCESS_PEERING` are on; `Switch` is LOAD's assignment.

`LogQueue`: `mutex` is `Log::_mutex`, whose unlock does not look at the holder; `stream` is `_stream`
as the number of the file; `queue`, `waiting` are `SafeQueue`'s queue and whether the flusher waits.
`Log.cpp`'s double unlock can close the file between `_flush`'s test of `_stream` and its `fwrite`:
`FwriteNull`, after which no action is enabled, is the end of the program.

`DnsLock`: `lockCount` is the mutex, `nonzero` the set of waiters on the condition variable, `count`
the counter; waits may end for nothing.

`DnsDump`: `dnsLookUpMap` says of each address whether its node and its name are there, `entry` how far
a router is with the one it enters.  `mpc`, `bucket` and `elem` are where main's walk is, `csvIn` and
`csv` the rows of `dnsIpv4data.csv.in` and of the published file.  What a `std::map` read while a node
is linked into it does is undefined: the walk goes on with any address of that map, or takes it to be at
its end; a name read while it is assigned may come out broken.  That it may bring the program down is
left out; the files are then as in some state.  `owed` remembers which addresses nothing of this
concerns.

`Lifecycle`: `main` is where the main thread is in `SpectaProbe::start`, `infCounter` the counter of
the loop it is in; `phase` the handler's statement group and `left` its sleep; `admin`,
`adminCounter` the admin thread's.  The flags have the names of `IPGlobal`'s, an interface's routers
sharing one (they are set and cleared together), its four agents too.  The two rings are here what
`PacketRing` and `AgentRing` show them to be under `Timely`: a slot chosen in one second is emptied
by the first turn that reads the clock two seconds later or more, so a packet is a place and the age
of its second.  A signal comes at most once and is taken by main, whose sleep it ends; `early` and
`tooEarly` remember that it came before main's loop, or before `PROBE_RUNNING_STATUS = true`.  Left out
are main's waits for the threads it creates (`SpectaProbe.cpp:343`, `:392`, `:462`, `:508` and their
like): each thread sets the flag waited for before its loop (`glbTimer.cpp:22`, `PacketRouter.cpp:62`,
`EthernetSource.cpp:265`, `PacketListener.cpp:314`), whatever the flags of the stop are by then.

`Classify`: `msgObj` is the router's `MPacket`.  Of the union only the bytes that two kinds of records
use and something reads are kept, `at[1..3]`: the direction of UDP and RADIUS is the DNS record's
`qrFlag`, the low byte of UDP's VLAN id is TCP's direction and the first of RADIUS's user name, its
high byte is the first of the DNS name (the offsets are those of `IPGlobal.h`'s records under the
makefile's compiler).  A router's turn is `DecodeFrame`, `DecodeIPv4`, one `Parse...` action and one
`Route...` action; a packet's contents are chosen where the code looks at them, and so are the
switches that LOAD may set at any time.  `wire` and `out` remember what the packet was and what came
of it.

`RangeTable`: `range` is `IPV4_RANGE`, a row being a network and the number of leading ones of its
mask; `noOfRange` is `IPV4_NO_OF_RANGE`.  A loader stores network, mask, network, ..., and the number
of rows last; a scan tests the count, loads the two halves of a row in either order (they are
arguments of a call) and compares.  `met` remembers the tables that a scan met, `overlapped` that two
loads overlapped.  `strtok` keeps one place for the whole process: a loader between two
rows may find its list ended, or go on in the list another loader is at (`Rests`); `StartOther` and
`EndOther` are the other lists of a LOAD, which touch the table only through that place.

`Config`: a file is a sequence of words, a word the sequence of what its commas separate; `setting` is
`IPGlobal`'s variable of each key.  `ReadConfig` and `LoadKey` are one turn of the loop of
`GConfig::initialize` and of `AdminPortReader::refreshConfig`: a word is taken as a key, if the reader
takes that key now, and swallows the next word as its value.  The keys are told apart by the sort of
their value (flag, scalar, array, table, vector) and the flag that they wait for (`Gate`).  `Minute` is
main's minute, `ReadUser` its reading of `userip.config`.

## 3. What TLC checks

| Run | Bounds | Question and answer |
|---|---|---|
| `PacketRing` | 2 routers, ring of 4, 2 packets a slot and router, 3 packets a router, one lap, all starts | Under a timely schedule: one user per slot, nothing lost, reliable queue, sound counters, fresh when decoded, refused only when all routers are full (slot 0 aside, section 5).  Yes. |
| `PacketRingTorn` | 1 router, clock read twice | Is only allocated memory touched?  **No.** |
| `AgentRing` | 2 routers, ring of 4, TCP/UDP, 3 messages each | Without a busy flag: one user per lane and slot, nothing lost, reliable queue, order of seconds, slot within cap.  Yes, if the clock is read once. |
| `Pipeline` | 1 Solarflare router, rings of 5, NIC clock a second off either way, 2 packets, TCP | From the wire to the socket: once each, in order, within a bound of the capture, and in the end for each packet not dropped.  Yes. |
| `Bandwidth` | 1 router, minute of 3 s, hour of 2 minutes, 15 s; 2 packets anywhere, or 1 and `PROCESS_CDN` switched twice; `PROCESS_PEERING` off | Is each minute exact, its peak right, a row fresh, across the minute's and the hour's end?  Yes; after a kind was off, from its third publication on. |
| `LogQueue` | 2 writers, 4 messages, 3 file changes, `fopen` may fail | Order, loss only with a closed file, all taken out.  Yes; the last unless the program ends. |
| `LogQueueUnlock` | 2 messages, 1 file change | One thread in the guarded code?  **No**, after a failed `fopen`. |
| `DnsDump` | 2 routers, 2 addresses in one of 2 maps, a dump every other minute, a disk that fills | Exclusion, no lost wake-up, progress; is the published file whole but for what changed under the walk, and right in the end?  Yes. |
| `Lifecycle` | 2 interfaces, handler's sleeps of 2 ticks, lags of 1 | Does a stop leave a packet behind, and does the program exit?  No and yes, for a signal after the start.  Do PAUSE, RESUME and the day change leave interfaces mixed?  Only where a PAUSE meets a loop that turns pushing on. |
| `Classify` | 2 VLAN ids (one above a byte), 2 tags, 4 addresses, 2 peering tables | What do a record's shared bytes hold, and where is a packet counted?  VLAN, DNS flag and name are the packet's but in the cases the properties name; a packet is counted once. |
| `RangeTable` | 2 loaders (one with other lists), tables of up to 2 rows of 2 ranges, 4 addresses | Does a scan see one table?  Yes, where files grow or shrink at the end and no two lists overlap.  Does a load leave its file?  Yes, if it was alone. |
| `Config` | 9 keys of every sort, all files of 2 lines, of 3 about the flags others wait for; 1 edit, 2 LOADs | Does a start take the lines it should, a LOAD leave what a restart would, and the user's file come back?  Yes, with the exceptions the properties name. |

*Why the bounds are enough.*  The behaviour of a ring depends on the distance between seconds and on
whether it wraps, not on its length: 4 is the shortest ring on which lag 1 is timely
(`2 * 1 + 1 < 4`), and 5 with a NIC a second ahead, so every margin is used up; the initial second
takes each place in the ring (in `Pipeline` the last), so that some behaviours wrap.  Two producers'
lanes and a cap of one or two show every race of two threads, which is all that meet on a lane; three
packets a router fill a slot twice.  In `Pipeline` two packets tell order and loss apart, and nine
seconds let the first reach the socket from any second of the first four.  In `Bandwidth` the
constants sit on the bounds of its `Timely` (`2 * ROUTER_LAG + 1 = MIN_SECS`, and as many slots as
that needs), two packets tell a total from a peak, a minute from the next, and one second from
another, and 15 s let a kind that was off be published three times.  In `DnsDump` two routers are a
holder and a waiter, two addresses in one map are the two that a link may hide, the other map is the
walk's next; the proofs are for any number of routers and addresses.
In `Lifecycle` sleeps of two ticks against lags of one are the tightest that `StopTimely` admits
(`4 * 2 > 2 + 2 + 2`; with one tick TLC finds packets left behind), and a loop over two interfaces has
a first, a middle and an end.  In `Classify` nothing but `vlan_id` outlives a packet, so every packet
follows every state it can meet; an address of each kind, and of two, tells the tests' order.  In
`RangeTable` two rows of two ranges give tables that grow, shrink, change and swap rows, and two
loaders are as many as the program has.  In `Config` three lines are a flag, a key that waits for it,
and the flag again; two LOADs let one follow a LOAD of another file.
The code's sleeps of 5 s bear lags of 4 s in routers and in agents (`3 * 5 > 5`, `20 > 18`), the most
that rings of ten slots bear: the stop is as safe as the rings are.
The bounds themselves are `MAX_SEC`, `MAX_STORED`, `MAX_PUSHED`, `MAX_DECODED`, `MAX_EVENTS`,
`MAX_SWITCHES`, `MAX_MSGS`, `MAX_FILES`, `MAX_EDITS`, `MAX_LOADS`, `MAX_NUMBER`, `MAX_LINES` and
`FIRST_SEC`.  `UINT_MAX` stands for the largest `uint32_t`: what matters is that 0 minus 1 is far
above any cap.  The agents of DNS and AAA, whose stores have no cap, are `CAPPED = FALSE`: no run has
them, the proofs have both.

*Fairness.*  Weak fairness of each thread's steps: the operating system schedules them.  Strong
fairness of `Tick` in `Pipeline`, which a slow callback may hold up again and again but not for ever:
this states that time goes on, under the lag bounds.  Strong fairness of taking a mutex, in `LogQueue`
and `DnsDump`: a waiter gets a mutex that is free infinitely often; glibc gives this in practice, POSIX
does not promise it.  In `DnsDump` also strong fairness of opening the file, which may fail but not
for ever, and minutes pass; of the disk nothing is assumed, `CatchesUp` asks for it.  Nothing is
assumed of packets, messages or file changes to come.  In `Pipeline` fairness includes that the socket
takes a message in the end.  In `Lifecycle` nothing is assumed of the admin port, of signals, or of
packets to come, in `Config` nothing of edits and of LOADs.  `LogQueue` turns the deadlock check off,
since its thread waits when nobody logs any more, and `Lifecycle` and `Config`, since the program exits.

## 4. What is proved

Everything in this section is proved for all values of the constants that satisfy the modules' named
assumptions (`TimeIndexAssumption`, `PacketRingAssumption`, `AgentRingAssumption`, `PipelineAssumption`,
`BandwidthAssumption`, `DnsLockAssumption`, `DnsDumpAssumption`, `LogQueueAssumption`,
`LifecycleAssumption`, `ConfigAssumption`, `RangeTableAssumption`, `ClassifyAssumption`), which TLC
evaluates in each run.  Every safety property that a run finds to hold has its theorem.

* `TimeRingProofs`.  From the division theorem for `TIME_INDEX`: two seconds less than a lap apart
  have different slots (`SlotsApart`); the write index of a second is the read index of the next
  (`WriteIsReadNext`); the walk of the ring follows the clock (`NextFollowsClock`); a double read
  lands in the column of the second read last (`ColumnOfLastRead`).
* `PacketRingProofs`.  Four invariants, one on the other.
  `CounterInv`, under any scheduling and any build: between the listener's test and its store the
  counter only falls, and between a router's reading of the count and its reset the counter covers
  what is still to be counted down.  This makes `TypeOK` inductive (a router decodes only allocated
  records), and gives `CounterSound`, and `WithinAllocation` for a build that reads the clock once and
  a cap of at most 100 percent.
  `ClockInv` names the seconds behind the indices: under `Timely`, comparing indices is comparing
  seconds, so the consumer is behind the clock, the producer ahead of it, less than a lap apart:
  `NoOverlap`, in either build.
  `RecordInv` is about contents: the cells that a router has yet to come to, slot after slot, hold in
  their order exactly what was stored for it and is not decoded, and each cell's stamp is of its slot's
  second.  Under `Timely`, in either build, it gives `NothingLost`, `FreshWhenDecoded`, and
  `ReliableQueue`: every step is one of `Handoff`'s or a stutter.
  `TurnInv` says what the robin has put in the slot it fills, router by router; `RefusedOnlyWhenFull`
  follows.
* `AgentRingProofs`.  The same arguments for several producers and no flag: `NoOverlap` under `Timely`
  in either build; `SlotWithinCap` under any scheduling if the clock is read once, since then a lane
  has one producer; and with both, from the invariant on the stores' contents (`StoreInvariant`),
  `NothingLost`, `ReliableQueue` and `SentBySecond`: the agent goes through the routers' lanes one by
  one, but all of one second before any of the next.
* `PipelineProofs`.  A step of the composition is a step of each ring or leaves it as it is
  (`ImplementsPacketRing`, `ImplementsAgentRing`), so what was proved of a ring holds of the whole:
  `RingsApart`, nobody meets on a slot of either.  Apart the rings do not know that a push is short;
  together it is proved (`PushWithinLoop`): a push begins after its router's loop last read the clock
  and ends before the loop reads it again.  If both rings' `Timely` hold and the clock is read once,
  an invariant on the age of each message's second gives `SentInTime`; and `RelayInv`, in which each
  packet has one fate (waiting, at its router, dropped, a message), gives `ReliableRelay`: from the
  two refinements of `Handoff` and the order in which a router pushes, that of `Relay`.
* `BandwidthProofs`, under `Timely`.  `ClockInv` bounds the minute at which each thread is by the
  clock's (`RouterTimed`, `ProcessTimed`).  `FiledInv` says which packets the two arrays of a kind hold
  and what is published: one minute's, the one before, and the one before that, from the first, second
  and third publication after the kind was switched on.  Seconds that one array can hold at once are
  less than the array's length apart, so each has its slot: `MinuteExact` and `PeakExact`.  `RowInv`
  says what of a row is already of this minute, and what is left of the last: `RowFresh`.
* `LockProofs`, of the DNS lock: `LockInv`, the counter is 1 exactly when no router is inside, the mutex
  is kept over a step only by the router at the `while`, and waiters are in their wait.  From it
  `OneInside` and `NoLostWakeup` for any number of routers: who frees the lock found the count at 0, so it
  signalled.  Of the dump: its routers are those of `DnsLock` (`DumpIsDnsLock`), so at most one is in the
  middle of an entry; then nothing owed is being linked or assigned (`OwedSafe`), and what is owed and
  passed by the walk has its row (`RowsWritten`), since without a link the iterator's order is the map's.
  From it `PublishedWhole`, for any number of routers, addresses and maps.
  Of the log: `LogInv` does not mention the mutex at all, because a failed `fopen` may have given it
  away.  The queue is the rest of what was logged, and the files have, in order, what the log's thread is
  done with: `WrittenInOrder` and `KeptWhileOpen`, with one writer in the guarded code or several.
  `OneInLog`, which a run refutes, is proved for a program whose `fopen` does not fail.
* `ControlProofs`, of `Lifecycle`.  `DrainInv` counts the ticks since a stop turned the traffic off
  (`Elapsed`, a function of the handler's phase and of what is left of its sleep) and bounds them at
  each place a packet can be: a lag more from place to place.  A router that has gone saw its flag
  down three sleeps after the traffic stopped, the exit comes four after, and `StopTimely` puts both
  beyond the bounds: `RoutedBeforeStop` and `SentBeforeExit`, for all sleeps and lags.  `PushInv` says
  what main's and the admin thread's loops have done up to their counters: an interface that does
  not push is still ahead of a loop that will turn it on, or was paused.  From it `AllPushOrNone` and
  `PausedByOperator` for any number of interfaces.
  Of `Config`, for any keys beside the five the code waits for, any files and any number of edits and LOADs.  `StartInv`: at each word of
  the start's loop, each key has the value that its lines up to there give it (`ValueAfter`; of an array,
  entry by entry, and of a vector, place by place).  Each sort of key has a lemma on what one more line
  does to that value, so no induction over files is needed: `StartReadsLast`.  `ReloadInv`: during a
  LOAD, the same of the keys that LOAD decides on and the lines that it has met, those included that wait
  for flags LOAD does not read: `LoadIsRestart`.
* `ParserProofs`, of the table of ranges.  `LoadInv`: indices stay within table and files, at most one
  load is under way unless two have overlapped, and the rows below a lone loader's are its file's.
  Since the rows are stored before their number, `Settles` follows, for any number of loaders and
  whatever was left in the table.  `ScanInv`: the tables that a scan met agree row by row; the rows it
  passed had neither address; and the row it is at is one of a table it met, though the table may have
  become shorter under it: `ScanSound`.
  Of the classification, `ClassifyInv` says phase by phase what the parser's VLAN id and the bytes
  that the record's kinds share hold of the packet by then, and that nothing else outlives a packet:
  `VlanOfFrame`, `QrFlagFromHeader`, `NameFromQuestion`, and `CountedOnce`, with the switches free to
  change between any two looks.

*Hypotheses.*  `Timely` of the rings and of `Bandwidth`, `StopTimely`, `~REREADS`, `CAP <= PERCENT` and
`~OPEN_MAY_FAIL` are hypotheses of the theorems named above with them, or of the property itself, and of
no others.  The runs show that they can be met: each passing run's constants satisfy the `Timely` of its
module.

*Types.*  Type correctness is part of each module's inductive invariant, and so proved under any
scheduling (for `Bandwidth`, under `Timely`).  The configurations leave the type invariants out, as their
properties say more.

*Only model-checked.*  Liveness: `StoredIsSent`, `Flushed`, `SomeoneParses`, `CatchesUp`,
`SignalledExits` and `UserRangesBack`; and the absence of deadlock.  The prover reaches neither fairness
nor ENABLED.

## 5. What the runs found

* `PacketRingTorn`: the clock read twice, above; the pushes to the agents use the same macro.  The window
  is two loads, met at a lap's last-but-one second.
* `LogQueueUnlock`: `Log.cpp:226-229` unlocks when `fopen` fails and falls through to a second
  unlock, which frees whoever locked meanwhile.  With one file more (`LogQueue`) the next day's close
  may then come between `_flush`'s test of the stream and its `fwrite`, to a NULL stream: the one way
  in which a message stays in the queue, so `Flushed` excepts it.

Observed while modelling, and not properties of a run:

* with the clock read twice, a packet put in slot 0 by a torn index lies in a row out of turn; the robin may
  then meet a full router and refuse the rest of a second's packets while other routers have room, so
  `RefusedOnlyWhenFull` leaves slot 0 of that build out;
* the cap that a router logs for its interface is not the one its pushes obey
  (`PacketRouter.cpp:53-55`, one variable for all interfaces);
* a signal during the start is followed by the rest of the start: traffic goes on again after the
  routers have been told to stop (`early`); one between `Main.cpp:63` and `:69` is lost (`tooEarly`);
* the day change ends an operator's PAUSE (`SpectaProbe.cpp:325`); one that spans the start is missed,
  since `lastday` is read after the traffic is on (`SpectaProbe.cpp:206`);
* with `PROCESS_CDN` on and `PROCESS_PEERING` off the last peering row is written again each minute
  (the buffer is stale); `processBw` reads `PROCESS_CDN` twice a minute, to build the row and to write
  it (`processBw.cpp:177`, `:41`); what a kind switched off left in its arrays comes out in its first and
  second publications after it is on again (`PacketRouter.cpp:76-82`);
* `processBw.cpp:231` subtracts the CDN's and peering's peaks from the whole one's: the three fall in
  different seconds, so the difference of the unsigned numbers may wrap;
* an untagged frame's record has the VLAN id of the last tagged frame (`EthernetParser.cpp:157`);
* an upstream packet to the DNS port that ends before its header is pushed as a RESPONSE: `qrFlag`'s
  byte still holds the direction UP, not the 3 that `IPGlobal.h:539` puts there; a downstream one stays UDP;
* the RADIUS record's default user name is not "NA": the DNS record's reset comes after it
  (`IPGlobal.h:716`) and leaves a byte 3;
* `radiusParser.cpp` sets `processOutOfRange` to 0 for packets to be left out, and `decodePacket` pushes
  RADIUS without looking at it; the test of the code's range (`radiusParser.cpp:66`) is never true;
* IP protocols 18 and 53 are taken as DNS and RADIUS, since `ptype` is the header's number
  (`EthernetParser.cpp:146`) and those are the values of `PACKET_IPPROTO_DNS` and `_RADIUS`;
* loads of the ranges that overlap leave rows of both files under one's count until the next load, and
  one LOAD appends the IPv6 ranges again (`AdminPortReader.cpp:559`; no build decodes IPv6);
* the `strtok` that main and the admin port share (`GConfig.cpp:155`, `AdminPortReader.cpp:523`) lets a
  list of one be continued by the other's; overlapped lists may also give more rows than the model
  allows, which takes no more than a file has;
* a LOAD switches `PROCESS_CDN` and `PROCESS_PEERING` on, but reads none of their tables: if they were
  off at the start, the tables are empty; and a key that was taken out of the file keeps its value;
* `# KEY value`, with a blank, is still read as a key; a key without a value swallows the next line's
  key, and everything after it is off by a word until it comes right by chance;
* the sample configurations set keys that nobody reads (`TWITCH`, `NETFLIX`, `SUBSPACE`, `TENCENT` and
  their tables);
* a `client.config` or `userip.config` that cannot be opened while the program runs ends it
  (`exit(1)`, `GConfig.cpp:862`, `:880`), with packets in the rings;
* `converSubNetToRange` takes the last two characters of a range for its prefix: `/8` is not read as 8;
* after an AAAA answer the position is not moved past the address (`UDPParser.cpp:306`): the next byte
  192, and be it the address's, is taken for the beginning of the next answer;
* `PKT_LISTENER_DAYCHANGE_INDICATION` is only ever set to false, and
  `ProbeStatsLog::packetProcessing` has no caller.

## 6. What is not modelled, and the plan

Modelled or proved next, in this order:

1. Composition: `PacketRing` and `Bandwidth` as one router thread, as `Pipeline` composes the rings, so that
   the minutes' `Timely` is met by `FreshWhenDecoded` and not by a bound of its own.  (No safety property of a
   passing run is left without its theorem.)
2. `Bandwidth` with two routers and `PROCESS_PEERING` switched too: TLC needs a smaller model for it.
3. The lock and dump of the IPv6 map, if the code that is commented out comes back.

Left out, and why:

* the per-day and per-second statistics (`PacketRouter.cpp:151`, `:225`, `:309` against main's zeroing,
  `SpectaProbe.cpp:298-300`): an unlocked `++` may bring back a count that main has just cleared; they
  are printed, and nothing depends on them.  `DNS_PACKETS_PER_DAY` is neither cleared nor read;
* the NIC monitors (`packetsource/solarflare/src/PacketListener.cpp:231` clears its flag after
  `pthread_exit`, a line never reached) and the list of free Solarflare buffers, which is the library's;
* a second signal during the handler's 20 s, which another thread would take: on the timer's the clock
  stands.  Nothing is claimed of it, and `SignalledExits` and `SentBeforeExit` are about one signal;
* byte offsets and text formats of packets, messages and rows, the user agent, session keys;
* `PKT_ROUTER_CPU_CORE`, a list of lists; `Initialize.cpp`, 5500 lines of assignments that fill tables
  with constant texts and masks and run once, before any thread;
* `utility/log/src/StringManip.cpp`, whose one call is commented out (`Log.cpp:563`); the vendored
  headers of Solarflare and ZeroMQ.

So the share of the lines that the definitions map to stays small by the nature of the code: tables,
vendored headers, getters that differ by a name (of which one definition stands for dozens) and printing
make up most of it.  Interfaces share none of the ring state, so the rings' modules have one.
