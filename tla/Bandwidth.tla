----------------------------- MODULE Bandwidth ------------------------------
(***************************************************************************)
(* The bandwidth report of one interface.  Each PacketRouter adds the size *)
(* of a packet to the current one of two per-minute arrays of BWData,      *)
(* CDNData and PeeringData, and as the minute changes publishes the other  *)
(* one in IPGlobal; the processBw thread adds up what the routers          *)
(* published and writes a row.  The clock thread sets CURRENT_EPOCH_SEC    *)
(* first and CURRENT_MIN later.  None of this is locked.                   *)
(*                                                                         *)
(* A volume is the set of the packets it counts, an array the set of those *)
(* filed in it: BWData's sums are sizes of sets.  Packets reach the router *)
(* as PacketRing says: at most 2 * ROUTER_LAG + 1 seconds old.  The admin  *)
(* port's LOAD may switch PROCESS_CDN or PROCESS_PEERING at any time.      *)
(***************************************************************************)
EXTENDS Integers, FiniteSets, FiniteSetsExt

CONSTANTS
  ROUTERS,        \* IPGlobal::ROUTER_PER_INTERFACE of the interface
  MIN_SECS,       \* seconds in a minute: 60
  HOUR_MINS,      \* minutes in an hour: 60
  BW_TIME_INDEX,  \* slots of a minute's array, one for a second: 100
  ROUTER_LAG,     \* ticks a router's loop may see between two clock reads
  BW_LAG,         \* ticks a loop of processBw may see
  PROCESSED,      \* the kinds whose PROCESS_... flag is on at first
  SWITCHED,       \* the kinds whose PROCESS_... flag LOAD switches
  MAX_SWITCHES,   \* bound: how often it does
  START,          \* bound: the second the threads start in
  MAX_SEC,        \* bound: the clock stops there
  MAX_DECODED,    \* bound: packets a router decodes in a behaviour
  MAX_EVENTS      \* bound: switches, and twice the packets, in a behaviour

Routers == 0 .. ROUTERS - 1
Kinds   == {"bw", "cdn", "peering"}

ASSUME BandwidthAssumption ==
  /\ ROUTERS \in Nat \ {0} /\ MIN_SECS \in Nat \ {0}
  /\ HOUR_MINS \in Nat \ {0} /\ HOUR_MINS % 2 = 0
  /\ BW_TIME_INDEX \in Nat \ {0}
  /\ ROUTER_LAG \in Nat \ {0} /\ BW_LAG \in Nat \ {0}
  /\ "bw" \in PROCESSED /\ PROCESSED \subseteq Kinds
  /\ SWITCHED \subseteq Kinds \ {"bw"} /\ MAX_SWITCHES \in Nat
  /\ MAX_SEC \in Nat /\ START \in 2 * ROUTER_LAG + 1 .. MAX_SEC
  /\ MAX_DECODED \in Nat /\ MAX_EVENTS \in Nat

VARIABLES
  epochSec,                    \* IPGlobal::CURRENT_EPOCH_SEC
  minSec,                      \* the second CURRENT_MIN was last set from
  on, switches,                \* the kinds processed: PROCESS_CDN, PROCESS_PEERING
  \* the routers: pc and members, and the minute published next
  rpc, curMin, prevMin, kind,
  bucket,                      \* bw_i_r_t and its likes: what is filed, [router][kind][parity]
  pub,                         \* BW_MBPS_i_r and its likes: [router][kind]
  \* processBw: pc, members, its next read, and the row so far
  bpc, currentMin, bwPrevMin, bwStep, row,
  \* history, read by no guard but Tick's: clock reads, the absolute minutes
  \* behind curMin and currentMin, the packets decoded, and for how many minute
  \* changes in a row, up to three, a router has published each kind
  readSec, absMin, bwReadSec, bwAbsMin, decoded, inARow

clockVars   == <<epochSec, minSec, on, switches>>
routerVars  == <<rpc, curMin, prevMin, kind, bucket, pub, readSec, absMin, decoded,
                 inARow>>
processVars == <<bpc, currentMin, bwPrevMin, bwStep, row, bwReadSec, bwAbsMin>>
vars == <<clockVars, routerVars, processVars>>

AbsMinute(s) == s \div MIN_SECS

\* A minute that does not start again with the hour.
MinuteOfDay(s) == AbsMinute(s)

\* CURRENT_MIN, once the clock's thread has set it in second s.
MinuteOf(s) == AbsMinute(s) % HOUR_MINS

Seconds == 0 .. MAX_SEC
Minutes == 0 .. HOUR_MINS - 1
Packet  == [id : 1 .. MAX_DECODED, router : Routers, sec : Seconds, min : Nat]

\* The fields of a published minute: the total volume and the peak of a slot.
Volume  == [total : SUBSET Packet, peak : Nat]
NoVolume == [total |-> {}, peak |-> 0]

TypeOK ==
  /\ epochSec \in Seconds /\ minSec \in Seconds
  /\ on \subseteq Kinds /\ switches \in 0 .. MAX_SWITCHES
  /\ inARow \in [Routers -> [Kinds -> 0 .. 3]]
  /\ rpc \in [Routers -> {"sec", "min", "total", "peak", "walk"}]
  /\ curMin \in [Routers -> Minutes] /\ prevMin \in [Routers -> Minutes]
  /\ kind \in [Routers -> Kinds]
  /\ \A r \in Routers, k \in Kinds : \A t \in 0 .. 1 :
       \A p \in bucket[r][k][t] : p \in Packet
  /\ \A r \in Routers, k \in Kinds :
       pub[r][k].peak \in Nat /\ \A p \in pub[r][k].total : p \in Packet
  /\ bpc \in {"sleep", "read"} /\ bwStep \in 0 .. 6 * ROUTERS - 1
  /\ currentMin \in Minutes /\ bwPrevMin \in Minutes
  /\ \A k \in Kinds : row[k].peak \in Nat /\ \A p \in row[k].total : p \in Packet

-----------------------------------------------------------------------------
\* The constructors, and PacketRouter::run up to its loop.
Init ==
  /\ epochSec = START
  /\ minSec = epochSec /\ on = PROCESSED /\ switches = 0
  /\ rpc = [r \in Routers |-> "sec"]
  /\ curMin = [r \in Routers |-> MinuteOf(minSec)]
  /\ prevMin = [r \in Routers |-> MinuteOf(minSec)]
  /\ kind = [r \in Routers |-> "bw"]
  /\ bucket = [r \in Routers |-> [k \in Kinds |-> [t \in 0 .. 1 |-> {}]]]
  /\ pub = [r \in Routers |-> [k \in Kinds |-> NoVolume]]
  /\ bpc = "sleep" /\ currentMin = 0 /\ bwPrevMin = 0 /\ bwStep = 0
  /\ row = [k \in Kinds |-> NoVolume]
  /\ readSec = [r \in Routers |-> epochSec]
  /\ absMin = [r \in Routers |-> AbsMinute(minSec)]
  /\ bwReadSec = epochSec /\ bwAbsMin = 0
  /\ decoded = [r \in Routers |-> [k \in Kinds |-> {}]]
  /\ inARow = [r \in Routers |-> [k \in Kinds |-> 3]]

-----------------------------------------------------------------------------
(* glbTimer::run: the second, and then the minute.  The guard is the        *)
(* assumption on scheduling.                                                *)
TickSec ==
  /\ epochSec < MAX_SEC /\ minSec = epochSec
  /\ \A r \in Routers : epochSec + 1 - readSec[r] <= ROUTER_LAG
  /\ epochSec + 1 - bwReadSec <= BW_LAG
  /\ epochSec' = epochSec + 1
  /\ UNCHANGED <<minSec, on, switches, routerVars, processVars>>

TickMin ==
  /\ minSec # epochSec
  /\ minSec' = epochSec
  /\ UNCHANGED <<epochSec, on, switches, routerVars, processVars>>

Events == switches + 2 * Cardinality(UNION {decoded[r]["bw"] : r \in Routers})

\* LOAD reads PROCESS_CDN or PROCESS_PEERING with another value.
Switch ==
  /\ switches < MAX_SWITCHES /\ Events < MAX_EVENTS
  /\ switches' = switches + 1
  /\ \E k \in SWITCHED : on' = IF k \in on THEN on \ {k} ELSE on \cup {k}
  /\ UNCHANGED <<epochSec, minSec, routerVars, processVars>>

-----------------------------------------------------------------------------
(* A router.                                                                *)

\* PacketRouter::run, every slot behind drained, reads the second, and then the
\* minute.
ReadSec(r) ==
  /\ rpc[r] \in {"sec", "walk"}
  /\ readSec' = [readSec EXCEPT ![r] = epochSec]
  /\ rpc' = [rpc EXCEPT ![r] = "min"]
  /\ UNCHANGED <<clockVars, curMin, prevMin, kind, bucket, pub, absMin, decoded, inARow,
                 processVars>>

MinuteChanged(r) == curMin'[r] # prevMin[r]

ReadMin(r) ==
  /\ rpc[r] = "min"
  /\ curMin' = [curMin EXCEPT ![r] = MinuteOf(minSec)]
  /\ absMin' = [absMin EXCEPT ![r] = AbsMinute(minSec)]
  /\ kind' = [kind EXCEPT ![r] = "bw"]
  /\ rpc' = [rpc EXCEPT ![r] = IF MinuteChanged(r) THEN "total" ELSE "walk"]
  /\ UNCHANGED <<clockVars, prevMin, bucket, pub, readSec, decoded, inARow, processVars>>

\* The array just filled, instead of the other one.
SameParity(m) == m % 2

\* setBWData publishes the array that minute curMin (here the one that ended)
\* did not fill: that of the minute before it.
OtherParity(m) == 1 - (m % 2)

\* calculateBwData empties the array, and setBWData stores the total.
PublishTotal(r) ==
  /\ rpc[r] = "total" /\ kind[r] \in on
  /\ LET k == kind[r]
         t == OtherParity(prevMin[r])
     IN  /\ pub' = [pub EXCEPT ![r][k].total = bucket[r][k][t]]
         /\ UNCHANGED bucket
  /\ rpc' = [rpc EXCEPT ![r] = "peak"]
  /\ UNCHANGED <<clockVars, curMin, prevMin, kind, readSec, absMin, decoded, inARow, processVars>>

\* An array of MIN_SECS slots.
SlotPerSecondOfMinute(s) == s % MIN_SECS

SlotOf(s) == s % BW_TIME_INDEX

\* The fullest slot of an array.
Peak(filed) ==
  Max({0} \cup {Cardinality({q \in filed : SlotOf(q.sec) = SlotOf(p.sec)}) : p \in filed})

\* The next of the three, or prevMin = curMin after the last of them.
NextKind(r) ==
  IF kind[r] = "peering"
  THEN /\ prevMin' = [prevMin EXCEPT ![r] = curMin[r]]
       /\ rpc' = [rpc EXCEPT ![r] = "walk"]
       /\ UNCHANGED kind
  ELSE /\ kind' = [kind EXCEPT ![r] = IF @ = "bw" THEN "cdn" ELSE "peering"]
       /\ rpc' = [rpc EXCEPT ![r] = "total"]
       /\ UNCHANGED prevMin

\* The peak is stored, and the next of the three published.  (The array is the
\* router's own: it makes no difference that it is emptied only here.)
PublishPeak(r) ==
  /\ rpc[r] = "peak"
  /\ LET k == kind[r]
         t == OtherParity(prevMin[r])
     IN  /\ pub' = [pub EXCEPT ![r][k].peak = Peak(bucket[r][k][t])]
         /\ bucket' = [bucket EXCEPT ![r][k][t] = {}]
  /\ inARow' = [inARow EXCEPT ![r][kind[r]] = IF @ < 3 THEN @ + 1 ELSE 3]
  /\ NextKind(r)
  /\ UNCHANGED <<clockVars, curMin, readSec, absMin, decoded, processVars>>

\* A kind that is off is not published: the fields keep their values, and its
\* array what is in it.
SkipKind(r) ==
  /\ rpc[r] = "total" /\ kind[r] \notin on
  /\ inARow' = [inARow EXCEPT ![r][kind[r]] = 0]
  /\ NextKind(r)
  /\ UNCHANGED <<clockVars, curMin, bucket, pub, readSec, absMin, decoded, processVars>>

\* decodePacket, for a packet of the CDN, of a peering network, or of neither:
\* it is filed only under what is on.
Decode(r) ==
  /\ rpc[r] = "walk"
  /\ Cardinality(decoded[r]["bw"]) < MAX_DECODED /\ Events + 2 <= MAX_EVENTS
  /\ \E age \in 1 .. 2 * ROUTER_LAG + 1, of \in {{"bw"}} \cup {{"bw", k} : k \in on \ {"bw"}} :
       LET p == [id |-> Cardinality(decoded[r]["bw"]) + 1, router |-> r,
                 sec |-> epochSec - age, min |-> absMin[r]]
           t == curMin[r] % 2
       IN  /\ bucket' = [bucket EXCEPT ![r] =
                [k \in Kinds |-> IF k \in of THEN [bucket[r][k] EXCEPT ![t] = @ \cup {p}]
                                             ELSE bucket[r][k]]]
           /\ decoded' = [decoded EXCEPT ![r] =
                [k \in Kinds |-> IF k \in of THEN @[k] \cup {p} ELSE @[k]]]
  /\ UNCHANGED <<clockVars, rpc, curMin, prevMin, kind, pub, readSec, absMin, inARow, processVars>>

RouterStep(r) ==
  \/ ReadSec(r) \/ ReadMin(r) \/ PublishTotal(r) \/ PublishPeak(r) \/ SkipKind(r) \/ Decode(r)

-----------------------------------------------------------------------------
(* processBw.                                                               *)

\* run wakes, reads the minute, and starts a row if it changed.
Wake ==
  /\ bpc = "sleep"
  /\ bwReadSec' = epochSec
  /\ currentMin' = MinuteOf(minSec) /\ bwAbsMin' = AbsMinute(minSec)
  /\ bpc' = IF currentMin' # bwPrevMin THEN "read" ELSE "sleep"
  /\ UNCHANGED <<clockVars, routerVars, bwPrevMin, bwStep, row>>

\* buildBwCSV adds up the routers' fields: for each of the three in turn, and
\* each router, the peak and then the total.
RowOrder == <<"bw", "peering", "cdn">>

RowKind == RowOrder[bwStep \div (2 * ROUTERS) + 1]

\* A kind's sums start at 0, and are written over those of the last row.
Before == IF bwStep % (2 * ROUTERS) = 0 THEN NoVolume ELSE row[RowKind]

Field ==
  LET r == (bwStep \div 2) % ROUTERS
  IN  IF bwStep % 2 = 0
      THEN [Before EXCEPT !.peak = @ + pub[r][RowKind].peak]
      ELSE [Before EXCEPT !.total = @ \cup pub[r][RowKind].total]

\* After the last field the row is written, and prevMin = currentMin.
GoTo(step) ==
  IF step < 6 * ROUTERS
  THEN /\ bwStep' = step
       /\ UNCHANGED <<bpc, bwPrevMin>>
  ELSE /\ bwStep' = 0
       /\ bpc' = "sleep" /\ bwPrevMin' = currentMin

ReadField ==
  /\ bpc = "read"
  /\ bwStep % (2 * ROUTERS) = 0 => RowKind \in on
  /\ row' = [row EXCEPT ![RowKind] = Field]
  /\ GoTo(bwStep + 1)
  /\ UNCHANGED <<clockVars, routerVars, currentMin, bwReadSec, bwAbsMin>>

\* A kind that is off is left out: its buffer keeps the last row's.
LeaveOut ==
  /\ bpc = "read"
  /\ bwStep % (2 * ROUTERS) = 0 /\ RowKind \notin on
  /\ GoTo(bwStep + 2 * ROUTERS)
  /\ UNCHANGED <<clockVars, routerVars, currentMin, bwReadSec, bwAbsMin, row>>

ProcessStep == Wake \/ ReadField \/ LeaveOut

-----------------------------------------------------------------------------
Next == TickSec \/ TickMin \/ Switch \/ ProcessStep \/ \E r \in Routers : RouterStep(r)

Spec == Init /\ [][Next]_vars

-----------------------------------------------------------------------------
(* Properties.                                                              *)

\* The bounds under which the report is right: no loop misses a minute, and
\* the seconds filed in one minute have a slot each.
Timely ==
  /\ 2 * ROUTER_LAG + 1 <= MIN_SECS /\ 2 * BW_LAG + 1 <= MIN_SECS
  /\ MIN_SECS + 3 * ROUTER_LAG + 2 <= BW_TIME_INDEX

\* The router is not in the middle of publishing, and has published the kind at
\* its last three minute changes: those empty both arrays of what was filed
\* before the kind was switched off.
Published(r, k) == prevMin[r] = curMin[r] /\ inARow[r][k] = 3

FiledInMinute(r, k, m) == {p \in decoded[r][k] : p.min = m}

\* Once a router has published, the total is that of all the packets it filed
\* two minutes before its current one, and of no others: though two arrays
\* serve all the minutes, no minute is skipped, mixed with another, counted
\* twice, or read while it is being filled; and what a kind that was switched
\* off left in its arrays is gone three minute changes after it is on again.
MinuteExact ==
  \A r \in Routers, k \in Kinds : Timely /\ Published(r, k) =>
    pub[r][k].total = FiledInMinute(r, k, absMin[r] - 2)

\* The peak is the volume of the busiest SECOND of that minute: BW_TIME_INDEX
\* slots keep the seconds of a minute and its stragglers apart.
PeakExact ==
  \A r \in Routers, k \in Kinds : Timely /\ Published(r, k) =>
    LET filed == FiledInMinute(r, k, absMin[r] - 2)
    IN  pub[r][k].peak =
          Max({0} \cup {Cardinality({p \in filed : p.sec = s}) : s \in {p.sec : p \in filed}})

\* A row counts only packets of the two or three minutes before its own,
\* however the reads fall between the routers' writes, in each kind that is
\* not switched: one that is may show a minute long past.
RowFresh ==
  Timely /\ bpc = "sleep" => \A k \in Kinds \ SWITCHED : \A p \in row[k].total :
    bwAbsMin - 3 <= p.min /\ p.min <= bwAbsMin - 1

=============================================================================
