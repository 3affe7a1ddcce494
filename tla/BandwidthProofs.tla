-------------------------- MODULE BandwidthProofs ---------------------------
(***************************************************************************)
(* Proofs about Bandwidth, for every number of routers, length of minute,  *)
(* hour and array, lag, and choice of kinds processed and switched.        *)
(*                                                                         *)
(* All of it is under Timely.  RouterTimed and ProcessTimed bound how far  *)
(* a thread's minute is from the clock's; FiledInv says which packets are  *)
(* in which array, of a kind that was published often enough in a row, and *)
(* what was published of them; it gives MinuteExact and PeakExact.  RowInv *)
(* says how far processBw has read, and gives RowFresh.                    *)
(***************************************************************************)
EXTENDS Bandwidth, FiniteSetTheorems, TLAPS

\* The first second of a minute.
MinuteStart(m) == MIN_SECS * m

Publishing(r) == rpc[r] \in {"total", "peak"}

-----------------------------------------------------------------------------
(* The invariant.                                                           *)

Arrays == [Routers -> [Kinds -> [0 .. 1 -> SUBSET Packet]]]

\* The peaks that there may be, whatever Max makes of them.
Peaks == {0} \cup {Peak(filed) : filed \in SUBSET Packet}

Types ==
  /\ epochSec \in START .. MAX_SEC /\ minSec \in Nat
  /\ rpc \in [Routers -> {"sec", "min", "total", "peak", "walk"}]
  /\ curMin \in [Routers -> Minutes] /\ prevMin \in [Routers -> Minutes]
  /\ kind \in [Routers -> Kinds] /\ inARow \in [Routers -> [Kinds -> 0 .. 3]]
  /\ bucket \in Arrays
  /\ pub \in [Routers -> [Kinds -> [total : SUBSET Packet, peak : Peaks]]]
  /\ decoded \in [Routers -> [Kinds -> SUBSET Packet]]
  /\ \A r \in Routers : IsFiniteSet(decoded[r]["bw"])
  /\ readSec \in [Routers -> Nat] /\ absMin \in [Routers -> Nat]

\* The minute follows the second.
HandsApart == minSec <= epochSec /\ epochSec <= minSec + 1

\* A router's minute is the clock's, or the one before it while a minute is
\* new; and while the router publishes, it is the clock's.
RouterTimed(r) ==
  /\ readSec[r] <= epochSec /\ epochSec <= readSec[r] + ROUTER_LAG
  /\ absMin[r] <= AbsMinute(minSec)
  /\ readSec[r] <= MinuteStart(absMin[r] + 1) + (IF rpc[r] = "min" THEN ROUTER_LAG ELSE 0)
  /\ Publishing(r) => readSec[r] <= MinuteStart(absMin[r]) + ROUTER_LAG
  /\ curMin[r] = absMin[r] % HOUR_MINS
  /\ IF Publishing(r) THEN absMin[r] >= 1 /\ prevMin[r] = (absMin[r] - 1) % HOUR_MINS
                      ELSE prevMin[r] = absMin[r] % HOUR_MINS

ClockInv == Types /\ HandsApart /\ \A r \in Routers : RouterTimed(r)

\* The kinds whose turn in the publishing under way is still to come.
Pending(r) ==
  {k \in Kinds : Publishing(r) /\ (kind[r] = "bw" \/ k = kind[r] \/ k = "peering")}

\* The last minute of which the kind was filed: the one that has ended, until
\* the kind is published.
LastFiled(r, k) == IF k \in Pending(r) THEN absMin[r] - 1 ELSE absMin[r]

\* A packet filed is of the router's minute or an earlier one, and not much
\* older than its minute.
PacketsTimed(r, k) ==
  \A p \in decoded[r][k] :
    /\ p.min <= (IF Publishing(r) THEN absMin[r] - 1 ELSE absMin[r])
    /\ MinuteStart(p.min) <= p.sec + 2 * ROUTER_LAG + 1
    /\ p.sec < MinuteStart(p.min + 1) + ROUTER_LAG

\* One array holds what was filed in the last minute, the other what was in
\* the minute before, and published is that of two minutes before: each from
\* the kind's first, second and third publication in a row.
Filed(r, k) ==
  LET m == LastFiled(r, k)
      t == m % 2
  IN  /\ inARow[r][k] >= 1 => bucket[r][k][t] = FiledInMinute(r, k, m)
      /\ inARow[r][k] >= 2 => bucket[r][k][1 - t] = FiledInMinute(r, k, m - 1)
      /\ IF rpc[r] = "peak" /\ kind[r] = k
         THEN pub[r][k].total = bucket[r][k][1 - t]
         ELSE inARow[r][k] >= 3 =>
                /\ pub[r][k].total = FiledInMinute(r, k, m - 2)
                /\ pub[r][k].peak = Peak(FiledInMinute(r, k, m - 2))

FiledInv == \A r \in Routers, k \in Kinds : PacketsTimed(r, k) /\ Filed(r, k)

RowEmpty == \A k \in Kinds : row[k].total = {}

\* processBw's minute is the clock's or the one before it, once it has read it,
\* and it reads every minute; until then nothing is in a row.
ProcessTimed ==
  /\ bwReadSec <= epochSec /\ epochSec <= bwReadSec + BW_LAG
  /\ bpc = "sleep" => currentMin = bwPrevMin /\ bwStep = 0
  /\ \/ bpc = "sleep" /\ RowEmpty
     \/ /\ bwAbsMin <= AbsMinute(minSec) /\ bwReadSec <= MinuteStart(bwAbsMin + 1)
        /\ currentMin = bwAbsMin % HOUR_MINS

ReportTypes ==
  /\ bpc \in {"sleep", "read"} /\ bwStep \in 0 .. 6 * ROUTERS - 1
  /\ bwReadSec \in Nat /\ bwAbsMin \in Nat
  /\ row = [k \in Kinds |-> [total |-> row[k].total, peak |-> row[k].peak]]
  /\ \A k \in Kinds : row[k].total \subseteq Packet

\* A kind that is not switched is published at every minute change, or never.
SteadyKind(k) ==
  /\ k \in on <=> k \in PROCESSED
  /\ \A r \in Routers :
       IF k \in PROCESSED THEN inARow[r][k] = 3
       ELSE pub[r][k].total = {} /\ \A t \in 0 .. 1 : bucket[r][k][t] = {}

\* The step at which processBw begins to add up a kind.
Turns == [bw |-> 0, peering |-> 1, cdn |-> 2]
FirstStep(k) == 2 * ROUTERS * Turns[k]

FreshRow(k) == \A p \in row[k].total : bwAbsMin - 3 <= p.min /\ p.min <= bwAbsMin - 1

\* Until it begins, the row has the kind's sums of the last row.
RowKept(k) ==
  /\ k \notin PROCESSED => row[k].total = {}
  /\ bpc = "sleep" \/ bwStep > FirstStep(k) => FreshRow(k)

RowInv ==
  ReportTypes /\ ProcessTimed /\ \A k \in Kinds \ SWITCHED : SteadyKind(k) /\ RowKept(k)

-----------------------------------------------------------------------------
(* Minutes.                                                                 *)

LEMMA Division ==
  ASSUME NEW n \in Nat \ {0}, NEW a \in Nat
  PROVE  a \div n \in Nat /\ a % n \in Nat /\ a % n < n /\ a = n * (a \div n) + (a % n)
BY SMT

LEMMA StartOfMinute ==
  /\ \A m \in Int : MinuteStart(m) \in Int /\ MinuteStart(m + 1) = MinuteStart(m) + MIN_SECS
  /\ \A m, n \in Int : m < n => MinuteStart(m + 1) <= MinuteStart(n)
  /\ \A s \in Nat : /\ AbsMinute(s) \in Nat /\ MinuteStart(AbsMinute(s)) <= s
                    /\ s < MinuteStart(AbsMinute(s) + 1)
<1>1. MIN_SECS \in Nat /\ MIN_SECS >= 1
  BY BandwidthAssumption
<1>2. \A m \in Int : MinuteStart(m) \in Int /\ MinuteStart(m + 1) = MinuteStart(m) + MIN_SECS
  BY <1>1, SMT DEF MinuteStart
<1>3. ASSUME NEW m \in Int, NEW n \in Int, m < n PROVE MinuteStart(m + 1) <= MinuteStart(n)
  <2>1. PICK d \in Nat : n = m + 1 + d
    BY <1>3
  <2>2. MIN_SECS * d >= 0 /\ MIN_SECS * n = MIN_SECS * (m + 1) + MIN_SECS * d
    BY <1>1, <2>1, SMT
  <2> QED
    BY <1>1, <2>2, SMT DEF MinuteStart
<1>4. ASSUME NEW s \in Nat
      PROVE  /\ s \div MIN_SECS \in Nat /\ MIN_SECS * (s \div MIN_SECS) <= s
             /\ s < MIN_SECS * (s \div MIN_SECS) + MIN_SECS
  BY <1>1, SMT
<1>5. ASSUME NEW s \in Nat
      PROVE  /\ AbsMinute(s) \in Nat /\ MinuteStart(AbsMinute(s)) <= s
             /\ s < MinuteStart(AbsMinute(s) + 1)
  <2>1. /\ AbsMinute(s) \in Nat /\ MinuteStart(AbsMinute(s)) <= s
        /\ s < MinuteStart(AbsMinute(s)) + MIN_SECS
    BY <1>4 DEF AbsMinute, MinuteStart
  <2> QED
    BY <1>2, <2>1
<1> QED
  BY <1>2, <1>3, <1>5

\* A second is in the minute it falls in, and in no later one.
LEMMA MinuteBounds ==
  ASSUME NEW s \in Nat, NEW m \in Int
  PROVE  /\ s < MinuteStart(m + 1) => AbsMinute(s) <= m
         /\ MinuteStart(m) <= s => m <= AbsMinute(s)
<1>1. /\ AbsMinute(s) \in Nat /\ MinuteStart(AbsMinute(s)) <= s
      /\ s < MinuteStart(AbsMinute(s) + 1)
      /\ MinuteStart(AbsMinute(s)) \in Int /\ MinuteStart(AbsMinute(s) + 1) \in Int
      /\ MinuteStart(m) \in Int /\ MinuteStart(m + 1) \in Int
  BY StartOfMinute
<1>2. m < AbsMinute(s) => MinuteStart(m + 1) <= MinuteStart(AbsMinute(s))
  BY <1>1, StartOfMinute
<1>3. AbsMinute(s) < m => MinuteStart(AbsMinute(s) + 1) <= MinuteStart(m)
  BY <1>1, StartOfMinute
<1> QED
  BY <1>1, <1>2, <1>3

\* The hour has as many even minutes as odd ones: a minute's parity is that of
\* its place in the hour.
LEMMA MinuteOfHour ==
  ASSUME NEW a \in Nat
  PROVE  a % HOUR_MINS \in Minutes /\ (a % HOUR_MINS) % 2 = a % 2
<1>1. PICK h \in Nat : HOUR_MINS = 2 * h /\ h >= 1
  <2>1. HOUR_MINS \in Nat /\ HOUR_MINS >= 1 /\ HOUR_MINS % 2 = 0
    BY BandwidthAssumption
  <2>2. HOUR_MINS = 2 * (HOUR_MINS \div 2) /\ HOUR_MINS \div 2 \in Nat
    BY <2>1
  <2> QED
    BY <2>1, <2>2
<1>2. PICK q \in Nat, m \in Nat : m = a % HOUR_MINS /\ a = HOUR_MINS * q + m /\ m < HOUR_MINS
  <2>1. HOUR_MINS \in Nat /\ HOUR_MINS >= 1
    BY BandwidthAssumption
  <2>2. /\ a \div HOUR_MINS \in Nat /\ a % HOUR_MINS \in Nat /\ a % HOUR_MINS < HOUR_MINS
        /\ a = HOUR_MINS * (a \div HOUR_MINS) + (a % HOUR_MINS)
    BY <2>1, SMT
  <2> QED
    BY <2>2
<1>3. PICK c \in Nat : c = h * q
  BY SMT
<1>4. a = 2 * c + m
  BY <1>1, <1>2, <1>3, SMT
<1>5. a % 2 = m % 2
  BY <1>4, SMT
<1> QED
  BY <1>2, <1>5, BandwidthAssumption DEF Minutes

\* The minute's change is seen: an hour has more than one minute.
LEMMA MinutesDiffer ==
  ASSUME NEW a \in Nat
  PROVE  a % HOUR_MINS # (a + 1) % HOUR_MINS
<1>1. /\ (a % HOUR_MINS) % 2 = a % 2 /\ ((a + 1) % HOUR_MINS) % 2 = (a + 1) % 2
  BY MinuteOfHour
<1>2. a % 2 # (a + 1) % 2
  OBVIOUS
<1> QED
  BY <1>1, <1>2

LEMMA OtherArray ==
  ASSUME NEW m \in Nat
  PROVE  m % 2 \in 0 .. 1 /\ 1 - (m % 2) \in 0 .. 1 /\ (m + 1) % 2 = 1 - (m % 2)
  OBVIOUS

-----------------------------------------------------------------------------
(* Types.                                                                   *)

LEMMA InitClock == Init => ClockInv
<1> SUFFICES ASSUME Init PROVE ClockInv
  OBVIOUS
<1>1. START \in Nat /\ START \in START .. MAX_SEC /\ ROUTER_LAG \in Nat /\ START <= MAX_SEC
  BY BandwidthAssumption
<1>2. /\ AbsMinute(START) \in Nat /\ START < MinuteStart(AbsMinute(START) + 1)
      /\ MinuteStart(AbsMinute(START) + 1) \in Int
  BY <1>1, StartOfMinute
<1>3. MinuteOf(START) \in Minutes
  BY <1>2, MinuteOfHour DEF MinuteOf
<1>4. Types
  <2>1. bucket \in Arrays
    BY DEF Init, Arrays
  <2>2. pub \in [Routers -> [Kinds -> [total : SUBSET Packet, peak : Peaks]]]
    <3>1. NoVolume \in [total : SUBSET Packet, peak : Peaks]
      BY DEF NoVolume, Peaks
    <3> QED
      BY <3>1 DEF Init
  <2>3. decoded \in [Routers -> [Kinds -> SUBSET Packet]]
    BY DEF Init
  <2>4. \A r \in Routers : IsFiniteSet(decoded[r]["bw"])
    <3>1. \A r \in Routers : decoded[r]["bw"] = {}
      BY DEF Init, Kinds
    <3> QED
      BY <3>1, FS_EmptySet
  <2> QED
    BY <1>1, <1>2, <1>3, <2>1, <2>2, <2>3, <2>4 DEF Init, Types, Kinds
<1>5. ASSUME NEW r \in Routers PROVE RouterTimed(r)
  BY <1>1, <1>2 DEF Init, RouterTimed, Publishing, MinuteOf
<1> QED
  BY <1>1, <1>4, <1>5 DEF Init, ClockInv, HandsApart

\* The packet a router decodes.
LEMMA NewPacket ==
  ASSUME Types, NEW r \in Routers, Cardinality(decoded[r]["bw"]) < MAX_DECODED,
         NEW age \in 1 .. 2 * ROUTER_LAG + 1
  PROVE  LET p == [id |-> Cardinality(decoded[r]["bw"]) + 1, router |-> r,
                   sec |-> epochSec - age, min |-> absMin[r]]
         IN  p \in Packet
<1>1. PICK n \in Nat : n = Cardinality(decoded[r]["bw"])
  BY FS_CardinalityType DEF Types
<1>2. n + 1 \in 1 .. MAX_DECODED
  BY <1>1, BandwidthAssumption
<1>3. epochSec - age \in Seconds
  BY BandwidthAssumption DEF Types, Seconds
<1>4. absMin[r] \in Nat
  BY DEF Types
<1> QED
  BY <1>1, <1>2, <1>3, <1>4 DEF Packet

-----------------------------------------------------------------------------
(* What each step of a router writes.                                       *)

\* One entry of a table is replaced.
LEMMA SetOne ==
  ASSUME NEW S, NEW f \in [Routers -> [Kinds -> S]], NEW r \in Routers, NEW k \in Kinds,
         NEW v \in S, NEW g, g = [f EXCEPT ![r] = [f[r] EXCEPT ![k] = v]]
  PROVE  /\ g \in [Routers -> [Kinds -> S]]
         /\ \A q \in Routers \ {r} : g[q] = f[q]
         /\ \A j \in Kinds \ {k} : g[r][j] = f[r][j]
         /\ g[r][k] = v
<1>1. f[r] \in [Kinds -> S]
  OBVIOUS
<1>2. PICK h : h = [f[r] EXCEPT ![k] = v]
  OBVIOUS
<1>3. h \in [Kinds -> S] /\ h[k] = v /\ \A j \in Kinds \ {k} : h[j] = f[r][j]
  BY <1>1, <1>2
<1>4. g = [f EXCEPT ![r] = h]
  BY <1>2
<1> QED
  BY <1>3, <1>4

SameRouter(q) ==
  /\ rpc'[q] = rpc[q] /\ curMin'[q] = curMin[q] /\ prevMin'[q] = prevMin[q]
  /\ kind'[q] = kind[q] /\ bucket'[q] = bucket[q] /\ pub'[q] = pub[q]
  /\ readSec'[q] = readSec[q] /\ absMin'[q] = absMin[q]
  /\ decoded'[q] = decoded[q] /\ inARow'[q] = inARow[q]

\* A step of r, as far as the other routers and the other threads see it.
Alone(r) ==
  /\ \A q \in Routers \ {r} : SameRouter(q)
  /\ UNCHANGED clockVars /\ UNCHANGED processVars

LEMMA DidReadSec ==
  ASSUME Types, NEW r \in Routers, ReadSec(r)
  PROVE  /\ Types' /\ Alone(r)
         /\ rpc[r] \in {"sec", "walk"} /\ rpc'[r] = "min" /\ readSec'[r] = epochSec
         /\ UNCHANGED <<curMin, prevMin, kind, bucket, pub, absMin, decoded, inARow>>
<1>1. /\ rpc[r] \in {"sec", "walk"}
      /\ readSec' = [readSec EXCEPT ![r] = epochSec] /\ rpc' = [rpc EXCEPT ![r] = "min"]
      /\ UNCHANGED <<curMin, prevMin, kind, bucket, pub, absMin, decoded, inARow>>
      /\ UNCHANGED clockVars /\ UNCHANGED processVars
  BY DEF ReadSec
<1>2. epochSec \in Nat /\ epochSec' = epochSec /\ minSec' = minSec
  BY <1>1, BandwidthAssumption DEF Types, clockVars
<1>3. Types'
  BY <1>1, <1>2 DEF Types
<1>4. Alone(r)
  BY <1>1 DEF Types, Alone, SameRouter
<1> QED
  BY <1>1, <1>3, <1>4 DEF Types

LEMMA DidReadMin ==
  ASSUME Types, NEW r \in Routers, ReadMin(r)
  PROVE  /\ Types' /\ Alone(r)
         /\ rpc[r] = "min" /\ kind'[r] = "bw"
         /\ absMin'[r] = AbsMinute(minSec) /\ curMin'[r] = AbsMinute(minSec) % HOUR_MINS
         /\ rpc'[r] = IF AbsMinute(minSec) % HOUR_MINS # prevMin[r] THEN "total" ELSE "walk"
         /\ UNCHANGED <<prevMin, bucket, pub, readSec, decoded, inARow>>
<1>1. PICK m, n : m = AbsMinute(minSec) /\ n = MinuteOf(minSec)
  OBVIOUS
<1>2. m \in Nat /\ n \in Minutes /\ n = m % HOUR_MINS
  BY <1>1, StartOfMinute, MinuteOfHour DEF MinuteOf, Types
<1>3. /\ rpc[r] = "min"
      /\ curMin' = [curMin EXCEPT ![r] = n] /\ absMin' = [absMin EXCEPT ![r] = m]
      /\ kind' = [kind EXCEPT ![r] = "bw"]
      /\ rpc' = [rpc EXCEPT ![r] = IF curMin'[r] # prevMin[r] THEN "total" ELSE "walk"]
      /\ UNCHANGED <<prevMin, bucket, pub, readSec, decoded, inARow>>
      /\ UNCHANGED clockVars /\ UNCHANGED processVars
  BY <1>1 DEF ReadMin, MinuteChanged
<1>4. curMin'[r] = n
  BY <1>3 DEF Types
<1>5. epochSec' = epochSec /\ minSec' = minSec
  BY <1>3 DEF clockVars
<1>6. Types'
  BY <1>2, <1>3, <1>5 DEF Types, Kinds
<1>7. Alone(r)
  BY <1>3 DEF Types, Alone, SameRouter
<1>8. rpc'[r] = IF n # prevMin[r] THEN "total" ELSE "walk"
  BY <1>3, <1>4 DEF Types
<1>9. absMin'[r] = m /\ kind'[r] = "bw"
  BY <1>3 DEF Types
<1> QED
  BY <1>1, <1>2, <1>3, <1>4, <1>6, <1>7, <1>8, <1>9

\* The array published while the minute is prevMin's next.
LEMMA ArrayIndex ==
  ASSUME Types, NEW r \in Routers
  PROVE  /\ OtherParity(prevMin[r]) = 1 - (prevMin[r] % 2)
         /\ 1 - (prevMin[r] % 2) \in 0 .. 1 /\ curMin[r] % 2 \in 0 .. 1
<1>1. PICK m \in Nat, n \in Nat : m = prevMin[r] /\ n = curMin[r]
  BY BandwidthAssumption DEF Types, Minutes
<1> QED
  BY <1>1, OtherArray DEF OtherParity

LEMMA DidPublishTotal ==
  ASSUME Types, NEW r \in Routers, PublishTotal(r), NEW k, k = kind[r]
  PROVE  /\ Types' /\ Alone(r)
         /\ rpc[r] = "total" /\ k \in on /\ rpc'[r] = "peak"
         /\ pub'[r][k].total = bucket[r][k][1 - (prevMin[r] % 2)]
         /\ \A j \in Kinds \ {k} : pub'[r][j] = pub[r][j]
         /\ UNCHANGED <<curMin, prevMin, kind, bucket, readSec, absMin, decoded, inARow>>
<1>1. k \in Kinds
  BY DEF Types
<1>2. PICK t \in 0 .. 1 : t = OtherParity(prevMin[r]) /\ t = 1 - (prevMin[r] % 2)
  BY ArrayIndex
<1>3. PICK total \in SUBSET Packet : total = bucket[r][k][t]
  BY <1>1, <1>2 DEF Types, Arrays
<1>4. PICK v : v = [pub[r][k] EXCEPT !.total = total]
  OBVIOUS
<1>5. v \in [total : SUBSET Packet, peak : Peaks] /\ v.total = total
  <2>1. PICK w \in [total : SUBSET Packet, peak : Peaks] : w = pub[r][k]
    BY <1>1 DEF Types
  <2>2. v = [w EXCEPT !.total = total]
    BY <1>4, <2>1
  <2> QED
    BY <2>2
<1>6. /\ rpc[r] = "total" /\ k \in on
      /\ pub' = [pub EXCEPT ![r] = [pub[r] EXCEPT ![k] = v]]
      /\ rpc' = [rpc EXCEPT ![r] = "peak"]
      /\ UNCHANGED <<curMin, prevMin, kind, bucket, readSec, absMin, decoded, inARow>>
      /\ UNCHANGED clockVars /\ UNCHANGED processVars
  BY <1>2, <1>3, <1>4 DEF PublishTotal
<1>7. /\ pub' \in [Routers -> [Kinds -> [total : SUBSET Packet, peak : Peaks]]]
      /\ \A q \in Routers \ {r} : pub'[q] = pub[q]
      /\ \A j \in Kinds \ {k} : pub'[r][j] = pub[r][j]
      /\ pub'[r][k] = v
  BY <1>1, <1>5, <1>6, SetOne DEF Types
<1>8. epochSec' = epochSec /\ minSec' = minSec
  BY <1>6 DEF clockVars
<1>9. Types'
  BY <1>6, <1>7, <1>8 DEF Types
<1>10. Alone(r) /\ rpc'[r] = "peak"
  BY <1>6, <1>7 DEF Types, Alone, SameRouter
<1> QED
  BY <1>2, <1>3, <1>5, <1>6, <1>7, <1>9, <1>10

LEMMA DidNextKind ==
  ASSUME Types, NEW r \in Routers, NextKind(r)
  PROVE  /\ prevMin' \in [Routers -> Minutes] /\ kind' \in [Routers -> Kinds]
         /\ rpc' \in [Routers -> {"sec", "min", "total", "peak", "walk"}]
         /\ \A q \in Routers \ {r} :
              prevMin'[q] = prevMin[q] /\ kind'[q] = kind[q] /\ rpc'[q] = rpc[q]
         /\ kind[r] = "peering" =>
              prevMin'[r] = curMin[r] /\ rpc'[r] = "walk" /\ kind'[r] = kind[r]
         /\ kind[r] # "peering" =>
              /\ prevMin'[r] = prevMin[r] /\ rpc'[r] = "total"
              /\ kind'[r] = IF kind[r] = "bw" THEN "cdn" ELSE "peering"
<1>1. CASE kind[r] = "peering"
  <2>1. /\ prevMin' = [prevMin EXCEPT ![r] = curMin[r]] /\ rpc' = [rpc EXCEPT ![r] = "walk"]
        /\ kind' = kind
    BY <1>1 DEF NextKind
  <2> QED
    BY <1>1, <2>1 DEF Types
<1>2. CASE kind[r] # "peering"
  <2>1. PICK k \in Kinds : k = IF kind[r] = "bw" THEN "cdn" ELSE "peering"
    BY DEF Kinds
  <2>2. /\ kind' = [kind EXCEPT ![r] = k] /\ rpc' = [rpc EXCEPT ![r] = "total"]
        /\ prevMin' = prevMin
    BY <1>2, <2>1 DEF NextKind
  <2> QED
    BY <1>2, <2>1, <2>2 DEF Types
<1> QED
  BY <1>1, <1>2

LEMMA DidPublishPeak ==
  ASSUME Types, NEW r \in Routers, PublishPeak(r), NEW k, k = kind[r]
  PROVE  /\ Types' /\ Alone(r) /\ NextKind(r)
         /\ rpc[r] = "peak"
         /\ pub'[r][k].peak = Peak(bucket[r][k][1 - (prevMin[r] % 2)])
         /\ pub'[r][k].total = pub[r][k].total
         /\ bucket'[r][k] = [bucket[r][k] EXCEPT ![1 - (prevMin[r] % 2)] = {}]
         /\ inARow'[r][k] = IF inARow[r][k] < 3 THEN inARow[r][k] + 1 ELSE 3
         /\ \A j \in Kinds \ {k} : /\ pub'[r][j] = pub[r][j] /\ bucket'[r][j] = bucket[r][j]
                                   /\ inARow'[r][j] = inARow[r][j]
         /\ UNCHANGED <<curMin, readSec, absMin, decoded>>
<1>1. k \in Kinds
  BY DEF Types
<1>2. PICK t \in 0 .. 1 : t = OtherParity(prevMin[r]) /\ t = 1 - (prevMin[r] % 2)
  BY ArrayIndex
<1>3. PICK peak \in Peaks : peak = Peak(bucket[r][k][t])
  <2>1. bucket[r][k][t] \in SUBSET Packet
    BY <1>1, <1>2 DEF Types, Arrays
  <2>2. Peak(bucket[r][k][t]) \in Peaks
    BY <2>1 DEF Peaks
  <2> QED
    BY <2>2
<1>4. PICK v : v = [pub[r][k] EXCEPT !.peak = peak]
  OBVIOUS
<1>5. /\ v \in [total : SUBSET Packet, peak : Peaks]
      /\ v.peak = peak /\ v.total = pub[r][k].total
  <2>1. PICK w \in [total : SUBSET Packet, peak : Peaks] : w = pub[r][k]
    BY <1>1 DEF Types
  <2>2. v = [w EXCEPT !.peak = peak]
    BY <1>4, <2>1
  <2> QED
    BY <2>1, <2>2
<1>6. PICK b : b = [bucket[r][k] EXCEPT ![t] = {}]
  OBVIOUS
<1>7. b \in [0 .. 1 -> SUBSET Packet]
  BY <1>1, <1>6 DEF Types, Arrays
<1>8. PICK n : n = IF inARow[r][k] < 3 THEN inARow[r][k] + 1 ELSE 3
  OBVIOUS
<1>9. n \in 0 .. 3
  <2>1. PICK i \in 0 .. 3 : i = inARow[r][k]
    BY <1>1 DEF Types
  <2> QED
    BY <1>8, <2>1
<1>10. /\ rpc[r] = "peak" /\ NextKind(r)
       /\ pub' = [pub EXCEPT ![r] = [pub[r] EXCEPT ![k] = v]]
       /\ bucket' = [bucket EXCEPT ![r] = [bucket[r] EXCEPT ![k] = b]]
       /\ inARow' = [inARow EXCEPT ![r] = [inARow[r] EXCEPT ![k] = n]]
       /\ UNCHANGED <<curMin, readSec, absMin, decoded>>
       /\ UNCHANGED clockVars /\ UNCHANGED processVars
  BY <1>2, <1>3, <1>4, <1>6, <1>8 DEF PublishPeak
<1>11. /\ pub' \in [Routers -> [Kinds -> [total : SUBSET Packet, peak : Peaks]]]
       /\ \A q \in Routers \ {r} : pub'[q] = pub[q]
       /\ \A j \in Kinds \ {k} : pub'[r][j] = pub[r][j]
       /\ pub'[r][k] = v
  BY <1>1, <1>5, <1>10, SetOne DEF Types
<1>12. /\ bucket' \in [Routers -> [Kinds -> [0 .. 1 -> SUBSET Packet]]]
       /\ \A q \in Routers \ {r} : bucket'[q] = bucket[q]
       /\ \A j \in Kinds \ {k} : bucket'[r][j] = bucket[r][j]
       /\ bucket'[r][k] = b
  BY <1>1, <1>7, <1>10, SetOne DEF Types, Arrays
<1>13. /\ inARow' \in [Routers -> [Kinds -> 0 .. 3]]
       /\ \A q \in Routers \ {r} : inARow'[q] = inARow[q]
       /\ \A j \in Kinds \ {k} : inARow'[r][j] = inARow[r][j]
       /\ inARow'[r][k] = n
  BY <1>1, <1>9, <1>10, SetOne DEF Types
<1>14. epochSec' = epochSec /\ minSec' = minSec
  BY <1>10 DEF clockVars
<1>15. Types'
  BY <1>10, <1>11, <1>12, <1>13, <1>14, DidNextKind DEF Types, Arrays
<1>16. Alone(r)
  BY <1>10, <1>11, <1>12, <1>13, DidNextKind DEF Alone, SameRouter
<1> QED
  BY <1>2, <1>3, <1>5, <1>6, <1>8, <1>10, <1>11, <1>12, <1>13, <1>15, <1>16

LEMMA DidSkipKind ==
  ASSUME Types, NEW r \in Routers, SkipKind(r), NEW k, k = kind[r]
  PROVE  /\ Types' /\ Alone(r) /\ NextKind(r)
         /\ rpc[r] = "total" /\ k \notin on
         /\ inARow'[r][k] = 0
         /\ \A j \in Kinds \ {k} : inARow'[r][j] = inARow[r][j]
         /\ UNCHANGED <<curMin, bucket, pub, readSec, absMin, decoded>>
<1>1. k \in Kinds
  BY DEF Types
<1>2. PICK n \in 0 .. 3 : n = 0
  OBVIOUS
<1>3. /\ rpc[r] = "total" /\ k \notin on /\ NextKind(r)
      /\ inARow' = [inARow EXCEPT ![r] = [inARow[r] EXCEPT ![k] = n]]
      /\ UNCHANGED <<curMin, bucket, pub, readSec, absMin, decoded>>
      /\ UNCHANGED clockVars /\ UNCHANGED processVars
  BY <1>2 DEF SkipKind
<1>4. /\ inARow' \in [Routers -> [Kinds -> 0 .. 3]]
      /\ \A q \in Routers \ {r} : inARow'[q] = inARow[q]
      /\ \A j \in Kinds \ {k} : inARow'[r][j] = inARow[r][j]
      /\ inARow'[r][k] = n
  BY <1>1, <1>2, <1>3, SetOne DEF Types
<1>5. epochSec' = epochSec /\ minSec' = minSec
  BY <1>3 DEF clockVars
<1>6. Types'
  BY <1>3, <1>4, <1>5, DidNextKind DEF Types
<1>7. Alone(r)
  BY <1>3, <1>4, DidNextKind DEF Alone, SameRouter
<1> QED
  BY <1>2, <1>3, <1>4, <1>6, <1>7

\* The packet a router decodes, and the kinds it is filed under.
LEMMA DidDecode ==
  ASSUME Types, NEW r \in Routers, Decode(r)
  PROVE  \E p \in Packet, of \in SUBSET (on \cup {"bw"}) :
           /\ Types' /\ Alone(r) /\ rpc[r] = "walk"
           /\ p.min = absMin[r]
           /\ epochSec - (2 * ROUTER_LAG + 1) <= p.sec /\ p.sec <= epochSec - 1
           /\ \A k \in Kinds :
                /\ decoded'[r][k] = IF k \in of THEN decoded[r][k] \cup {p} ELSE decoded[r][k]
                /\ bucket'[r][k] =
                     IF k \in of THEN [bucket[r][k] EXCEPT ![curMin[r] % 2] = @ \cup {p}]
                                 ELSE bucket[r][k]
           /\ UNCHANGED <<rpc, curMin, prevMin, kind, pub, readSec, absMin, inARow>>
<1>1. PICK age \in 1 .. 2 * ROUTER_LAG + 1, of \in {{"bw"}} \cup {{"bw", k} : k \in on \ {"bw"}} :
        LET p == [id |-> Cardinality(decoded[r]["bw"]) + 1, router |-> r,
                  sec |-> epochSec - age, min |-> absMin[r]]
            t == curMin[r] % 2
        IN  /\ bucket' = [bucket EXCEPT ![r] =
                 [k \in Kinds |-> IF k \in of THEN [bucket[r][k] EXCEPT ![t] = @ \cup {p}]
                                              ELSE bucket[r][k]]]
            /\ decoded' = [decoded EXCEPT ![r] =
                 [k \in Kinds |-> IF k \in of THEN @[k] \cup {p} ELSE @[k]]]
  BY DEF Decode
<1>2. /\ Cardinality(decoded[r]["bw"]) < MAX_DECODED /\ rpc[r] = "walk"
      /\ UNCHANGED <<rpc, curMin, prevMin, kind, pub, readSec, absMin, inARow>>
      /\ UNCHANGED clockVars /\ UNCHANGED processVars
  BY DEF Decode
<1>3. PICK p : p = [id |-> Cardinality(decoded[r]["bw"]) + 1, router |-> r,
                    sec |-> epochSec - age, min |-> absMin[r]]
  OBVIOUS
<1>4. p \in Packet
  BY <1>2, <1>3, NewPacket
<1>5. p.min = absMin[r] /\ p.sec = epochSec - age
  BY <1>3
<1>6. epochSec - (2 * ROUTER_LAG + 1) <= p.sec /\ p.sec <= epochSec - 1
  <2>1. epochSec \in Nat /\ ROUTER_LAG \in Nat
    BY BandwidthAssumption DEF Types
  <2>2. PICK s \in Int : s = p.sec /\ s = epochSec - age
    BY <1>5, <2>1
  <2> QED
    BY <2>1, <2>2
<1>7. PICK t \in 0 .. 1 : t = curMin[r] % 2
  BY ArrayIndex
<1>8. PICK d, b : /\ d = [k \in Kinds |-> IF k \in of THEN decoded[r][k] \cup {p}
                                                      ELSE decoded[r][k]]
                  /\ b = [k \in Kinds |-> IF k \in of
                                          THEN [bucket[r][k] EXCEPT ![t] = @ \cup {p}]
                                          ELSE bucket[r][k]]
  OBVIOUS
<1>9. decoded' = [decoded EXCEPT ![r] = d] /\ bucket' = [bucket EXCEPT ![r] = b]
  BY <1>1, <1>3, <1>7, <1>8
<1>10. d \in [Kinds -> SUBSET Packet]
  BY <1>4, <1>8 DEF Types
<1>11. b \in [Kinds -> [0 .. 1 -> SUBSET Packet]]
  <2>1. \A k \in Kinds : bucket[r][k] \in [0 .. 1 -> SUBSET Packet]
    BY DEF Types, Arrays
  <2>2. \A k \in Kinds : [bucket[r][k] EXCEPT ![t] = @ \cup {p}] \in [0 .. 1 -> SUBSET Packet]
    BY <1>4, <1>7, <2>1
  <2> QED
    BY <1>8, <2>1, <2>2
<1>12. /\ decoded' \in [Routers -> [Kinds -> SUBSET Packet]] /\ decoded'[r] = d
       /\ \A q \in Routers \ {r} : decoded'[q] = decoded[q]
  BY <1>9, <1>10 DEF Types
<1>13. /\ bucket' \in Arrays /\ bucket'[r] = b
       /\ \A q \in Routers \ {r} : bucket'[q] = bucket[q]
  BY <1>9, <1>11 DEF Types, Arrays
<1>14. \A q \in Routers : IsFiniteSet(decoded'[q]["bw"])
  <2>1. "bw" \in Kinds
    BY DEF Kinds
  <2>2. \A q \in Routers : decoded'[q]["bw"] \in {decoded[q]["bw"], decoded[q]["bw"] \cup {p}}
    BY <1>8, <1>12, <2>1
  <2>3. \A q \in Routers : IsFiniteSet(decoded[q]["bw"])
    BY DEF Types
  <2>4. \A q \in Routers : IsFiniteSet(decoded[q]["bw"] \cup {p})
    BY <2>3, FS_AddElement
  <2> QED
    BY <2>2, <2>3, <2>4
<1>15. epochSec' = epochSec /\ minSec' = minSec
  BY <1>2 DEF clockVars
<1>16. Types'
  BY <1>2, <1>12, <1>13, <1>14, <1>15 DEF Types
<1>17. Alone(r)
  BY <1>2, <1>12, <1>13 DEF Alone, SameRouter
<1>18. \A k \in Kinds :
         /\ decoded'[r][k] = IF k \in of THEN decoded[r][k] \cup {p} ELSE decoded[r][k]
         /\ bucket'[r][k] =
              IF k \in of THEN [bucket[r][k] EXCEPT ![curMin[r] % 2] = @ \cup {p}]
                          ELSE bucket[r][k]
  BY <1>7, <1>8, <1>12, <1>13
<1>19. of \in SUBSET (on \cup {"bw"})
  OBVIOUS
<1> QED
  BY <1>2, <1>4, <1>5, <1>6, <1>16, <1>17, <1>18, <1>19

LEMMA StepTypes == Types /\ [Next]_vars => Types'
<1> SUFFICES ASSUME Types, [Next]_vars PROVE Types'
  OBVIOUS
<1>1. START \in Nat /\ MAX_SEC \in Nat /\ epochSec \in Nat /\ minSec \in Nat
  BY BandwidthAssumption DEF Types
<1>2. ASSUME UNCHANGED routerVars, epochSec' \in START .. MAX_SEC, minSec' \in Nat PROVE Types'
  BY <1>2 DEF routerVars, Types
<1>3. CASE TickSec
  <2>1. /\ UNCHANGED routerVars /\ epochSec' = epochSec + 1 /\ epochSec < MAX_SEC
        /\ minSec' = minSec
    BY <1>3 DEF TickSec
  <2>2. epochSec' \in START .. MAX_SEC /\ minSec' \in Nat
    BY <1>1, <2>1 DEF Types
  <2> QED
    BY <1>2, <2>1, <2>2
<1>4. CASE TickMin
  BY <1>1, <1>2, <1>4 DEF TickMin, Types
<1>5. CASE Switch
  BY <1>1, <1>2, <1>5 DEF Switch, Types
<1>6. CASE ProcessStep
  BY <1>1, <1>2, <1>6 DEF ProcessStep, Wake, ReadField, LeaveOut, clockVars, Types
<1>7. CASE UNCHANGED vars
  BY <1>1, <1>2, <1>7 DEF vars, clockVars, Types
<1>8. ASSUME NEW r \in Routers, RouterStep(r) PROVE Types'
  BY <1>8, DidReadSec, DidReadMin, DidPublishTotal, DidPublishPeak, DidSkipKind, DidDecode
     DEF RouterStep
<1> QED
  BY <1>3, <1>4, <1>5, <1>6, <1>7, <1>8 DEF Next

-----------------------------------------------------------------------------
(* The clock and the routers' minutes.                                      *)

LEMMA Counts ==
  ASSUME Types
  PROVE  /\ epochSec \in Nat /\ minSec \in Nat /\ ROUTER_LAG \in Nat
         /\ \A r \in Routers : readSec[r] \in Nat /\ absMin[r] \in Nat
<1>1. START \in Nat /\ ROUTER_LAG \in Nat
  BY BandwidthAssumption
<1>2. epochSec \in Nat
  BY <1>1 DEF Types
<1> QED
  BY <1>1, <1>2 DEF Types

\* The minute a router would read is its own or the next; and it is its own
\* while the router publishes.
LEMMA NextMinute ==
  ASSUME Timely, ClockInv, NEW r \in Routers
  PROVE  /\ AbsMinute(minSec) \in {absMin[r], absMin[r] + 1}
         /\ Publishing(r) => AbsMinute(minSec) = absMin[r]
<1>1. PICK lag \in Nat, e \in Nat, s \in Nat, t \in Nat, m \in Nat :
        /\ lag = ROUTER_LAG /\ e = epochSec /\ s = minSec /\ t = readSec[r] /\ m = absMin[r]
  <2>1. /\ epochSec \in Nat /\ minSec \in Nat /\ ROUTER_LAG \in Nat
        /\ readSec[r] \in Nat /\ absMin[r] \in Nat
    BY Counts DEF ClockInv
  <2> QED
    BY <2>1
<1>2. PICK a \in Int, b \in Int, c \in Int :
        a = MinuteStart(m) /\ b = MinuteStart(m + 1) /\ c = MinuteStart(m + 2)
  <2>1. m \in Int /\ m + 1 \in Int /\ m + 2 \in Int
    OBVIOUS
  <2>2. \A i \in Int : MinuteStart(i) \in Int
    BY StartOfMinute
  <2>3. MinuteStart(m) \in Int /\ MinuteStart(m + 1) \in Int /\ MinuteStart(m + 2) \in Int
    BY <2>1, <2>2
  <2> QED
    BY <2>3
<1>3. b > a + 2 * lag /\ c > b + 2 * lag
  <2>1. MIN_SECS \in Nat /\ 2 * lag + 1 <= MIN_SECS
    BY <1>1, BandwidthAssumption DEF Timely
  <2>2. MinuteStart(m + 1) = MinuteStart(m) + MIN_SECS
    BY StartOfMinute
  <2>3. MinuteStart(m + 1 + 1) = MinuteStart(m + 1) + MIN_SECS
    BY StartOfMinute
  <2>4. m + 1 + 1 = m + 2
    OBVIOUS
  <2> QED
    BY <1>2, <2>1, <2>2, <2>3, <2>4
<1>4. /\ s <= e /\ e <= t + lag /\ m <= AbsMinute(s)
      /\ t <= b + lag
      /\ Publishing(r) => t <= a + lag
  <2>1. s <= e
    BY <1>1 DEF ClockInv, HandsApart
  <2>2. RouterTimed(r)
    BY DEF ClockInv
  <2>3. /\ t <= e /\ e <= t + lag /\ m <= AbsMinute(s)
        /\ t <= b + (IF rpc[r] = "min" THEN lag ELSE 0)
        /\ Publishing(r) => t <= a + lag
    BY <1>1, <1>2, <2>2 DEF RouterTimed
  <2> QED
    BY <2>1, <2>3
<1>5. s < c /\ (Publishing(r) => s < b)
  <2>1. s <= e /\ e <= t + lag /\ t <= b + lag
    BY <1>4
  <2>2. s < c
    BY <1>3, <2>1
  <2>3. CASE Publishing(r)
    <3>1. t <= a + lag
      BY <1>4, <2>3
    <3> QED
      BY <1>3, <2>1, <2>2, <3>1
  <2> QED
    BY <2>2, <2>3
<1>6. AbsMinute(s) <= m + 1 /\ (Publishing(r) => AbsMinute(s) <= m)
  <2>1. c = MinuteStart(m + 1 + 1)
    <3>1. m + 1 + 1 = m + 2
      OBVIOUS
    <3> QED
      BY <1>2, <3>1
  <2> QED
    BY <1>2, <1>5, <2>1, MinuteBounds
<1>7. AbsMinute(s) \in Nat
  BY StartOfMinute
<1> QED
  BY <1>1, <1>4, <1>6, <1>7

\* A router's minute does not depend on the other threads.
LEMMA RouterTimedKept ==
  ASSUME ClockInv, Types', NEW r \in Routers, SameRouter(r), UNCHANGED <<epochSec, minSec>>
  PROVE  RouterTimed(r)'
BY DEF ClockInv, SameRouter, RouterTimed, Publishing

LEMMA TickKeeps ==
  ASSUME ClockInv, TickSec \/ TickMin, NEW r \in Routers
  PROVE  RouterTimed(r)'
<1>1. RouterTimed(r)
  BY DEF ClockInv
<1>2. /\ rpc' = rpc /\ curMin' = curMin /\ prevMin' = prevMin
      /\ readSec' = readSec /\ absMin' = absMin
  BY DEF TickSec, TickMin, routerVars
<1>3. PICK e \in Nat, f \in Nat, s \in Nat, u \in Nat, t \in Nat, m \in Nat, lag \in Nat :
        /\ e = epochSec /\ s = minSec /\ t = readSec[r] /\ m = absMin[r] /\ lag = ROUTER_LAG
        /\ f = epochSec' /\ u = minSec'
        /\ \/ f = e + 1 /\ u = s /\ e + 1 - t <= lag
           \/ f = e /\ u = e
  <2>1. PICK e \in Nat, s \in Nat, t \in Nat, m \in Nat, lag \in Nat :
          e = epochSec /\ s = minSec /\ t = readSec[r] /\ m = absMin[r] /\ lag = ROUTER_LAG
    <3>1. /\ epochSec \in Nat /\ minSec \in Nat /\ ROUTER_LAG \in Nat
          /\ readSec[r] \in Nat /\ absMin[r] \in Nat
      BY Counts DEF ClockInv
    <3> QED
      BY <3>1
  <2>2. CASE TickSec
    <3>1. epochSec' = e + 1 /\ minSec' = s /\ e + 1 - t <= lag
      BY <2>1, <2>2 DEF TickSec
    <3>2. e + 1 \in Nat
      BY <2>1
    <3> QED
      BY <2>1, <3>1, <3>2
  <2>3. CASE TickMin
    <3>1. epochSec' = e /\ minSec' = e
      BY <2>1, <2>3 DEF TickMin
    <3> QED
      BY <2>1, <3>1
  <2> QED
    BY <2>2, <2>3
<1>4. /\ t <= e /\ e <= t + lag /\ m <= AbsMinute(s) /\ s <= e
  BY <1>1, <1>3 DEF RouterTimed, ClockInv, HandsApart
<1>5. t <= f /\ f <= t + lag
  BY <1>3, <1>4
<1>6. m <= AbsMinute(u)
  <2>1. AbsMinute(s) \in Nat /\ MinuteStart(AbsMinute(s)) <= s /\ MinuteStart(AbsMinute(s)) \in Int
    BY StartOfMinute
  <2>2. s <= u
    BY <1>3, <1>4
  <2>3. MinuteStart(AbsMinute(s)) <= u
    BY <2>1, <2>2
  <2>4. AbsMinute(s) <= AbsMinute(u)
    BY <2>1, <2>3, MinuteBounds
  <2>5. AbsMinute(u) \in Nat
    BY StartOfMinute
  <2> QED
    BY <1>4, <2>1, <2>4, <2>5
<1> QED
  BY <1>1, <1>2, <1>3, <1>5, <1>6 DEF RouterTimed, Publishing

LEMMA RouterKeepsTime ==
  ASSUME Timely, ClockInv, Types', NEW r \in Routers, RouterStep(r)
  PROVE  RouterTimed(r)'
<1> DEFINE RT(pc, e, s, t, m, cur, prev) ==
      /\ t <= e /\ e <= t + ROUTER_LAG /\ m <= AbsMinute(s)
      /\ t <= MinuteStart(m + 1) + (IF pc = "min" THEN ROUTER_LAG ELSE 0)
      /\ pc \in {"total", "peak"} => t <= MinuteStart(m) + ROUTER_LAG
      /\ cur = m % HOUR_MINS
      /\ IF pc \in {"total", "peak"} THEN m >= 1 /\ prev = (m - 1) % HOUR_MINS
                                     ELSE prev = m % HOUR_MINS
<1>0. Types /\ RouterTimed(r)
  BY DEF ClockInv
<1>1. PICK lag \in Nat, e \in Nat, s \in Nat, t \in Nat, m \in Nat :
        /\ lag = ROUTER_LAG /\ e = epochSec /\ s = minSec /\ t = readSec[r] /\ m = absMin[r]
        /\ s <= e /\ e <= s + 1
  <2>1. /\ epochSec \in Nat /\ minSec \in Nat /\ ROUTER_LAG \in Nat
        /\ readSec[r] \in Nat /\ absMin[r] \in Nat
    BY <1>0, Counts
  <2>2. minSec <= epochSec /\ epochSec <= minSec + 1
    BY DEF ClockInv, HandsApart
  <2> QED
    BY <2>1, <2>2
<1>2. RT(rpc[r], e, s, t, m, curMin[r], prevMin[r])
  BY <1>0, <1>1 DEF RouterTimed, Publishing
<1>3. SUFFICES RT(rpc'[r], epochSec', minSec', readSec'[r], absMin'[r], curMin'[r], prevMin'[r])
  BY DEF RouterTimed, Publishing
<1>4. MinuteStart(m) \in Int /\ MinuteStart(m + 1) \in Int /\ AbsMinute(s) \in Nat
  BY StartOfMinute
<1>5. CASE ReadSec(r)
  <2>1. /\ Alone(r) /\ rpc[r] \in {"sec", "walk"} /\ rpc'[r] = "min" /\ readSec'[r] = e
        /\ curMin' = curMin /\ prevMin' = prevMin /\ absMin' = absMin
    BY <1>0, <1>1, <1>5, DidReadSec
  <2>2. epochSec' = e /\ minSec' = s
    BY <1>1, <2>1 DEF Alone, clockVars
  <2>3. RT("min", e, s, e, m, curMin[r], prevMin[r])
    BY <1>1, <1>2, <1>4, <2>1
  <2> QED
    BY <1>1, <2>1, <2>2, <2>3
<1>6. CASE ReadMin(r)
  <2>1. PICK n \in Nat : n = AbsMinute(s)
    BY <1>4
  <2>2. /\ Alone(r) /\ rpc[r] = "min"
        /\ absMin'[r] = n /\ curMin'[r] = n % HOUR_MINS
        /\ rpc'[r] = IF n % HOUR_MINS # prevMin[r] THEN "total" ELSE "walk"
        /\ prevMin' = prevMin /\ readSec' = readSec
    BY <1>0, <1>1, <1>6, <2>1, DidReadMin
  <2>3. epochSec' = e /\ minSec' = s
    BY <1>1, <2>2 DEF Alone, clockVars
  <2>4. n \in {m, m + 1}
    BY <1>1, <2>1, NextMinute
  <2>5. t <= MinuteStart(n + 1)
    <3>1. s < MinuteStart(n + 1) /\ MinuteStart(n + 1) \in Int
      BY <2>1, StartOfMinute
    <3>2. t <= e /\ e <= s + 1
      BY <1>1, <1>2
    <3> QED
      BY <3>1, <3>2
  <2>6. CASE n = m
    <3>1. rpc'[r] = "walk"
      BY <1>2, <2>2, <2>6
    <3>2. RT("walk", e, s, t, m, n % HOUR_MINS, prevMin[r])
      <4> HIDE DEF RT
      <4>1. PICK u \in Int : u = MinuteStart(m + 1)
        BY <1>4
      <4> QED
        BY <1>1, <1>2, <2>2, <2>5, <2>6, <4>1 DEF RT
    <3> QED
      BY <1>1, <2>2, <2>3, <2>6, <3>1, <3>2
  <2>7. CASE n = m + 1
    <3>1. prevMin[r] = m % HOUR_MINS /\ m % HOUR_MINS # (m + 1) % HOUR_MINS
      BY <1>2, <2>2, MinutesDiffer
    <3>2. rpc'[r] = "total"
      BY <2>2, <2>7, <3>1
    <3>3. n - 1 = m
      BY <2>7
    <3>4. t <= MinuteStart(n) + ROUTER_LAG
      BY <1>2, <2>2, <2>7
    <3>5. RT("total", e, s, t, n, n % HOUR_MINS, prevMin[r])
      <4>1. n >= 1 /\ n <= AbsMinute(s) /\ MinuteStart(n + 1) \in Int
        BY <2>1, <2>7, StartOfMinute
      <4>2. prevMin[r] = (n - 1) % HOUR_MINS
        BY <3>1, <3>3
      <4>3. t <= e /\ e <= t + ROUTER_LAG
        BY <1>2
      <4>4. t <= MinuteStart(n + 1) + 0
        BY <2>5, <4>1
      <4> QED
        BY <3>4, <4>1, <4>2, <4>3, <4>4
    <3> QED
      BY <1>1, <2>2, <2>3, <3>2, <3>5
  <2> QED
    BY <2>4, <2>6, <2>7
<1>7. CASE PublishTotal(r)
  <2>1. /\ Alone(r) /\ rpc[r] = "total" /\ rpc'[r] = "peak"
        /\ curMin' = curMin /\ prevMin' = prevMin /\ absMin' = absMin /\ readSec' = readSec
    BY <1>0, <1>7, DidPublishTotal
  <2>2. epochSec' = e /\ minSec' = s
    BY <1>1, <2>1 DEF Alone, clockVars
  <2>3. RT("peak", e, s, t, m, curMin[r], prevMin[r])
    BY <1>2, <2>1
  <2> QED
    BY <1>1, <2>1, <2>2, <2>3
<1>8. CASE PublishPeak(r) \/ SkipKind(r)
  <2>1. /\ Alone(r) /\ NextKind(r) /\ rpc[r] \in {"total", "peak"}
        /\ curMin' = curMin /\ absMin' = absMin /\ readSec' = readSec
    BY <1>0, <1>8, DidPublishPeak, DidSkipKind
  <2>2. epochSec' = e /\ minSec' = s
    BY <1>1, <2>1 DEF Alone, clockVars
  <2>3. \/ prevMin'[r] = curMin[r] /\ rpc'[r] = "walk"
        \/ prevMin'[r] = prevMin[r] /\ rpc'[r] = "total"
    BY <1>0, <2>1, DidNextKind
  <2>4. RT("total", e, s, t, m, curMin[r], prevMin[r])
    BY <1>2, <2>1
  <2>5. RT("walk", e, s, t, m, curMin[r], curMin[r])
    BY <1>2, <2>1
  <2> QED
    BY <1>1, <2>1, <2>2, <2>3, <2>4, <2>5
<1>9. CASE Decode(r)
  <2>1. /\ Alone(r) /\ rpc' = rpc
        /\ curMin' = curMin /\ prevMin' = prevMin /\ absMin' = absMin /\ readSec' = readSec
    BY <1>0, <1>9, DidDecode
  <2>2. epochSec' = e /\ minSec' = s
    BY <1>1, <2>1 DEF Alone, clockVars
  <2> QED
    BY <1>1, <1>2, <2>1, <2>2
<1> QED
  BY <1>5, <1>6, <1>7, <1>8, <1>9 DEF RouterStep

LEMMA StepClock == Timely /\ ClockInv /\ [Next]_vars => ClockInv'
<1> SUFFICES ASSUME Timely, ClockInv, [Next]_vars PROVE ClockInv'
  OBVIOUS
<1>1. Types'
  BY StepTypes DEF ClockInv
<1>2. HandsApart'
  <2>1. epochSec \in Nat /\ minSec \in Nat /\ HandsApart
    BY BandwidthAssumption DEF ClockInv, Types
  <2>2. \/ epochSec' = epochSec + 1 /\ minSec' = minSec /\ minSec = epochSec
        \/ epochSec' = epochSec /\ minSec' = epochSec
        \/ epochSec' = epochSec /\ minSec' = minSec
    <3>1. ASSUME NEW r \in Routers, RouterStep(r) PROVE UNCHANGED clockVars
      BY <3>1 DEF RouterStep, ReadSec, ReadMin, PublishTotal, PublishPeak, SkipKind, Decode
    <3>2. CASE TickSec
      BY <3>2 DEF TickSec
    <3>3. CASE TickMin
      BY <3>3 DEF TickMin
    <3>4. CASE Switch
      BY <3>4 DEF Switch
    <3>5. CASE ProcessStep
      BY <3>5 DEF ProcessStep, Wake, ReadField, LeaveOut, clockVars
    <3> QED
      BY <3>1, <3>2, <3>3, <3>4, <3>5 DEF Next, vars, clockVars
  <2> QED
    BY <2>1, <2>2 DEF HandsApart
<1>3. ASSUME NEW q \in Routers PROVE RouterTimed(q)'
  <2>1. CASE TickSec \/ TickMin
    BY <2>1, TickKeeps
  <2>2. CASE Switch \/ ProcessStep \/ UNCHANGED vars
    <3>1. UNCHANGED routerVars /\ UNCHANGED <<epochSec, minSec>>
      BY <2>2 DEF Switch, ProcessStep, Wake, ReadField, LeaveOut, vars, clockVars
    <3>2. SameRouter(q)
      BY <3>1 DEF routerVars, SameRouter
    <3> QED
      BY <1>1, <3>1, <3>2, RouterTimedKept
  <2>3. ASSUME NEW r \in Routers, RouterStep(r) PROVE RouterTimed(q)'
    <3>1. Alone(r)
      BY <2>3, DidReadSec, DidReadMin, DidPublishTotal, DidPublishPeak, DidSkipKind, DidDecode
         DEF RouterStep, ClockInv
    <3>2. UNCHANGED <<epochSec, minSec>>
      BY <3>1 DEF Alone, clockVars
    <3>3. q # r => SameRouter(q)
      BY <3>1 DEF Alone
    <3> QED
      BY <1>1, <2>3, <3>2, <3>3, RouterTimedKept, RouterKeepsTime
  <2> QED
    BY <2>1, <2>2, <2>3 DEF Next
<1> QED
  BY <1>1, <1>2, <1>3 DEF ClockInv

-----------------------------------------------------------------------------
(* What is in the arrays.                                                   *)

\* The arrays a router files in and publishes from, by its minute.
LEMMA Parity ==
  ASSUME ClockInv, NEW r \in Routers
  PROVE  /\ absMin[r] \in Nat /\ absMin[r] % 2 \in 0 .. 1 /\ curMin[r] % 2 = absMin[r] % 2
         /\ Publishing(r) =>
              /\ absMin[r] - 1 \in Nat /\ (absMin[r] - 1) % 2 \in 0 .. 1
              /\ prevMin[r] % 2 = (absMin[r] - 1) % 2
              /\ absMin[r] % 2 = 1 - ((absMin[r] - 1) % 2)
<1>1. PICK m \in Nat : m = absMin[r]
  BY DEF ClockInv, Types
<1>2. RouterTimed(r)
  BY DEF ClockInv
<1>3. curMin[r] % 2 = m % 2
  BY <1>1, <1>2, MinuteOfHour DEF RouterTimed
<1>4. CASE Publishing(r)
  <2>1. m >= 1 /\ prevMin[r] = (m - 1) % HOUR_MINS
    BY <1>1, <1>2, <1>4 DEF RouterTimed
  <2>2. PICK n \in Nat : n = m - 1 /\ m = n + 1
    BY <2>1
  <2>3. prevMin[r] % 2 = n % 2
    BY <2>1, <2>2, MinuteOfHour
  <2> QED
    BY <1>1, <1>3, <2>2, <2>3, OtherArray
<1> QED
  BY <1>1, <1>3, <1>4, OtherArray

LEMMA InitFiled == Init => FiledInv
<1> SUFFICES ASSUME Init, NEW r \in Routers, NEW k \in Kinds
             PROVE  PacketsTimed(r, k) /\ Filed(r, k)
  BY DEF FiledInv
<1>1. /\ decoded[r][k] = {} /\ bucket[r][k] = [t \in 0 .. 1 |-> {}]
      /\ pub[r][k] = NoVolume /\ rpc[r] = "sec"
  BY DEF Init
<1>2. PICK m \in Nat : m = absMin[r]
  <2>1. absMin[r] \in Nat
    BY InitClock DEF ClockInv, Types
  <2> QED
    BY <2>1
<1>3. LastFiled(r, k) = m
  BY <1>1, <1>2 DEF LastFiled, Pending, Publishing
<1>4. m % 2 \in 0 .. 1 /\ 1 - (m % 2) \in 0 .. 1
  BY OtherArray
<1>5. \A i : FiledInMinute(r, k, i) = {}
  BY <1>1 DEF FiledInMinute
<1>6. Peak({}) = 0
  <2>1. Peak({}) = Max({0})
    BY DEF Peak
  <2>2. \E x \in {0} : \A y \in {0} : x >= y
    OBVIOUS
  <2>3. Max({0}) \in {0}
    BY <2>2 DEF Max
  <2> QED
    BY <2>1, <2>3
<1>7. PacketsTimed(r, k)
  BY <1>1 DEF PacketsTimed
<1>8. pub[r][k].total = {} /\ pub[r][k].peak = 0
  BY <1>1 DEF NoVolume
<1>9. bucket[r][k][m % 2] = {} /\ bucket[r][k][1 - (m % 2)] = {}
  BY <1>1, <1>4
<1>10. Filed(r, k)
  BY <1>1, <1>3, <1>5, <1>6, <1>8, <1>9 DEF Filed
<1> QED
  BY <1>7, <1>10

\* What is filed does not depend on the other threads, nor one kind on another
\* whose turn does not pass.
LEMMA FiledKept ==
  ASSUME NEW r \in Routers, NEW k \in Kinds, PacketsTimed(r, k), Filed(r, k),
         Publishing(r)' <=> Publishing(r), (k \in Pending(r)') <=> (k \in Pending(r)),
         (rpc'[r] = "peak" /\ kind'[r] = k) <=> (rpc[r] = "peak" /\ kind[r] = k),
         absMin'[r] = absMin[r], decoded'[r][k] = decoded[r][k], pub'[r][k] = pub[r][k],
         bucket'[r][k] = bucket[r][k], inARow'[r][k] = inARow[r][k]
  PROVE  PacketsTimed(r, k)' /\ Filed(r, k)'
<1>1. PacketsTimed(r, k)'
  BY DEF PacketsTimed
<1>2. LastFiled(r, k)' = LastFiled(r, k)
  BY DEF LastFiled
<1>3. \A i : FiledInMinute(r, k, i)' = FiledInMinute(r, k, i)
  BY DEF FiledInMinute
<1>4. Filed(r, k)'
  BY <1>2, <1>3 DEF Filed
<1> QED
  BY <1>1, <1>4

LEMMA StepPublishTotal ==
  ASSUME ClockInv, FiledInv, NEW r \in Routers, PublishTotal(r), NEW k \in Kinds
  PROVE  PacketsTimed(r, k)' /\ Filed(r, k)'
<1>1. PICK c \in Kinds : c = kind[r]
  BY DEF ClockInv, Types
<1>2. /\ rpc[r] = "total" /\ rpc'[r] = "peak" /\ kind' = kind
      /\ pub'[r][c].total = bucket[r][c][1 - (prevMin[r] % 2)]
      /\ \A j \in Kinds \ {c} : pub'[r][j] = pub[r][j]
      /\ UNCHANGED <<bucket, absMin, decoded, inARow>>
  BY <1>1, DidPublishTotal DEF ClockInv
<1>3. PacketsTimed(r, k) /\ Filed(r, k)
  BY DEF FiledInv
<1>4. Publishing(r)' /\ Publishing(r)
  BY <1>2 DEF Publishing
<1>5. (k \in Pending(r)') <=> (k \in Pending(r))
  BY <1>2, <1>4 DEF Pending
<1>6. CASE k # c
  <2>1. (rpc'[r] = "peak" /\ kind'[r] = k) <=> (rpc[r] = "peak" /\ kind[r] = k)
    BY <1>1, <1>2, <1>6
  <2> QED
    BY <1>2, <1>3, <1>4, <1>5, <1>6, <2>1, FiledKept
<1>7. CASE k = c
  <2>1. PacketsTimed(r, k)'
    BY <1>2, <1>3, <1>4 DEF PacketsTimed
  <2>2. PICK m \in Nat : m = absMin[r] - 1 /\ prevMin[r] % 2 = m % 2
    BY <1>4, Parity
  <2>3. k \in Pending(r)
    BY <1>1, <1>4, <1>7 DEF Pending
  <2>4. LastFiled(r, k) = m /\ LastFiled(r, k)' = m
    BY <1>2, <1>5, <2>2, <2>3 DEF LastFiled
  <2>5. \A i : FiledInMinute(r, k, i)' = FiledInMinute(r, k, i)
    BY <1>2 DEF FiledInMinute
  <2>6. rpc'[r] = "peak" /\ kind'[r] = k
    BY <1>1, <1>2, <1>7
  <2>7. pub'[r][k].total = bucket'[r][k][1 - (m % 2)]
    BY <1>2, <1>7, <2>2
  <2>8. Filed(r, k)'
    BY <1>2, <1>3, <2>4, <2>5, <2>6, <2>7 DEF Filed
  <2> QED
    BY <2>1, <2>8
<1> QED
  BY <1>6, <1>7

\* The turn passes to the kinds that come after.
LEMMA Turn ==
  ASSUME Types, NEW r \in Routers, Publishing(r), NextKind(r)
  PROVE  /\ kind[r] \in Pending(r) /\ (kind[r] \notin Pending(r)')
         /\ \A k \in Kinds \ {kind[r]} : (k \in Pending(r)') <=> (k \in Pending(r))
         /\ rpc'[r] \in {"total", "walk"}
<1>1. kind[r] \in Kinds
  BY DEF Types
<1>2. CASE kind[r] = "peering"
  <2>1. rpc'[r] = "walk" /\ kind'[r] = "peering"
    BY <1>2, DidNextKind
  <2> QED
    BY <1>1, <1>2, <2>1 DEF Pending, Publishing, Kinds
<1>3. CASE kind[r] # "peering"
  <2>1. rpc'[r] = "total" /\ kind'[r] = IF kind[r] = "bw" THEN "cdn" ELSE "peering"
    BY <1>3, DidNextKind
  <2> QED
    BY <1>1, <1>3, <2>1 DEF Pending, Publishing, Kinds
<1> QED
  BY <1>2, <1>3

\* The other kinds, as one is published or skipped: the packets may now be of
\* the router's minute, and the rest is as it was.
LEMMA OthersKept ==
  ASSUME ClockInv, FiledInv, NEW r \in Routers, Publishing(r), NextKind(r),
         NEW k \in Kinds \ {kind[r]},
         absMin'[r] = absMin[r], decoded'[r][k] = decoded[r][k], pub'[r][k] = pub[r][k],
         bucket'[r][k] = bucket[r][k], inARow'[r][k] = inARow[r][k]
  PROVE  Filed(r, k)'
<1>1. /\ ((k \in Pending(r)') <=> (k \in Pending(r))) /\ rpc'[r] # "peak"
  BY Turn DEF ClockInv
<1>2. LastFiled(r, k)' = LastFiled(r, k)
  BY <1>1 DEF LastFiled
<1>3. \A i : FiledInMinute(r, k, i)' = FiledInMinute(r, k, i)
  BY DEF FiledInMinute
<1>4. Filed(r, k)
  BY DEF FiledInv
<1> QED
  BY <1>1, <1>2, <1>3, <1>4 DEF Filed

LEMMA PacketsStayTimed ==
  ASSUME ClockInv, FiledInv, NEW r \in Routers, Publishing(r), NEW k \in Kinds,
         absMin'[r] = absMin[r], decoded'[r][k] = decoded[r][k]
  PROVE  PacketsTimed(r, k)'
<1>1. PICK m \in Nat : m = absMin[r]
  BY Parity
<1>2. PacketsTimed(r, k)
  BY DEF FiledInv
<1>3. ASSUME NEW p \in decoded[r][k]
      PROVE  p.min <= m - 1 /\ p.min <= m
  <2>1. p \in Packet
    BY <1>3 DEF ClockInv, Types
  <2>2. PICK n \in Nat : n = p.min
    BY <2>1 DEF Packet
  <2>3. n <= m - 1
    BY <1>1, <1>2, <1>3, <2>2 DEF PacketsTimed
  <2> QED
    BY <2>2, <2>3
<1> QED
  BY <1>1, <1>2, <1>3 DEF PacketsTimed

LEMMA StepPublishPeak ==
  ASSUME ClockInv, FiledInv, NEW r \in Routers, PublishPeak(r), NEW k \in Kinds
  PROVE  PacketsTimed(r, k)' /\ Filed(r, k)'
<1>1. PICK c \in Kinds : c = kind[r]
  BY DEF ClockInv, Types
<1>2. /\ rpc[r] = "peak" /\ NextKind(r)
      /\ pub'[r][c].peak = Peak(bucket[r][c][1 - (prevMin[r] % 2)])
      /\ pub'[r][c].total = pub[r][c].total
      /\ bucket'[r][c] = [bucket[r][c] EXCEPT ![1 - (prevMin[r] % 2)] = {}]
      /\ inARow'[r][c] = IF inARow[r][c] < 3 THEN inARow[r][c] + 1 ELSE 3
      /\ \A j \in Kinds \ {c} : /\ pub'[r][j] = pub[r][j] /\ bucket'[r][j] = bucket[r][j]
                                /\ inARow'[r][j] = inARow[r][j]
      /\ UNCHANGED <<curMin, readSec, absMin, decoded>>
  BY <1>1, DidPublishPeak DEF ClockInv
<1>3. Publishing(r)
  BY <1>2 DEF Publishing
<1>4. PacketsTimed(r, k)'
  BY <1>2, <1>3, PacketsStayTimed
<1>5. CASE k # c
  BY <1>1, <1>2, <1>3, <1>4, <1>5, OthersKept
<1>6. CASE k = c
  <2>1. PICK m \in Nat, t \in 0 .. 1 :
          m + 1 = absMin[r] /\ t = m % 2 /\ t = prevMin[r] % 2 /\ (m + 1) % 2 = 1 - t
    <3>1. PICK m \in Nat : m = absMin[r] - 1
      BY <1>3, Parity
    <3>2. m + 1 = absMin[r]
      BY <3>1, Parity
    <3>3. m % 2 \in 0 .. 1 /\ m % 2 = prevMin[r] % 2 /\ (m + 1) % 2 = 1 - (m % 2)
      BY <1>3, <3>1, Parity, OtherArray
    <3> QED
      BY <3>2, <3>3
  <2>2. LastFiled(r, k) = m /\ LastFiled(r, k)' = m + 1 /\ rpc'[r] # "peak"
    <3>1. k \in Pending(r) /\ (k \notin Pending(r)') /\ rpc'[r] # "peak"
      BY <1>1, <1>2, <1>3, <1>6, Turn DEF ClockInv
    <3>2. absMin[r] - 1 = m /\ absMin'[r] = m + 1
      BY <1>2, <2>1
    <3> QED
      BY <3>1, <3>2 DEF LastFiled
  <2>3. \A i : FiledInMinute(r, k, i)' = FiledInMinute(r, k, i)
    BY <1>2 DEF FiledInMinute
  <2>4. FiledInMinute(r, k, m + 1) = {}
    <3>1. ASSUME NEW p \in decoded[r][k], p.min = m + 1 PROVE FALSE
      <4>1. PacketsTimed(r, k)
        BY DEF FiledInv
      <4>2. p.min <= absMin[r] - 1
        BY <1>3, <3>1, <4>1 DEF PacketsTimed
      <4> QED
        BY <2>1, <3>1, <4>2
    <3> QED
      BY <3>1 DEF FiledInMinute
  <2>5. Filed(r, k)
    BY DEF FiledInv
  <2>6. /\ inARow[r][k] >= 1 => bucket[r][k][t] = FiledInMinute(r, k, m)
        /\ inARow[r][k] >= 2 => bucket[r][k][1 - t] = FiledInMinute(r, k, m - 1)
        /\ pub[r][k].total = bucket[r][k][1 - t]
    BY <1>1, <1>2, <1>6, <2>1, <2>2, <2>5 DEF Filed
  <2>7. PICK n \in 0 .. 3, o \in 0 .. 3 :
          n = inARow[r][k] /\ o = inARow'[r][k] /\ o = IF n < 3 THEN n + 1 ELSE 3
    <3>1. PICK n \in 0 .. 3 : n = inARow[r][k]
      BY DEF ClockInv, Types
    <3>2. inARow'[r][k] = IF n < 3 THEN n + 1 ELSE 3
      BY <1>2, <1>6, <3>1
    <3>3. (IF n < 3 THEN n + 1 ELSE 3) \in 0 .. 3
      OBVIOUS
    <3> QED
      BY <3>1, <3>2, <3>3
  <2>8. (o >= 2 => n >= 1) /\ (o >= 3 => n >= 2)
    BY <2>7
  <2>9. /\ bucket'[r][k][1 - t] = {} /\ bucket'[r][k][t] = bucket[r][k][t]
    <3>1. bucket[r][k] \in [0 .. 1 -> SUBSET Packet] /\ 1 - t \in 0 .. 1 /\ 1 - t # t
      BY DEF ClockInv, Types, Arrays
    <3> QED
      BY <1>2, <1>6, <2>1, <3>1
  <2>10. m + 1 - 1 = m /\ m + 1 - 2 = m - 1 /\ 1 - (1 - t) = t
    OBVIOUS
  <2>11. Filed(r, k)'
    <3>1. o >= 1 => bucket'[r][k][1 - t] = FiledInMinute(r, k, m + 1)'
      BY <2>3, <2>4, <2>9
    <3>2. o >= 2 => bucket'[r][k][1 - (1 - t)] = FiledInMinute(r, k, m + 1 - 1)'
      BY <2>3, <2>6, <2>7, <2>8, <2>9, <2>10
    <3>3. o >= 3 => /\ pub'[r][k].total = FiledInMinute(r, k, m + 1 - 2)'
                    /\ pub'[r][k].peak = Peak(FiledInMinute(r, k, m + 1 - 2)')
      BY <1>2, <1>6, <2>1, <2>3, <2>6, <2>7, <2>8, <2>10
    <3>4. LastFiled(r, k)' = m + 1 /\ (m + 1) % 2 = 1 - t /\ rpc'[r] # "peak"
      BY <2>1, <2>2
    <3>5. o = inARow'[r][k]
      BY <2>7
    <3> QED
      BY <3>1, <3>2, <3>3, <3>4, <3>5 DEF Filed
  <2> QED
    BY <1>4, <2>11
<1> QED
  BY <1>5, <1>6

LEMMA StepSkipKind ==
  ASSUME ClockInv, FiledInv, NEW r \in Routers, SkipKind(r), NEW k \in Kinds
  PROVE  PacketsTimed(r, k)' /\ Filed(r, k)'
<1>1. PICK c \in Kinds : c = kind[r]
  BY DEF ClockInv, Types
<1>2. /\ rpc[r] = "total" /\ NextKind(r) /\ inARow'[r][c] = 0
      /\ \A j \in Kinds \ {c} : inARow'[r][j] = inARow[r][j]
      /\ UNCHANGED <<curMin, bucket, pub, readSec, absMin, decoded>>
  BY <1>1, DidSkipKind DEF ClockInv
<1>3. Publishing(r)
  BY <1>2 DEF Publishing
<1>4. PacketsTimed(r, k)'
  BY <1>2, <1>3, PacketsStayTimed
<1>5. CASE k # c
  BY <1>1, <1>2, <1>3, <1>4, <1>5, OthersKept
<1>6. CASE k = c
  <2>1. rpc'[r] # "peak"
    BY <1>2, <1>3, Turn DEF ClockInv
  <2>2. inARow'[r][k] = 0
    BY <1>2, <1>6
  <2> QED
    BY <1>4, <2>1, <2>2 DEF Filed
<1> QED
  BY <1>5, <1>6

LEMMA StepReadSec ==
  ASSUME ClockInv, FiledInv, NEW r \in Routers, ReadSec(r), NEW k \in Kinds
  PROVE  PacketsTimed(r, k)' /\ Filed(r, k)'
<1>1. /\ rpc[r] \in {"sec", "walk"} /\ rpc'[r] = "min"
      /\ UNCHANGED <<curMin, prevMin, kind, bucket, pub, absMin, decoded, inARow>>
  BY DidReadSec DEF ClockInv
<1>2. ~Publishing(r) /\ ~Publishing(r)'
  BY <1>1 DEF Publishing
<1>3. /\ (k \in Pending(r)') <=> (k \in Pending(r))
      /\ (rpc'[r] = "peak" /\ kind'[r] = k) <=> (rpc[r] = "peak" /\ kind[r] = k)
  BY <1>1, <1>2 DEF Pending
<1>4. PacketsTimed(r, k) /\ Filed(r, k)
  BY DEF FiledInv
<1> QED
  BY <1>1, <1>2, <1>3, <1>4, FiledKept

LEMMA StepReadMin ==
  ASSUME Timely, ClockInv, FiledInv, NEW r \in Routers, ReadMin(r), NEW k \in Kinds
  PROVE  PacketsTimed(r, k)' /\ Filed(r, k)'
<1>1. PICK m \in Nat, n \in Nat : m = absMin[r] /\ n = AbsMinute(minSec)
  <2>1. AbsMinute(minSec) \in Nat
    BY Counts, StartOfMinute DEF ClockInv
  <2> QED
    BY <2>1, Parity
<1>2. /\ rpc[r] = "min" /\ kind'[r] = "bw" /\ absMin'[r] = n
      /\ rpc'[r] = IF n % HOUR_MINS # prevMin[r] THEN "total" ELSE "walk"
      /\ UNCHANGED <<prevMin, bucket, pub, readSec, decoded, inARow>>
  BY <1>1, DidReadMin DEF ClockInv
<1>3. PacketsTimed(r, k) /\ Filed(r, k) /\ RouterTimed(r)
  BY DEF FiledInv, ClockInv
<1>4. ~Publishing(r)
  BY <1>2 DEF Publishing
<1>5. prevMin[r] = m % HOUR_MINS
  BY <1>1, <1>3, <1>4 DEF RouterTimed
<1>6. n \in {m, m + 1}
  BY <1>1, NextMinute
<1>7. k \notin Pending(r)
  BY <1>4 DEF Pending
<1>8. CASE n = m
  <2>1. rpc'[r] = "walk"
    BY <1>2, <1>5, <1>8
  <2>2. /\ ~Publishing(r)' /\ (k \notin Pending(r)')
        /\ (rpc'[r] = "peak" /\ kind'[r] = k) <=> (rpc[r] = "peak" /\ kind[r] = k)
    BY <1>2, <2>1 DEF Publishing, Pending
  <2> QED
    BY <1>1, <1>2, <1>3, <1>4, <1>7, <1>8, <2>1, <2>2, FiledKept
<1>9. CASE n = m + 1
  <2>1. rpc'[r] = "total"
    BY <1>2, <1>5, <1>9, MinutesDiffer
  <2>2. Publishing(r)' /\ (k \in Pending(r)')
    BY <1>2, <2>1 DEF Publishing, Pending
  <2>3. absMin'[r] - 1 = m
    BY <1>2, <1>9
  <2>4. PacketsTimed(r, k)'
    BY <1>1, <1>2, <1>3, <1>4, <2>2, <2>3 DEF PacketsTimed
  <2>5. LastFiled(r, k) = m /\ LastFiled(r, k)' = m
    BY <1>1, <1>7, <2>2, <2>3 DEF LastFiled
  <2>6. \A i : FiledInMinute(r, k, i)' = FiledInMinute(r, k, i)
    BY <1>2 DEF FiledInMinute
  <2>7. Filed(r, k)'
    BY <1>2, <1>3, <2>1, <2>5, <2>6 DEF Filed
  <2> QED
    BY <2>4, <2>7
<1> QED
  BY <1>6, <1>8, <1>9

LEMMA StepDecode ==
  ASSUME ClockInv, FiledInv, NEW r \in Routers, Decode(r), NEW k \in Kinds
  PROVE  PacketsTimed(r, k)' /\ Filed(r, k)'
<1>1. PICK p \in Packet, of \in SUBSET (on \cup {"bw"}) :
        /\ rpc[r] = "walk" /\ p.min = absMin[r]
        /\ epochSec - (2 * ROUTER_LAG + 1) <= p.sec /\ p.sec <= epochSec - 1
        /\ decoded'[r][k] = IF k \in of THEN decoded[r][k] \cup {p} ELSE decoded[r][k]
        /\ bucket'[r][k] =
             IF k \in of THEN [bucket[r][k] EXCEPT ![curMin[r] % 2] = @ \cup {p}]
                         ELSE bucket[r][k]
        /\ UNCHANGED <<rpc, curMin, prevMin, kind, pub, readSec, absMin, inARow>>
  BY DidDecode DEF ClockInv
<1>2. PICK m \in Nat, t \in 0 .. 1 : m = absMin[r] /\ t = m % 2 /\ curMin[r] % 2 = t
  <2>1. absMin[r] \in Nat /\ absMin[r] % 2 \in 0 .. 1
    BY Parity
  <2> QED
    BY <2>1, Parity
<1>3. PacketsTimed(r, k) /\ Filed(r, k) /\ RouterTimed(r)
  BY DEF FiledInv, ClockInv
<1>4. ~Publishing(r) /\ ~Publishing(r)'
  BY <1>1 DEF Publishing
<1>5. k \notin Pending(r) /\ (k \notin Pending(r)')
  BY <1>4 DEF Pending
<1>6. CASE k \notin of
  <2>1. (rpc'[r] = "peak" /\ kind'[r] = k) <=> (rpc[r] = "peak" /\ kind[r] = k)
    BY <1>1
  <2> QED
    BY <1>1, <1>3, <1>4, <1>5, <1>6, <2>1, FiledKept
<1>7. CASE k \in of
  <2>1. MinuteStart(m) <= p.sec + 2 * ROUTER_LAG + 1 /\ p.sec < MinuteStart(m + 1) + ROUTER_LAG
    <3>1. PICK e \in Nat, s \in Nat, lag \in Nat, d \in Nat, w \in Nat :
            /\ e = epochSec /\ s = minSec /\ lag = ROUTER_LAG /\ d = p.sec
            /\ w = readSec[r]
      <4>1. p.sec \in Nat
        BY BandwidthAssumption DEF Packet, Seconds
      <4>2. epochSec \in Nat /\ minSec \in Nat /\ ROUTER_LAG \in Nat /\ readSec[r] \in Nat
        BY Counts DEF ClockInv
      <4> QED
        BY <4>1, <4>2
    <3>2. PICK a \in Int, b \in Int, c \in Nat, f \in Int :
            /\ a = MinuteStart(m) /\ b = MinuteStart(m + 1)
            /\ c = AbsMinute(s) /\ f = MinuteStart(c)
      <4>1. AbsMinute(s) \in Nat
        BY StartOfMinute
      <4>2. /\ MinuteStart(m) \in Int /\ MinuteStart(m + 1) \in Int
            /\ MinuteStart(AbsMinute(s)) \in Int
        BY <4>1, StartOfMinute
      <4> QED
        BY <4>1, <4>2
    <3>3. s <= e /\ e <= w + lag /\ w <= b /\ f <= s
      <4>1. s <= e
        BY <3>1 DEF ClockInv, HandsApart
      <4>2. e <= w + lag
        BY <1>3, <3>1 DEF RouterTimed
      <4>3. w <= b + 0
        BY <1>1, <1>2, <1>3, <3>1, <3>2 DEF RouterTimed
      <4>4. f <= s
        BY <3>2, StartOfMinute
      <4> QED
        BY <4>1, <4>2, <4>3, <4>4
    <3>4. a <= f
      <4>1. m <= c
        BY <1>2, <1>3, <3>1, <3>2 DEF RouterTimed
      <4>2. CASE m = c
        BY <3>2, <4>2
      <4>3. CASE m < c
        <5>1. b <= f /\ b = a + MIN_SECS
          BY <3>2, <4>3, StartOfMinute
        <5>2. MIN_SECS \in Nat
          BY BandwidthAssumption
        <5> QED
          BY <5>1, <5>2
      <4> QED
        BY <4>1, <4>2, <4>3
    <3>5. e - (2 * lag + 1) <= d /\ d <= e - 1
      BY <1>1, <3>1
    <3>6. a <= d + 2 * lag + 1 /\ d < b + lag
      BY <3>3, <3>4, <3>5
    <3> QED
      BY <3>1, <3>2, <3>6
  <2>2. PacketsTimed(r, k)'
    <3>1. decoded'[r][k] = decoded[r][k] \cup {p}
      BY <1>1, <1>7
    <3>2. \A q \in decoded[r][k] :
            /\ q.min <= m
            /\ MinuteStart(q.min) <= q.sec + 2 * ROUTER_LAG + 1
            /\ q.sec < MinuteStart(q.min + 1) + ROUTER_LAG
      BY <1>2, <1>3, <1>4 DEF PacketsTimed
    <3>3. p.min = m /\ m <= m /\ absMin'[r] = m
      BY <1>1, <1>2
    <3>4. \A q \in decoded'[r][k] :
            /\ q.min <= absMin'[r]
            /\ MinuteStart(q.min) <= q.sec + 2 * ROUTER_LAG + 1
            /\ q.sec < MinuteStart(q.min + 1) + ROUTER_LAG
      BY <2>1, <3>1, <3>2, <3>3
    <3> QED
      BY <1>4, <3>4 DEF PacketsTimed
  <2>3. LastFiled(r, k) = m /\ LastFiled(r, k)' = m
    BY <1>1, <1>2, <1>5 DEF LastFiled
  <2>4. /\ FiledInMinute(r, k, m)' = FiledInMinute(r, k, m) \cup {p}
        /\ \A i : i # m => FiledInMinute(r, k, i)' = FiledInMinute(r, k, i)
    BY <1>1, <1>2, <1>7 DEF FiledInMinute
  <2>5. m - 1 # m /\ m - 2 # m
    OBVIOUS
  <2>6. /\ bucket'[r][k][t] = bucket[r][k][t] \cup {p}
        /\ bucket'[r][k][1 - t] = bucket[r][k][1 - t]
    <3>1. bucket[r][k] \in [0 .. 1 -> SUBSET Packet] /\ 1 - t \in 0 .. 1 /\ 1 - t # t
      BY DEF ClockInv, Types, Arrays
    <3>2. bucket'[r][k] = [bucket[r][k] EXCEPT ![t] = @ \cup {p}]
      BY <1>1, <1>2, <1>7
    <3> QED
      BY <3>1, <3>2
  <2>7. /\ FiledInMinute(r, k, m - 1)' = FiledInMinute(r, k, m - 1)
        /\ FiledInMinute(r, k, m - 2)' = FiledInMinute(r, k, m - 2)
    BY <2>4, <2>5
  <2>8. Filed(r, k)'
    BY <1>1, <1>2, <1>3, <2>3, <2>4, <2>6, <2>7 DEF Filed
  <2> QED
    BY <2>2, <2>8
<1> QED
  BY <1>6, <1>7

LEMMA StepFiled == Timely /\ ClockInv /\ FiledInv /\ [Next]_vars => FiledInv'
<1> SUFFICES ASSUME Timely, ClockInv, FiledInv, [Next]_vars, NEW q \in Routers, NEW k \in Kinds
             PROVE  PacketsTimed(q, k)' /\ Filed(q, k)'
  BY DEF FiledInv
<1>1. ASSUME SameRouter(q) PROVE PacketsTimed(q, k)' /\ Filed(q, k)'
  <2>1. Publishing(q)' <=> Publishing(q)
    BY <1>1 DEF SameRouter, Publishing
  <2>2. /\ (k \in Pending(q)') <=> (k \in Pending(q))
        /\ (rpc'[q] = "peak" /\ kind'[q] = k) <=> (rpc[q] = "peak" /\ kind[q] = k)
    BY <1>1, <2>1 DEF SameRouter, Pending
  <2>3. PacketsTimed(q, k) /\ Filed(q, k)
    BY DEF FiledInv
  <2> QED
    BY <1>1, <2>1, <2>2, <2>3, FiledKept DEF SameRouter
<1>2. CASE TickSec \/ TickMin \/ Switch \/ ProcessStep \/ UNCHANGED vars
  <2>1. UNCHANGED routerVars
    BY <1>2 DEF TickSec, TickMin, Switch, ProcessStep, Wake, ReadField, LeaveOut, vars
  <2>2. SameRouter(q)
    BY <2>1 DEF routerVars, SameRouter
  <2> QED
    BY <1>1, <2>2
<1>3. ASSUME NEW r \in Routers, RouterStep(r) PROVE PacketsTimed(q, k)' /\ Filed(q, k)'
  <2>1. CASE q # r
    <3>1. Alone(r)
      BY <1>3, DidReadSec, DidReadMin, DidPublishTotal, DidPublishPeak, DidSkipKind, DidDecode
         DEF RouterStep, ClockInv
    <3> QED
      BY <1>1, <2>1, <3>1 DEF Alone
  <2>2. CASE q = r
    BY <1>3, <2>2, StepReadSec, StepReadMin, StepPublishTotal, StepPublishPeak, StepSkipKind,
       StepDecode DEF RouterStep
  <2> QED
    BY <2>1, <2>2
<1> QED
  BY <1>2, <1>3 DEF Next

-----------------------------------------------------------------------------
(* What is published.                                                       *)

\* Between two numbers with the same remainder there is a multiple.
LEMMA SameRemainder ==
  ASSUME NEW n \in Nat \ {0}, NEW a \in Nat, NEW b \in Nat, a % n = b % n, a - b < n, b - a < n
  PROVE  a = b
<1>1. PICK i \in Nat, j \in Nat, c \in Nat : a = n * i + c /\ b = n * j + c
  <2>1. /\ a \div n \in Nat /\ b \div n \in Nat /\ a % n \in Nat
        /\ a = n * (a \div n) + (a % n) /\ b = n * (b \div n) + (b % n)
    BY Division
  <2> QED
    BY <2>1
<1>2. ASSUME NEW x \in Nat, NEW y \in Nat, x < y PROVE n * y >= n * x + n
  <2>1. PICK d \in Nat : y = x + 1 + d
    BY <1>2
  <2>2. n * y = n * x + n + n * d /\ n * d >= 0
    BY <2>1, SMT
  <2> QED
    BY <2>2, SMT
<1>3. n * i \in Int /\ n * j \in Int
  OBVIOUS
<1>4. ~(i < j)
  <2>1. i < j => n * j >= n * i + n
    BY <1>2
  <2> QED
    BY <1>1, <1>3, <2>1
<1>5. ~(j < i)
  <2>1. j < i => n * i >= n * j + n
    BY <1>2
  <2> QED
    BY <1>1, <1>3, <2>1
<1> QED
  BY <1>1, <1>4, <1>5

\* The seconds filed in one minute have a slot each.
LEMMA SlotsApart ==
  ASSUME Timely, ClockInv, FiledInv, NEW r \in Routers, NEW k \in Kinds, NEW m,
         NEW p \in FiledInMinute(r, k, m), NEW q \in FiledInMinute(r, k, m)
  PROVE  SlotOf(p.sec) = SlotOf(q.sec) <=> p.sec = q.sec
<1>1. /\ p \in Packet /\ q \in Packet /\ p.min = m /\ q.min = m
      /\ p \in decoded[r][k] /\ q \in decoded[r][k]
  BY DEF FiledInMinute, ClockInv, Types
<1>2. PICK a \in Nat, b \in Nat, lag \in Nat : a = p.sec /\ b = q.sec /\ lag = ROUTER_LAG
  <2>1. p.sec \in Nat /\ q.sec \in Nat
    BY <1>1, BandwidthAssumption DEF Packet, Seconds
  <2> QED
    BY <2>1, BandwidthAssumption
<1>3. PICK s \in Int, w \in Nat :
        /\ s = MinuteStart(m) /\ w = MIN_SECS /\ MinuteStart(m + 1) = s + w
        /\ w + 3 * lag + 2 <= BW_TIME_INDEX
  <2>1. m \in Int
    BY <1>1 DEF Packet
  <2>2. MinuteStart(m) \in Int /\ MinuteStart(m + 1) = MinuteStart(m) + MIN_SECS
    BY <2>1, StartOfMinute
  <2>3. MIN_SECS \in Nat /\ MIN_SECS + 3 * lag + 2 <= BW_TIME_INDEX
    BY <1>2, BandwidthAssumption DEF Timely
  <2> QED
    BY <2>2, <2>3
<1>4. /\ s <= a + 2 * lag + 1 /\ a < s + w + lag
      /\ s <= b + 2 * lag + 1 /\ b < s + w + lag
  <2>1. PacketsTimed(r, k)
    BY DEF FiledInv
  <2> QED
    BY <1>1, <1>2, <1>3, <2>1 DEF PacketsTimed
<1>5. BW_TIME_INDEX \in Nat \ {0}
  BY BandwidthAssumption
<1>6. a - b < BW_TIME_INDEX /\ b - a < BW_TIME_INDEX
  BY <1>3, <1>4, <1>5
<1>7. SlotOf(a) = SlotOf(b) => a = b
  BY <1>5, <1>6, SameRemainder DEF SlotOf
<1> QED
  BY <1>2, <1>7

BusiestSecond(filed) ==
  Max({0} \cup {Cardinality({p \in filed : p.sec = s}) : s \in {p.sec : p \in filed}})

\* The fullest slot is then the busiest second.
LEMMA PeakOfSeconds ==
  ASSUME NEW filed,
         \A p, q \in filed : SlotOf(q.sec) = SlotOf(p.sec) <=> q.sec = p.sec
  PROVE  Peak(filed) = BusiestSecond(filed)
<1>1. ASSUME NEW p \in filed
      PROVE  {q \in filed : SlotOf(q.sec) = SlotOf(p.sec)} = {q \in filed : q.sec = p.sec}
  BY <1>1
<1>2. {Cardinality({q \in filed : SlotOf(q.sec) = SlotOf(p.sec)}) : p \in filed}
        = {Cardinality({q \in filed : q.sec = p.sec}) : p \in filed}
  BY <1>1
<1>3. {Cardinality({q \in filed : q.sec = p.sec}) : p \in filed}
        = {Cardinality({q \in filed : q.sec = s}) : s \in {p.sec : p \in filed}}
  OBVIOUS
<1> QED
  BY <1>2, <1>3 DEF Peak, BusiestSecond

\* Between two publications, the volumes are those of two minutes before.
LEMMA PublishedExact ==
  ASSUME ClockInv, FiledInv, NEW r \in Routers, NEW k \in Kinds, Published(r, k)
  PROVE  /\ pub[r][k].total = FiledInMinute(r, k, absMin[r] - 2)
         /\ pub[r][k].peak = Peak(FiledInMinute(r, k, absMin[r] - 2))
<1>1. ~Publishing(r)
  <2>1. SUFFICES ASSUME Publishing(r) PROVE FALSE
    OBVIOUS
  <2>2. PICK m \in Nat : m = absMin[r] - 1 /\ absMin[r] = m + 1
    <3>1. absMin[r] \in Nat /\ absMin[r] - 1 \in Nat
      BY <2>1, Parity
    <3> QED
      BY <3>1
  <2>3. RouterTimed(r)
    BY DEF ClockInv
  <2>4. curMin[r] = (m + 1) % HOUR_MINS /\ prevMin[r] = m % HOUR_MINS
    BY <2>1, <2>2, <2>3 DEF RouterTimed
  <2> QED
    BY <2>4, MinutesDiffer DEF Published
<1>2. LastFiled(r, k) = absMin[r] /\ rpc[r] # "peak"
  BY <1>1 DEF LastFiled, Pending, Publishing
<1>3. Filed(r, k)
  BY DEF FiledInv
<1>4. inARow[r][k] >= 3
  BY DEF Published
<1> QED
  BY <1>2, <1>3, <1>4 DEF Filed

LEMMA ExactOfInv == ClockInv /\ FiledInv => MinuteExact
BY PublishedExact DEF MinuteExact

LEMMA PeakOfInv == ClockInv /\ FiledInv => PeakExact
<1>1. ASSUME ClockInv, FiledInv, NEW r \in Routers, NEW k \in Kinds, Timely, Published(r, k)
      PROVE  pub[r][k].peak = BusiestSecond(FiledInMinute(r, k, absMin[r] - 2))
  <2>1. PICK filed : filed = FiledInMinute(r, k, absMin[r] - 2)
    OBVIOUS
  <2>2. pub[r][k].peak = Peak(filed)
    BY <1>1, <2>1, PublishedExact
  <2>3. \A p, q \in filed : SlotOf(q.sec) = SlotOf(p.sec) <=> q.sec = p.sec
    BY <1>1, <2>1, SlotsApart
  <2> QED
    BY <2>1, <2>2, <2>3, PeakOfSeconds
<1> QED
  BY <1>1 DEF PeakExact, BusiestSecond

-----------------------------------------------------------------------------
(* The row.                                                                 *)

LEMMA MinuteGrows ==
  ASSUME NEW s \in Nat, NEW u \in Nat, s <= u
  PROVE  AbsMinute(s) <= AbsMinute(u)
<1>1. AbsMinute(s) \in Nat /\ MinuteStart(AbsMinute(s)) <= s /\ MinuteStart(AbsMinute(s)) \in Int
  BY StartOfMinute
<1>2. MinuteStart(AbsMinute(s)) <= u
  BY <1>1
<1> QED
  BY <1>1, <1>2, MinuteBounds

\* The minute processBw would read is its own or the next.
LEMMA NextReport ==
  ASSUME Timely, ClockInv, ReportTypes, ProcessTimed, ~(bpc = "sleep" /\ RowEmpty)
  PROVE  AbsMinute(minSec) \in {bwAbsMin, bwAbsMin + 1}
<1>1. PICK lag \in Nat, e \in Nat, s \in Nat, t \in Nat, m \in Nat :
        lag = BW_LAG /\ e = epochSec /\ s = minSec /\ t = bwReadSec /\ m = bwAbsMin
  <2>1. epochSec \in Nat /\ minSec \in Nat /\ BW_LAG \in Nat
    BY Counts, BandwidthAssumption DEF ClockInv
  <2>2. bwReadSec \in Nat /\ bwAbsMin \in Nat
    BY DEF ReportTypes
  <2> QED
    BY <2>1, <2>2
<1>2. PICK b \in Int, c \in Int : /\ b = MinuteStart(m + 1) /\ c = MinuteStart(m + 1 + 1)
                                  /\ c = b + MIN_SECS
  <2>1. m + 1 \in Int /\ m + 1 + 1 \in Int
    OBVIOUS
  <2>2. /\ MinuteStart(m + 1) \in Int /\ MinuteStart(m + 1 + 1) \in Int
        /\ MinuteStart(m + 1 + 1) = MinuteStart(m + 1) + MIN_SECS
    BY <2>1, StartOfMinute
  <2> QED
    BY <2>2
<1>3. MIN_SECS \in Nat /\ 2 * lag + 1 <= MIN_SECS
  BY <1>1, BandwidthAssumption DEF Timely
<1>4. s <= e /\ e <= t + lag /\ m <= AbsMinute(s) /\ t <= b
  BY <1>1, <1>2 DEF ClockInv, HandsApart, ProcessTimed
<1>5. s < c
  <2>1. s <= e /\ e <= t + lag /\ t <= b
    BY <1>4
  <2> QED
    BY <1>2, <1>3, <2>1
<1>6. AbsMinute(s) <= m + 1 /\ AbsMinute(s) \in Nat
  BY <1>2, <1>5, MinuteBounds, StartOfMinute
<1> QED
  BY <1>1, <1>4, <1>6

\* What processBw finds published is of the minutes it is to report.
LEMMA PublishedFresh ==
  ASSUME Timely, ClockInv, FiledInv, ReportTypes, ProcessTimed, bpc = "read",
         NEW r \in Routers, NEW k \in Kinds, inARow[r][k] = 3, NEW p \in pub[r][k].total
  PROVE  bwAbsMin - 3 <= p.min /\ p.min <= bwAbsMin - 1
<1>1. PICK m \in Nat, b \in Nat, c \in Nat :
        m = absMin[r] /\ b = bwAbsMin /\ c = AbsMinute(minSec)
  <2>1. AbsMinute(minSec) \in Nat
    BY Counts, StartOfMinute DEF ClockInv
  <2> QED
    BY <2>1, Parity DEF ReportTypes
<1>2. /\ c \in {m, m + 1} /\ c \in {b, b + 1}
      /\ Publishing(r) => c = m
  BY <1>1, NextMinute, NextReport
<1>3. Filed(r, k)
  BY DEF FiledInv
<1>4. CASE rpc[r] = "peak" /\ kind[r] = k
  <2>1. Publishing(r) /\ k \in Pending(r)
    BY <1>4 DEF Publishing, Pending
  <2>2. LastFiled(r, k) = m - 1
    BY <1>1, <2>1 DEF LastFiled
  <2>3. p \in FiledInMinute(r, k, m - 1 - 1)
    <3>1. inARow[r][k] >= 2
      OBVIOUS
    <3> QED
      BY <1>3, <1>4, <2>2, <3>1 DEF Filed
  <2>4. p.min = m - 1 - 1
    BY <2>3 DEF FiledInMinute
  <2> QED
    BY <1>1, <1>2, <2>1, <2>4
<1>5. CASE ~(rpc[r] = "peak" /\ kind[r] = k)
  <2>1. PICK n \in {m, m - 1} : n = LastFiled(r, k) /\ (n = m - 1 => Publishing(r))
    <3>1. k \in Pending(r) => Publishing(r)
      BY DEF Pending
    <3> QED
      BY <1>1, <3>1 DEF LastFiled
  <2>2. p \in FiledInMinute(r, k, n - 2)
    <3>1. inARow[r][k] >= 3
      OBVIOUS
    <3> QED
      BY <1>3, <1>5, <2>1, <3>1 DEF Filed
  <2>3. p.min = n - 2
    BY <2>2 DEF FiledInMinute
  <2>4. n = m - 1 => c = m
    BY <1>2, <2>1
  <2> QED
    BY <1>1, <1>2, <2>1, <2>3, <2>4
<1> QED
  BY <1>4, <1>5

\* Where in the row a step is.
LEMMA RowPlace ==
  ASSUME ReportTypes
  PROVE  /\ RowKind \in Kinds /\ (bwStep \div 2) % ROUTERS \in Routers
         /\ \A k \in Kinds : FirstStep(k) \in Nat
         /\ FirstStep(RowKind) <= bwStep /\ bwStep + 1 <= FirstStep(RowKind) + 2 * ROUTERS
         /\ bwStep % (2 * ROUTERS) = 0 <=> bwStep = FirstStep(RowKind)
         /\ \A k \in Kinds \ {RowKind} :
              bwStep + 1 > FirstStep(k) => bwStep >= FirstStep(k) + 2 * ROUTERS
         /\ \A k \in Kinds : FirstStep(k) + 2 * ROUTERS <= 6 * ROUTERS
<1>1. PICK n \in Nat, w \in Nat, s \in Nat :
        n = ROUTERS /\ w = 2 * n /\ w = 2 * ROUTERS /\ n >= 1 /\ w >= 1 /\ s = bwStep /\ s < 3 * w
  <2>1. ROUTERS \in Nat /\ ROUTERS >= 1 /\ 2 * ROUTERS \in Nat
    BY BandwidthAssumption
  <2>2. bwStep \in Nat /\ bwStep < 3 * (2 * ROUTERS)
    BY <2>1 DEF ReportTypes
  <2> QED
    BY <2>1, <2>2
<1>2. PICK i \in Nat, j \in Nat : /\ i = s \div w /\ j = s % w /\ s = w * i + j /\ j < w
  <2>1. s \div w \in Nat /\ s % w \in Nat /\ s % w < w /\ s = w * (s \div w) + (s % w)
    <3>1. w \in Nat \ {0}
      BY <1>1
    <3> QED
      BY <3>1, Division
  <2> QED
    BY <2>1
<1>3. i \in 0 .. 2
  <2>1. SUFFICES ASSUME i >= 3 PROVE FALSE
    OBVIOUS
  <2>2. PICK d \in Nat : i = 3 + d
    BY <2>1
  <2>3. w * i = 3 * w + w * d /\ w * d >= 0
    BY <2>2, SMT
  <2> QED
    BY <1>1, <1>2, <2>3, SMT
<1>4. /\ RowKind = RowOrder[i + 1]
      /\ FirstStep("bw") = 0 /\ FirstStep("peering") = w /\ FirstStep("cdn") = 2 * w
  BY <1>1, <1>2 DEF RowKind, FirstStep, Turns
<1>5. /\ i = 0 => RowKind = "bw" /\ s = j
      /\ i = 1 => RowKind = "peering" /\ s = w + j
      /\ i = 2 => RowKind = "cdn" /\ s = 2 * w + j
  BY <1>2, <1>4, SMT DEF RowOrder
<1>6. bwStep % (2 * ROUTERS) = j
  BY <1>1, <1>2
<1>7. (s \div 2) % n \in 0 .. n - 1
  <2>1. s \div 2 \in Nat
    OBVIOUS
  <2>2. \A x \in Nat : x % n \in 0 .. n - 1
    BY <1>1
  <2> QED
    BY <2>1, <2>2
<1>8. (bwStep \div 2) % ROUTERS \in Routers
  BY <1>1, <1>7 DEF Routers
<1>9. CASE i = 0
  BY <1>1, <1>2, <1>4, <1>5, <1>6, <1>8, <1>9 DEF Kinds
<1>10. CASE i = 1
  BY <1>1, <1>2, <1>4, <1>5, <1>6, <1>8, <1>10 DEF Kinds
<1>11. CASE i = 2
  BY <1>1, <1>2, <1>4, <1>5, <1>6, <1>8, <1>11 DEF Kinds
<1> QED
  BY <1>3, <1>9, <1>10, <1>11

LEMMA InitRow == Init => RowInv
<1> SUFFICES ASSUME Init PROVE RowInv
  OBVIOUS
<1>1. ClockInv
  BY InitClock
<1>2. epochSec \in Nat /\ BW_LAG \in Nat /\ ROUTERS \in Nat /\ ROUTERS >= 1
  BY <1>1, Counts, BandwidthAssumption DEF ClockInv
<1>3. row = [k \in Kinds |-> NoVolume] /\ \A k \in Kinds : row[k] = NoVolume
  BY DEF Init
<1>4. RowEmpty
  BY <1>3 DEF RowEmpty, NoVolume
<1>5. ReportTypes
  <2>1. bwStep = 0 /\ 0 \in 0 .. 6 * ROUTERS - 1
    BY <1>2 DEF Init
  <2>2. row = [k \in Kinds |-> [total |-> row[k].total, peak |-> row[k].peak]]
    BY <1>3 DEF NoVolume
  <2>3. bpc = "sleep" /\ bwReadSec = epochSec /\ bwAbsMin = 0
    BY DEF Init
  <2> QED
    BY <1>2, <1>4, <2>1, <2>2, <2>3 DEF RowEmpty, ReportTypes
<1>6. ProcessTimed
  <2>1. bpc = "sleep" /\ currentMin = bwPrevMin /\ bwStep = 0 /\ bwReadSec = epochSec
    BY DEF Init
  <2> QED
    BY <1>2, <1>4, <2>1 DEF ProcessTimed
<1>7. ASSUME NEW k \in Kinds PROVE SteadyKind(k)
  BY DEF Init, SteadyKind, NoVolume
<1>8. ASSUME NEW k \in Kinds PROVE RowKept(k)
  BY <1>4 DEF RowKept, FreshRow, RowEmpty
<1> QED
  BY <1>5, <1>6, <1>7, <1>8 DEF RowInv

\* processBw's next field, or its sleep after the last one.
LEMMA DidGoTo ==
  ASSUME NEW step, step \in 1 .. 6 * ROUTERS, GoTo(step)
  PROVE  /\ bwStep' \in 0 .. 6 * ROUTERS - 1
         /\ \/ step < 6 * ROUTERS /\ bwStep' = step /\ bpc' = bpc /\ bwPrevMin' = bwPrevMin
            \/ /\ step = 6 * ROUTERS /\ bwStep' = 0
               /\ bpc' = "sleep" /\ bwPrevMin' = currentMin
<1>1. PICK m \in Nat, n \in Nat : m = 6 * ROUTERS /\ n = step /\ n >= 1 /\ n <= m
  BY BandwidthAssumption
<1>2. CASE n < m
  <2>1. bwStep' = n /\ bpc' = bpc /\ bwPrevMin' = bwPrevMin
    BY <1>1, <1>2 DEF GoTo
  <2>2. n \in 0 .. m - 1
    BY <1>1, <1>2
  <2> QED
    BY <1>1, <1>2, <2>1, <2>2
<1>3. CASE n = m
  <2>1. bwStep' = 0 /\ bpc' = "sleep" /\ bwPrevMin' = currentMin
    BY <1>1, <1>3 DEF GoTo
  <2>2. 0 \in 0 .. m - 1
    BY <1>1
  <2> QED
    BY <1>1, <1>3, <2>1, <2>2
<1> QED
  BY <1>1, <1>2, <1>3

LEMMA DidReadField ==
  ASSUME Types, ReportTypes, ReadField, NEW c, c = RowKind
  PROVE  /\ row' = [k \in Kinds |-> [total |-> row'[k].total, peak |-> row'[k].peak]]
         /\ \A k \in Kinds \ {c} : row'[k] = row[k]
         /\ \E r \in Routers, base \in SUBSET Packet :
              /\ base = IF bwStep = FirstStep(c) THEN {} ELSE row[c].total
              /\ row'[c].total = base \/ row'[c].total = base \cup pub[r][c].total
         /\ bpc = "read" /\ GoTo(bwStep + 1)
         /\ bwStep = FirstStep(c) => c \in on
         /\ UNCHANGED clockVars /\ UNCHANGED routerVars
         /\ UNCHANGED <<currentMin, bwReadSec, bwAbsMin>>
<1>1. /\ bpc = "read" /\ GoTo(bwStep + 1)
      /\ bwStep % (2 * ROUTERS) = 0 => c \in on
      /\ row' = [row EXCEPT ![c] = Field]
      /\ UNCHANGED clockVars /\ UNCHANGED routerVars
      /\ UNCHANGED <<currentMin, bwReadSec, bwAbsMin>>
  BY DEF ReadField
<1>2. /\ c \in Kinds
      /\ bwStep % (2 * ROUTERS) = 0 <=> bwStep = FirstStep(c)
  BY RowPlace
<1>3. PICK r \in Routers : r = (bwStep \div 2) % ROUTERS
  BY RowPlace
<1>4. row = [k \in Kinds |-> [total |-> row[k].total, peak |-> row[k].peak]]
  BY DEF ReportTypes
<1>5. PICK base, sum :
        /\ base \subseteq Packet
        /\ base = IF bwStep = FirstStep(c) THEN {} ELSE row[c].total
        /\ Before = [total |-> base, peak |-> sum]
  <2>1. row[c] = [total |-> row[c].total, peak |-> row[c].peak] /\ row[c].total \subseteq Packet
    BY <1>2, <1>4 DEF ReportTypes
  <2>2. CASE bwStep = FirstStep(c)
    BY <1>2, <2>2 DEF Before, NoVolume
  <2>3. CASE bwStep # FirstStep(c)
    <3>1. Before = row[c]
      BY <1>2, <2>3 DEF Before
    <3> QED
      BY <2>1, <2>3, <3>1
  <2> QED
    BY <2>2, <2>3
<1>6. PICK total, peak : /\ Field = [total |-> total, peak |-> peak]
                         /\ total = base \/ total = base \cup pub[r][c].total
  <2>1. CASE bwStep % 2 = 0
    <3>1. PICK x : x = pub[r][c].peak
      OBVIOUS
    <3>2. Field = [total |-> base, peak |-> sum + x]
      BY <1>3, <1>5, <2>1, <3>1 DEF Field
    <3> QED
      BY <3>2
  <2>2. CASE bwStep % 2 # 0
    <3>1. Field = [total |-> base \cup pub[r][c].total, peak |-> sum]
      BY <1>3, <1>5, <2>2 DEF Field
    <3> QED
      BY <3>1
  <2> QED
    BY <2>1, <2>2
<1>7. /\ DOMAIN row = Kinds /\ row'[c] = [total |-> total, peak |-> peak]
      /\ \A k \in Kinds \ {c} : row'[k] = row[k]
  <2>1. DOMAIN row = Kinds
    BY <1>4
  <2> QED
    BY <1>1, <1>2, <1>6, <2>1
<1>8. \A k \in Kinds : row'[k] = [total |-> row'[k].total, peak |-> row'[k].peak]
  <2>1. \A k \in Kinds : row[k] = [total |-> row[k].total, peak |-> row[k].peak]
    BY <1>4
  <2> QED
    BY <1>7, <2>1
<1>9. row' = [k \in Kinds |-> row'[k]]
  BY <1>1, <1>2, <1>7
<1>10. row' = [k \in Kinds |-> [total |-> row'[k].total, peak |-> row'[k].peak]]
  BY <1>8, <1>9
<1>11. row'[c].total = base \/ row'[c].total = base \cup pub[r][c].total
  BY <1>6, <1>7
<1> QED
  BY <1>1, <1>2, <1>5, <1>7, <1>10, <1>11

\* A step that leaves processBw where it is.
LEMMA ReportUnmoved ==
  ASSUME ClockInv, ClockInv', ReportTypes, ProcessTimed, UNCHANGED processVars,
         minSec <= minSec', epochSec' = epochSec \/ (epochSec' = epochSec + 1 /\
                                                     epochSec + 1 - bwReadSec <= BW_LAG)
  PROVE  ReportTypes' /\ ProcessTimed'
<1>1. /\ bpc' = bpc /\ currentMin' = currentMin /\ bwPrevMin' = bwPrevMin /\ bwStep' = bwStep
      /\ row' = row /\ bwReadSec' = bwReadSec /\ bwAbsMin' = bwAbsMin
  BY DEF processVars
<1>2. ReportTypes'
  BY <1>1 DEF ReportTypes
<1>3. PICK e \in Nat, f \in Nat, s \in Nat, u \in Nat, t \in Nat, lag \in Nat, m \in Nat :
        /\ e = epochSec /\ f = epochSec' /\ s = minSec /\ u = minSec' /\ t = bwReadSec
        /\ lag = BW_LAG /\ m = bwAbsMin
  <2>1. epochSec \in Nat /\ minSec \in Nat /\ epochSec' \in Nat /\ minSec' \in Nat
    BY Counts, BandwidthAssumption DEF ClockInv, Types
  <2>2. bwReadSec \in Nat /\ BW_LAG \in Nat /\ bwAbsMin \in Nat
    BY BandwidthAssumption DEF ReportTypes
  <2> QED
    BY <2>1, <2>2
<1>4. t <= f /\ f <= t + lag
  <2>1. t <= e /\ e <= t + lag
    BY <1>3 DEF ProcessTimed
  <2>2. f = e \/ (f = e + 1 /\ e + 1 - t <= lag)
    BY <1>3
  <2> QED
    BY <2>1, <2>2
<1>5. m <= AbsMinute(s) => m <= AbsMinute(u)
  <2>1. s <= u
    BY <1>3
  <2>2. AbsMinute(s) <= AbsMinute(u)
    BY <2>1, MinuteGrows
  <2>3. AbsMinute(s) \in Nat /\ AbsMinute(u) \in Nat
    BY StartOfMinute
  <2> QED
    BY <2>2, <2>3
<1>6. RowEmpty' <=> RowEmpty
  BY <1>1 DEF RowEmpty
<1>7. ProcessTimed'
  BY <1>1, <1>3, <1>4, <1>5, <1>6 DEF ProcessTimed
<1> QED
  BY <1>2, <1>7

\* It wakes: its minute is the clock's, and not one was missed.
LEMMA StepWake ==
  ASSUME Timely, ClockInv, RowInv, Wake
  PROVE  /\ ReportTypes' /\ ProcessTimed'
         /\ bpc' = "sleep" => (\A k \in Kinds : row[k].total = {}) \/ bwAbsMin' = bwAbsMin
         /\ bpc = "sleep" /\ bwStep' = 0 /\ row' = row
<1>1. PICK e \in Nat, s \in Nat, n \in Nat :
        e = epochSec /\ s = minSec /\ n = AbsMinute(s) /\ s <= e /\ e <= s + 1
  <2>1. AbsMinute(minSec) \in Nat /\ epochSec \in Nat /\ minSec \in Nat
    BY Counts, StartOfMinute DEF ClockInv
  <2>2. minSec <= epochSec /\ epochSec <= minSec + 1
    BY DEF ClockInv, HandsApart
  <2> QED
    BY <2>1, <2>2
<1>2. /\ bpc = "sleep" /\ bwReadSec' = e /\ currentMin' = n % HOUR_MINS /\ bwAbsMin' = n
      /\ bpc' = IF n % HOUR_MINS # bwPrevMin THEN "read" ELSE "sleep"
      /\ bwPrevMin' = bwPrevMin /\ bwStep' = bwStep /\ row' = row
      /\ epochSec' = e /\ minSec' = s
  BY <1>1 DEF Wake, MinuteOf, clockVars
<1>3. ReportTypes /\ ProcessTimed
  BY DEF RowInv
<1>4. bwStep = 0 /\ currentMin = bwPrevMin
  BY <1>2, <1>3 DEF ProcessTimed
<1>5. ReportTypes'
  BY <1>2, <1>3 DEF ReportTypes
<1>6. e <= MinuteStart(n + 1)
  <2>1. s < MinuteStart(n + 1) /\ MinuteStart(n + 1) \in Int
    BY <1>1, StartOfMinute
  <2> QED
    BY <1>1, <2>1
<1>7. ProcessTimed'
  <2>1. e <= e /\ e <= e + BW_LAG /\ n <= n
    BY <1>1, BandwidthAssumption
  <2>2. bpc' = "sleep" => currentMin' = bwPrevMin' /\ bwStep' = 0
    BY <1>2, <1>4
  <2>3. bwReadSec' <= epochSec' /\ epochSec' <= bwReadSec' + BW_LAG
    BY <1>2, <2>1
  <2>4. bwAbsMin' <= AbsMinute(minSec') /\ bwReadSec' <= MinuteStart(bwAbsMin' + 1)
    BY <1>1, <1>2, <1>6, <2>1
  <2>5. currentMin' = bwAbsMin' % HOUR_MINS
    BY <1>2
  <2> QED
    BY <2>2, <2>3, <2>4, <2>5 DEF ProcessTimed
<1>8. ASSUME bpc' = "sleep", ~RowEmpty PROVE bwAbsMin' = bwAbsMin
  <2>1. PICK m \in Nat : m = bwAbsMin /\ n \in {m, m + 1}
    <3>1. bwAbsMin \in Nat
      BY <1>3 DEF ReportTypes
    <3> QED
      BY <1>1, <1>3, <1>8, <3>1, NextReport
  <2>2. currentMin = m % HOUR_MINS
    BY <1>3, <1>8, <2>1 DEF ProcessTimed
  <2>3. n % HOUR_MINS = m % HOUR_MINS
    BY <1>2, <1>4, <1>8, <2>2
  <2>4. n # m + 1
    BY <2>3, MinutesDiffer
  <2> QED
    BY <1>2, <2>1, <2>4
<1> QED
  BY <1>2, <1>4, <1>5, <1>7, <1>8 DEF RowEmpty

\* Reading a field, or leaving a kind out, leaves processBw's minute alone.
LEMMA StepOn ==
  ASSUME ProcessTimed, NEW step, step \in 1 .. 6 * ROUTERS, GoTo(step), bpc = "read",
         UNCHANGED clockVars, UNCHANGED <<currentMin, bwReadSec, bwAbsMin>>
  PROVE  ProcessTimed'
<1>1. bpc' = "sleep" => currentMin' = bwPrevMin' /\ bwStep' = 0
  BY DidGoTo
<1>2. epochSec' = epochSec /\ minSec' = minSec
  BY DEF clockVars
<1> QED
  BY <1>1, <1>2 DEF ProcessTimed

LEMMA NextStepInRange ==
  ASSUME ReportTypes
  PROVE  /\ bwStep + 1 \in 1 .. 6 * ROUTERS
         /\ bwStep = FirstStep(RowKind) => bwStep + 2 * ROUTERS \in 1 .. 6 * ROUTERS
<1>1. PICK n \in Nat, s \in Nat : n = ROUTERS /\ n >= 1 /\ s = bwStep /\ s <= 6 * n - 1
  BY BandwidthAssumption DEF ReportTypes
<1>2. FirstStep(RowKind) + 2 * n <= 6 * n
  BY <1>1, RowPlace
<1> QED
  BY <1>1, <1>2

LEMMA StepReport ==
  ASSUME Timely, ClockInv, ClockInv', RowInv, [Next]_vars
  PROVE  ReportTypes' /\ ProcessTimed'
<1>1. ReportTypes /\ ProcessTimed
  BY DEF RowInv
<1>2. epochSec \in Nat /\ minSec \in Nat /\ minSec <= epochSec
  BY Counts DEF ClockInv, HandsApart
<1>3. CASE TickSec
  <2>1. /\ UNCHANGED processVars /\ minSec' = minSec /\ epochSec' = epochSec + 1
        /\ epochSec + 1 - bwReadSec <= BW_LAG
    BY <1>3 DEF TickSec
  <2>2. minSec <= minSec'
    BY <1>2, <2>1
  <2> QED
    BY <1>1, <2>1, <2>2, ReportUnmoved
<1>4. CASE TickMin
  <2>1. UNCHANGED processVars /\ minSec' = epochSec /\ epochSec' = epochSec
    BY <1>4 DEF TickMin
  <2>2. minSec <= minSec'
    BY <1>2, <2>1
  <2> QED
    BY <1>1, <2>1, <2>2, ReportUnmoved
<1>5. CASE Switch \/ UNCHANGED vars \/ \E r \in Routers : RouterStep(r)
  <2>1. UNCHANGED processVars /\ minSec' = minSec /\ epochSec' = epochSec
    <3>1. ASSUME NEW r \in Routers, RouterStep(r) PROVE Alone(r)
      BY <3>1, DidReadSec, DidReadMin, DidPublishTotal, DidPublishPeak, DidSkipKind, DidDecode
         DEF RouterStep, ClockInv
    <3>2. CASE \E r \in Routers : RouterStep(r)
      BY <3>1, <3>2 DEF Alone, clockVars
    <3> QED
      BY <1>5, <3>2 DEF Switch, vars, clockVars
  <2>2. minSec <= minSec'
    BY <1>2, <2>1
  <2> QED
    BY <1>1, <2>1, <2>2, ReportUnmoved
<1>6. CASE Wake
  BY <1>6, StepWake
<1>7. CASE ReadField
  <2>1. PICK c : c = RowKind
    OBVIOUS
  <2>2. PICK r \in Routers, base \in SUBSET Packet :
          row'[c].total = base \/ row'[c].total = base \cup pub[r][c].total
    BY <1>1, <1>7, <2>1, DidReadField DEF ClockInv
  <2>3. /\ row' = [k \in Kinds |-> [total |-> row'[k].total, peak |-> row'[k].peak]]
        /\ \A k \in Kinds \ {c} : row'[k] = row[k]
        /\ bpc = "read" /\ GoTo(bwStep + 1)
        /\ UNCHANGED clockVars /\ UNCHANGED <<currentMin, bwReadSec, bwAbsMin>>
    BY <1>1, <1>7, <2>1, DidReadField DEF ClockInv
  <2>4. bwStep + 1 \in 1 .. 6 * ROUTERS
    BY <1>1, NextStepInRange
  <2>5. bwStep' \in 0 .. 6 * ROUTERS - 1 /\ bpc' \in {"sleep", "read"}
    BY <2>3, <2>4, DidGoTo
  <2>6. \A k \in Kinds : row'[k].total \subseteq Packet
    <3>1. c \in Kinds
      BY <1>1, <2>1, RowPlace
    <3>2. pub[r][c].total \subseteq Packet
      BY <3>1 DEF ClockInv, Types
    <3>3. row'[c].total \subseteq Packet
      BY <2>2, <3>2
    <3> QED
      BY <1>1, <2>3, <3>3 DEF ReportTypes
  <2>7. ReportTypes'
    BY <1>1, <2>3, <2>5, <2>6 DEF ReportTypes
  <2>8. ProcessTimed'
    BY <1>1, <2>3, <2>4, StepOn
  <2> QED
    BY <2>7, <2>8
<1>8. CASE LeaveOut
  <2>1. /\ bpc = "read" /\ GoTo(bwStep + 2 * ROUTERS) /\ bwStep % (2 * ROUTERS) = 0
        /\ UNCHANGED clockVars /\ UNCHANGED <<currentMin, bwReadSec, bwAbsMin>> /\ row' = row
    BY <1>8 DEF LeaveOut
  <2>2. bwStep + 2 * ROUTERS \in 1 .. 6 * ROUTERS
    BY <1>1, <2>1, NextStepInRange, RowPlace
  <2>3. bwStep' \in 0 .. 6 * ROUTERS - 1 /\ bpc' \in {"sleep", "read"}
    BY <2>1, <2>2, DidGoTo
  <2>4. ReportTypes'
    BY <1>1, <2>1, <2>3 DEF ReportTypes
  <2>5. ProcessTimed'
    BY <1>1, <2>1, <2>2, StepOn
  <2> QED
    BY <2>4, <2>5
<1> QED
  BY <1>3, <1>4, <1>5, <1>6, <1>7, <1>8 DEF Next, ProcessStep

LEMMA StepSteady ==
  ASSUME ClockInv, RowInv, [Next]_vars, NEW k \in Kinds \ SWITCHED
  PROVE  SteadyKind(k)'
<1>1. SteadyKind(k)
  BY DEF RowInv
<1>2. ASSUME UNCHANGED routerVars, UNCHANGED on PROVE SteadyKind(k)'
  BY <1>1, <1>2 DEF SteadyKind, routerVars
<1>3. CASE TickSec \/ TickMin
  BY <1>2, <1>3 DEF TickSec, TickMin
<1>4. CASE Switch
  <2>1. UNCHANGED routerVars /\ ((k \in on') <=> (k \in on))
    BY <1>4 DEF Switch
  <2> QED
    BY <1>1, <2>1 DEF SteadyKind, routerVars
<1>5. CASE ProcessStep \/ UNCHANGED vars
  BY <1>2, <1>5 DEF ProcessStep, Wake, ReadField, LeaveOut, clockVars, vars
<1>6. ASSUME NEW r \in Routers, RouterStep(r) PROVE SteadyKind(k)'
  <2>1. Alone(r) /\ on' = on
    <3>1. Alone(r)
      BY <1>6, DidReadSec, DidReadMin, DidPublishTotal, DidPublishPeak, DidSkipKind, DidDecode
         DEF RouterStep, ClockInv
    <3> QED
      BY <3>1 DEF Alone, clockVars
  <2>2. ASSUME \/ inARow'[r][k] = inARow[r][k]
               \/ inARow[r][k] = 3 /\ inARow'[r][k] = 3
               \/ k \notin PROCESSED,
               \/ k \in PROCESSED
               \/ /\ pub'[r][k].total = {}
                  /\ \A t \in 0 .. 1 : bucket'[r][k][t] = {}
        PROVE  SteadyKind(k)'
    <3>1. IF k \in PROCESSED THEN inARow'[r][k] = 3
          ELSE pub'[r][k].total = {} /\ \A t \in 0 .. 1 : bucket'[r][k][t] = {}
      BY <1>1, <2>2 DEF SteadyKind
    <3>2. \A q \in Routers \ {r} :
            inARow'[q] = inARow[q] /\ pub'[q] = pub[q] /\ bucket'[q] = bucket[q]
      BY <2>1 DEF Alone, SameRouter
    <3> QED
      BY <1>1, <2>1, <3>1, <3>2 DEF SteadyKind
  <2>3. k \notin PROCESSED => pub[r][k].total = {} /\ \A t \in 0 .. 1 : bucket[r][k][t] = {}
    BY <1>1 DEF SteadyKind
  <2>4. CASE ReadSec(r) \/ ReadMin(r)
    <3>1. inARow' = inARow /\ pub' = pub /\ bucket' = bucket
      BY <2>4, DidReadSec, DidReadMin DEF ClockInv
    <3> QED
      BY <2>2, <2>3, <3>1
  <2>5. PICK c \in Kinds : c = kind[r]
    BY DEF ClockInv, Types
  <2>6. CASE PublishTotal(r)
    <3>1. /\ c \in on /\ inARow' = inARow /\ bucket' = bucket
          /\ \A j \in Kinds \ {c} : pub'[r][j] = pub[r][j]
      BY <2>5, <2>6, DidPublishTotal DEF ClockInv
    <3>2. k = c => k \in PROCESSED
      BY <1>1, <3>1 DEF SteadyKind
    <3> QED
      BY <2>2, <2>3, <3>1, <3>2
  <2>7. CASE PublishPeak(r)
    <3>1. /\ pub'[r][c].total = pub[r][c].total
          /\ bucket'[r][c] = [bucket[r][c] EXCEPT ![1 - (prevMin[r] % 2)] = {}]
          /\ inARow'[r][c] = IF inARow[r][c] < 3 THEN inARow[r][c] + 1 ELSE 3
          /\ \A j \in Kinds \ {c} : /\ pub'[r][j] = pub[r][j] /\ bucket'[r][j] = bucket[r][j]
                                    /\ inARow'[r][j] = inARow[r][j]
      BY <2>5, <2>7, DidPublishPeak DEF ClockInv
    <3>2. CASE k # c
      BY <2>2, <2>3, <3>1, <3>2
    <3>3. CASE k = c
      <4>1. \A t \in 0 .. 1 : bucket'[r][k][t] = bucket[r][k][t] \/ bucket'[r][k][t] = {}
        <5>1. bucket[r][k] \in [0 .. 1 -> SUBSET Packet]
          BY DEF ClockInv, Types, Arrays
        <5> QED
          BY <3>1, <3>3, <5>1
      <4>2. inARow[r][k] = 3 => inARow'[r][k] = 3
        BY <3>1, <3>3
      <4>3. k \in PROCESSED => inARow[r][k] = 3
        BY <1>1 DEF SteadyKind
      <4> QED
        BY <2>2, <2>3, <3>1, <3>3, <4>1, <4>2, <4>3
    <3> QED
      BY <3>2, <3>3
  <2>8. CASE SkipKind(r)
    <3>1. /\ c \notin on /\ pub' = pub /\ bucket' = bucket
          /\ \A j \in Kinds \ {c} : inARow'[r][j] = inARow[r][j]
      BY <2>5, <2>8, DidSkipKind DEF ClockInv
    <3>2. k = c => k \notin PROCESSED
      BY <1>1, <3>1 DEF SteadyKind
    <3> QED
      BY <2>2, <2>3, <3>1, <3>2
  <2>9. CASE Decode(r)
    <3>1. PICK p \in Packet, of \in SUBSET (on \cup {"bw"}) :
            /\ bucket'[r][k] =
                 IF k \in of THEN [bucket[r][k] EXCEPT ![curMin[r] % 2] = @ \cup {p}]
                             ELSE bucket[r][k]
            /\ pub' = pub /\ inARow' = inARow
      BY <2>9, DidDecode DEF ClockInv
    <3>2. k \notin PROCESSED => k \notin of
      <4>1. k \notin PROCESSED => k \notin on /\ k # "bw"
        BY <1>1, BandwidthAssumption DEF SteadyKind
      <4> QED
        BY <3>1, <4>1
    <3> QED
      BY <2>2, <2>3, <3>1, <3>2
  <2> QED
    BY <1>6, <2>4, <2>6, <2>7, <2>8, <2>9 DEF RouterStep
<1> QED
  BY <1>3, <1>4, <1>5, <1>6 DEF Next

LEMMA StepRow ==
  ASSUME Timely, ClockInv, FiledInv, RowInv, [Next]_vars, NEW k \in Kinds \ SWITCHED
  PROVE  RowKept(k)'
<1>1. ReportTypes /\ ProcessTimed /\ SteadyKind(k) /\ RowKept(k)
  BY DEF RowInv
<1>2. PICK b \in Nat, s \in Nat, f \in Nat :
        b = bwAbsMin /\ s = bwStep /\ f = FirstStep(k) /\ FirstStep(k) + 2 * ROUTERS <= 6 * ROUTERS
  <2>1. bwAbsMin \in Nat /\ bwStep \in Nat
    BY <1>1, BandwidthAssumption DEF ReportTypes
  <2> QED
    BY <1>1, <2>1, RowPlace
<1>3. ASSUME UNCHANGED processVars PROVE RowKept(k)'
  BY <1>1, <1>3 DEF processVars, RowKept, FreshRow, FirstStep
<1>4. CASE TickSec \/ TickMin \/ Switch \/ UNCHANGED vars
  BY <1>3, <1>4 DEF TickSec, TickMin, Switch, vars
<1>5. ASSUME NEW r \in Routers, RouterStep(r) PROVE RowKept(k)'
  <2>1. Alone(r)
    BY <1>5, DidReadSec, DidReadMin, DidPublishTotal, DidPublishPeak, DidSkipKind, DidDecode
       DEF RouterStep, ClockInv
  <2> QED
    BY <1>3, <2>1 DEF Alone
<1>6. CASE Wake
  <2>1. /\ bpc = "sleep" /\ bwStep' = 0 /\ row' = row
        /\ bpc' = "sleep" => row[k].total = {} \/ bwAbsMin' = bwAbsMin
    BY <1>6, StepWake
  <2>2. k \notin PROCESSED => row'[k].total = {}
    BY <1>1, <2>1 DEF RowKept
  <2>3. FreshRow(k)
    BY <1>1, <2>1 DEF RowKept
  <2>4. ~(0 > f)
    OBVIOUS
  <2>5. f = FirstStep(k)'
    BY <1>2 DEF FirstStep
  <2>6. bpc' = "sleep" => FreshRow(k)'
    BY <2>1, <2>3 DEF FreshRow
  <2> QED
    BY <2>1, <2>2, <2>4, <2>5, <2>6 DEF RowKept
<1>7. CASE ReadField
  <2>1. PICK c \in Kinds : c = RowKind
    BY <1>1, RowPlace
  <2>2. PICK r \in Routers, base \in SUBSET Packet :
          /\ base = IF bwStep = FirstStep(c) THEN {} ELSE row[c].total
          /\ row'[c].total = base \/ row'[c].total = base \cup pub[r][c].total
    BY <1>1, <1>7, <2>1, DidReadField DEF ClockInv
  <2>3. /\ \A j \in Kinds \ {c} : row'[j] = row[j]
        /\ bpc = "read" /\ GoTo(bwStep + 1)
        /\ bwStep = FirstStep(c) => c \in on
        /\ bwAbsMin' = bwAbsMin
    BY <1>1, <1>7, <2>1, DidReadField DEF ClockInv
  <2>4. /\ bwStep + 1 \in 1 .. 6 * ROUTERS
        /\ FirstStep(c) <= bwStep
        /\ k # c => (bwStep + 1 > FirstStep(k) => bwStep >= FirstStep(k) + 2 * ROUTERS)
    BY <1>1, <2>1, NextStepInRange, RowPlace
  <2>5. \/ bpc' = bpc /\ bwStep' = s + 1
        \/ bpc' = "sleep" /\ s + 1 = 6 * ROUTERS
    BY <1>2, <2>3, <2>4, DidGoTo
  <2>6. f = FirstStep(k)'
    BY <1>2 DEF FirstStep
  <2>7. CASE k # c
    <3>1. row'[k] = row[k]
      BY <2>3, <2>7
    <3>2. (bpc' = "sleep" \/ bwStep' > f) => s > f
      <4>1. PICK n \in Nat : n = ROUTERS /\ n >= 1
        BY BandwidthAssumption
      <4>2. s + 1 > f => s >= f + 2 * n
        BY <1>2, <2>4, <2>7, <4>1
      <4>3. s + 1 = 6 * n => s + 1 > f
        BY <1>2, <4>1
      <4>4. s + 1 > f => s > f
        BY <4>1, <4>2
      <4> QED
        BY <2>3, <2>5, <4>1, <4>3, <4>4
    <3>3. s > f => FreshRow(k)
      BY <1>1, <1>2 DEF RowKept
    <3>4. FreshRow(k) => FreshRow(k)'
      BY <2>3, <3>1 DEF FreshRow
    <3>5. k \notin PROCESSED => row'[k].total = {}
      BY <1>1, <3>1 DEF RowKept
    <3> QED
      BY <2>6, <3>2, <3>3, <3>4, <3>5 DEF RowKept
  <2>8. CASE k = c
    <3>1. k \in PROCESSED => \A p \in pub[r][k].total :
                               bwAbsMin - 3 <= p.min /\ p.min <= bwAbsMin - 1
      <4>1. k \in PROCESSED => inARow[r][k] = 3
        BY <1>1 DEF SteadyKind
      <4> QED
        BY <1>1, <2>3, <4>1, PublishedFresh
    <3>2. k \notin PROCESSED => pub[r][k].total = {} /\ row[k].total = {}
      BY <1>1 DEF SteadyKind, RowKept
    <3>3. \A p \in base : bwAbsMin - 3 <= p.min /\ p.min <= bwAbsMin - 1
      <4>1. CASE s = f
        BY <1>2, <2>2, <2>8, <4>1
      <4>2. CASE s # f
        <5>1. s > f
          BY <1>2, <2>4, <2>8, <4>2
        <5>2. FreshRow(k)
          BY <1>1, <1>2, <5>1 DEF RowKept
        <5> QED
          BY <1>2, <2>2, <2>8, <4>2, <5>2 DEF FreshRow
      <4> QED
        BY <4>1, <4>2
    <3>4. k \notin PROCESSED => row'[k].total = {}
      BY <2>2, <2>8, <3>2
    <3>5. FreshRow(k)'
      BY <2>2, <2>3, <2>8, <3>1, <3>3, <3>4 DEF FreshRow
    <3> QED
      BY <3>4, <3>5 DEF RowKept
  <2> QED
    BY <2>7, <2>8
<1>8. CASE LeaveOut
  <2>1. /\ bpc = "read" /\ GoTo(bwStep + 2 * ROUTERS) /\ bwStep % (2 * ROUTERS) = 0
        /\ RowKind \notin on /\ row' = row /\ bwAbsMin' = bwAbsMin
    BY <1>8 DEF LeaveOut
  <2>2. PICK c \in Kinds, g \in Nat, n \in Nat :
          /\ c = RowKind /\ g = FirstStep(c) /\ s = g /\ n = ROUTERS /\ n >= 1
          /\ bwStep + 2 * ROUTERS \in 1 .. 6 * ROUTERS
    <3>1. ROUTERS \in Nat /\ ROUTERS >= 1
      BY BandwidthAssumption
    <3> QED
      BY <1>1, <1>2, <2>1, <3>1, RowPlace, NextStepInRange
  <2>3. \/ bpc' = bpc /\ bwStep' = s + 2 * n
        \/ bpc' = "sleep" /\ s + 2 * n = 6 * n
    BY <1>2, <2>1, <2>2, DidGoTo
  <2>4. k \notin PROCESSED => row'[k].total = {}
    BY <1>1, <2>1 DEF RowKept
  <2>5. f = FirstStep(k)'
    BY <1>2 DEF FirstStep
  <2>6. FreshRow(k) => FreshRow(k)'
    BY <2>1 DEF FreshRow
  <2>7. CASE k = c
    <3>1. row'[k].total = {}
      BY <1>1, <2>1, <2>2, <2>4, <2>7 DEF SteadyKind
    <3> QED
      BY <3>1 DEF RowKept, FreshRow
  <2>8. CASE k # c
    <3>1. (bpc' = "sleep" \/ bwStep' > f) => s > f
      <4>1. f \in {0, 2 * n, 4 * n} /\ g \in {0, 2 * n, 4 * n} /\ f # g
        <5>1. FirstStep("bw") = 0 /\ FirstStep("peering") = 2 * n /\ FirstStep("cdn") = 4 * n
          BY <2>2 DEF FirstStep, Turns
        <5> QED
          BY <1>2, <2>2, <2>8, <5>1 DEF Kinds
      <4>2. s + 2 * n > f => s > f
        BY <2>2, <4>1
      <4>3. s + 2 * n = 6 * n => s > f
        BY <2>2, <4>1
      <4> QED
        BY <2>1, <2>3, <4>2, <4>3
    <3>2. s > f => FreshRow(k)
      BY <1>1, <1>2 DEF RowKept
    <3> QED
      BY <2>4, <2>5, <2>6, <3>1, <3>2 DEF RowKept
  <2> QED
    BY <2>7, <2>8
<1> QED
  BY <1>4, <1>5, <1>6, <1>7, <1>8 DEF Next, ProcessStep

-----------------------------------------------------------------------------
(* Theorems.                                                                *)

ReportInv == Timely => ClockInv /\ FiledInv /\ RowInv

\* In time, the routers' minutes and arrays and processBw's row are as above in
\* every state.
THEOREM ReportInvariant == Spec => []ReportInv
<1>1. Init => ReportInv
  BY InitClock, InitFiled, InitRow DEF ReportInv
<1>2. ReportInv /\ [Next]_vars => ReportInv'
  <2>1. ASSUME Timely, ClockInv, FiledInv, RowInv, [Next]_vars
        PROVE  ClockInv' /\ FiledInv' /\ RowInv'
    <3>1. ClockInv'
      BY <2>1, StepClock
    <3>2. FiledInv'
      BY <2>1, StepFiled
    <3>3. RowInv'
      BY <2>1, <3>1, StepReport, StepSteady, StepRow DEF RowInv
    <3> QED
      BY <3>1, <3>2, <3>3
  <2> QED
    BY <2>1 DEF ReportInv, Timely
<1> QED
  BY <1>1, <1>2, PTL DEF Spec

\* The total a router has published is that of the packets it filed two minutes
\* before, of all of them and of no others.
THEOREM MinuteExactCorrect == Spec => []MinuteExact
<1>1. ReportInv => MinuteExact
  BY ExactOfInv DEF ReportInv, MinuteExact
<1> QED
  BY <1>1, ReportInvariant, PTL

\* The peak it has published is the volume of that minute's busiest second.
THEOREM PeakExactCorrect == Spec => []PeakExact
<1>1. ReportInv => PeakExact
  BY PeakOfInv DEF ReportInv, PeakExact
<1> QED
  BY <1>1, ReportInvariant, PTL

\* A row of processBw counts packets of the three minutes before it only.
THEOREM RowFreshCorrect == Spec => []RowFresh
<1>1. ReportInv => RowFresh
  BY DEF ReportInv, RowInv, RowKept, FreshRow, RowFresh
<1> QED
  BY <1>1, ReportInvariant, PTL
=============================================================================
