---------------------------- MODULE RangeTable ------------------------------
(***************************************************************************)
(* The table of the operator's own address ranges, by which a router tells *)
(* the direction of a packet.  Two threads rewrite it in place while the   *)
(* routers scan it: the admin port's on LOAD (AdminPortReader), and main   *)
(* every few minutes, when the ranges have a file of their own             *)
(* (readUserIpv4Config).  Nothing is locked: a row's network, its mask,    *)
(* and the number of rows are stored and loaded one by one.                *)
(*                                                                         *)
(* Both threads take their lists apart with strtok, which keeps its place  *)
(* for all threads in one variable: a load in whose time the other thread  *)
(* begins any list goes on wherever that place then is.                    *)
(*                                                                         *)
(* One router is modelled: routers only read the table.  An address is a   *)
(* number of ADDRESS_BITS bits; a mask is its number of leading ones, the  *)
(* "/NN" the file has and ipSubNetMap turns into a mask.                   *)
(***************************************************************************)
EXTENDS Integers, Sequences, SequencesExt, Direction

CONSTANTS
  ADDRESS_BITS,   \* 32 in the code
  MAX_IP_RANGE,   \* rows of IPV4_RANGE
  LINES,          \* the ranges a file may name
  MAX_LINES,      \* the most rows a file has
  LOADERS,        \* the threads that rewrite the table
  LISTERS,        \* those of them that read other lists too: the admin port's, on LOAD
  SOURCES, DESTINATIONS  \* addresses of packets

Addresses == 0 .. 2 ^ ADDRESS_BITS - 1
Lines == [network : Addresses, prefix : 0 .. ADDRESS_BITS]
RangeRows == 0 .. MAX_IP_RANGE - 1

\* An empty file is read as one without ranges.
Files == UNION {[1 .. n -> LINES] : n \in 0 .. MAX_LINES}

ASSUME RangeTableAssumption ==
  /\ ADDRESS_BITS \in Nat /\ 0 \in Addresses
  /\ MAX_IP_RANGE \in Nat /\ MAX_LINES \in 0 .. MAX_IP_RANGE
  /\ LINES \subseteq Lines /\ LISTERS \subseteq LOADERS
  /\ SOURCES \subseteq Addresses /\ DESTINATIONS \subseteq Addresses


VARIABLES
  range, noOfRange,    \* IPV4_RANGE, IPV4_NO_OF_RANGE
  \* per loader: the file it works on, the row it is at, and what it stores next
  file, cnt, stores,
  \* the router: the addresses, the row it is at, which address it compares, the half
  \* of the row loaded first, and what the scan returned
  sIp, dIp, counter, compares, half, direction,
  \* history, read by no guard: the table the scan began with and the files loaded
  \* since, if each continues another and no two loads overlapped; whether two loads,
  \* or a load and another list, have overlapped since the last that began alone
  met, overlapped

table   == <<range, noOfRange>>
loaders == <<file, cnt, stores>>
scan    == <<sIp, dIp, counter, compares, half, direction>>
vars    == <<table, loaders, scan, met, overlapped>>

None == [part |-> "none", value |-> 0]

\* The rows that are looked at, as a file would name them.
Table == [n \in 1 .. noOfRange |-> range[n - 1]]

\* Each of the tables begins another, or is begun by it.
Chain(tables) == \A s, t \in tables : IsPrefix(s, t) \/ IsPrefix(t, s)

\* What a scan has met, as far as it is told apart: nothing, if it is no chain.
Met(tables) == IF Chain(tables) THEN tables ELSE {}

UnsetRow == [network |-> 0, prefix |-> 0]

TypeOK ==
  /\ range \in [RangeRows -> Lines]
  /\ noOfRange \in 0 .. MAX_IP_RANGE
  /\ file \in [LOADERS -> Files]
  /\ cnt \in [LOADERS -> 0 .. MAX_IP_RANGE]
  /\ stores \in [LOADERS -> {"nothing", "network", "prefix", "elsewhere"}]
  /\ sIp \in Addresses /\ dIp \in Addresses
  /\ counter \in 0 .. MAX_IP_RANGE
  /\ compares \in {"nothing", "count", "source", "destination"}
  /\ half \in [part : {"none", "network", "prefix"}, value : Nat]
  /\ direction \in {0, UP, DOWN, UNKNOWN}
  /\ \A t \in met : t \in Seq(Lines)
  /\ overlapped \in BOOLEAN

\* The lower and upper ends that network & mask and its complement give.
IsIPInRange(ip, row) ==
  LET size == 2 ^ (ADDRESS_BITS - row.prefix)
      lower == row.network - (row.network % size)
  IN ip \in lower .. lower + size - 1

\* The table as the program starts with it: loaded once, before the threads.
Init ==
  /\ \E f \in Files :
       /\ range = [r \in RangeRows |-> IF r < Len(f) THEN f[r + 1] ELSE UnsetRow]
       /\ noOfRange = Len(f)
  /\ file = [l \in LOADERS |-> <<>>]
  /\ cnt = [l \in LOADERS |-> 0]
  /\ stores = [l \in LOADERS |-> "nothing"]
  /\ sIp = 0 /\ dIp = 0 /\ counter = 0 /\ compares = "nothing" /\ half = None
  /\ direction = 0
  /\ met = {} /\ overlapped = FALSE

(***************************************************************************)
(* A loader.                                                               *)
(***************************************************************************)
Loading == {l \in LOADERS : stores[l] /= "nothing"}
Storing == {l \in LOADERS : stores[l] \in {"network", "prefix"}}
Scanning == compares /= "nothing"

\* What the scan has met when a list is begun.
MetAlso(tables) ==
  IF ~Scanning \/ met = {} THEN met ELSE IF Loading = {} THEN Met(met \cup tables) ELSE {}

\* The number of rows stored first.
StartLoadCountFirst(l) ==
  /\ stores[l] = "nothing"
  /\ \E f \in Files :
       /\ file' = [file EXCEPT ![l] = f]
       /\ noOfRange' = Len(f)
       /\ met' = MetAlso({f})
  /\ stores' = [stores EXCEPT ![l] = "network"]
  /\ overlapped' = (Loading /= {})
  /\ UNCHANGED <<range, cnt, scan>>

StartLoad(l) ==
  /\ stores[l] = "nothing"
  /\ \E f \in Files :
       /\ file' = [file EXCEPT ![l] = f]
       /\ met' = MetAlso({f})
  /\ stores' = [stores EXCEPT ![l] = "network"]
  /\ overlapped' = (Loading /= {})
  /\ UNCHANGED <<table, cnt, scan>>

StoreNetwork(l) ==
  /\ stores[l] = "network" /\ cnt[l] < Len(file[l])
  /\ range' = [range EXCEPT ![cnt[l]].network = file[l][cnt[l] + 1].network]
  /\ stores' = [stores EXCEPT ![l] = "prefix"]
  /\ UNCHANGED <<noOfRange, file, cnt, scan, met, overlapped>>

\* What strtok has left for a loader: the rest of its file.  Once two lists have
\* overlapped it may be the rest of the other one or text overwritten since, which is
\* taken to be any rows (bound: not more than a file has).
Rests(l) ==
  IF ~overlapped THEN {file[l]}
  ELSE {f \in Files : /\ Len(f) > cnt[l]
                      /\ \A n \in 1 .. cnt[l] + 1 : f[n] = file[l][n]}

\* The mask of the row, and the next of the list.
StoreMask(l) ==
  /\ stores[l] = "prefix"
  /\ range' = [range EXCEPT ![cnt[l]].prefix = file[l][cnt[l] + 1].prefix]
  /\ stores' = [stores EXCEPT ![l] = "network"]
  /\ cnt' = [cnt EXCEPT ![l] = @ + 1]
  /\ \E f \in Rests(l) : file' = [file EXCEPT ![l] = f]
  /\ UNCHANGED <<noOfRange, scan, met, overlapped>>

\* A number of rows that never falls.
StoreCountUp(l) ==
  /\ stores[l] = "network" /\ cnt[l] = Len(file[l])
  /\ noOfRange' = IF cnt[l] < noOfRange THEN noOfRange ELSE cnt[l]
  /\ stores' = [stores EXCEPT ![l] = "nothing"]
  /\ file' = [file EXCEPT ![l] = <<>>] /\ cnt' = [cnt EXCEPT ![l] = 0]
  /\ UNCHANGED <<range, scan, met, overlapped>>

\* The number of rows comes last.
StoreCount(l) ==
  /\ stores[l] = "network" /\ cnt[l] = Len(file[l])
  /\ noOfRange' = cnt[l]
  /\ stores' = [stores EXCEPT ![l] = "nothing"]
  /\ file' = [file EXCEPT ![l] = <<>>] /\ cnt' = [cnt EXCEPT ![l] = 0]
  /\ UNCHANGED <<range, scan, met, overlapped>>

\* Another list of a LOAD: PROCESS_OUT_OF_RANGE_IP, the size blocks, IPV6_RANGE.
StartOther(l) ==
  /\ l \in LISTERS /\ stores[l] = "nothing"
  /\ stores' = [stores EXCEPT ![l] = "elsewhere"]
  /\ met' = MetAlso({}) /\ overlapped' = (Loading /= {})
  /\ UNCHANGED <<table, file, cnt, scan>>

EndOther(l) ==
  /\ stores[l] = "elsewhere"
  /\ stores' = [stores EXCEPT ![l] = "nothing"]
  /\ UNCHANGED <<table, file, cnt, scan, met, overlapped>>

Loader(l) ==
  StartLoad(l) \/ StoreNetwork(l) \/ StoreMask(l) \/ StoreCount(l) \/ StartOther(l) \/ EndOther(l)

(***************************************************************************)
(* A router: getDirectionOnIPV4.                                           *)
(***************************************************************************)
BeginScan ==
  /\ ~Scanning
  /\ sIp' \in SOURCES /\ dIp' \in DESTINATIONS
  /\ counter' = 0 /\ compares' = "count" /\ direction' = 0
  /\ met' = IF overlapped /\ Loading /= {} THEN {} ELSE Met({Table} \cup {file[l] : l \in Storing})
  /\ UNCHANGED <<half, table, loaders, overlapped>>

TestCount ==
  /\ compares = "count"
  /\ IF counter < noOfRange
       THEN compares' = "source" /\ UNCHANGED <<counter, direction>>
       ELSE compares' = "nothing" /\ direction' = UNKNOWN /\ counter' = 0
  /\ UNCHANGED <<sIp, dIp, half, table, loaders, met, overlapped>>

\* The two halves of the row are arguments of one call, loaded in either order.
LoadHalf ==
  /\ compares \in {"source", "destination"} /\ half = None
  /\ \E part \in {"network", "prefix"} :
       half' = [part |-> part, value |-> range[counter][part]]
  /\ UNCHANGED <<sIp, dIp, counter, compares, direction, table, loaders, met, overlapped>>

RowLoaded == [range[counter] EXCEPT ![half.part] = half.value]

CompareSource ==
  /\ compares = "source" /\ half /= None
  /\ half' = None
  /\ IF IsIPInRange(sIp, RowLoaded)
       THEN compares' = "nothing" /\ direction' = UP /\ counter' = 0
       ELSE compares' = "destination" /\ UNCHANGED <<counter, direction>>
  /\ UNCHANGED <<sIp, dIp, table, loaders, met, overlapped>>

CompareDestination ==
  /\ compares = "destination" /\ half /= None
  /\ half' = None
  /\ IF IsIPInRange(dIp, RowLoaded)
       THEN compares' = "nothing" /\ direction' = DOWN /\ counter' = 0
       ELSE compares' = "count" /\ counter' = counter + 1 /\ UNCHANGED direction
  /\ UNCHANGED <<sIp, dIp, table, loaders, met, overlapped>>

Router == BeginScan \/ TestCount \/ LoadHalf \/ CompareSource \/ CompareDestination

Next == Router \/ \E l \in LOADERS : Loader(l)

Spec == Init /\ [][Next]_vars

(***************************************************************************)
(* Properties.                                                             *)
(***************************************************************************)

\* What getDirectionOnIPV4 is to find in a table that stands still: the first row that
\* has one of the addresses decides, and an address of the operator's own as the source
\* wins.
DirectionBy(rows, s, d) ==
  LET matching == {n \in 1 .. Len(rows) : IsIPInRange(s, rows[n]) \/ IsIPInRange(d, rows[n])}
  IN IF matching = {} THEN UNKNOWN
     ELSE IF IsIPInRange(s, rows[CHOOSE n \in matching : \A m \in matching : n <= m])
            THEN UP ELSE DOWN

\* A scan while the table is reloaded finds what it would in one of the tables it met,
\* if the files only add ranges at the end, drop them there, or change nothing, and no
\* two lists are taken apart at once: the rows are stored before their number, and a
\* row that stays is overwritten with itself.
ScanSound ==
  ~Scanning /\ direction /= 0 /\ met /= {} =>
    direction \in {DirectionBy(t, sIp, dIp) : t \in met}

\* A load that no other one, nor another list, overlaps leaves its file's ranges and no
\* others, whatever was in the table: also after two that overlapped had left rows of
\* both, and had taken the rest of each other's lists.
Settles == [][\A l \in LOADERS : StoreCount(l) /\ ~overlapped => Table' = file[l]]_vars

=============================================================================
