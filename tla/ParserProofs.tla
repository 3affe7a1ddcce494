---------------------------- MODULE ParserProofs ----------------------------
(***************************************************************************)
(* What the parsers make of a packet.  For any table, files and loaders: a *)
(* load that no other list overlaps leaves its file's ranges and no others,*)
(* and a scan that runs into loads finds what one of the tables it met     *)
(* gives.  For any ids, addresses and ranges: a record that is pushed has  *)
(* its own packet's VLAN id, flag and name, and a packet is counted once.  *)
(***************************************************************************)
EXTENDS RangeTable, Classify, TLAPS

-----------------------------------------------------------------------------
(* Files, tables, and what a scan has met.                                  *)

\* A file is a sequence of lines that fits into the table.
LEMMA FilesAreShort ==
  ASSUME NEW f \in Files
  PROVE  /\ f \in Seq(Lines) /\ Len(f) \in 0 .. MAX_LINES /\ Len(f) \in 0 .. MAX_IP_RANGE
         /\ \A n \in 1 .. Len(f) : f[n] \in Lines
<1>1. PICK n \in 0 .. MAX_LINES : f \in [1 .. n -> LINES]
  BY DEF Files
<1>2. f \in Seq(LINES) /\ Len(f) = n
  BY <1>1, RangeTableAssumption
<1> QED
  BY <1>1, <1>2, RangeTableAssumption

\* The empty file is one.
LEMMA EmptyFile == <<>> \in Files
<1>1. <<>> \in [1 .. 0 -> LINES]
  OBVIOUS
<1> QED
  BY <1>1, RangeTableAssumption DEF Files

\* Addresses are natural numbers, and so are both halves of a row.
LEMMA RowOfNumbers ==
  ASSUME NEW row \in Lines
  PROVE  row.network \in Nat /\ row.prefix \in Nat
<1>1. row.network \in Addresses /\ row.prefix \in 0 .. ADDRESS_BITS
  BY DEF Lines
<1>2. Addresses \subseteq Nat
  BY DEF Addresses
<1>3. 0 .. ADDRESS_BITS \subseteq Nat
  BY RangeTableAssumption
<1> QED
  BY <1>1, <1>2, <1>3

\* The looked-at rows of a typed table are a sequence of lines.
LEMMA TableIsSequence ==
  ASSUME range \in [RangeRows -> Lines], noOfRange \in 0 .. MAX_IP_RANGE
  PROVE  Table \in Seq(Lines)
  BY RangeTableAssumption DEF Table, RangeRows

\* What was met is among what was to be met.
LEMMA MetIsPart == ASSUME NEW S, NEW t \in Met(S) PROVE t \in S
  BY DEF Met

LEMMA MetAlsoIsPart == ASSUME NEW S, NEW t \in MetAlso(S) PROVE t \in met \cup S
  BY MetIsPart DEF MetAlso

\* What is left of a list begins with what was taken of it.
LEMMA RestsContinue ==
  ASSUME TypeOK, NEW l \in LOADERS, cnt[l] < Len(file[l]), NEW f \in Rests(l)
  PROVE  /\ f \in Files /\ Len(f) > cnt[l]
         /\ \A n \in 1 .. cnt[l] + 1 : f[n] = file[l][n]
  BY DEF Rests, TypeOK

-----------------------------------------------------------------------------
(* The inductive invariant.                                                 *)

\* A scan that compares is at a row of the table.
CounterInRange == compares \in {"source", "destination"} => counter \in RangeRows

\* A loader is within its file, and before its last line's end when a mask is due.
WithinFile ==
  \A l \in LOADERS :
    /\ cnt[l] <= Len(file[l])
    /\ stores[l] \in {"nothing", "elsewhere"} => cnt[l] = 0
    /\ stores[l] = "prefix" => cnt[l] < Len(file[l])

\* While no two loads overlap there is one, and the rows up to its own are its file's.
Alone == \A k, l \in Loading : k = l

RowsStored ==
  \A l \in Loading :
    /\ \A n \in 0 .. cnt[l] - 1 : range[n] = file[l][n + 1]
    /\ stores[l] = "prefix" => range[cnt[l]].network = file[l][cnt[l] + 1].network

LoadInv == TypeOK /\ CounterInRange /\ WithinFile /\ (~overlapped => Alone /\ RowsStored)

\* The table the program starts with satisfies the invariant.
LEMMA InitLoad == Init => LoadInv
<1> SUFFICES ASSUME Init PROVE LoadInv
  OBVIOUS
<1>1. PICK f \in Files :
        /\ range = [r \in RangeRows |-> IF r < Len(f) THEN f[r + 1] ELSE UnsetRow]
        /\ noOfRange = Len(f)
  BY DEF Init
<1>2. UnsetRow \in Lines
  BY RangeTableAssumption DEF UnsetRow, Lines
<1>3. range \in [RangeRows -> Lines] /\ noOfRange \in 0 .. MAX_IP_RANGE
  BY <1>1, <1>2, FilesAreShort DEF RangeRows
<1>4. file \in [LOADERS -> Files] /\ half \in [part : {"none", "network", "prefix"}, value : Nat]
  BY EmptyFile DEF Init, None
<1>5. /\ cnt \in [LOADERS -> 0 .. MAX_IP_RANGE] /\ counter \in 0 .. MAX_IP_RANGE
      /\ stores \in [LOADERS -> {"nothing", "network", "prefix"}]
      /\ sIp \in Addresses /\ dIp \in Addresses
  BY RangeTableAssumption DEF Init
<1>6. TypeOK
  BY <1>3, <1>4, <1>5 DEF Init, TypeOK
<1> QED
  BY <1>6 DEF Init, LoadInv, CounterInRange, WithinFile, Alone, RowsStored, Loading

\* Each step keeps the types, and a loader within its file.
LEMMA TypeStep ==
  ASSUME LoadInv, [Next]_vars
  PROVE  TypeOK' /\ CounterInRange' /\ WithinFile'
<1> USE DEF LoadInv
<1>1. CASE UNCHANGED vars
  BY <1>1 DEF vars, table, loaders, scan, TypeOK, CounterInRange, WithinFile
<1>2. ASSUME NEW l \in LOADERS, StartLoad(l) PROVE TypeOK' /\ CounterInRange' /\ WithinFile'
  <2>1. PICK f \in Files :
          /\ file' = [file EXCEPT ![l] = f]
          /\ met' = MetAlso({f})
    BY <1>2 DEF StartLoad
  <2>2. \A t \in met' : t \in Seq(Lines)
    BY <2>1, FilesAreShort, MetAlsoIsPart DEF TypeOK
  <2>3. overlapped' \in BOOLEAN
    BY <1>2 DEF StartLoad
  <2>4. /\ file' \in [LOADERS -> Files] /\ cnt' = cnt
        /\ stores' \in [LOADERS -> {"nothing", "network", "prefix", "elsewhere"}]
    BY <1>2, <2>1 DEF StartLoad, TypeOK
  <2>5. TypeOK' /\ CounterInRange'
    BY <1>2, <2>2, <2>3, <2>4 DEF StartLoad, table, scan, TypeOK, CounterInRange
  <2>6. WithinFile'
    <3>1. cnt[l] = 0 /\ Len(f) \in Nat
      BY <1>2, FilesAreShort DEF StartLoad, WithinFile
    <3> QED
      BY <1>2, <2>1, <3>1 DEF StartLoad, TypeOK, WithinFile
  <2> QED
    BY <2>5, <2>6
<1>3. ASSUME NEW l \in LOADERS, StoreNetwork(l) PROVE TypeOK' /\ CounterInRange' /\ WithinFile'
  <2>1. cnt[l] \in RangeRows /\ file[l][cnt[l] + 1] \in Lines
    BY <1>3, FilesAreShort, RangeTableAssumption DEF StoreNetwork, TypeOK, RangeRows
  <2>2. range' \in [RangeRows -> Lines]
    BY <1>3, <2>1 DEF StoreNetwork, TypeOK, Lines
  <2> QED
    BY <1>3, <2>2 DEF StoreNetwork, scan, TypeOK, CounterInRange, WithinFile
<1>4. ASSUME NEW l \in LOADERS, StoreMask(l) PROVE TypeOK' /\ CounterInRange' /\ WithinFile'
  <2>1. cnt[l] \in RangeRows /\ file[l][cnt[l] + 1] \in Lines /\ cnt[l] + 1 \in 0 .. MAX_IP_RANGE
    BY <1>4, FilesAreShort, RangeTableAssumption DEF StoreMask, TypeOK, RangeRows, WithinFile
  <2>2. range' \in [RangeRows -> Lines]
    BY <1>4, <2>1 DEF StoreMask, TypeOK, Lines
  <2>3. PICK f \in Rests(l) : file' = [file EXCEPT ![l] = f]
    BY <1>4 DEF StoreMask
  <2>4. f \in Files /\ Len(f) > cnt[l] /\ Len(f) \in Nat
    <3>1. cnt[l] < Len(file[l])
      BY <1>4 DEF StoreMask, WithinFile
    <3> QED
      BY <3>1, FilesAreShort, RestsContinue
  <2>5. file' \in [LOADERS -> Files]
    BY <2>3, <2>4 DEF TypeOK
  <2>6. TypeOK' /\ CounterInRange'
    BY <1>4, <2>1, <2>2, <2>5 DEF StoreMask, scan, TypeOK, CounterInRange
  <2>7. WithinFile'
    BY <1>4, <2>1, <2>3, <2>4 DEF StoreMask, TypeOK, WithinFile
  <2> QED
    BY <2>6, <2>7
<1>5. ASSUME NEW l \in LOADERS, StoreCount(l) PROVE TypeOK' /\ CounterInRange' /\ WithinFile'
  BY <1>5, EmptyFile, RangeTableAssumption DEF StoreCount, scan, TypeOK, CounterInRange, WithinFile
<1>6. CASE BeginScan
  <2>1. \A t \in met' : t \in Seq(Lines)
    <3>1. \A t \in {Table} \cup {file[l] : l \in Storing} : t \in Seq(Lines)
      BY TableIsSequence, FilesAreShort DEF TypeOK, Storing
    <3> QED
      BY <1>6, <3>1, MetIsPart DEF BeginScan
  <2> QED
    BY <1>6, <2>1, RangeTableAssumption
       DEF BeginScan, table, loaders, TypeOK, CounterInRange, WithinFile
<1>7. CASE TestCount
  <2>. counter' \in 0 .. MAX_IP_RANGE
    BY <1>7, RangeTableAssumption DEF TestCount, TypeOK
  <2>1. /\ compares' \in {"nothing", "source"} /\ direction' \in {0, UP, DOWN, UNKNOWN}
        /\ compares' = "source" => counter < noOfRange
    BY <1>7 DEF TestCount, TypeOK
  <2>2. compares' \in {"source", "destination"} => counter \in RangeRows
    BY <2>1, RangeTableAssumption DEF TypeOK, RangeRows
  <2> QED
    BY <1>7, <2>1, <2>2 DEF TestCount, table, loaders, TypeOK, CounterInRange, WithinFile
<1>8. CASE LoadHalf
  <2>1. PICK part \in {"network", "prefix"} :
          half' = [part |-> part, value |-> range[counter][part]]
    BY <1>8 DEF LoadHalf
  <2>2. range[counter] \in Lines
    BY <1>8 DEF LoadHalf, TypeOK, CounterInRange
  <2>3. range[counter][part] \in Nat
    BY <2>1, <2>2, RowOfNumbers
  <2> QED
    BY <1>8, <2>1, <2>3 DEF LoadHalf, table, loaders, TypeOK, CounterInRange, WithinFile
<1>9. CASE CompareSource
  BY <1>9, RangeTableAssumption
     DEF CompareSource, None, table, loaders, TypeOK, CounterInRange, WithinFile, UP, DOWN, UNKNOWN
<1>10. CASE CompareDestination
  BY <1>10, RangeTableAssumption
     DEF CompareDestination, None, table, loaders, TypeOK, CounterInRange, WithinFile, RangeRows,
         UP, DOWN, UNKNOWN
<1>11. ASSUME NEW l \in LOADERS, StartOther(l) PROVE TypeOK' /\ CounterInRange' /\ WithinFile'
  <2>1. (\A t \in met' : t \in Seq(Lines)) /\ overlapped' \in BOOLEAN
    BY <1>11, MetAlsoIsPart DEF StartOther, TypeOK
  <2> QED
    BY <1>11, <2>1 DEF StartOther, table, scan, TypeOK, CounterInRange, WithinFile
<1>12. ASSUME NEW l \in LOADERS, EndOther(l) PROVE TypeOK' /\ CounterInRange' /\ WithinFile'
  BY <1>12 DEF EndOther, table, scan, TypeOK, CounterInRange, WithinFile
<1> QED
  BY <1>1, <1>2, <1>3, <1>4, <1>5, <1>6, <1>7, <1>8, <1>9, <1>10, <1>11, <1>12
     DEF Next, Loader, Router

\* Each step keeps a lone load's rows its file's: a load that begins while another is
\* under way is told in overlapped, and a router writes nothing.
LEMMA RowsStep ==
  ASSUME LoadInv, [Next]_vars, ~overlapped'
  PROVE  Alone' /\ RowsStored'
<1> USE DEF LoadInv
<1>1. CASE UNCHANGED vars
  BY <1>1 DEF vars, table, loaders, Alone, RowsStored, Loading
<1>2. ASSUME NEW l \in LOADERS, StartLoad(l) PROVE Alone' /\ RowsStored'
  <2>1. Loading = {}
    BY <1>2 DEF StartLoad
  <2>2. stores' = [stores EXCEPT ![l] = "network"] /\ cnt' = cnt /\ stores[l] = "nothing"
    BY <1>2 DEF StartLoad
  <2>3. Loading' = {l}
    BY <2>1, <2>2 DEF Loading, TypeOK
  <2>4. cnt'[l] = 0 /\ stores'[l] = "network"
    BY <2>2 DEF TypeOK, WithinFile
  <2> QED
    BY <2>3, <2>4 DEF Alone, RowsStored
<1>3. ASSUME NEW l \in LOADERS, StoreNetwork(l) PROVE Alone' /\ RowsStored'
  <2>1. ~overlapped /\ Loading = {l} /\ Loading' = {l}
    BY <1>3 DEF StoreNetwork, Loading, Alone, TypeOK
  <2>2. cnt[l] \in RangeRows /\ cnt[l] \in Nat
    BY <1>3, FilesAreShort, RangeTableAssumption DEF StoreNetwork, TypeOK, RangeRows
  <2>3. /\ \A n \in 0 .. cnt[l] - 1 : range'[n] = range[n]
        /\ range'[cnt[l]].network = file[l][cnt[l] + 1].network
    <3>1. range[cnt[l]] \in Lines
      BY <2>2 DEF TypeOK
    <3> QED
      BY <1>3, <2>2, <3>1 DEF StoreNetwork, TypeOK, Lines, RangeRows
  <2> QED
    BY <1>3, <2>1, <2>2, <2>3 DEF StoreNetwork, Alone, RowsStored
<1>4. ASSUME NEW l \in LOADERS, StoreMask(l) PROVE Alone' /\ RowsStored'
  <2>1. ~overlapped /\ Loading = {l} /\ Loading' = {l}
    BY <1>4 DEF StoreMask, Loading, Alone, TypeOK
  <2>2. /\ cnt[l] \in RangeRows /\ cnt[l] \in Nat /\ file[l][cnt[l] + 1] \in Lines
        /\ cnt'[l] = cnt[l] + 1 /\ stores'[l] = "network"
    BY <1>4, FilesAreShort, RangeTableAssumption DEF StoreMask, TypeOK, RangeRows, WithinFile
  <2>3. /\ \A n \in 0 .. cnt[l] - 1 : range'[n] = range[n]
        /\ range'[cnt[l]] = file[l][cnt[l] + 1]
    <3>1. range[cnt[l]] \in Lines /\ range[cnt[l]].network = file[l][cnt[l] + 1].network
      BY <1>4, <2>1, <2>2 DEF TypeOK, StoreMask, RowsStored
    <3>2. range'[cnt[l]] = [range[cnt[l]] EXCEPT !.prefix = file[l][cnt[l] + 1].prefix]
      BY <1>4, <2>2 DEF StoreMask, TypeOK
    <3>3. range'[cnt[l]] = file[l][cnt[l] + 1]
      BY <2>2, <3>1, <3>2 DEF Lines
    <3> QED
      BY <1>4, <2>2, <3>3 DEF StoreMask, TypeOK, RangeRows
  <2>4. file' = file
    BY <1>4, <2>1 DEF StoreMask, Rests, TypeOK
  <2> QED
    BY <1>4, <2>1, <2>2, <2>3, <2>4 DEF StoreMask, Alone, RowsStored
<1>5. ASSUME NEW l \in LOADERS, StoreCount(l) PROVE Alone' /\ RowsStored'
  <2>1. ~overlapped /\ Loading = {l} /\ Loading' = {}
    BY <1>5 DEF StoreCount, Loading, Alone, TypeOK
  <2> QED
    BY <2>1 DEF Alone, RowsStored
<1>6. ASSUME NEW l \in LOADERS, StartOther(l) PROVE Alone' /\ RowsStored'
  <2>1. Loading = {}
    BY <1>6 DEF StartOther
  <2>2. stores' = [stores EXCEPT ![l] = "elsewhere"] /\ cnt' = cnt /\ stores[l] = "nothing"
    BY <1>6 DEF StartOther
  <2>3. Loading' = {l}
    BY <2>1, <2>2 DEF Loading, TypeOK
  <2>4. cnt'[l] = 0 /\ stores'[l] = "elsewhere"
    BY <2>2 DEF TypeOK, WithinFile
  <2> QED
    BY <2>3, <2>4 DEF Alone, RowsStored
<1>7. ASSUME NEW l \in LOADERS, EndOther(l) PROVE Alone' /\ RowsStored'
  <2>1. ~overlapped /\ Loading = {l} /\ Loading' = {}
    BY <1>7 DEF EndOther, Loading, Alone, TypeOK
  <2> QED
    BY <2>1 DEF Alone, RowsStored
<1>8. CASE Router
  BY <1>8 DEF Router, BeginScan, TestCount, LoadHalf, CompareSource, CompareDestination, table,
              loaders, Alone, RowsStored, Loading
<1> QED
  BY <1>1, <1>2, <1>3, <1>4, <1>5, <1>6, <1>7, <1>8 DEF Next, Loader

\* The load invariant holds in every reachable state.
THEOREM LoadInvariant == Spec => []LoadInv
<1>1. LoadInv /\ [Next]_vars => LoadInv'
  BY TypeStep, RowsStep DEF LoadInv
<1> QED
  BY InitLoad, <1>1, PTL DEF Spec

\* The variables keep their types: no loader and no scan leaves the table, whatever
\* they do to each other.
THEOREM TypeCorrect == Spec => []TypeOK
  BY LoadInvariant, PTL DEF LoadInv

-----------------------------------------------------------------------------
(* What a load leaves.                                                      *)

\* A load that was alone leaves its file as the table.
LEMMA LoadLeavesFile ==
  ASSUME LoadInv, NEW l \in LOADERS, StoreCount(l), ~overlapped
  PROVE  Table' = file[l]
<1>1. /\ file[l] \in Seq(Lines) /\ cnt[l] = Len(file[l])
      /\ noOfRange' = Len(file[l]) /\ range' = range
  BY FilesAreShort DEF LoadInv, TypeOK, StoreCount
<1>2. \A n \in 1 .. Len(file[l]) : range[n - 1] = file[l][n]
  <2>1. l \in Loading
    BY DEF StoreCount, Loading
  <2>2. \A n \in 0 .. cnt[l] - 1 : range[n] = file[l][n + 1]
    BY <2>1 DEF LoadInv, RowsStored
  <2> QED
    BY <1>1, <2>2
<1>3. Table' = [n \in 1 .. Len(file[l]) |-> range[n - 1]]
  BY <1>1 DEF Table
<1>4. file[l] = [n \in 1 .. Len(file[l]) |-> file[l][n]]
  BY <1>1
<1> QED
  BY <1>2, <1>3, <1>4

\* Settles for any table, files and loaders: readUserIpv4Config and LOAD leave what they
\* read, if the other does not come in between.
THEOREM SettlesCorrect == Spec => Settles
<1>1. LoadInv /\ [Next]_vars =>
        [\A l \in LOADERS : StoreCount(l) /\ ~overlapped => Table' = file[l]]_vars
  BY LoadLeavesFile
<1> QED
  BY LoadInvariant, <1>1, PTL DEF Spec, Settles

-----------------------------------------------------------------------------
(* The scan.  Its inductive invariant.                                      *)

\* Of a scan that goes on and whose tables are told apart there is more to say.
Telling == Scanning /\ met # {}

\* Neither address is in a row.
Misses(row, s, d) == ~IsIPInRange(s, row) /\ ~IsIPInRange(d, row)

\* No two of the tables differ in a row that both have.
Agree(tables) ==
  \A s, t \in tables : \A n \in 1 .. Len(s) : n <= Len(t) => s[n] = t[n]

\* The table is one of them as it stands, and so is the file of a load, which is alone.
TableMet ==
  /\ Table \in met
  /\ \A l \in Storing : file[l] \in met
  /\ overlapped => Loading = {}

\* The rows that the scan has left behind had neither address.
RowsPassed == \A n \in 1 .. counter : \E t \in met : n <= Len(t) /\ Misses(t[n], sIp, dIp)

\* The row it is at is one of a table it met, though the table may have become shorter.
RowMet == \E t \in met : counter < Len(t) /\ range[counter] = t[counter + 1]

\* A half that is loaded is of that row, and the source was not in it.
AtRow ==
  /\ RowMet
  /\ half # None => half.value = range[counter][half.part]
  /\ compares = "destination" => ~IsIPInRange(sIp, range[counter])

HalfOfRow ==
  half # None => half.part \in {"network", "prefix"} /\ compares \in {"source", "destination"}

ScanInv ==
  /\ Agree(met) /\ HalfOfRow
  /\ Telling => TableMet /\ RowsPassed
  /\ Telling /\ compares \in {"source", "destination"} => AtRow
  /\ ScanSound

-----------------------------------------------------------------------------
(* What a scan finds in a table, and which tables it has met.               *)

\* A table none of whose rows has one of the addresses has no direction for them.
LEMMA NothingFound ==
  ASSUME NEW t, NEW s, NEW d, \A n \in 1 .. Len(t) : Misses(t[n], s, d)
  PROVE  DirectionBy(t, s, d) = UNKNOWN
<1>1. {n \in 1 .. Len(t) : IsIPInRange(s, t[n]) \/ IsIPInRange(d, t[n])} = {}
  BY DEF Misses
<1> QED
  BY <1>1 DEF DirectionBy

\* The first row that has one decides.
LEMMA FirstDecides ==
  ASSUME NEW t \in Seq(Lines), NEW s, NEW d, NEW c \in Nat, c < Len(t),
         \A n \in 1 .. c : Misses(t[n], s, d), ~Misses(t[c + 1], s, d)
  PROVE  DirectionBy(t, s, d) = IF IsIPInRange(s, t[c + 1]) THEN UP ELSE DOWN
<1> DEFINE matching == {n \in 1 .. Len(t) : IsIPInRange(s, t[n]) \/ IsIPInRange(d, t[n])}
<1>1. c + 1 \in matching /\ \A n \in matching : c + 1 <= n
  BY DEF Misses
<1>2. \A n \in matching : n \in Nat
  OBVIOUS
<1>3. DirectionBy(t, s, d) =
        IF matching = {} THEN UNKNOWN
        ELSE IF IsIPInRange(s, t[CHOOSE n \in matching : \A m \in matching : n <= m])
               THEN UP ELSE DOWN
  BY DEF DirectionBy
<1> HIDE DEF matching
<1>4. \A n \in matching : (\A m \in matching : n <= m) => n = c + 1
  BY <1>1, <1>2
<1>5. (CHOOSE n \in matching : \A m \in matching : n <= m) = c + 1
  BY <1>1, <1>4
<1> QED
  BY <1>1, <1>3, <1>5

\* Tables that begin each other agree.
LEMMA ChainAgrees ==
  ASSUME NEW S, \A t \in S : t \in Seq(Lines), Chain(S)
  PROVE  Agree(S)
<1> SUFFICES ASSUME NEW s \in S, NEW t \in S, NEW n \in 1 .. Len(s), n <= Len(t)
             PROVE  s[n] = t[n]
  BY DEF Agree
<1>1. s \in Seq(Lines) /\ t \in Seq(Lines)
  OBVIOUS
<1>2. CASE IsPrefix(s, t)
  <2>1. SubSeq(s, 1, Len(s)) = SubSeq(t, 1, Len(s)) /\ Len(s) <= Len(t)
    BY <1>2 DEF IsPrefix
  <2>2. SubSeq(s, 1, Len(s))[n] = s[n] /\ SubSeq(t, 1, Len(s))[n] = t[n]
    BY <1>1, <2>1
  <2> QED
    BY <2>1, <2>2
<1>3. CASE IsPrefix(t, s)
  <2>1. SubSeq(t, 1, Len(t)) = SubSeq(s, 1, Len(t)) /\ Len(t) <= Len(s)
    BY <1>3 DEF IsPrefix
  <2>2. SubSeq(t, 1, Len(t))[n] = t[n] /\ SubSeq(s, 1, Len(t))[n] = s[n]
    BY <1>1, <2>1
  <2> QED
    BY <2>1, <2>2
<1> QED
  BY <1>2, <1>3 DEF Chain

\* So do the tables that a scan has met.
LEMMA MetAgrees ==
  ASSUME NEW S, \A t \in S : t \in Seq(Lines)
  PROVE  Agree(Met(S))
<1>1. CASE Chain(S)
  BY <1>1, ChainAgrees DEF Met
<1>2. CASE ~Chain(S)
  BY <1>2 DEF Met, Agree
<1> QED
  BY <1>1, <1>2

LEMMA MetAlsoAgrees ==
  ASSUME TypeOK, Agree(met), NEW S, \A t \in S : t \in Seq(Lines)
  PROVE  Agree(MetAlso(S))
<1>1. Agree(Met(met \cup S))
  BY MetAgrees DEF TypeOK
<1>2. Agree({})
  BY DEF Agree
<1> QED
  BY <1>1, <1>2 DEF MetAlso

\* What a list that is begun adds to them, if they are still told apart then.
LEMMA MetAlsoGrows ==
  ASSUME NEW S, Scanning, met # {}, MetAlso(S) # {}
  PROVE  MetAlso(S) = met \cup S /\ Loading = {}
  BY DEF MetAlso, Met

-----------------------------------------------------------------------------
(* The loaders' steps.                                                      *)

\* What holds while a scan is told apart holds of the rows below its own in any of its
\* tables, and of its own row.
LEMMA PassedInAny ==
  ASSUME TypeOK, Agree(met), RowsPassed, NEW t \in met, NEW n \in 1 .. counter, n <= Len(t)
  PROVE  Misses(t[n], sIp, dIp)
<1>1. PICK u \in met : n <= Len(u) /\ Misses(u[n], sIp, dIp)
  BY DEF RowsPassed
<1>2. t \in Seq(Lines) /\ u \in Seq(Lines) /\ n \in Nat /\ n > 0
  BY DEF TypeOK
<1>3. n \in 1 .. Len(u)
  BY <1>1, <1>2
<1>4. u[n] = t[n]
  BY <1>3 DEF Agree
<1> QED
  BY <1>1, <1>4

LEMMA RowMetInAny ==
  ASSUME TypeOK, Agree(met), RowMet, NEW t \in met, counter < Len(t)
  PROVE  range[counter] = t[counter + 1]
<1>1. PICK u \in met : counter < Len(u) /\ range[counter] = u[counter + 1]
  BY DEF RowMet
<1>2. t \in Seq(Lines) /\ u \in Seq(Lines) /\ counter \in Nat
  BY RangeTableAssumption DEF TypeOK
<1>3. counter + 1 \in 1 .. Len(u) /\ counter + 1 <= Len(t)
  BY <1>1, <1>2
<1>4. u[counter + 1] = t[counter + 1]
  BY <1>3 DEF Agree
<1> QED
  BY <1>1, <1>4

\* A load overwrites a row that a table of the scan has with that row.
LEMMA RowStays ==
  ASSUME LoadInv, Agree(met), TableMet, NEW l \in LOADERS, StoreNetwork(l) \/ StoreMask(l),
         NEW n \in RangeRows, NEW t \in met, n < Len(t), range[n] = t[n + 1]
  PROVE  range'[n] = range[n]
<1>1. /\ range \in [RangeRows -> Lines] /\ l \in Storing /\ l \in Loading /\ n \in Nat
      /\ cnt[l] \in Nat /\ cnt[l] < Len(file[l]) /\ file[l] \in Seq(Lines)
  <2>1. Len(file[l]) \in Nat /\ file[l] \in Seq(Lines)
    BY FilesAreShort DEF LoadInv, TypeOK
  <2> QED
    BY <2>1, RangeTableAssumption
       DEF LoadInv, TypeOK, StoreNetwork, StoreMask, Storing, Loading, WithinFile, RangeRows
<1>2. CASE cnt[l] # n
  BY <1>1, <1>2 DEF StoreNetwork, StoreMask
<1>3. CASE cnt[l] = n
  <2>1. range[n] = file[l][n + 1]
    <3>1. file[l] \in met /\ t \in Seq(Lines)
      BY <1>1 DEF TableMet, LoadInv, TypeOK
    <3>2. n + 1 \in 1 .. Len(t) /\ n + 1 <= Len(file[l])
      BY <1>1, <1>3, <3>1
    <3> QED
      BY <3>1, <3>2 DEF Agree
  <2>2. \/ range'[n] = [range[n] EXCEPT !.network = file[l][n + 1].network]
        \/ range'[n] = [range[n] EXCEPT !.prefix = file[l][n + 1].prefix]
    BY <1>1, <1>3 DEF StoreNetwork, StoreMask
  <2>3. range[n] \in [network : Addresses, prefix : 0 .. ADDRESS_BITS]
    BY <1>1 DEF Lines
  <2> QED
    BY <2>1, <2>2, <2>3
<1> QED
  BY <1>2, <1>3

\* Until it stores its number of rows a load leaves the table as it stands.
LEMMA TableStays ==
  ASSUME LoadInv, Agree(met), TableMet, NEW l \in LOADERS, StoreNetwork(l) \/ StoreMask(l)
  PROVE  Table' = Table
<1>1. noOfRange' = noOfRange /\ noOfRange \in 0 .. MAX_IP_RANGE
  BY DEF StoreNetwork, StoreMask, LoadInv, TypeOK
<1>2. Len(Table) = noOfRange /\ \A n \in 1 .. noOfRange : Table[n] = range[n - 1]
  BY <1>1, RangeTableAssumption DEF Table
<1>3. ASSUME NEW n \in 1 .. noOfRange PROVE range'[n - 1] = range[n - 1]
  <2> DEFINE m == n - 1
  <2>1. m \in RangeRows /\ m < Len(Table) /\ m + 1 = n
    BY <1>1, <1>2, RangeTableAssumption DEF RangeRows
  <2>2. range[m] = Table[m + 1]
    BY <1>2, <2>1
  <2>3. Table \in met
    BY DEF TableMet
  <2> HIDE DEF m
  <2>4. range'[m] = range[m]
    BY <2>1, <2>2, <2>3, RowStays
  <2> QED
    BY <2>4 DEF m
<1> QED
  BY <1>1, <1>3 DEF Table

\* The invariant when a list is begun: its file joins the tables that the scan has met,
\* or they are told apart no longer.
LEMMA BeginList ==
  ASSUME LoadInv, ScanInv, NEW S, \A t \in S : t \in Seq(Lines),
         met' = MetAlso(S), UNCHANGED <<table, scan>>, overlapped' = (Loading # {}),
         \A k \in Storing' : k \in Storing \/ file'[k] \in S
  PROVE  ScanInv'
<1> USE DEF ScanInv
<1>1. Agree(met)' /\ HalfOfRow'
  BY MetAlsoAgrees DEF LoadInv, HalfOfRow, scan
<1>2. ASSUME Telling' PROVE met \subseteq met' /\ S \subseteq met' /\ Loading = {} /\ Telling
  <2>1. Scanning /\ met # {}
    BY <1>2 DEF Telling, Scanning, scan, MetAlso
  <2> QED
    BY <1>2, <2>1, MetAlsoGrows DEF Telling
<1>3. ASSUME Telling' PROVE TableMet' /\ RowsPassed'
  <2>1. TableMet'
    <3>1. Storing = {} /\ ~overlapped' /\ Table' = Table
      BY <1>2, <1>3 DEF Storing, Loading, table, Table
    <3> QED
      BY <1>2, <1>3, <3>1 DEF TableMet
  <2>2. RowsPassed'
    BY <1>2, <1>3 DEF RowsPassed, scan
  <2> QED
    BY <2>1, <2>2
<1>4. ASSUME Telling', compares' \in {"source", "destination"} PROVE AtRow'
  BY <1>2, <1>4 DEF AtRow, RowMet, table, scan
<1>5. ScanSound'
  BY DEF ScanSound, Scanning, scan, MetAlso
<1> QED
  BY <1>1, <1>3, <1>4, <1>5

\* The invariant when a load stores half of a row.
LEMMA StoreHalf ==
  ASSUME LoadInv, ScanInv, NEW l \in LOADERS, StoreNetwork(l) \/ StoreMask(l)
  PROVE  ScanInv'
<1> USE DEF ScanInv
<1>1. /\ met' = met /\ overlapped' = overlapped /\ UNCHANGED scan
      /\ Storing' = Storing /\ Loading' = Loading /\ l \in Loading
  BY DEF StoreNetwork, StoreMask, Storing, Loading, LoadInv, TypeOK
<1>2. Agree(met)' /\ HalfOfRow' /\ ScanSound' /\ (Telling' <=> Telling)
  BY <1>1 DEF HalfOfRow, ScanSound, Telling, Scanning, scan
<1>3. ASSUME Telling PROVE TableMet' /\ RowsPassed'
  <2>1. TableMet
    BY <1>3
  <2>2. Table' = Table
    BY <2>1, TableStays
  <2>3. ~overlapped
    BY <1>1, <2>1 DEF TableMet
  <2>4. file' = file
    BY <2>3 DEF StoreNetwork, StoreMask, Rests, LoadInv, TypeOK
  <2>5. TableMet'
    BY <1>1, <2>1, <2>2, <2>4 DEF TableMet
  <2>6. RowsPassed'
    BY <1>1, <1>3 DEF RowsPassed, scan
  <2> QED
    BY <2>5, <2>6
<1>4. ASSUME Telling, compares \in {"source", "destination"} PROVE AtRow'
  <2>1. counter \in RangeRows /\ AtRow /\ TableMet
    BY <1>4 DEF LoadInv, CounterInRange
  <2>2. PICK t \in met : counter < Len(t) /\ range[counter] = t[counter + 1]
    BY <2>1 DEF AtRow, RowMet
  <2>3. range'[counter] = range[counter]
    BY <2>1, <2>2, RowStays
  <2> QED
    BY <1>1, <2>1, <2>2, <2>3 DEF AtRow, RowMet, scan
<1> QED
  BY <1>1, <1>2, <1>3, <1>4 DEF scan

\* The invariant when a load stores its number of rows, or another list is at its end.
LEMMA StoreEnd ==
  ASSUME LoadInv, ScanInv, NEW l \in LOADERS, StoreCount(l) \/ EndOther(l)
  PROVE  ScanInv'
<1> USE DEF ScanInv
<1>1. /\ met' = met /\ overlapped' = overlapped /\ range' = range /\ UNCHANGED scan
      /\ Loading' = Loading \ {l} /\ l \in Loading
      /\ Storing' = Storing \ {l} /\ \A k \in LOADERS \ {l} : file'[k] = file[k]
  BY DEF StoreCount, EndOther, Storing, Loading, LoadInv, TypeOK, table
<1>2. Agree(met)' /\ HalfOfRow' /\ ScanSound' /\ (Telling' <=> Telling)
  BY <1>1 DEF HalfOfRow, ScanSound, Telling, Scanning, scan
<1>3. ASSUME Telling PROVE TableMet' /\ RowsPassed'
  <2>1. TableMet /\ ~overlapped
    BY <1>1, <1>3 DEF TableMet
  <2>2. Table' \in met
    <3>1. CASE StoreCount(l)
      <4>1. Table' = file[l]
        BY <2>1, <3>1, LoadLeavesFile
      <4>2. l \in Storing
        BY <3>1 DEF StoreCount, Storing
      <4> QED
        BY <2>1, <4>1, <4>2 DEF TableMet
    <3>2. CASE EndOther(l)
      BY <2>1, <3>2 DEF EndOther, table, Table, TableMet
    <3> QED
      BY <3>1, <3>2
  <2>3. \A k \in Storing' : file'[k] \in met
    BY <1>1, <2>1 DEF TableMet, Storing
  <2>4. TableMet'
    BY <1>1, <2>1, <2>2, <2>3 DEF TableMet
  <2>5. RowsPassed'
    BY <1>1, <1>3 DEF RowsPassed, scan
  <2> QED
    BY <2>4, <2>5
<1>4. ASSUME Telling, compares \in {"source", "destination"} PROVE AtRow'
  BY <1>1, <1>4 DEF AtRow, RowMet, scan
<1> QED
  BY <1>1, <1>2, <1>3, <1>4 DEF scan

\* Each step of a loader keeps the scan's invariant.
LEMMA LoaderStep ==
  ASSUME LoadInv, ScanInv, NEW l \in LOADERS, Loader(l)
  PROVE  ScanInv'
<1>1. CASE StartLoad(l)
  <2>1. PICK f \in Files :
          /\ file' = [file EXCEPT ![l] = f]
          /\ met' = MetAlso({f})
    BY <1>1 DEF StartLoad
  <2>2. \A t \in {f} : t \in Seq(Lines)
    BY FilesAreShort
  <2>3. \A k \in Storing' : k \in Storing \/ file'[k] \in {f}
    BY <1>1, <2>1 DEF StartLoad, Storing, LoadInv, TypeOK
  <2>4. UNCHANGED <<table, scan>> /\ overlapped' = (Loading # {})
    BY <1>1 DEF StartLoad
  <2> QED
    BY <2>1, <2>2, <2>3, <2>4, BeginList
<1>2. CASE StartOther(l)
  <2>1. \A k \in Storing' : k \in Storing \/ file'[k] \in {}
    BY <1>2 DEF StartOther, Storing, LoadInv, TypeOK
  <2>2. met' = MetAlso({}) /\ UNCHANGED <<table, scan>> /\ overlapped' = (Loading # {})
    BY <1>2 DEF StartOther
  <2>3. \A t \in {} : t \in Seq(Lines)
    OBVIOUS
  <2> QED
    BY <2>1, <2>2, <2>3, BeginList
<1> QED
  BY <1>1, <1>2, StoreHalf, StoreEnd DEF Loader

-----------------------------------------------------------------------------
(* The router's steps.                                                      *)

\* The invariant when a scan begins.
LEMMA ScanBegins ==
  ASSUME LoadInv, ScanInv, BeginScan
  PROVE  ScanInv'
<1> USE DEF ScanInv
<1> DEFINE S == {Table} \cup {file[l] : l \in Storing}
<1>1. /\ UNCHANGED <<half, table, loaders, overlapped>> /\ compares' = "count" /\ counter' = 0
      /\ met' = IF overlapped /\ Loading # {} THEN {} ELSE Met(S)
  BY DEF BeginScan
<1>2. \A t \in S : t \in Seq(Lines)
  BY TableIsSequence, FilesAreShort DEF LoadInv, TypeOK, Storing
<1> HIDE DEF S
<1>3. Agree(met)'
  <2>1. Agree(Met(S))
    BY <1>2, MetAgrees
  <2>2. Agree({})
    BY DEF Agree
  <2> QED
    BY <1>1, <2>1, <2>2
<1>4. half = None
  BY DEF BeginScan, Scanning, HalfOfRow
<1>5. HalfOfRow' /\ ScanSound' /\ Scanning'
  BY <1>1, <1>4 DEF HalfOfRow, ScanSound, Scanning
<1>6. ASSUME Telling' PROVE TableMet' /\ RowsPassed'
  <2>1. met' = S /\ ~(overlapped /\ Loading # {})
    BY <1>1, <1>6 DEF Telling, Met
  <2>2. Table' = Table /\ Storing' = Storing /\ Loading' = Loading /\ file' = file
    BY <1>1 DEF table, loaders, Table, Storing, Loading
  <2>3. TableMet'
    BY <1>1, <2>1, <2>2 DEF TableMet, S
  <2>4. RowsPassed'
    BY <1>1 DEF RowsPassed
  <2> QED
    BY <2>3, <2>4
<1> QED
  BY <1>1, <1>3, <1>5, <1>6

\* What the router's other steps leave as it is.
LEMMA ScanLeaves ==
  ASSUME TestCount \/ LoadHalf \/ CompareSource \/ CompareDestination, ScanInv
  PROVE  /\ Scanning /\ met' = met /\ sIp' = sIp /\ dIp' = dIp
         /\ UNCHANGED <<table, loaders, overlapped>>
         /\ Agree(met)' /\ (Telling => TableMet')
<1>1. /\ Scanning /\ met' = met /\ sIp' = sIp /\ dIp' = dIp
      /\ UNCHANGED <<table, loaders, overlapped>>
  BY DEF TestCount, LoadHalf, CompareSource, CompareDestination, Scanning
<1>2. Table' = Table /\ Storing' = Storing /\ Loading' = Loading /\ file' = file
  BY <1>1 DEF table, loaders, Table, Storing, Loading
<1> QED
  BY <1>1, <1>2 DEF ScanInv, TableMet

\* The half loaded first, put into the row as it is then, is no other row.
LEMMA LoadedIsRow ==
  ASSUME LoadInv, HalfOfRow, half # None, half.value = range[counter][half.part]
  PROVE  RowLoaded = range[counter]
<1>1. range[counter] \in Lines /\ half.part \in {"network", "prefix"}
  BY DEF HalfOfRow, LoadInv, TypeOK, CounterInRange
<1> QED
  BY <1>1 DEF RowLoaded, Lines

\* The invariant when the number of rows is tested.
LEMMA CountTested ==
  ASSUME LoadInv, ScanInv, TestCount
  PROVE  ScanInv'
<1> USE DEF ScanInv
<1>1. half' = None /\ half = None /\ compares = "count"
  BY DEF TestCount, HalfOfRow
<1>2. /\ noOfRange \in 0 .. MAX_IP_RANGE /\ counter \in Nat /\ range' = range
      /\ Table \in Seq(Lines) /\ Len(Table) = noOfRange
      /\ \A n \in 1 .. noOfRange : Table[n] = range[n - 1]
  BY ScanLeaves, TableIsSequence, RangeTableAssumption DEF LoadInv, TypeOK, Table, table
<1>3. CASE counter < noOfRange
  <2>1. compares' = "source" /\ counter' = counter /\ direction' = direction
    BY <1>3 DEF TestCount
  <2>2. ASSUME Telling PROVE TableMet' /\ RowsPassed' /\ AtRow'
    <3>1. Table \in met /\ counter < Len(Table) /\ counter + 1 \in 1 .. noOfRange
      BY <1>2, <1>3, <2>2 DEF TableMet
    <3>2. range[counter] = Table[counter + 1]
      BY <1>2, <3>1
    <3>3. AtRow'
      BY <1>1, <1>2, <2>1, <3>1, <3>2, ScanLeaves DEF AtRow, RowMet
    <3>4. TableMet' /\ RowsPassed'
      BY <2>1, <2>2, ScanLeaves DEF RowsPassed
    <3> QED
      BY <3>3, <3>4
  <2>3. Telling' <=> Telling
    BY <2>1, ScanLeaves DEF Telling, Scanning
  <2>4. HalfOfRow' /\ ScanSound'
    BY <1>1, <2>1 DEF HalfOfRow, ScanSound, Scanning
  <2> QED
    BY <2>2, <2>3, <2>4, ScanLeaves
<1>4. CASE ~(counter < noOfRange)
  <2>1. compares' = "nothing" /\ direction' = UNKNOWN /\ counter' = 0
    BY <1>4 DEF TestCount
  <2>2. ASSUME Telling PROVE UNKNOWN \in {DirectionBy(t, sIp, dIp) : t \in met}
    <3>1. Table \in met /\ RowsPassed /\ TypeOK
      BY <2>2 DEF TableMet, LoadInv
    <3>2. \A n \in 1 .. Len(Table) : n \in 1 .. counter /\ n <= Len(Table)
      BY <1>2, <1>4
    <3>3. \A n \in 1 .. Len(Table) : Misses(Table[n], sIp, dIp)
      BY <3>1, <3>2, PassedInAny
    <3>4. DirectionBy(Table, sIp, dIp) = UNKNOWN
      BY <3>3, NothingFound
    <3> QED
      BY <3>1, <3>4
  <2>3. ScanSound'
    BY <2>1, <2>2, ScanLeaves DEF ScanSound, Telling
  <2>4. HalfOfRow' /\ ~Telling'
    BY <1>1, <2>1 DEF HalfOfRow, Telling, Scanning
  <2> QED
    BY <2>3, <2>4, ScanLeaves
<1> QED
  BY <1>3, <1>4

\* The invariant when the first half of a row is loaded.
LEMMA HalfLoaded ==
  ASSUME LoadInv, ScanInv, LoadHalf
  PROVE  ScanInv'
<1> USE DEF ScanInv
<1>1. PICK part \in {"network", "prefix"} : half' = [part |-> part, value |-> range[counter][part]]
  BY DEF LoadHalf
<1>2. /\ compares \in {"source", "destination"}
      /\ compares' = compares /\ counter' = counter /\ direction' = direction
  BY DEF LoadHalf
<1>3. half'.part = part /\ half'.value = range[counter][part]
  BY <1>1
<1>4. HalfOfRow' /\ ScanSound' /\ (Telling' <=> Telling)
  BY <1>2, <1>3, ScanLeaves DEF HalfOfRow, ScanSound, Telling, Scanning
<1>5. ASSUME Telling PROVE TableMet' /\ RowsPassed' /\ AtRow'
  BY <1>2, <1>3, <1>5, ScanLeaves DEF RowsPassed, AtRow, RowMet, table
<1> QED
  BY <1>4, <1>5, ScanLeaves

\* A scan that ends at its row says what the first row of one of its tables does.
LEMMA RowDecides ==
  ASSUME LoadInv, ScanInv, Telling, compares \in {"source", "destination"},
         ~Misses(range[counter], sIp, dIp)
  PROVE  (IF IsIPInRange(sIp, range[counter]) THEN UP ELSE DOWN)
           \in {DirectionBy(t, sIp, dIp) : t \in met}
<1>1. AtRow /\ Agree(met) /\ RowsPassed /\ TypeOK
  BY DEF ScanInv, LoadInv
<1>2. PICK t \in met : counter < Len(t) /\ range[counter] = t[counter + 1]
  BY <1>1 DEF AtRow, RowMet
<1>3. t \in Seq(Lines) /\ counter \in Nat
  BY <1>1, RangeTableAssumption DEF TypeOK
<1>4. \A n \in 1 .. counter : n <= Len(t)
  BY <1>2, <1>3
<1>5. \A n \in 1 .. counter : Misses(t[n], sIp, dIp)
  BY <1>1, <1>4, PassedInAny
<1>6. DirectionBy(t, sIp, dIp) = IF IsIPInRange(sIp, t[counter + 1]) THEN UP ELSE DOWN
  BY <1>2, <1>3, <1>5, FirstDecides
<1> QED
  BY <1>2, <1>6

\* The invariant when the source is compared.
LEMMA SourceCompared ==
  ASSUME LoadInv, ScanInv, CompareSource
  PROVE  ScanInv'
<1> USE DEF ScanInv
<1>1. compares = "source" /\ half # None /\ half' = None
  BY DEF CompareSource
<1>2. ASSUME Telling PROVE RowLoaded = range[counter] /\ AtRow
  BY <1>1, <1>2, LoadedIsRow DEF AtRow
<1>3. CASE IsIPInRange(sIp, RowLoaded)
  <2>1. compares' = "nothing" /\ direction' = UP
    BY <1>3 DEF CompareSource
  <2>2. ASSUME Telling PROVE UP \in {DirectionBy(t, sIp, dIp) : t \in met}
    <3>1. IsIPInRange(sIp, range[counter])
      BY <1>2, <1>3, <2>2
    <3>2. ~Misses(range[counter], sIp, dIp)
      BY <3>1 DEF Misses
    <3> QED
      BY <1>1, <2>2, <3>1, <3>2, RowDecides
  <2>3. ScanSound'
    BY <2>1, <2>2, ScanLeaves DEF ScanSound, Telling
  <2>4. HalfOfRow' /\ ~Telling'
    BY <1>1, <2>1 DEF HalfOfRow, Telling, Scanning
  <2> QED
    BY <2>3, <2>4, ScanLeaves
<1>4. CASE ~IsIPInRange(sIp, RowLoaded)
  <2>1. compares' = "destination" /\ direction' = direction /\ counter' = counter
    BY <1>4 DEF CompareSource
  <2>2. HalfOfRow' /\ ScanSound' /\ (Telling' <=> Telling)
    BY <1>1, <2>1, ScanLeaves DEF HalfOfRow, ScanSound, Telling, Scanning
  <2>3. ASSUME Telling PROVE TableMet' /\ RowsPassed' /\ AtRow'
    <3>1. ~IsIPInRange(sIp, range[counter]) /\ RowMet
      BY <1>2, <1>4, <2>3 DEF AtRow
    <3> QED
      BY <1>1, <2>1, <2>3, <3>1, ScanLeaves DEF RowsPassed, AtRow, RowMet, table
  <2> QED
    BY <2>2, <2>3, ScanLeaves
<1> QED
  BY <1>3, <1>4

\* The invariant when the destination is compared: a row that has neither address is
\* left behind.
LEMMA DestinationCompared ==
  ASSUME LoadInv, ScanInv, CompareDestination
  PROVE  ScanInv'
<1> USE DEF ScanInv
<1>1. compares = "destination" /\ half # None /\ half' = None /\ counter \in Nat
  BY RangeTableAssumption DEF CompareDestination, LoadInv, TypeOK
<1>2. ASSUME Telling
      PROVE  RowLoaded = range[counter] /\ RowMet /\ ~IsIPInRange(sIp, range[counter])
  BY <1>1, <1>2, LoadedIsRow DEF AtRow
<1>3. CASE IsIPInRange(dIp, RowLoaded)
  <2>1. compares' = "nothing" /\ direction' = DOWN
    BY <1>3 DEF CompareDestination
  <2>2. ASSUME Telling PROVE DOWN \in {DirectionBy(t, sIp, dIp) : t \in met}
    <3>1. ~IsIPInRange(sIp, range[counter]) /\ IsIPInRange(dIp, range[counter])
      BY <1>2, <1>3, <2>2
    <3>2. ~Misses(range[counter], sIp, dIp)
      BY <3>1 DEF Misses
    <3> QED
      BY <1>1, <2>2, <3>1, <3>2, RowDecides
  <2>3. ScanSound'
    BY <2>1, <2>2, ScanLeaves DEF ScanSound, Telling
  <2>4. HalfOfRow' /\ ~Telling'
    BY <1>1, <2>1 DEF HalfOfRow, Telling, Scanning
  <2> QED
    BY <2>3, <2>4, ScanLeaves
<1>4. CASE ~IsIPInRange(dIp, RowLoaded)
  <2>1. compares' = "count" /\ direction' = direction /\ counter' = counter + 1
    BY <1>4 DEF CompareDestination
  <2>2. HalfOfRow' /\ ScanSound' /\ (Telling' <=> Telling)
    BY <1>1, <2>1, ScanLeaves DEF HalfOfRow, ScanSound, Telling, Scanning
  <2>3. ASSUME Telling PROVE TableMet' /\ RowsPassed'
    <3>1. Misses(range[counter], sIp, dIp) /\ RowMet /\ RowsPassed
      BY <1>2, <1>4, <2>3 DEF Misses
    <3>2. PICK t \in met : counter < Len(t) /\ range[counter] = t[counter + 1]
      BY <3>1 DEF RowMet
    <3>3. counter + 1 <= Len(t) /\ Misses(t[counter + 1], sIp, dIp)
      <4>1. t \in Seq(Lines)
        BY DEF LoadInv, TypeOK
      <4> QED
        BY <1>1, <3>1, <3>2, <4>1
    <3>4. \A n \in 1 .. counter + 1 : n = counter + 1 \/ n \in 1 .. counter
      BY <1>1
    <3>5. \A n \in 1 .. counter + 1 : \E u \in met : n <= Len(u) /\ Misses(u[n], sIp, dIp)
      BY <3>1, <3>3, <3>4 DEF RowsPassed
    <3>6. RowsPassed'
      BY <2>1, <3>5, ScanLeaves DEF RowsPassed
    <3> QED
      BY <2>3, <3>6, ScanLeaves
  <2> QED
    BY <2>1, <2>2, <2>3, ScanLeaves
<1> QED
  BY <1>3, <1>4

\* The scan's invariant holds in every reachable state.
THEOREM ScanInvariant == Spec => []ScanInv
<1>1. Init => ScanInv
  BY DEF Init, ScanInv, Agree, HalfOfRow, Telling, Scanning, ScanSound
<1>2. LoadInv /\ ScanInv /\ [Next]_vars => ScanInv'
  <2>1. ASSUME ScanInv, UNCHANGED vars PROVE ScanInv'
    <3>1. /\ UNCHANGED <<met, overlapped, range, file>>
          /\ UNCHANGED <<sIp, dIp, counter, compares, half, direction>>
          /\ Table' = Table /\ Storing' = Storing /\ Loading' = Loading
      BY <2>1 DEF vars, table, loaders, scan, Table, Storing, Loading
    <3> QED
      BY <2>1, <3>1
         DEF ScanInv, HalfOfRow, Telling, Scanning, TableMet, RowsPassed, AtRow, RowMet, ScanSound
  <2> QED
    BY <2>1, LoaderStep, ScanBegins, CountTested, HalfLoaded, SourceCompared, DestinationCompared
       DEF Next, Router
<1> QED
  BY <1>1, <1>2, LoadInvariant, PTL DEF Spec

\* ScanSound for any addresses, files and loaders: a router that runs into the rewriting
\* of IPV4_RANGE finds the direction that one of the tables it met gives.
THEOREM ScanSoundCorrect == Spec => []ScanSound
  BY ScanInvariant, PTL DEF ScanInv

-----------------------------------------------------------------------------
(* What a router makes of its packets.  The inductive invariant says of    *)
(* each phase what the record holds of the packet by then.                 *)

Wires == [protocol : Protocols \cup {0}, tags : Seq(VLANS), direction : Directions \cup {0},
          qr : {QUERY, RESPONSE, 3}, name : {0, NAME}, entered : SUBSET (0 .. 255)]

\* The parser has the id of the frame's last tag.
VlanTold == wire.tags /= <<>> => vlan_id = Last(wire.tags)

\* Nothing is pushed before the packet is parsed, nothing read before it is looked at.
NotYet ==
  /\ phase /= "frame" => out = Silence
  /\ phase = "ip" => msgObj = Reset
  /\ phase \notin {"route", "frame"} => wire.qr = 3 /\ wire.name = 0 /\ wire.entered = {}

\* The record as fn_decodeIPv4 leaves it to the parser of each protocol.
Handed ==
  /\ phase = "tcp" => msgObj.ptype = TCP /\ msgObj.tcpVlan = vlan_id
  /\ phase \in {"udp", "dns"} =>
       /\ msgObj.ptype = UDP /\ wire.protocol = UDP
       /\ msgObj.at[2] = vlan_id % 256 /\ msgObj.at[3] = vlan_id \div 256
       /\ msgObj.at[1] \in Directions
       /\ msgObj.at[1] = wire.direction
  /\ phase = "dns" => msgObj.at[1] \in {UP, DOWN}
  /\ phase = "aaa" => msgObj.ptype = RADIUS /\ msgObj.at[1] = DOWN

\* The record as the parsers leave it to the router, by the kind they made it.
Parsed ==
  phase \in {"route", "frame"} =>
    /\ msgObj.ptype = TCP => msgObj.tcpVlan = vlan_id
    /\ msgObj.ptype = UDP => UdpVlan(msgObj) = vlan_id
    /\ msgObj.ptype = DNS =>
         /\ \/ msgObj.at[1] = wire.qr
            \/ wire.qr = 3 /\ wire.direction = UP /\ msgObj.at[1] = RESPONSE
         /\ vlan_id < 256 => msgObj.at[3] \in {0, wire.name}
    /\ msgObj.ptype = RADIUS => wire.protocol = RADIUS \/ msgObj.at[1] = DOWN

\* What is pushed is the record, to the agents of its kind.
PushedAsKind ==
  phase = "frame" /\ out.pushed /= "none" =>
    /\ out.record = msgObj
    /\ out.pushed = "TCP" => msgObj.ptype = TCP
    /\ out.pushed = "UDP" => msgObj.ptype = UDP
    /\ out.pushed = "DNS" => msgObj.ptype = DNS

\* An address is entered under the name that was asked for.
EnteredAsAsked == wire.entered \subseteq {wire.name} \ {0}

ClassifyInv ==
  /\ ClassifyTypeOK /\ wire \in Wires
  /\ VlanTold /\ NotYet /\ Handed /\ Parsed /\ PushedAsKind /\ EnteredAsAsked /\ CountedOnce

\* The router as the constructors leave it satisfies the invariant.
LEMMA InitClassify == ClassifyInit => ClassifyInv
<1> SUFFICES ASSUME ClassifyInit PROVE ClassifyInv
  OBVIOUS
<1>1. Reset \in Records
  BY DEF Reset, Records, Protocols
<1>2. ClassifyTypeOK /\ wire \in Wires
  BY <1>1 DEF ClassifyInit, ClassifyTypeOK, Wires, NoWire, Silence, Protocols, NAME, RESPONSE, QUERY
<1> QED
  BY <1>2
     DEF ClassifyInit, ClassifyInv, VlanTold, NotYet, Handed, Parsed, PushedAsKind, EnteredAsAsked,
         CountedOnce, Routed, Reset, Silence, NoWire, TCP, UDP, DNS, RADIUS

\* A record's bytes, and what a VLAN id is in two of them.
LEMMA Bytes ==
  ASSUME ClassifyTypeOK
  PROVE  /\ msgObj \in Records /\ msgObj.at \in [1 .. 3 -> 0 .. 255]
         /\ \A i \in 1 .. 3 : msgObj.at[i] \in 0 .. 255
         /\ vlan_id \in 0 .. 4095 /\ vlan_id % 256 \in 0 .. 255 /\ vlan_id \div 256 \in 0 .. 255
         /\ (vlan_id \div 256) * 256 + (vlan_id % 256) = vlan_id
         /\ vlan_id < 256 => vlan_id \div 256 = 0
<1>1. msgObj \in Records /\ msgObj.at \in [1 .. 3 -> 0 .. 255]
  BY DEF ClassifyTypeOK, Records
<1>2. vlan_id \in 0 .. 4095
  BY ClassifyAssumption DEF ClassifyTypeOK
<1> QED
  BY <1>1, <1>2

\* What a record still is with its kind written, or its bytes.
LEMMA KindWritten ==
  ASSUME NEW m \in Records, NEW p \in Protocols \cup {0}, NEW n, n = [m EXCEPT !.ptype = p]
  PROVE  n \in Records /\ n.ptype = p /\ n.at = m.at /\ n.tcpVlan = m.tcpVlan
BY DEF Records

LEMMA BytesWritten ==
  ASSUME NEW m \in Records, NEW a \in [1 .. 3 -> 0 .. 255], NEW n, n = [m EXCEPT !.at = a]
  PROVE  n \in Records /\ n.at = a /\ n.ptype = m.ptype /\ n.tcpVlan = m.tcpVlan
BY DEF Records

\* The next frame: the record is reset, and the parser has the last tag's id if there
\* is a tag.
LEMMA FrameDecoded ==
  ASSUME ClassifyInv, DecodeFrame
  PROVE  ClassifyInv'
<1>1. PICK tags \in BoundedSeq(VLANS, MAX_TAGS), ipv4 \in BOOLEAN :
        /\ msgObj' = Reset /\ out' = Silence
        /\ vlan_id' = VlanAfter(tags) /\ wire' = [NoWire EXCEPT !.tags = tags]
        /\ phase' = IF ipv4 THEN "ip" ELSE "route"
  BY DEF DecodeFrame
<1>2. tags \in Seq(VLANS)
  <2>1. PICK n \in 0 .. MAX_TAGS : tags \in [1 .. n -> VLANS]
    BY DEF BoundedSeq, SeqOf
  <2> QED
    BY <2>1, ClassifyAssumption
<1>3. vlan_id' \in {0} \cup VLANS /\ (tags /= <<>> => vlan_id' = Last(tags))
  BY <1>1, <1>2 DEF VlanAfter, Last, ClassifyInv, ClassifyTypeOK
<1>4. /\ wire'.tags = tags /\ wire'.protocol = 0 /\ wire'.qr = 3 /\ wire'.name = 0
      /\ wire'.entered = {} /\ wire' \in Wires
  BY <1>1, <1>2 DEF NoWire, Wires, Protocols, QUERY, RESPONSE
<1>5. Reset \in Records
  BY DEF Reset, Records, Protocols
<1>6. ClassifyTypeOK'
  BY <1>1, <1>3, <1>4, <1>5 DEF ClassifyTypeOK, Silence, Protocols
<1>7. VlanTold' /\ NotYet' /\ Handed' /\ Parsed' /\ PushedAsKind' /\ EnteredAsAsked'
  BY <1>1, <1>3, <1>4
     DEF VlanTold, NotYet, Handed, Parsed, PushedAsKind, EnteredAsAsked, Reset,
         TCP, UDP, DNS, RADIUS
<1>8. CountedOnce'
  BY <1>1, <1>4 DEF CountedOnce, Routed, TCP, UDP
<1> QED
  BY <1>4, <1>6, <1>7, <1>8 DEF ClassifyInv

\* What is known of a packet with one thing more.
LEMMA ProtocolTold ==
  ASSUME NEW w \in Wires, NEW p \in Protocols, NEW v, v = [w EXCEPT !.protocol = p]
  PROVE  /\ v \in Wires /\ v.protocol = p /\ v.tags = w.tags /\ v.direction = w.direction
         /\ v.qr = w.qr /\ v.name = w.name /\ v.entered = w.entered
<1>1. /\ v.protocol = p /\ v.tags = w.tags /\ v.direction = w.direction
      /\ v.qr = w.qr /\ v.name = w.name /\ v.entered = w.entered
  BY DEF Wires
<1>2. v \in Wires
  BY DEF Wires
<1> QED
  BY <1>1, <1>2

LEMMA DirectionTold ==
  ASSUME NEW w \in Wires, NEW d \in Directions, NEW v, v = [w EXCEPT !.direction = d]
  PROVE  /\ v \in Wires /\ v.protocol = w.protocol /\ v.tags = w.tags /\ v.direction = d
         /\ v.qr = w.qr /\ v.name = w.name /\ v.entered = w.entered
<1>1. /\ v.protocol = w.protocol /\ v.tags = w.tags /\ v.direction = d
      /\ v.qr = w.qr /\ v.name = w.name /\ v.entered = w.entered
  BY DEF Wires
<1>2. v \in Wires
  BY DEF Wires
<1> QED
  BY <1>1, <1>2

\* Step between the parsers: what is known of the frame stays, nothing is pushed.
LEMMA FrameKept ==
  ASSUME ClassifyInv, vlan_id' = vlan_id, wire'.tags = wire.tags, wire' \in Wires,
         wire'.entered \subseteq {wire'.name} \ {0}, msgObj' \in Records, out' = out,
         phase /= "frame", phase' \in {"tcp", "udp", "dns", "aaa", "route"},
         phase' = "route" \/ (wire'.qr = 3 /\ wire'.name = 0 /\ wire'.entered = {}),
         Handed', Parsed'
  PROVE  ClassifyInv'
<1>1. ClassifyTypeOK'
  BY DEF ClassifyInv, ClassifyTypeOK, Wires
<1>2. VlanTold' /\ NotYet' /\ PushedAsKind' /\ EnteredAsAsked' /\ CountedOnce'
  BY DEF ClassifyInv, VlanTold, NotYet, PushedAsKind, EnteredAsAsked, CountedOnce, Routed
<1> QED
  BY <1>1, <1>2 DEF ClassifyInv

\* The IP header: the record goes to the parser of its protocol, or to the router.
LEMMA IPv4Decoded ==
  ASSUME ClassifyInv, DecodeIPv4
  PROVE  ClassifyInv'
<1>0. phase = "ip" /\ vlan_id' = vlan_id /\ out' = out
  BY DEF DecodeIPv4
<1>1. PICK protocol \in Protocols, d \in Directions :
        /\ \/ protocol = TCP /\ IpTcp(d)
           \/ protocol = UDP /\ (IpRadius \/ IpUdp(d))
           \/ protocol \notin {TCP, UDP} /\ IpOther(protocol)
        /\ wire' = [wire EXCEPT !.protocol = protocol, !.direction = d]
  BY Zenon DEF DecodeIPv4
<1>2. /\ wire' \in Wires /\ wire'.protocol = protocol /\ wire'.direction = d
      /\ wire'.tags = wire.tags
      /\ wire'.qr = 3 /\ wire'.name = 0 /\ wire'.entered = {}
  <2>1. PICK w \in Wires : w = wire /\ w.qr = 3 /\ w.name = 0 /\ w.entered = {}
    BY <1>0, <1>1 DEF ClassifyInv, NotYet
  <2>2. PICK u : u = [w EXCEPT !.protocol = protocol]
    OBVIOUS
  <2>3. u \in Wires /\ u.protocol = protocol /\ u.tags = w.tags
        /\ u.qr = w.qr /\ u.name = w.name /\ u.entered = w.entered
    BY <2>2, ProtocolTold
  <2>4. PICK v : v = [u EXCEPT !.direction = d]
    OBVIOUS
  <2>5. v \in Wires /\ v.protocol = protocol /\ v.direction = d /\ v.tags = u.tags
        /\ v.qr = u.qr /\ v.name = u.name /\ v.entered = u.entered
    BY <2>3, <2>4, DirectionTold
  <2>6. wire' = v
    BY <1>0, <1>1, <2>1, <2>2, <2>4
  <2> QED
    BY <2>1, <2>3, <2>5, <2>6
<1>3. PICK m \in Records : m = msgObj /\ m.at[1] = 3 /\ m.at[3] = 0 /\ d \in 0 .. 255
  <2>1. msgObj = Reset
    BY <1>0, <1>1 DEF ClassifyInv, NotYet
  <2>2. Reset \in Records /\ Reset.at[1] = 3 /\ Reset.at[3] = 0
    BY DEF Reset, Records, Protocols
  <2>3. d \in 0 .. 255
    BY DEF Directions, UP, DOWN, UNKNOWN
  <2> QED
    BY <2>1, <2>2, <2>3
<1>4. ASSUME msgObj' \in Records, phase' \in {"tcp", "udp", "aaa", "route"}, Handed', Parsed'
      PROVE  ClassifyInv'
  BY <1>0, <1>1, <1>2, <1>4, FrameKept
<1>5. CASE protocol = TCP /\ IpTcp(d)
  <2>1. msgObj' = [m EXCEPT !.ptype = TCP, !.tcpVlan = vlan_id, !.at[2] = d] /\ phase' = "tcp"
    BY <1>3, <1>5 DEF IpTcp
  <2>2. PICK k : k = [m EXCEPT !.ptype = TCP]
    OBVIOUS
  <2>3. k \in Records /\ k.ptype = TCP
    BY <2>2, KindWritten DEF Protocols
  <2>4. PICK l : l = [k EXCEPT !.tcpVlan = vlan_id]
    OBVIOUS
  <2>5. l \in Records /\ l.ptype = TCP /\ l.tcpVlan = vlan_id
    BY <2>3, <2>4 DEF Records, ClassifyInv, ClassifyTypeOK
  <2>6. PICK b \in [1 .. 3 -> 0 .. 255] : b = l.at
    BY <2>5 DEF Records
  <2>7. PICK a \in [1 .. 3 -> 0 .. 255] : a = [b EXCEPT ![2] = d]
    BY <1>3
  <2>8. PICK n : n = [l EXCEPT !.at = a]
    OBVIOUS
  <2>9. n \in Records /\ n.ptype = TCP /\ n.tcpVlan = vlan_id
    BY <2>5, <2>7, <2>8, BytesWritten
  <2>10. msgObj' = n
    BY <2>1, <2>2, <2>4, <2>6, <2>7, <2>8
  <2> QED
    BY <1>0, <1>1, <1>4, <2>1, <2>9, <2>10 DEF Handed, Parsed
<1>6. CASE protocol = UDP /\ IpRadius
  <2>1. msgObj' = [m EXCEPT !.ptype = RADIUS, !.at[1] = DOWN] /\ phase' = "aaa"
    BY <1>3, <1>6 DEF IpRadius
  <2>2. PICK k : k = [m EXCEPT !.ptype = RADIUS]
    OBVIOUS
  <2>3. k \in Records /\ k.ptype = RADIUS
    BY <2>2, KindWritten DEF Protocols
  <2>4. PICK b \in [1 .. 3 -> 0 .. 255] : b = k.at
    BY <2>3 DEF Records
  <2>5. DOWN \in 0 .. 255
    BY DEF DOWN
  <2>6. PICK a \in [1 .. 3 -> 0 .. 255] : a = [b EXCEPT ![1] = DOWN] /\ a[1] = DOWN
    <3>1. [b EXCEPT ![1] = DOWN] \in [1 .. 3 -> 0 .. 255] /\ [b EXCEPT ![1] = DOWN][1] = DOWN
      BY <2>5
    <3> QED
      BY <3>1, Zenon
  <2>7. PICK n : n = [k EXCEPT !.at = a]
    OBVIOUS
  <2>8. n \in Records /\ n.ptype = RADIUS /\ n.at = a
    BY <2>3, <2>6, <2>7, BytesWritten
  <2>9. msgObj' = n
    BY <2>1, <2>2, <2>4, <2>6, <2>7
  <2> QED
    BY <1>4, <2>1, <2>6, <2>8, <2>9 DEF Handed, Parsed
<1>7. CASE protocol = UDP /\ IpUdp(d)
  <2>1. PICK a : a = <<d, vlan_id % 256, vlan_id \div 256>>
    OBVIOUS
  <2>2. a \in [1 .. 3 -> 0 .. 255] /\ a[1] = d /\ a[2] = vlan_id % 256 /\ a[3] = vlan_id \div 256
    BY <1>3, <2>1, Bytes DEF ClassifyInv
  <2>3. msgObj' = [m EXCEPT !.ptype = UDP, !.at = a] /\ phase' = "udp"
    BY <1>3, <1>7, <2>1 DEF IpUdp
  <2>4. PICK k : k = [m EXCEPT !.ptype = UDP]
    OBVIOUS
  <2>5. k \in Records /\ k.ptype = UDP
    BY <2>4, KindWritten DEF Protocols
  <2>6. PICK n : n = [k EXCEPT !.at = a]
    OBVIOUS
  <2>7. n \in Records /\ n.ptype = UDP /\ n.at = a
    BY <2>2, <2>5, <2>6, BytesWritten
  <2>8. msgObj' = n
    BY <2>3, <2>4, <2>6
  <2> QED
    BY <1>0, <1>1, <1>2, <1>4, <1>7, <2>2, <2>3, <2>7, <2>8 DEF Handed, Parsed
<1>8. CASE protocol \notin {TCP, UDP} /\ IpOther(protocol)
  <2>1. PICK n : n = [m EXCEPT !.ptype = protocol]
    OBVIOUS
  <2>2. n \in Records /\ n.ptype = protocol /\ n.at = m.at
    BY <2>1, KindWritten
  <2>3. msgObj' = n /\ phase' = "route"
    BY <1>3, <1>8, <2>1 DEF IpOther
  <2> QED
    BY <1>0, <1>1, <1>2, <1>3, <1>4, <1>8, <2>2, <2>3 DEF Handed, Parsed, DNS, RADIUS
<1> QED
  BY <1>0, <1>1, <1>5, <1>6, <1>7, <1>8

\* What a record still is with a field written that no property tells apart.
Alike(n, m) == n \in Records /\ n.at = m.at /\ n.ptype = m.ptype /\ n.tcpVlan = m.tcpVlan

LEMMA SmallWritten ==
  ASSUME NEW m \in Records, NEW s \in BOOLEAN, NEW n, n = [m EXCEPT !.small = s]
  PROVE  Alike(n, m)
BY DEF Records, Alike

LEMMA DropWritten ==
  ASSUME NEW m \in Records, NEW n, n = [m EXCEPT !.dropPacket = TRUE]
  PROVE  Alike(n, m)
BY DEF Records, Alike

LEMMA RangeWritten ==
  ASSUME NEW m \in Records, NEW s \in BOOLEAN, NEW n, n = [m EXCEPT !.processOutOfRange = s]
  PROVE  Alike(n, m)
BY DEF Records, Alike

LEMMA FlagsWritten ==
  ASSUME NEW m \in Records, NEW n, NEW f,
         f \in {"SYN_RCV", "SYN_ACK_RCV", "ACK_RCV", "DATA_RCV", "FIN_RCV"},
         n = [m EXCEPT !.tcpFlags = f]
  PROVE  Alike(n, m)
BY DEF Records, Alike

\* A TCP record keeps its VLAN id, or is given up.
LEMMA TCPParsed ==
  ASSUME ClassifyInv, ParseTCP
  PROVE  ClassifyInv'
<1>1. /\ phase = "tcp" /\ phase' = "route" /\ vlan_id' = vlan_id /\ wire' = wire /\ out' = out
      /\ msgObj \in Records /\ msgObj.ptype = TCP /\ msgObj.tcpVlan = vlan_id
  BY DEF ParseTCP, ClassifyInv, ClassifyTypeOK, Handed
<1>2. PICK dnsPort \in BOOLEAN, bits \in SUBSET TcpBits, small \in BOOLEAN :
        LET flags == TcpFlags(bits)
            empty == flags \in {"SYN_RCV", "SYN_ACK_RCV", "FIN_RCV"}
        IN msgObj' =
             IF dnsPort THEN [msgObj EXCEPT !.small = small, !.dropPacket = TRUE]
             ELSE IF flags = "none"
               THEN [msgObj EXCEPT !.small = small, !.ptype = 0, !.dropPacket = TRUE]
               ELSE [msgObj EXCEPT !.small = small \/ empty, !.tcpFlags = flags]
  BY Zenon DEF ParseTCP
<1>3. PICK f : f = TcpFlags(bits)
  OBVIOUS
<1>4. f \in {"SYN_RCV", "SYN_ACK_RCV", "ACK_RCV", "DATA_RCV", "FIN_RCV", "none"}
  BY <1>3 DEF TcpFlags
<1>5. PICK m \in Records : m = msgObj
  BY <1>1
<1>6. msgObj' \in Records /\ msgObj'.ptype \in {TCP, 0} /\ msgObj'.tcpVlan = m.tcpVlan
  <2>1. PICK k : k = [m EXCEPT !.small = small]
    OBVIOUS
  <2>2. Alike(k, m)
    BY <2>1, SmallWritten
  <2>3. CASE dnsPort
    <3>1. PICK n : n = [k EXCEPT !.dropPacket = TRUE]
      OBVIOUS
    <3>2. Alike(n, k)
      BY <2>2, <3>1, DropWritten DEF Alike
    <3>3. msgObj' = n
      BY <1>2, <1>5, <2>1, <2>3, <3>1
    <3> QED
      BY <1>1, <1>5, <2>2, <3>2, <3>3 DEF Alike
  <2>4. CASE ~dnsPort /\ f = "none"
    <3>1. PICK l : l = [k EXCEPT !.ptype = 0]
      OBVIOUS
    <3>2. l \in Records /\ l.ptype = 0 /\ l.tcpVlan = k.tcpVlan
      BY <2>2, <3>1, KindWritten DEF Alike
    <3>3. PICK n : n = [l EXCEPT !.dropPacket = TRUE]
      OBVIOUS
    <3>4. Alike(n, l)
      BY <3>2, <3>3, DropWritten
    <3>5. msgObj' = n
      BY <1>2, <1>3, <1>5, <2>1, <2>4, <3>1, <3>3
    <3> QED
      BY <2>2, <3>2, <3>4, <3>5 DEF Alike
  <2>5. CASE ~dnsPort /\ f /= "none"
    <3>1. PICK s \in BOOLEAN : s <=> small \/ f \in {"SYN_RCV", "SYN_ACK_RCV", "FIN_RCV"}
      OBVIOUS
    <3>2. PICK l : l = [m EXCEPT !.small = s]
      OBVIOUS
    <3>3. Alike(l, m)
      BY <3>2, SmallWritten
    <3>4. PICK n : n = [l EXCEPT !.tcpFlags = f]
      OBVIOUS
    <3>5. Alike(n, l)
      BY <1>4, <2>5, <3>3, <3>4, FlagsWritten DEF Alike
    <3>6. msgObj' = n
      BY <1>2, <1>3, <1>5, <2>5, <3>1, <3>2, <3>4
    <3> QED
      BY <1>1, <1>5, <3>3, <3>5, <3>6 DEF Alike
  <2> QED
    BY <2>3, <2>4, <2>5
<1>7. Handed' /\ Parsed'
  BY <1>1, <1>5, <1>6 DEF Handed, Parsed, TCP, UDP, DNS, RADIUS
<1> QED
  BY <1>1, <1>6, <1>7, FrameKept DEF ClassifyInv, NotYet, EnteredAsAsked

\* A UDP record keeps its bytes, whatever becomes of it but the DNS parser.
LEMMA UDPParsed ==
  ASSUME ClassifyInv, ParseUDP
  PROVE  ClassifyInv'
<1>1. /\ phase = "udp" /\ vlan_id' = vlan_id /\ wire' = wire /\ out' = out
      /\ msgObj \in Records /\ msgObj.ptype = UDP
  BY DEF ParseUDP, ClassifyInv, ClassifyTypeOK, Handed
<1>2. PICK m \in Records : m = msgObj /\ m.ptype = UDP
  BY <1>1
<1>3. PICK stun \in BOOLEAN, blocked \in BOOLEAN, version \in {0, 4, 6}, dnsPort \in BOOLEAN,
           small \in BOOLEAN, answers \in {0, 3} :
        LET drop == [msgObj EXCEPT !.dropPacket = TRUE]
            kept == IF blocked THEN drop ELSE msgObj
            toDns == ~stun /\ version = 4 /\ dnsPort /\ DnsPossible(answers)
        IN /\ msgObj' =
                IF stun THEN drop
                ELSE IF version = 6 /\ dnsPort THEN [drop EXCEPT !.ptype = 0]
                ELSE IF version = 0 \/ toDns THEN kept
                ELSE IF dnsPort THEN drop
                ELSE [kept EXCEPT !.small = small]
           /\ phase' = IF toDns THEN "dns" ELSE "route"
  BY Zenon DEF ParseUDP
<1>4. phase' \in {"dns", "route"} /\ (phase' = "dns" => msgObj.at[1] \in {UP, DOWN})
  BY <1>3 DEF DnsPossible
<1>5. PICK d : d = [m EXCEPT !.dropPacket = TRUE]
  OBVIOUS
<1>6. Alike(d, m) /\ Alike(m, m)
  BY <1>5, DropWritten DEF Alike
<1>7. PICK z : z = [d EXCEPT !.ptype = 0]
  OBVIOUS
<1>8. z \in Records /\ z.ptype = 0
  BY <1>6, <1>7, KindWritten DEF Alike
<1>9. PICK k \in Records : Alike(k, m) /\ k = IF blocked THEN d ELSE m
  BY <1>6 DEF Alike
<1>10. PICK s : s = [k EXCEPT !.small = small]
  OBVIOUS
<1>11. Alike(s, m)
  <2>1. Alike(s, k)
    BY <1>10, SmallWritten
  <2> QED
    BY <1>9, <2>1 DEF Alike
<1>12. msgObj' \in {d, z, k, s} /\ (phase' = "dns" => msgObj' = k)
  BY <1>2, <1>3, <1>5, <1>7, <1>9, <1>10
<1>13. \/ Alike(msgObj', m)
       \/ phase' = "route" /\ msgObj' \in Records /\ msgObj'.ptype = 0
  BY <1>4, <1>6, <1>8, <1>9, <1>11, <1>12
<1>14. Handed' /\ Parsed' /\ msgObj' \in Records
  <2>1. CASE phase' = "route" /\ msgObj' \in Records /\ msgObj'.ptype = 0
    BY <2>1 DEF Handed, Parsed, TCP, UDP, DNS, RADIUS
  <2>2. CASE Alike(msgObj', m)
    <3>1. /\ msgObj' \in Records /\ msgObj'.ptype = UDP /\ msgObj'.at = msgObj.at
          /\ wire.protocol = UDP
          /\ msgObj.at[2] = vlan_id % 256 /\ msgObj.at[3] = vlan_id \div 256
          /\ msgObj.at[1] \in Directions /\ msgObj.at[1] = wire.direction
      BY <1>1, <1>2, <2>2 DEF Alike, ClassifyInv, Handed
    <3>2. Handed'
      BY <1>1, <1>4, <3>1 DEF Handed
    <3>3. UdpVlan(msgObj)' = vlan_id'
      BY <1>1, <3>1, Bytes DEF UdpVlan, ClassifyInv
    <3>4. Parsed'
      BY <3>1, <3>3 DEF Parsed, TCP, UDP, DNS, RADIUS
    <3> QED
      BY <3>1, <3>2, <3>4
  <2> QED
    BY <1>13, <2>1, <2>2
<1> QED
  BY <1>1, <1>4, <1>14, FrameKept DEF ClassifyInv, NotYet, EnteredAsAsked

\* The kind by the flag.
LEMMA KindByFlag ==
  ASSUME NEW m \in Records, m.ptype = UDP, NEW n, n = DnsByFlag(m)
  PROVE  /\ n \in Records /\ n.at = m.at
         /\ IF m.at[1] \in {QUERY, RESPONSE} THEN n.ptype = DNS ELSE n.ptype = UDP
<1>1. CASE m.at[1] \in {QUERY, RESPONSE}
  <2>1. n = [m EXCEPT !.ptype = DNS] /\ DNS \in Protocols
    BY <1>1 DEF DnsByFlag, Protocols
  <2> QED
    BY <1>1, <2>1, KindWritten
<1>2. CASE m.at[1] \notin {QUERY, RESPONSE}
  BY <1>2 DEF DnsByFlag
<1> QED
  BY <1>1, <1>2

\* A byte written, for the header's flag and code and for the first byte of a name.
Octets == 0 .. 255

Put(m, i, x) == [m EXCEPT !.at[i] = x]

LEMMA ByteWritten ==
  ASSUME NEW m \in Records, NEW i \in {1, 2, 3}, NEW x \in Octets
  PROVE  /\ Put(m, i, x) \in Records /\ Put(m, i, x).ptype = m.ptype
         /\ Put(m, i, x).at[i] = x
         /\ \A j \in {1, 2, 3} : j /= i => Put(m, i, x).at[j] = m.at[j]
<1>1. PICK b \in [1 .. 3 -> 0 .. 255] : b = m.at
  BY DEF Records
<1>2. i \in 1 .. 3 /\ x \in 0 .. 255
  BY DEF Octets
<1>3. PICK a \in [1 .. 3 -> 0 .. 255] : a = [b EXCEPT ![i] = x]
  BY <1>2
<1>4. a[i] = x /\ \A j \in 1 .. 3 : j /= i => a[j] = b[j]
  BY <1>2, <1>3
<1>5. PICK n : n = [m EXCEPT !.at = a]
  OBVIOUS
<1>6. n \in Records /\ n.at = a /\ n.ptype = m.ptype
  BY <1>5, BytesWritten
<1>7. n = Put(m, i, x)
  BY <1>1, <1>3, <1>5 DEF Put
<1>8. \A j \in {1, 2, 3} : j \in 1 .. 3
  OBVIOUS
<1> QED
  BY <1>1, <1>4, <1>6, <1>7, <1>8

LEMMA QuestionWritten ==
  ASSUME NEW m \in Records, NEW name \in {"name", "root", "bad"}
  PROVE  /\ Question(m, name) \in Records /\ Question(m, name).ptype = m.ptype
         /\ Question(m, name).at[1] = m.at[1]
         /\ Question(m, name).at[3] =
              IF name = "bad" THEN m.at[3] ELSE IF name = "root" THEN 0 ELSE NAME
<1>1. CASE name = "bad"
  BY <1>1 DEF Question
<1>2. CASE name /= "bad"
  <2>1. PICK x \in Octets : x = IF name = "root" THEN 0 ELSE NAME
    BY DEF NAME, Octets
  <2>2. Question(m, name) = Put(m, 3, x)
    BY <1>2, <2>1 DEF Question, Put
  <2>3. /\ Put(m, 3, x) \in Records /\ Put(m, 3, x).ptype = m.ptype
        /\ Put(m, 3, x).at[3] = x /\ Put(m, 3, x).at[1] = m.at[1]
    BY ByteWritten
  <2> QED
    BY <1>2, <2>1, <2>2, <2>3
<1> QED
  BY <1>1, <1>2

LEMMA FlagTold ==
  ASSUME NEW w \in Wires, NEW q \in {QUERY, RESPONSE}, NEW v, v = [w EXCEPT !.qr = q]
  PROVE  /\ v \in Wires /\ v.protocol = w.protocol /\ v.tags = w.tags
         /\ v.direction = w.direction /\ v.qr = q /\ v.name = w.name /\ v.entered = w.entered
<1>1. /\ v.protocol = w.protocol /\ v.tags = w.tags
      /\ v.direction = w.direction /\ v.qr = q /\ v.name = w.name /\ v.entered = w.entered
  BY DEF Wires
<1>2. v \in Wires
  BY DEF Wires
<1> QED
  BY <1>1, <1>2

LEMMA NameTold ==
  ASSUME NEW w \in Wires, NEW x \in {0, NAME}, NEW v, v = [w EXCEPT !.name = x]
  PROVE  /\ v \in Wires /\ v.protocol = w.protocol /\ v.tags = w.tags
         /\ v.direction = w.direction /\ v.qr = w.qr /\ v.name = x /\ v.entered = w.entered
<1>1. /\ v.protocol = w.protocol /\ v.tags = w.tags
      /\ v.direction = w.direction /\ v.qr = w.qr /\ v.name = x /\ v.entered = w.entered
  BY DEF Wires
<1>2. v \in Wires
  BY DEF Wires
<1> QED
  BY <1>1, <1>2

LEMMA EntryTold ==
  ASSUME NEW w \in Wires, NEW e \in SUBSET Octets, NEW v, v = [w EXCEPT !.entered = e]
  PROVE  /\ v \in Wires /\ v.protocol = w.protocol /\ v.tags = w.tags
         /\ v.direction = w.direction /\ v.qr = w.qr /\ v.name = w.name /\ v.entered = e
<1>1. /\ v.protocol = w.protocol /\ v.tags = w.tags
      /\ v.direction = w.direction /\ v.qr = w.qr /\ v.name = w.name /\ v.entered = e
  BY DEF Wires
<1>2. v \in Wires
  BY DEF Wires, Octets
<1> QED
  BY <1>1, <1>2

\* A DNS packet whose header is not read: from upstream it passes for a response, and
\* from downstream it stays a UDP packet, its record whole.
LEMMA ShortDNSParsed ==
  ASSUME ClassifyInv, ParseShortDNS
  PROVE  ClassifyInv'
<1>1. /\ phase = "dns" /\ phase' = "route" /\ vlan_id' = vlan_id /\ wire' = wire /\ out' = out
      /\ msgObj \in Records /\ msgObj.ptype = UDP /\ msgObj' = DnsByFlag(msgObj)
      /\ msgObj.at[1] \in {UP, DOWN} /\ msgObj.at[1] = wire.direction /\ wire.qr = 3
      /\ msgObj.at[2] = vlan_id % 256 /\ msgObj.at[3] = vlan_id \div 256
  BY DEF ParseShortDNS, ClassifyInv, ClassifyTypeOK, Handed, NotYet
<1>2. PICK n : n = DnsByFlag(msgObj)
  OBVIOUS
<1>3. /\ n \in Records /\ n.at = msgObj.at
      /\ IF msgObj.at[1] \in {QUERY, RESPONSE} THEN n.ptype = DNS ELSE n.ptype = UDP
  BY <1>1, <1>2, KindByFlag
<1>4. UdpVlan(msgObj) = vlan_id /\ (vlan_id < 256 => msgObj.at[3] = 0)
  BY <1>1, Bytes DEF UdpVlan, ClassifyInv
<1>5. Parsed'
  BY <1>1, <1>2, <1>3, <1>4
     DEF Parsed, UdpVlan, UP, DOWN, QUERY, RESPONSE, TCP, UDP, DNS, RADIUS
<1>6. Handed' /\ msgObj' \in Records
  BY <1>1, <1>2, <1>3 DEF Handed
<1> QED
  BY <1>1, <1>5, <1>6, FrameKept DEF ClassifyInv, EnteredAsAsked

\* A DNS packet whose header is read is DNS; its record has no name but the one asked for,
\* or what the high byte of the VLAN id left in the name's place.
LEMMA HeaderRead ==
  ASSUME ClassifyInv, phase = "dns", phase' = "route", vlan_id' = vlan_id, out' = out,
         NEW m \in Records, m.ptype = UDP, m.at[1] \in {QUERY, RESPONSE},
         vlan_id < 256 => m.at[3] \in {0, wire'.name},
         msgObj' = DnsByFlag(m),
         wire' \in Wires, wire'.tags = wire.tags, wire'.qr = m.at[1],
         wire'.entered \subseteq {wire'.name} \ {0}
  PROVE  ClassifyInv'
<1>1. PICK n : n = DnsByFlag(m)
  OBVIOUS
<1>2. n \in Records /\ n.at = m.at /\ n.ptype = DNS
  BY <1>1, KindByFlag
<1>3. Parsed' /\ Handed' /\ msgObj' \in Records
  BY <1>1, <1>2 DEF Parsed, Handed, TCP, UDP, DNS, RADIUS
<1> QED
  BY <1>3, FrameKept

LEMMA QueryParsed ==
  ASSUME ClassifyInv, ParseDNSQuery
  PROVE  ClassifyInv'
<1>1. /\ phase = "dns" /\ phase' = "route" /\ vlan_id' = vlan_id /\ out' = out
      /\ msgObj \in Records /\ msgObj.ptype = UDP /\ msgObj.at[3] = vlan_id \div 256
      /\ wire \in Wires /\ wire.entered = {}
  BY DEF ParseDNSQuery, ClassifyInv, ClassifyTypeOK, Handed, NotYet
<1>2. PICK one \in BOOLEAN, name \in {"name", "root", "bad"} :
        LET headed == [msgObj EXCEPT !.at[1] = QUERY]
            asked  == IF one THEN Question(headed, name) ELSE headed
        IN /\ msgObj' = DnsByFlag(asked)
           /\ wire' = [wire EXCEPT !.qr = QUERY, !.name = IF name = "name" THEN NAME ELSE 0]
  BY Zenon DEF ParseDNSQuery
<1>3. PICK h \in Records :
        /\ h = Put(msgObj, 1, QUERY) /\ h.ptype = UDP /\ h.at[1] = QUERY
        /\ h.at[3] = msgObj.at[3]
  <2>1. QUERY \in Octets
    BY DEF QUERY, Octets
  <2> QED
    BY <1>1, <2>1, ByteWritten
<1>4. PICK q : q = Question(h, name)
  OBVIOUS
<1>5. /\ q \in Records /\ q.ptype = UDP /\ q.at[1] = QUERY
      /\ q.at[3] = IF name = "bad" THEN h.at[3] ELSE IF name = "root" THEN 0 ELSE NAME
  BY <1>3, <1>4, QuestionWritten
<1>6. PICK m \in {h, q} : m = IF one THEN q ELSE h
  OBVIOUS
<1>7. msgObj' = DnsByFlag(m)
  BY <1>2, <1>3, <1>4, <1>6 DEF Put
<1>8. PICK x \in {0, NAME} : x = IF name = "name" THEN NAME ELSE 0
  OBVIOUS
<1>9. PICK u : u = [wire EXCEPT !.qr = QUERY]
  OBVIOUS
<1>10. u \in Wires /\ u.tags = wire.tags /\ u.qr = QUERY /\ u.entered = {}
  BY <1>1, <1>9, FlagTold
<1>11. PICK v : v = [u EXCEPT !.name = x]
  OBVIOUS
<1>12. v \in Wires /\ v.tags = wire.tags /\ v.qr = QUERY /\ v.name = x /\ v.entered = {}
  BY <1>10, <1>11, NameTold
<1>13. wire' = v
  BY <1>2, <1>8, <1>9, <1>11
<1>14. m \in Records /\ m.ptype = UDP /\ m.at[1] = QUERY
  BY <1>3, <1>5, <1>6
<1>15. vlan_id < 256 => m.at[3] \in {0, x}
  <2>1. vlan_id < 256 => h.at[3] = 0
    BY <1>1, <1>3, Bytes DEF ClassifyInv
  <2> QED
    BY <1>5, <1>6, <1>8, <2>1
<1> QED
  BY <1>1, <1>7, <1>12, <1>13, <1>14, <1>15, HeaderRead

LEMMA ResponseParsed ==
  ASSUME ClassifyInv, ParseDNSResponse
  PROVE  ClassifyInv'
<1>1. /\ phase = "dns" /\ phase' = "route" /\ vlan_id' = vlan_id /\ out' = out
      /\ msgObj \in Records /\ msgObj.ptype = UDP /\ msgObj.at[3] = vlan_id \div 256
      /\ wire \in Wires
  BY DEF ParseDNSResponse, ClassifyInv, ClassifyTypeOK, Handed
<1>2. PICK rcode \in {0, 3}, answered \in BOOLEAN, name \in {"name", "root", "bad"},
           any \in BOOLEAN, address \in BOOLEAN :
        LET headed == [msgObj EXCEPT !.at[1] = RESPONSE, !.at[2] = rcode]
            parsed == rcode = 0 /\ answered
            asked  == IF parsed THEN Question(headed, name) ELSE headed
        IN /\ msgObj' = DnsByFlag(asked)
           /\ wire' = [wire EXCEPT
                !.qr = RESPONSE, !.name = IF name = "name" THEN NAME ELSE 0,
                !.entered =
                  IF parsed /\ QuestionRead(name, any) THEN Entered(asked, address) ELSE {}]
  BY Zenon DEF ParseDNSResponse
<1>3. PICK g \in Records :
        /\ g = Put(msgObj, 1, RESPONSE) /\ g.ptype = UDP /\ g.at[1] = RESPONSE
        /\ g.at[3] = msgObj.at[3]
  <2>1. RESPONSE \in Octets
    BY DEF RESPONSE, Octets
  <2> QED
    BY <1>1, <2>1, ByteWritten
<1>4. PICK h \in Records :
        /\ h = Put(g, 2, rcode) /\ h.ptype = UDP /\ h.at[1] = RESPONSE
        /\ h.at[3] = msgObj.at[3]
  <2>1. rcode \in Octets
    BY DEF Octets
  <2> QED
    BY <1>3, <2>1, ByteWritten
<1>5. PICK q : q = Question(h, name)
  OBVIOUS
<1>6. /\ q \in Records /\ q.ptype = UDP /\ q.at[1] = RESPONSE
      /\ q.at[3] = IF name = "bad" THEN h.at[3] ELSE IF name = "root" THEN 0 ELSE NAME
  BY <1>4, <1>5, QuestionWritten
<1>7. PICK m \in {h, q} : m = IF rcode = 0 /\ answered THEN q ELSE h
  OBVIOUS
<1>8. msgObj' = DnsByFlag(m)
  BY <1>2, <1>3, <1>4, <1>5, <1>7 DEF Put
<1>9. PICK x \in {0, NAME} : x = IF name = "name" THEN NAME ELSE 0
  OBVIOUS
<1>10. PICK d : d = IF rcode = 0 /\ answered /\ QuestionRead(name, any)
                      THEN Entered(m, address) ELSE {}
  OBVIOUS
<1>11. PICK e \in SUBSET Octets : e = d /\ e \subseteq {x} \ {0}
  <2>1. CASE rcode = 0 /\ answered /\ name /= "bad"
    <3>1. m = q /\ q.at[3] = x
      BY <1>6, <1>7, <1>9, <2>1
    <3>2. d \subseteq {x} \ {0}
      BY <1>10, <3>1 DEF Entered
    <3> QED
      BY <1>9, <3>2 DEF NAME, Octets
  <2>2. CASE ~(rcode = 0 /\ answered /\ name /= "bad")
    BY <1>10, <2>2 DEF QuestionRead
  <2> QED
    BY <2>1, <2>2
<1>12. PICK u : u = [wire EXCEPT !.qr = RESPONSE]
  OBVIOUS
<1>13. u \in Wires /\ u.tags = wire.tags /\ u.qr = RESPONSE
  BY <1>1, <1>12, FlagTold
<1>14. PICK t : t = [u EXCEPT !.name = x]
  OBVIOUS
<1>15. t \in Wires /\ t.tags = wire.tags /\ t.qr = RESPONSE /\ t.name = x
  BY <1>13, <1>14, NameTold
<1>16. PICK v : v = [t EXCEPT !.entered = e]
  OBVIOUS
<1>17. v \in Wires /\ v.tags = wire.tags /\ v.qr = RESPONSE /\ v.name = x /\ v.entered = e
  <2>1. t \in Wires /\ e \in SUBSET Octets /\ v = [t EXCEPT !.entered = e]
    BY <1>15, <1>16
  <2>2. /\ v \in Wires /\ v.tags = t.tags /\ v.qr = t.qr /\ v.name = t.name
        /\ v.entered = e
    BY <2>1, EntryTold
  <2> QED
    BY <1>15, <2>2
<1>18. wire' = v
  <2>1. e = IF (rcode = 0 /\ answered) /\ QuestionRead(name, any)
              THEN Entered(IF rcode = 0 /\ answered THEN q ELSE h, address) ELSE {}
    BY <1>7, <1>10, <1>11
  <2>2. h = [msgObj EXCEPT !.at[1] = RESPONSE, !.at[2] = rcode]
    BY <1>3, <1>4 DEF Put
  <2> QED
    BY <1>2, <1>5, <1>9, <1>12, <1>14, <1>16, <2>1, <2>2
<1>19. m \in Records /\ m.ptype = UDP /\ m.at[1] = RESPONSE
  BY <1>4, <1>6, <1>7
<1>20. vlan_id < 256 => m.at[3] \in {0, x}
  <2>1. vlan_id < 256 => h.at[3] = 0
    BY <1>1, <1>4, Bytes DEF ClassifyInv
  <2> QED
    BY <1>6, <1>7, <1>9, <2>1
<1> QED
  BY <1>1, <1>8, <1>11, <1>17, <1>18, <1>19, <1>20, HeaderRead

\* A RADIUS record keeps its direction.
LEMMA AAAParsed ==
  ASSUME ClassifyInv, ParseAAA
  PROVE  ClassifyInv'
<1>1. /\ phase = "aaa" /\ phase' = "route" /\ vlan_id' = vlan_id /\ wire' = wire /\ out' = out
      /\ msgObj \in Records /\ msgObj.ptype = RADIUS /\ msgObj.at[1] = DOWN
  BY DEF ParseAAA, ClassifyInv, ClassifyTypeOK, Handed
<1>2. PICK authentic \in BOOLEAN, user \in BOOLEAN, framed \in BOOLEAN, wrong \in BOOLEAN,
           accountingRequest \in BOOLEAN :
        msgObj' =
          IF ~authentic THEN [msgObj EXCEPT !.processOutOfRange = FALSE]
          ELSE [msgObj EXCEPT
                  !.at[2] = IF user THEN NAME ELSE msgObj.at[2],
                  !.processOutOfRange =
                    msgObj.processOutOfRange /\ ~(wrong /\ ~framed /\ accountingRequest)]
  BY Zenon DEF ParseAAA
<1>3. PICK m \in Records : m = msgObj /\ m.ptype = RADIUS /\ m.at[1] = DOWN
  BY <1>1
<1>4. msgObj' \in Records /\ msgObj'.ptype = RADIUS /\ msgObj'.at[1] = DOWN
  <2>1. CASE ~authentic
    <3>1. PICK n : n = [m EXCEPT !.processOutOfRange = FALSE]
      OBVIOUS
    <3>2. Alike(n, m)
      BY <3>1, RangeWritten
    <3>3. msgObj' = n
      BY <1>2, <1>3, <2>1, <3>1
    <3> QED
      BY <1>3, <3>2, <3>3 DEF Alike
  <2>2. CASE authentic
    <3>1. PICK x \in Octets : x = IF user THEN NAME ELSE m.at[2]
      <4>1. m.at[2] \in Octets
        BY <1>3, Bytes DEF Octets, ClassifyInv
      <4>2. NAME \in Octets
        BY DEF NAME, Octets
      <4> QED
        BY <4>1, <4>2
    <3>2. PICK k \in Records :
            k = Put(m, 2, x) /\ k.ptype = RADIUS /\ k.at[1] = DOWN
      BY <1>3, ByteWritten
    <3>3. PICK s \in BOOLEAN :
            s = (m.processOutOfRange /\ ~(wrong /\ ~framed /\ accountingRequest))
      OBVIOUS
    <3>4. PICK n : n = [k EXCEPT !.processOutOfRange = s]
      OBVIOUS
    <3>5. Alike(n, k)
      BY <3>4, RangeWritten
    <3>6. msgObj' = n
      BY <1>2, <1>3, <2>2, <3>1, <3>2, <3>3, <3>4 DEF Put
    <3> QED
      BY <3>2, <3>5, <3>6 DEF Alike
  <2> QED
    BY <2>1, <2>2
<1>5. Handed' /\ Parsed'
  BY <1>1, <1>4 DEF Handed, Parsed, TCP, UDP, DNS, RADIUS
<1> QED
  BY <1>1, <1>4, <1>5, FrameKept DEF ClassifyInv, NotYet, EnteredAsAsked

\* A packet's volume is counted once, and is the CDN's or a peer's or neither's.
LEMMA CountedApart ==
  ASSUME NEW d, NEW ends, NEW version4, NEW switches, NEW v,
         v = Volumes(d, ends, version4, switches)
  PROVE  /\ v.bw = <<CountedAs(d)>>
         /\ v.cdn \in {<<>>, v.bw} /\ v.peering \in {<<>>, v.bw}
         /\ v.cdn = <<>> \/ v.peering = <<>>
<1>1. PICK flag \in BOOLEAN, peer \in BOOLEAN :
        /\ v = [bw |-> <<CountedAs(d)>>,
                cdn |-> IF flag THEN <<CountedAs(d)>> ELSE <<>>,
                peering |-> IF peer THEN <<CountedAs(d)>> ELSE <<>>]
        /\ ~flag \/ ~peer
  <2> DEFINE flag == /\ switches.PROCESS_CDN /\ version4
                     /\ \E i \in DOMAIN ends : ends[i] \in CDN
             peer == /\ switches.PROCESS_PEERING /\ ~flag
                     /\ \E i \in DOMAIN ends : CheckPeering(ends[i], switches.enabled)
  <2>1. v = [bw |-> <<CountedAs(d)>>,
             cdn |-> IF flag THEN <<CountedAs(d)>> ELSE <<>>,
             peering |-> IF peer THEN <<CountedAs(d)>> ELSE <<>>]
    BY DEF Volumes
  <2>2. flag \in BOOLEAN /\ peer \in BOOLEAN /\ (~flag \/ ~peer)
    OBVIOUS
  <2> HIDE DEF flag, peer
  <2> QED
    BY <2>1, <2>2
<1> QED
  BY <1>1

\* The router is done with the packet: what it pushed is of the record's kind, what it
\* counted is the record's.
LEMMA RoutedAsKind ==
  ASSUME ClassifyInv, phase = "route", phase' = "frame",
         UNCHANGED <<vlan_id, msgObj, wire>>,
         out'.pushed \in {"none", "TCP", "UDP", "DNS", "AAA"},
         out'.record \in Records, out'.pushed /= "none" => out'.record = msgObj,
         out'.pushed = "TCP" => msgObj.ptype = TCP,
         out'.pushed = "UDP" => msgObj.ptype = UDP,
         out'.pushed = "DNS" => msgObj.ptype = DNS,
         CountedOnce'
  PROVE  ClassifyInv'
<1>1. ClassifyTypeOK' /\ wire' \in Wires
  BY DEF ClassifyInv, ClassifyTypeOK
<1>2. VlanTold' /\ NotYet' /\ Handed' /\ Parsed' /\ EnteredAsAsked'
  BY DEF ClassifyInv, VlanTold, NotYet, Handed, Parsed, EnteredAsAsked
<1>3. PushedAsKind'
  BY DEF PushedAsKind
<1> QED
  BY <1>1, <1>2, <1>3 DEF ClassifyInv

LEMMA TCPRouted ==
  ASSUME ClassifyInv, RouteTCP
  PROVE  ClassifyInv'
<1>1. /\ phase = "route" /\ phase' = "frame" /\ UNCHANGED <<vlan_id, msgObj, wire>>
      /\ msgObj.ptype = TCP /\ msgObj \in Records
  BY DEF RouteTCP, ClassifyInv, ClassifyTypeOK
<1>2. PICK v :
        /\ \E p \in {"TCP", "none"} :
             out' = [pushed |-> p, record |-> msgObj,
                     bw |-> v.bw, cdn |-> v.cdn, peering |-> v.peering]
        /\ v.bw = <<CountedAs(msgObj.at[2])>>
        /\ v.cdn \in {<<>>, v.bw} /\ v.peering \in {<<>>, v.bw}
        /\ v.cdn = <<>> \/ v.peering = <<>>
  <2>1. PICK src \in ADDRESSES, dst \in ADDRESSES, version4 \in BOOLEAN, switches \in Switches :
          LET told == msgObj.at[2]
              v == Volumes(told, Ends(told, src, dst), version4, switches)
              stopped == \/ msgObj.dropPacket \/ switches.TCP_BLOCK_PACKET
                         \/ told = UNKNOWN /\ ~switches.PROCESS_OUT_OF_RANGE_IP
                         \/ msgObj.tcpFlags = "ACK_RCV" /\ msgObj.small
          IN out' = [pushed |-> IF switches.PUSH_TO_QUEUE /\ ~stopped THEN "TCP" ELSE "none",
                     record |-> msgObj, bw |-> v.bw, cdn |-> v.cdn, peering |-> v.peering]
    BY Zenon DEF RouteTCP
  <2>2. PICK v : v = Volumes(msgObj.at[2], Ends(msgObj.at[2], src, dst), version4, switches)
    OBVIOUS
  <2>3. PICK p \in {"TCP", "none"} :
          out' = [pushed |-> p, record |-> msgObj, bw |-> v.bw, cdn |-> v.cdn,
                  peering |-> v.peering]
    BY <2>1, <2>2
  <2> QED
    BY <2>2, <2>3, CountedApart
<1>3. PICK p \in {"TCP", "none"} :
        /\ out'.pushed = p /\ out'.record = msgObj
        /\ out'.bw = v.bw /\ out'.cdn = v.cdn /\ out'.peering = v.peering
  BY <1>2
<1>4. v.bw /= <<>>
  BY <1>2
<1>5. PICK o : o = out' /\ o.bw = v.bw /\ o.cdn = v.cdn /\ o.peering = v.peering
  BY <1>3
<1>6. v.bw = CASE msgObj.ptype = TCP    -> <<CountedAs(msgObj.at[2])>>
               [] msgObj.ptype = UDP    -> <<CountedAs(msgObj.at[1])>>
               [] msgObj.ptype = RADIUS -> <<DOWN>>
               [] OTHER                 -> <<>>
  BY <1>1, <1>2 DEF TCP, UDP, RADIUS
<1>7. /\ o.cdn \in {<<>>, o.bw} /\ o.peering \in {<<>>, o.bw}
      /\ o.cdn = <<>> \/ o.peering = <<>>
      /\ o.bw /= <<>>
  BY <1>2, <1>4, <1>5
<1>8. CountedOnce'
  BY <1>1, <1>5, <1>6, <1>7 DEF CountedOnce
<1> QED
  BY <1>1, <1>3, <1>8, RoutedAsKind

LEMMA UDPRouted ==
  ASSUME ClassifyInv, RouteUDP
  PROVE  ClassifyInv'
<1>1. /\ phase = "route" /\ phase' = "frame" /\ UNCHANGED <<vlan_id, msgObj, wire>>
      /\ msgObj.ptype = UDP /\ msgObj \in Records
  BY DEF RouteUDP, ClassifyInv, ClassifyTypeOK
<1>2. PICK v :
        /\ \E p \in {"UDP", "none"} :
             out' = [pushed |-> p, record |-> msgObj,
                     bw |-> v.bw, cdn |-> v.cdn, peering |-> v.peering]
        /\ v.bw = <<CountedAs(msgObj.at[1])>>
        /\ v.cdn \in {<<>>, v.bw} /\ v.peering \in {<<>>, v.bw}
        /\ v.cdn = <<>> \/ v.peering = <<>>
  <2>1. PICK src \in ADDRESSES, dst \in ADDRESSES, version4 \in BOOLEAN, switches \in Switches :
          LET told == msgObj.at[1]
              v == Volumes(told, Ends(told, src, dst), version4, switches)
              stopped == \/ msgObj.dropPacket
                         \/ told = UNKNOWN /\ ~switches.PROCESS_OUT_OF_RANGE_IP
                         \/ told = UP /\ msgObj.small
          IN out' = [pushed |-> IF switches.PUSH_TO_QUEUE /\ ~stopped THEN "UDP" ELSE "none",
                     record |-> msgObj, bw |-> v.bw, cdn |-> v.cdn, peering |-> v.peering]
    BY Zenon DEF RouteUDP
  <2>2. PICK v : v = Volumes(msgObj.at[1], Ends(msgObj.at[1], src, dst), version4, switches)
    OBVIOUS
  <2>3. PICK p \in {"UDP", "none"} :
          out' = [pushed |-> p, record |-> msgObj, bw |-> v.bw, cdn |-> v.cdn,
                  peering |-> v.peering]
    BY <2>1, <2>2
  <2> QED
    BY <2>2, <2>3, CountedApart
<1>3. PICK p \in {"UDP", "none"} :
        /\ out'.pushed = p /\ out'.record = msgObj
        /\ out'.bw = v.bw /\ out'.cdn = v.cdn /\ out'.peering = v.peering
  BY <1>2
<1>4. v.bw /= <<>>
  BY <1>2
<1>5. PICK o : o = out' /\ o.bw = v.bw /\ o.cdn = v.cdn /\ o.peering = v.peering
  BY <1>3
<1>6. v.bw = CASE msgObj.ptype = TCP    -> <<CountedAs(msgObj.at[2])>>
               [] msgObj.ptype = UDP    -> <<CountedAs(msgObj.at[1])>>
               [] msgObj.ptype = RADIUS -> <<DOWN>>
               [] OTHER                 -> <<>>
  BY <1>1, <1>2 DEF TCP, UDP, RADIUS
<1>7. /\ o.cdn \in {<<>>, o.bw} /\ o.peering \in {<<>>, o.bw}
      /\ o.cdn = <<>> \/ o.peering = <<>>
      /\ o.bw /= <<>>
  BY <1>2, <1>4, <1>5
<1>8. CountedOnce'
  BY <1>1, <1>5, <1>6, <1>7 DEF CountedOnce
<1> QED
  BY <1>1, <1>3, <1>8, RoutedAsKind

\* DNS is counted nowhere, RADIUS in its direction, DOWN if it came as UDP.
LEMMA DNSRouted ==
  ASSUME ClassifyInv, RouteDNS
  PROVE  ClassifyInv'
<1>1. /\ phase = "route" /\ phase' = "frame" /\ UNCHANGED <<vlan_id, msgObj, wire>>
      /\ msgObj.ptype = DNS /\ msgObj \in Records
  BY DEF RouteDNS, ClassifyInv, ClassifyTypeOK
<1>2. PICK p \in {"DNS", "none"} :
        out' = [pushed |-> p, record |-> msgObj, bw |-> <<>>, cdn |-> <<>>, peering |-> <<>>]
  BY DEF RouteDNS, Silence
<1>3. CountedOnce'
  BY <1>1, <1>2 DEF CountedOnce, Routed, TCP, UDP, DNS, RADIUS
<1> QED
  BY <1>1, <1>2, <1>3, RoutedAsKind

LEMMA AAARouted ==
  ASSUME ClassifyInv, RouteAAA
  PROVE  ClassifyInv'
<1>1. /\ phase = "route" /\ phase' = "frame" /\ UNCHANGED <<vlan_id, msgObj, wire>>
      /\ msgObj.ptype = RADIUS /\ msgObj \in Records
      /\ wire.protocol = RADIUS \/ msgObj.at[1] = DOWN
  BY DEF RouteAAA, ClassifyInv, ClassifyTypeOK, Parsed
<1>2. PICK p \in {"AAA", "none"} :
        out' = [pushed |-> p, record |-> msgObj, bw |-> <<msgObj.at[1]>>, cdn |-> <<>>,
                peering |-> <<>>]
  BY DEF RouteAAA, Silence
<1>3. CountedOnce'
  BY <1>1, <1>2 DEF CountedOnce, Routed, TCP, UDP, RADIUS
<1> QED
  BY <1>1, <1>2, <1>3, RoutedAsKind

\* Of the rest the router only notes that it was there.
LEMMA OtherRouted ==
  ASSUME ClassifyInv, RouteOther
  PROVE  ClassifyInv'
<1>1. /\ phase = "route" /\ phase' = "frame" /\ UNCHANGED <<vlan_id, msgObj, wire, out>>
      /\ msgObj.ptype \notin {TCP, UDP, DNS, RADIUS}
  BY DEF RouteOther
<1>2. out' = Silence /\ out.record \in Records
  BY <1>1 DEF ClassifyInv, ClassifyTypeOK, NotYet
<1>3. CountedOnce'
  BY <1>1, <1>2 DEF CountedOnce, Routed, Silence
<1> QED
  BY <1>1, <1>2, <1>3, RoutedAsKind DEF Silence

LEMMA ClassifyStep == ClassifyInv /\ [ClassifyNext]_classifyVars => ClassifyInv'
<1> SUFFICES ASSUME ClassifyInv, [ClassifyNext]_classifyVars PROVE ClassifyInv'
  OBVIOUS
<1>1. CASE UNCHANGED classifyVars
  BY <1>1 DEF classifyVars, ClassifyInv, ClassifyTypeOK, VlanTold, NotYet, Handed, Parsed,
              PushedAsKind, EnteredAsAsked, CountedOnce, Routed
<1>2. CASE DecodeFrame \/ DecodeIPv4
  BY <1>2, FrameDecoded, IPv4Decoded
<1>3. CASE Parse
  BY <1>3, TCPParsed, UDPParsed, ShortDNSParsed, QueryParsed, ResponseParsed, AAAParsed DEF Parse
<1>4. CASE Route
  BY <1>4, TCPRouted, UDPRouted, DNSRouted, AAARouted, OtherRouted DEF Route
<1> QED
  BY <1>1, <1>2, <1>3, <1>4 DEF ClassifyNext

\* The inductive invariant of a router's packets.
THEOREM ClassifyInvariant == ClassifySpec => []ClassifyInv
<1> QED
  BY InitClassify, ClassifyStep, PTL DEF ClassifySpec

\* A record of a tagged frame has the frame's innermost VLAN id, for any ids and number
\* of tags, and although DNS and UDP share the bytes it is in.
THEOREM VlanOfFrameCorrect == ClassifySpec => []VlanOfFrame
<1>1. ClassifyInv => VlanOfFrame
  <2> SUFFICES ASSUME ClassifyInv, wire.tags /= <<>>
               PROVE  /\ out.pushed = "TCP" => out.record.tcpVlan = Last(wire.tags)
                      /\ out.pushed = "UDP" => UdpVlan(out.record) = Last(wire.tags)
    BY DEF VlanOfFrame
  <2>1. CASE phase = "frame"
    BY <2>1 DEF ClassifyInv, VlanTold, Parsed, PushedAsKind
  <2>2. CASE phase /= "frame"
    BY <2>2 DEF ClassifyInv, NotYet, Silence
  <2> QED
    BY <2>1, <2>2
<1> QED
  BY <1>1, ClassifyInvariant, PTL

\* A DNS record's flag is the packet's own, or that of no header; but for an upstream
\* packet whose header was not read.
THEOREM QrFlagFromHeaderCorrect == ClassifySpec => []QrFlagFromHeader
<1>1. ClassifyInv => QrFlagFromHeader
  BY DEF ClassifyInv, QrFlagFromHeader, NotYet, Silence, Parsed, PushedAsKind
<1> QED
  BY <1>1, ClassifyInvariant, PTL

\* No address is entered, and no DNS record pushed, under a name that its packet did not
\* ask for, but for what a VLAN id above 255 leaves in the name's place.
THEOREM NameFromQuestionCorrect == ClassifySpec => []NameFromQuestion
<1>1. ClassifyInv => NameFromQuestion
  BY DEF ClassifyInv, NameFromQuestion, NotYet, Silence, Parsed, PushedAsKind, EnteredAsAsked
<1> QED
  BY <1>1, ClassifyInvariant, PTL

\* A TCP or UDP packet is counted once, pushed or not, for any addresses, ranges and
\* switches, and however LOAD sets them between two looks.
THEOREM CountedOnceCorrect == ClassifySpec => []CountedOnce
<1>1. ClassifyInv => CountedOnce
  BY DEF ClassifyInv
<1> QED
  BY <1>1, ClassifyInvariant, PTL

=============================================================================
