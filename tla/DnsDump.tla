------------------------------ MODULE DnsDump -------------------------------
(***************************************************************************)
(* The map of resolved addresses, and the file main writes of it.          *)
(*                                                                         *)
(* Routers enter addresses in DNSGlobal::dnsLookUpMap under the lock of    *)
(* DnsLock.  Every DNS_DUMP_TIME minutes main walks the ten maps WITHOUT   *)
(* the lock, writes dnsIpv4data.csv.in, and renames it to dnsIpv4data.csv  *)
(* (ProbeUtility::dnsDumpIpv4Data).                                        *)
(*                                                                         *)
(* A std::map that is read while a node is linked into it has no defined   *)
(* behaviour: the walk then goes on with any address of the map, or takes  *)
(* it to be at its end; a name read while it is assigned comes out as it   *)
(* was, as it will be, or as neither.  (It may also bring the program      *)
(* down.  What a crash leaves behind is the files as they are in that      *)
(* state, so what holds of them in every state holds after a crash.)       *)
(*                                                                         *)
(* A name is only known as one that an answer gave; rows are a set.        *)
(***************************************************************************)
EXTENDS DnsLock

CONSTANTS
  IPS,            \* addresses that answers resolve to, numbers above 0
  BUCKETS,        \* the maps of dnsLookUpMap: 10 in the program
  DNS_ANSWER,     \* IPGlobal::DNS_ANSWER: answers read of a packet
  DNS_DUMP_TIME   \* IPGlobal::DNS_DUMP_TIME, minutes

ASSUME DnsDumpAssumption ==
  /\ IPS \subseteq Nat \ {0}
  /\ BUCKETS \in Nat \ {0} /\ DNS_ANSWER \in Nat /\ DNS_DUMP_TIME \in Nat \ {0}

VARIABLES
  dnsLookUpMap,   \* for each address: absent, empty (its node is there), named
  entry,          \* the address a router enters, and how far it is with it
  answers,        \* answers of its packet a router has read
  \* main: its pc and locals of start and dnsDumpIpv4Data
  mpc, newMinute, dnsDumpLoop, bucket, elem, failed,
  csvIn, csv,     \* the rows of the two files
  \* history: the addresses the walk under way cannot miss or garble
  owed

mapVars  == <<dnsLookUpMap, entry, answers>>
mainVars == <<mpc, newMinute, dnsDumpLoop, bucket, elem, failed, csvIn, csv>>
dumpVars == <<vars, mapVars, mainVars, owed>>

NoEntry == [ip |-> 0, step |-> "none"]
Rows    == [IPS -> {"absent", "named", "broken"}]
NoRows  == [ip \in IPS |-> "absent"]

DumpTypeOK ==
  /\ TypeOK
  /\ dnsLookUpMap \in [IPS -> {"absent", "empty", "named"}]
  /\ entry \in [ROUTERS -> {NoEntry} \cup [ip : IPS, step : {"link", "assign"}]]
  /\ answers \in [ROUTERS -> 0 .. DNS_ANSWER]
  /\ mpc \in {"loop", "open", "walk", "rename"}
  /\ newMinute \in BOOLEAN /\ failed \in BOOLEAN
  /\ dnsDumpLoop \in 0 .. DNS_DUMP_TIME - 1
  /\ bucket \in 0 .. BUCKETS - 1 /\ elem \in IPS \cup {0}
  /\ csvIn \in Rows /\ csv \in Rows
  /\ owed \subseteq IPS

\* A program that ended during a dump has left a part of one in the .in file.
DumpInit ==
  /\ Init
  /\ dnsLookUpMap = [ip \in IPS |-> "absent"]
  /\ entry = [r \in ROUTERS |-> NoEntry] /\ answers = [r \in ROUTERS |-> 0]
  /\ mpc = "loop" /\ newMinute = FALSE /\ dnsDumpLoop = 0
  /\ bucket = 0 /\ elem = 0 /\ failed = FALSE
  /\ csvIn \in {NoRows} \cup {[NoRows EXCEPT ![ip] = "broken"] : ip \in IPS}
  /\ csv = NoRows
  /\ owed = {}

Bucket(ip) == ip % BUCKETS

Doing(step) == {ip \in IPS : \E r \in ROUTERS : entry[r] = [ip |-> ip, step |-> step]}

-----------------------------------------------------------------------------
(* The routers: DnsLock, with what is done between lock and unlock.         *)

\* An address whose node is linked into the map being walked: the walk may
\* miss any of that map's.  An address that is assigned: its row may be broken.
Unsafe(ip, step) ==
  IF step = "assign" THEN {ip}
  ELSE IF mpc = "walk" /\ Bucket(ip) = bucket THEN {j \in IPS : Bucket(j) = bucket}
  ELSE {}

\* dnsLookUpMap[resolvedip % 10][resolvedip] = url: operator[] looks for the
\* address, and starts to link a node for it if there is none.
Resolve(r) ==
  /\ pc[r] = "parse" /\ entry[r] = NoEntry /\ answers[r] < DNS_ANSWER
  /\ \E ip \in IPS :
       LET step == IF dnsLookUpMap[ip] = "absent" THEN "link" ELSE "assign"
       IN  /\ entry' = [entry EXCEPT ![r] = [ip |-> ip, step |-> step]]
           /\ owed' = owed \ Unsafe(ip, step)
  /\ answers' = [answers EXCEPT ![r] = @ + 1]
  /\ UNCHANGED <<vars, dnsLookUpMap, mainVars>>

\* The node is there, with an empty name.
Link(r) ==
  /\ entry[r].step = "link"
  /\ dnsLookUpMap' = [dnsLookUpMap EXCEPT ![entry[r].ip] = "empty"]
  /\ entry' = [entry EXCEPT ![r].step = "assign"]
  /\ UNCHANGED <<vars, answers, mainVars, owed>>

Assign(r) ==
  /\ entry[r].step = "assign"
  /\ dnsLookUpMap' = [dnsLookUpMap EXCEPT ![entry[r].ip] = "named"]
  /\ entry' = [entry EXCEPT ![r] = NoEntry]
  /\ UNCHANGED <<vars, answers, mainVars, owed>>

\* A parse ends with no address half entered, and the next begins anew.
ParseEnds(r) ==
  /\ Parsed(r) /\ entry[r] = NoEntry
  /\ answers' = [answers EXCEPT ![r] = 0]
  /\ UNCHANGED <<dnsLookUpMap, entry, mainVars, owed>>

LockStep(r) ==
  /\ \/ Call(r) \/ WakeForNothing(r) \/ MutexToEnter(r) \/ Wait(r) \/ MutexAfterWait(r)
     \/ Pass(r) \/ Release(r)
  /\ UNCHANGED <<mapVars, mainVars, owed>>

-----------------------------------------------------------------------------
(* Main: the part of SpectaProbe::start's loop that dumps, and the dump.    *)

\* CURRENT_MIN is another than the last one main has seen.
MinuteChange ==
  /\ ~newMinute /\ newMinute' = TRUE
  /\ UNCHANGED <<vars, mapVars, mpc, dnsDumpLoop, bucket, elem, failed, csvIn, csv, owed>>

\* A minute changed during a dump is seen after it.
CountMinute ==
  /\ mpc = "loop" /\ newMinute
  /\ newMinute' = FALSE
  /\ IF dnsDumpLoop + 1 >= DNS_DUMP_TIME
     THEN dnsDumpLoop' = 0 /\ mpc' = "open"
     ELSE dnsDumpLoop' = dnsDumpLoop + 1 /\ UNCHANGED mpc
  /\ UNCHANGED <<vars, mapVars, bucket, elem, failed, csvIn, csv, owed>>

\* A file opened to be appended to.
Appended == csvIn

\* ios::out truncates what is left of an earlier dump.
Opened == NoRows

OpenFile ==
  /\ mpc = "open" /\ mpc' = "walk"
  /\ csvIn' = Opened /\ failed' = FALSE
  /\ bucket' = 0 /\ elem' = 0
  /\ owed' = {ip \in IPS : /\ dnsLookUpMap[ip] = "named" /\ ip \notin Doing("assign")
                           /\ \A j \in Doing("link") : Bucket(j) = 0 => Bucket(ip) # 0}
  /\ UNCHANGED <<vars, mapVars, newMinute, dnsDumpLoop, csv>>

\* fileHandler.fail(): it is printed, and the dump is left for the next time.
OpenFails ==
  /\ mpc = "open" /\ mpc' = "loop"
  /\ UNCHANGED <<vars, mapVars, newMinute, dnsDumpLoop, bucket, elem, failed, csvIn, csv, owed>>

Nodes(b) == {ip \in IPS : Bucket(ip) = b /\ dnsLookUpMap[ip] # "absent"}

Racing == \E ip \in Doing("link") : Bucket(ip) = bucket

\* The addresses that the iterator's ++ may come to: the next one, or any one
\* while a node is linked.
NextNodes ==
  IF Racing THEN Nodes(bucket) \cup {ip \in Doing("link") : Bucket(ip) = bucket}
  ELSE {ip \in Nodes(bucket) : ip > elem /\ \A j \in Nodes(bucket) : j > elem => ip <= j}

\* The iterator has reached end(), or may take it that it has.
AtEnd == Racing \/ \A j \in Nodes(bucket) : j <= elem

\* What is read of a name.
ReadName(ip) ==
  IF ip \in Doing("assign") THEN {"named", "broken"}
  ELSE IF dnsLookUpMap[ip] = "named" THEN {"named"} ELSE {"broken"}

\* fileHandler << elem.first << "," << elem.second << endl.  A stream that has
\* failed once writes no more, and nobody looks.
WriteRow ==
  /\ mpc = "walk"
  /\ \E ip \in NextNodes, name \in UNION {ReadName(j) : j \in NextNodes} :
       /\ name \in ReadName(ip)
       /\ elem' = ip
       /\ csvIn' = IF failed THEN csvIn ELSE [csvIn EXCEPT ![ip] = name]
  /\ UNCHANGED <<vars, mapVars, mpc, newMinute, dnsDumpLoop, bucket, failed, csv, owed>>

\* The disk is full.
WriteFails ==
  /\ mpc = "walk" /\ ~failed
  /\ failed' = TRUE
  /\ UNCHANGED <<vars, mapVars, mpc, newMinute, dnsDumpLoop, bucket, elem, csvIn, csv, owed>>

\* A loop that leaves one map out.
LastBucketEarly == bucket + 2 >= BUCKETS

\* "i < 10"
LastBucket == bucket + 1 >= BUCKETS

EndOfBucket ==
  /\ mpc = "walk"
  /\ AtEnd
  /\ elem' = 0
  /\ IF LastBucket
     THEN mpc' = "rename" /\ UNCHANGED <<bucket, owed>>
     ELSE /\ bucket' = bucket + 1
          /\ owed' = {ip \in owed : \A j \in Doing("link") :
                        Bucket(j) = bucket' => Bucket(ip) # bucket'}
          /\ UNCHANGED mpc
  /\ UNCHANGED <<vars, mapVars, newMinute, dnsDumpLoop, failed, csvIn, csv>>

\* close and rename; the log says "Completed".
Rename ==
  /\ mpc = "rename" /\ mpc' = "loop"
  /\ csv' = csvIn
  /\ UNCHANGED <<vars, mapVars, newMinute, dnsDumpLoop, bucket, elem, failed, csvIn, owed>>

-----------------------------------------------------------------------------
EntryStep(r) == Resolve(r) \/ Link(r) \/ Assign(r) \/ ParseEnds(r)

MainStep == CountMinute \/ OpenFile \/ OpenFails \/ WriteRow \/ EndOfBucket \/ Rename

DumpNext ==
  \/ \E r \in ROUTERS : LockStep(r) \/ EntryStep(r)
  \/ MinuteChange \/ MainStep \/ WriteFails

DumpSpec == DumpInit /\ [][DumpNext]_dumpVars

\* What a router does of itself, once it has a packet.
RouterProgress(r) == (LockStep(r) /\ RouterStep(r)) \/ EntryStep(r)

\* A router is scheduled, and gets the mutex that is free again and again; main
\* is scheduled, minutes pass, and the file can be opened now and again.
DumpFairness ==
  /\ \A r \in ROUTERS : SF_dumpVars(RouterProgress(r))
  /\ WF_dumpVars(MinuteChange) /\ WF_dumpVars(MainStep) /\ SF_dumpVars(OpenFile)

DumpFairSpec == DumpSpec /\ DumpFairness

-----------------------------------------------------------------------------
(* Properties.                                                              *)

\* The published file changes only from one whole dump to another: each name
\* that was in the maps before the dump began is in it, unbroken, unless its
\* name was assigned anew or an address was added to its own map while that
\* map was walked; a disk that was full at the time is the only other excuse.
PublishedWhole ==
  [][csv' # csv \/ (mpc = "rename" /\ mpc' # mpc)
       => failed \/ \A ip \in owed : csv'[ip] = "named"]_dumpVars

\* When no more addresses are entered, and the disk takes what is written, the
\* published file comes to hold each address entered and nothing else, for
\* good, whatever mixtures earlier dumps have published.
CatchesUp ==
  (/\ <>[][entry' = entry]_dumpVars
   /\ <>[](~failed))
    => <>[](\A ip \in IPS : csv[ip] = dnsLookUpMap[ip])

=============================================================================
