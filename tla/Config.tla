------------------------------- MODULE Config -------------------------------
(***************************************************************************)
(* The settings, and the two files they come from.  main reads             *)
(* client.config as the program starts (GConfig), and userip.config then   *)
(* and again every USER_IPV4_READ_FREQ_MIN minutes; the admin port's       *)
(* thread reads client.config again on LOAD (AdminPortReader), which       *)
(* takes fewer keys and asks for none of the conditions of the start.      *)
(* Both threads write IPGlobal's variables, and nothing is locked.         *)
(*                                                                         *)
(* A file is a sequence of words: what separates them, a line's end or a   *)
(* blank, is all one to the readers.  A word is the sequence of what its   *)
(* commas separate.  A file is read as it is when it is opened, and a key  *)
(* with its value in one step: how a list is stored entry by entry is in   *)
(* RangeTable.  PKT_ROUTER_CPU_CORE, a list of lists, is left out.         *)
(***************************************************************************)
EXTENDS Naturals, Sequences, SequencesExt, FiniteSetsExt, TLC

CONSTANTS
  KEYS,         \* the keys that are followed
  CONFIGS,      \* what client.config may hold when the program starts,
  EDITED,       \* and after it was edited
  USER_FILES,   \* what userip.config may hold: the one word that is read of it
  FREQ_MIN,     \* the initial USER_IPV4_READ_FREQ_MIN (15)
  MAX_INTERFACE_SUPPORT,   \* the length of the arrays (8)
  MAX_NUMBER,   \* bound: the largest number in a file
  MAX_EDITS,    \* bound: how often the files are edited
  MAX_LOADS     \* bound: how often LOAD is sent

-----------------------------------------------------------------------------
(* The keys, by what is done with their value.                              *)

PeeringFlags ==
  {"AKAMAI", "ALIBABA", "AMAZON", "AMS_IX", "APPLE", "CLOUDFLARE", "DE_CIX", "FASTLY",
   "GOOGLE", "LIMELIGHT", "FACEBOOK", "MICROSOFT", "NIXI", "ZENLAYER"}
PeeringTables ==
  {"PEERING_AKAMAI", "PEERING_ALIBABA", "PEERING_AMAZON", "PEERING_AMS_IX", "PEERING_APPLE",
   "PEERING_CLOUDFLARE", "PEERING_DE_CIX", "PEERING_FASTLY", "PEERING_GOOGLE",
   "PEERING_LIMELIGHT", "PEERING_FACEBOOK", "PEERING_MICROSOFT", "PEERING_NIXI",
   "PEERING_ZENLAYER"}

\* Set if the value is "true", cleared if it is anything else.
Flags ==
  PeeringFlags \cup
  {"PRINT_STATS", "USER_IPV4_DIR_STATUS", "ADMIN_FLAG", "SOLARFLARE_HW_TIMESTAMP",
   "IPV6_PROCESSING", "TCP_BLOCK_PACKET", "PROCESS_USER_AGENT", "PROCESS_CDN",
   "PROCESS_PEERING"}

\* A number or a text, which the value replaces.
Scalars ==
  {"PROBE_ID", "LOG_LEVEL", "PRINT_STATS_FREQ_SEC", "LOG_STATS_FREQ_SEC",
   "USER_IPV4_READ_FREQ_MIN", "DNS_DUMP_TIME", "LOG_DIR", "BW_DIR", "DATA_DIR",
   "USER_IPV4_DIR", "ADMIN_PORT", "TIMER_CORE", "DNS_ANSWER", "END_OF_DAY_CLEAN_HOUR",
   "END_OF_DAY_CLEAN_MIN", "END_OF_DAY_CLEAN_SEC"}

\* One entry for each interface, and no count: entries beyond the value's stay.
Arrays ==
  {"PKT_LISTENER_CPU_CORE", "MAX_PKT_LEN_PER_INTERFACE", "PPS_PER_INTERFACE",
   "PPS_CAP_PERCENTAGE", "ROUTER_PER_INTERFACE",
   "SERVER_TCP_ADDRESS", "SERVER_UDP_ADDRESS", "SERVER_AAA_ADDRESS", "SERVER_DNS_ADDRESS",
   "TCP_AGENT_CPU_CORE", "UDP_AGENT_CPU_CORE", "AAA_AGENT_CPU_CORE", "DNS_AGENT_CPU_CORE",
   "PROCESS_OUT_OF_RANGE_IP", "TCP_ACK_SIZE_BLOCK", "UDP_SIZE_BLOCK"}

\* Lists with a count, of which only the value's entries are looked at.
Tables ==
  PeeringTables \cup {"ETHERNET_INTERFACE", "SOLAR_INTERFACE", "IPV4_RANGE", "CDN_IPV4_RANGE"}

\* std::vectors, to which the value's entries are added.
Vectors == {"IPV6_RANGE", "CDN_IPV6_RANGE"}

AllKeys == Flags \cup Scalars \cup Arrays \cup Tables \cup Vectors

\* The keys LOAD takes.
Reloadable ==
  PeeringFlags \cup
  {"PRINT_STATS", "PRINT_STATS_FREQ_SEC", "LOG_STATS_FREQ_SEC", "USER_IPV4_READ_FREQ_MIN",
   "PROCESS_OUT_OF_RANGE_IP", "PROCESS_USER_AGENT", "IPV4_RANGE", "IPV6_PROCESSING",
   "IPV6_RANGE", "DNS_ANSWER", "TCP_ACK_SIZE_BLOCK", "UDP_SIZE_BLOCK", "PROCESS_CDN",
   "TCP_BLOCK_PACKET", "PROCESS_PEERING"}

ASSUME ConfigAssumption ==
  /\ {"USER_IPV4_DIR_STATUS", "USER_IPV4_READ_FREQ_MIN", "IPV4_RANGE", "PROCESS_CDN",
      "PROCESS_PEERING"} \subseteq KEYS
  /\ KEYS \subseteq AllKeys
  /\ FREQ_MIN \in 0 .. MAX_NUMBER /\ MAX_INTERFACE_SUPPORT \in Nat
  /\ MAX_NUMBER \in Nat /\ MAX_EDITS \in Nat /\ MAX_LOADS \in Nat
  /\ CONFIGS \cup EDITED \subseteq Seq(Seq(STRING)) /\ USER_FILES \subseteq Seq(STRING)

VARIABLES
  config, userip,       \* the two files
  setting,              \* IPGlobal's variable of each key
  pc,                   \* main: "config", "first" (the start), "running", "user", "exited"
  words, at,            \* the file main reads, and how far it is
  loading,              \* whether a LOAD is being executed,
  loadWords, loadAt,    \* the file it reads, and how far it is
  userIpReadLoop,       \* the minutes since the user's file was last read
  edits, loads          \* how many there were

files      == <<config, userip, edits>>
readVars   == <<pc, words, at, userIpReadLoop>>
loadVars   == <<loading, loadWords, loadAt, loads>>
configVars == <<files, setting, readVars, loadVars>>

-----------------------------------------------------------------------------
(* Reading.                                                                 *)

\* The word at a position: after the last, the empty one.
WordAt(file, n) == IF n \in DOMAIN file THEN file[n] ELSE <<>>

\* atoi: what is no number is 0.
Atoi(word) ==
  IF \E n \in 0 .. MAX_NUMBER : word = <<ToString(n)>>
  THEN CHOOSE n \in 0 .. MAX_NUMBER : word = <<ToString(n)>> ELSE 0

IsOn(settings, key) == settings[key] = <<"true">>

\* What a key's variable holds after its value was stored.

\* With a list's count that only grows.
StoredUncounted(key, old, value) ==
  CASE key \in Flags               -> IF value = <<"true">> THEN value ELSE <<"false">>
    [] key \in Scalars             -> value
    [] key \in Arrays \cup Tables  -> value \o SubSeq(old, Len(value) + 1, Len(old))
    [] key \in Vectors             -> old \o value

Stored(key, old, value) ==
  CASE key \in Flags               -> IF value = <<"true">> THEN value ELSE <<"false">>
    [] key \in Scalars \cup Tables -> value
    [] key \in Arrays              -> value \o SubSeq(old, Len(value) + 1, Len(old))
    [] key \in Vectors             -> old \o value

\* The flag a key waits for at the start, and what it has to be: the lines
\* before the key's own decide.
Gate(key) ==
  CASE key = "IPV4_RANGE" -> [flag |-> "USER_IPV4_DIR_STATUS", is |-> FALSE]
    [] key \in {"CDN_IPV4_RANGE", "CDN_IPV6_RANGE"} -> [flag |-> "PROCESS_CDN", is |-> TRUE]
    [] key \in PeeringFlags \cup PeeringTables -> [flag |-> "PROCESS_PEERING", is |-> TRUE]
    [] OTHER -> [flag |-> "none", is |-> FALSE]

Gated(key) == Gate(key).flag # "none"

\* Whether a start takes a key, after what it has read so far.

\* With every flag asked to be on.
TakenWhenOn(settings, key) == Gated(key) => IsOn(settings, Gate(key).flag)

Taken(settings, key) == Gated(key) => (IsOn(settings, Gate(key).flag) = Gate(key).is)

\* One turn of a reader's loop, which takes the keys of a set: a key and its
\* value, or a word that is none of these keys.
Turn(file, n, taken, next) ==
  LET word == WordAt(file, n)
      keys == {key \in taken : word = <<key>>}
  IN  /\ setting' = [key \in KEYS |-> IF key \in keys
                                      THEN Stored(key, setting[key], WordAt(file, n + 1))
                                      ELSE setting[key]]
      /\ next = IF keys = {} THEN n + 1 ELSE n + 2

-----------------------------------------------------------------------------
\* IPGlobal's initial values: where there is none, no word, which is also an
\* array's entry of 0.
Default(key) ==
  CASE key \in Flags -> <<"false">>
    [] key = "USER_IPV4_READ_FREQ_MIN" -> <<ToString(FREQ_MIN)>>
    [] key = "DNS_DUMP_TIME" -> <<"2">>
    [] key = "DNS_ANSWER" -> <<"3">>
    [] key = "END_OF_DAY_CLEAN_HOUR" -> <<"23">>
    [] key = "END_OF_DAY_CLEAN_MIN" -> <<"59">>
    [] key = "END_OF_DAY_CLEAN_SEC" -> <<"30">>
    [] key \in {"TCP_ACK_SIZE_BLOCK", "UDP_SIZE_BLOCK"} ->
         [i \in 1 .. MAX_INTERFACE_SUPPORT |-> "100"]
    [] OTHER -> <<>>

ConfigInit ==
  /\ config \in CONFIGS /\ userip \in USER_FILES
  /\ setting = [key \in KEYS |-> Default(key)]
  /\ pc = "config" /\ words = config /\ at = 1
  /\ loading = FALSE /\ loadWords = <<>> /\ loadAt = 1
  /\ userIpReadLoop = 0 /\ edits = 0 /\ loads = 0

\* The operator changes one of the files.
Edit ==
  /\ edits < MAX_EDITS /\ edits' = edits + 1
  /\ \/ config' \in EDITED /\ UNCHANGED userip
     \/ userip' \in USER_FILES /\ UNCHANGED config
  /\ UNCHANGED <<setting, readVars, loadVars>>

\* The admin port's thread starts after the settings are read, if ADMIN_FLAG
\* (where it is followed) says so.  main may be reading the user's file then.
AdminRuns ==
  /\ pc \in {"running", "user"}
  /\ "ADMIN_FLAG" \in KEYS => IsOn(setting, "ADMIN_FLAG")

MayLoad == AdminRuns /\ ~loading /\ loads < MAX_LOADS

-----------------------------------------------------------------------------
(* main: the constructor of GConfig, and the loop of SpectaProbe::start.    *)

ReadConfig ==
  /\ pc = "config" /\ at <= Len(words)
  /\ Turn(words, at, {key \in KEYS : Taken(setting, key)}, at')
  /\ UNCHANGED <<files, pc, words, userIpReadLoop, loadVars>>

ConfigRead ==
  /\ pc = "config" /\ at > Len(words)
  /\ pc' = IF IsOn(setting, "USER_IPV4_DIR_STATUS") THEN "first" ELSE "running"
  /\ UNCHANGED <<files, setting, words, at, userIpReadLoop, loadVars>>

\* readUserIpv4Config: the file is one word.
ReadUser ==
  /\ pc \in {"first", "user"}
  /\ setting' = [setting EXCEPT !["IPV4_RANGE"] = userip]
  /\ pc' = "running"
  /\ UNCHANGED <<files, words, at, userIpReadLoop, loadVars>>

\* The frequency met, not passed.
DueWhenEqual(minutes) == minutes = Atoi(setting["USER_IPV4_READ_FREQ_MIN"])

Due(minutes) == minutes >= Atoi(setting["USER_IPV4_READ_FREQ_MIN"])

\* A new minute.  (The counter goes on if there is no file to read: it is cut
\* where no frequency reaches it.)
Minute ==
  /\ pc = "running"
  /\ LET minutes == Min({userIpReadLoop + 1, MAX_NUMBER + 1})
     IN  IF Due(minutes) /\ IsOn(setting, "USER_IPV4_DIR_STATUS")
         THEN userIpReadLoop' = 0 /\ pc' = "user"
         ELSE userIpReadLoop' = minutes /\ UNCHANGED pc
  /\ UNCHANGED <<files, setting, words, at, loadVars>>

\* A file that cannot be opened ends the program, whichever thread opens it.
OpenFails ==
  /\ pc \in {"first", "user"} \/ (pc = "config" /\ at = 1) \/ MayLoad
  /\ pc' = "exited"
  /\ UNCHANGED <<files, setting, words, at, userIpReadLoop, loadVars>>

-----------------------------------------------------------------------------
(* The admin port: refreshConfig.                                           *)

Load ==
  /\ MayLoad
  /\ loading' = TRUE /\ loadWords' = config /\ loadAt' = 1 /\ loads' = loads + 1
  /\ UNCHANGED <<files, setting, readVars>>

LoadKey ==
  /\ AdminRuns /\ loading /\ loadAt <= Len(loadWords)
  /\ Turn(loadWords, loadAt, Reloadable \cap KEYS, loadAt')
  /\ UNCHANGED <<files, readVars, loading, loadWords, loads>>

LoadEnds ==
  /\ AdminRuns /\ loading /\ loadAt > Len(loadWords)
  /\ loading' = FALSE /\ loadWords' = <<>> /\ loadAt' = 1
  /\ UNCHANGED <<files, setting, readVars, loads>>

LoadStep == LoadKey \/ LoadEnds

-----------------------------------------------------------------------------
ReadStep == ReadConfig \/ ConfigRead \/ ReadUser \/ Minute

ConfigNext == Edit \/ ReadStep \/ OpenFails \/ Load \/ LoadStep

ConfigSpec == ConfigInit /\ [][ConfigNext]_configVars

\* Both threads run, and minutes pass.
ConfigFairness == WF_configVars(ReadStep) /\ WF_configVars(LoadStep)

ConfigFairSpec == ConfigSpec /\ ConfigFairness

-----------------------------------------------------------------------------
(* What a file says, line by line: a line is a key and its value.           *)

WellFormed(file) ==
  /\ Len(file) % 2 = 0
  /\ \A n \in DOMAIN file : n % 2 = 0 => \A key \in KEYS : file[n] # <<key>>

LinesOf(file, key) == {n \in DOMAIN file : file[n] = <<key>>}

\* What the lines before a line say of a flag.
Says(file, flag, n) ==
  LET before == {m \in LinesOf(file, flag) : m < n}
  IN  before # {} /\ file[Max(before) + 1] = <<"true">>

\* The lines of a key a start takes, in their order.
TakenLines(file, key) ==
  {n \in LinesOf(file, key) : Gated(key) => (Says(file, Gate(key).flag, n) = Gate(key).is)}

\* The values of a key's lines, and those of them that name an entry.
ValueOf(file, n)       == file[n + 1]
Naming(file, lines, i) == {n \in lines : i \in DOMAIN ValueOf(file, n)}

\* An array after some of its lines: each entry is the last line's that has one.
ArrayAfter(file, key, lines) ==
  LET named == UNION {DOMAIN ValueOf(file, n) : n \in lines}
  IN  [i \in DOMAIN Default(key) \cup named |->
         IF Naming(file, lines, i) = {} THEN Default(key)[i]
         ELSE ValueOf(file, Max(Naming(file, lines, i)))[i]]

\* A key after some of its lines, if it is no vector.
ValueAfter(file, key, lines) ==
  LET last == ValueOf(file, Max(lines))
  IN  CASE key \in Arrays -> ArrayAfter(file, key, lines)
        [] key \notin Arrays /\ lines = {} -> Default(key)
        [] key \in Flags /\ lines # {} -> IF last = <<"true">> THEN last ELSE <<"false">>
        [] key \in Scalars \cup Tables /\ lines # {} -> last

\* A key's value after a start.
AsStarted(file, key) == ValueAfter(file, key, TakenLines(file, key))

\* A vector's entries, each with its line, and their places: behind those of the lines
\* before.
Entries(file, lines) == UNION {{n} \X DOMAIN ValueOf(file, n) : n \in lines}

Place(file, lines, entry) ==
  Cardinality(Entries(file, {n \in lines : n < entry[1]})) + entry[2]

HasEntries(vector, file, lines) ==
  /\ Len(vector) = Cardinality(Entries(file, lines))
  /\ \A entry \in Entries(file, lines) :
       vector[Place(file, lines, entry)] = ValueOf(file, entry[1])[entry[2]]

-----------------------------------------------------------------------------
(* Properties.                                                              *)

\* When the start has read client.config, every key has the value its lines
\* give it: the last line's, where the flags that stand before a line decide
\* whether it is taken, with the entries of arrays each from the last line
\* that has them and those of vectors from all.
\* [GConfig::initialize: a key after its flag, a flag switched off again.]
StartReadsLast ==
  pc = "config" /\ at > Len(words) /\ WellFormed(words) =>
    \A key \in KEYS :
      IF key \in Vectors THEN HasEntries(setting[key], words, TakenLines(words, key))
                        ELSE setting[key] = AsStarted(words, key)

\* A LOAD leaves every key it takes, if the last line of the key is one a
\* start would take, with the value a restart would give it: nothing of the
\* value before the LOAD is left.  Not so for the vectors, to which it adds
\* the entries once more, and for IPV4_RANGE where the user's file gives it;
\* of an array what the file does not name stays.
\* [AdminPortReader::refreshConfig against GConfig::initialize.]
LoadIsRestart ==
  [][LoadEnds /\ WellFormed(loadWords) =>
       \A key \in (Reloadable \cap KEYS) \ Vectors :
         LET lines == LinesOf(loadWords, key)
         IN  /\ lines # {} /\ Max(lines) \in TakenLines(loadWords, key)
             /\ key = "IPV4_RANGE" => ~IsOn(setting, "USER_IPV4_DIR_STATUS")
             => LET value == AsStarted(loadWords, key)
                IN  IF key \in Arrays
                    THEN \A i \in DOMAIN value :
                           Naming(loadWords, lines, i) # {} => setting[key][i] = value[i]
                    ELSE setting[key] = value]_configVars

\* Where the user's file gives the ranges, they are the file's again in the
\* end, whatever LOADs put client.config's IPV4_RANGE in their place and moved
\* the frequency at which the file is read - unless the program has exited.
\* [readUserIpv4Config every USER_IPV4_READ_FREQ_MIN minutes, and LOAD's
\* get_IPV4Range, which does not ask for USER_IPV4_DIR_STATUS.]
UserRangesBack ==
  <>[](IsOn(setting, "USER_IPV4_DIR_STATUS") /\ pc # "exited" =>
         setting["IPV4_RANGE"] = userip)

=============================================================================
