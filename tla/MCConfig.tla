------------------------------ MODULE MCConfig ------------------------------
(***************************************************************************)
(* Config for TLC: nine keys, one or more of each sort.  The files of a    *)
(* start are all those of up to MAX_LINES lines, and all those of one line *)
(* more of the flags that decide on others and the keys they decide on.    *)
(***************************************************************************)
EXTENDS Config

CONSTANT MAX_LINES    \* bound: the lines of a file the program starts with: one more for MCGates

MCKeys ==
  {"USER_IPV4_DIR_STATUS", "USER_IPV4_READ_FREQ_MIN", "IPV4_RANGE", "PROCESS_CDN",
   "CDN_IPV4_RANGE", "PROCESS_PEERING", "AKAMAI", "UDP_SIZE_BLOCK", "IPV6_RANGE"}

Line(key, value) == <<<<key>>, value>>

\* The lines a file is made of.
MCLines ==
  {Line("USER_IPV4_DIR_STATUS", <<"true">>), Line("USER_IPV4_DIR_STATUS", <<"false">>),
   Line("USER_IPV4_READ_FREQ_MIN", <<"1">>),
   Line("IPV4_RANGE", <<"a">>), Line("IPV4_RANGE", <<"a", "b">>),
   Line("PROCESS_CDN", <<"true">>), Line("CDN_IPV4_RANGE", <<"c">>),
   Line("PROCESS_PEERING", <<"true">>), Line("PROCESS_PEERING", <<"false">>),
   Line("AKAMAI", <<"true">>), Line("AKAMAI", <<"false">>),
   Line("UDP_SIZE_BLOCK", <<"1", "2">>), Line("UDP_SIZE_BLOCK", <<"3">>),
   Line("IPV6_RANGE", <<"v", "w">>)}

MCGates ==
  {Line("USER_IPV4_DIR_STATUS", <<"true">>), Line("USER_IPV4_DIR_STATUS", <<"false">>),
   Line("IPV4_RANGE", <<"a">>), Line("PROCESS_PEERING", <<"true">>),
   Line("PROCESS_PEERING", <<"false">>), Line("AKAMAI", <<"true">>)}

Files(lines, n) == {FlattenSeq(file) : file \in UNION {[1 .. k -> lines] : k \in 0 .. n}}

\* A value left out, and a word that is no key's: what follows is read as what
\* it is not.
MCMalformed ==
  {<<<<"USER_IPV4_DIR_STATUS">>, <<"IPV4_RANGE">>, <<"a">>>>,
   <<<<"#">>, <<"AKAMAI">>, <<"true">>, <<"USER_IPV4_READ_FREQ_MIN">>>>}

MCConfigs == Files(MCLines, MAX_LINES) \cup Files(MCGates, MAX_LINES + 1) \cup MCMalformed

MCEdited ==
  {Line("USER_IPV4_READ_FREQ_MIN", <<"1">>) \o Line("IPV4_RANGE", <<"a">>),
   Line("USER_IPV4_READ_FREQ_MIN", <<"2">>) \o Line("UDP_SIZE_BLOCK", <<"3">>),
   Line("PROCESS_PEERING", <<"true">>) \o Line("AKAMAI", <<"true">>)
     \o Line("PROCESS_PEERING", <<"false">>)}

MCUserFiles == {<<"u">>, <<"u", "w">>}

=============================================================================
