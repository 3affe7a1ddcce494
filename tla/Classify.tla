------------------------------ MODULE Classify ------------------------------
(***************************************************************************)
(* What a router makes of one packet after the other: the parsers          *)
(* (EthernetParser, TCPParser, UDPParser, radiusParser) fill the one       *)
(* MPacket the router has, and decodePacket counts the volume and pushes   *)
(* the record to an agent.  Two things outlive a packet or a parser and    *)
(* make this more than a function: the parser's vlan_id, and the union of  *)
(* the four kinds of records inside MPacket, whose fields share bytes.     *)
(*                                                                         *)
(* What a packet holds is chosen where it is looked at, and so are the     *)
(* flags and limits of IPGlobal, which LOAD may change between any two     *)
(* looks.  The direction is what RangeTable's scan returns.                *)
(***************************************************************************)
EXTENDS Integers, Sequences, SequencesExt, Direction

CONSTANTS
  VLANS,        \* VLAN ids of tags
  MAX_TAGS,     \* the most tags of a frame
  ADDRESSES,    \* the addresses of packets, as CDN and peering tell them apart
  CDN,          \* those in a range of CDN_IPV4_RANGE
  GOOGLE, AMAZON    \* those in a range of either peering table

\* checkPeering looks at fourteen tables like these two, each with its own flag.
PEERING == [GOOGLE |-> GOOGLE, AMAZON |-> AMAZON]

ASSUME ClassifyAssumption ==
  /\ VLANS \subseteq 0 .. 4095 /\ MAX_TAGS \in Nat
  /\ CDN \subseteq ADDRESSES /\ GOOGLE \subseteq ADDRESSES /\ AMAZON \subseteq ADDRESSES

QUERY == 0
RESPONSE == 1

\* PACKET_IPPROTO_...: of the numbers that an IP header may carry DNS is MUX's and
\* RADIUS is SWIPE's.
TCP == 6
UDP == 17
DNS == 18
RADIUS == 53
Protocols == {1, TCP, UDP, DNS, RADIUS}

NAME == 97      \* the first letter of a name read from a packet

VARIABLES
  vlan_id,      \* of EthernetParser
  msgObj,       \* the router's MPacket
  phase,        \* what comes next
  \* history, read by no guard: what the packet really was; what became of it
  wire, out

classifyVars == <<vlan_id, msgObj, phase, wire, out>>

(***************************************************************************)
(* MPacket.  "at" has the bytes of the union that two kinds of records     *)
(* use, by offset:                                                         *)
(*   1  udp.direction, aaa.direction, dns.qrFlag                           *)
(*   2  low byte of udp.vLanId, tcp.direction, dns.responseCode, and the   *)
(*      first of aaa.userName                                              *)
(*   3  high byte of udp.vLanId, the first of dns.url                      *)
(* tcp.vLanId shares its bytes with nothing that is read beside it.        *)
(***************************************************************************)
Records == [
  ptype : Protocols \cup {0}, processOutOfRange : BOOLEAN, dropPacket : BOOLEAN,
  at : [1 .. 3 -> 0 .. 255],
  tcpVlan : {0} \cup VLANS,
  tcpFlags : {"none", "SYN_RCV", "SYN_ACK_RCV", "ACK_RCV", "DATA_RCV", "FIN_RCV"},
  small : BOOLEAN]    \* pLoad is within the limit the router compares it with

\* The resets with the RADIUS record's last.
ResetAaaLast == [
  ptype |-> 0, processOutOfRange |-> TRUE, dropPacket |-> FALSE,
  at |-> <<3, 78, 65>>, tcpVlan |-> 0, tcpFlags |-> "none", small |-> TRUE]

\* The four resets, one over the other: the DNS record's is the last, and leaves its
\* "none yet" (3) in what is the user name's "NA" for RADIUS.
Reset == [
  ptype |-> 0, processOutOfRange |-> TRUE, dropPacket |-> FALSE,
  at |-> <<3, 3, 0>>, tcpVlan |-> 0, tcpFlags |-> "none", small |-> TRUE]

UdpVlan(msg) == msg.at[3] * 256 + msg.at[2]

Silence == [pushed |-> "none", record |-> Reset, bw |-> <<>>, cdn |-> <<>>, peering |-> <<>>]

\* qr: the flag of the DNS header, 3 if none was read.  name: the first byte of the
\* name in the question, 0 if none was read.  entered: the names (their first bytes)
\* under which addresses were entered in the DNS map.
NoWire == [protocol |-> 0, tags |-> <<>>, direction |-> 0, qr |-> 3, name |-> 0, entered |-> {}]

ClassifyTypeOK ==
  /\ vlan_id \in {0} \cup VLANS
  /\ msgObj \in Records
  /\ phase \in {"frame", "ip", "tcp", "udp", "dns", "aaa", "route"}
  /\ wire.protocol \in Protocols \cup {0} /\ wire.qr \in {QUERY, RESPONSE, 3}
  /\ wire.name \in {0, NAME} /\ wire.entered \subseteq 0 .. 255
  /\ out.pushed \in {"none", "TCP", "UDP", "DNS", "AAA"} /\ out.record \in Records

ClassifyInit ==
  /\ vlan_id = 0 /\ msgObj = Reset /\ phase = "frame"
  /\ wire = NoWire /\ out = Silence

(***************************************************************************)
(* EthernetParser.                                                         *)
(***************************************************************************)
\* The outermost tag's id.
VlanAfterFirst(tags) == IF tags = <<>> THEN vlan_id ELSE Head(tags)

\* Each tag overwrites the parser's vlan_id; a frame without one leaves it alone.
VlanAfter(tags) == IF tags = <<>> THEN vlan_id ELSE Last(tags)

\* parsePacket: untagged or MPLS, or tagged once or more, with IPv4 inside or something
\* that is not decoded (IPv6 among it).
DecodeFrame ==
  /\ phase = "frame"
  /\ msgObj' = Reset
  /\ \E tags \in BoundedSeq(VLANS, MAX_TAGS), ipv4 \in BOOLEAN :
       /\ vlan_id' = VlanAfter(tags)
       /\ wire' = [NoWire EXCEPT !.tags = tags]
       /\ phase' = IF ipv4 THEN "ip" ELSE "route"
  /\ out' = Silence

IpTcp(direction) ==
  /\ msgObj' = [msgObj EXCEPT !.ptype = TCP, !.tcpVlan = vlan_id, !.at[2] = direction]
  /\ phase' = "tcp"

\* getProtocolType, for RADIUS's ports: the direction is DOWN for both ways.
IpRadius ==
  /\ msgObj' = [msgObj EXCEPT !.ptype = RADIUS, !.at[1] = DOWN]
  /\ phase' = "aaa"

IpUdp(direction) ==
  /\ msgObj' = [msgObj EXCEPT !.ptype = UDP,
                  !.at = <<direction, vlan_id % 256, vlan_id \div 256>>]
  /\ phase' = "udp"

\* The protocol's number is stored before it is looked at, so that another one's goes
\* to the router as it is.
IpOther(protocol) ==
  /\ msgObj' = [msgObj EXCEPT !.ptype = protocol]
  /\ phase' = "route"

DecodeIPv4 ==
  /\ phase = "ip"
  /\ \E protocol \in Protocols, direction \in Directions :
       /\ \/ protocol = TCP /\ IpTcp(direction)
          \/ protocol = UDP /\ (IpRadius \/ IpUdp(direction))
          \/ protocol \notin {TCP, UDP} /\ IpOther(protocol)
       /\ wire' = [wire EXCEPT !.protocol = protocol, !.direction = direction]
  /\ UNCHANGED <<vlan_id, out>>

(***************************************************************************)
(* TCPParser.                                                              *)
(***************************************************************************)
TcpBits == {"syn", "ack", "psh", "rst", "fin"}

TcpFlags(bits) ==
  IF "syn" \in bits /\ bits \cap {"psh", "fin"} = {}
    THEN IF "ack" \in bits THEN "SYN_ACK_RCV" ELSE "SYN_RCV"
  ELSE IF bits = {"ack"} THEN "ACK_RCV"
  ELSE IF "psh" \in bits THEN "DATA_RCV"
  ELSE IF bits \cap {"fin", "rst"} /= {} THEN "FIN_RCV"
  ELSE "none"

ParseTCP ==
  /\ phase = "tcp"
  /\ \E dnsPort \in BOOLEAN, bits \in SUBSET TcpBits, small \in BOOLEAN :
       LET flags == TcpFlags(bits)
           empty == flags \in {"SYN_RCV", "SYN_ACK_RCV", "FIN_RCV"}
       IN msgObj' =
            IF dnsPort THEN [msgObj EXCEPT !.small = small, !.dropPacket = TRUE]
            ELSE IF flags = "none"
              THEN [msgObj EXCEPT !.small = small, !.ptype = 0, !.dropPacket = TRUE]
              ELSE [msgObj EXCEPT !.small = small \/ empty, !.tcpFlags = flags]
  /\ phase' = "route"
  /\ UNCHANGED <<vlan_id, wire, out>>

(***************************************************************************)
(* UDPParser.                                                              *)
(***************************************************************************)
DnsPossible(answers) == answers /= 0 /\ msgObj.at[1] \in {UP, DOWN}

\* parseUDPPacket.  STUN is recognised by the first bytes of its payload, some services
\* by their ports; version is the IP header's, which need not agree with the frame's
\* type under MPLS and PPPoE.  A payload that was not measured counts as small.
ParseUDP ==
  /\ phase = "udp"
  /\ \E stun \in BOOLEAN, blocked \in BOOLEAN, version \in {0, 4, 6}, dnsPort \in BOOLEAN,
        small \in BOOLEAN, answers \in {0, 3} :
       LET drop == [msgObj EXCEPT !.dropPacket = TRUE]
           kept == IF blocked THEN drop ELSE msgObj
           toDns == ~stun /\ version = 4 /\ dnsPort /\ DnsPossible(answers)
       IN /\ msgObj' =
               IF stun THEN drop
               ELSE IF version = 6 /\ dnsPort THEN [drop EXCEPT !.ptype = 0]
               ELSE IF version = 0 \/ toDns THEN kept
               ELSE IF dnsPort THEN drop
               ELSE [kept EXCEPT !.small = small]
          /\ phase' = IF toDns THEN "dns" ELSE "route"
  /\ UNCHANGED <<vlan_id, wire, out>>

\* parsePacketDNSQueries: what it leaves of msg, whether it found a name that is to be
\* resolved.  The question names something, the root, or nothing legible.
Question(msg, name) == IF name = "bad" THEN msg
                       ELSE [msg EXCEPT !.at[3] = IF name = "root" THEN 0 ELSE NAME]

QuestionRead(name, any) == name /= "bad" /\ ~any

\* parsePacketDNSAnswers enters an address under the url that msg has, if it has one.
Entered(msg, address) == IF address /\ msg.at[3] /= 0 THEN {msg.at[3]} ELSE {}

\* Whatever flag there is makes it DNS.
DnsAlways(msg) == [msg EXCEPT !.ptype = DNS]

\* The end of parseUDPPacket's DNS branch: the kind of the packet is told by qrFlag,
\* whether or not it was read.
DnsByFlag(msg) == IF msg.at[1] \in {QUERY, RESPONSE} THEN [msg EXCEPT !.ptype = DNS] ELSE msg

\* A packet that ends early, as the first fragment of a long answer does.
ParseShortDNS ==
  /\ phase = "dns"
  /\ msgObj' = DnsByFlag(msgObj)
  /\ phase' = "route"
  /\ UNCHANGED <<vlan_id, wire, out>>

\* one: there is one question.
ParseDNSQuery ==
  /\ phase = "dns"
  /\ \E one \in BOOLEAN, name \in {"name", "root", "bad"} :
       LET headed == [msgObj EXCEPT !.at[1] = QUERY]
           asked  == IF one THEN Question(headed, name) ELSE headed
       IN /\ msgObj' = DnsByFlag(asked)
          /\ wire' = [wire EXCEPT !.qr = QUERY, !.name = IF name = "name" THEN NAME ELSE 0]
  /\ phase' = "route"
  /\ UNCHANGED <<vlan_id, out>>

\* answered: one question and some answers, of which address tells whether one is an
\* address above 0.255.255.255; any: any kind of answer was asked for.
ParseDNSResponse ==
  /\ phase = "dns"
  /\ \E rcode \in {0, 3}, answered \in BOOLEAN, name \in {"name", "root", "bad"},
        any \in BOOLEAN, address \in BOOLEAN :
       LET headed == [msgObj EXCEPT !.at[1] = RESPONSE, !.at[2] = rcode]
           parsed == rcode = 0 /\ answered
           asked  == IF parsed THEN Question(headed, name) ELSE headed
       IN /\ msgObj' = DnsByFlag(asked)
          /\ wire' = [wire EXCEPT
               !.qr = RESPONSE, !.name = IF name = "name" THEN NAME ELSE 0,
               !.entered =
                 IF parsed /\ QuestionRead(name, any) THEN Entered(asked, address) ELSE {}]
  /\ phase' = "route"
  /\ UNCHANGED <<vlan_id, out>>

(***************************************************************************)
(* radiusParser.                                                           *)
(***************************************************************************)
\* parseAAAPacket: nothing but the header if the authenticator begins with 0; otherwise
\* attributes until the packet ends or one has a wrong length, the user's name and the
\* framed address among them or not.  The test of the code's range is never true.
ParseAAA ==
  /\ phase = "aaa"
  /\ \E authentic \in BOOLEAN, user \in BOOLEAN, framed \in BOOLEAN, wrong \in BOOLEAN,
        accountingRequest \in BOOLEAN :
       msgObj' =
         IF ~authentic THEN [msgObj EXCEPT !.processOutOfRange = FALSE]
         ELSE [msgObj EXCEPT
                 !.at[2] = IF user THEN NAME ELSE msgObj.at[2],
                 !.processOutOfRange =
                   msgObj.processOutOfRange /\ ~(wrong /\ ~framed /\ accountingRequest)]
  /\ phase' = "route"
  /\ UNCHANGED <<vlan_id, wire, out>>

(***************************************************************************)
(* PacketRouter::decodePacket, after the parsers.                          *)
(***************************************************************************)
\* The peering tables that are asked, as their flags say.
EnabledPeerings == SUBSET DOMAIN PEERING

\* The switches that a packet finds, set by LOAD and PAUSE at any time.
Switches == [
  PROCESS_CDN : BOOLEAN, PROCESS_PEERING : BOOLEAN, enabled : EnabledPeerings,
  PROCESS_OUT_OF_RANGE_IP : BOOLEAN, TCP_BLOCK_PACKET : BOOLEAN, PUSH_TO_QUEUE : BOOLEAN]

CheckPeering(ip, enabled) == \E p \in enabled : ip \in PEERING[p]

\* The ends of a packet that are compared with CDN and peering ranges, in that order.
Ends(direction, sIp, dIp) ==
  CASE direction = UP   -> <<dIp>>
    [] direction = DOWN -> <<sIp>>
    [] OTHER            -> <<dIp, sIp>>

\* The direction under which volumes are counted.
CountedAs(direction) == IF direction = UP THEN UP ELSE DOWN

\* Peering asked of the CDN's packets too.
VolumesTwice(direction, ends, version4, switches) ==
  LET as == <<CountedAs(direction)>>
      flag == /\ switches.PROCESS_CDN /\ version4
              /\ \E i \in DOMAIN ends : ends[i] \in CDN
      peer == /\ switches.PROCESS_PEERING
              /\ \E i \in DOMAIN ends : CheckPeering(ends[i], switches.enabled)
  IN [bw |-> as, cdn |-> IF flag THEN as ELSE <<>>, peering |-> IF peer THEN as ELSE <<>>]

\* The volumes counted: all of it, the CDN's, and else peering's.
Volumes(direction, ends, version4, switches) ==
  LET as == <<CountedAs(direction)>>
      flag == /\ switches.PROCESS_CDN /\ version4
              /\ \E i \in DOMAIN ends : ends[i] \in CDN
      peer == /\ switches.PROCESS_PEERING /\ ~flag
              /\ \E i \in DOMAIN ends : CheckPeering(ends[i], switches.enabled)
  IN [bw |-> as, cdn |-> IF flag THEN as ELSE <<>>, peering |-> IF peer THEN as ELSE <<>>]

\* Both the CDN check and the peering check apply to IPv4 addresses; peering is not asked
\* for the version.
RouteTCP ==
  /\ phase = "route" /\ msgObj.ptype = TCP
  /\ \E sIp \in ADDRESSES, dIp \in ADDRESSES, version4 \in BOOLEAN, switches \in Switches :
       LET direction == msgObj.at[2]
           v == Volumes(direction, Ends(direction, sIp, dIp), version4, switches)
           stopped == \/ msgObj.dropPacket \/ switches.TCP_BLOCK_PACKET
                      \/ direction = UNKNOWN /\ ~switches.PROCESS_OUT_OF_RANGE_IP
                      \/ msgObj.tcpFlags = "ACK_RCV" /\ msgObj.small
       IN out' = [pushed |-> IF switches.PUSH_TO_QUEUE /\ ~stopped THEN "TCP" ELSE "none",
                  record |-> msgObj, bw |-> v.bw, cdn |-> v.cdn, peering |-> v.peering]
  /\ phase' = "frame"
  /\ UNCHANGED <<vlan_id, msgObj, wire>>

RouteUDP ==
  /\ phase = "route" /\ msgObj.ptype = UDP
  /\ \E sIp \in ADDRESSES, dIp \in ADDRESSES, version4 \in BOOLEAN, switches \in Switches :
       LET direction == msgObj.at[1]
           v == Volumes(direction, Ends(direction, sIp, dIp), version4, switches)
           stopped == \/ msgObj.dropPacket
                      \/ direction = UNKNOWN /\ ~switches.PROCESS_OUT_OF_RANGE_IP
                      \/ direction = UP /\ msgObj.small
       IN out' = [pushed |-> IF switches.PUSH_TO_QUEUE /\ ~stopped THEN "UDP" ELSE "none",
                  record |-> msgObj, bw |-> v.bw, cdn |-> v.cdn, peering |-> v.peering]
  /\ phase' = "frame"
  /\ UNCHANGED <<vlan_id, msgObj, wire>>

\* DNS is pushed, and counted nowhere.
RouteDNS ==
  /\ phase = "route" /\ msgObj.ptype = DNS
  /\ \E push \in BOOLEAN :
       out' = [Silence EXCEPT !.record = msgObj,
                 !.pushed = IF push /\ msgObj.processOutOfRange THEN "DNS" ELSE "none"]
  /\ phase' = "frame"
  /\ UNCHANGED <<vlan_id, msgObj, wire>>

\* RADIUS is counted, and pushed whatever the parser made of processOutOfRange.  What
\* only has RADIUS's number in its IP header has no size and no direction yet.
RouteAAA ==
  /\ phase = "route" /\ msgObj.ptype = RADIUS
  /\ \E push \in BOOLEAN :
       out' = [Silence EXCEPT !.record = msgObj, !.bw = <<msgObj.at[1]>>,
                 !.pushed = IF push THEN "AAA" ELSE "none"]
  /\ phase' = "frame"
  /\ UNCHANGED <<vlan_id, msgObj, wire>>

RouteOther ==
  /\ phase = "route" /\ msgObj.ptype \notin {TCP, UDP, DNS, RADIUS}
  /\ phase' = "frame"
  /\ UNCHANGED <<vlan_id, msgObj, wire, out>>

Parse == \/ ParseTCP \/ ParseUDP \/ ParseShortDNS \/ ParseDNSQuery \/ ParseDNSResponse
         \/ ParseAAA
Route == RouteTCP \/ RouteUDP \/ RouteDNS \/ RouteAAA \/ RouteOther

ClassifyNext == DecodeFrame \/ DecodeIPv4 \/ Parse \/ Route

ClassifySpec == ClassifyInit /\ [][ClassifyNext]_classifyVars

(***************************************************************************)
(* Properties.                                                             *)
(***************************************************************************)
Routed == phase = "frame" /\ wire.protocol /= 0

\* A record of a tagged frame has the frame's innermost VLAN id, whatever else was
\* written to the record's bytes between fn_decodeIPv4 and the push: a DNS header that
\* was not read leaves the UDP record whole.
VlanOfFrame ==
  wire.tags /= <<>> =>
    /\ out.pushed = "TCP" => out.record.tcpVlan = Last(wire.tags)
    /\ out.pushed = "UDP" => UdpVlan(out.record) = Last(wire.tags)

\* A DNS record's qrFlag is the packet's own, or 3 if there is none, as IPGlobal.h:539
\* has it; but for one case, where the flag's byte still holds the direction: an upstream
\* packet whose header was not read is a RESPONSE.
QrFlagFromHeader ==
  out.pushed = "DNS" =>
    \/ out.record.at[1] = wire.qr
    \/ wire.qr = 3 /\ wire.direction = UP /\ out.record.at[1] = RESPONSE

\* An address enters the DNS map under a name its packet asked for, and a DNS record has
\* its packet's name or none: unless no name was read and the VLAN id is above 255, whose
\* high byte is the first of the name's.
NameFromQuestion ==
  /\ wire.entered \subseteq {wire.name} \ {0}
  /\ out.pushed = "DNS" /\ vlan_id < 256 => out.record.at[3] \in {0, wire.name}

\* A TCP or UDP packet is counted once as a whole, pushed or not, in the direction its
\* record has, or DOWN; but not what became DNS or was no packet of a session.  Its
\* volume is the CDN's or a peer's or neither's.
CountedOnce ==
  Routed /\ wire.protocol \in {TCP, UDP} =>
    /\ out.bw = CASE msgObj.ptype = TCP    -> <<CountedAs(msgObj.at[2])>>
                 [] msgObj.ptype = UDP    -> <<CountedAs(msgObj.at[1])>>
                 [] msgObj.ptype = RADIUS -> <<DOWN>>
                 [] OTHER                 -> <<>>
    /\ out.cdn \in {<<>>, out.bw} /\ out.peering \in {<<>>, out.bw}
    /\ out.cdn = <<>> \/ out.peering = <<>>
    /\ out.pushed \in {"TCP", "UDP", "AAA"} => out.bw /= <<>>

=============================================================================
