----------------------------- MODULE OutboundToken -----------------------------
(***************************************************************************)
(* OverSIP::Utils.parser_outbound_udp_flow_token (src/ext/utils/          *)
(* utils_ruby.c) and its machine outbound_udp_flow_token_parser_execute   *)
(* (src/ext/utils/outbound_utils.c, generated by Ragel): the RFC 5626     *)
(* flow token "<ip>_<port>" that the proxy puts in the Path/Record-Route  *)
(* it adds for a UDP client, decoded back into the client's address.      *)
(* The port states are transitions below with their generated numbers;    *)
(* the states of the literal are in OutboundLiterals.                     *)
(***************************************************************************)
EXTENDS Integers, Sequences, OutboundLiterals, CUtil, PortGrammar, IpGrammar

VARIABLES token, flow

flow_vars == <<token, flow>>

PLF == {"port_len", "finished"}
PSF == {"port_s", "port_len", "finished"}

\* st9..st12, st182..st186: the port.  A first '0' (tr25) only marks
\* port_s and up to two more zeros change nothing; every other digit sets
\* port_len and finished.  Every state reached by a non-zero digit is final
\* and counts the digits still allowed; st182 allows none.
PortDigits ==
  {Tr(9, D(0), D(0), 10, {"port_s"}), Tr(9, D(6), D(6), 187, PSF),
   Tr(9, D(7), D(9), 186, PSF), Tr(9, D(1), D(5), 185, PSF),
   Tr(10, D(0), D(0), 11, {}), Tr(10, D(1), D(9), 184, PLF),
   Tr(11, D(0), D(0), 12, {}), Tr(11, D(1), D(9), 183, PLF),
   Tr(12, D(1), D(9), 182, PLF),
   Tr(183, D(0), D(9), 182, PLF),
   Tr(184, D(0), D(9), 183, PLF),
   Tr(185, D(0), D(9), 186, PLF),
   Tr(186, D(0), D(9), 184, PLF)}

\* st187..st190: a port starting "6", "65", "655", "6553".
PortCap ==
  {Tr(187, D(5), D(5), 188, PLF), Tr(187, D(6), D(9), 184, PLF), Tr(187, D(0), D(4), 186, PLF),
   Tr(188, D(5), D(5), 189, PLF), Tr(188, D(6), D(9), 183, PLF), Tr(188, D(0), D(4), 184, PLF),
   Tr(189, D(3), D(3), 190, PLF), Tr(189, D(4), D(9), 182, PLF), Tr(189, D(0), D(2), 183, PLF),
   Tr(190, D(0), D(5), 182, PLF)}

OutboundDelta == Literal \cup PortDigits \cup PortCap

OutboundOut == Outgoing(OutboundDelta)

OutboundStart == 1

OutboundRejected == [ok |-> FALSE, ip_type |-> "none", ip |-> <<>>, port |-> 0]
OutboundPending == [ok |-> FALSE, ip_type |-> "pending", ip |-> <<>>, port |-> 0]

\* Utils_parser_outbound_udp_flow_token: false unless valid; otherwise
\* [ip_type, ip, port] with ip_type :ipv4 only for an IPv4 ip_type, ip
\* the ip_s/ip_len span and port str_to_int of the port_s/port_len span.
ParserOutboundUdpFlowToken(str) ==
  LET x == Execute(OutboundOut, OutboundStart, str)
      r == x.run
  IN IF ~x.valid THEN OutboundRejected
     ELSE [ok |-> TRUE,
           ip_type |-> IF r.ip_type = "ipv4" THEN "ipv4" ELSE "ipv6",
           ip |-> SubSeq(str, r.ip_s + 1, r.ip_s + r.ip_len),
           port |-> StrToInt(SubSeq(str, r.port_s + 1, r.port_s + r.port_len))]

\* The proxy holds one of the strings Tokens as a flow token.
OutboundInit(Tokens) ==
  /\ token \in Tokens
  /\ flow = OutboundPending

\* The proxy decodes the flow token of a request it routes back to a client.
Decode ==
  /\ flow = OutboundPending
  /\ flow' = ParserOutboundUdpFlowToken(token)
  /\ UNCHANGED token

OutboundNext == Decode

OutboundSpec(Tokens) == OutboundInit(Tokens) /\ [][OutboundNext]_flow_vars

-----------------------------------------------------------------------------
\* "<ip>_<port>" (spec.md 4.3 and 6): an IP address, one '_', and a port
\* as Port allows.  No address contains '_'.
IsFlowToken(str, Port(_)) ==
  LET f == Fields(str, US)
  IN Len(f) = 2 /\ IsIPaddress(f[1]) /\ Port(f[2])

OutboundCalled == flow # OutboundPending

OutboundTypeOK ==
  /\ flow.ok \in BOOLEAN
  /\ flow.ip_type \in {"pending", "none", "ipv4", "ipv6"}
  /\ flow.ip \in Seq(0..255)
  /\ flow.port \in 0..65535

\* parser_outbound_udp_flow_token returns an array for every "<ip>_<port>"
\* whose port is written without leading zeros, and returns one only for
\* an "<ip>_<port>" whose port is in 1..65535: the final test
\* "finished && len == p-str" and the port states st9..st12, st182..st190
\* (finished is set by every non-zero digit and never cleared) accept
\* exactly the decimal port range.
AcceptsFlowTokens ==
  OutboundCalled =>
    /\ IsFlowToken(token, CanonicalPort) => flow.ok
    /\ flow.ok => IsFlowToken(token, InRangePort)

\* spec.md 8, "outbound flow token": an accepted token decodes to the
\* address it was built from, the IPv4 or IPv6 literal with its family
\* as the '_' transition out of the literal states sets it, and the port's
\* value as str_to_int reads the port_s/port_len span.
ReportsFlowEndpoint ==
  flow.ok =>
    LET f == Fields(token, US)
    IN /\ flow.ip = f[1]
       /\ flow.ip_type = IF IsIPv4address(f[1]) THEN "ipv4" ELSE "ipv6"
       /\ flow.port = DecimalValue(f[2])
====
