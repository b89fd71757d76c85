---------------------------- MODULE HaproxyProtocol ----------------------------
(***************************************************************************)
(* OverSIP::Utils.parser_haproxy_protocol (src/ext/utils/utils_ruby.c)    *)
(* and the machine it runs, struct_haproxy_protocol_parser_execute        *)
(* (src/ext/utils/haproxy_protocol.c, generated by Ragel).  The input is  *)
(* a PROXY protocol v1 line:                                               *)
(*   "PROXY TCP4 <src ip> <dst ip> <src port> <dst port>\r\n".            *)
(* Every state of the machine outside the IP literals is a transition     *)
(* below, with the generated state numbers; the states of the literals    *)
(* are in HaproxyLiterals.  A call is one behaviour: the reader calls the *)
(* function on the first bytes of a connection and gets its result.       *)
(***************************************************************************)
EXTENDS Integers, Sequences, HaproxyLiterals, CUtil, PortGrammar, IpGrammar

VARIABLES line, result

vars == <<line, result>>

CR == 13
LF == 10
PS == {"port_s", "port_len"}
PL == {"port_len"}

\* st1..st11: "PROXY TCP", '4' or '6' (either one, whatever the literals), ' ';
\* st12 is the first state of the source literal.
ProxyPrefix == <<80, 82, 79, 88, 89, SP, 84, 67, 80>>
Prelude ==
  {Tr(i, ProxyPrefix[i], ProxyPrefix[i], i + 1, {}) : i \in 1..9}
  \cup {Tr(10, D(4), D(4), 11, {}), Tr(10, D(6), D(6), 11, {}), Tr(11, SP, SP, 12, {})}

\* st28..st32, st47..st50: the source port.  A first '0' (tr60) only marks
\* port_s, and up to two more zeros leave port_len alone; each other digit
\* sets port_len.  The state counts the digits still allowed.
SourcePortDigits ==
  {Tr(28, D(0), D(0), 29, {"port_s"}), Tr(28, D(6), D(6), 51, PS),
   Tr(28, D(7), D(9), 50, PS), Tr(28, D(1), D(5), 49, PS),
   Tr(29, D(0), D(0), 30, {}), Tr(29, D(1), D(9), 48, PL),
   Tr(30, D(0), D(0), 31, {}), Tr(30, D(1), D(9), 47, PL),
   Tr(31, D(1), D(9), 32, PL),
   Tr(32, SP, SP, 33, {}),
   Tr(47, SP, SP, 33, {}), Tr(47, D(0), D(9), 32, PL),
   Tr(48, SP, SP, 33, {}), Tr(48, D(0), D(9), 47, PL),
   Tr(49, SP, SP, 33, {}), Tr(49, D(0), D(9), 50, PL),
   Tr(50, SP, SP, 33, {}), Tr(50, D(0), D(9), 48, PL)}

\* st51..st54 with the 6553x cap dropped at st54.
SourcePortCapNoLimit ==
  {Tr(51, SP, SP, 33, {}), Tr(51, D(5), D(5), 52, PL), Tr(51, D(6), D(9), 48, PL), Tr(51, D(0), D(4), 50, PL),
   Tr(52, SP, SP, 33, {}), Tr(52, D(5), D(5), 53, PL), Tr(52, D(6), D(9), 47, PL), Tr(52, D(0), D(4), 48, PL),
   Tr(53, SP, SP, 33, {}), Tr(53, D(3), D(3), 54, PL), Tr(53, D(4), D(9), 32, PL), Tr(53, D(0), D(2), 47, PL),
   Tr(54, SP, SP, 33, {}), Tr(54, D(0), D(9), 32, PL)}

\* st51..st54: a source port starting "6", "65", "655", "6553".
SourcePortCap ==
  {Tr(51, SP, SP, 33, {}), Tr(51, D(5), D(5), 52, PL), Tr(51, D(6), D(9), 48, PL), Tr(51, D(0), D(4), 50, PL),
   Tr(52, SP, SP, 33, {}), Tr(52, D(5), D(5), 53, PL), Tr(52, D(6), D(9), 47, PL), Tr(52, D(0), D(4), 48, PL),
   Tr(53, SP, SP, 33, {}), Tr(53, D(3), D(3), 54, PL), Tr(53, D(4), D(9), 32, PL), Tr(53, D(0), D(2), 47, PL),
   Tr(54, SP, SP, 33, {}), Tr(54, D(0), D(5), 32, PL)}

\* st33..st42: the destination port (no actions), then CR, and LF, whose
\* tr80 sets finished and enters st375, which has no transition.
DestinationPortDigits ==
  {Tr(33, D(0), D(0), 34, {}), Tr(33, D(6), D(6), 43, {}),
   Tr(33, D(7), D(9), 42, {}), Tr(33, D(1), D(5), 41, {}),
   Tr(34, D(0), D(0), 35, {}), Tr(34, D(1), D(9), 40, {}),
   Tr(35, D(0), D(0), 36, {}), Tr(35, D(1), D(9), 39, {}),
   Tr(36, D(1), D(9), 37, {}),
   Tr(37, CR, CR, 38, {}),
   Tr(38, LF, LF, 375, {"finished"}),
   Tr(39, CR, CR, 38, {}), Tr(39, D(0), D(9), 37, {}),
   Tr(40, CR, CR, 38, {}), Tr(40, D(0), D(9), 39, {}),
   Tr(41, CR, CR, 38, {}), Tr(41, D(0), D(9), 42, {}),
   Tr(42, CR, CR, 38, {}), Tr(42, D(0), D(9), 40, {})}

\* st43..st46 with the 6553x cap dropped at st46.
DestinationPortCapNoLimit ==
  {Tr(43, CR, CR, 38, {}), Tr(43, D(5), D(5), 44, {}), Tr(43, D(6), D(9), 40, {}), Tr(43, D(0), D(4), 42, {}),
   Tr(44, CR, CR, 38, {}), Tr(44, D(5), D(5), 45, {}), Tr(44, D(6), D(9), 39, {}), Tr(44, D(0), D(4), 40, {}),
   Tr(45, CR, CR, 38, {}), Tr(45, D(3), D(3), 46, {}), Tr(45, D(4), D(9), 37, {}), Tr(45, D(0), D(2), 39, {}),
   Tr(46, CR, CR, 38, {}), Tr(46, D(0), D(9), 37, {})}

\* st43..st46: a destination port starting "6", "65", "655", "6553".
DestinationPortCap ==
  {Tr(43, CR, CR, 38, {}), Tr(43, D(5), D(5), 44, {}), Tr(43, D(6), D(9), 40, {}), Tr(43, D(0), D(4), 42, {}),
   Tr(44, CR, CR, 38, {}), Tr(44, D(5), D(5), 45, {}), Tr(44, D(6), D(9), 39, {}), Tr(44, D(0), D(4), 40, {}),
   Tr(45, CR, CR, 38, {}), Tr(45, D(3), D(3), 46, {}), Tr(45, D(4), D(9), 37, {}), Tr(45, D(0), D(2), 39, {}),
   Tr(46, CR, CR, 38, {}), Tr(46, D(0), D(5), 37, {})}

Delta == Prelude \cup SourceLiteral \cup DestinationLiteral \cup SourcePortDigits
         \cup SourcePortCap \cup DestinationPortDigits \cup DestinationPortCap

Out == Outgoing(Delta)

HaproxyStart == 1

Rejected == [ok |-> FALSE, num_bytes |-> 0, ip_type |-> "none", ip |-> <<>>, port |-> 0]

\* Utils_parser_haproxy_protocol: false unless valid; otherwise
\* [num_bytes, ip_type, ip, port] with ip_type :ipv4 only for an IPv4
\* ip_type (:ipv6 otherwise), ip the ip_s/ip_len span and port
\* str_to_int of the port_s/port_len span.
ParserHaproxyProtocol(str) ==
  LET x == Execute(Out, HaproxyStart, str)
      r == x.run
  IN IF ~x.valid THEN Rejected
     ELSE [ok |-> TRUE, num_bytes |-> x.total_len,
           ip_type |-> IF r.ip_type = "ipv4" THEN "ipv4" ELSE "ipv6",
           ip |-> SubSeq(str, r.ip_s + 1, r.ip_s + r.ip_len),
           port |-> StrToInt(SubSeq(str, r.port_s + 1, r.port_s + r.port_len))]

Pending == [ok |-> FALSE, num_bytes |-> 0, ip_type |-> "pending", ip |-> <<>>, port |-> 0]

\* The reader has the connection's first bytes, one of the strings Lines.
Init(Lines) ==
  /\ line \in Lines
  /\ result = Pending

\* The reader calls parser_haproxy_protocol on the connection's first bytes.
Parse ==
  /\ result = Pending
  /\ result' = ParserHaproxyProtocol(line)
  /\ UNCHANGED line

Next == Parse

Spec(Lines) == Init(Lines) /\ [][Next]_vars

-----------------------------------------------------------------------------
(* The PROXY protocol v1 line that spec.md 4.3 and 6 describe. *)

\* The fields of a line before its CRLF, split at the spaces.
LineFields(str) == Fields(SubSeq(str, 1, Len(str) - 2), SP)

\* "PROXY TCP4|TCP6 <ip> <ip> <port> <port>\r\n" with two IP addresses
\* and ports as Port allows.
IsProxyLine(str, Port(_)) ==
  /\ Len(str) >= 2
  /\ SubSeq(str, Len(str) - 1, Len(str)) = <<CR, LF>>
  /\ LET f == LineFields(str)
     IN /\ Len(f) = 6
        /\ f[1] = SubSeq(ProxyPrefix, 1, 5)
        /\ f[2] \in {SubSeq(ProxyPrefix, 7, 9) \o <<D(4)>>, SubSeq(ProxyPrefix, 7, 9) \o <<D(6)>>}
        /\ IsIPaddress(f[3]) /\ IsIPaddress(f[4])
        /\ Port(f[5]) /\ Port(f[6])

Called == result # Pending

TypeOK ==
  /\ result.ok \in BOOLEAN
  /\ result.num_bytes \in 0..65535
  /\ result.ip_type \in {"pending", "none", "ipv4", "ipv6"}
  /\ result.ip \in Seq(0..255)
  /\ result.port \in 0..65535

\* parser_haproxy_protocol returns an array for every PROXY line whose
\* addresses are RFC 3986 IPv4 or IPv6 addresses and whose ports are
\* written without leading zeros, and returns one only for such a line
\* with ports in 1..65535: the 177 source and 159 destination literal
\* states of HaproxyLiterals accept exactly the two address grammars, and
\* the port states st28..st54 and st33..st46 exactly the decimal range.
AcceptsProxyLines ==
  Called =>
    /\ IsProxyLine(line, CanonicalPort) => result.ok
    /\ result.ok => IsProxyLine(line, InRangePort)

\* An accepted line reports its source endpoint (spec.md 8, "HAProxy
\* line"): the first address and its family, the source port's value as
\* str_to_int reads the port_s/port_len span the actions of st28..st54
\* delimit, and num_bytes the whole line including CRLF.
ReportsSourceEndpoint ==
  result.ok =>
    /\ result.ip = LineFields(line)[3]
    /\ result.ip_type = IF IsIPv4address(LineFields(line)[3]) THEN "ipv4" ELSE "ipv6"
    /\ result.port = DecimalValue(LineFields(line)[5])
    /\ result.num_bytes = Len(line)

\* spec.md 4.3: num_bytes (total_len) tells the caller how many leading
\* bytes form the PROXY line "so the caller can strip it from the
\* stream": a PROXY line followed by the first bytes of the proxied
\* stream is recognised, with num_bytes the length of the line alone
\* (the final test "finished && len == p-str" of the execute function).
StripsProxyLine ==
  Called =>
    \A n \in 1..Len(line) :
      IsProxyLine(SubSeq(line, 1, n), CanonicalPort) => result.ok /\ result.num_bytes = n
====
