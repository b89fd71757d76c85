--------------------------- MODULE StunResponder ---------------------------
(***************************************************************************)
(* OverSIP::Stun.parse_request (src/ext/stun/stun_ruby.c): answers a STUN *)
(* Binding request received on a SIP UDP socket.  The function is pure;   *)
(* the module is a server that takes one datagram at a time, so TLC       *)
(* enumerates every request, source address and port of the model.        *)
(*                                                                         *)
(* Bytes are integers 0..255.  The C code reads and writes multi-byte     *)
(* integers through pointer casts and memcpy, so what it puts on the wire *)
(* depends on the host's byte order, and its comparison of a char with a  *)
(* negative constant depends on whether char is signed.  Both are build   *)
(* properties, chosen once per behaviour from Platforms.                   *)
(***************************************************************************)
EXTENDS Integers, Sequences, Bitwise

CONSTANTS
  Requests,     \* datagrams whose first octet the SIP reader found to be 0..3
  SourceIps,    \* source addresses: [af |-> "ipv4" | "ipv6" | "none", addr |-> bytes]
  SourcePorts,  \* source ports as the Ruby Fixnum passed in
  Platforms     \* [endian |-> "little" | "big", signed_char |-> BOOLEAN]

VARIABLES
  request, source_ip, source_port,   \* the arguments of parse_request
  platform,                          \* the build the extension runs on
  outcome                            \* "pending", then its return value

stun_vars == <<request, source_ip, source_port, platform, outcome>>

StunPending == [kind |-> "pending", bytes |-> <<>>]
NotStun == [kind |-> "nil", bytes |-> <<>>]     \* Qnil: not STUN, maybe a SIP message
Invalid == [kind |-> "false", bytes |-> <<>>]   \* Qfalse: STUN but not a Binding request
Response(b) == [kind |-> "response", bytes |-> b]

StunMessageMinSize == 20
MagicCookie == <<33, 18, 164, 66>>   \* 0x2112A442 in network byte order

\* Integers seen through a pointer cast, and their bytes as memcpy copies them.
Load16(s, e) == IF e = "little" THEN s[1] + 256 * s[2] ELSE 256 * s[1] + s[2]
\* The low 16 bits of *(uint32_t *)s: the first two bytes on a
\* little-endian host, the last two on a big-endian one.  (uint16_t)(a ^ b)
\* is (uint16_t)a ^ (uint16_t)b, and a uint32 does not fit TLC's integers.
Low16Of32(s, e) == IF e = "little" THEN Load16(s, e) ELSE Load16(SubSeq(s, 3, 4), e)
Store16(x, e) == IF e = "little" THEN <<x % 256, x \div 256>> ELSE <<x \div 256, x % 256>>
Store32(x, e) == IF e = "little" THEN Store16(x % 65536, e) \o Store16(x \div 65536, e)
                 ELSE Store16(x \div 65536, e) \o Store16(x % 65536, e)

\* htons(): its argument is converted to uint16_t, then swapped on a
\* little-endian host.
Htons(x, e) ==
  LET y == x % 65536 IN IF e = "little" THEN (y % 256) * 256 + y \div 256 ELSE y

\* A byte read as a C char.
CharValue(b, pf) == IF pf.signed_char /\ b >= 128 THEN b - 256 ELSE b

\* The RFC 5389 test on request[4..7] against 33, 18, -92, 66.
HasMagicCookie(req, pf) ==
  req[5] = 33 /\ req[6] = 18 /\ CharValue(req[7], pf) = -92 /\ req[8] = 66

Family(ip) == IF ip.af = "ipv6" THEN 2 ELSE 1

\* XOR-MAPPED-ADDRESS value: X-Port = htons(port ^ *(uint16_t *)cookie);
\* IPv4 X-Address = htons(s_addr ^ *(uint32_t *)cookie) stored as uint32;
\* IPv6 X-Address = address ^ (cookie . transaction id), byte by byte.
XorMappedValue(ip, port, mc, e) ==
  <<0, Family(ip)>>
  \o Store16(Htons((port ^^ Load16(mc, e)), e), e)
  \o (IF ip.af = "ipv4"
      THEN Store32(Htons((Low16Of32(ip.addr, e) ^^ Low16Of32(mc, e)), e), e)
      ELSE [i \in 1..16 |-> (ip.addr[i] ^^ mc[i])])

\* MAPPED-ADDRESS value without its leading reserved byte.
MappedValueNoReserved(ip, port, e) ==
  <<Family(ip)>> \o Store16(Htons(port, e), e) \o ip.addr

\* MAPPED-ADDRESS value with the port copied in host byte order.
MappedValueHostOrder(ip, port, e) ==
  <<0, Family(ip)>> \o Store16(port, e) \o ip.addr

\* MAPPED-ADDRESS value: the port through htons, the address as stored.
MappedValue(ip, port, e) ==
  <<0, Family(ip)>> \o Store16(Htons(port, e), e) \o ip.addr

\* Stun_parse_request with the IPv4 length fields on the IPv6 branch too.
StunParseRequestIpv4Lengths(req, ip, port, pf) ==
  IF req[1] # 0 THEN NotStun
  ELSE IF Len(req) < StunMessageMinSize THEN Invalid
  ELSE IF req[2] # 1 THEN Invalid
  ELSE IF ip.af = "none" THEN Invalid
  ELSE LET xor == HasMagicCookie(req, pf)
       IN Response(<<1, 1, 0, 12>> \o SubSeq(req, 5, 20) \o <<0, IF xor THEN 32 ELSE 1, 0, 8>>
                   \o (IF xor THEN XorMappedValue(ip, port % 65536, SubSeq(req, 5, 20), pf.endian)
                       ELSE MappedValue(ip, port % 65536, pf.endian)))

\* Stun_parse_request: the early returns in the code's order, then the
\* 20-byte header (type 0x0101, length, cookie and transaction id copied),
\* the attribute header and its value.
StunParseRequest(req, ip, port, pf) ==
  IF req[1] # 0 THEN NotStun
  ELSE IF Len(req) < StunMessageMinSize THEN Invalid
  ELSE IF req[2] # 1 THEN Invalid
  ELSE IF ip.af = "none" THEN Invalid
  ELSE LET port16 == port % 65536
           xor == HasMagicCookie(req, pf)
           valueLen == IF ip.af = "ipv6" THEN 20 ELSE 8
       IN Response(<<1, 1, 0, valueLen + 4>> \o SubSeq(req, 5, 20)
                   \o <<0, IF xor THEN 32 ELSE 1, 0, valueLen>>
                   \o (IF xor THEN XorMappedValue(ip, port16, SubSeq(req, 5, 20), pf.endian)
                       ELSE MappedValue(ip, port16, pf.endian)))

StunInit ==
  /\ request \in Requests
  /\ source_ip \in SourceIps
  /\ source_port \in SourcePorts
  /\ platform \in Platforms
  /\ outcome = StunPending

\* parse_request on the current datagram.
Respond ==
  /\ outcome = StunPending
  /\ outcome' = StunParseRequest(request, source_ip, source_port, platform)
  /\ UNCHANGED <<request, source_ip, source_port, platform>>

\* The SIP UDP reader passes the next datagram.
NextDatagram ==
  /\ outcome # StunPending
  /\ request' \in Requests
  /\ source_ip' \in SourceIps
  /\ source_port' \in SourcePorts
  /\ outcome' = StunPending
  /\ UNCHANGED platform

StunNext == Respond \/ NextDatagram

StunSpec == StunInit /\ [][StunNext]_stun_vars

-----------------------------------------------------------------------------
Byte == 0..255

StunTypeOK ==
  /\ outcome.kind \in {"pending", "nil", "false", "response"}
  /\ outcome.bytes \in Seq(Byte)
  /\ outcome.kind = "response" <=> Len(outcome.bytes) \in {32, 44}
  /\ platform \in Platforms

IsResponse == outcome.kind = "response"
Resp(i) == outcome.bytes[i]
MappedPortAndAddress == SubSeq(outcome.bytes, 25, Len(outcome.bytes))

\* RFC 5389 6 and 15 and spec.md 4.2: the outcome is nil exactly when the
\* first octet is not 0, false when the datagram is shorter than the STUN
\* header, is not a Binding request or comes from an address that is
\* neither IPv4 nor IPv6, and otherwise a success response of 32 (IPv4) or
\* 44 (IPv6) bytes whose message length and attribute length fields agree
\* with its size and which echoes the request's cookie and transaction id.
ResponseFraming ==
  outcome # StunPending =>
    /\ (outcome = NotStun) <=> request[1] # 0
    /\ (outcome = Invalid) <=> request[1] = 0 /\ (Len(request) < 20 \/ request[2] # 1
                                                 \/ source_ip.af = "none")
    /\ IsResponse =>
         /\ Len(outcome.bytes) = IF source_ip.af = "ipv6" THEN 44 ELSE 32
         /\ Resp(1) = 1 /\ Resp(2) = 1
         /\ 256 * Resp(3) + Resp(4) = Len(outcome.bytes) - 20
         /\ 256 * Resp(23) + Resp(24) = Len(outcome.bytes) - 24
         /\ SubSeq(outcome.bytes, 5, 20) = SubSeq(request, 5, 20)

\* RFC 3489 11.2.1 and spec.md 4.2: a MAPPED-ADDRESS carries the family,
\* the source port and the source address in network byte order, on a
\* host of either byte order (the htons and memcpy of the RFC 3489 branch).
MappedAddressIsSource ==
  IsResponse /\ Resp(22) = 1 =>
    MappedPortAndAddress = <<0, Family(source_ip), source_port \div 256, source_port % 256>>
                           \o source_ip.addr

\* RFC 5389 15.2 and spec.md 4.2 and 8: an XOR-MAPPED-ADDRESS decodes to
\* the source endpoint: its X-Port is the port XORed with the cookie's 16
\* most significant bits and its X-Address the address XORed with the
\* cookie (IPv4) or with the cookie and transaction id (IPv6), both in
\* network byte order (the xor_port, xor_ipv4 and xor_ipv6 computations of
\* the RFC 5389 branch).
XorMappedAddressDecodes ==
  IsResponse /\ Resp(22) = 32 =>
    SubSeq(outcome.bytes, 27, Len(outcome.bytes)) =
      <<(source_port \div 256) ^^ 33, (source_port % 256) ^^ 18>>
      \o [i \in 1..Len(source_ip.addr) |-> (source_ip.addr[i] ^^ (MagicCookie \o SubSeq(request, 9, 20))[i])]

\* RFC 5389 12.2 and spec.md 4.2: a Binding request carrying the magic
\* cookie 0x2112A442 comes from an RFC 5389 client and is answered with an
\* XOR-MAPPED-ADDRESS (the cookie test of Stun_parse_request).
CookieSelectsXorMapping ==
  IsResponse /\ SubSeq(request, 5, 8) = MagicCookie => Resp(22) = 32
====
