------------------------- MODULE MC_StunResponder -------------------------
(***************************************************************************)
(* Datagrams: a Binding request with and without the RFC 5389 cookie, a   *)
(* Binding indication (second octet 0x11), a non-STUN first octet and a   *)
(* 19-byte runt; sources: an IPv4 and an IPv6 address and a string that   *)
(* is neither; ports whose two octets differ and are not symmetric under  *)
(* the cookie; builds of both byte orders, with signed and unsigned char. *)
(***************************************************************************)
EXTENDS StunResponder

TransactionId == <<1, 2, 3, 4, 5, 6, 7, 8, 9, 10, 11, 12>>
OldCookie == <<0, 0, 161, 7>>

Datagram(b0, b1, cookie) == <<b0, b1, 0, 0>> \o cookie \o TransactionId

MC_Requests ==
  { Datagram(0, 1, MagicCookie), Datagram(0, 1, OldCookie),
    Datagram(0, 17, MagicCookie), Datagram(22, 1, MagicCookie),
    SubSeq(Datagram(0, 1, MagicCookie), 1, 19) }

MC_SourceIps ==
  { [af |-> "ipv4", addr |-> <<192, 0, 2, 1>>],
    [af |-> "ipv6", addr |-> <<32, 1, 13, 184, 0, 0, 0, 0, 0, 0, 0, 0, 0, 0, 0, 1>>],
    [af |-> "none", addr |-> <<>>] }

\* The IPv4 source, whose X-Address goes through xor_ipv4.
IPv4Sources == {[af |-> "ipv4", addr |-> <<192, 0, 2, 1>>]}

MC_SourcePorts == {54321, 5060}

MC_Platforms == [endian : {"little", "big"}, signed_char : BOOLEAN]
LittleEndianSigned == {[endian |-> "little", signed_char |-> TRUE]}
BigEndianSigned == {[endian |-> "big", signed_char |-> TRUE]}
LittleEndianUnsigned == {[endian |-> "little", signed_char |-> FALSE]}
====
