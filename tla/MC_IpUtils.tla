------------------------------- MODULE MC_IpUtils -------------------------------
(***************************************************************************)
(* Calls of the IP utilities on addresses chosen for the cases the code    *)
(* and glibc tell apart: one address written in several forms (with and   *)
(* without "::", as an IPv6 reference, IPv4-mapped in dotted and in hex   *)
(* form), an upper-case hex digit, equal zero runs, a trailing "::", the  *)
(* longest IPv6 the classifier accepts (45 bytes) and its reference (47), *)
(* and strings that are no address.                                        *)
(***************************************************************************)
EXTENDS IpUtils, MC_IpLiterals

Colon == 58
Dot == 46
Bracketed(s) == <<LBRACKET>> \o s \o <<RBRACKET>>
G(ds) == Ds(ds)                                 \* a decimal-digit group
FFFF == <<102, 102, 102, 102>>                  \* "ffff"

V4a == Join(<<G(<<1>>), G(<<2>>), G(<<3>>), G(<<4>>)>>, Dot)        \* 1.2.3.4
V4b == Join(<<G(<<1>>), G(<<2>>), G(<<3>>), G(<<5>>)>>, Dot)        \* 1.2.3.5
Loop == <<Colon, Colon>> \o One                                      \* ::1
LoopLong == Join(<<G(<<0>>), G(<<0>>), G(<<0>>), G(<<0>>), G(<<0>>), G(<<0>>), G(<<0>>), One>>, Colon)
Mapped == <<Colon, Colon>> \o FFFF \o <<Colon>> \o V4a                \* ::ffff:1.2.3.4
MappedHex == <<Colon, Colon>> \o FFFF \o <<Colon>> \o G(<<1, 0, 2>>) \o <<Colon>> \o G(<<3, 0, 4>>)
Compat == <<Colon, Colon>> \o V4a                                    \* ::1.2.3.4
Tie == Join(<<G(<<0>>), G(<<0>>), One, G(<<0>>), G(<<0>>), One, G(<<0>>), G(<<0>>)>>, Colon)
Trailing == One \o <<Colon, Colon>>                                 \* 1::
UpperA == <<65, Colon, Colon>>                                       \* A::
Max45 == Join(<<G(<<1, 1, 1, 1>>), G(<<1, 1, 1, 1>>), G(<<1, 1, 1, 1>>), G(<<1, 1, 1, 1>>),
                G(<<1, 1, 1, 1>>), G(<<1, 1, 1, 1>>),
                Join(<<G(<<2, 5, 5>>), G(<<2, 5, 5>>), G(<<2, 5, 5>>), G(<<2, 5, 5>>)>>, Dot)>>, Colon)
Short == Join(<<One, G(<<2>>), G(<<3>>)>>, Dot)                      \* 1.2.3
NoIp == <<120>>                                                      \* x

\* The pure IPv6 forms and the references.
V6Forms == {Loop, LoopLong, Mapped, MappedHex, Compat, Tie, Trailing, UpperA, Max45}
Refs == {Bracketed(Loop), Bracketed(LoopLong), Bracketed(Max45)}
NoAddresses == {Short, NoIp, <<>>, <<LBRACKET>> \o Loop}

CompareOperands == {V4a, V4b, Loop, LoopLong, Mapped, MappedHex, Max45, Bracketed(Loop),
                    Bracketed(Max45), Short, <<LBRACKET>> \o Loop}

Args(fn, a, b, force, type) == [fn |-> fn, a |-> a, b |-> b, force |-> force, type |-> type]

MC_IpCalls ==
  {Args(f, a, <<>>, "absent", "") : f \in {"is_ip", "is_pure_ip", "ip_type"},
                                    a \in {V4a, Loop, Bracketed(Loop)} \cup NoAddresses}
  \cup {Args(f, a, b, "absent", "") : f \in {"compare_ips", "compare_pure_ips"},
                                      a \in CompareOperands, b \in CompareOperands}
  \cup {Args("normalize_ipv6", a, <<>>, f, "") : a \in V6Forms \cup Refs \cup {V4a, NoIp, <<>>},
                                                 f \in {"absent", "nil", "true"}}
  \cup {Args("normalize_host", a, <<>>, f, t) : a \in {LoopLong, Bracketed(LoopLong), V4a},
                                                f \in {"absent", "true"}, t \in {"ipv6", "ipv6_reference", "domain"}}
  \cup {Args("to_pure_ip", a, <<>>, "absent", "") : a \in {Bracketed(Loop), Loop, <<LBRACKET>>, <<>>}}

\* normalize_ipv6 on strings that start with '[' and are no reference:
\* an unclosed one, "[" alone, and one of 51 bytes.
MC_BracketCalls ==
  {Args("normalize_ipv6", a, <<>>, "absent", "") :
     a \in {<<LBRACKET>> \o Loop, <<LBRACKET>>, <<LBRACKET>> \o Max45 \o <<Colon, Colon, Colon, Colon, RBRACKET>>}}

BracketInit == IpInit(MC_BracketCalls)
IpPassInit == IpInit(MC_IpCalls)
====
