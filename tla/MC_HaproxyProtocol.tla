-------------------------- MODULE MC_HaproxyProtocol --------------------------
(***************************************************************************)
(* Candidate strings for parser_haproxy_protocol.  The source and the     *)
(* destination port each range over every digit string of fewer than      *)
(* MaxPortDigits digits from PortAlphabet, and of MaxPortDigits digits     *)
(* from LongPortAlphabet (one digit too many), whose digits take every branch *)
(* of the port states (0; 1..5; 6; 7..9; 5 and 6..9 and 0..4 after "6";   *)
(* 3, 4..9 and 0..2 after "655"; 0..5 and 6..9 after "6553"), the other   *)
(* fields those of spec.md 8's example line.  The source and the           *)
(* destination address each range over AddressCandidates (MC_IpLiterals), *)
(* the other fields fixed.  The malformed lines vary one other part.      *)
(***************************************************************************)
EXTENDS HaproxyProtocol, MC_IpLiterals

ProxyLine(fam, src, dst, sp, dp) ==
  ProxyPrefix \o <<D(fam), SP>> \o src \o <<SP>> \o dst \o <<SP>> \o sp \o <<SP>> \o dp \o <<CR, LF>>

Port443 == <<D(4), D(4), D(3)>>
Port56324 == <<D(5), D(6), D(3), D(2), D(4)>>
Addr19211 == Join(<<Ds(<<1, 9, 2>>), Ds(<<1, 6, 8>>), Ds(<<0>>), Ds(<<1, 1>>)>>, 46) \* 192.168.0.11
GoodLine == ProxyLine(4, Addr192, Addr19211, Port56324, Port443)

\* One part of GoodLine changed: the family digit, the CRLF, nothing after
\* "PROXY", bytes after the line, a missing field, a doubled space.
MalformedLines ==
  { ProxyLine(5, Addr192, Addr19211, Port56324, Port443),
    SubSeq(GoodLine, 1, Len(GoodLine) - 1),
    SubSeq(GoodLine, 1, Len(GoodLine) - 2) \o <<LF>>,
    SubSeq(GoodLine, 1, 5),
    <<>>,
    GoodLine \o <<73>>,
    ProxyPrefix \o <<D(4), SP>> \o Addr192 \o <<SP>> \o Port56324 \o <<SP>> \o Port443 \o <<CR, LF>>,
    ProxyPrefix \o <<D(4), SP, SP>> \o Addr192 \o <<SP>> \o Addr19211 \o <<SP>> \o Port56324 \o <<SP>> \o Port443 \o <<CR, LF>> }

\* Each family of candidates is a definition of its own, so TLC builds
\* every union from two sets it has already computed.
SourcePortLines == {ProxyLine(4, Addr192, Addr19211, sp, Port443) : sp \in PortStrings}
DestinationPortLines == {ProxyLine(6, Addr192, Addr19211, Port56324, dp) : dp \in PortStrings}
SourceAddressLines == {ProxyLine(4, a, Addr19211, Port56324, Port443) : a \in AddressCandidates}
DestinationAddressLines == {ProxyLine(6, Addr192, a, Port56324, Port443) : a \in AddressCandidates}
PortLines == SourcePortLines \cup DestinationPortLines
AddressLines == SourceAddressLines \cup DestinationAddressLines
WellFormedLines == PortLines \cup AddressLines

MC_Lines == WellFormedLines \cup MalformedLines

\* A PROXY line followed by the first byte of a SIP request ("I" of INVITE)
\* or of a second CRLF.
MC_TrailingCandidates == {GoodLine \o <<73>>, GoodLine \o <<CR>>}

TrailingSpec == Init(MC_TrailingCandidates) /\ [][Next]_vars
====
