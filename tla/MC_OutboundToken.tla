--------------------------- MODULE MC_OutboundToken ---------------------------
(***************************************************************************)
(* Candidate flow tokens: every address of AddressCandidates              *)
(* (MC_IpLiterals, which takes every transition of the literal states)    *)
(* followed by "_5060"; an IPv4 and an IPv6 address followed by '_' and    *)
(* every port string of PortStrings (MC_IpLiterals: fewer than           *)
(* MaxPortDigits digits from PortAlphabet, or MaxPortDigits digits from    *)
(* LongPortAlphabet), whose digits take every branch of the port states;  *)
(* and tokens with a part missing or added.                                *)
(***************************************************************************)
EXTENDS OutboundToken, MC_IpLiterals

Port5060 == Ds(<<5, 0, 6, 0>>)
AddrV6 == <<COLON, COLON>> \o One                                          \* ::1

FlowToken(a, port) == a \o <<US>> \o port

MalformedTokens ==
  { Addr192,                                  \* no port
    Addr192 \o <<US>>,                        \* empty port
    <<US>> \o Port5060,                       \* no address
    FlowToken(AddrV6, Port5060) \o <<US>>,    \* trailing byte
    Addr192 \o <<US, US>> \o Port5060,
    <<>> }

\* Each family of candidates is a definition of its own, so TLC builds
\* every union from two sets it has already computed.
AddressTokens == {FlowToken(a, Port5060) : a \in AddressCandidates}
PortTokens == {FlowToken(a, p) : a \in {Addr192, AddrV6}, p \in PortStrings}
WellFormedTokens == AddressTokens \cup PortTokens

MC_Tokens == WellFormedTokens \cup MalformedTokens
====
