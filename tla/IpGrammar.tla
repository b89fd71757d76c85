------------------------------- MODULE IpGrammar -------------------------------
(***************************************************************************)
(* The reference for the address fields of the PROXY line and of the      *)
(* outbound flow token: an IPv4address or an IPv6address of RFC 3986      *)
(* section 3.2.2, the two alternatives spec.md 4.3 names ("an IPv4 or     *)
(* IPv6 literal").  Strings are sequences of byte values.                 *)
(***************************************************************************)
EXTENDS Integers, Sequences, SequencesExt, PortGrammar

\* The fields of s between the separator bytes sep ("a::b" has three):
\* the spans between consecutive positions of sep, with 0 and Len(s) + 1
\* at the two ends.
Fields(s, sep) ==
  LET at == <<0>> \o SelectSeq([i \in 1..Len(s) |-> i], LAMBDA i : s[i] = sep) \o <<Len(s) + 1>>
  IN [k \in 1..Len(at) - 1 |-> SubSeq(s, at[k] + 1, at[k + 1] - 1)]

\* dec-octet: "0".."255" in decimal, without leading zeros.
IsDecOctet(f) ==
  /\ Len(f) \in 1..3
  /\ \A i \in 1..Len(f) : IsDigit(f[i])
  /\ Len(f) = 1 \/ f[1] # D(0)
  /\ DecimalValue(f) <= 255

\* IPv4address = dec-octet "." dec-octet "." dec-octet "." dec-octet
IsIPv4address(s) ==
  LET fs == Fields(s, 46) IN Len(fs) = 4 /\ \A i \in 1..4 : IsDecOctet(fs[i])

\* h16 = 1*4HEXDIG
IsH16(f) ==
  /\ Len(f) \in 1..4
  /\ \A i \in 1..Len(f) : f[i] \in 48..57 \cup 65..70 \cup 97..102

\* The 16-bit pieces a run of ':'-separated fields stands for when every
\* field is an h16, the last one possibly (tail) an IPv4address (ls32,
\* two pieces); -1 when a field is neither.  The empty run has none.
Pieces(s, tail) ==
  IF s = <<>> THEN 0
  ELSE LET fs == Fields(s, 58)
           n == Len(fs)
           ok(i) == IsH16(fs[i]) \/ (tail /\ i = n /\ IsIPv4address(fs[i]))
       IN IF \A i \in 1..n : ok(i)
          THEN n + (IF tail /\ IsIPv4address(fs[n]) THEN 1 ELSE 0)
          ELSE -1

\* The first "::" of s, 0 if none.
DoubleColonAt(s) ==
  LET ks == {k \in 1..Len(s) - 1 : s[k] = 58 /\ s[k + 1] = 58}
  IN IF ks = {} THEN 0 ELSE CHOOSE k \in ks : \A j \in ks : k <= j

\* IPv6address: eight pieces, or fewer than eight around one "::" that
\* stands for the missing ones (the nine alternatives of RFC 3986).  A
\* second "::", or a ":::", leaves an empty field on one side.
IsIPv6address(s) ==
  LET k == DoubleColonAt(s)
      l == Pieces(SubSeq(s, 1, k - 1), FALSE)
      r == Pieces(SubSeq(s, k + 2, Len(s)), TRUE)
  IN IF k = 0 THEN Pieces(s, TRUE) = 8
     ELSE l >= 0 /\ r >= 0 /\ l + r <= 7

IsIPaddress(s) == IsIPv4address(s) \/ IsIPv6address(s)
====
