---------------------------- MODULE MC_IpLiterals ----------------------------
(***************************************************************************)
(* Candidate address and port fields for MC_HaproxyProtocol and          *)
(* MC_OutboundToken.                                                       *)
(* An IPv4 candidate is "1.1.1.1" with one octet replaced by a value at   *)
(* or around a bound the octet states test (0, 1, 2, 9, 20..29, 99, 199,  *)
(* 200, 249, 250, 255, 256, leading zeros, four digits, empty), or with    *)
(* three or five octets.  An IPv6 candidate has n = 0..8 groups "1", with  *)
(* or without a "::" at each place, and either one group replaced by a    *)
(* group from Groups or an IPv4 candidate after the groups.  Together    *)
(* they take every transition of the literal states of both machines:     *)
(* the states count the groups and, while a group holds only digits,      *)
(* track whether it may still start an embedded IPv4 address.             *)
(***************************************************************************)
EXTENDS Integers, Sequences, SequencesExt, PortGrammar

Ds(ds) == [i \in 1..Len(ds) |-> D(ds[i])]    \* digits to their bytes
One == Ds(<<1>>)
LA == 97    \* 'a'
LG == 103   \* 'g'

\* The fields fs joined by the byte sep.
RECURSIVE Join(_, _)
Join(fs, sep) ==
  CASE fs = <<>> -> <<>>
    [] Len(fs) = 1 -> fs[1]
    [] OTHER -> fs[1] \o <<sep>> \o Join(Tail(fs), sep)

OctetVariants ==
  {Ds(<<0>>), One, Ds(<<2>>), Ds(<<3>>), Ds(<<9>>), Ds(<<1, 0>>), Ds(<<2, 0>>),
   Ds(<<2, 4>>), Ds(<<2, 5>>), Ds(<<2, 6>>), Ds(<<2, 9>>), Ds(<<3, 0>>), Ds(<<9, 9>>),
   Ds(<<1, 0, 0>>), Ds(<<1, 9, 9>>), Ds(<<2, 0, 0>>), Ds(<<2, 4, 9>>), Ds(<<2, 5, 0>>),
   Ds(<<2, 5, 5>>), Ds(<<2, 5, 6>>), Ds(<<2, 6, 0>>), Ds(<<3, 0, 0>>), Ds(<<0, 1>>),
   Ds(<<1, 0, 0, 0>>), <<>>}

V4Literals ==
  {Join(<<One, One, One>>, 46), Join(<<One, One, One, One, One>>, 46)}
  \cup {Join([j \in 1..4 |-> IF j = i THEN o ELSE One], 46) : i \in 1..4, o \in OctetVariants}

\* Digit groups at the octet bounds, the same followed by 'a', and hex
\* groups of one to five digits ("fFfF" mixes cases, "g" is no hex digit).
DigitGroups ==
  {Ds(<<0>>), One, Ds(<<2>>), Ds(<<3>>), Ds(<<1, 0>>), Ds(<<2, 5>>), Ds(<<2, 6>>),
   Ds(<<3, 0>>), Ds(<<9, 9>>), Ds(<<1, 9, 9>>), Ds(<<2, 4, 9>>), Ds(<<2, 5, 5>>),
   Ds(<<2, 5, 6>>), Ds(<<3, 0, 0>>)}
Groups ==
  DigitGroups \cup {g \o <<LA>> : g \in DigitGroups}
  \cup {<<LA>>, <<LA, D(1)>>, <<102, 70, 102, 70>>, Ds(<<1, 2, 3, 4>>), Ds(<<1, 2, 3, 4, 5>>), <<LG>>}

\* The groups v joined by ':', with "::" after the first dc of them
\* (dc = -1: no "::").
Shape(v, dc) ==
  IF dc = -1 THEN Join(v, 58)
  ELSE Join(SubSeq(v, 1, dc), 58) \o <<58, 58>> \o Join(SubSeq(v, dc + 1, Len(v)), 58)

WithTail(s, t) == s \o (IF s # <<>> /\ Last(s) # 58 THEN <<58>> ELSE <<>>) \o t

V6Literals ==
  UNION {
    LET base == [j \in 1..n |-> One]
        variants == {base} \cup {[base EXCEPT ![i] = g] : i \in 1..n, g \in Groups}
    IN UNION {{Shape(v, dc) : v \in variants} \cup {WithTail(Shape(base, dc), t) : t \in V4Literals}
              : dc \in {-1} \cup 0..n}
  : n \in 0..8} \ {<<>>}

AddressCandidates == V4Literals \cup V6Literals

Addr192 == Join(<<Ds(<<1, 9, 2>>), Ds(<<1, 6, 8>>), Ds(<<0>>), One>>, 46)   \* 192.168.0.1

\* Port fields: every digit string of fewer than MaxPortDigits digits from
\* PortAlphabet, and of MaxPortDigits digits from LongPortAlphabet (one
\* digit too many).  Their digits take every branch of the port states of
\* both machines (0; 1..5; 6; 7..9; 5, 6..9 and 0..4 after "6"; 3, 4..9
\* and 0..2 after "655"; 0..5 and 6..9 after "6553").
MaxPortDigits == 6
PortAlphabet == {0, 3, 5, 6, 9}
LongPortAlphabet == {0, 5, 6}
DigitStrings(n, ds) == [1..n -> {D(d) : d \in ds}]
PortStrings ==
  UNION {DigitStrings(n, PortAlphabet) : n \in 1..MaxPortDigits - 1}
  \cup DigitStrings(MaxPortDigits, LongPortAlphabet)
====
