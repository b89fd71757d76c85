-------------------------------- MODULE IpUtils --------------------------------
(***************************************************************************)
(* The IP utilities of OverSIP::Utils (src/ext/utils/utils_ruby.c, with   *)
(* utils_normalize_ipv6 of utils_ruby.h and utils_compare_pure_ips of     *)
(* ip_utils.h): a behaviour is one call of one of them on strings of      *)
(* bytes.  The classifier utils_ip_parser_execute (a Ragel machine that   *)
(* is not in src) is modelled from spec.md 4.5 with the RFC 3986          *)
(* grammar of IpGrammar; inet_pton and inet_ntop are the C library's, and *)
(* are modelled by what glibc does.                                        *)
(***************************************************************************)
EXTENDS Integers, Sequences, SequencesExt, IpGrammar

VARIABLES
  ip_call,      \* the call: function name and arguments
  ip_result     \* the Ruby value it returns, or IpPending

ip_vars == <<ip_call, ip_result>>

\* Ruby values, as records of one shape: a tag t and the bytes v of a
\* String.  "raise" is an exception, "overflow" a write past a C array.
RV(t) == [t |-> t, v |-> <<>>]
RStr(b) == [t |-> "str", v |-> b]
RTrue == RV("true")
RFalse == RV("false")
RNil == RV("nil")
IpPending == RV("pending")

LBRACKET == 91
RBRACKET == 93
INET6_ADDRSTRLEN == 46

\* utils_ip_parser_execute(str, len) (spec.md 4.5, classify).
UtilsIpParserExecute(s) ==
  CASE IsIPv4address(s) -> "ipv4"
    [] IsIPv6address(s) -> "ipv6"
    [] Len(s) >= 2 /\ s[1] = LBRACKET /\ s[Len(s)] = RBRACKET
         /\ IsIPv6address(SubSeq(s, 2, Len(s) - 1)) -> "ipv6_reference"
    [] OTHER -> "error"

HexValue(c) == CASE c \in 48..57 -> c - 48 [] c \in 65..70 -> c - 55 [] OTHER -> c - 87
H16Value(f) == FoldLeft(LAMBDA a, c : 16 * a + HexValue(c), 0, f)

\* inet_pton(AF_INET, s, &a): 1 and the four octets for a dotted quad
\* without leading zeros (glibc's inet_pton4), 0 otherwise.
InetPton4(s) ==
  IF IsIPv4address(s)
  THEN [ret |-> 1, addr |-> [i \in 1..4 |-> DecimalValue(Fields(s, 46)[i])]]
  ELSE [ret |-> 0, addr |-> <<>>]

\* The 16-bit words of a run of ':'-separated fields, the last one
\* possibly (tail) a dotted quad standing for two words.
Words(t, tail) ==
  IF t = <<>> THEN <<>>
  ELSE LET fs == Fields(t, 58)
           W(i) == IF tail /\ i = Len(fs) /\ IsIPv4address(fs[i])
                   THEN LET o == InetPton4(fs[i]).addr IN <<256 * o[1] + o[2], 256 * o[3] + o[4]>>
                   ELSE <<H16Value(fs[i])>>
       IN FlattenSeq([i \in 1..Len(fs) |-> W(i)])

\* inet_pton(AF_INET6, s, &a): 1 and the eight words, "::" standing for
\* the zero words missing, for the text glibc's inet_pton6 accepts (the
\* RFC 4291 text form, which is RFC 3986's IPv6address); 0 otherwise.
\* -1 is only returned for an unknown address family.
InetPton6(s) ==
  IF ~IsIPv6address(s) THEN [ret |-> 0, addr |-> <<>>]
  ELSE LET k == DoubleColonAt(s)
           l == Words(SubSeq(s, 1, k - 1), FALSE)
           r == Words(SubSeq(s, k + 2, Len(s)), TRUE)
       IN [ret |-> 1,
           addr |-> IF k = 0 THEN Words(s, TRUE)
                    ELSE l \o [i \in 1..8 - Len(l) - Len(r) |-> 0] \o r]

RECURSIVE HexText(_), DecText(_)
HexText(x) == IF x < 16 THEN <<IF x < 10 THEN 48 + x ELSE 87 + x>>
              ELSE HexText(x \div 16) \o HexText(x % 16)
DecText(x) == IF x < 10 THEN <<48 + x>> ELSE DecText(x \div 10) \o <<48 + (x % 10)>>

\* The run of zero words inet_ntop6 replaces by "::": the first of the
\* longest runs, if it has two words or more; base 0 if there is none.
ZeroRunLen(w, i) == Cardinality({k \in i..8 : \A j \in i..k : w[j] = 0})
BestRun(w) ==
  LET starts == {i \in 1..8 : w[i] = 0 /\ (i = 1 \/ w[i - 1] # 0)}
      m == IF starts = {} THEN 0 ELSE Max({ZeroRunLen(w, i) : i \in starts})
  IN IF m < 2 THEN [base |-> 0, len |-> 0]
     ELSE [base |-> Min({i \in starts : ZeroRunLen(w, i) = m}), len |-> m]

\* inet_ntop(AF_INET6, a, buf, INET6_ADDRSTRLEN) of glibc: the words in
\* "%x" separated by ':', the best zero run as "::", and the last two
\* words as a dotted quad after a leading run of six zero words or of
\* five zero words and ffff.
InetNtop6(w) ==
  LET b == BestRun(w)
      InRun(i) == b.base # 0 /\ i \in b.base..b.base + b.len - 1
      Step(acc, i) ==
        IF acc.stop THEN acc
        ELSE IF InRun(i) THEN [acc EXCEPT !.out = IF i = b.base THEN @ \o <<58>> ELSE @]
        ELSE LET sep == IF i # 1 THEN <<58>> ELSE <<>>
             IN IF i = 7 /\ b.base = 1 /\ (b.len = 6 \/ (b.len = 5 /\ w[6] = 65535))
                THEN [out |-> acc.out \o sep \o DecText(w[7] \div 256) \o <<46>> \o DecText(w[7] % 256)
                                \o <<46>> \o DecText(w[8] \div 256) \o <<46>> \o DecText(w[8] % 256),
                      stop |-> TRUE]
                ELSE [acc EXCEPT !.out = @ \o sep \o HexText(w[i])]
      text == FoldLeft(Step, [out |-> <<>>, stop |-> FALSE], [i \in 1..8 |-> i]).out
  IN text \o (IF b.base # 0 /\ b.base + b.len - 1 = 8 THEN <<58>> ELSE <<>>)

\* utils_normalize_ipv6(string, force_pure_ipv6).  StringValueCStr
\* raises on a NUL byte.  A string starting with '[' loses its first and
\* last bytes, whatever they are, through a memcpy of strlen(str) - 2
\* (a size_t, which wraps to 2^64 - 1 for "[") bytes into
\* str2[INET6_ADDRSTRLEN + 3]: with the NUL that follows, a copy of more
\* than 48 bytes writes past str2.
UtilsNormalizeIpv6(s, force) ==
  LET ref == s # <<>> /\ s[1] = LBRACKET
      wraps == Len(s) < 2
      p == IF ref THEN SubSeq(s, 2, Len(s) - 1) ELSE s
      pton == InetPton6(p)
      t == InetNtop6(pton.addr)
  IN CASE \E i \in 1..Len(s) : s[i] = 0 -> RV("raise")
       [] ref /\ (wraps \/ Len(s) - 2 + 1 > INET6_ADDRSTRLEN + 3) -> RV("overflow")
       [] pton.ret = 0 -> RFalse
       [] ref /\ ~force -> RStr(<<LBRACKET>> \o t \o <<RBRACKET>>)
       [] OTHER -> RStr(t)

\* utils_compare_pure_ips: 0 for two types, else both copied with a NUL
\* into _ip[INET6_ADDRSTRLEN + 1] and compared by value.
UtilsComparePureIps(a, ta, b, tb) ==
  CASE ta # tb -> 0
    [] Len(a) + 1 > INET6_ADDRSTRLEN + 1 \/ Len(b) + 1 > INET6_ADDRSTRLEN + 1 -> -1
    [] ta = "ipv4" -> IF InetPton4(a).ret = 0 \/ InetPton4(b).ret = 0 THEN 0
                      ELSE IF InetPton4(a).addr = InetPton4(b).addr THEN 1 ELSE 0
    [] ta = "ipv6" -> IF InetPton6(a).ret # 1 \/ InetPton6(b).ret # 1 THEN 0
                      ELSE IF InetPton6(a).addr = InetPton6(b).addr THEN 1 ELSE 0
    [] OTHER -> 0

\* Utils_compare_ips: an IPv6 reference is compared as the IPv6 between
\* its brackets (str += 1, len -= 2).
PureOfLenMinusOne(s, t) == IF t = "ipv6_reference" THEN SubSeq(s, 2, Len(s)) ELSE s
PureOf(s, t) == IF t = "ipv6_reference" THEN SubSeq(s, 2, Len(s) - 1) ELSE s
TypeOfPure(t) == IF t = "ipv6_reference" THEN "ipv6" ELSE t

AsRuby(c) == CASE c = 1 -> RTrue [] c = 0 -> RFalse [] OTHER -> RV("overflow")

CompareIps(a, b) ==
  LET ta == UtilsIpParserExecute(a)
      tb == UtilsIpParserExecute(b)
  IN IF ta = "error" \/ tb = "error" THEN RNil
     ELSE AsRuby(UtilsComparePureIps(PureOf(a, ta), TypeOfPure(ta), PureOf(b, tb), TypeOfPure(tb)))

\* Utils_compare_pure_ips: nil for an IPv6 reference too.
ComparePureIps(a, b) ==
  LET ta == UtilsIpParserExecute(a)
      tb == UtilsIpParserExecute(b)
  IN IF {ta, tb} \cap {"error", "ipv6_reference"} # {} THEN RNil
     ELSE AsRuby(UtilsComparePureIps(a, ta, b, tb))

\* The optional force argument: absent, nil, false or true.
ForcedUnlessAbsent(f) == f # "absent"
Forced(f) == f = "true"

IpCallNames ==
  {"is_ip", "is_pure_ip", "ip_type", "compare_ips", "compare_pure_ips",
   "normalize_ipv6", "normalize_host", "to_pure_ip"}

\* The Ruby code calls one of the IP utilities on arguments from Calls.
IpInit(Calls) ==
  /\ ip_call \in Calls
  /\ ip_result = IpPending

IpCall(name, r) ==
  /\ ip_result = IpPending /\ ip_call.fn = name
  /\ ip_result' = r
  /\ UNCHANGED ip_call

IsIp == IpCall("is_ip", IF UtilsIpParserExecute(ip_call.a) # "error" THEN RTrue ELSE RFalse)
IsPureIp == IpCall("is_pure_ip", IF UtilsIpParserExecute(ip_call.a) \in {"ipv4", "ipv6"} THEN RTrue ELSE RFalse)
IpTypeUnchecked == IpCall("ip_type", RV(UtilsIpParserExecute(ip_call.a)))
IpType ==
  IpCall("ip_type", LET t == UtilsIpParserExecute(ip_call.a) IN IF t = "error" THEN RFalse ELSE RV(t))
CompareIpsCall == IpCall("compare_ips", CompareIps(ip_call.a, ip_call.b))
ComparePureIpsCall == IpCall("compare_pure_ips", ComparePureIps(ip_call.a, ip_call.b))
NormalizeIpv6 == IpCall("normalize_ipv6", UtilsNormalizeIpv6(ip_call.a, Forced(ip_call.force)))

\* Utils_normalize_host(host, ip_type [, force]): an IPv6 or IPv6
\* reference host is normalized, any other returned as it is.
NormalizeHost ==
  IpCall("normalize_host",
       IF ip_call.type \in {"ipv6", "ipv6_reference"}
       THEN UtilsNormalizeIpv6(ip_call.a, Forced(ip_call.force))
       ELSE RStr(ip_call.a))

\* Utils_to_pure_ip: a string starting with '[' loses its first and last
\* bytes; rb_str_new raises on the negative length of "[".
ToPureIp ==
  IpCall("to_pure_ip",
       CASE \E i \in 1..Len(ip_call.a) : ip_call.a[i] = 0 -> RV("raise")
         [] ip_call.a # <<>> /\ ip_call.a[1] = LBRACKET ->
              IF Len(ip_call.a) < 2 THEN RV("raise") ELSE RStr(SubSeq(ip_call.a, 2, Len(ip_call.a) - 1))
         [] OTHER -> RStr(ip_call.a))

IpNext ==
  \/ IsIp \/ IsPureIp \/ IpType \/ CompareIpsCall \/ ComparePureIpsCall
  \/ NormalizeIpv6 \/ NormalizeHost \/ ToPureIp

IpSpec(Calls) == IpInit(Calls) /\ [][IpNext]_ip_vars

-----------------------------------------------------------------------------
(* What the callers are promised. *)

IsReference(s) ==
  Len(s) >= 2 /\ s[1] = LBRACKET /\ s[Len(s)] = RBRACKET /\ IsIPv6address(SubSeq(s, 2, Len(s) - 1))
Unbracketed(s) == IF IsReference(s) THEN SubSeq(s, 2, Len(s) - 1) ELSE s

\* Two pure addresses stand for the same address: both IPv4 with the
\* same four octets, or both IPv6 with the same eight words.
SameAddress(x, y) ==
  \/ IsIPv4address(x) /\ IsIPv4address(y) /\ InetPton4(x).addr = InetPton4(y).addr
  \/ IsIPv6address(x) /\ IsIPv6address(y) /\ InetPton6(x).addr = InetPton6(y).addr

IpCalled == ip_result # IpPending

IpTypeOK ==
  /\ ip_result.t \in {"pending", "true", "false", "nil", "str", "raise", "overflow",
                      "ipv4", "ipv6", "ipv6_reference"}
  /\ ip_result.v \in Seq(0..255)

\* compare_ips and compare_pure_ips (the comments above them in
\* utils_ruby.c): nil when an argument is no IP address (or, for
\* compare_pure_ips, an IPv6 reference), else true exactly when both
\* stand for the same address, an IPv6 reference compared by the IPv6
\* between its brackets, whatever text form each is written in.  Both
\* go through the classifier's types, the str += 1/len -= 2 of a
\* reference, the copies into _ip1/_ip2 and inet_pton.
CompareIpsMeansSameAddress ==
  IpCalled /\ ip_call.fn \in {"compare_ips", "compare_pure_ips"} =>
    LET Valid(s) == IsIPaddress(s) \/ (ip_call.fn = "compare_ips" /\ IsReference(s))
    IN IF ~Valid(ip_call.a) \/ ~Valid(ip_call.b) THEN ip_result = RNil
       ELSE ip_result = IF SameAddress(Unbracketed(ip_call.a), Unbracketed(ip_call.b))
                        THEN RTrue ELSE RFalse

\* normalize_ipv6 (spec.md 8, "IPv6 normalization is stable"): for an
\* IPv6 address, or an IPv6 reference, it returns a text of the same
\* address, in brackets exactly when a reference is not forced pure,
\* which normalizes to itself (a second argument of nil or false does
\* not force); for any other string not starting with
\* '[' it returns false.  The text is glibc's inet_ntop of inet_pton.
NormalizeIsStable ==
  IpCalled /\ ip_call.fn = "normalize_ipv6" /\ (ip_call.a = <<>> \/ ip_call.a[1] # LBRACKET \/ IsReference(ip_call.a)) =>
    LET p == Unbracketed(ip_call.a)
        bracket == IsReference(ip_call.a) /\ ip_call.force \in {"absent", "nil", "false"}
        r == ip_result.v
    IN IF ~IsIPv6address(p) THEN ip_result = RFalse
       ELSE /\ ip_result.t = "str"
            /\ bracket = (r # <<>> /\ r[1] = LBRACKET)
            /\ SameAddress(Unbracketed(r), p)
            /\ UtilsNormalizeIpv6(r, Forced(ip_call.force)) = ip_result

\* The comment above Utils_normalize_ipv6: the string "must be a valid
\* IPv6 or IPv6 reference.  If not, the method returns false."
NormalizeRejectsNonIpv6 ==
  IpCalled /\ ip_call.fn = "normalize_ipv6" /\ ~IsIPv6address(ip_call.a) /\ ~IsReference(ip_call.a) =>
    ip_result = RFalse
====
