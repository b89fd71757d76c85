----------------------------- MODULE UserPartSpec -----------------------------
(***************************************************************************)
(* What spec.md 4.1 promises of the user part of a URI: the parser stores *)
(* it once, %XX-decoded (RFC 3986 2.1) for every scheme but tel, and with  *)
(* the visual separators removed and A-F lower-cased for tel, whatever    *)
(* bytes the user part holds.  UriUser implements it                      *)
(* (UriUser!UserPartRefinement).                                           *)
(***************************************************************************)
EXTENDS Integers, Sequences

CONSTANTS Schemes   \* the URI schemes, "tel" among them

VARIABLES scheme, user, done, stored

vars == <<scheme, user, done, stored>>

PERCENT == 37

IsHexDig(c) == c \in 48..57 \cup 65..70 \cup 97..102
HexDig(c) == IF c \in 48..57 THEN c - 48 ELSE IF c \in 65..70 THEN c - 55 ELSE c - 87

\* RFC 3986 2.1: each "%" HEXDIG HEXDIG stands for the octet it encodes.
RECURSIVE PercentDecode(_)
PercentDecode(str) ==
  IF str = <<>> THEN <<>>
  ELSE IF str[1] = PERCENT /\ Len(str) >= 3 /\ IsHexDig(str[2]) /\ IsHexDig(str[3])
  THEN <<16 * HexDig(str[2]) + HexDig(str[3])>> \o PercentDecode(SubSeq(str, 4, Len(str)))
  ELSE <<str[1]>> \o PercentDecode(Tail(str))

\* spec.md 4.1, "tel-URI user-part cleanup": the visual separators
\* '-', '.', '(', ')' are removed and A-F lower-cased.
RECURSIVE TelClean(_)
TelClean(str) ==
  CASE str = <<>> -> <<>>
    [] str[1] \in {45, 46, 40, 41} -> TelClean(Tail(str))
    [] str[1] \in 65..70 -> <<str[1] + 32>> \o TelClean(Tail(str))
    [] OTHER -> <<str[1]>> \o TelClean(Tail(str))

Init ==
  /\ scheme \in Schemes
  /\ user \in Seq(0..255)
  /\ done = FALSE
  /\ stored = <<>>

\* The user part is stored, converted as its scheme requires.
Store ==
  /\ ~done
  /\ done' = TRUE
  /\ stored' = IF scheme = "tel" THEN TelClean(user) ELSE PercentDecode(user)
  /\ UNCHANGED <<scheme, user>>

Spec == Init /\ [][Store]_vars
====
