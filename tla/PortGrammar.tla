------------------------------ MODULE PortGrammar ------------------------------
(***************************************************************************)
(* The reference for the port fields of the PROXY line and of the         *)
(* outbound flow token (spec.md 4.3, 6 and 8): a TCP/UDP port written in  *)
(* decimal ASCII, 1..65535.  Strings are sequences of byte values.        *)
(***************************************************************************)
EXTENDS Integers, Sequences, SequencesExt

D(d) == 48 + d        \* the ASCII digit d

IsDigit(c) == c \in D(0)..D(9)

DecimalValue(ds) == FoldLeft(LAMBDA a, c : 10 * a + c - 48, 0, ds)

\* A port written in decimal, 1..65535, without leading zeros.
CanonicalPort(ds) ==
  /\ Len(ds) \in 1..5
  /\ \A i \in 1..Len(ds) : IsDigit(ds[i])
  /\ ds[1] # D(0)
  /\ DecimalValue(ds) <= 65535

\* A port written in decimal, 1..65535, leading zeros allowed.
InRangePort(ds) ==
  /\ Len(ds) >= 1
  /\ \A i \in 1..Len(ds) : IsDigit(ds[i])
  /\ DecimalValue(ds) \in 1..65535
====
