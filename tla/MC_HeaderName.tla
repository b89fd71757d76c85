---------------------------- MODULE MC_HeaderName ----------------------------
(***************************************************************************)
(* Names for headerize: every well-known name as written, in lower case   *)
(* and in upper case; every single letter of either case (the twenty      *)
(* abbreviations and the misses); every name of two to MaxUnknownLen      *)
(* bytes over UnknownAlphabet, a letter of each case and both separators. *)
(***************************************************************************)
EXTENDS HeaderName

MaxUnknownLen == 4
UnknownAlphabet == {"x", "X", "-", "_"}

Lowered(n) == [i \in 1..Len(n) |-> ToLower(n[i])]
Uppered(n) == [i \in 1..Len(n) |-> ToUpper(n[i])]

MC_Names ==
  UNION {{t, Lowered(t), Uppered(t)} : t \in TableNames}
  \cup {<<c>> : c \in ToSet(LowerLetters) \cup ToSet(UpperLetters)}
  \cup UNION {[1..n -> UnknownAlphabet] : n \in 2..MaxUnknownLen}

====
