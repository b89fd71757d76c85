------------------------------ MODULE MC_UriUser ------------------------------
(***************************************************************************)
(* Candidate user parts.  A sip user is one to MaxUnits units, each an     *)
(* unreserved byte ('a', '-') or an escape of RFC 3261 ("%" HEXDIG HEXDIG): *)
(* upper, lower and mixed case hex digits, "%25" (a '%' that must not be   *)
(* decoded again) and "%00".  A tel number is one to MaxUnits bytes of     *)
(* '+', a digit, the four separators, 'A' and 'f'.  The two bytes after the *)
(* copy are NUL or '4', so a read past the span can be taken for an       *)
(* escape.                                                                 *)
(***************************************************************************)
EXTENDS UriUser

MaxUnits == 4

SipUnits == {<<97>>, <<45>>, <<PERCENT, 52, 49>>, <<PERCENT, 52, 102>>, <<PERCENT, 50, 53>>,
             <<PERCENT, 48, 48>>, <<PERCENT, 102, 70>>}
TelBytes == {43, 49, 45, 46, 40, 41, 65, 102}

MC_Schemes == {"sip", "tel"}
MC_SipUsers == UNION {{FlattenSeq(us) : us \in [1..n -> SipUnits]} : n \in 1..MaxUnits}
MC_TelUsers == UNION {[1..n -> TelBytes] : n \in 1..MaxUnits}
MC_HeapBytes == {0, 52}
====
