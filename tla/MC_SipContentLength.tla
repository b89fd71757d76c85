------------------------ MODULE MC_SipContentLength ------------------------
(***************************************************************************)
(* A request whose Content-Length is written with a leading zero, "010",  *)
(* which RFC 3261 reads as the decimal 10.                                *)
(***************************************************************************)
EXTENDS MC_SipMessageParser

MsgL == <<Req("a"), Hdr("Via", "a", 1), Hdr("From", "b", 1), Hdr("To", "c", 1),
          Hdr("Call-ID", "d", 1), Hdr("CSeq", "e", 1), CL(<<0, 1, 0>>), EOH>>

MC_LeadingZeroWires == {<<MsgL>>}
====
