------------------------ MODULE MC_SipMessageParser ------------------------
(***************************************************************************)
(* Model of a connection that carries a few messages chosen to exercise   *)
(* each hazard of the parser: several Via values across lines, a single  *)
(* valid Contact, Route values accumulated across lines, a duplicated     *)
(* From, two Contact headers, a Contact with two name-addrs, a missing    *)
(* Call-ID, a keepalive between messages and a malformed line.            *)
(***************************************************************************)
EXTENDS SipMessageParser

Line(k, h, v, n, d) == [k |-> k, h |-> h, v |-> v, n |-> n, d |-> d]
Req(v)    == Line("req", "", v, 1, <<>>)
Resp      == Line("resp", "", "", 0, <<>>)
Hdr(h, v, n) == Line("hdr", h, v, n, <<>>)
CL(d)     == Line("hdr", "Content-Length", "d", 1, d)
EOH       == Line("eoh", "", "", 0, <<>>)
BAD       == Line("bad", "", "", 0, <<>>)
KA        == Line("ka", "", "", 0, <<>>)

\* A request with two Via lines (two values, then one), a single Contact,
\* Routes over two lines, and a Content-Length.
MsgA == <<Req("a"), Hdr("Via", "a", 2), Hdr("From", "b", 1), Hdr("Via", "c", 1),
          Hdr("To", "c", 1), Hdr("Call-ID", "d", 1), Hdr("CSeq", "d", 1),
          Hdr("Route", "e", 2), Hdr("Contact", "f", 1), Hdr("Route", "g", 1),
          CL(<<1, 2>>), EOH>>

\* A response with a duplicated From, two Contact headers, one Route and
\* no Call-ID.
MsgB == <<Resp, Hdr("Via", "b", 1), Hdr("From", "a", 1), Hdr("Contact", "b", 1),
          Hdr("From", "c", 1), Hdr("To", "d", 1), Hdr("Route", "e", 1),
          Hdr("CSeq", "f", 1), Hdr("Contact", "g", 1), CL(<<0>>), EOH>>

\* A request whose only Contact holds two name-addrs, then bad bytes.
MsgX == <<Req("b"), Hdr("Contact", "a", 2), Hdr("Subject", "c", 1), BAD>>

MsgK == <<KA>>

MC_Wires == {<<MsgA, MsgK, MsgB>>, <<MsgB, MsgA>>, <<MsgA, MsgX>>}
====
