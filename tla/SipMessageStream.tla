------------------------- MODULE SipMessageStream -------------------------
(***************************************************************************)
(* What the SIP message parser promises its caller (spec.md 3, 4.1 and 8), *)
(* stated without bytes, reads or automaton states: the messages of a     *)
(* connection are handed to the application one by one, in order, each   *)
(* as the one-shot interpretation Build(m) of its lines, until the first  *)
(* malformed message, which closes the connection.                        *)
(*                                                                         *)
(* A message is a sequence of lines.  A line is a record                  *)
(*   [k |-> kind, h |-> canonical header name, v |-> value tag,            *)
(*    n |-> number of comma separated values, d |-> digits]                *)
(* with kind "req" or "resp" (start line), "ka" (the CRLF CRLF outbound   *)
(* keepalive), "hdr" (a header line), "eoh" (the empty line ending the    *)
(* header block) or "bad" (a byte the grammar rejects).                   *)
(***************************************************************************)
EXTENDS Integers, Sequences, SequencesExt, FiniteSets

CONSTANTS
  Nil,          \* Ruby nil: an instance variable that was never set
  Wires         \* the possible connections: each a sequence of messages

VARIABLES
  wire,         \* the messages the peer sends on this connection
  delivered,    \* the messages handed to the application so far
  closed        \* the connection was closed on a malformed message

vars == <<wire, delivered, closed>>

Keepalive == [type |-> "outbound_keepalive"]   \* the :outbound_keepalive symbol
Unspecified == "unspecified"   \* a field the spec makes no promise about

HeaderNames == {"Via", "From", "To", "CSeq", "Call-ID", "Max-Forwards",
                "Content-Length", "Contact", "Route", "Subject"}

\* The priority orders in which a duplicated or a missing core header is reported.
DuplicateOrder == <<"From", "To", "CSeq", "Call-ID", "Max-Forwards", "Content-Length">>
MissingOrder   == <<"Via", "From", "To", "CSeq", "Call-ID">>

Decimal(d) == FoldLeft(LAMBDA a, x : 10 * a + x, 0, d)

\* A request or response: a start line, header lines, the empty line.
WellFormed(m) ==
  \/ m = <<[k |-> "ka", h |-> "", v |-> "", n |-> 0, d |-> <<>>]>>
  \/ /\ Len(m) >= 2
     /\ m[1].k \in {"req", "resp"}
     /\ m[Len(m)].k = "eoh"
     /\ \A i \in 2..Len(m) - 1 : m[i].k = "hdr"

IsKeepalive(m) == m[1].k = "ka"

HdrLines(m, f) == SelectSeq(m, LAMBDA l : l.k = "hdr" /\ l.h = f)
Count(m, f) == Len(HdrLines(m, f))

FirstIn(order, P(_)) ==
  IF \E i \in 1..Len(order) : P(order[i])
  THEN order[CHOOSE i \in 1..Len(order) : P(order[i]) /\ \A j \in 1..i - 1 : ~P(order[j])]
  ELSE FALSE

\* Distinct header names in the order they first appear.
KeyOrder(m) ==
  LET firsts == {i \in 1..Len(m) : m[i].k = "hdr" /\
                   \A j \in 1..i - 1 : ~(m[j].k = "hdr" /\ m[j].h = m[i].h)}
      idx == SelectSeq([i \in 1..Len(m) |-> i], LAMBDA i : i \in firsts)
  IN [i \in 1..Len(idx) |-> m[idx[i]].h]

\* The name-addrs of all Route lines, in header order, values in line order.
RouteAddrs(m) ==
  LET rl == HdrLines(m, "Route")
  IN FlattenSeq([i \in 1..Len(rl) |-> [j \in 1..rl[i].n |-> [uri |-> <<rl[i].v, j>>]]])

SingleAddr(m, f) ==
  IF Count(m, f) = 1 THEN [uri |-> <<HdrLines(m, f)[1].v, 1>>] ELSE Unspecified

\* The one-shot interpretation of a well-formed message (spec.md 3 and 4.1).
Build(m) ==
  IF IsKeepalive(m) THEN Keepalive ELSE
  LET vias == HdrLines(m, "Via") IN
  [ type           |-> IF m[1].k = "req" THEN "request" ELSE "response",
    headers        |-> [f \in HeaderNames |->
                          [i \in 1..Count(m, f) |-> <<HdrLines(m, f)[i].v, 0>>]],
    keys           |-> KeyOrder(m),
    ruri           |-> IF m[1].k = "req" THEN [uri |-> <<m[1].v, 1>>] ELSE Nil,
    hdr_via        |-> [i \in 1..Len(vias) |-> <<vias[i].v, 0>>],
    via            |-> IF vias = <<>> THEN Nil ELSE <<vias[1].v, 1>>,
    num_vias       |-> FoldLeft(LAMBDA a, l : a + l.n, 0, vias),
    from           |-> SingleAddr(m, "From"),
    to             |-> SingleAddr(m, "To"),
    routes         |-> IF Count(m, "Route") = 0 THEN Nil ELSE RouteAddrs(m),
    contact        |-> IF Count(m, "Contact") = 1 /\ HdrLines(m, "Contact")[1].n = 1
                       THEN [uri |-> <<HdrLines(m, "Contact")[1].v, 1>>] ELSE Nil,
    content_length |-> IF Count(m, "Content-Length") = 1
                       THEN Decimal(HdrLines(m, "Content-Length")[1].d) ELSE Unspecified,
    duplicated     |-> FirstIn(DuplicateOrder, LAMBDA f : Count(m, f) > 1),
    missing        |-> FirstIn(MissingOrder, LAMBDA f : Count(m, f) = 0) ]

NextMessage == wire[Len(delivered) + 1]
Pending == ~closed /\ Len(delivered) < Len(wire)

Init ==
  /\ wire \in Wires
  /\ delivered = <<>>
  /\ closed = FALSE

Deliver ==
  /\ Pending
  /\ WellFormed(NextMessage)
  /\ delivered' = Append(delivered, Build(NextMessage))
  /\ UNCHANGED <<wire, closed>>

Reject ==
  /\ Pending
  /\ ~WellFormed(NextMessage)
  /\ closed' = TRUE
  /\ UNCHANGED <<wire, delivered>>

Next == Deliver \/ Reject

Spec == Init /\ [][Next]_vars

FairSpec == Spec /\ WF_vars(Next)
=============================================================================
