------------------------- MODULE SipMessageParser -------------------------
(***************************************************************************)
(* The SIP message parser of src/ext/sip_parser: the Ruby binding         *)
(* sip_parser_ruby.c (the sink callbacks that build the message object,   *)
(* execute/reset and the post-parse queries), driven by the Ragel         *)
(* automaton sip_parser.c (not in src: modelled from spec.md 4.1) and by  *)
(* the connection reader that calls execute on a growing buffer (spec.md  *)
(* 4.1 "Inputs/constraints").                                             *)
(*                                                                         *)
(* Bytes.  The wire is a sequence of messages, each a sequence of lines   *)
(* (see SipMessageStream).  A start or header line is two bytes: the      *)
(* automaton emits the events of the line's name and URIs on its first    *)
(* byte and the header() event, counters and scalar setters on its last   *)
(* one (the CRLF).  The empty line and a rejected byte are one byte.      *)
(* A read may end between any two bytes, so every split point of the      *)
(* streaming contract is reached.                                          *)
(***************************************************************************)
EXTENDS Integers, Sequences, SequencesExt, FiniteSets

CONSTANTS
  Nil,          \* Ruby nil
  Wires,        \* the possible connections: each a sequence of messages
  MaxChunk      \* most bytes one socket read appends to the buffer

VARIABLES
  wire,         \* the messages the peer sends
  avail,        \* bytes of the wire received into the buffer so far
  base,         \* wire offset of the buffer's first byte: earlier bytes were consumed
  ps,           \* the C struct sip_message_parser
  msg,          \* the Ruby object parser->parsed (also the parser's @parsed)
  delivered,    \* the messages handed to the application
  closed        \* the connection was closed after a parse error

vars == <<wire, avail, base, ps, msg, delivered, closed>>

S == INSTANCE SipMessageStream

Keepalive == S!Keepalive
HeaderNames == S!HeaderNames
Decimal(d) == S!Decimal(d)

\* The headers counted by the num_* fields of sip_message_parser.
Counted == {"Via", "From", "To", "Call-ID", "CSeq", "Max-Forwards",
            "Content-Length", "Contact"}

\* The bytes of the wire: each names its line and whether it is the line's
\* first and last byte.
LineBytes(l) ==
  IF l.k \in {"eoh", "bad"}
  THEN <<[line |-> l, first |-> TRUE, last |-> TRUE]>>
  ELSE <<[line |-> l, first |-> TRUE, last |-> FALSE],
         [line |-> l, first |-> FALSE, last |-> TRUE]>>

Bytes(w) == LET lines == FlattenSeq(w)
            IN FlattenSeq([i \in 1..Len(lines) |-> LineBytes(lines[i])])

WireLen == Len(Bytes(wire))

(***************************************************************************)
(* sip_message_parser_init (sip_parser.rl, not in src), called by alloc,  *)
(* initialize and reset: the automaton back at its start state, nread and *)
(* every message-scoped counter zeroed, parsed set to nil.                *)
(***************************************************************************)
InitParser ==
  [cs |-> "start", nread |-> 0, num |-> [f \in Counted |-> 0],
   contact_is_valid |-> FALSE, route_found |-> FALSE]

NewNameAddr == [uri |-> Nil]

\* data_type(): a new Request/Response with an empty @headers hash, or the
\* :outbound_keepalive symbol.
DataType(kind) ==
  IF kind = "ka" THEN Keepalive
  ELSE [type |-> IF kind = "req" THEN "request" ELSE "response",
        headers |-> [f \in HeaderNames |-> <<>>], keys |-> <<>>,
        hdr_via |-> Nil, hdr_from |-> Nil, hdr_to |-> Nil, hdr_route |-> Nil,
        via |-> Nil, num_vias |-> Nil, ruri |-> Nil, from |-> Nil, to |-> Nil,
        routes |-> Nil, contact |-> Nil, content_length |-> Nil]

\* init_component(): a fresh URI/NameAddr for an owner, a fresh @routes
\* array, or a fresh NameAddr pushed on @routes.
InitComponent(m, c) ==
  CASE c = "route"     -> [m EXCEPT !.routes = <<>>]
    [] c = "route_uri" -> [m EXCEPT !.routes = Append(@, NewNameAddr)]
    [] OTHER           -> [m EXCEPT ![c] = NewNameAddr]

\* get_uri_object() followed by the uri_* setters: the URI events of an
\* owner land in its object; for Route, in the last element of @routes.
SetUri(m, owner, u) ==
  IF owner = "route"
  THEN [m EXCEPT !.routes[Len(m.routes)].uri = u]
  ELSE [m EXCEPT ![owner].uri = u]

\* header(): append the value to @headers[name], or create the array on
\* first sight and keep the @hdr_via/@hdr_route alias to that very array
\* (recorded as a reference to the hash entry) and @hdr_from/@hdr_to.
Header(m, f, v) ==
  IF m.headers[f] # <<>>
  THEN [m EXCEPT !.headers[f] = Append(@, v)]
  ELSE LET m1 == [m EXCEPT !.headers[f] = <<v>>, !.keys = Append(@, f)]
       IN CASE f = "Via"   -> [m1 EXCEPT !.hdr_via = [ref |-> "Via"]]
            [] f = "From"  -> [m1 EXCEPT !.hdr_from = v]
            [] f = "To"    -> [m1 EXCEPT !.hdr_to = v]
            [] f = "Route" -> [m1 EXCEPT !.hdr_route = [ref |-> "Route"]]
            [] OTHER       -> m1

\* strtol(at, NULL, 0) on a run of digits: a leading 0 selects base 8 and
\* the conversion stops at the first digit that is not octal.
Strtol0(d) ==
  LET b == IF d[1] = 0 THEN 8 ELSE 10
      stop == {i \in 1..Len(d) : d[i] >= b}
      valid == IF stop = {} THEN d ELSE SubSeq(d, 1, Min(stop) - 1)
  IN FoldLeft(LAMBDA a, x : b * a + x, 0, valid)

\* msg_content_length(): @content_length = strtol(value, NULL, 0).
MsgContentLength(m, d) == [m EXCEPT !.content_length = Strtol0(d)]

(***************************************************************************)
(* The automaton (sip_parser.rl, not in src).  LineStart is the first     *)
(* byte of a line: the start line's data_type() and Request-URI events,   *)
(* a header line's name-addr/URI events (init_component, get_uri_object   *)
(* and the uri_* setters), the topmost-Via fields while num_via is 0, and *)
(* the Via value count; the empty line finishes the message.  LineEnd is  *)
(* the closing CRLF: header(), the cardinality counters and the scalar    *)
(* setters.  Any line the grammar does not allow where it appears is an   *)
(* error.                                                                 *)
(***************************************************************************)
Owner == [From |-> "from", To |-> "to"]

NameAddrs(m, l, owner) ==
  FoldLeft(LAMBDA a, j : SetUri(InitComponent(a, IF owner = "route" THEN "route_uri" ELSE owner),
                                owner, <<l.v, j>>),
           m, [j \in 1..l.n |-> j])

HeaderStart(p, m, l) ==
  CASE l.h = "Via"            -> IF p.num["Via"] = 0 THEN [m EXCEPT !.via = <<l.v, 1>>] ELSE m
    [] l.h \in {"From", "To"} -> NameAddrs(m, l, Owner[l.h])
    [] l.h = "Route"          -> NameAddrs(IF p.route_found THEN m ELSE InitComponent(m, "route"),
                                           l, "route")
    [] l.h = "Contact"        -> NameAddrs(m, l, "contact")
    [] OTHER                  -> m

LineStart(p, m, l) ==
  CASE p.cs = "start" /\ l.k \in {"req", "resp", "ka"} ->
         [ps |-> [p EXCEPT !.cs = "startline"],
          m  |-> IF l.k = "req"
                 THEN SetUri(InitComponent(DataType(l.k), "ruri"), "ruri", <<l.v, 1>>)
                 ELSE DataType(l.k)]
    [] p.cs = "headers" /\ l.k = "hdr" ->
         [ps |-> [p EXCEPT !.cs = "hline",
                           !.num["Via"] = @ + (IF l.h = "Via" THEN l.n ELSE 0),
                           !.num["Contact"] = @ + (IF l.h = "Contact" THEN 1 ELSE 0),
                           !.contact_is_valid = IF l.h = "Contact" THEN l.n = 1 ELSE @,
                           !.route_found = @ \/ l.h = "Route"],
          m  |-> HeaderStart(p, m, l)]
    [] p.cs = "headers" /\ l.k = "eoh" -> [ps |-> [p EXCEPT !.cs = "done"], m |-> m]
    [] OTHER -> [ps |-> [p EXCEPT !.cs = "error"], m |-> m]

LineEnd(p, m, l) ==
  IF p.cs = "startline"
  THEN [ps |-> [p EXCEPT !.cs = IF l.k = "ka" THEN "done" ELSE "headers"], m |-> m]
  ELSE LET m1 == Header(m, l.h, <<l.v, 0>>)
       IN [ps |-> [p EXCEPT !.cs = "headers",
                            !.num = IF l.h \in Counted \ {"Via", "Contact"}
                                    THEN [@ EXCEPT ![l.h] = @ + 1] ELSE @],
           m  |-> IF l.h = "Content-Length" THEN MsgContentLength(m1, l.d) ELSE m1]

Step(st, b) ==
  IF b.first THEN LineStart(st.ps, st.m, b.line) ELSE LineEnd(st.ps, st.m, b.line)

\* sip_message_parser_execute: run the automaton over the buffer from
\* offset p until its end, the final state or an error; nread counts every
\* byte consumed, the rejected one excepted.
RECURSIVE Run(_, _, _)
Run(st, p, buf) ==
  IF p >= Len(buf) \/ st.ps.cs \in {"done", "error"} THEN st
  ELSE LET nx == Step(st, buf[p + 1])
       IN Run(IF nx.ps.cs = "error" THEN nx ELSE [nx EXCEPT !.ps.nread = @ + 1], p + 1, buf)

(***************************************************************************)
(* The post-parse queries of sip_parser_ruby.c.                            *)
(***************************************************************************)
DuplicatedCoreHeader(p) == S!FirstIn(S!DuplicateOrder, LAMBDA f : p.num[f] > 1)

MissingCoreHeader(p) == S!FirstIn(S!MissingOrder, LAMBDA f : p.num[f] = 0)

\* post_parsing() with the num_contact test left out.
PostParsingValidOnly(m, p) ==
  IF p.contact_is_valid THEN m ELSE [m EXCEPT !.contact = Nil]

PostParsing(m, p) ==
  IF p.contact_is_valid /\ p.num["Contact"] = 1 THEN m ELSE [m EXCEPT !.contact = Nil]

\* What the application reads of a finished request or response.
Deref(m, a) == IF a = Nil THEN <<>> ELSE m.headers[a.ref]
IfSingle(p, f, x) == IF p.num[f] = 1 THEN x ELSE S!Unspecified

View(m, p) ==
  [type |-> m.type, headers |-> m.headers, keys |-> m.keys,
   hdr_via |-> Deref(m, m.hdr_via), via |-> m.via, num_vias |-> m.num_vias,
   ruri |-> m.ruri, from |-> IfSingle(p, "From", m.from), to |-> IfSingle(p, "To", m.to),
   routes |-> m.routes, contact |-> m.contact,
   content_length |-> IfSingle(p, "Content-Length", m.content_length),
   duplicated |-> DuplicatedCoreHeader(p), missing |-> MissingCoreHeader(p)]

(***************************************************************************)
(* The connection.  Receive: a socket read appends bytes to the buffer.    *)
(* Execute: SipMessageParser_execute(buffer, nread), which raises unless   *)
(* the start offset is inside the buffer, runs the automaton and returns   *)
(* false on error or nread.  Deliver: on a finished request or response    *)
(* the reader asks duplicated_core_header? (which also stores @num_vias),  *)
(* missing_core_header? and calls post_parsing; a keepalive is passed on   *)
(* as is; then it drops the message's nread bytes from the buffer and      *)
(* calls reset.  CloseOnError: execute returned false.                     *)
(***************************************************************************)
Init ==
  /\ wire \in Wires
  /\ avail = 0
  /\ base = 0
  /\ ps = InitParser
  /\ msg = Nil
  /\ delivered = <<>>
  /\ closed = FALSE

Receive ==
  /\ ~closed
  /\ avail < WireLen
  /\ \E k \in 1..MaxChunk :
       /\ avail + k <= WireLen
       /\ avail' = avail + k
  /\ UNCHANGED <<wire, base, ps, msg, delivered, closed>>

\* The start-offset test written against the last byte instead of the end.
CanExecuteBeforeLast ==
  /\ ~closed
  /\ ps.cs \notin {"done", "error"}
  /\ ps.nread < avail - base - 1

\* The reader has unparsed bytes for a parser that is neither finished nor
\* failed; SipMessageParser_execute raises unless nread < buffer length.
CanExecute ==
  /\ ~closed
  /\ ps.cs \notin {"done", "error"}
  /\ ps.nread < avail - base

Execute ==
  /\ CanExecute
  /\ LET r == Run([ps |-> ps, m |-> msg], ps.nread, SubSeq(Bytes(wire), base + 1, avail))
     IN /\ ps' = r.ps
        /\ msg' = r.m
  /\ UNCHANGED <<wire, avail, base, delivered, closed>>

\* A reader that drops the line terminator after the message as well.
DeliverDropsOneMore ==
  /\ ps.cs = "done"
  /\ delivered' = Append(delivered,
                    IF msg = Keepalive THEN Keepalive
                    ELSE View(PostParsing([msg EXCEPT !.num_vias = ps.num["Via"]], ps), ps))
  /\ base' = base + ps.nread + 1
  /\ ps' = InitParser
  /\ msg' = Nil
  /\ UNCHANGED <<wire, avail, closed>>

Deliver ==
  /\ ps.cs = "done"
  /\ delivered' = Append(delivered,
                    IF msg = Keepalive THEN Keepalive
                    ELSE View(PostParsing([msg EXCEPT !.num_vias = ps.num["Via"]], ps), ps))
  /\ base' = base + ps.nread
  /\ ps' = InitParser
  /\ msg' = Nil
  /\ UNCHANGED <<wire, avail, closed>>

CloseOnError ==
  /\ ps.cs = "error"
  /\ ~closed
  /\ closed' = TRUE
  /\ UNCHANGED <<wire, avail, base, ps, msg, delivered>>

\* The connection is closed, or the peer has sent everything and all of it
\* was consumed: the reader waits for more data.
Idle ==
  /\ closed \/ base = WireLen
  /\ UNCHANGED vars

Next == Receive \/ Execute \/ Deliver \/ CloseOnError \/ Idle

\* The reader is driven by the event loop: data that has arrived is read,
\* a buffer with unparsed bytes is parsed, a finished message is handed on.
Spec == Init /\ [][Next]_vars
\* Every Execute step consumes a byte or changes the automaton state, so
\* ENABLED <<Execute>>_vars is CanExecute and the Execute conjunct below is
\* WF_vars(Execute), written with its enabling condition spelled out.
FairSpec == /\ Spec
            /\ WF_vars(Receive) /\ WF_vars(Deliver) /\ WF_vars(CloseOnError)
            /\ (<>[]CanExecute => []<><<Execute>>_vars)

-----------------------------------------------------------------------------
TypeOK ==
  /\ avail \in 0..WireLen
  /\ base \in 0..avail
  /\ ps.cs \in {"start", "startline", "headers", "hline", "done", "error"}
  /\ ps.nread \in 0..avail - base
  /\ ps.num \in [Counted -> Nat]
  /\ ps.contact_is_valid \in BOOLEAN /\ ps.route_found \in BOOLEAN
  /\ msg = Nil \/ msg.type \in {"outbound_keepalive", "request", "response"}
  /\ closed \in BOOLEAN
  /\ Len(delivered) <= Len(wire)

\* Streaming equivalence and reset hygiene (spec.md 3, 4.1, 8): whatever
\* the read boundaries, the reader hands on exactly Build(m) for each
\* message in order and closes at the first malformed one; the counters,
\* route_found, @routes and the header map of one message never leak into
\* the next after reset.
Refinement == S!Spec

\* Every message the peer sends is eventually handed on, unless the
\* connection is closed on a malformed one: execute resumes from nread and
\* the reader never stalls between reads, execute and reset.
EveryMessageHandled == <>(closed \/ Len(delivered) = Len(wire))

\* spec.md 4.1: the Content-Length a request or response carries is the
\* decimal value of the header; msg_content_length converts it with
\* strtol(at, NULL, 0).
ContentLengthIsDecimal ==
  \A i \in 1..Len(delivered) :
    delivered[i].type # "outbound_keepalive" =>
      delivered[i].content_length = S!Build(wire[i]).content_length
====
