--------------------------- MODULE WsHttpParser ---------------------------
(***************************************************************************)
(* The WebSocket HTTP upgrade request parser of                           *)
(* src/ext/websocket_http_parser: the Ruby binding ws_http_parser_ruby.c  *)
(* (the callbacks that fill the request hash and its instance variables,  *)
(* headerize, execute and the error rendering), driven by the Ragel       *)
(* automaton ws_http_parser.rl (not in src: modelled from spec.md 4.4 and *)
(* 4.1) and by the connection reader that calls execute on a growing      *)
(* buffer (spec.md 4.1 "Inputs/constraints").                             *)
(*                                                                         *)
(* Bytes.  A request line or header line is two bytes: the request line's *)
(* method, URI and host/port events fire on its first byte and its        *)
(* version on its CRLF; a header line's header() event and its own        *)
(* callback fire on its CRLF.  The empty line and a rejected byte are one *)
(* byte.  A read may end between any two bytes.                           *)
(***************************************************************************)
EXTENDS Integers, Sequences, SequencesExt, CUtil

CONSTANTS
  Nil,          \* Ruby nil
  Wires,        \* the possible connections: each the lines the peer sends
  MaxChunk      \* most bytes one socket read appends to the buffer

VARIABLES
  wire,         \* the lines the peer sends
  avail,        \* bytes of the wire received into the buffer so far
  ps,           \* the C struct ws_http_request_parser
  req,          \* the request Hash given to execute: its entries and its ivars
  delivered,    \* the request handed on, or Nil
  closed,       \* the connection was closed after a parse error
  errmsg        \* what parser.error wrote and returned, or Nil

vars == <<wire, avail, ps, req, delivered, closed, errmsg>>

A == INSTANCE WsUpgradeRequest

Str(b) == A!Str(b)
Sym(s) == A!Sym(s)
RawFields == A!RawFields

\* The IDs interned by Init_ws_http_parser, by field.
Id == [http_method |-> "@http_method", is_unknown_method |-> "is_unknown_method",
       http_version |-> "@http_version", uri_scheme |-> "@uri_scheme", uri |-> "@uri",
       uri_path |-> "@uri_path", uri_query |-> "@uri_query", uri_fragment |-> "@uri_fragment",
       host |-> "@host", port |-> "@port", content_length |-> "@content_length",
       hdr_connection |-> "@hdr_connection", hdr_upgrade |-> "@hdr_upgrade",
       hdr_sec_websocket_version |-> "@hdr_sec_websocket_version",
       hdr_sec_websocket_key |-> "@hdr_sec_websocket_key",
       hdr_sec_websocket_protocol |-> "@hdr_sec_websocket_protocol",
       hdr_origin |-> "@hdr_origin"]

\* The bytes of the wire: each names its line and whether it is the line's
\* first and last byte.
LineBytes(l) ==
  IF l.k \in {"eoh", "bad"}
  THEN <<[line |-> l, first |-> TRUE, last |-> TRUE]>>
  ELSE <<[line |-> l, first |-> TRUE, last |-> FALSE],
         [line |-> l, first |-> FALSE, last |-> TRUE]>>

Bytes(w) == FlattenSeq([i \in 1..Len(w) |-> LineBytes(w[i])])

WireLen == Len(Bytes(wire))

(***************************************************************************)
(* The request object: rb_ivar_get reads nil for an ivar never set.        *)
(***************************************************************************)
Ivar(r, id) == IF id \in DOMAIN r.ivars THEN r.ivars[id] ELSE Nil
SetIvar(r, id, v) == [r EXCEPT !.ivars = (id :> v) @@ @]

\* my_rb_str_downcase (ruby_c_util.h): 'A'..'Z' plus 32.
Downcase(b) == Str(A!Lower(b))

\* headerize(): the first byte upper-cased if a lower-case letter; each
\* later byte upper-cased after '-' or '_', lower-cased otherwise.
Headerize(n) ==
  [i \in 1..Len(n) |->
     IF i = 1 \/ n[i - 1] \in {45, 95}
     THEN IF n[i] \in 97..122 THEN n[i] - 32 ELSE n[i]
     ELSE IF n[i] \in 65..90 THEN n[i] + 32 ELSE n[i]]

\* header(): look the headerized name up in the hash; push the value on
\* the array found, or store a new one-element array.
Header(r, n, v) ==
  LET f == Headerize(n)
  IN IF f \in DOMAIN r.hash
     THEN [r EXCEPT !.hash[f] = Append(@, Str(v))]
     ELSE [r EXCEPT !.hash = (f :> <<Str(v)>>) @@ @]

\* A push that always stores a new one-element array.
PushIvarAlwaysNew(r, id, v) == SetIvar(r, id, <<v>>)

\* req_hdr_connection_value / req_hdr_sec_websocket_protocol_value: push
\* on the ivar's array, or set a new one-element array.
PushIvar(r, id, v) ==
  IF Ivar(r, id) # Nil THEN [r EXCEPT !.ivars[id] = Append(@, v)] ELSE SetIvar(r, id, <<v>>)

\* req_method(): a known method as its symbol; an unknown one as a string,
\* and Qtrue under the ID id_is_unknown_method.
ReqMethod(r, m) ==
  IF m.kind = "unknown"
  THEN SetIvar(SetIvar(r, Id.http_method, Str(m.raw)), Id.is_unknown_method, TRUE)
  ELSE SetIvar(r, Id.http_method, Sym(m.kind))

\* req_uri_scheme(): the automaton classifies the scheme; http and https
\* become symbols, any other scheme the downcased span.
ReqUriScheme(r, s) ==
  SetIvar(r, Id.uri_scheme, CASE A!Lower(s) = A!HTTP -> Sym("http")
                              [] A!Lower(s) = A!HTTPS -> Sym("https")
                              [] OTHER -> Downcase(s))

\* req_host(): one trailing '.' dropped, then downcased.
ReqHost(r, b) ==
  SetIvar(r, Id.host, Downcase(IF b[Len(b)] = 46 THEN SubSeq(b, 1, Len(b) - 1) ELSE b))

\* req_port(): INT2FIX(str_to_int(at, length)).
ReqPort(r, d) == SetIvar(r, Id.port, StrToInt(d))

\* strtol(at, NULL, 0) on a run of digits: a leading '0' selects base 8
\* and the conversion stops at the first digit that is not octal.
Strtol0(d) ==
  LET b == IF d[1] = 48 THEN 8 ELSE 10
      stop == {i \in 1..Len(d) : d[i] - 48 >= b}
      valid == IF stop = {} THEN d ELSE SubSeq(d, 1, Min(stop) - 1)
  IN FoldLeft(LAMBDA a, x : b * a + x - 48, 0, valid)

\* The callback a header line of each kind triggers after header().
HeaderCallback(r, l) ==
  CASE l.h = "Content-Length" -> SetIvar(r, Id.content_length, Strtol0(l.d))
    [] l.h = "Connection" ->
         FoldLeft(LAMBDA a, t : PushIvar(a, Id.hdr_connection, Downcase(t)), r, l.vs)
    [] l.h = "Upgrade" -> SetIvar(r, Id.hdr_upgrade, Downcase(l.v))
    [] l.h = "Sec-WebSocket-Version" -> SetIvar(r, Id.hdr_sec_websocket_version, StrToInt(l.d))
    [] l.h = "Sec-WebSocket-Key" -> SetIvar(r, Id.hdr_sec_websocket_key, Str(l.v))
    [] l.h = "Sec-WebSocket-Protocol" ->
         FoldLeft(LAMBDA a, t : PushIvar(a, Id.hdr_sec_websocket_protocol, Str(t)), r, l.vs)
    [] l.h = "Origin" -> SetIvar(r, Id.hdr_origin, Downcase(l.v))
    [] OTHER -> r

\* The raw-string setters req_request_uri, req_request_path, req_query,
\* req_fragment and req_http_version, for a part the line has.
SetRaw(r, l, f) == IF f \in DOMAIN l.raw THEN SetIvar(r, Id[f], Str(l.raw[f])) ELSE r

(***************************************************************************)
(* ws_http_request_parser_init (ws_http_parser.rl, not in src), called by *)
(* alloc, initialize and reset: the automaton at its start state, nread   *)
(* and the error window zeroed.                                            *)
(***************************************************************************)
InitParser == [cs |-> "start", nread |-> 0, error_start |-> 0, error_len |-> 0, error_pos |-> 0]

(***************************************************************************)
(* The automaton (not in src).  LineStart is the first byte of a line:    *)
(* the request line's method, scheme, URI part, host and port events; the *)
(* empty line after the headers finishes the request.  LineEnd is the    *)
(* CRLF: the request line's version, a header line's header() and its own *)
(* callback.  Any line the grammar does not allow where it appears is an  *)
(* error.                                                                 *)
(***************************************************************************)
RequestLineStart(r, l) ==
  LET r1 == IF l.s = Nil THEN ReqMethod(r, l.m) ELSE ReqUriScheme(ReqMethod(r, l.m), l.s)
      r2 == SetRaw(SetRaw(SetRaw(SetRaw(r1, l, "uri"), l, "uri_path"), l, "uri_query"),
                   l, "uri_fragment")
      r3 == IF l.host = Nil THEN r2 ELSE ReqHost(r2, l.host)
  IN IF l.port = <<>> THEN r3 ELSE ReqPort(r3, l.port)

LineStart(cs, r, l) ==
  CASE cs = "start" /\ l.k = "req"   -> [cs |-> "reqline", r |-> RequestLineStart(r, l)]
    [] cs = "headers" /\ l.k = "hdr" -> [cs |-> "hline", r |-> r]
    [] cs = "headers" /\ l.k = "eoh" -> [cs |-> "done", r |-> r]
    [] OTHER                         -> [cs |-> "error", r |-> r]

LineEnd(cs, r, l) ==
  [cs |-> "headers",
   r  |-> IF cs = "reqline" THEN SetRaw(r, l, "http_version")
          ELSE HeaderCallback(Header(r, l.n, l.v), l)]

Step(cs, r, b) == IF b.first THEN LineStart(cs, r, b.line) ELSE LineEnd(cs, r, b.line)

\* ws_http_request_parser_execute(parser, buf, len, from): the automaton
\* runs from offset p to the end, the final state or an error; nread
\* counts every byte consumed, the rejected one excepted.  On an error the
\* parser records the window it was given, from..len, and the rejected
\* byte's offset in it.
\* The error offset taken from the start of the buffer, not of the window.
RECURSIVE RunErrorPosAbsolute(_, _, _, _, _)
RunErrorPosAbsolute(p0, r, p, buf, from) ==
  IF p >= Len(buf) \/ p0.cs \in {"done", "error"} THEN [ps |-> p0, r |-> r]
  ELSE LET nx == Step(p0.cs, r, buf[p + 1])
       IN IF nx.cs = "error"
          THEN [ps |-> [p0 EXCEPT !.cs = "error", !.error_start = from, !.error_len = Len(buf) - from,
                                  !.error_pos = p],
                r |-> r]
          ELSE RunErrorPosAbsolute([p0 EXCEPT !.cs = nx.cs, !.nread = @ + 1], nx.r, p + 1, buf, from)

RECURSIVE Run(_, _, _, _, _)
Run(p0, r, p, buf, from) ==
  IF p >= Len(buf) \/ p0.cs \in {"done", "error"} THEN [ps |-> p0, r |-> r]
  ELSE LET nx == Step(p0.cs, r, buf[p + 1])
       IN IF nx.cs = "error"
          THEN [ps |-> [p0 EXCEPT !.cs = "error", !.error_start = from, !.error_len = Len(buf) - from,
                                  !.error_pos = p - from],
                r |-> r]
          ELSE Run([p0 EXCEPT !.cs = nx.cs, !.nread = @ + 1], nx.r, p + 1, buf, from)
(***************************************************************************)
(* HttpRequestParser_error: a buffer of 2 * error_len + 6 chars; each     *)
(* byte of the window is copied, CR and LF as the two chars \r and \n, and *)
(* the byte at error_pos between {{{ and }}}; parsing_error_str_len counts *)
(* the chars written, and rb_str_new copies that many of the buffer.  A    *)
(* byte of the wire is "CR", "LF" (a line's CRLF ends in one) or "o".      *)
(***************************************************************************)
\* The buffer sized without doubling for the escapes.
ErrorAllocNoDouble(n) == n + 6

ErrorAlloc(n) == 2 * n + 6

Escaped(c) == CASE c = "CR" -> <<"\\", "r">> [] c = "LF" -> <<"\\", "n">> [] OTHER -> <<c>>

RenderByte(acc, c, marked) ==
  IF marked
  THEN [buf |-> acc.buf \o <<"{", "{", "{">> \o Escaped(c) \o <<"}", "}", "}">>,
        len |-> acc.len + Len(Escaped(c)) + 6]
  ELSE [buf |-> acc.buf \o Escaped(c), len |-> acc.len + Len(Escaped(c))]

ByteChar(b) == CASE b.line.k = "bad" -> b.line.c [] b.last -> "LF" [] OTHER -> "o"

ErrorDescription(p, buf) ==
  LET w == [i \in 1..p.error_len |-> ByteChar(buf[p.error_start + i])]
      res == FoldLeft(LAMBDA acc, i : RenderByte(acc, w[i + 1], i = p.error_pos),
                      [buf |-> <<>>, len |-> 0], [k \in 1..Len(w) |-> k - 1])
  IN [written |-> res.buf, len |-> res.len, alloc |-> ErrorAlloc(p.error_len)]

(***************************************************************************)
(* The connection (not in src: spec.md 4.1 "Inputs/constraints").         *)
(* Receive: a socket read appends bytes to the buffer.  Execute:           *)
(* HttpRequestParser_execute(req, buffer, nread), which raises unless the  *)
(* start offset is inside the buffer and returns false on error or nread. *)
(* Deliver: a finished request is handed on.  CloseOnError: execute        *)
(* returned false; the reader asks parser.error and closes.               *)
(***************************************************************************)
Init ==
  /\ wire \in Wires
  /\ avail = 0
  /\ ps = InitParser
  /\ req = [ivars |-> [i \in {} |-> Nil], hash |-> [n \in {} |-> <<>>]]
  /\ delivered = Nil
  /\ closed = FALSE
  /\ errmsg = Nil

Receive ==
  /\ ~closed /\ delivered = Nil
  /\ \E k \in 1..MaxChunk :
       /\ avail + k <= WireLen
       /\ avail' = avail + k
  /\ UNCHANGED <<wire, ps, req, delivered, closed, errmsg>>

\* The start-offset test written against the last byte instead of the end.
CanExecuteBeforeLast ==
  /\ ~closed
  /\ ps.cs \notin {"done", "error"}
  /\ ps.nread < avail - 1

\* The reader has unparsed bytes for a parser that is neither finished nor
\* failed; execute raises unless from < RSTRING_LEN(buffer).
CanExecute ==
  /\ ~closed
  /\ ps.cs \notin {"done", "error"}
  /\ ps.nread < avail

Execute ==
  /\ CanExecute
  /\ LET r == Run(ps, req, ps.nread, SubSeq(Bytes(wire), 1, avail), ps.nread)
     IN /\ ps' = r.ps
        /\ req' = r.r
  /\ UNCHANGED <<wire, avail, delivered, closed, errmsg>>

\* What the application reads of the request: its instance variables and
\* entries.  The unknown-method flag is read under the ID the code interns.
View(r) ==
  [http_method |-> Ivar(r, Id.http_method), is_unknown_method |-> Ivar(r, Id.is_unknown_method),
   uri_scheme |-> Ivar(r, Id.uri_scheme), raw |-> [f \in RawFields |-> Ivar(r, Id[f])],
   host |-> Ivar(r, Id.host), port |-> Ivar(r, Id.port),
   content_length |-> Ivar(r, Id.content_length), hdr_connection |-> Ivar(r, Id.hdr_connection),
   hdr_upgrade |-> Ivar(r, Id.hdr_upgrade), hdr_origin |-> Ivar(r, Id.hdr_origin),
   hdr_sec_websocket_version |-> Ivar(r, Id.hdr_sec_websocket_version),
   hdr_sec_websocket_key |-> Ivar(r, Id.hdr_sec_websocket_key),
   hdr_sec_websocket_protocol |-> Ivar(r, Id.hdr_sec_websocket_protocol),
   headers |-> r.hash]

Deliver ==
  /\ ps.cs = "done" /\ delivered = Nil
  /\ delivered' = View(req)
  /\ UNCHANGED <<wire, avail, ps, req, closed, errmsg>>

CloseOnError ==
  /\ ps.cs = "error" /\ ~closed
  /\ errmsg' = ErrorDescription(ps, Bytes(wire))
  /\ closed' = TRUE
  /\ UNCHANGED <<wire, avail, ps, req, delivered>>

\* The request was handed on or the connection closed: the parser is done.
Idle ==
  /\ closed \/ delivered # Nil
  /\ UNCHANGED vars

Next == Receive \/ Execute \/ Deliver \/ CloseOnError \/ Idle

Spec == Init /\ [][Next]_vars
\* Execute is enabled exactly when CanExecute holds (each step consumes a
\* byte or changes cs); the last conjunct is WF_vars(Execute) spelled out.
FairSpec == /\ Spec
            /\ WF_vars(Receive) /\ WF_vars(Deliver) /\ WF_vars(CloseOnError)
            /\ (<>[]CanExecute => []<><<Execute>>_vars)
-----------------------------------------------------------------------------
TypeOK ==
  /\ avail \in 0..WireLen
  /\ ps.cs \in {"start", "reqline", "headers", "hline", "done", "error"}
  /\ ps.nread \in 0..avail
  /\ ps.error_start + ps.error_len <= avail /\ ps.error_pos \in 0..ps.error_len
  /\ DOMAIN req.ivars \subseteq {Id[f] : f \in DOMAIN Id}
  /\ closed \in BOOLEAN
  /\ delivered = Nil \/ DOMAIN delivered = DOMAIN A!Build(wire)
  /\ errmsg = Nil \/ closed

\* Streaming equivalence (spec.md 4.4 with 4.1 and 8): whatever the read
\* boundaries, the reader hands on exactly the one-shot interpretation of
\* the request, or closes the connection on a malformed one.  This checks
\* that execute resumes at nread, that header() merges the lines of one
\* name whatever their case, that the Connection and Sec-WebSocket-Protocol
\* arrays grow across lines, and the conversions of every callback.
WsRefinement == A!Init(Wires) /\ [][A!Next]_A!vars

\* HttpRequestParser_error never writes past the 2 * error_len + 6 chars it
\* allocates, and the length it hands rb_str_new is the number of chars it
\* wrote: with every byte of the window a CR or LF and the marked one too.
ErrorDescriptionFits ==
  errmsg # Nil =>
    /\ errmsg.len = Len(errmsg.written)
    /\ Len(errmsg.written) <= errmsg.alloc

\* Every connection's request is eventually handed on, or the connection
\* closed on a malformed one: execute resumes from nread and the reader
\* never stalls between reads and execute.
EveryRequestHandled == <>(closed \/ delivered # Nil)

\* A port is a decimal number (spec.md 4.4, RFC 3986): the @port the
\* request carries is the value of the request line's port digits, which
\* req_port converts with str_to_int into a C int.
Significant(d) == IF \A i \in 1..Len(d) : d[i] = 48 THEN <<>>
                  ELSE SubSeq(d, Min({i \in 1..Len(d) : d[i] # 48}), Len(d))
RECURSIVE DigitsOf(_)
DigitsOf(n) == IF n = 0 THEN <<>> ELSE DigitsOf(n \div 10) \o <<48 + (n % 10)>>

PortIsDecimal ==
  delivered # Nil /\ wire[1].port # <<>> =>
    /\ delivered.port >= 0
    /\ DigitsOf(delivered.port) = Significant(wire[1].port)

\* The comment in req_method: an unknown method sets "the attribute
\* @is_unknown_method to true", the instance variable the request's Ruby
\* readers see, as the SIP parser does with rb_intern("@is_unknown_method").
UnknownMethodFlagVisible ==
  delivered # Nil /\ wire[1].m.kind = "unknown" => Ivar(req, "@is_unknown_method") = TRUE
====
