------------------------- MODULE WsUpgradeRequest -------------------------
(***************************************************************************)
(* What the WebSocket HTTP upgrade parser promises the connection that    *)
(* feeds it (spec.md 4.4, with the field rules of 4.1 and 7 it refers     *)
(* to), without bytes, reads or automaton states: the request a           *)
(* connection starts with is handed on once, as the one-shot              *)
(* interpretation Build(w) of its lines, or the connection is closed if   *)
(* the lines up to the empty one are not a request line and headers.      *)
(*                                                                         *)
(* A line is a record with field k: "req" (the request line: method m,    *)
(* URI scheme bytes s or Nil, host bytes or Nil, port digits, raw: the     *)
(* raw URI parts and version present, by field), "hdr" (a header line:     *)
(* name bytes n, kind h, raw value v, list tokens vs, digits d), "eoh"     *)
(* (the empty line) or "bad" (a byte the grammar rejects, of class c).     *)
(* Bytes are ASCII codes.                                                  *)
(***************************************************************************)
EXTENDS Integers, Sequences, SequencesExt

CONSTANTS
  Nil           \* Ruby nil: an attribute that was never set

VARIABLES
  wire,         \* the lines the peer sends
  delivered,    \* the request handed on, or Nil
  closed        \* the connection was closed on a malformed request

vars == <<wire, delivered, closed>>

Sym(s) == [sym |-> s]       \* a Ruby Symbol
Str(b) == [str |-> b]       \* a Ruby String of the bytes b

Lower(b) == [i \in 1..Len(b) |-> IF b[i] \in 65..90 THEN b[i] + 32 ELSE b[i]]
Upper(c) == IF c \in 97..122 THEN c - 32 ELSE c
Decimal(d) == FoldLeft(LAMBDA a, x : 10 * a + x - 48, 0, d)

HTTP == <<104, 116, 116, 112>>           \* "http"
HTTPS == <<104, 116, 116, 112, 115>>     \* "https"

RawFields == {"uri", "uri_path", "uri_query", "uri_fragment", "http_version"}

\* spec.md 4.4 and 4.1: the first letter of a header name and every letter
\* after '-' or '_' upper-cased, every other letter lower-cased.
Canonical(n) ==
  [i \in 1..Len(n) |-> IF i = 1 \/ n[i - 1] \in {45, 95} THEN Upper(n[i]) ELSE Lower(<<n[i]>>)[1]]

\* The lines up to and with the first empty line: the request proper.
EohAt(w) == {i \in 1..Len(w) : w[i].k = "eoh"}
RequestLines(w) == IF EohAt(w) = {} THEN w ELSE SubSeq(w, 1, Min(EohAt(w)))

WellFormed(w) ==
  LET r == RequestLines(w)
  IN /\ EohAt(w) # {}
     /\ r[1].k = "req"
     /\ \A i \in 2..Len(r) - 1 : r[i].k = "hdr"

Hdrs(w, h) == SelectSeq(RequestLines(w), LAMBDA l : l.k = "hdr" /\ l.h = h)

\* A single-valued header: the value of its last line, or nil.
LastOf(w, h, F(_)) == IF Hdrs(w, h) = <<>> THEN Nil ELSE F(Hdrs(w, h)[Len(Hdrs(w, h))])

\* A multi-valued header: the tokens of all its lines, in order, or nil.
AllOf(w, h, F(_)) ==
  IF Hdrs(w, h) = <<>> THEN Nil
  ELSE LET ts == FlattenSeq([i \in 1..Len(Hdrs(w, h)) |-> Hdrs(w, h)[i].vs])
       IN [j \in 1..Len(ts) |-> F(ts[j])]

StripDot(b) == IF b[Len(b)] = 46 THEN SubSeq(b, 1, Len(b) - 1) ELSE b

\* spec.md 4.4 and 7: a known method as a symbol, an unknown one as its
\* raw string with the is_unknown_method flag set; an http or https scheme
\* as a symbol, another one downcased; the raw URI parts and version; the
\* host downcased without a trailing dot; port, Content-Length and
\* Sec-WebSocket-Version as decimal integers; Connection tokens downcased
\* and Sec-WebSocket-Protocol tokens as they are, across all their lines;
\* Upgrade and Origin downcased; the header map from canonical name to the
\* raw values of its lines in order.
Build(w) ==
  LET r == w[1]
      hdrs == SelectSeq(RequestLines(w), LAMBDA l : l.k = "hdr")
  IN [ http_method       |-> IF r.m.kind = "unknown" THEN Str(r.m.raw) ELSE Sym(r.m.kind),
       is_unknown_method |-> IF r.m.kind = "unknown" THEN TRUE ELSE Nil,
       uri_scheme        |-> CASE r.s = Nil -> Nil
                                [] Lower(r.s) = HTTP -> Sym("http")
                                [] Lower(r.s) = HTTPS -> Sym("https")
                                [] OTHER -> Str(Lower(r.s)),
       raw               |-> [f \in RawFields |-> IF f \in DOMAIN r.raw THEN Str(r.raw[f]) ELSE Nil],
       host              |-> IF r.host = Nil THEN Nil ELSE Str(Lower(StripDot(r.host))),
       port              |-> IF r.port = <<>> THEN Nil ELSE Decimal(r.port),
       content_length    |-> LastOf(w, "Content-Length", LAMBDA l : Decimal(l.d)),
       hdr_connection    |-> AllOf(w, "Connection", LAMBDA b : Str(Lower(b))),
       hdr_upgrade       |-> LastOf(w, "Upgrade", LAMBDA l : Str(Lower(l.v))),
       hdr_origin        |-> LastOf(w, "Origin", LAMBDA l : Str(Lower(l.v))),
       hdr_sec_websocket_version  |-> LastOf(w, "Sec-WebSocket-Version", LAMBDA l : Decimal(l.d)),
       hdr_sec_websocket_key      |-> LastOf(w, "Sec-WebSocket-Key", LAMBDA l : Str(l.v)),
       hdr_sec_websocket_protocol |-> AllOf(w, "Sec-WebSocket-Protocol", LAMBDA b : Str(b)),
       headers           |-> [c \in {Canonical(hdrs[i].n) : i \in 1..Len(hdrs)} |->
                               LET hs == SelectSeq(hdrs, LAMBDA l : Canonical(l.n) = c)
                               IN [i \in 1..Len(hs) |-> Str(hs[i].v)]] ]

Init(Wires) ==
  /\ wire \in Wires
  /\ delivered = Nil
  /\ closed = FALSE

Deliver ==
  /\ ~closed /\ delivered = Nil
  /\ WellFormed(wire)
  /\ delivered' = Build(wire)
  /\ UNCHANGED <<wire, closed>>

Reject ==
  /\ ~closed /\ delivered = Nil
  /\ ~WellFormed(wire)
  /\ closed' = TRUE
  /\ UNCHANGED <<wire, delivered>>

Next == Deliver \/ Reject

Spec(Wires) == Init(Wires) /\ [][Next]_vars
=============================================================================
