------------------------- MODULE MC_WsHttpParser -------------------------
(***************************************************************************)
(* Connections chosen to exercise each callback of the WebSocket parser:  *)
(* a known and an unknown method, an origin-form URI and absolute ones    *)
(* with http and an unknown scheme, a host with a trailing dot, a port    *)
(* with a leading zero, Connection and Sec-WebSocket-Protocol over two    *)
(* lines each, header names that differ only in case, and malformed       *)
(* requests rejected at a CR, at a second request line and at once.       *)
(* Bytes are ASCII codes.                                                  *)
(***************************************************************************)
EXTENDS WsHttpParser

NoRaw == [f \in {} |-> <<>>]

Line(k) == [k |-> k, m |-> Nil, s |-> Nil, host |-> Nil, port |-> <<>>, raw |-> NoRaw,
            n |-> <<>>, h |-> "", v |-> <<>>, vs |-> <<>>, d |-> <<>>, c |-> "o"]
Req(m, s, host, port, raw) ==
  [Line("req") EXCEPT !.m = m, !.s = s, !.host = host, !.port = port, !.raw = raw]
Hdr(n, h, v, vs, d) == [Line("hdr") EXCEPT !.n = n, !.h = h, !.v = v, !.vs = vs, !.d = d]
EOH == Line("eoh")
BAD(c) == [Line("bad") EXCEPT !.c = c]

GET == [kind |-> "GET", raw |-> <<71, 69, 84>>]
FOO == [kind |-> "unknown", raw |-> <<70, 79, 79>>]

Slash == <<47, 97>>                                         \* "/a"
OriginForm == ("uri" :> Slash) @@ ("uri_path" :> Slash) @@ ("http_version" :> <<49>>)
WithQuery == ("uri_query" :> <<113>>) @@ OriginForm

Upgrade == <<85, 112, 103, 114, 97, 100, 101>>               \* "Upgrade"
Keep == <<107, 101, 101, 112>>                              \* "keep"
Sip == <<115, 105, 112>>                                    \* "sip"
ExDot == <<69, 120, 46>>                                    \* "Ex."
XmY == <<120, 45, 89>>                                      \* "x-Y"

\* Connection: Upgrade, keep / CONNECTION: Upgrade / upgrade: WebSocket /
\* sec-websocket-protocol: sip (twice) / SEC-WEBSOCKET-VERSION: 13 /
\* sec-WebSocket-key: k.
WireA ==
  <<Req(GET, Nil, Nil, <<>>, OriginForm),
    Hdr(<<99, 111, 110, 110, 101, 99, 116, 105, 111, 110>>, "Connection", Upgrade, <<Upgrade, Keep>>, <<>>),
    Hdr(<<67, 79, 78, 78, 69, 67, 84, 73, 79, 78>>, "Connection", Upgrade, <<Upgrade>>, <<>>),
    Hdr(<<117, 112, 103, 114, 97, 100, 101>>, "Upgrade", <<87, 101, 98, 83, 111, 99, 107, 101, 116>>, <<>>, <<>>),
    Hdr(<<115, 101, 99, 45, 119, 101, 98, 115, 111, 99, 107, 101, 116, 45, 112, 114, 111, 116, 111, 99, 111, 108>>,
        "Sec-WebSocket-Protocol", Sip, <<Sip>>, <<>>),
    Hdr(<<83, 101, 99, 45, 87, 101, 98, 83, 111, 99, 107, 101, 116, 45, 80, 114, 111, 116, 111, 99, 111, 108>>,
        "Sec-WebSocket-Protocol", Keep, <<Keep>>, <<>>),
    Hdr(<<83, 69, 67, 45, 87, 69, 66, 83, 79, 67, 75, 69, 84, 45, 86, 69, 82, 83, 73, 79, 78>>,
        "Sec-WebSocket-Version", <<49, 51>>, <<>>, <<49, 51>>),
    Hdr(<<115, 101, 99, 45, 87, 101, 98, 83, 111, 99, 107, 101, 116, 45, 107, 101, 121>>,
        "Sec-WebSocket-Key", <<107>>, <<>>, <<>>),
    EOH>>

\* FOO HTTP://Ex.:080/a?q / Origin: Ex / content-length: 5 / x-Y, X-Y, x_y.
WireB ==
  <<Req(FOO, <<72, 84, 84, 80>>, ExDot, <<48, 56, 48>>, WithQuery),
    Hdr(<<79, 114, 105, 103, 105, 110>>, "Origin", <<69, 120>>, <<>>, <<>>),
    Hdr(<<99, 111, 110, 116, 101, 110, 116, 45, 108, 101, 110, 103, 116, 104>>,
        "Content-Length", <<53>>, <<>>, <<53>>),
    Hdr(XmY, "other", <<118>>, <<>>, <<>>),
    Hdr(<<88, 45, 89>>, "other", Keep, <<>>, <<>>),
    Hdr(<<120, 95, 121>>, "other", <<118>>, <<>>, <<>>),
    EOH>>

\* GET wS://Ex.:80/a, one header, then a CR where a header line starts.
WireC == <<Req(GET, <<119, 83>>, ExDot, <<56, 48>>, OriginForm), Hdr(XmY, "other", Keep, <<>>, <<>>), BAD("CR")>>

\* A second request line among the headers; an empty line first.
WireD == <<Req(GET, Nil, Nil, <<>>, OriginForm), Req(FOO, Nil, Nil, <<>>, OriginForm), EOH>>
WireE == <<EOH>>

\* An LF where the request line starts.
WireF == <<BAD("LF")>>

MC_Wires == {WireA, WireB, WireC, WireD, WireE, WireF}

\* Ports that do not fit a C int: 4294967376 and 2147483648.
MC_PortOverflowWires ==
  {<<Req(GET, <<72, 84, 84, 80>>, ExDot, <<52, 50, 57, 52, 57, 54, 55, 51, 55, 54>>, OriginForm), EOH>>,
   <<Req(GET, <<72, 84, 84, 80>>, ExDot, <<50, 49, 52, 55, 52, 56, 51, 54, 52, 56>>, OriginForm), EOH>>}

\* The request with the unknown method FOO.
MC_UnknownMethodWires == {WireB}
====
