# TLA+ models of OverSIP's C extensions

This directory holds TLA+ models of the C extensions under `src/ext`. These are
the wire-format parsers of the OverSIP SIP proxy. Each model is checked with TLC.
`PROJECT.json` lists the following:

- the components;
- the runs and the properties each one checks;
- the mutants that show each property can fail;
- the map from every modelling definition to the source lines it translates;
- the findings;
- the hazards.

## 1. Inventory

| Component | Source | State | Operations | Interacts with |
|---|---|---|---|---|
| SIP message parser binding | `sip_parser/sip_parser_ruby.c`, `sip_parser.h` | The C struct `sip_message_parser`: automaton state, `nread`, the `num_*` counters, `contact_is_valid`, `route_found`. Also the Ruby message object `parsed`: `@headers`, `@hdr_via`/`@hdr_route` aliases, Via fields, `@ruri`/`@from`/`@to`/`@contact`, `@routes`, `@content_length`, `@num_vias`. | `alloc`/`initialize`/`reset`, `execute(buffer, start)`, `finish`, the sink callbacks (`data_type`, `init_component`, `header`, `msg_*`, `uri_*`), `duplicated_core_header?`, `missing_core_header?`, `post_parsing`, `error`, `headerize` | The Ragel automaton `sip_parser.rl`, which is not in src; the Ruby connection reader, which is not in src; header canonicalisation; string helpers |
| Header name canonicalisation | `sip_parser/common_headers.h`, `Class_headerize` | none | `headerize`, `find_common_header_name`, `find_short_header_name` | Used by `header()` |
| C string helpers | `common/c_util.h`, `common/ruby_c_util.h`, `my_rb_str_tel_number_clean` in `sip_parser_ruby.c` | none | `str_to_int`, `strnchr`, `str_find_upcase`, `my_rb_str_hex_unescape`, `my_rb_str_downcase`, `my_rb_str_tel_number_clean` | Used by the callbacks, for example `uri_user` |
| STUN responder | `stun/stun_ruby.c` | none: a pure function | `Stun_parse_request` | The SIP UDP reader |
| HAProxy protocol parser | `utils/haproxy_protocol.c` (generated), `utils_ruby.c` | A one-shot DFA: `cs`, spans, `finished`, `valid`, `total_len` | `haproxy_protocol_parser_execute`, `parser_haproxy_protocol` | The TCP reader behind HAProxy |
| Outbound flow token parser | `utils/outbound_utils.c` (generated), `utils_ruby.c` | A one-shot DFA | `outbound_udp_flow_token_parser_execute`, `parser_outbound_udp_flow_token` | SIP Outbound (RFC 5626) |
| IP utilities | `utils/utils_ruby.c`, `utils_ruby.h`, `ip_utils.h` | none: pure functions | `is_ip`, `ip_type`, `compare_ips`, `normalize_ipv6`, `normalize_host`, `to_pure_ip` | `uri_host` |
| WebSocket HTTP parser binding | `websocket_http_parser/ws_http_parser_ruby.c`, `ws_http_parser.h` | The C struct `ws_http_request_parser`: automaton state, `nread`, the error window (`error_start`, `error_len`, `error_pos`). Also the request Hash given to `execute`: its entries and its instance variables. | `alloc`/`initialize`/`reset`, `execute(req, buffer, start)`, `finish`, `error?`, `error`, `finished?`, `nread`, the callbacks `header`, `req_*`, `headerize` | The Ragel automaton `ws_http_parser.rl`, which is not in src; the WebSocket upgrade reader, which is not in src; `str_to_int`, `my_rb_str_downcase` |
| WebSocket framing utilities | `websocket_framing_utils/ws_framing_utils_ruby.c` | The incremental UTF-8 validator state | `unmask`, `Utf8Validator#validate`, `reset` | The WebSocket frame reader |

**Hard behaviours and what must hold:**

- **SIP message parser.** Parsing resumes across reads: `execute` is called again on a grown buffer, starting from `nread`. The reader shifts the buffer and calls `reset` between messages on one connection. The callbacks build the message incrementally. Route values from several header lines accumulate into one `@routes` array. Only the topmost Via is promoted, but `num_via` counts every Via value. Contact is built speculatively and then cleared by `post_parsing`. The post-parse queries read counters that were accumulated over the whole message. What must hold:
  - every message is delivered exactly as a one-shot parse of its lines would build it, whatever the read boundaries;
  - nothing leaks from one message into the next;
  - malformed input closes the connection;
  - every message is eventually handled.
- **STUN.** The response depends on bit-exact integer conversions: pointer casts, `htons` and `memcpy`, whose result depends on the host's byte order. The cookie test compares a `char` with a negative constant. What must hold: the response framing of RFC 5389, a MAPPED-ADDRESS or XOR-MAPPED-ADDRESS that decodes to the source, and the cookie selects which of the two is used.
- **HAProxy and outbound tokens.** Port ranges are encoded in DFA states, and there is a final validity test against the buffer length.
- **WebSocket upgrade parser.** Like the SIP parser, parsing resumes across reads from `nread`. Connection and Sec-WebSocket-Protocol tokens accumulate in one array across header lines, and the header hash merges lines whose names differ only in case. The error description is written into a buffer sized for the worst case. What must hold: the request is delivered exactly as a one-shot parse would build it, whatever the read boundaries; every request is eventually handled; the error string stays inside its buffer.
- **IP utilities.** `normalize_ipv6` copies a bracketed string into a fixed stack buffer with a length computed as a `size_t`, and `compare_ips` reduces a reference by pointer and length arithmetic before copying it into another fixed buffer. What must hold: compare is true exactly for the same address, normalize gives a text of the same address that normalizes to itself, and anything that is not an IPv6 address or reference gives false.
- **WebSocket framing.** The UTF-8 validator keeps its decoder state across `validate` calls, so a character may be split across calls and the state must be reset between messages. What must hold: `unmask` undoes RFC 6455 masking, and `validate` answers for all bytes since the last reset.
- **String helpers.** The edge cases are int overflow, reads past the span, and escapes at the end of the string.

## 2. Plan

Modules are listed most important first. The ones marked (done) exist now.

1. `SipMessageStream` (done): the abstract specification of the parser and its reader.
2. `SipMessageParser` (done), with `MC_SipMessageParser` and `MC_SipContentLength`. It is the binding plus the reader. It refines `SipMessageStream` (`Refinement == S!Spec`, where `S == INSTANCE SipMessageStream`; the variables `wire`, `delivered` and `closed` are shared, so the mapping is the identity on them).
3. `StunResponder` (done), with `MC_StunResponder`.
4. `HaproxyProtocol` and `OutboundToken` (done), with `MC_HaproxyProtocol` and `MC_OutboundToken`. Their literal states are in `HaproxyLiterals` and `OutboundLiterals`. Both extend `RagelDfa` (the execution of a generated one-shot machine), `CUtil` (`str_to_int`), `PortGrammar` (the reference port grammar) and `IpGrammar` (the reference address grammar). `MC_IpLiterals` builds the candidate addresses that both MC modules use.
5. `HeaderName` (done), with `MC_HeaderName`: `headerize` and its two lookups over the transcribed `common_headers[]` table.
6. `UriUser` (done), with `MC_UriUser` and its abstract specification `UserPartSpec`: the `uri_user` callback with `my_rb_str_hex_unescape`, `strnchr` and `my_rb_str_tel_number_clean`, checked against RFC 3986 percent-decoding and spec.md's tel cleanup. `CUtil` has `str_to_int` at int width.
7. `WsHttpParser` (done), with `MC_WsHttpParser` and its abstract specification `WsUpgradeRequest`: the WebSocket binding with its reader, refining the one-shot request.
8. `IpUtils` (done), with `MC_IpUtils`: every IP function of `OverSIP::Utils`.
9. `WsFraming` (done), with `MC_WsFraming`: `unmask` and `Utf8Validator`.
10. `MC_Library` (done): one run for the stateless library calls of items 3 to 6 and 9, composed as described under "Composition" below. The IP utilities (item 8) have their own run, `ip_pass`: under TLC's coverage profiling, the cost tree of their deeply nested operators is too large to share a run with the rest.

## 3. How the models correspond to the code

### SipMessageParser

- **Data.** A message on the wire is a sequence of *lines*: a start line, header lines, the empty line, a keepalive, or a rejected byte. Each line is a record `[k, h, v, n, d]` with these fields:
  - `k`: the line's kind;
  - `h`: the canonical header name (what `headerize` returns);
  - `v`: a tag standing for the value;
  - `n`: the number of comma-separated values, which matters for Via, Route and Contact;
  - `d`: the Content-Length digits.

  A start line or header line is two bytes. The automaton's events for the line's name and URIs fire on its first byte. `header()`, the cardinality counters and the scalar setters fire on its CRLF. So a read can end in the middle of any line.
- **Parser state.** `ps` is the C struct: `cs`, `nread`, the `num` counters of `sip_parser.h`, `contact_is_valid` and `route_found`. `msg` is `parser->parsed`.
- **Callbacks.** Each sink callback has its own operator: `DataType`, `InitComponent`, `SetUri` (`get_uri_object` followed by the `uri_*` setters), `Header`, `MsgContentLength` (with `Strtol0` modelling `strtol(at, NULL, 0)`), `DuplicatedCoreHeader`, `MissingCoreHeader` and `PostParsing`.
- **The automaton.** `sip_parser.rl` is not in src. It is modelled from spec.md 4.1 by `LineStart`, `LineEnd`, `Step` and `Run`.
- **Actions.** These follow the Ruby reader's loop (spec.md 4.1, "Inputs/constraints"):
  - `Receive`: a socket read of 1..`MaxChunk` bytes.
  - `Execute`: `SipMessageParser_execute(buffer, nread)`. It runs the automaton over all received bytes up to the end of the message or an error. Its guard is the `from >= dlen` raise.
  - `Deliver`: the reader's handling of a finished message. It calls `duplicated_core_header?` (which also sets `@num_vias`), then `missing_core_header?`, then `post_parsing`. It then drops `nread` bytes from the buffer and calls `reset`.
  - `CloseOnError`: `execute` returned false, so the reader closes the connection.
  - `Idle`: the connection is closed or fully consumed, and the reader waits.
- **The abstract view.** `View` is what the application reads of a delivered message. From/To/Content-Length are reported as `unspecified` when the header is duplicated. In that case the spec gives no value, and the application rejects the message on `duplicated_core_header?`.

### StunResponder

`StunParseRequest` is `Stun_parse_request` byte for byte:

- it has the same early returns;
- it copies the header;
- it writes the attribute header;
- it fills the XOR-MAPPED-ADDRESS or MAPPED-ADDRESS value.

Pointer casts and `memcpy` are `Load16`, `Low16Of32`, `Store16` and `Store32`, parameterised by the host's byte order. `htons` converts its argument to `uint16_t`. A `char` is read through `CharValue`, which depends on whether `char` is signed. The build is one of `Platforms`, chosen once per behaviour. `inet_pton` is abstracted to the address family and the network-order bytes it produces. The module is a server taking one datagram at a time.

### RagelDfa, HaproxyProtocol and OutboundToken

- **The machines.** A generated machine is a set of transitions `Tr(from, lo, hi, to, act)`, with the generated state numbers of `haproxy_protocol.c` and `outbound_utils.c`. `act` names the `.rl` actions its `trNN` label runs: `ip_s`, `ipv4`/`ipv6` (type and `ip_len`), `port_s`, `port_len` and `finished`. `RagelDfa!Exec` is the goto loop. At `p == pe` the machine stops in its state. A byte with no transition sends it to `st0` with `p` left on that byte. `Execute` is the code after the loop: `valid = finished && len == p-str`, and `total_len = p - str` stored in an unsigned short.
- **The literals.** Every state is translated, the IP literal states included. `HaproxyLiterals` holds the 177 states of the source literal (st12..st19, st206..st374) and the 159 of the destination literal (st20..st27, st55..st205); `OutboundLiterals` holds the 177 literal states of the flow-token machine (st1..st8, st13..st181). Each definition there covers the states the generated file lays out in one stretch of lines, and its name gives their numbers. A transition is `EA(from, on, to, act)`, where `on` is the set of bytes that the state's `switch` and `if` tests send to that target. Strings are sequences of byte values, so offsets and `Len` count bytes. `IpGrammar` is the reference: RFC 3986 `IPv4address` and `IPv6address`, written from the RFC's grammar and not from the automaton. The properties compare the machines with it.
- **The wrappers.** `ParserHaproxyProtocol` and `ParserOutboundUdpFlowToken` are the Ruby functions of `utils_ruby.c`. They return false unless valid. Otherwise they return the spans, with the type `:ipv4` only for an IPv4 literal and the port as `str_to_int` of the port span.
- **Actions.** The modules are servers of one call: `Init` picks a candidate string and `Parse`/`Decode` is the call. A call returns and nothing follows it, so these runs say `CHECK_DEADLOCK FALSE`.
- **Composition.** `MC_Library` extends the MC modules of the stateless calls other than the IP utilities: `MC_HaproxyProtocol`, `MC_OutboundToken`, `MC_StunResponder`, `MC_HeaderName`, `MC_UriUser` and `MC_WsFraming`. Their definitions are renamed apart (`OutboundInit`, `StunInit`, `UriUserInit`, `user_result`, ...). A variable `fn` names the call a behaviour makes. `LibraryInit` has one disjunct per component: that component starts in its initial state, and every other one holds the values of its idle predicate (`HaproxyIdle`, `StunIdle`, ...), because the calls share no state. `LibraryNext` has one disjunct per component, with the other components' variables UNCHANGED. `Init`, `OutboundInit` and `UnmaskInit` take the candidate set as an argument.
- **`str_to_int`.** `CUtil!StrToInt` keeps the C `int` as two 16-bit halves of its value modulo 2^32 (`IntMulAdd`) and reads it back as a signed value (`IntValue`). Signed overflow is undefined in C; the builds compile `number*10 + digit` to 32-bit multiply and add, which wrap.

### HeaderName

`CommonHeaders` is `common_headers[]`, transcribed entry by entry: 54 names with their short forms. `ShortHeaders` is what `init_short_headers` fills from it. `FindCommonHeaderName` is the first entry of equal length that matches under `strncasecmp`. `FindShortHeaderName` compares `toupper(abbr)`. `Headerize` has the code's two branches:

- a one-byte name is looked up among the short names, and downcased on a miss;
- a longer name is looked up among the long names, and on a miss passes through `Capitalize`, the loop of `headerize`.

A name is a sequence of one-character strings. `SpecHeaderize` is spec.md 4.1's rule, written independently of the code.

### UriUser

`UriUserCall` is `uri_user`: a tel number goes through `TelNumberClean` (`my_rb_str_tel_number_clean`), and any other user part through `HexUnescape` (`my_rb_str_hex_unescape`). `HexUnescape` first tests the span with `strnchr`. It then runs the loop `UnescapeLoop`/`UnescapeStep` on a record holding the heap copy `mem` and the offsets `s`, `t`, `i` and `len`. The writes go to `mem[t]` in place, as in the code.

The loop tests `*(s+1)` and `*(s+2)` against NUL, not against the end of the span. So `mem` is the span followed by the two bytes the heap holds after it. `heap` chooses those bytes from `HeapBytes` once per behaviour, because reading uninitialised memory is undefined. The model also does three things:

- it records the furthest byte each iteration reads (`read`);
- it stops a loop whose `s` leaves `mem` (`overrun`);
- it stops a loop whose `size_t len` would go below zero (`wrapped`), because the code then runs on through memory.

`Strtol16` is `strtol(hex, NULL, 16)` on the two bytes: it skips leading white space, reads a sign, and then reads the longest run of hex digits. The result is `% 256`, which is `& 0xFF` in two's complement. `UserPartSpec` is the abstract specification: one `Store` step that sets `stored` to `PercentDecode(user)`, or to `TelClean(user)` for tel. These references are written from RFC 3986 2.1 and spec.md 4.1, and the abstract `user` is any byte string. `UriUser` implements it through `A == INSTANCE UserPartSpec WITH done <- result # Pending, stored <- result.bytes`, which hides `heap` and the loop's bookkeeping. `UserPartRefinement == A!Spec` is checked as a PROPERTY.

### IpUtils

- **Data.** A string is a sequence of byte values. A Ruby value is a record `[t, v]`: the tag is `"true"`, `"false"`, `"nil"`, `"str"` (with the bytes in `v`), a Symbol's name, `"raise"` for an exception, or `"overflow"` for a write past a C array. One record shape lets every result be compared with every other.
- **Actions.** `ip_call` is the call: the function name and its arguments. `IsIp`, `IsPureIp`, `IpType`, `CompareIpsCall`, `ComparePureIpsCall`, `NormalizeIpv6`, `NormalizeHost` and `ToPureIp` are the eight Ruby functions of `utils_ruby.c` lines 21-277. Each is one step from `IpPending` to its result.
- **Helpers.** `UtilsNormalizeIpv6` is `utils_normalize_ipv6` of `utils_ruby.h`:
  - a NUL byte raises (`StringValueCStr`);
  - a string starting with '[' loses its first and last bytes, neither of them checked;
  - for "[", the copy length `strlen(str) - 2` wraps, and a copy of more than 48 bytes writes past `str2[49]`, so both are `"overflow"`;
  - otherwise it returns `inet_ntop` of `inet_pton`, in brackets for a reference that is not forced pure.

  `UtilsComparePureIps` is `utils_compare_pure_ips` of `ip_utils.h`, and `PureOf` is the `str += 1, len -= 2` of `compare_ips`. `Forced` is the `argc == 2 && not nil && not false` test.
- **glibc.** `inet_pton` and `inet_ntop` are modelled by what glibc computes: `InetPton4`, `InetPton6` (eight words, "::" expanded, a trailing dotted quad) and `InetNtop6`. `InetNtop6` takes the first longest run of two or more zero words as "::". It writes `%x` words, and the last two words as a dotted quad after six zero words or five zero words and ffff.
- **Classifier.** `utils_ip_parser_execute` (ip_utils.c, generated, not in src) is `UtilsIpParserExecute`, written from spec.md 4.5 with `IpGrammar`'s RFC 3986 grammar.

### WsFraming

- **unmask.** `WsFramingUtilsUnmask` is `WsFramingUtils_unmask`: a TypeError unless the key has four bytes, else byte `i` XOR key byte `i % 4`. `unmask_call` carries the original payload, and the MC module masks it with `MaskRfc6455`, the RFC 6455 5.3 definition.
- **Utf8Validator.** `validator` is the C struct's `state`, or `NoValidator` before allocation. `Alloc`, `Reset` and `Validate` are `Utf8Validator_alloc`, `_reset` and `_validate`. `ValidateLoop` is the loop that returns `Qfalse` at the first byte leading to `UTF8_REJECT`. `utf8_decode` (`ws_framing_utils.h`, not in src) is `Utf8Decode`. It is modelled from spec.md as the RFC 3629 decoder: a state is the number of continuation bytes still expected and the range of the next one. The code point it also computes is never read, so it is left out.
- **History.** `fed` records the bytes validated since allocation or the last reset, and `last_chunk` and `answer` record the last call. They are history for the property and are not in the C struct. `IsUtf8` and `IsUtf8Prefix` are the reference, written from RFC 3629's ABNF.

### WsHttpParser

- **Data.** A connection's wire is a sequence of lines, each a record with a kind `k`:
  - `req`: the request line, with the method `m` (`[kind, raw]`), the scheme bytes `s` (or `Nil`), the host bytes, the port digits and the raw URI parts and version `raw`;
  - `hdr`: a header line, with the name bytes `n`, its kind `h`, the raw value `v`, the list tokens `vs` and the digits `d`;
  - `eoh` (the empty line) and `bad` (a byte the grammar rejects, of class `c`: CR, LF or other).

  Bytes are ASCII codes. A Ruby Symbol is `[sym |-> ...]` and a String `[str |-> bytes]`.
- **Request object.** `req` is the Hash given to `execute`. `req.hash` holds its entries, keyed by the headerized name. `req.ivars` holds its instance variables, keyed by the ID strings `Init_ws_http_parser` interns (`Id`), so the unknown-method flag sits under `"is_unknown_method"`, exactly as the code stores it.
- **Callbacks.** `Header`, `ReqMethod`, `ReqUriScheme`, `SetRaw`, `ReqHost`, `ReqPort`, `PushIvar` and `HeaderCallback` are the callbacks, with `Headerize` (`headerize`), `Downcase` (`my_rb_str_downcase`), `StrToInt` (`str_to_int`) and `Strtol0` (`strtol(at, NULL, 0)`).
- **Automaton.** The automaton (`ws_http_parser.rl`, not in src) is modelled from spec.md 4.4 as in `SipMessageParser`:
  - a line is two bytes;
  - the request line's events fire on its first byte and its version on its CRLF;
  - a header's `header()` and its own callback fire on its CRLF.

  On an error `Run` records the window that execute was given (`error_start = from`, `error_len = len - from`) and the rejected byte's offset in it.
- **Error description.** `ErrorDescription` is `HttpRequestParser_error`: `ErrorAlloc` is the `ALLOC_N` size, and `RenderByte` is one iteration of the loop, with `j` as the length of `buf` and `parsing_error_str_len` as `len`.
- **Reader.** The reader (not in src) has these actions:
  - `Receive` appends 1 to `MaxChunk` bytes;
  - `Execute` is `HttpRequestParser_execute`, with its start test `from < dlen` as `CanExecute`;
  - `Deliver` hands on `View(req)` once the parser is finished;
  - `CloseOnError` calls `error` and closes;
  - `Idle` stutters once the request is delivered or the connection is closed.
- **Abstract specification.** `WsUpgradeRequest` is one `Deliver` of `Build(wire)` for a well-formed request, or one `Reject` otherwise. `Build` is written from spec.md 4.4 and 7. `WsRefinement` checks the abstract specification as a PROPERTY; `wire`, `delivered` and `closed` are shared.

## 4. Runs

| Run | Checks | Result |
|---|---|---|
| `sip_stream` | `TypeOK`, `Refinement`, `EveryMessageHandled` under `FairSpec` | holds, 2,740 states |
| `sip_content_length` | `ContentLengthIsDecimal` | violated: `"010"` is delivered as 8 |
| `stun_xor_mapped` | `XorMappedAddressDecodes` on a little-endian build, IPv4 source | violated: the port is XORed with 0x1221 instead of 0x2112, and two octets of the X-Address of 192.0.2.1 are 0 (only 16 bits survive `htons`) |
| `stun_cookie_unsigned_char` | `CookieSelectsXorMapping` where `char` is unsigned | violated: a MAPPED-ADDRESS is sent to RFC 5389 clients |
| `library_pass` | `LibraryTypeOK`, `AcceptsProxyLines`, `ReportsSourceEndpoint`, `AcceptsFlowTokens`, `ReportsFlowEndpoint`, `ResponseFraming`, `MappedAddressIsSource`, `KnownHeadersCanonical`, `UnescapeStaysInSpan`, `UnmaskRecoversPayload`, `ValidateAnswersForStream`, `UserPartRefinement` (refinement of `UserPartSpec`) | holds, 218,675 states, about 60 s with coverage |
| `ip_pass` | `IpTypeOK`, `CompareIpsMeansSameAddress`, `NormalizeIsStable` | holds, 660 states, about 100 s with coverage (most of it building the cost tree) |
| `haproxy_trailing` | `StripsProxyLine` | violated: a PROXY line followed by more bytes is rejected (`len == p-str`), so `num_bytes` cannot be used to strip it |
| `headerize_short` | `HeaderizeMatchesSpec` | violated: `"H"` becomes `"h"` where the spec's rule gives `"H"` |
| `ws_http_pass` | `TypeOK`, `ErrorDescriptionFits`, `WsRefinement`, `EveryRequestHandled` under `FairSpec` | holds, 367 states |
| `ws_port_overflow` | `PortIsDecimal` | violated: port 2147483648 is stored as -2147483648 (`str_to_int` wraps a C int) |
| `ip_normalize_bracket` | `NormalizeRejectsNonIpv6` | violated: `normalize_ipv6` does not return false for a string that starts with '[' but is no reference. `"[::1"` gives `"[::]"`, and `"["` and a 51-byte string write past `str2` |
| `ws_unknown_method_flag` | `UnknownMethodFlagVisible` | violated: a request with method `FOO` is delivered with the flag under `is_unknown_method`, so `@is_unknown_method` is nil |

**`WsRefinement`** covers every split point of six connections with reads of 1 to 3 bytes. It checks that `execute` resumes at `nread`, that `header()` merges lines whose names differ only in case, that the Connection and Sec-WebSocket-Protocol arrays grow across lines, and every conversion: symbols for the known method and for http/https, downcasing, the host's trailing dot, `str_to_int` and `strtol`. It also checks that the connection closes at a rejected byte. **`ErrorDescriptionFits`** holds for every error window the reads produce, windows with a CR and LFs among them included. **`EveryRequestHandled`** has the same fairness as `EveryMessageHandled`. `WsRefinement` reads the unknown-method flag under the code's ID. `ws_unknown_method_flag` reads it as `@is_unknown_method`, the name the comment at line 89 promises.

**`Refinement`** covers these points together:

- streaming equivalence: every split point of every message, with reads of 1 to 3 bytes;
- reset hygiene: three messages on one connection, including a keepalive between two requests or responses. `sip_message_parser_init` is not in src, and `InitParser` assumes it zeroes every counter, so this checks the callbacks and the reader across messages, not the C reset itself;
- the header map and its first-seen key order;
- the `@hdr_via` alias;
- topmost-Via promotion and the `num_vias` count;
- Route accumulation across lines;
- the Contact rule: one header with one name-addr is kept; two headers, or one header with two name-addrs, are cleared;
- the duplicated/missing reports;
- closing at the first malformed message.

**`EveryMessageHandled`** is liveness under weak fairness of `Receive`, `Execute`, `Deliver` and `CloseOnError`. The fairness follows from the reader being driven by the event loop: bytes that have arrived are read and parsed, and a finished message is handed on in the same callback. `Execute`'s weak fairness is written out with its enabling condition `CanExecute`. This is equivalent, because every Execute step consumes at least one byte. It also avoids an exponential evaluation of `ENABLED` over the recursive `Run`. `EveryRequestHandled` in `WsHttpParser` assumes the same fairness of the same four actions, for the same reason: its reader is the WebSocket connection's `receive_data` callback.

## 5. Bounds

**SIP runs.** `MC_SipMessageParser` has three connections of two or three messages each. Together they contain:

- Via values spread over two lines, with 2 and 1 values;
- a single valid Contact, a duplicated Contact, and a Contact with two name-addrs;
- Routes over two lines, with 2 and 1 values, and a Route in a later message on the same connection (checks that `route_found` is reset);
- a duplicated From and a missing Call-ID;
- a keepalive;
- a bad byte after a request.

`MaxChunk = 3` is longer than a line, so both splitting a line and merging several lines into one read happen.

**STUN runs.** `MC_StunResponder` uses:

- five datagrams: a Binding request with the cookie, one without it, an indication, a non-STUN first octet, and a 19-byte runt;
- three sources: IPv4, IPv6, and an address that is neither;
- two ports whose octets differ;
- all four builds: both byte orders, with and without signed `char`.

**Address parser runs.** Each port ranges over every digit string of 1 to 5 digits over `PortAlphabet = {0,3,5,6,9}`, plus every 6-digit string (`MaxPortDigits`) over `LongPortAlphabet = {0,5,6}`. That is 4,634 strings. The HAProxy run varies the source port and then the destination port, with the other fields fixed. The flow-token run puts every port string after one IPv4 address and after one IPv6 address. These digits take every branch of the port states:

- a first digit of 0, of 1..5, of 6 and of 7..9;
- 5, 6..9 and 0..4 after "6" and after "65";
- 3, 4..9 and 0..2 after "655";
- 0..5 and 6..9 after "6553".

The strings therefore include 65535, 65536 and 65539, 5-digit strings beginning with 7..9, 6-digit strings, "0", "0000", "0005" and "00005".

The addresses range over `AddressCandidates` of `MC_IpLiterals`, which has 14,507 literals. The HAProxy run varies the source address and then the destination address; the flow-token run puts each address before "_5060". An IPv4 candidate is "1.1.1.1" with one octet replaced by a value at or around a bound the octet states test (0, 1, 2, 3, 9, 10, 20, 24, 25, 26, 29, 30, 99, 100, 199, 200, 249, 250, 255, 256, 260, 300, "01", "1000", empty), or it has three or five octets. An IPv6 candidate has 0 to 8 groups "1", with or without a "::" at each place. It then has either one group replaced by a group from `Groups` (digit groups at the octet bounds, with and without a trailing 'a', hex groups of 1 to 5 digits, mixed case, and 'g'), or an IPv4 candidate after the groups. A script run against the extracted tables confirmed that these candidates take every transition of every literal state of both machines.

The malformed candidates change one part of a good line or token: the family digit, CRLF, a missing field, a doubled space or '_', an empty string, a prefix, or a byte after the end. The acceptance properties compare with `PortGrammar` and `IpGrammar` in both directions:

- every line or token with RFC 3986 addresses and canonical ports (no leading zero, 1..65535) is accepted;
- everything accepted has RFC 3986 addresses and ports whose value is in 1..65535.

Leading zeros are only constrained by the second direction. The machines accept at most 4 characters when the port starts with '0', for example "0080" but not "00080". The PROXY v1 text says nothing about this.

**Headerize runs.** The names are:

- every table name as written, lower-cased and upper-cased;
- all 52 single letters, which covers the 20 abbreviations in both cases and the misses;
- every string of 2 to 4 bytes over `x`, `X`, `-` and `_`.

These exercise each lookup and each case of the capitalisation loop: the first byte, a byte after each separator, and a separator after a separator. spec.md 8 also requires idempotence, `headerize(headerize(x)) = headerize(x)`. It is not a separate property, because it follows from the other two: each result is either a table name, which maps to itself, or a case-variant of a miss, which is still a miss.

**UriUser run.** A sip user part is 1 to 4 units (`MaxUnits`). A unit is 'a', '-', or one of the escapes "%41", "%4f", "%fF", "%25" and "%00". That covers upper-, lower- and mixed-case hex; a decoded '%' that must not be decoded again; a decoded NUL; and escapes next to each other and at both ends of the span. A tel number is 1 to 4 bytes over '+', '1', the four separators, 'A' and 'f'. The two heap bytes are NUL or '4', so a read past the span may look like an escape. The user parts are those RFC 3261 allows, where every '%' starts a complete escape, because the grammar that feeds `uri_user` (sip_parser.rl) is not in src. With a '%' among the last two bytes, the code reads past the span; `a%` with "44" after it yields the empty string. A lone `%` wraps `len`. The model shows both cases when such inputs are added.

**WebSocket runs.** `MC_WsHttpParser` has six connections:

- `GET` with an origin-form URI, Connection over two lines (two tokens, then one, with names `connection` and `CONNECTION`), Upgrade, Sec-WebSocket-Protocol over two lines, Sec-WebSocket-Version and Sec-WebSocket-Key;
- an unknown method `FOO` with `HTTP://Ex.:080/a?q`, Origin, Content-Length and three headers whose names headerize to two keys;
- a request with scheme `wS` and port 80, then a CR where a header line starts;
- a second request line among the headers;
- an empty line first;
- an LF first.

The Content-Length has no leading zero, because `strtol` base 0 reads one as octal (the `sip_content_length` finding names this callback too). The ports fit an int; `MC_PortOverflowWires` holds the two that do not.

**IP utilities in `ip_pass`.** `IpTypeOK` checks that each function returns a Ruby value of a kind it can return; `ip_type` gives false, never the classifier's internal `error` type, for a non-address. `CompareIpsMeansSameAddress` checks the comments above `compare_ips` and `compare_pure_ips` against `SameAddress`, which decodes both operands by the RFC. `NormalizeIsStable` checks spec.md 8: the same address, brackets exactly for an unforced reference, a text that normalizes to itself, and false for a non-IPv6. It excludes strings that start with '[' and are no reference; `ip_normalize_bracket` shows what happens to those.

**Framing in `library_pass`.** `UnmaskRecoversPayload` checks that `unmask` inverts RFC 6455 masking and refuses other key lengths. `ValidateAnswersForStream` checks that, over every sequence of `validate` and `reset` calls, the answer is true exactly when the bytes since the last reset are UTF-8, false only when no bytes can complete them, and false whenever they cannot and the call had bytes. On an empty string after a rejection, the code returns nil (the state is `UTF8_REJECT`, which is not `UTF8_ACCEPT`, and no byte is decoded).

**IP utility runs.** `MC_IpUtils` calls every function on its own operands: 330 calls in all.
- The addresses: one IPv6 address written as `::1` and as `0:0:0:0:0:0:0:1`, and as references to both; `::ffff:1.2.3.4` in dotted and in hex form; `::1.2.3.4`; equal zero runs (`0:0:1:0:0:1:0:0`, where the first one wins); a trailing `1::`; an upper-case `A::`; and the longest IPv6 the classifier accepts (45 bytes) with its 47-byte reference.
- The non-addresses: two IPv4 addresses, `1.2.3`, `x`, the empty string and an unclosed `[::1`.
- `compare_ips` and `compare_pure_ips` take every pair of 11 operands. `normalize_ipv6` takes every form with the force argument absent, nil and true.

These inputs reach each `inet_ntop` case and both compare paths. The longest address checks that the copies into `_ip1`/`_ip2` fit. `MC_BracketCalls` holds the three bracketed strings of `ip_normalize_bracket`.

**Framing runs.** `unmask` is called on four payloads (empty, one byte, six bytes across a key boundary, five zero bytes) with two 4-byte keys, a 3-byte key and a 5-byte key. The validator is fed every chunk of 0 to 2 bytes over ten bytes, up to `MaxFed = 4` bytes between resets, with resets at any point. The ten bytes are:
- 'A', 80, 90 and A0 (continuation bytes in each second-byte range);
- C2, E0, ED, F0 and F4 (leads with restricted second bytes);
- C0 (never valid).

So characters of two, three and four bytes are split across calls, and the E0/ED/F0/F4 second-byte limits are exercised. The run also covers overlong leads, a rejection followed by more calls, and a reset in the middle of a character.

**Composition.** Each call in `library_pass` ends, and nothing follows it except the STUN responder's next datagram, so the run says `CHECK_DEADLOCK FALSE`.

## 6. Not modelled (yet)

- URI sub-fields in the SIP stream model: scheme, user, host normalisation, parameters. (`UriUser` models the user part's conversion on its own.) They are abstracted to one value per URI, because only their destination matters to the properties.
- Via parameters, option tags, and the error description string.
- The `int i` loop counters of `unmask` and `validate` overflow only on payloads of 2^31 bytes, which is out of TLC's reach.
- The IP literal classifier `ip_utils.c` and the UTF-8 decoder table of `ws_framing_utils.h` are not in src. They are modelled from spec.md and the RFCs, so a bug in their tables cannot be found here.
- The WebSocket parser's `reset` and `finish`. The modelled reader handles one request per connection and never calls them. `reset` is `init` again. `finish` runs the automaton's end-of-input test, which is not in src.
- Ruby's garbage collector and `rb_raise` type checks: these are I/O and runtime concerns, not logic.
