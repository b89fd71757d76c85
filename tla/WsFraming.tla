------------------------------- MODULE WsFraming -------------------------------
(***************************************************************************)
(* OverSIP::WebSocket::FramingUtils (src/ext/websocket_framing_utils/     *)
(* ws_framing_utils_ruby.c): unmask, a call on a frame's payload and      *)
(* masking key, and Utf8Validator, an object whose reset and validate     *)
(* the WebSocket connection calls on the payloads of a text message.      *)
(* utf8_decode, the table-driven decoder of ws_framing_utils.h (not in     *)
(* src), is modelled from spec.md 1 ("table-driven decoder") as the DFA   *)
(* of RFC 3629's well-formed byte sequences; the code point it also       *)
(* computes is never read by validate and is left out.  Bytes are values  *)
(* 0..255.                                                                 *)
(***************************************************************************)
EXTENDS Integers, Sequences, SequencesExt, Bitwise

CONSTANTS
  Chunks,       \* the strings validate may be called on
  MaxFed        \* bound on the bytes validated since the last reset

VARIABLES
  unmask_call,  \* the unmask call: [payload, mask], and orig, the payload before masking
  unmasked,     \* its result, or FPending
  validator,    \* the Utf8Validator's state, or NoValidator before it is allocated
  fed,          \* the bytes validated since allocation or the last reset
  last_chunk,   \* the string of the last validate call since then
  answer        \* what that call returned, or FPending if there was none

unmask_vars == <<unmask_call, unmasked>>
validator_vars == <<validator, fed, last_chunk, answer>>

\* Ruby values, as in IpUtils: a tag and the bytes of a String.
FV(t) == [t |-> t, v |-> <<>>]
FPending == FV("pending")

-----------------------------------------------------------------------------
(* unmask *)

\* WsFramingUtils_unmask: TypeError unless the mask has 4 bytes; byte i
\* (from 0) of the payload XORed with byte i % 4 of the mask.
UnmaskKeyOffByOne(payload, mask) ==
  IF Len(mask) # 4 THEN FV("raise")
  ELSE [t |-> "str", v |-> [i \in 1..Len(payload) |-> payload[i] ^^ mask[(i % 4) + 1]]]
WsFramingUtilsUnmask(payload, mask) ==
  IF Len(mask) # 4 THEN FV("raise")
  ELSE [t |-> "str", v |-> [i \in 1..Len(payload) |-> payload[i] ^^ mask[((i - 1) % 4) + 1]]]

UnmaskInit(Calls) ==
  /\ unmask_call \in Calls
  /\ unmasked = FPending

Unmask ==
  /\ unmasked = FPending
  /\ unmasked' = WsFramingUtilsUnmask(unmask_call.payload, unmask_call.mask)
  /\ UNCHANGED unmask_call

UnmaskNext == Unmask

-----------------------------------------------------------------------------
(* Utf8Validator *)

\* A decoder state: n more continuation bytes expected, the next one in
\* lo..hi and any later one in 80..BF.  n = 0 is UTF8_ACCEPT, n = -1
\* UTF8_REJECT, from which every byte leads back to UTF8_REJECT.
DS(n, lo, hi) == [n |-> n, lo |-> lo, hi |-> hi]
UTF8_ACCEPT == DS(0, 0, 0)
UTF8_REJECT == DS(-1, 0, 0)
NoValidator == DS(-2, 0, 0)

\* The state after a lead byte (RFC 3629 section 4).
Lead(b) ==
  CASE b \in 0..127 -> UTF8_ACCEPT
    [] b \in 194..223 -> DS(1, 128, 191)
    [] b = 224 -> DS(2, 160, 191)
    [] b \in 225..236 \cup 238..239 -> DS(2, 128, 191)
    [] b = 237 -> DS(2, 128, 159)
    [] b = 240 -> DS(3, 144, 191)
    [] b \in 241..243 -> DS(3, 128, 191)
    [] b = 244 -> DS(3, 128, 143)
    [] OTHER -> UTF8_REJECT

\* utf8_decode(&state, &codepoint, byte), its new state.
Utf8Decode(st, b) ==
  CASE st = UTF8_REJECT -> UTF8_REJECT
    [] st = UTF8_ACCEPT -> Lead(b)
    [] b \in st.lo..st.hi -> IF st.n = 1 THEN UTF8_ACCEPT ELSE DS(st.n - 1, 128, 191)
    [] OTHER -> UTF8_REJECT

\* The loop of Utf8Validator_validate: the state it leaves, and whether
\* it returned Qfalse at a byte that led to UTF8_REJECT.
RECURSIVE ValidateLoop(_, _, _)
ValidateLoop(st, s, i) ==
  IF i > Len(s) THEN [state |-> st, rejected |-> FALSE]
  ELSE LET nst == Utf8Decode(st, s[i])
       IN IF nst = UTF8_REJECT THEN [state |-> nst, rejected |-> TRUE]
          ELSE ValidateLoop(nst, s, i + 1)

\* Utf8Validator_validate: false at a rejected byte, else true in
\* UTF8_ACCEPT and nil in any other state.
Utf8ValidatorValidate(st, s) ==
  LET r == ValidateLoop(st, s, 1)
  IN [state |-> r.state,
      answer |-> CASE r.rejected -> FV("false")
                   [] r.state = UTF8_ACCEPT -> FV("true")
                   [] OTHER -> FV("nil")]

ValidatorInit ==
  /\ validator = NoValidator
  /\ fed = <<>>
  /\ last_chunk = <<>>
  /\ answer = FPending

\* Utf8Validator.new: Utf8Validator_alloc sets the state to UTF8_ACCEPT.
Alloc ==
  /\ validator = NoValidator
  /\ validator' = UTF8_ACCEPT
  /\ UNCHANGED <<fed, last_chunk, answer>>

\* Utf8Validator#reset.
ResetKeepsState(st) == st
Utf8ValidatorReset(st) == UTF8_ACCEPT

Reset ==
  /\ validator # NoValidator
  /\ validator' = Utf8ValidatorReset(validator)
  /\ fed' = <<>>
  /\ last_chunk' = <<>>
  /\ answer' = FPending

\* Utf8Validator#validate(s), on one of Chunks, while fewer than MaxFed
\* bytes have been validated since the last reset.
Validate ==
  /\ validator # NoValidator
  /\ \E s \in Chunks :
       /\ Len(fed) + Len(s) <= MaxFed
       /\ LET r == Utf8ValidatorValidate(validator, s)
          IN /\ validator' = r.state
             /\ answer' = r.answer
       /\ fed' = fed \o s
       /\ last_chunk' = s

ValidatorNext == Alloc \/ Reset \/ Validate

-----------------------------------------------------------------------------
(* What the WebSocket connection is promised. *)

\* RFC 6455 5.3: octet i of the masked data is octet i of the original
\* XOR octet i MOD 4 of the masking key.
RECURSIVE MaskRfc6455(_, _)
MaskRfc6455(p, key) ==
  IF p = <<>> THEN <<>>
  ELSE MaskRfc6455(SubSeq(p, 1, Len(p) - 1), key) \o <<p[Len(p)] ^^ key[((Len(p) - 1) % 4) + 1]>>

\* RFC 3629 section 4: UTF8-tail, and one well-formed character.
IsUtf8Tail(b) == b \in 128..191
IsUtf8Char(c) ==
  \/ Len(c) = 1 /\ c[1] \in 0..127
  \/ Len(c) = 2 /\ c[1] \in 194..223 /\ IsUtf8Tail(c[2])
  \/ Len(c) = 3 /\ \/ c[1] = 224 /\ c[2] \in 160..191 /\ IsUtf8Tail(c[3])
                   \/ c[1] \in 225..236 \cup 238..239 /\ IsUtf8Tail(c[2]) /\ IsUtf8Tail(c[3])
                   \/ c[1] = 237 /\ c[2] \in 128..159 /\ IsUtf8Tail(c[3])
  \/ Len(c) = 4 /\ \/ c[1] = 240 /\ c[2] \in 144..191 /\ IsUtf8Tail(c[3]) /\ IsUtf8Tail(c[4])
                   \/ c[1] \in 241..243 /\ IsUtf8Tail(c[2]) /\ IsUtf8Tail(c[3]) /\ IsUtf8Tail(c[4])
                   \/ c[1] = 244 /\ c[2] \in 128..143 /\ IsUtf8Tail(c[3]) /\ IsUtf8Tail(c[4])

\* UTF8-octets = *( UTF8-char ).
RECURSIVE IsUtf8(_)
IsUtf8(s) ==
  \/ s = <<>>
  \/ \E k \in 1..4 : k <= Len(s) /\ IsUtf8Char(SubSeq(s, 1, k)) /\ IsUtf8(SubSeq(s, k + 1, Len(s)))

\* s can still be completed to UTF-8: well-formed characters and the
\* start of one.  The bytes that may complete it are tried among 80, 90
\* and A0, one in each second-byte range of RFC 3629, which is enough to
\* find a completion if there is one.
Completions == {128, 144, 160}
IsUtf8Prefix(s) ==
  \/ IsUtf8(s)
  \/ \E k \in 1..3 :
       /\ k <= Len(s)
       /\ IsUtf8(SubSeq(s, 1, Len(s) - k))
       /\ \E m \in 1..4 - k : \E t \in [1..m -> Completions] :
            IsUtf8Char(SubSeq(s, Len(s) - k + 1, Len(s)) \o t)

FramingTypeOK ==
  /\ unmasked.t \in {"pending", "str", "raise"}
  /\ validator.n \in -2..3
  /\ validator.n > 0 => 128 <= validator.lo /\ validator.lo <= validator.hi /\ validator.hi <= 191
  /\ answer \in {FPending, FV("true"), FV("false"), FV("nil")}
  /\ Len(fed) <= MaxFed

\* unmask undoes the masking a client applies by RFC 6455 5.3, and
\* refuses a key that is not four bytes (the TypeError of
\* WsFramingUtils_unmask).
UnmaskRecoversPayload ==
  unmasked # FPending =>
    IF Len(unmask_call.mask) # 4 THEN unmasked = FV("raise")
    ELSE unmasked = [t |-> "str", v |-> unmask_call.orig]

\* The comment above Utf8Validator_validate: the answer is for all the
\* bytes validated since the validator was allocated or reset, a
\* character may be split across calls, and the validator left by one
\* message is reset for the next.  validate returns true exactly when
\* those bytes are well-formed UTF-8, false only when no bytes can
\* complete them, and false whenever they cannot and the call had bytes
\* (on an empty string the state of an earlier rejection yields nil).
ValidateAnswersForStream ==
  answer # FPending =>
    /\ answer = FV("true") <=> IsUtf8(fed)
    /\ answer = FV("false") => ~IsUtf8Prefix(fed)
    /\ ~IsUtf8Prefix(fed) /\ last_chunk # <<>> => answer = FV("false")
====
