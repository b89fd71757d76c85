------------------------------ MODULE MC_WsFraming ------------------------------
(***************************************************************************)
(* Inputs of the framing utilities.  The validator's bytes are one of     *)
(* each class the decoder tells apart: ASCII, the continuation bytes 80,  *)
(* 90 and A0 (the bounds of the second-byte ranges after E0, ED, F0 and   *)
(* F4), a two-byte lead, the four leads with a restricted second byte,     *)
(* and C0, which never starts a character.  Chunks of up to two of them   *)
(* and four bytes per message let every character, and every split of    *)
(* one across two calls, happen.  Unmask gets payloads of up to six       *)
(* bytes, so that the key is used more than once, and keys of 3, 4 and 5  *)
(* bytes.                                                                  *)
(***************************************************************************)
EXTENDS WsFraming

Utf8Alphabet == {65, 128, 144, 160, 194, 224, 237, 240, 244, 192}
MC_Chunks == UNION {[1..n -> Utf8Alphabet] : n \in 0..2}
MC_MaxFed == 4

Keys == {<<1, 2, 4, 8>>, <<16, 32, 64, 128>>, <<1, 2, 4>>, <<1, 2, 4, 8, 16>>}
Originals == {<<>>, <<65>>, <<255, 0, 65, 90, 97, 128>>, <<0, 0, 0, 0, 0>>}
MC_UnmaskCalls ==
  {[payload |-> IF Len(k) = 4 THEN MaskRfc6455(o, k) ELSE o, mask |-> k, orig |-> o] :
     o \in Originals, k \in Keys}
====
