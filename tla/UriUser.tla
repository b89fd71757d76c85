------------------------------- MODULE UriUser -------------------------------
(***************************************************************************)
(* uri_user (src/ext/sip_parser/sip_parser_ruby.c), the callback that     *)
(* stores the user part of a URI: a tel URI's number goes through         *)
(* my_rb_str_tel_number_clean (same file), any other scheme's user        *)
(* through my_rb_str_hex_unescape (src/ext/common/ruby_c_util.h), which   *)
(* decodes %XX in place in a heap copy of the span.                       *)
(*                                                                         *)
(* The copy is the len bytes of the span followed by the bytes the heap   *)
(* holds after it (heap): the loop tests *(s+1) and *(s+2) for NUL, not   *)
(* for the end of the span, so what it reads there is whatever that       *)
(* memory holds.  The model records every byte index the loop reads, and  *)
(* stops a loop whose s has left the copy (overrun) or whose size_t len   *)
(* would wrap below zero (wrapped).  A call is one behaviour.             *)
(***************************************************************************)
EXTENDS Integers, Sequences, SequencesExt

CONSTANTS
  Schemes,    \* the URI schemes the parser reports, "tel" among them
  SipUsers,   \* user parts of non-tel URIs (sequences of bytes)
  TelUsers,   \* numbers of tel URIs
  HeapBytes   \* the values the two bytes after the copy may hold

VARIABLES scheme, user, heap, user_result

uri_vars == <<scheme, user, heap, user_result>>

PERCENT == 37
Separators == {45, 46, 40, 41}     \* '-', '.', '(', ')'

\* strtol(hex, NULL, 16) on the NUL-terminated two bytes <<a, b>>:
\* leading white space is skipped, a sign is read, then the longest run
\* of hex digits (a "0x" prefix with no digit after it reads as 0).
IsSpaceC(c) == c \in {32, 9, 10, 11, 12, 13}
HexDigitValueNoLower(c) ==
  CASE c \in 48..57 -> c - 48 [] c \in 65..70 -> c - 55 [] OTHER -> -1
HexDigitValue(c) ==
  CASE c \in 48..57 -> c - 48 [] c \in 65..70 -> c - 55 [] c \in 97..102 -> c - 87 [] OTHER -> -1
HexRunValue(cs) ==
  CASE cs = <<>> -> 0
    [] HexDigitValue(cs[1]) < 0 -> 0
    [] Len(cs) = 1 \/ HexDigitValue(cs[2]) < 0 -> HexDigitValue(cs[1])
    [] OTHER -> 16 * HexDigitValue(cs[1]) + HexDigitValue(cs[2])
Strtol16(a, b) ==
  CASE IsSpaceC(a) -> HexRunValue(<<b>>)
    [] a = 45 -> -HexRunValue(<<b>>)
    [] a = 43 -> HexRunValue(<<b>>)
    [] OTHER -> HexRunValue(<<a, b>>)

\* strnchr(str, len, c) != NULL
StrNChr(s, c) == \E k \in 1..Len(s) : s[k] = c

\* One iteration of the unescaping loop; mem is the copy (1-based), s, t
\* and i the loop's offsets.  *s is copied unless it is '%' with two
\* non-NUL bytes after it, which strtol decodes (& 0xFF); then s skips
\* them and len shrinks by 2.  The || reads *(s+2) only if *(s+1) is not
\* NUL.
UnescapeStepNoLenDecrement(r) ==
  LET c == r.mem[r.s + 1]
      escape == c = PERCENT /\ r.mem[r.s + 2] # 0 /\ r.mem[r.s + 3] # 0
      last == CASE c # PERCENT -> r.s + 1 [] r.mem[r.s + 2] = 0 -> r.s + 2 [] OTHER -> r.s + 3
  IN IF ~escape
     THEN [r EXCEPT !.mem[r.t + 1] = c, !.s = @ + 1, !.t = @ + 1, !.i = @ + 1,
                    !.read = @ \cup {last}]
     ELSE [r EXCEPT !.mem[r.t + 1] = Strtol16(r.mem[r.s + 2], r.mem[r.s + 3]) % 256,
                    !.s = @ + 3, !.t = @ + 1, !.i = @ + 1, !.read = @ \cup {last}]

UnescapeStep(r) ==
  LET c == r.mem[r.s + 1]
      escape == c = PERCENT /\ r.mem[r.s + 2] # 0 /\ r.mem[r.s + 3] # 0
      last == CASE c # PERCENT -> r.s + 1 [] r.mem[r.s + 2] = 0 -> r.s + 2 [] OTHER -> r.s + 3
  IN IF ~escape
     THEN [r EXCEPT !.mem[r.t + 1] = c, !.s = @ + 1, !.t = @ + 1, !.i = @ + 1,
                    !.read = @ \cup {last}]
     ELSE IF r.len < 2
     THEN [r EXCEPT !.wrapped = TRUE, !.read = @ \cup {last}]
     ELSE [r EXCEPT !.mem[r.t + 1] = Strtol16(r.mem[r.s + 2], r.mem[r.s + 3]) % 256,
                    !.s = @ + 3, !.t = @ + 1, !.i = @ + 1, !.len = @ - 2,
                    !.read = @ \cup {last}]

\* for (...; i < len; s++, i++): stops when i reaches len, or when the
\* next iteration would read outside the copy or len has wrapped.
RECURSIVE UnescapeLoop(_)
UnescapeLoop(r) ==
  CASE r.i >= r.len \/ r.wrapped -> r
    [] r.s + 3 > Len(r.mem) -> [r EXCEPT !.overrun = TRUE]
    [] OTHER -> UnescapeLoop(UnescapeStep(r))

\* my_rb_str_hex_unescape(str, len): the span itself when it has no '%'
\* (strnchr reads all of it); otherwise the first len bytes of the copy
\* after the loop.
HexUnescape(str, after) ==
  IF ~StrNChr(str, PERCENT)
  THEN [bytes |-> str, read |-> 1..Len(str), overrun |-> FALSE, wrapped |-> FALSE]
  ELSE LET r == UnescapeLoop([mem |-> str \o after, s |-> 0, t |-> 0, i |-> 0, len |-> Len(str),
                              read |-> 1..Len(str), overrun |-> FALSE, wrapped |-> FALSE])
       IN [bytes |-> SubSeq(r.mem, 1, r.len), read |-> r.read,
           overrun |-> r.overrun, wrapped |-> r.wrapped]

\* my_rb_str_tel_number_clean: the bytes that are not separators, A-F
\* shifted to a-f; new_len is len less one per separator.
TelNumberClean(str) ==
  LET kept == SelectSeq(str, LAMBDA c : c \notin Separators)
  IN [bytes |-> [k \in 1..Len(kept) |-> IF kept[k] \in 65..70 THEN kept[k] + 32 ELSE kept[k]],
      read |-> 1..Len(str), overrun |-> FALSE, wrapped |-> FALSE]

UserPending == [bytes |-> <<>>, read |-> {}, overrun |-> FALSE, wrapped |-> FALSE]

UriUserInit ==
  /\ scheme \in Schemes
  /\ user \in IF scheme = "tel" THEN TelUsers ELSE SipUsers
  /\ heap \in HeapBytes \X HeapBytes
  /\ user_result = UserPending

\* The parser reports the user part of a URI of the given scheme.
UriUserCall ==
  /\ user_result = UserPending
  /\ user_result' = IF scheme = "tel" THEN TelNumberClean(user) ELSE HexUnescape(user, heap)
  /\ UNCHANGED <<scheme, user, heap>>

UriUserNext == UriUserCall

UriUserSpec == UriUserInit /\ [][UriUserNext]_uri_vars

-----------------------------------------------------------------------------
(* The user part as spec.md 4.1 and RFC 3261 / RFC 3966 describe it:     *)
(* UserPartSpec, with done and stored read off user_result.               *)

A == INSTANCE UserPartSpec WITH done <- user_result # UserPending, stored <- user_result.bytes

UserCalled == user_result # UserPending

UriUserTypeOK ==
  /\ user_result.bytes \in Seq(0..255)
  /\ user_result.read \subseteq Nat
  /\ user_result.overrun \in BOOLEAN /\ user_result.wrapped \in BOOLEAN

\* my_rb_str_hex_unescape reads only bytes of the span it was given: it
\* tests *(s+1) and *(s+2) against NUL, not against the end of the span,
\* so this rests on the loop's i < len with len shrinking by two per
\* escape, and on every '%' of a user part being followed by two hex
\* digits.  No user part makes the loop run past the copy or wrap len.
UnescapeStaysInSpan ==
  UserCalled =>
    /\ user_result.read \subseteq 1..Len(user)
    /\ ~user_result.overrun /\ ~user_result.wrapped

\* uri_user implements UserPartSpec: it stores, once, the %XX-decoded
\* user of a non-tel URI and the cleaned number of a tel URI.  This checks
\* the in-place copy (t trailing s), the byte strtol and & 0xFF make of
\* two hex digits, and the length the Ruby string is cut to, with the heap
\* bytes after the copy hidden.
UserPartRefinement == A!Spec
====
