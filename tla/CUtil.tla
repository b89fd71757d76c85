-------------------------------- MODULE CUtil --------------------------------
(***************************************************************************)
(* The generic C helpers of src/ext/common/c_util.h that the parsers'     *)
(* Ruby wrappers call on the spans they extract.  A string is a sequence  *)
(* of byte values (ASCII codes).                                           *)
(***************************************************************************)
EXTENDS Integers, Sequences, SequencesExt

\* A C int is kept as the two 16-bit halves of its value modulo 2^32, so
\* that number * 10 never leaves TLC's integers.  The signed overflow of
\* the int is undefined behaviour; the builds compile number*10 + digit
\* to 32-bit multiply and add, which wrap modulo 2^32.
IntZero == [hi |-> 0, lo |-> 0]
IntMulAdd(n, d) ==
  LET lo == n.lo * 10 + d
  IN [hi |-> (n.hi * 10 + lo \div 65536) % 65536, lo |-> lo % 65536]
IntValue(n) == IF n.hi >= 32768 THEN (n.hi - 65536) * 65536 + n.lo ELSE n.hi * 65536 + n.lo

\* str_to_int(str, len): leading '0' bytes are skipped, every later byte
\* adds (*s) - '0' to number * 10 in an int, whatever that byte is.
StrToInt(s) ==
  IntValue(FoldLeft(LAMBDA number, c : IF number # IntZero \/ c # 48
                                       THEN IntMulAdd(number, c - 48)
                                       ELSE number,
                    IntZero, s))
====
