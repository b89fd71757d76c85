------------------------------- MODULE RagelDfa -------------------------------
(***************************************************************************)
(* The execution of the one-shot Ragel machines of src/ext/utils          *)
(* (haproxy_protocol.c, outbound_utils.c): a goto-coded DFA over the      *)
(* bytes str[0..len), whose transitions run the machine's actions on the  *)
(* parse struct.  A machine is a set of transitions                       *)
(*   [from, on, to, act]                                                  *)
(* taken from state `from` on a byte in the set `on`; `act` is the set of *)
(* the actions the generated trNN label runs, in the order listed below.  *)
(* Every state of both machines is a transition of HaproxyProtocol,       *)
(* HaproxyLiterals, OutboundToken or OutboundLiterals; a state's `if` and *)
(* `switch` tests on *p become the byte sets of its transitions.        *)
(***************************************************************************)
EXTENDS Integers, Sequences

\* The byte classes the generated tests compare *p with.
DOT == 46
COLON == 58
Dig(a, b) == 48 + a .. 48 + b          \* the digits a..b
HEXALPHA == 65 .. 70 \cup 97 .. 102     \* A-F, a-f
HEXDIG == Dig(0, 9) \cup HEXALPHA

ErrorState == 0     \* st0: cs = 0; goto _out

\* A transition running the actions act, one running none, and one on the
\* bytes lo..hi.
EA(from, on, to, act) == [from |-> from, on |-> on, to |-> to, act |-> act]
E(from, on, to) == EA(from, on, to, {})
Tr(from, lo, hi, to, act) == EA(from, lo .. hi, to, act)

\* The parse struct and the locals of *_parser_execute after its
\* initialisation: every span 0, finished 0, cs the start state, p = str.
\* ip_type is never initialised by the C code; it is only read when valid.
InitRun(start) ==
  [cs |-> start, p |-> 0, ip_s |-> 0, ip_len |-> 0, ip_type |-> "unset",
   port_s |-> 0, port_len |-> 0, finished |-> FALSE]

\* The actions of the .rl files (offsets are p - str):
\*   "ip_s"      ip_s = p
\*   "ipv4"      ip_type = ipv4; ip_len = p - ip_s
\*   "ipv6"      ip_type = ipv6; ip_len = p - ip_s
\*   "port_s"    port_s = p
\*   "port_len"  port_len = p - port_s + 1
\*   "finished"  finished = 1
\* followed by the ++p of the target state.
ApplyPortLenShort(t, r) ==
  LET a == t.act
      ps == IF "port_s" \in a THEN r.p ELSE r.port_s
  IN [r EXCEPT !.cs = t.to, !.p = r.p + 1,
        !.ip_s = IF "ip_s" \in a THEN r.p ELSE @,
        !.ip_type = CASE "ipv4" \in a -> "ipv4" [] "ipv6" \in a -> "ipv6" [] OTHER -> @,
        !.ip_len = IF a \cap {"ipv4", "ipv6"} # {} THEN r.p - r.ip_s ELSE @,
        !.port_s = ps,
        !.port_len = IF "port_len" \in a THEN r.p - ps ELSE @,
        !.finished = @ \/ "finished" \in a]

ApplyIpv6AsIpv4(t, r) ==
  LET a == t.act
      ps == IF "port_s" \in a THEN r.p ELSE r.port_s
  IN [r EXCEPT !.cs = t.to, !.p = r.p + 1,
        !.ip_s = IF "ip_s" \in a THEN r.p ELSE @,
        !.ip_type = IF a \cap {"ipv4", "ipv6"} # {} THEN "ipv4" ELSE @,
        !.ip_len = IF a \cap {"ipv4", "ipv6"} # {} THEN r.p - r.ip_s ELSE @,
        !.port_s = ps,
        !.port_len = IF "port_len" \in a THEN r.p - ps + 1 ELSE @,
        !.finished = @ \/ "finished" \in a]

Apply(t, r) ==
  LET a == t.act
      ps == IF "port_s" \in a THEN r.p ELSE r.port_s
  IN [r EXCEPT !.cs = t.to, !.p = r.p + 1,
        !.ip_s = IF "ip_s" \in a THEN r.p ELSE @,
        !.ip_type = CASE "ipv4" \in a -> "ipv4" [] "ipv6" \in a -> "ipv6" [] OTHER -> @,
        !.ip_len = IF a \cap {"ipv4", "ipv6"} # {} THEN r.p - r.ip_s ELSE @,
        !.port_s = ps,
        !.port_len = IF "port_len" \in a THEN r.p - ps + 1 ELSE @,
        !.finished = @ \/ "finished" \in a]

\* The main loop: at p == pe the machine stops in its state (_test_eof);
\* a byte with no transition sends it to st0 with p left on that byte.
\* `out` is the machine's transition function, state -> transitions.
RECURSIVE Exec(_, _, _)
Exec(out, str, r) ==
  IF r.p = Len(str) THEN r
  ELSE LET c == str[r.p + 1]
           ts == {t \in out[r.cs] : c \in t.on}
       IN IF ts = {} THEN [r EXCEPT !.cs = ErrorState]
          ELSE Exec(out, str, Apply(CHOOSE t \in ts : TRUE, r))

\* The transitions of a machine indexed by their source state.
Outgoing(delta) == [s \in {t.from : t \in delta} \cup {t.to : t \in delta} |-> {t \in delta : t.from = s}]

\* The end of *_parser_execute testing only that all bytes were consumed.
ExecuteWithoutFinished(out, start, str) ==
  LET r == Exec(out, str, InitRun(start))
  IN [run |-> r, valid |-> Len(str) = r.p, total_len |-> r.p % 65536]

\* The end of *_parser_execute: valid when the machine has seen the end of
\* its input line (finished) and consumed all len bytes; total_len is
\* p - str stored in an unsigned short.
Execute(out, start, str) ==
  LET r == Exec(out, str, InitRun(start))
  IN [run |-> r, valid |-> r.finished /\ Len(str) = r.p, total_len |-> r.p % 65536]
====
