------------------------------ MODULE HeaderName ------------------------------
(***************************************************************************)
(* Header name canonicalisation: headerize() of                           *)
(* src/ext/sip_parser/common_headers.h, called by the header() callback   *)
(* on every header name and by OverSIP::SIP::MessageParser.headerize.     *)
(* A name is a sequence of one-character strings.  The module is a        *)
(* server of one call: it takes a name and returns headerize's result.    *)
(***************************************************************************)
EXTENDS Integers, Sequences, SequencesExt

CONSTANTS
  Names,    \* the header names passed in
  Nil       \* Ruby nil (Qnil)

VARIABLES hname, headerized, called

hname_vars == <<hname, headerized, called>>

LowerLetters == <<"a","b","c","d","e","f","g","h","i","j","k","l","m","n","o","p","q","r","s","t","u","v","w","x","y","z">>
UpperLetters == <<"A","B","C","D","E","F","G","H","I","J","K","L","M","N","O","P","Q","R","S","T","U","V","W","X","Y","Z">>

\* toupper() and downcase_char(): ASCII letters only, other bytes unchanged.
UpperOf == [c \in ToSet(LowerLetters) |-> UpperLetters[CHOOSE i \in 1..26 : LowerLetters[i] = c]]
LowerOf == [c \in ToSet(UpperLetters) |-> LowerLetters[CHOOSE i \in 1..26 : UpperLetters[i] = c]]
ToUpper(c) == IF c \in DOMAIN UpperOf THEN UpperOf[c] ELSE c
ToLower(c) == IF c \in DOMAIN LowerOf THEN LowerOf[c] ELSE c

H(name, short) == [name |-> name, short_name |-> short]

\* common_headers[]: each well-known name and its short form (" ": none).
CommonHeaders ==
  <<
   H(<<"A","c","c","e","p","t">>, " "),
   H(<<"A","c","c","e","p","t","-","C","o","n","t","a","c","t">>, "A"),
   H(<<"A","c","c","e","p","t","-","E","n","c","o","d","i","n","g">>, " "),
   H(<<"A","c","c","e","p","t","-","L","a","n","g","u","a","g","e">>, " "),
   H(<<"A","l","e","r","t","-","I","n","f","o">>, " "),
   H(<<"A","l","l","o","w">>, " "),
   H(<<"A","l","l","o","w","-","E","v","e","n","t","s">>, "U"),
   H(<<"A","u","t","h","e","n","t","i","c","a","t","i","o","n","-","I","n","f","o">>, " "),
   H(<<"A","u","t","h","o","r","i","z","a","t","i","o","n">>, " "),
   H(<<"C","a","l","l","-","I","D">>, "I"),
   H(<<"C","a","l","l","-","I","n","f","o">>, " "),
   H(<<"C","o","n","t","a","c","t">>, "M"),
   H(<<"C","o","n","t","e","n","t","-","D","i","s","p","o","s","i","t","i","o","n">>, " "),
   H(<<"C","o","n","t","e","n","t","-","E","n","c","o","d","i","n","g">>, "E"),
   H(<<"C","o","n","t","e","n","t","-","L","a","n","g","u","a","g","e">>, " "),
   H(<<"C","o","n","t","e","n","t","-","L","e","n","g","t","h">>, "L"),
   H(<<"C","o","n","t","e","n","t","-","T","y","p","e">>, "C"),
   H(<<"C","S","e","q">>, " "),
   H(<<"D","a","t","e">>, " "),
   H(<<"E","v","e","n","t">>, "O"),
   H(<<"E","r","r","o","r","-","I","n","f","o">>, " "),
   H(<<"E","x","p","i","r","e","s">>, " "),
   H(<<"F","r","o","m">>, "F"),
   H(<<"I","d","e","n","t","i","t","y">>, "Y"),
   H(<<"I","d","e","n","t","i","t","y","-","I","n","f","o">>, "N"),
   H(<<"I","n","-","R","e","p","l","y","-","T","o">>, " "),
   H(<<"M","a","x","-","F","o","r","w","a","r","d","s">>, " "),
   H(<<"M","i","n","-","E","x","p","i","r","e","s">>, " "),
   H(<<"M","I","M","E","-","V","e","r","s","i","o","n">>, " "),
   H(<<"O","r","g","a","n","i","z","a","t","i","o","n">>, " "),
   H(<<"P","r","i","o","r","i","t","y">>, " "),
   H(<<"P","r","o","x","y","-","A","u","t","h","e","n","t","i","c","a","t","e">>, " "),
   H(<<"P","r","o","x","y","-","A","u","t","h","o","r","i","z","a","t","i","o","n">>, " "),
   H(<<"P","r","o","x","y","-","R","e","q","u","i","r","e">>, " "),
   H(<<"R","e","c","o","r","d","-","R","o","u","t","e">>, " "),
   H(<<"R","e","f","e","r","-","T","o">>, "R"),
   H(<<"R","e","f","e","r","r","e","d","-","B","y">>, "B"),
   H(<<"R","e","j","e","c","t","-","C","o","n","t","a","c","t">>, "J"),
   H(<<"R","e","p","l","y","-","T","o">>, " "),
   H(<<"R","e","q","u","e","s","t","-","D","i","s","p","o","s","i","t","i","o","n">>, "D"),
   H(<<"R","e","q","u","i","r","e">>, " "),
   H(<<"R","e","t","r","y","-","A","f","t","e","r">>, " "),
   H(<<"R","o","u","t","e">>, " "),
   H(<<"S","e","r","v","e","r">>, " "),
   H(<<"S","e","s","s","i","o","n","-","E","x","p","i","r","e","s">>, "X"),
   H(<<"S","u","b","j","e","c","t">>, "S"),
   H(<<"S","u","p","p","o","r","t","e","d">>, "K"),
   H(<<"T","i","m","e","s","t","a","m","p">>, " "),
   H(<<"T","o">>, "T"),
   H(<<"U","n","s","u","p","p","o","r","t","e","d">>, " "),
   H(<<"U","s","e","r","-","A","g","e","n","t">>, " "),
   H(<<"V","i","a">>, "V"),
   H(<<"W","a","r","n","i","n","g">>, " "),
   H(<<"W","W","W","-","A","u","t","h","e","n","t","i","c","a","t","e">>, " ")
  >>

\* init_short_headers: the entries whose short name is not ' ', in table
\* order, with the frozen long name as value.
ShortHeaders ==
  LET s == SelectSeq(CommonHeaders, LAMBDA h : h.short_name # " ")
  IN [i \in 1..Len(s) |-> [abbr |-> s[i].short_name, value |-> s[i].name]]

\* cf->len == len && !strncasecmp(cf->name, name, len).
CaseEqual(a, b) ==
  Len(a) = Len(b) /\ \A i \in 1..Len(a) : ToLower(a[i]) = ToLower(b[i])

\* The lookup comparing bytes exactly (strncmp).
FindCommonHeaderNameCaseSensitive(n) ==
  LET m == SelectSeq(CommonHeaders, LAMBDA h : h.name = n)
  IN IF m = <<>> THEN Nil ELSE m[1].name

\* find_common_header_name: the first entry equal to the name ignoring case.
FindCommonHeaderName(n) ==
  LET m == SelectSeq(CommonHeaders, LAMBDA h : CaseEqual(h.name, n))
  IN IF m = <<>> THEN Nil ELSE m[1].name

\* find_short_header_name: the first abbreviation equal to toupper(abbr).
FindShortHeaderName(c) ==
  LET m == SelectSeq(ShortHeaders, LAMBDA h : h.abbr = ToUpper(c))
  IN IF m = <<>> THEN Nil ELSE m[1].value

\* The miss branch of a long name: the first byte upper-cased if a..z; each
\* later byte upper-cased after '-' or '_' and lower-cased otherwise (the
\* separators themselves never change, so str[i-1] is the input's byte).
Capitalize(n) ==
  [i \in 1..Len(n) |-> IF i = 1 THEN ToUpper(n[1])
                       ELSE IF n[i - 1] \in {"-", "_"} THEN ToUpper(n[i]) ELSE ToLower(n[i])]

\* headerize returning the lookups' result without the NIL_P test of the
\* long-name branch.
HeaderizeNoNilCheck(n) ==
  IF Len(n) = 1
  THEN LET s == FindShortHeaderName(n[1]) IN IF s = Nil THEN <<ToLower(n[1])>> ELSE s
  ELSE FindCommonHeaderName(n)

\* headerize: a one-byte name is looked up among the short names and
\* downcased on a miss; a longer one among the long names, capitalised on
\* a miss.
Headerize(n) ==
  IF Len(n) = 1
  THEN LET s == FindShortHeaderName(n[1]) IN IF s = Nil THEN <<ToLower(n[1])>> ELSE s
  ELSE LET c == FindCommonHeaderName(n) IN IF c = Nil THEN Capitalize(n) ELSE c

HeaderizeInit ==
  /\ hname \in Names
  /\ headerized = <<>>
  /\ called = FALSE

\* The header() callback (or SipMessageParser_Class_headerize) calls headerize.
Call ==
  /\ ~called
  /\ headerized' = Headerize(hname)
  /\ called' = TRUE
  /\ UNCHANGED hname

HeaderizeNext == Call

HeaderizeSpec == HeaderizeInit /\ [][HeaderizeNext]_hname_vars

-----------------------------------------------------------------------------
(* What spec.md 4.1 ("Header-name canonicalization"), 6 and 8 require. *)

TableNames == {CommonHeaders[i].name : i \in 1..Len(CommonHeaders)}
Abbreviations == {CommonHeaders[i].short_name : i \in 1..Len(CommonHeaders)} \ {" "}
LongNameOf(a) == (CHOOSE i \in 1..Len(CommonHeaders) : CommonHeaders[i].short_name = a)

\* The spec's canonical name: the table name matching ignoring case, the
\* long name of a one-letter abbreviation of either case, else the first
\* letter and every letter after '-' or '_' upper-cased, the rest lower-cased.
SpecHeaderize(n) ==
  IF \E t \in TableNames : CaseEqual(t, n) THEN CHOOSE t \in TableNames : CaseEqual(t, n)
  ELSE IF Len(n) = 1 /\ ToUpper(n[1]) \in Abbreviations
       THEN CommonHeaders[LongNameOf(ToUpper(n[1]))].name
  ELSE [i \in 1..Len(n) |-> IF i = 1 \/ n[i - 1] \in {"-", "_"} THEN ToUpper(n[i]) ELSE ToLower(n[i])]

HeaderizeTypeOK ==
  /\ called \in BOOLEAN
  /\ headerized \in Seq(ToSet(LowerLetters) \cup ToSet(UpperLetters) \cup {"-", "_"})
  /\ called => Len(headerized) >= 1

\* spec.md 6 and 8 ("round-trip on well-known headers", "short-header
\* equivalence"): every well-known name in any case, and every abbreviation
\* in either case, is canonicalised to the table's name (the
\* case-insensitive search of find_common_header_name and the short_headers
\* array that init_short_headers fills from the same table).
IsKnown(n) ==
  \/ \E t \in TableNames : CaseEqual(t, n)
  \/ Len(n) = 1 /\ ToUpper(n[1]) \in Abbreviations

KnownHeadersCanonical ==
  called /\ IsKnown(hname) => headerized = SpecHeaderize(hname)

\* spec.md 4.1: every name not in the table gets the canonical
\* capitalisation, a one-letter name included (the short-name miss branch
\* of headerize, which downcases it).
HeaderizeMatchesSpec ==
  called => headerized = SpecHeaderize(hname)
====
