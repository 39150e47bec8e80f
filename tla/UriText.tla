------------------------------- MODULE UriText -------------------------------
(***************************************************************************)
(* The text of URIs (belle_sip_utils.c, belle_sip_uri_impl.c): what is     *)
(* escaped in each of their parts, in the room belle_sip_escape() makes    *)
(* for it, and read back by the parser; the display name of an address;    *)
(* and which URIs belle_sip_uri_equals() takes for the same.               *)
(*                                                                         *)
(* A text is a sequence of letters, of which there is one of each kind the *)
(* parts of a URI treat differently, and the digits of their codes.        *)
(***************************************************************************)
EXTENDS Integers, Sequences, FiniteSets, SequencesExt

CONSTANTS
    Letters,       \* letters of the texts that are printed
    MaxText,       \* longest text
    DisplaySize,   \* BELLE_SIP_MAX_TO_STRING_SIZE, for a display name
    MaxChanges     \* changes made to the second of two URIs

ASSUME UriTextAssumption == MaxText \in Nat /\ MaxChanges \in Nat /\ DisplaySize > 2

Alnum == {"a", "A", "b", "2", "5", "6", "0", "3"}
Code == [c \in {" ", "%", "&", ";", "[", "bquote"} |->
           CASE c = " " -> <<"2", "0">> [] c = "%" -> <<"2", "5">> [] c = "&" -> <<"2", "6">>
             [] c = ";" -> <<"3", "b">> [] c = "[" -> <<"5", "b">> [] c = "bquote" -> <<"6", "0">>]

\* The octet two hexadecimal digits stand for; "?" is any that is none of the letters.
Octet(h) == IF \E c \in DOMAIN Code : Code[c] = h
            THEN CHOOSE c \in DOMAIN Code : Code[c] = h ELSE "?"
-----------------------------------------------------------------------------
(***************************************************************************)
(* Escaping.                                                               *)
(***************************************************************************)
UriParts == {"user", "password", "parameter", "header", "query", "path"}

\* get_sip_uri_username_noescapes(), get_sip_uri_userpasswd_noescapes(): letters left as they are.
UserinfoNoEscapes(p) == Alnum \cup (IF p = "user" THEN {"&", ";"} ELSE {"&"})

\* get_sip_uri_parameter_noescapes(), get_sip_uri_header_noescapes().
FieldNoEscapes(p) == Alnum \cup (IF p = "parameter" THEN {"[", "&", "%", "bquote"} ELSE {"["})

\* get_generic_uri_query_noescapes(), get_generic_uri_path_noescapes().
GenericNoEscapes(p) == Alnum \cup (IF p = "path" THEN {"&", ";"} ELSE {"&"})

NoEscapes(p) == CASE p \in {"user", "password"} -> UserinfoNoEscapes(p)
                  [] p \in {"parameter", "header"} -> FieldNoEscapes(p)
                  [] OTHER -> GenericNoEscapes(p)

\* The letters a part of a URI has in the grammar, without "escaped": user_unreserved, password,
\* param_unreserved, hnv_unreserved, uric and pchar.
Grammar(p) == Alnum \cup (CASE p = "user" -> {"&", ";"} [] p = "password" -> {"&"}
                            [] p = "parameter" -> {"[", "&"} [] p = "header" -> {"["}
                            [] p = "query" -> {"&", ";"} [] OTHER -> {"&", ";"})

Maximum(m, n) == IF m > n THEN m ELSE n

\* belle_sip_escape(): the room is made larger when it is less than the place in it minus 3, an
\* unsigned number: at the first three places, and then only when it is already passed. What
\* snprintf() has no room for is cut, and the place is moved all the same: "fits" is false.
belle_sip_escape(t, noescapes) ==
    LET more == Maximum(Len(t) \div 2, 3)
        put(e, c) ==
            LET grown == IF e.at < 3 \/ e.room < e.at - 3 THEN e.room + more ELSE e.room
                form == IF c \in noescapes THEN <<c>> ELSE <<"%">> \o Code[c]
            IN  [text |-> e.text \o form, at |-> e.at + Len(form), room |-> grown,
                 fits |-> e.fits /\ IF c \in noescapes THEN e.at <= grown ELSE grown - e.at > 3]
    IN  FoldLeft(put, [text |-> <<>>, at |-> 0, room |-> Len(t), fits |-> TRUE], t)

\* belle_sip_get_char(): the octet an escape stands for when there is room for one in n letters.
belle_sip_get_char(t, i, n) ==
    IF t[i] = "%" /\ n > 2 THEN [octet |-> Octet(SubSeq(t, i + 1, i + 2)), taken |-> 3]
    ELSE [octet |-> t[i], taken |-> 1]

\* What a text reads as, an escape counting when it ends within the first n letters of it:
\* belle_sip_to_unescaped_string(), escaped_to_ascii().
Unescaped(t, n) ==
    LET from[i \in 1..Len(t) + 4] ==
            IF i > n THEN <<>>
            ELSE LET c == belle_sip_get_char(t, i, n + 1 - i) IN <<c.octet>> \o from[i + c.taken]
    IN  from[1]

\* The parser takes a text for a part of a URI.
GrammarTakes(p, t) ==
    LET ok[i \in 1..Len(t) + 4] ==
            IF i > Len(t) THEN TRUE
            ELSE IF t[i] \in Grammar(p) THEN ok[i + 1]
            ELSE t[i] = "%" /\ i + 2 <= Len(t) /\ {t[i + 1], t[i + 2]} \subseteq Alnum /\ ok[i + 3]
    IN  ok[1]

\* belle_sip_display_name_to_backslashed_escaped_string(): what the buffer holds.
Backslashed(t) ==
    FoldLeft(LAMBDA out, c : IF Len(out) >= DisplaySize - 2 THEN out
                             ELSE out \o (IF c \in {"quote", "backslash"} THEN <<"backslash", c>> ELSE <<c>>),
             <<>>, t)

\* belle_sip_string_to_backslash_less_unescaped_string().
Backslashless(t) ==
    LET from[i \in 1..Len(t) + 3] ==
            IF i > Len(t) THEN <<>>
            ELSE IF t[i] = "backslash" THEN <<t[i + 1]>> \o from[i + 2] ELSE <<t[i]>> \o from[i + 1]
    IN  from[1]
-----------------------------------------------------------------------------
(***************************************************************************)
(* Comparing two URIs. Host, user and the values of parameters are texts.  *)
(***************************************************************************)
Omitted == <<"omitted">>     \* a component or parameter that is not there

Compared == {"transport", "user", "ttl", "method", "maddr"}

Upper(t) == [i \in 1..Len(t) |-> IF t[i] = "a" THEN "A" ELSE t[i]]

\* uri_strncmp_common(): letters are compared as far as the shorter text goes.
uri_strncmp_common(s, t, n) ==
    LET us == Unescaped(s, n)
        ut == Unescaped(t, n)
    IN  \E i \in 1..IF Len(us) < Len(ut) THEN Len(us) ELSE Len(ut) : us[i] # ut[i]

Shorter(s, t) == IF Len(s) < Len(t) THEN Len(s) ELSE Len(t)
IS_EQUAL(s, t) == uri_strncmp_common(s, t, Shorter(s, t))
IS_EQUAL_CASE(s, t) == uri_strncmp_common(Upper(s), Upper(t), Shorter(s, t))

\* PARAM_CASE_CMP.
PARAM_CASE_CMP(s, t) ==
    IF s # Omitted /\ t # Omitted THEN ~ IS_EQUAL_CASE(s, t) ELSE s = t

\* belle_sip_uri_equals(). A user that only one URI has is compared with itself; the loop over the
\* other parameters looks for one whose name is the bytes of a pair, and never finds it.
belle_sip_uri_equals(u, v) ==
    /\ u.secure = v.secure
    /\ u.user # Omitted /\ v.user # Omitted => ~ IS_EQUAL(u.user, v.user)
    /\ ~ IS_EQUAL_CASE(u.host, v.host)
    /\ u.port = v.port
    /\ \A p \in Compared : PARAM_CASE_CMP(u.param[p], v.param[p])

belle_sip_header_contact_equals(u, v) == belle_sip_uri_equals(u, v)
-----------------------------------------------------------------------------
VARIABLES
    place,      \* the part of a URI the text is in; "display name", "comparison"
    written,    \* the text the application gave
    onWire,     \* what was printed, and whether there was room for it
    readBack,   \* what the parser made of it
    uris,       \* <<u, v>>: two URIs that are compared
    changes     \* number of changes made to v

textVars == <<place, written, onWire, readBack, uris, changes>>

NoText == <<"none">>
NoParams == [p \in Compared \cup {"other"} |-> Omitted]
AUri == [secure |-> FALSE, user |-> <<"a">>, host |-> <<"b", "a">>, port |-> 0,
         param |-> [NoParams EXCEPT !["transport"] = <<"a">>]]

Texts(letters) == UNION {[1..n -> letters] : n \in 1..MaxText}

TextInit(places) ==
    /\ place \in places
    /\ written \in CASE place \in UriParts -> Texts(Letters)
                     [] place = "display name" -> Texts({"a", "quote", "backslash"})
                     [] OTHER -> {NoText}
    /\ onWire = [text |-> NoText, fits |-> TRUE] /\ readBack = NoText
    /\ uris = <<AUri, AUri>> /\ changes = 0

\* encode_params(), encode_headers(), belle_sip_uri_marshal(), belle_generic_uri_marshal();
\* belle_sip_header_address_marshal() for the display name.
PrintPart ==
    /\ place # "comparison" /\ onWire.text = NoText
    /\ onWire' = IF place = "display name" THEN [text |-> Backslashed(written), fits |-> TRUE]
                 ELSE LET e == belle_sip_escape(written, NoEscapes(place))
                      IN  [text |-> e.text, fits |-> e.fits]
    /\ UNCHANGED <<place, written, readBack, uris, changes>>

\* The parser's actions for a user, a password, a parameter, a header, a path and a query.
ReadPart ==
    /\ onWire.text # NoText /\ onWire.fits /\ readBack = NoText
    /\ IF place = "display name" THEN readBack' = Backslashless(onWire.text)
       ELSE GrammarTakes(place, onWire.text) /\ readBack' = Unescaped(onWire.text, Len(onWire.text))
    /\ UNCHANGED <<place, written, onWire, uris, changes>>

\* v written in another way: another case, a parameter nobody compares.
Respell ==
    \E v \in {[uris[2] EXCEPT !.host = Upper(@)],
              [uris[2] EXCEPT !.param["transport"] = IF @ = Omitted THEN @ ELSE Upper(@)],
              [uris[2] EXCEPT !.param["other"] = <<"b">>]} : uris' = <<uris[1], v>>

\* v becomes another URI.
Differ ==
    \E v \in {[uris[2] EXCEPT !.secure = ~ @], [uris[2] EXCEPT !.port = 5060],
              [uris[2] EXCEPT !.user = <<"A">>], [uris[2] EXCEPT !.user = <<"a", "b">>],
              [uris[2] EXCEPT !.user = Omitted], [uris[2] EXCEPT !.host = <<"b">>],
              [uris[2] EXCEPT !.param["transport"] = Omitted],
              [uris[2] EXCEPT !.param["transport"] = <<"b">>],
              [uris[2] EXCEPT !.param["maddr"] = <<"a">>],
              [uris[2] EXCEPT !.param["method"] = <<"b">>]} : uris' = <<uris[1], v>>

ChangeUri ==
    /\ place = "comparison" /\ changes < MaxChanges
    /\ Respell \/ Differ
    /\ changes' = changes + 1
    /\ UNCHANGED <<place, written, onWire, readBack>>

TextNext == PrintPart \/ ReadPart \/ ChangeUri
-----------------------------------------------------------------------------
\* A text given for a part of a URI is what its reader gets (belle_sip_escape(),
\* belle_sip_to_unescaped_string()), and there is room for it when it has one letter to escape:
\* but for a parameter with "%" or "bquote", which get_sip_uri_parameter_noescapes() takes for letters
\* of a URI's parameter. A display name is read up to where its buffer ended.
TextReadsBack ==
    /\ place \in UriParts /\ onWire.text # NoText =>
         /\ Cardinality({i \in 1..Len(written) : written[i] \notin NoEscapes(place)}) < 2
              => onWire.fits
         /\ ~ (place = "parameter" /\ ToSet(written) \cap {"%", "bquote"} # {}) =>
              GrammarTakes(place, onWire.text)
    /\ readBack # NoText =>
         IF place = "display name"
         THEN /\ IsPrefix(readBack, written)
              /\ Len(onWire.text) < DisplaySize - 2 => readBack = written
         ELSE (place = "parameter" /\ "%" \in ToSet(written)) \/ readBack = written

\* The rules quoted in belle_sip_uri_equals(): the same URI in another spelling.
SameUri(u, v) ==
    /\ u.secure = v.secure /\ u.user = v.user /\ Upper(u.host) = Upper(v.host) /\ u.port = v.port
    /\ \A p \in Compared : Upper(u.param[p]) = Upper(v.param[p])

\* One text begins with the other.
Alike(s, t) == IsPrefix(s, t) \/ IsPrefix(t, s)

\* Two spellings of a URI are equal, in both orders. URIs that are equal have the same scheme, the
\* same port and the same of the compared parameters; the users that both have, the hosts and the
\* values of the compared parameters each begin with one another (IS_EQUAL looks no further), in
\* any case but for users. Nothing is said of a user that only one of them has.
EqualityFollowsRules ==
    LET u == uris[1]
        v == uris[2]
    IN  /\ SameUri(u, v) => belle_sip_uri_equals(u, v)
        /\ belle_sip_uri_equals(u, v) = belle_sip_uri_equals(v, u)
        /\ belle_sip_uri_equals(u, v) =>
             /\ u.secure = v.secure /\ u.port = v.port
             /\ u.user = Omitted \/ v.user = Omitted \/ Alike(u.user, v.user)
             /\ Alike(Upper(u.host), Upper(v.host))
             /\ \A p \in Compared :
                  /\ (u.param[p] = Omitted) = (v.param[p] = Omitted)
                  /\ Alike(Upper(u.param[p]), Upper(v.param[p]))
=============================================================================
