------------------------------ MODULE DnsPacket ------------------------------
(***************************************************************************)
(* DNS messages built and read by the embedded resolver (dns.c, packet,    *)
(* domain name and resource record routines). A message is a sequence of   *)
(* cells: labels, the end of a name, a pointer to an earlier name, the     *)
(* fixed fields of a record. Names are sequences of labels, compressed     *)
(* against a dictionary of the names pushed before. Sizes are in cells.    *)
(***************************************************************************)
EXTENDS Integers, Sequences, SequencesExt, FiniteSetsExt

CONSTANTS
    PacketSize,     \* room for records in the packet being built
    DictSize,       \* DNS_P_DICTSIZE
    QuestionSet,    \* the questions pushed
    RecordSet       \* the records pushed: [name, type, rd]

Sections == <<"QD", "AN", "NS", "AR">>

Label(l) == <<"label", l>>
Pointer(p) == <<"ptr", p>>
EndOfName == <<"end", 0>>
Illegal == "illegal label"

dns_p_make(size) ==
    [size |-> size, data |-> <<>>, count |-> [s \in ToSet(Sections) |-> 0], dict |-> <<>>]

End(P) == Len(P.data)
NoRoom(P, n) == P.size - End(P) < n
Add(P, cells) == [P EXCEPT !.data = @ \o cells]
-----------------------------------------------------------------------------
\* Domain names.

\* The cells of the name at p that are labels, pointers followed; 0 when it is cut short.
Chain(P, p) ==
    LET walk[q \in Nat] ==
          IF q > End(P) THEN <<0>>
          ELSE CASE P.data[q][1] = "label" -> <<q>> \o walk[q + 1]
                 [] P.data[q][1] = "ptr" -> walk[P.data[q][2]]
                 [] P.data[q][1] = "end" -> <<>>
                 [] OTHER -> <<0>>
    IN  walk[p]

dns_d_expand(P, p) ==
    LET chain == Chain(P, p)
    IN  [i \in DOMAIN chain |-> IF chain[i] = 0 THEN Illegal ELSE P.data[chain[i]][2]]

dns_d_skip(P, p) ==
    LET stops == {q \in p .. End(P) : P.data[q][1] # "label"}
    IN  IF stops = {} THEN End(P) + 1 ELSE Min(stops) + 1

CommonPrefix(s, t) ==
    LET n == Min({Len(s), Len(t)})
    IN  Max({k \in 0 .. n : \A j \in 1 .. k : s[j] = t[j]})

\* The names that can be pointed at: at every label of every name in the dictionary, in the
\* order they are tried. A pointer in a name is pointed at as such.
Candidates(P) ==
    FlattenSeq([e \in DOMAIN P.dict |->
        LET chain == SelectSeq(Chain(P, P.dict[e]), LAMBDA q : q # 0)
        IN  [k \in DOMAIN chain |->
               [at |-> IF k = 1 THEN P.dict[e] ELSE chain[k - 1] + 1,
                labels |-> [j \in 1 .. Len(chain) - k + 1 |-> P.data[chain[k + j - 1]][2]]]]])

\* Mistake to detect: a candidate that goes on after the suffix matches it.
MatchStep_Prefix(name, i, m, c) ==
    LET from == IF m.label > Len(name) THEN <<>>
                ELSE <<name[m.label]>> \o SubSeq(name, i + 1, Len(name))
        same == CommonPrefix(from, c.labels)
    IN  IF m.found # 0 THEN m
        ELSE IF from # <<>> /\ same = Len(from) THEN [m EXCEPT !.found = c.at]
        ELSE IF same = 0 THEN m
        ELSE [m EXCEPT !.label = i + same]

\* One candidate of the search for the suffix of name that starts at label i. m.label is the
\* label compared first: a partial match leaves it at the label where the two names differ.
MatchStep(name, i, m, c) ==
    LET from == IF m.label > Len(name) THEN <<>>
                ELSE <<name[m.label]>> \o SubSeq(name, i + 1, Len(name))
        same == CommonPrefix(from, c.labels)
    IN  IF m.found # 0 THEN m
        ELSE IF same = Len(from) /\ same = Len(c.labels) THEN [m EXCEPT !.found = c.at]
        ELSE IF same = 0 THEN m
        ELSE [m EXCEPT !.label = i + same]

MatchOf(P, name, i) ==
    FoldLeft(LAMBDA m, c : MatchStep(name, i, m, c), [label |-> i, found |-> 0], Candidates(P)).found

\* The cells of a name: its labels, or the first labels and a pointer. It is compressed only
\* when it fits without.
Compressed(plain, matches) ==
    LET shared == {i \in DOMAIN matches : matches[i] # 0}
    IN  IF shared = {} THEN plain
        ELSE SubSeq(plain, 1, Min(shared) - 1) \o <<Pointer(matches[Min(shared)])>>

dns_d_comp(P, name) ==
    LET plain == [i \in DOMAIN name |-> Label(name[i])] \o <<EndOfName>>
    IN  IF Len(plain) >= P.size - End(P) THEN plain
        ELSE Compressed(plain, [i \in DOMAIN name |-> MatchOf(P, name, i)])

\* Remembers the name at dn, in place of the one it points at if that is remembered. A full
\* dictionary forgets it.
dns_p_dictadd(P, dn) ==
    LET stop == dns_d_skip(P, dn) - 1
        replaced == {e \in DOMAIN P.dict :
                       stop # dn /\ P.data[stop][1] = "ptr" /\ P.dict[e] = P.data[stop][2]}
    IN  IF replaced # {} THEN [P EXCEPT !.dict[Min(replaced)] = dn]
        ELSE IF Len(P.dict) < DictSize THEN [P EXCEPT !.dict = Append(@, dn)]
        ELSE P

Ok(P) == [P |-> P, error |-> ""]
Failed(P, e) == [P |-> P, error |-> e]

AddCells(P, cells) == IF NoRoom(P, Len(cells)) THEN Failed(P, "NOBUFS") ELSE Ok(Add(P, cells))

\* The name that starts at dn is remembered.
Remembered(r, dn) == IF r.error # "" THEN r ELSE Ok(dns_p_dictadd(r.P, dn))

dns_d_push(P, name) == Remembered(AddCells(P, dns_d_comp(P, name)), End(P) + 1)
-----------------------------------------------------------------------------
\* Record data. A layout lists the fields after the length: words, names that are remembered
\* for compression and names that are not. The value of a word is a sequence, as a name is.
dns_a == <<"word">>
dns_aaaa == <<"word">>
dns_mx == <<"word", "name">>
dns_ns == <<"name">>
dns_cname == dns_ns
dns_ptr == dns_ns
dns_soa == <<"name", "name", "word", "word", "word", "word", "word">>
dns_srv == <<"word", "word", "word", "unremembered">>
dns_sshfp == <<"word", "word", "word">>
dns_txt == <<"word">>

dns_rrtypes ==
    [A |-> dns_a, AAAA |-> dns_aaaa, MX |-> dns_mx, NS |-> dns_ns, CNAME |-> dns_cname,
     PTR |-> dns_ptr, SOA |-> dns_soa, SRV |-> dns_srv, SSHFP |-> dns_sshfp, TXT |-> dns_txt]

PushField(r, kind, value) ==
    IF r.error # "" THEN r
    ELSE CASE kind = "name" -> dns_d_push(r.P, value)
           [] kind = "word" -> AddCells(r.P, <<<<"word", value>>>>)
           [] kind = "unremembered" -> AddCells(r.P, dns_d_comp(r.P, value))

PushFields(r, layout, values) ==
    FoldLeft(LAMBDA s, i : PushField(s, layout[i], values[i]), r, [i \in DOMAIN layout |-> i])

\* The length is written once the fields are. An SOA must leave one cell of the buffer free.
WithLength(r, at, type) ==
    IF r.error # "" THEN r
    ELSE IF type = "SOA" /\ End(r.P) = r.P.size THEN Failed(r.P, "NOBUFS")
    ELSE Ok([r.P EXCEPT !.data[at] = <<"rdlen", End(r.P) - at>>])

dns_any_push(P, rd, type) ==
    WithLength(PushFields(Ok(P), <<"word">> \o dns_rrtypes[type], <<0>> \o rd), End(P) + 1, type)

\* Reads the fields at p by the layout.
dns_any_parse(P, p, type) ==
    LET step(s, kind) ==
          IF kind = "word" THEN [p |-> s.p + 1, rd |-> Append(s.rd, P.data[s.p][2])]
          ELSE [p |-> dns_d_skip(P, s.p), rd |-> Append(s.rd, dns_d_expand(P, s.p))]
    IN  FoldLeft(step, [p |-> p, rd |-> <<>>], dns_rrtypes[type]).rd
-----------------------------------------------------------------------------
\* Records.
Count(P, sections) == FoldSet(LAMBDA s, n : n + P.count[s], 0, sections)

LaterSections(section) ==
    {Sections[j] : j \in {k \in DOMAIN Sections : \E i \in DOMAIN Sections :
                                                     Sections[i] = section /\ k > i}}

\* The end is put back when a step fails, what the dictionary learnt stays.
PushData(r, rr) == IF r.error # "" THEN r ELSE dns_any_push(r.P, rr.rd, rr.type)

PushRecord(P, section, rr) ==
    IF section = "QD" THEN PushFields(Ok(P), <<"name", "word">>, <<rr.name, rr.type>>)
    ELSE PushData(PushFields(Ok(P), <<"name", "word", "word">>, <<rr.name, rr.type, 0>>), rr)

Counted(P, section, r) ==
    LET error == IF r.error # "" THEN r.error
                 ELSE IF Count(P, LaterSections(section)) > 0 THEN "ORDER" ELSE ""
    IN  IF error = "" THEN Ok([r.P EXCEPT !.count[section] = @ + 1])
        ELSE Failed([r.P EXCEPT !.data = P.data], error)

dns_p_push(P, section, rr) == Counted(P, section, PushRecord(P, section, rr))

\* The section of the record with index n, from 0.
dns_rr_section(P, n) ==
    LET upTo(i) == Count(P, {Sections[j] : j \in 1 .. i})
    IN  Sections[Min({i \in DOMAIN Sections : n < upTo(i)})]

dns_rr_parse(P, p, n) ==
    LET section == dns_rr_section(P, n)
        fixed == dns_d_skip(P, p)
        type == P.data[fixed][2]
    IN  [section |-> section, name |-> dns_d_expand(P, p), type |-> type,
         rd |-> IF section = "QD" THEN <<>> ELSE dns_any_parse(P, fixed + 3, type)]

dns_rr_skip(P, p, n) ==
    LET fixed == dns_d_skip(P, p)
    IN  IF dns_rr_section(P, n) = "QD" THEN fixed + 1
        ELSE fixed + 3 + P.data[fixed + 2][2]

\* All records of a packet, in packet order (dns_rr_grep() with no criterion).
AllRecords(P) ==
    LET read[p \in Nat, n \in Nat] ==
          IF p > End(P) THEN <<>>
          ELSE <<dns_rr_parse(P, p, n)>> \o read[dns_rr_skip(P, p, n), n + 1]
    IN  read[1, 0]

\* Those dns_rr_i_match() accepts: of the given sections and type.
dns_rr_grep(P, sections, types) ==
    SelectSeq(AllRecords(P), LAMBDA rr : rr.section \in sections /\ rr.type \in types)

dns_rr_copy(P, rr) == dns_p_push(P, rr.section, [name |-> rr.name, type |-> rr.type, rd |-> rr.rd])
-----------------------------------------------------------------------------
VARIABLES
    packet,     \* the packet being built
    pushed      \* ghost: the records pushed with success, in order

packetVars == <<packet, pushed>>

PacketInit == packet = dns_p_make(PacketSize) /\ pushed = <<>>

Push(section, rr) ==
    \E r \in {dns_p_push(packet, section, rr)} :
        /\ Len(pushed) < PacketSize
        /\ packet' = r.P
        /\ pushed' = IF r.error # "" THEN pushed
                     ELSE Append(pushed, [section |-> section, name |-> rr.name, type |-> rr.type,
                                          rd |-> IF section = "QD" THEN <<>> ELSE rr.rd])

PacketNext ==
    \/ \E q \in QuestionSet : Push("QD", q)
    \/ \E s \in {"AN", "NS", "AR"}, rr \in RecordSet : Push(s, rr)

\* What was pushed is read back: same names whatever was compressed against what, same data,
\* same section and order, and nothing of a push that failed half way.
PushedIsRead == AllRecords(packet) = pushed
=============================================================================
