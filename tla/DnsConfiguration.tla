-------------------------- MODULE DnsConfiguration --------------------------
(***************************************************************************)
(* Where the embedded resolver looks and whom it asks (dns.c: hosts,       *)
(* resolv.conf, nsswitch.conf and hint server routines).  The files are    *)
(* read a line at a time; a line is a sequence of words and a word a       *)
(* sequence of strings: <<"192.0.2.1">>, <<"example", "org">> for a name,  *)
(* <<"ndots", "2">> for an option with a value.                            *)
(***************************************************************************)
EXTENDS Integers, Sequences, SequencesExt, FiniteSetsExt

CONSTANTS
    Family,         \* the addresses that parse, with their record type: "A" or "AAAA"
    ResolvLines,    \* lines of resolv.conf
    HostLines,      \* lines of the hosts file
    NsswitchLines,  \* "hosts:" lines of nsswitch.conf: [source, criteria]s
    LookupNames,    \* names that are looked up
    MaxLines        \* bound on the lines read

Digits == [d \in {"0", "1", "2", "5"} |->
             CASE d = "0" -> 0 [] d = "1" -> 1 [] d = "2" -> 2 [] d = "5" -> 5]

FirstWords(s, n) == SubSeq(s, 1, Min({n, Len(s)}))
-----------------------------------------------------------------------------
\* resolv.conf

\* ctx->resconf before any file: the search domain is the host's own.
dns_resconf_open(domain) ==
    [nameserver |-> <<<<"0.0.0.0">>>>, search |-> IF domain = <<>> THEN <<>> ELSE <<domain>>,
     lookup |-> <<"f", "b">>, ndots |-> 1, timeout |-> 5, attempts |-> 2,
     rotate |-> FALSE, recurse |-> FALSE, smart |-> FALSE, tcp |-> "enable"]

SourceLetter(word) ==
    CASE word = <<"file">> -> <<"f">> [] word = <<"bind">> -> <<"b">>
      [] word = <<"cache">> -> <<"c">> [] OTHER -> <<>>

Option(conf, word) ==
    CASE word[1] = "ndots" -> [conf EXCEPT !.ndots = Digits[word[2]]]
      [] word[1] = "timeout" -> [conf EXCEPT !.timeout = Digits[word[2]]]
      [] word[1] = "attempts" -> [conf EXCEPT !.attempts = Digits[word[2]]]
      [] word = <<"rotate">> -> [conf EXCEPT !.rotate = TRUE]
      [] word = <<"recurse">> -> [conf EXCEPT !.recurse = TRUE]
      [] word = <<"smart">> -> [conf EXCEPT !.smart = TRUE]
      [] word \in {<<"tcp">>, <<"tcp", "1">>, <<"tcp", "only">>} -> [conf EXCEPT !.tcp = "only"]
      [] word \in {<<"tcp", "0">>, <<"tcp", "disable">>} -> [conf EXCEPT !.tcp = "disable"]
      [] word = <<"tcp", "enable">> -> [conf EXCEPT !.tcp = "enable"]
      [] OTHER -> conf

\* The configuration and the number of servers read so far, after one line of six words at
\* most. A lookup line overwrites the letters it gives and leaves the ones behind them.
dns_resconf_loadfile(conf, servers, line) ==
    LET words == FirstWords(line, 6)
        given == Tail(words)
        letters == FlattenSeq([i \in DOMAIN given |-> SourceLetter(given[i])])
        key == words[1]
        with(c) == [conf |-> c, servers |-> servers]
    IN  IF Len(words) < 2 THEN with(conf)
        ELSE CASE key = <<"nameserver">> ->
                    IF servers = 3 \/ given[1][1] \notin DOMAIN Family THEN with(conf)
                    ELSE [conf |-> [conf EXCEPT !.nameserver =
                                      IF servers = 0 THEN <<given[1]>> ELSE Append(@, given[1])],
                          servers |-> servers + 1]
               [] key \in {<<"domain">>, <<"search">>} ->
                    with([conf EXCEPT !.search = FirstWords(given, 4)])
               [] key = <<"lookup">> ->
                    with([conf EXCEPT !.lookup =
                            letters \o SubSeq(@, Len(letters) + 1, Len(@))])
               [] key = <<"options">> -> with(FoldLeft(Option, conf, given))
               [] OTHER -> with(conf)

\* Mistake to detect: the name as it is, is tried at the end whatever its dots.
dns_resconf_search_Twice(conf, qname, st) ==
    IF st.phase = 0 /\ Len(qname) - 1 >= conf.ndots
      THEN [host |-> qname, st |-> [st EXCEPT !.phase = 1]]
    ELSE IF st.phase <= 1 /\ st.srchi <= Len(conf.search)
      THEN [host |-> qname \o conf.search[st.srchi],
            st |-> [phase |-> 1, srchi |-> st.srchi + 1]]
    ELSE IF st.phase <= 2 THEN [host |-> qname, st |-> [st EXCEPT !.phase = 3]]
    ELSE [host |-> <<>>, st |-> [st EXCEPT !.phase = 3]]

\* The next name to try for the name asked, in state [phase, srchi]; <<>> when there is none.
dns_resconf_search(conf, qname, st) ==
    LET asIsFirst == Len(qname) - 1 >= conf.ndots
        suffixed == st.srchi <= Len(conf.search) /\ st.phase <= 1
    IN  IF st.phase = 0 /\ asIsFirst THEN [host |-> qname, st |-> [st EXCEPT !.phase = 1]]
        ELSE IF suffixed
          THEN [host |-> qname \o conf.search[st.srchi],
                st |-> [phase |-> 1, srchi |-> st.srchi + 1]]
        ELSE IF st.phase <= 2 /\ ~ asIsFirst
          THEN [host |-> qname, st |-> [st EXCEPT !.phase = 3]]
        ELSE [host |-> <<>>, st |-> [st EXCEPT !.phase = 3]]

SearchStart == [phase |-> 0, srchi |-> 1]

\* All the names tried.
Searched(conf, qname) ==
    LET from[n \in Nat, phase \in Nat, srchi \in Nat] ==
          LET r == dns_resconf_search(conf, qname, [phase |-> phase, srchi |-> srchi])
          IN  IF r.host = <<>> \/ n = 0 THEN <<>>
              ELSE <<r.host>> \o from[n - 1, r.st.phase, r.st.srchi]
    IN  from[Len(conf.search) + 3, 0, 1]
-----------------------------------------------------------------------------
\* nsswitch.conf

LookupSize == 36    \* sizeof resconf->lookup

dns_nssconf_k2c ==
    [dns |-> "b", mdns |-> "m", files |-> "f", success |-> "S", notfound |-> "N",
     unavail |-> "U", tryagain |-> "T", continue |-> "C", return |-> "R"]

\* Letters of one source: a criterion whose status is unknown is left out, an unknown action
\* becomes the usual one.
CriterionLetters(c) ==
    LET status == c[1]
        action == IF c[2] \in {"continue", "return"} THEN c[2]
                  ELSE IF status = "success" THEN "return" ELSE "continue"
    IN  IF status \notin {"success", "notfound", "unavail", "tryagain"} THEN <<>>
        ELSE <<dns_nssconf_k2c[status], dns_nssconf_k2c[action]>>

dns_nssconf_source(lookup, src) ==
    IF LookupSize - Len(lookup) < 2 * Len(src.criteria) + 2
       \/ src.source \notin {"dns", "mdns", "files"}
      THEN lookup
      ELSE lookup \o <<dns_nssconf_k2c[src.source]>>
                  \o FlattenSeq([i \in DOMAIN src.criteria |-> CriterionLetters(src.criteria[i])])

\* A line that names no source changes nothing.
dns_nssconf_loadfile(conf, line) ==
    LET lookup == FoldLeft(dns_nssconf_source, <<>>, line)
    IN  IF lookup = <<>> THEN conf ELSE [conf EXCEPT !.lookup = lookup]
-----------------------------------------------------------------------------
\* The hosts file: entries [name, addr, alias].

dns_hosts_insert(hosts, addr, name, alias) ==
    Append(hosts, [name |-> name, addr |-> addr, alias |-> alias])

\* A line whose address does not parse is skipped.
dns_hosts_loadfile(hosts, line) ==
    IF line = <<>> \/ line[1][1] \notin DOMAIN Family THEN hosts
    ELSE FoldLeft(LAMBDA h, i : dns_hosts_insert(h, line[1], line[i], i > 2), hosts,
                  [i \in 1 .. Len(line) - 1 |-> i + 1])

\* The data of the records of the answer. Of a PTR the question is the address.
dns_hosts_query(hosts, question, type) ==
    LET matches(e) ==
          IF type = "PTR" THEN e.addr = question /\ ~ e.alias
          ELSE type \in {"A", "AAAA"} /\ e.name = question /\ Family[e.addr[1]] = type
        found == SelectSeq(hosts, matches)
    IN  [i \in DOMAIN found |-> IF type = "PTR" THEN found[i].name ELSE found[i].addr]
-----------------------------------------------------------------------------
\* Hints: the servers of resolv.conf, each with a priority.

dns_hints_insert_resconf(conf) ==
    [i \in DOMAIN conf.nameserver |->
       [addr |-> conf.nameserver[i], priority |-> IF conf.rotate THEN 1 ELSE i]]

\* The orders dns_hints_grep() can give them in: by priority, then shuffled.
dns_hints_query(conf) ==
    LET hints == dns_hints_insert_resconf(conf)
        orders == {s \in [DOMAIN hints -> DOMAIN hints] :
                     /\ \A i, j \in DOMAIN s : i # j => s[i] # s[j]
                     /\ \A i, j \in DOMAIN s :
                          i < j => hints[s[i]].priority <= hints[s[j]].priority}
    IN  {[i \in DOMAIN s |-> hints[s[i]].addr] : s \in orders}
-----------------------------------------------------------------------------
VARIABLES
    conf,       \* resconf
    servers,    \* sa_count
    hosts,      \* the hosts database
    read        \* ghost: the lines read, <<file, line>>

configurationVars == <<conf, servers, hosts, read>>

ConfigurationInit ==
    /\ \E domain \in {<<>>, <<"local">>} : conf = dns_resconf_open(domain)
    /\ servers = 0 /\ hosts = <<>> /\ read = <<>>

ReadResolvLine ==
    \E line \in ResolvLines :
       LET r == dns_resconf_loadfile(conf, servers, line)
       IN  /\ Len(read) < MaxLines
           /\ \A i \in DOMAIN read : read[i][1] = "resolv"
           /\ conf' = r.conf /\ servers' = r.servers
           /\ read' = Append(read, <<"resolv", line>>)
           /\ UNCHANGED hosts

\* nsswitch.conf is loaded after resolv.conf, the hosts database after both.
ReadNsswitchLine ==
    \E line \in NsswitchLines :
       /\ Len(read) < MaxLines
       /\ \A i \in DOMAIN read : read[i][1] = "resolv"
       /\ conf' = dns_nssconf_loadfile(conf, line)
       /\ read' = Append(read, <<"nsswitch", line>>)
       /\ UNCHANGED <<servers, hosts>>

ReadHostLine ==
    \E line \in HostLines :
       /\ Len(read) < MaxLines
       /\ hosts' = dns_hosts_loadfile(hosts, line)
       /\ read' = Append(read, <<"hosts", line>>)
       /\ UNCHANGED <<conf, servers>>

ConfigurationNext == ReadResolvLine \/ ReadNsswitchLine \/ ReadHostLine
-----------------------------------------------------------------------------
\* Every name is tried as it is exactly once, and with every search domain exactly once, in
\* their order; as it is first when it has ndots dots, last otherwise
\* (dns_resconf_search(), called again and again with a state packed in an integer).
SearchedOnce(n) ==
    LET suffixed == [i \in DOMAIN conf.search |-> n \o conf.search[i]]
    IN  Searched(conf, n) = IF Len(n) > conf.ndots THEN <<n>> \o suffixed ELSE Append(suffixed, n)

\* The servers asked are the first three of the file that parse, in the order of the file
\* unless "rotate" is given.
ServersAsWritten ==
    LET lines == SelectSeq(read, LAMBDA l : l[1] = "resolv" /\ l[2][1] = <<"nameserver">>
                                            /\ l[2][2][1] \in DOMAIN Family)
        written == [i \in DOMAIN FirstWords(lines, 3) |-> lines[i][2][2]]
    IN  written # <<>> =>
          IF conf.rotate THEN \A s \in dns_hints_query(conf) : ToSet(s) = ToSet(written)
                         ELSE dns_hints_query(conf) = {written}

\* An address found in the hosts file for a name is on a line with that name, and the name
\* found back for an address is the first of one of its lines.
HostsAsWritten ==
    LET line(a, n) == {i \in DOMAIN read : /\ read[i][1] = "hosts" /\ read[i][2][1] = a
                                           /\ \E k \in 2 .. Len(read[i][2]) : read[i][2][k] = n}
    IN  /\ \A n \in LookupNames, t \in {"A", "AAAA"} :
              \A a \in ToSet(dns_hosts_query(hosts, n, t)) : Family[a[1]] = t /\ line(a, n) # {}
        /\ \A a \in {<<x>> : x \in DOMAIN Family} : \A n \in ToSet(dns_hosts_query(hosts, a, "PTR")) :
              \E i \in line(a, n) : read[i][2][2] = n

\* What is looked up, and where, is what the files say, whatever lines they have in whatever
\* order: of names, of servers, of hosts.
ConfiguredAsWritten ==
    (\A n \in LookupNames : SearchedOnce(n)) /\ ServersAsWritten /\ HostsAsWritten
=============================================================================
