------------------------------ MODULE MCNames ------------------------------
(***************************************************************************)
(* The values of the constants of module Names.                            *)
(***************************************************************************)
EXTENDS Names

\* Resolver: one server of the first priority, two of the second; no record, one, records alone
\* at their priority, and one of those beside a group, which leaves it out.
MCRecords ==
    [h1 |-> [priority |-> 1, weight |-> 0], h2 |-> [priority |-> 2, weight |-> 1],
     h3 |-> [priority |-> 2, weight |-> 2]]

MCSrvAnswers == {<<>>, <<"h1">>, <<"h2", "h1">>, <<"h3", "h2", "h1">>}

Sending(a, aaaa) == [literal |-> FALSE, a |-> a, aaaa |-> aaaa]

MCSendings ==
    {[literal |-> TRUE, a |-> "", aaaa |-> ""], Sending("asked", "asked"),
     Sending("known", "asked"), Sending("known", "known"), Sending("refused", "refused"),
     Sending("asked", "refused")}

\* DnsPacket: names that share suffixes, records with every kind of field.
Pushed(name, type, rd) == [name |-> name, type |-> type, rd |-> rd]

MCQuestions == {Pushed(<<"a", "d">>, "SRV", <<>>)}

MCPushed ==
    {Pushed(<<"a", "d">>, "SRV", <<<<"1">>, <<"2">>, <<"3">>, <<"b", "c", "d">>>>),
     Pushed(<<"b", "c", "d">>, "A", <<<<"7">>>>),
     Pushed(<<"c", "d">>, "SOA", <<<<"b", "d">>, <<"e", "c", "d">>, <<"1">>, <<"2">>, <<"3">>,
                                   <<"4">>, <<"5">>>>),
     Pushed(<<"c">>, "CNAME", <<<<"e", "c", "d">>>>)}

\* DnsConfiguration: addresses of both families, one that does not parse.
MCFamily == [x \in {"ns1", "ns2", "ns3", "ns6"} |-> IF x = "ns6" THEN "AAAA" ELSE "A"]

MCResolvLines ==
    {<<<<"nameserver">>, <<a>>>> : a \in {"ns1", "ns2", "ns6", "bad"}} \union
    {<<<<"search">>, <<"a">>, <<"b", "c">>>>, <<<<"domain">>>>, <<<<"lookup">>, <<"bind">>>>,
     <<<<"options">>, <<"ndots", "2">>, <<"rotate">>>>,
     <<<<"options">>, <<"ndots", "0">>, <<"tcp", "0">>>>}

MCHostLines ==
    {<<<<"ns1">>, <<"h">>, <<"h", "a">>>>, <<<<"ns6">>, <<"h", "a">>>>, <<<<"bad">>, <<"h">>>>}

MCNsswitchLines ==
    {<<[source |-> "files", criteria |-> <<>>],
       [source |-> "dns", criteria |-> <<<<"notfound", "return">>>>]>>,
     <<[source |-> "nis", criteria |-> <<>>]>>}

MCLookupNames == {<<"h">>, <<"h", "a">>}

\* DnsResolver: a name with an address, an alias of it, an alias of a name that does not
\* exist, two that are aliases of each other, one whose answer needs a stream.
Www == <<"www", "local">>
Alias == <<"alias", "local">>
Loop == <<"loop", "local">>
Pool == <<"pool", "local">>
Long == <<"long", "local">>

Resource(name, type, data) == [name |-> name, type |-> type, data |-> data]

MCZone ==
    [n \in {<<"www">>, Www, Alias, Loop, Pool, Long} |->
       CASE n = <<"www">> -> <<Resource(n, "CNAME", <<"gone">>)>>
         [] n = Www -> <<Resource(n, "A", <<"1">>)>>
         [] n = Alias -> <<Resource(n, "CNAME", Www), Resource(Www, "A", <<"1">>)>>
         [] n = Loop -> <<Resource(n, "CNAME", Pool)>>
         [] n = Pool -> <<Resource(n, "CNAME", Loop)>>
         [] n = Long -> <<Resource(n, "A", <<"2">>)>>]

MCTruncated == {Long}
MCLame == {<<"ns2">>}

MCConf(names, tcp, lookup, attempts) ==
    [dns_resconf_open(<<"local">>) EXCEPT !.nameserver = names, !.tcp = tcp, !.lookup = lookup,
                                          !.attempts = attempts]

MCHosts ==
    <<[name |-> <<"h">>, addr |-> <<"ns3">>, alias |-> FALSE],
      [name |-> <<"gone">>, addr |-> <<"ns3">>, alias |-> FALSE]>>

Asking(settings, known, name) ==
    [conf |-> settings, hosts |-> known, name |-> <<name>>, type |-> "A"]

One == <<<<"ns1">>>>
Two == <<<<"ns1">>, <<"ns2">>>>

MCSettings ==
    {Asking(MCConf(Two, "enable", <<"f", "b">>, 2), <<>>, n) :
       n \in {"www", "alias", "loop", "long"}} \union
    {Asking(MCConf(Two, "enable", <<"b", "f">>, 1), MCHosts, n) : n \in {"www", "h"}} \union
    {Asking(MCConf(One, "only", <<"f", "b">>, 2), MCHosts, "long"),
     Asking([MCConf(Two, "disable", <<"b", "U", "C">>, 1) EXCEPT !.rotate = TRUE], <<>>, "long"),
     Asking([MCConf(One, "enable", <<"b">>, 1) EXCEPT !.ndots = 0], MCHosts, "www")}
=============================================================================
