----------------------------- MODULE DnsResolver -----------------------------
(***************************************************************************)
(* One DNS query of the embedded resolver (dns.c, resolver and socket      *)
(* routines): dns_res_exec() is a stack of frames, one per name of a CNAME *)
(* chain, each a state machine that looks in the hosts file and asks the   *)
(* servers, over UDP and, when an answer is truncated, over TCP. It runs   *)
(* until it would block, whenever the main loop wakes it up. A message is  *)
(* the list of its records (DnsPacket shows that it reads back as such).   *)
(* Not modelled: recursion from the root ("options recurse"), the cache    *)
(* (belle-sip has none) and "smart" lookups.                               *)
(***************************************************************************)
EXTENDS DnsConfiguration

CONSTANTS
    Zone,           \* what the servers know: name |-> records [name, type, data]
    Truncated,      \* names whose answer does not fit in a datagram
    Lame,           \* servers that know nothing
    MaxDepth,       \* DNS_R_MAXDEPTH
    Settings        \* what a query starts with: [conf, hosts, name, type]

NoAnswer == [qid |-> 0, name |-> <<>>, type |-> "", tc |-> FALSE, rcode |-> "none", rr |-> <<>>]
Question(name, type) == [qid |-> 0, name |-> name, type |-> type]
Frame(query) ==
    [state |-> "GLUE", which |-> 1, attempts |-> 0, query |-> query, answer |-> NoAnswer,
     servers |-> <<>>, next |-> 1]
Denied == <<"denied">>
IdleSocket == [state |-> "", query |-> Question(<<>>, ""), server |-> <<>>, late |-> FALSE]

VARIABLES
    ask,        \* the setting of this query
    res,        \* the resolver: stack (the last frame runs), search, so, qids, and the result
    wire,       \* answers on their way: late, reordered, never
    asked       \* ghost: <<server, name>> submitted to, <<Denied, name>> answered so

queryVars == <<ask, res, wire, asked>>

\* The resolver of a query that has been submitted, or of none.
QueryInit(submitted) ==
    /\ ask \in IF submitted THEN Settings ELSE {CHOOSE s \in Settings : TRUE}
    /\ res = [stack |-> <<Frame(Question(<<>>, ask.type))>>, search |-> SearchStart,
              so |-> IdleSocket, qids |-> 0, over |-> IF submitted THEN "" ELSE "idle",
              answer |-> NoAnswer]
    /\ wire = {} /\ asked = {}
-----------------------------------------------------------------------------
\* Messages.
Answer(q, rcode, rr) ==
    [qid |-> q.qid, name |-> q.name, type |-> q.type, tc |-> FALSE, rcode |-> rcode, rr |-> rr]

Holds(answer, name, type) ==
    \E i \in DOMAIN answer.rr : answer.rr[i].name = name /\ answer.rr[i].type = type

\* What a server answers.
ServerAnswer(server, q, stream) ==
    LET known == IF server \in Lame \/ q.name \notin DOMAIN Zone THEN <<>> ELSE Zone[q.name]
        rr == SelectSeq(known, LAMBDA r : r.type \in {q.type, "CNAME"} \/ r.name # q.name)
    IN  IF q.name \in Truncated /\ ~ stream THEN [Answer(q, "ok", <<>>) EXCEPT !.tc = TRUE]
        ELSE Answer(q, IF rr = <<>> THEN "nxdomain" ELSE "ok", rr)

\* Mistake to detect: the answer for the alias replaces the one that has the alias.
dns_res_merge_Last(P0, P1) == P1

\* Both, the second without what the first has.
dns_res_merge(P0, P1) ==
    [P0 EXCEPT !.rr = @ \o SelectSeq(P1.rr, LAMBDA r : r \notin ToSet(P0.rr))]

\* What earlier answers of the chain say of the name: its records, or else its aliases.
dns_res_glue(stack, q) ==
    LET said == FlattenSeq([i \in DOMAIN stack |-> stack[i].answer.rr])
        of(type) == SelectSeq(said, LAMBDA r : r.name = q.name /\ r.type = type)
        rr == IF of(q.type) # <<>> THEN of(q.type) ELSE of("CNAME")
    IN  IF rr = <<>> THEN NoAnswer ELSE Answer(q, "ok", rr)
-----------------------------------------------------------------------------
\* The socket. The query id is given at the first submission and kept at the next ones.
dns_so_submit(r, q, server) ==
    LET id == IF q.qid = 0 THEN r.qids + 1 ELSE q.qid
    IN  [r EXCEPT !.so = [state |-> IF ask.conf.tcp = "only" THEN "TCP_CONN" ELSE "UDP_SEND",
                          query |-> [q EXCEPT !.qid = id], server |-> server, late |-> FALSE],
                  !.qids = IF q.qid = 0 THEN id ELSE @]

dns_so_verify(so, P) == so.query = [qid |-> P.qid, name |-> P.name, type |-> P.type]

\* What the kernel does for this call: in.io is "ready", "blocked" or "fail", in.datagram at
\* most one answer. The outcome is "again", "error" or "done"; did is what was done by it, for
\* the wire and the ghost. Reading what was just sent is left to the next call.
Stay(r, state, outcome) ==
    [r |-> [r EXCEPT !.so.state = state], outcome |-> outcome, answer |-> NoAnswer, did |-> {}]

Did(what, r) == {[what |-> what, server |-> r.so.server, query |-> r.so.query]}
Got(r, state, P) ==
    [Stay(r, state, "done") EXCEPT
       !.answer = P, !.did = IF P.rcode = "nxdomain" THEN Did("denied", r) ELSE {}]

SendUdp(r, in) ==
    IF in.io = "fail" THEN Stay(r, "UDP_SEND", "error")
    ELSE IF in.io = "blocked" THEN Stay(r, "UDP_SEND", "again")
    ELSE [Stay(r, "UDP_RECV", "again") EXCEPT !.did = Did("datagram", r)]

\* A datagram that is not the answer is dropped. A truncated one opens a stream, unless the
\* configuration forbids it; connecting blocks.
ReceiveUdp(r, in) ==
    LET accepted == {P \in in.datagram : dns_so_verify(r.so, P)}
        P == CHOOSE x \in accepted : TRUE
    IN  IF accepted = {} THEN Stay(r, "UDP_RECV", IF in.io = "fail" THEN "error" ELSE "again")
        ELSE IF P.tc /\ ask.conf.tcp # "disable"
          THEN Stay(r, "TCP_CONN", IF in.io = "fail" THEN "error" ELSE "again")
        ELSE Got(r, "UDP_DONE", P)

Stream(r, in) ==
    LET state == r.so.state
    IN  CASE in.io = "fail" -> Stay(r, state, "error")
          [] in.io = "blocked" -> Stay(r, state, "again")
          [] in.io = "ready" /\ state = "TCP_CONN" -> Stay(r, "TCP_SEND", "again")
          [] in.io = "ready" /\ state = "TCP_SEND" ->
               Stay(r, "TCP_RECV", "again")
          [] in.io = "ready" /\ state = "TCP_RECV" ->
               Got(r, "TCP_DONE", ServerAnswer(r.so.server, r.so.query, TRUE))

dns_so_check(r, in) ==
    CASE r.so.state = "UDP_SEND" -> SendUdp(r, in)
      [] r.so.state = "UDP_RECV" -> ReceiveUdp(r, in)
      [] OTHER -> Stream(r, in)
-----------------------------------------------------------------------------
\* dns_res_exec(), one state of the frame F at a time. A step gives the resolver, and how the
\* call ends if it does: "again", "error" or "done".
Depth(r) == Len(r.stack)
Top(r) == r.stack[Depth(r)]
With(r, F) == [r EXCEPT !.stack[Depth(r)] = F]
To(r, F, state) == [r |-> With(r, [F EXCEPT !.state = state]), ret |-> "", did |-> {}]
Recurse(r, F, state, query) ==
    LET waiting == With(r, [F EXCEPT !.state = state])
    IN  [r |-> [waiting EXCEPT !.stack = Append(@, Frame(query))], ret |-> "", did |-> {}]

\* DNS_R_GLUE
InitAndGlue(r, F) ==
    LET glue == dns_res_glue(r.stack, F.query)
        G == [F EXCEPT !.answer = glue]
    IN  IF Depth(r) = 1 \/ glue = NoAnswer THEN To(r, F, "SWITCH")
        ELSE IF Holds(glue, F.query.name, F.query.type) THEN To(r, G, "FINISH")
        ELSE To(r, G, "CNAME0")

\* DNS_R_SWITCH: letters that are no source are passed over.
Switch(r, F) ==
    LET rest == {i \in F.which .. Len(ask.conf.lookup) : ask.conf.lookup[i] \in {"b", "f"}}
        i == Min(rest)
    IN  IF rest = {} THEN To(r, F, "SERVFAIL")
        ELSE To(r, [F EXCEPT !.which = i + 1], IF ask.conf.lookup[i] = "b" THEN "BIND" ELSE "FILE")

\* DNS_R_FILE: the first frame tries every name of the search.
File(r, F) ==
    LET names == IF Depth(r) > 1 THEN <<F.query.name>> ELSE Searched(ask.conf, ask.name)
        found(n) == dns_hosts_query(ask.hosts, n, F.query.type)
        hits == {i \in DOMAIN names : found(names[i]) # <<>>}
        n == names[Min(hits)]
        rr == [i \in DOMAIN found(n) |-> [name |-> n, type |-> F.query.type, data |-> found(n)[i]]]
    IN  IF hits = {} THEN To(r, [F EXCEPT !.answer = NoAnswer], "SWITCH")
        ELSE To(r, [F EXCEPT !.answer = Answer(Question(n, F.query.type), "ok", rr)], "FINISH")

\* DNS_R_BIND
Bind(r, F) ==
    IF Depth(r) > 1 THEN To(r, F, "HINTS")
    ELSE To([r EXCEPT !.search = SearchStart], F, "SEARCH")

\* DNS_R_SEARCH: the name of the whole query, whatever the frame.
Search(r, F) ==
    LET s == dns_resconf_search(ask.conf, ask.name, r.search)
        u == [r EXCEPT !.search = s.st]
    IN  IF s.host = <<>> THEN To(u, F, "SWITCH")
        ELSE To(u, [F EXCEPT !.query = Question(s.host, ask.type)], "HINTS")

\* DNS_R_HINTS and DNS_R_ITERATE: every server again.
Hints(r, F, in) == To(r, [F EXCEPT !.servers = in.order, !.next = 1], "FOREACH_A")

\* Mistake to detect: rounds are not counted.
ForeachNs_Uncounted(r, F) == To(r, [F EXCEPT !.next = 1], "FOREACH_A")

\* DNS_R_FOREACH_NS: the hints are one server host, whose addresses have been tried.
ForeachNs(r, F) ==
    LET G == [F EXCEPT !.attempts = @ + 1, !.next = 1]
    IN  To(r, G, IF G.attempts < ask.conf.attempts THEN "FOREACH_A" ELSE "SWITCH")

\* Mistake to detect: a server that is late ends the round.
ForeachA_First(r, F) ==
    LET u == dns_so_submit(r, F.query, F.servers[F.next])
    IN  IF F.next > 1 THEN To(r, F, "FOREACH_NS")
        ELSE [To(u, [F EXCEPT !.next = @ + 1, !.query = u.so.query], "QUERY_A") EXCEPT
                !.did = Did("submitted", u)]

\* DNS_R_FOREACH_A
ForeachA(r, F) ==
    LET u == dns_so_submit(r, F.query, F.servers[F.next])
    IN  IF F.next > Len(F.servers) THEN To(r, F, "FOREACH_NS")
        ELSE [To(u, [F EXCEPT !.next = @ + 1, !.query = u.so.query], "QUERY_A") EXCEPT
                !.did = Did("submitted", u)]

\* What is made of an answer: found, an alias, or the next name of the search.
Judge(r, F) ==
    To(r, F, IF Holds(F.answer, F.query.name, F.query.type) THEN "FINISH"
             ELSE IF Holds(F.answer, F.query.name, "CNAME") THEN "CNAME0" ELSE "SEARCH")

\* DNS_R_QUERY_A
QueryA(r, F, in) ==
    LET c == dns_so_check(r, in)
    IN  IF r.so.late THEN To(r, F, "FOREACH_A")
        ELSE IF c.outcome = "done" THEN [Judge(c.r, [F EXCEPT !.answer = c.answer]) EXCEPT !.did = c.did]
        ELSE [r |-> c.r, ret |-> c.outcome, did |-> c.did]

\* DNS_R_CNAME0_A: the first alias of the name, in a frame of its own if there is one left.
Cname0(r, F) ==
    LET alias == SelectSeq(F.answer.rr, LAMBDA x : x.name = F.query.name /\ x.type = "CNAME")[1]
    IN  IF Depth(r) = MaxDepth THEN To(r, F, "FINISH")
        ELSE Recurse(r, F, "CNAME1", Question(alias.data, F.query.type))

\* DNS_R_FINISH, DNS_R_DONE: the frame below takes the answer.
Finish(r, F) ==
    IF Depth(r) = 1 THEN [r |-> [r EXCEPT !.answer = F.answer], ret |-> "done", did |-> {}]
    ELSE LET below == r.stack[Depth(r) - 1]
             merged == [below EXCEPT !.answer = dns_res_merge(@, F.answer), !.state = "FINISH"]
         IN  [r |-> [r EXCEPT !.stack = Append(SubSeq(@, 1, Depth(r) - 2), merged)],
              ret |-> "", did |-> {}]

\* DNS_R_SERVFAIL
Servfail(r, F) ==
    To(r, [F EXCEPT !.answer = Answer(Question(ask.name, ask.type), "servfail", <<>>)], "FINISH")

Step(r, in) ==
    LET F == Top(r)
    IN  CASE F.state = "GLUE" -> InitAndGlue(r, F)
          [] F.state = "SWITCH" -> Switch(r, F)
          [] F.state = "FILE" -> File(r, F)
          [] F.state = "BIND" -> Bind(r, F)
          [] F.state = "SEARCH" -> Search(r, F)
          [] F.state = "HINTS" -> Hints(r, F, in)
          [] F.state = "FOREACH_NS" -> ForeachNs(r, F)
          [] F.state = "FOREACH_A" -> ForeachA(r, F)
          [] F.state = "QUERY_A" -> QueryA(r, F, in)
          [] F.state = "CNAME0" -> Cname0(r, F)
          [] F.state = "FINISH" -> Finish(r, F)
          [] F.state = "SERVFAIL" -> Servfail(r, F)

\* Runs until the call ends. A datagram is read once, and what this call submits is not late
\* in it.
RECURSIVE dns_res_exec(_, _)
dns_res_exec(r, in) ==
    LET s == Step(r, in)
        checked == Top(r).state = "QUERY_A" /\ ~ r.so.late
        rest == IF checked THEN [in EXCEPT !.datagram = {}, !.io = "ready"] ELSE in
    IN  IF s.ret # "" THEN s
        ELSE LET t == dns_res_exec(s.r, rest) IN [t EXCEPT !.did = @ \union s.did]
-----------------------------------------------------------------------------
\* dns_res_check(), when the socket is ready or a second has passed. A datagram that was sent
\* to another server, for an earlier submission, is read as well: the socket is not connected.
Check ==
    \E late \in BOOLEAN, io \in {"ready", "blocked", "fail"},
       datagram \in {{}} \union {{P} : P \in wire}, order \in dns_hints_query(ask.conf) :
       LET in == [datagram |-> datagram, io |-> io, order |-> order]
           s == dns_res_exec([res EXCEPT !.so.late = late], in)
           did(what) == {d \in s.did : d.what = what}
       IN  /\ res.over = ""
           /\ late => Top(res).state = "QUERY_A"
           /\ datagram # {} => Top(res).state = "QUERY_A" /\ ~ late /\ res.so.state = "UDP_RECV"
           /\ res' = [s.r EXCEPT !.so.late = FALSE, !.over = IF s.ret = "again" THEN "" ELSE s.ret]
           /\ wire' = (wire \ datagram)
                         \union {ServerAnswer(d.server, d.query, FALSE) : d \in did("datagram")}
           /\ asked' = asked \union {<<d.server, d.query.name>> : d \in did("submitted")}
                              \union {<<Denied, d.query.name>> : d \in did("denied")}
           /\ UNCHANGED ask

QueryNext == Check

\* A query that waits is woken up every second (simple_resolver_context), so its server is
\* late in the end.
QueryFairness == []<>(res.over # "") \/ []<><<res' # res>>_queryVars
-----------------------------------------------------------------------------
\* The resolver answers a query it put to the network with a failure only after the last name it
\* tried was denied by a server or asked of all of them. Excepted is a query that ends on an
\* error of the socket (dns_res_exec(), dns.c 6997-6998): it has no answer, and the servers
\* after the one whose socket failed are not asked.
AskedBeforeGivingUp ==
    res.over = "done" /\ res.answer.rcode = "servfail"
      /\ "b" \in ToSet(ask.conf.lookup) /\ Searched(ask.conf, ask.name) # <<>> =>
      LET n == Top(res).query.name
      IN  \/ <<Denied, n>> \in asked
          \/ \A a \in ToSet(ask.conf.nameserver) : <<a, n>> \in asked

\* A record of the type asked is owned by a name of the search, or by one that aliases in the
\* same answer lead to.
AnswersTheQuestion ==
    LET rr == ToSet(res.answer.rr)
        aliases(S) == S \union {x.data : x \in {y \in rr : y.type = "CNAME" /\ y.name \in S}}
        reach[n \in Nat] == IF n = 0 THEN ToSet(Searched(ask.conf, ask.name))
                            ELSE aliases(reach[n - 1])
    IN  /\ Depth(res) <= MaxDepth
        /\ res.over = "done" /\ res.answer.rcode # "servfail" => rr # {}
        /\ \A x \in rr : x.type = ask.type /\ res.over = "done" =>
              \E n \in reach[MaxDepth] : n = x.name

\* A query ends, whatever is lost, late or refers to itself.
QueryEnds == (res.over = "") ~> (res.over # "")
=============================================================================
