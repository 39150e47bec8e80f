------------------------------ MODULE Messages ------------------------------
(***************************************************************************)
(* Messages as containers of headers, the requests and the responses made  *)
(* of them, and the address rewriting (Via, Contact) that lets a response  *)
(* find its way back and a peer behind a NAT be reached: message.c, the    *)
(* channel's fix_incoming_via() and learn_public_ip_port(), the provider's *)
(* channel_on_sending().                                                   *)
(*                                                                         *)
(* A message is [kind, method, status, headers]; headers is a sequence of  *)
(* containers [name, list], one per header name, and a header is           *)
(* [name, value].                                                          *)
(***************************************************************************)
EXTENDS Integers, Sequences, SequencesExt, FiniteSets

NoPort == 0
NoHost == "none"
NotAsked == -2      \* no rport parameter in the Via
Asked == -1         \* an rport parameter without a value

\* belle_sip_listening_point_get_well_known_port()
well_known_port(transport) == IF transport = "tls" THEN 5061 ELSE 5060

(***************************************************************************)
(* Containers.                                                             *)
(***************************************************************************)
Where(m, name) == {i \in DOMAIN m.headers : m.headers[i].name = name}

\* The first container of that name: strcasecmp() on the container's name.
headers_container_get(m, name) == CHOOSE i \in Where(m, name) : \A j \in Where(m, name) : i <= j

get_or_create_container(m, name) ==
    IF Where(m, name) # {} THEN m
    ELSE [m EXCEPT !.headers = Append(@, [name |-> name, list |-> <<>>])]

Change(m, name, Op(_)) ==
    LET n == get_or_create_container(m, name)
    IN  [n EXCEPT !.headers[headers_container_get(n, name)].list = Op(@)]

add_first(m, h) == Change(m, h.name, LAMBDA l : <<h>> \o l)
add_header(m, h) == Change(m, h.name, LAMBDA l : Append(l, h))
add_headers(m, hs) == IF hs = <<>> THEN m ELSE Change(m, Head(hs).name, LAMBDA l : l \o hs)

get_headers(m, name) ==
    IF Where(m, name) = {} THEN <<>> ELSE m.headers[headers_container_get(m, name)].list

\* belle_sip_list_remove() returns the new head of the list, which the code
\* drops: when the container is the first one header_list keeps the freed node.
remove_header(m, name) ==
    IF Where(m, name) = {} THEN m
    ELSE LET i == headers_container_get(m, name)
         IN  [m EXCEPT !.headers = IF i = 1 THEN <<[name |-> "freed", list |-> <<>>]>>
                                   ELSE RemoveAt(@, i)]

\* belle_sip_message_clone(), into obj: empty containers are not copied.
message_clone(obj, m) == FoldLeft(LAMBDA n, c : add_headers(n, c.list), obj, m.headers)

(***************************************************************************)
(* Requests.                                                               *)
(***************************************************************************)
\* Header names a URI may not bring into a request.
unauthorized_uri_headers ==
    {"From", "Call-ID", "CSeq", "Via", "Record-Route", "Accept", "Accept-Encoding",
     "Accept-Language", "Allow", "Contact", "Organization", "Supported", "User-Agent"}

request_create(method, via, to, uriHeaders) ==
    LET new == [kind |-> "request", method |-> method, status |-> 0, headers |-> <<>>]
        base == <<via, [name |-> "From", value |-> "from"]>> \o to \o
                <<[name |-> "CSeq", value |-> method], [name |-> "Call-ID", value |-> "id"],
                  [name |-> "Max-Forwards", value |-> "70"]>>
        fromUri == SelectSeq(uriHeaders, LAMBDA h : h.name \notin unauthorized_uri_headers)
    IN  FoldLeft(add_header, new, base \o fromUri)

mandatory_headers(method) ==
    (IF method = "INVITE" THEN {"Contact"} ELSE {}) \cup
    (IF method \in {"REGISTER", "INVITE", "CANCEL", "BYE", "ACK"}
     THEN {"Call-ID", "CSeq", "From", "Max-Forwards", "To", "Via"}
     ELSE {"To", "From", "CSeq", "Via"})

check_headers(m) ==
    m.kind = "request" =>
        \A name \in mandatory_headers(m.method) : get_headers(m, name) # <<>>

\* The components a URI must (m), may not (na) have, by its context.
uri_component_use(method, name) ==
    CASE name = "request"                             -> [m |-> {"host"}, na |-> {"headers"}]
      [] name \in {"From", "To"}                      ->
           [m |-> {"host"},
            na |-> {"port", "maddr", "ttl", "transport", "lr", "headers"}]
      [] name = "Contact" /\ method = "REGISTER"      -> [m |-> {}, na |-> {"lr"}]
      [] name \in {"Contact", "Record-Route", "Route"} ->
           [m |-> {}, na |-> {"ttl", "headers"}]
      [] OTHER                                        -> [m |-> {"host"}, na |-> {}]

check_uri_components(set, use) == use.m \subseteq set /\ use.na \cap set = {}

\* request_create() has taken the headers off the request URI; the stack gives
\* the Contact its URI.
request_check_uris_components(method, uriOf) ==
    \A name \in {"request", "To"} :
        check_uri_components(uriOf[name], uri_component_use(method, name))

(***************************************************************************)
(* Via and Contact.  A Via's value is [host, port, transport, rport,       *)
(* received]; a Contact's [automatic, host, port, transport].  The channel *)
(* a message is sent on is [local, public, transport, learnt].             *)
(***************************************************************************)
listening_port(via) == IF via.port = NoPort THEN well_known_port(via.transport) ELSE via.port

OnTop(m, v) ==
    [m EXCEPT !.headers[headers_container_get(m, "Via")].list[1].value = v]

Via(m) == Head(get_headers(m, "Via")).value

\* The provider asks for rport unless told otherwise.
fix_outgoing_via(m, chan, askRport) ==
    OnTop(m, [Via(m) EXCEPT !.host = chan.local.host, !.port = chan.local.port,
                            !.transport = chan.transport,
                            !.rport = IF askRport THEN Asked ELSE @])

fix_contact_on_sending(c, chan, natHelper) ==
    LET ip == IF natHelper /\ chan.learnt THEN chan.public ELSE chan.local
    IN  IF ~ (c.automatic \/ c.host = NoHost) THEN c
        ELSE [automatic |-> TRUE, host |-> ip.host,
              port |-> IF ip.port = well_known_port(chan.transport) THEN NoPort ELSE ip.port,
              transport |-> IF chan.transport = "udp" THEN "udp" ELSE chan.transport]

channel_on_sending(m, chan, askRport, natHelper) ==
    LET m1 == IF m.kind = "request" THEN fix_outgoing_via(m, chan, askRport) ELSE m
        m2 == IF Where(m1, "Contact") = {} THEN m1
              ELSE Change(m1, "Contact", LAMBDA l :
                     [i \in DOMAIN l |->
                        [l[i] EXCEPT !.value = fix_contact_on_sending(@, chan, natHelper)]])
    IN  IF get_headers(m2, "Content-Length") # <<>> \/ chan.transport = "udp" THEN m2
        ELSE add_header(m2, [name |-> "Content-Length", value |-> "0"])

\* Mutant: the source port is only looked at when the host is another.
fix_incoming_via_HostOnly(m, origin) ==
    IF Via(m).host = origin.host THEN m
    ELSE OnTop(m, [Via(m) EXCEPT !.received = origin.host])

\* On the side that receives the request.
fix_incoming_via(m, origin) ==
    LET v == Via(m)
        received == IF v.host # origin.host THEN origin.host ELSE v.received
        rport == IF v.rport # NotAsked /\ origin.port # listening_port(v) THEN origin.port
                 ELSE v.rport
    IN  OnTop(m, [v EXCEPT !.received = received, !.rport = rport])

Seen(v) == [host |-> IF v.received # NoHost THEN v.received ELSE v.host,
            port |-> IF v.rport > 0 THEN v.rport ELSE listening_port(v)]

response_get_return_hop(m) == Seen(Via(m))

\* On the side that gets the response.
learn_public_ip_port(chan, m) == [chan EXCEPT !.public = Seen(Via(m)), !.learnt = TRUE]

\* belle_sip_response_fix_contact(): the sum tells a missing port from 5060.
response_fix_contact(m, c) ==
    LET v == Via(m)
        host == IF v.received # NoHost THEN v.received ELSE v.host
        from == IF v.rport > 0 THEN v.rport ELSE v.port
    IN  [c EXCEPT !.host = host,
                  !.port = IF from + @ # 5060 THEN from ELSE @,
                  !.transport = v.transport]

ContactAddress(c) ==
    [host |-> c.host, port |-> IF c.port = NoPort THEN well_known_port(c.transport) ELSE c.port]

(***************************************************************************)
(* Responses.                                                              *)
(***************************************************************************)
First(m, name) ==
    IF get_headers(m, name) = <<>> THEN <<>> ELSE <<Head(get_headers(m, name))>>

response_create_from_request(m, status) ==
    LET new == [kind |-> "response", method |-> m.method, status |-> status, headers |-> <<>>]
        stamp == IF status = 100 THEN First(m, "Timestamp") ELSE <<>>
        rest == First(m, "From") \o First(m, "To") \o First(m, "Call-ID") \o First(m, "CSeq")
    IN  FoldLeft(add_header,
                 add_headers(FoldLeft(add_header, new, stamp), get_headers(m, "Via")), rest)

\* Mutant: the routes a first call has put are kept.
response_fill_for_dialog_Again(r, m) == add_headers(r, get_headers(m, "Record-Route"))

response_fill_for_dialog(r, m) ==
    LET bare == add_headers(remove_header(r, "Record-Route"), get_headers(m, "Record-Route"))
    IN  IF /\ r.status \in 200 .. 299
           /\ get_headers(r, "Contact") = <<>>
           /\ m.method \in {"INVITE", "SUBSCRIBE"}
        THEN add_header(bare, [name |-> "Contact",
                               value |-> [automatic |-> FALSE, host |-> NoHost, port |-> NoPort,
                                          transport |-> "udp"]])
        ELSE bare

\* belle_sip_object_clone() of a response: its status code is not copied.
response_clone(r) == message_clone([r EXCEPT !.status = 0, !.headers = <<>>], r)

-----------------------------------------------------------------------------
CONSTANTS
    Methods,        \* methods of the requests that are sent
    Transports,     \* transports of the client's channel
    LocalPorts,     \* ports the client may be bound to
    NatPorts,       \* ports a NAT may give to the client's packets
    MaxProxies,     \* proxies on the path
    MaxFills        \* times the dialog and the transaction fill a response in

VARIABLES
    step,     \* where the request is on its way
    chan,     \* the client's channel
    seenAs,   \* the address the client's packets come from
    opts,     \* [askRport, natHelper]: the provider's settings
    req,      \* the request as the server has it
    resp,     \* the response
    sent,     \* the request as the client sent it
    hop,      \* where the response is sent first
    fixed     \* the Contact the client's refresher looks for in the response

messageVars == <<step, chan, seenAs, opts, req, resp, sent, hop, fixed>>

None == [kind |-> "none", method |-> "", status |-> 0, headers |-> <<>>]
Nowhere == [host |-> NoHost, port |-> NoPort]

MessageInit ==
    /\ step = "idle"
    /\ \E t \in Transports, p \in LocalPorts :
         chan = [local |-> [host |-> "private", port |-> p], public |-> Nowhere,
                 transport |-> t, learnt |-> FALSE]
    /\ seenAs \in {chan.local} \cup {[host |-> "public", port |-> p] : p \in NatPorts}
    /\ opts \in [askRport : BOOLEAN, natHelper : BOOLEAN]
    /\ req = None /\ resp = None /\ sent = None /\ hop = Nowhere /\ fixed = NoHost

\* The application makes a request, with a Contact to be filled in by the
\* stack, and the channel sends it.
Send(method, uriHeaders, toUri) ==
    LET via == [name |-> "Via",
                value |-> [host |-> NoHost, port |-> NoPort, transport |-> "udp",
                           rport |-> NotAsked, received |-> NoHost]]
        contact == [name |-> "Contact",
                    value |-> [automatic |-> TRUE, host |-> NoHost, port |-> NoPort,
                               transport |-> "udp"]]
        m == request_create(method, via, <<[name |-> "To", value |-> "to"]>>, uriHeaders)
    IN  /\ step \in {"idle", "answered"}
        /\ step = "answered" => hop # Nowhere
        /\ request_check_uris_components(method, [request |-> {"host"}, To |-> toUri])
        /\ LET out == channel_on_sending(add_header(m, contact), chan, opts.askRport,
                                         opts.natHelper)
           IN  sent' = out /\ req' = out
        /\ step' = "sent"
        /\ UNCHANGED <<chan, seenAs, opts, resp, hop, fixed>>

\* A proxy (external) receives the request and passes it on with its own Via
\* and Record-Route on top.
Proxy ==
    /\ step \in {"sent", "forwarded"}
    /\ Len(get_headers(req, "Via")) <= MaxProxies
    /\ LET in == IF step = "sent" THEN fix_incoming_via(req, seenAs) ELSE req
           n == Len(get_headers(in, "Via"))
           via == [host |-> ToString(n), port |-> 5060, transport |-> "udp",
                   rport |-> NotAsked, received |-> NoHost]
       IN  req' = add_first(add_first(in, [name |-> "Via", value |-> via]),
                            [name |-> "Record-Route", value |-> n])
    /\ step' = "forwarded"
    /\ UNCHANGED <<chan, seenAs, opts, resp, sent, hop, fixed>>

\* The server's channel has read the request.
Receive ==
    /\ step \in {"sent", "forwarded"}
    /\ req' = IF step = "sent" THEN fix_incoming_via(req, seenAs)
              ELSE fix_incoming_via(req, [host |-> Via(req).host, port |-> 5060])
    /\ step' = "received"
    /\ UNCHANGED <<chan, seenAs, opts, resp, sent, hop, fixed>>

\* The server answers; the dialog and the transaction both fill a response in.
Answer(status, fills) ==
    /\ step = "received"
    /\ check_headers(req)
    /\ LET r0 == response_create_from_request(req, status)
           r == FoldLeft(LAMBDA x, i : response_fill_for_dialog(x, req), r0,
                         [i \in 1 .. fills |-> i])
       IN  resp' = r /\ hop' = response_get_return_hop(r)
    /\ step' = "answering"
    /\ UNCHANGED <<chan, seenAs, opts, req, sent, fixed>>

\* Every proxy (external) takes its Via off; the client's channel reads the
\* response and its refresher works out the Contact to look for.
GetResponse ==
    /\ step = "answering"
    /\ LET atClient == [resp EXCEPT
             !.headers[headers_container_get(resp, "Via")].list = <<Last(@)>>]
       IN  /\ chan' = learn_public_ip_port(chan, atClient)
           /\ fixed' = response_fix_contact(atClient, Head(get_headers(sent, "Contact")).value)
           /\ resp' = atClient
    /\ step' = "answered"
    /\ UNCHANGED <<seenAs, opts, req, sent, hop>>

MessageNext ==
    \/ \E m \in Methods, hs \in {<<[name |-> "Subject", value |-> "s"]>>,
                                 <<[name |-> "Via", value |-> "x"]>>},
         to \in {{"host"}, {"host", "lr"}} : Send(m, hs, to)
    \/ Proxy
    \/ Receive
    \/ \E s \in {100, 180, 200}, f \in 0 .. MaxFills : Answer(s, f)
    \/ GetResponse

-----------------------------------------------------------------------------
(***************************************************************************)
(* Properties                                                              *)
(***************************************************************************)
\* A response carries the Vias of its request and, once filled in for a
\* dialog, its Record-Routes, each once and in the order of the request
\* ("MUST maintain the order of those values"), however often it is filled
\* in, and a copy of it has the same headers (not its status code:
\* belle_sip_response_clone(), message.c 591-594).
ResponseMatches ==
    step = "answering" =>
        \A r \in {resp, response_clone(resp)} :
            /\ get_headers(r, "Via") = get_headers(req, "Via")
            /\ get_headers(r, "Record-Route") \in {<<>>, get_headers(req, "Record-Route")}
            /\ \A n \in {"From", "To", "Call-ID", "CSeq"} :
                 get_headers(r, n) = get_headers(req, n)

\* When the client asks for it (rport), the response to its request comes
\* back to the address its packets come from, it learns that address, the
\* Contact it then looks for names it and so does the Contact of its next
\* request when the NAT helper is on.
ReachableBack ==
    opts.askRport =>
        /\ step = "answering" /\ Len(get_headers(resp, "Via")) = 1 => hop = seenAs
        /\ step = "answered" => chan.public = seenAs /\ ContactAddress(fixed) = seenAs
        /\ step = "sent" /\ chan.learnt /\ opts.natHelper =>
             ContactAddress(Head(get_headers(sent, "Contact")).value) = seenAs
=============================================================================
