----------------------------- MODULE HttpProvider -----------------------------
(***************************************************************************)
(* The HTTP provider (http-provider.c, http-message.c): requests to one    *)
(* site, sent one behind the other over a connection and matched to their  *)
(* responses by order only; authentication, connections that fail or are   *)
(* closed, and requests the application cancels. What recv() gives may     *)
(* hold several responses: the application is called for each, and may     *)
(* send and cancel requests between them.                                  *)
(*                                                                         *)
(* A send() takes a request whole or fails: what else it may do is the     *)
(* subject of ChannelOutput. The name of the site has one address, and a   *)
(* channel does not get inactive.                                          *)
(***************************************************************************)
EXTENDS Integers, Sequences, FiniteSets, SequencesExt, Digest

CONSTANTS
    HttpPaths,      \* the paths of the requests, in the order in which they are first sent
    HttpSettings,   \* what the site and the application may be, see Setting
    MaxHttpChannels,\* bound on the channels that are made
    MaxStale,       \* bound on the nonces a site calls stale
    CancelsRemoved  \* whether a request is cancelled when its channel is no more in the list

\* The password is in the URI, or the listener gives it or its ha1, or a wrong one, or nothing.
Knowledge == {"uri", "passwd", "ha1", "wrong", "nothing"}

\* A site that asks for credentials or not, with its scheme and qop, and what the application knows.
Setting(protected, scheme, qop, known) ==
    [site |-> [protected |-> protected, scheme |-> scheme, qop |-> qop], knows |-> known]

\* split_request_url() gives a path to a request without one.
ASSUME HttpAssumption ==
    /\ \A r \in DOMAIN HttpPaths : HttpPaths[r] # Null
    /\ \A x \in HttpSettings : x.knows \in Knowledge
    /\ MaxStale \in Nat
    /\ MaxHttpChannels \in Nat \ {0} /\ CancelsRemoved \in BOOLEAN

HttpRequests == DOMAIN HttpPaths
HttpChannels == 1..MaxHttpChannels
NoChannel == 0
HttpUser == "user"
Password == "secret"
Realm == "realm"
Method == "POST"

VARIABLES
    site,          \* external: whether it asks for credentials, and how
    stale,         \* external: the nonces it called stale
    knows,         \* what the application knows
    hreq,          \* the requests
    hchan,         \* the channels, each with its context and what is under way to and from the site
    tcp_channels,  \* the provider's list of channels
    reading        \* the channel whose responses are being handled, or NoChannel

httpVars == <<site, stale, knows, hreq, hchan, tcp_channels, reading>>

\* of a request: split: orig_uri is set and the request URI is a path; hosts: its Host headers;
\* answers: the responses the application was told; errors: the I/O errors
NewRequest ==
    [sent |-> FALSE, cancelled |-> FALSE, auth_attempt_count |-> 0, channel |-> NoChannel,
     split |-> FALSE, hosts |-> 0, answers |-> <<>>, errors |-> 0,
     auth |-> create_authorization([scheme |-> Null, realm |-> Null, nonce |-> 0])]

\* of a channel: wire: the requests that reached the site and are not answered;
\* notified: whether the call of channel_invoke_state_listener_defered() is still to come
NewChannelOf ==
    [state |-> "INIT", outgoing |-> <<>>, pending |-> <<>>, wire |-> <<>>, ref |-> 1,
     about_to_be_closed |-> FALSE, force_close |-> FALSE, notified |-> TRUE]

NoSuchChannel == [NewChannelOf EXCEPT !.state = "none", !.ref = 0]
Gone == [NewChannelOf EXCEPT !.state = "destroyed", !.ref = 0]

\* A state of the provider, which the operators below change.
Now == [req |-> hreq, ch |-> hchan, list |-> tcp_channels]

Becomes(s) == hreq' = s.req /\ hchan' = s.ch /\ tcp_channels' = s.list

\* The last reference takes the queue, the context and the channel of the requests with it.
ChannelUnref(s, c) ==
    CASE s.ch[c].ref > 1 -> [s EXCEPT !.ch[c].ref = @ - 1]
      [] s.ch[c].ref = 1 ->
           [s EXCEPT !.ch[c] = Gone,
                     !.req = [r \in HttpRequests |->
                                IF s.req[r].channel = c THEN [s.req[r] EXCEPT !.channel = NoChannel]
                                ELSE s.req[r]]]
      [] OTHER -> s
-----------------------------------------------------------------------------
\* Sending.

\* Mistake to detect: a request is put in front of those that wait for their responses.
http_channel_on_sending_InFront(pending, tried) == Reverse(tried) \o pending

\* channel_on_sending() of one message after the other
http_channel_on_sending(pending, tried) == pending \o tried

\* channel_set_state(ERROR): the listeners are told later.
Failing(x) == [x EXCEPT !.state = "ERROR", !.ref = @ + 1, !.notified = FALSE]

SetError(s, c) == [s EXCEPT !.ch[c] = Failing(s.ch[c])]

OnWire(s, r) ==
    LET q == s.req[r] IN [of |-> r, auth |-> q.auth, split |-> q.split, hosts |-> q.hosts]

\* channel_process_queue() when n messages go out: if there is another its send() fails, and
\* the one behind it is taken from the queue and given up.
process_queue(s, c, n) ==
    LET out == s.ch[c].outgoing
        fails == n < Len(out)
        tried == SubSeq(out, 1, IF fails THEN n + 1 ELSE n)
        x == [s.ch[c] EXCEPT !.outgoing = SubSeq(out, n + 3, Len(out)),
                             !.pending = http_channel_on_sending(@, tried),
                             !.wire = @ \o [i \in 1..n |-> OnWire(s, out[i])]]
        t == [s EXCEPT !.ch[c] = x]
    IN  IF fails THEN SetError(t, c) ELSE t

\* split_request_url()
split_request_url(q) ==
    IF q.split THEN q ELSE [q EXCEPT !.split = TRUE, !.hosts = @ + 1]

\* belle_sip_channel_find_from_list() does not look at the state of the channels.
Usable(s) == {i \in DOMAIN s.list : ~ s.ch[s.list[i]].about_to_be_closed}
FreeChannels(s) == {c \in HttpChannels : s.ch[c].state = "none"}

\* The channel of a new request, and the state in which it is in the list.
ChannelFor(s) ==
    IF Usable(s) # {} THEN s.list[Min(Usable(s))] ELSE Min(FreeChannels(s))

WithChannel(s) ==
    IF Usable(s) # {} THEN s
    ELSE [s EXCEPT !.ch[ChannelFor(s)] = NewChannelOf, !.list = <<ChannelFor(s)>> \o @]

CanSend(s) == Usable(s) # {} \/ FreeChannels(s) # {}

\* belle_http_provider_send_request(); the send() of a channel that is READY succeeds or not.
send_request(s, r, succeeds) ==
    LET c == ChannelFor(s)
        q == [split_request_url(s.req[r]) EXCEPT !.channel = c, !.sent = TRUE]
        t == [WithChannel(s) EXCEPT !.req[r] = q, !.ch[c].outgoing = Append(@, r)]
    IN  IF t.ch[c].state # "READY" THEN t
        ELSE process_queue(t, c, IF succeeds THEN Len(t.ch[c].outgoing) ELSE 0)

SendHttpRequest(r) ==
    /\ ~ hreq[r].sent /\ (r > 1 => hreq[r - 1].sent) /\ CanSend(Now)
    /\ \E succeeds \in BOOLEAN : Becomes(send_request(Now, r, succeeds))
    /\ UNCHANGED <<site, stale, knows, reading>>
-----------------------------------------------------------------------------
\* Responses.
\* The ha1 the application has, directly or by its password; Null if none.
Ha1(realm) ==
    CASE knows \in {"uri", "passwd", "ha1"} -> compute_ha1(HttpUser, realm, Password)
      [] knows = "wrong" -> compute_ha1(HttpUser, realm, "guess")
      [] knows = "nothing" -> <<>>

Credential(challenge, r) ==
    [create_authorization(challenge) EXCEPT !.qop = challenge.qop, !.nonce_count = 1,
                                            !.username = HttpUser, !.uri = HttpPaths[r]]

\* http_channel_context_handle_authentication(): the request is sent again, or -1.
TriedEnough(q) == q.auth_attempt_count > 1

CanAuthenticate(q, challenge, r) ==
    /\ ~ TriedEnough(q)
    /\ challenge.scheme = "Digest"
    /\ Ha1(challenge.realm) # <<>>
    /\ CanFill(Credential(challenge, r))

\* The count of attempts, when the request is not sent again.
GivenUp(q, challenge) ==
    [q EXCEPT !.auth_attempt_count =
        IF TriedEnough(q) THEN 0
        ELSE IF challenge.scheme = "Digest" /\ Ha1(challenge.realm) # <<>> THEN @ + 1 ELSE @]

Resubmitted(s, r, challenge, succeeds) ==
    LET a == fill_authorization(Credential(challenge, r), Method, Ha1(challenge.realm))
        q == [s.req[r] EXCEPT !.auth_attempt_count = @ + 1, !.auth = a]
    IN  send_request([s EXCEPT !.req[r] = q], r, succeeds)

\* http_channel_context_handle_response(): the request that has waited longest has its
\* response, the answer of the site to request of.
handle_response(s, c, of, code, challenge, close, succeeds) ==
    LET r == Head(s.ch[c].pending)
        popped == [s EXCEPT !.ch[c].pending = Tail(@)]
        t == [popped EXCEPT !.ch[c].about_to_be_closed = @ \/ close]
        tell(u) == [u EXCEPT !.req[r].answers = Append(@, [of |-> of, code |-> code])]
    IN  CASE s.ch[c].pending = <<>> -> s
          [] s.ch[c].pending # <<>> /\ s.req[r].cancelled -> popped
          [] s.ch[c].pending # <<>> /\ ~ s.req[r].cancelled /\ code # 401 -> tell(t)
          [] s.ch[c].pending # <<>> /\ ~ s.req[r].cancelled /\ code = 401 ->
               IF CanAuthenticate(s.req[r], challenge, r)
               THEN Resubmitted(t, r, challenge, succeeds)
               ELSE tell([t EXCEPT !.req[r] = GivenUp(t.req[r], challenge)])

\* External: the site answers the first request, with 401 when it asks for credentials and has
\* none that verify, or calls their nonce stale.
\* More of its answers may come with it; they are handled whatever becomes of the channel, which
\* the main loop keeps meanwhile.
Answers(asked, code) ==
    LET verified == Verifies(asked.auth, Method, HttpPaths[asked.of], HttpUser, Password)
    IN  /\ code = 200 => ~ site.protected \/ verified
        /\ code = 401 => site.protected
        /\ (code = 401 /\ verified) => stale < MaxStale
        /\ stale' = IF code = 401 /\ verified THEN stale + 1 ELSE stale

Respond(c) ==
    /\ reading = c \/ (reading = NoChannel /\ hchan[c].state = "READY")
    /\ hchan[c].wire # <<>>
    /\ LET asked == Head(hchan[c].wire)
           x == [hchan[c] EXCEPT !.wire = Tail(@), !.ref = IF reading = c THEN @ ELSE @ + 1]
           s == [Now EXCEPT !.ch[c] = x]
           challenge == [scheme |-> site.scheme, realm |-> Realm, qop |-> site.qop,
                         nonce |-> asked.auth.nonce + 1]
       IN  \E code \in {200, 401}, close, succeeds, more \in BOOLEAN :
             LET t == handle_response(s, c, asked.of, code, challenge, close, succeeds)
             IN  /\ Answers(asked, code)
                 /\ code = 401 => (Usable(s) # {} /\ ~ close) \/ FreeChannels(s) # {}
                 /\ more => s.ch[c].wire # <<>>
                 /\ reading' = IF more THEN c ELSE NoChannel
                 /\ Becomes(IF more THEN t ELSE ChannelUnref(t, c))
    /\ UNCHANGED <<site, knows>>
-----------------------------------------------------------------------------
\* Connections.

\* The first place is removed.
belle_sip_list_remove(list, c) ==
    LET places == {i \in DOMAIN list : list[i] = c}
    IN  IF places = {} THEN list ELSE RemoveAt(list, Min(places))

\* provider_remove_channel()
provider_remove_channel(s, c) ==
    ChannelUnref([s EXCEPT !.list = belle_sip_list_remove(@, c)], c)

\* http_channel_context_handle_io_error(): the requests that wait for responses are told, or
\* if there are none those that were not sent.
handle_io_error(s, c) ==
    LET told == IF s.ch[c].pending = <<>> THEN s.ch[c].outgoing ELSE s.ch[c].pending
    IN  [s EXCEPT !.req = [r \in HttpRequests |->
                             IF r \in Range(told) THEN [s.req[r] EXCEPT !.errors = @ + 1]
                             ELSE s.req[r]]]

\* channel_state_changed()
channel_state_changed(s, c) ==
    LET t == IF s.ch[c].state = "ERROR" THEN handle_io_error(s, c) ELSE s
    IN  IF t.ch[c].force_close THEN t ELSE provider_remove_channel(t, c)

HttpConnected(c) ==
    /\ reading = NoChannel /\ hchan[c].state = "INIT"
    /\ \E n \in 0 .. Len(hchan[c].outgoing) :
         Becomes(process_queue([Now EXCEPT !.ch[c].state = "READY"], c, n))
    /\ UNCHANGED <<site, stale, knows, reading>>

\* The name is not found, the connection is refused or times out, or recv() fails.
HttpFailed(c) ==
    /\ reading = NoChannel /\ hchan[c].state \in {"INIT", "READY"}
    /\ Becomes(SetError(Now, c))
    /\ UNCHANGED <<site, stale, knows, reading>>

\* channel_invoke_state_listener_defered()
HttpNotify(c) ==
    /\ reading = NoChannel /\ ~ hchan[c].notified
    /\ LET s == [Now EXCEPT !.ch[c].notified = TRUE]
       IN  Becomes(ChannelUnref(channel_state_changed(s, c), c))
    /\ UNCHANGED <<site, stale, knows, reading>>

\* recv() returns 0: DISCONNECTED, and nothing is told to the application.
SiteCloses(c) ==
    /\ reading = NoChannel /\ hchan[c].state = "READY"
    /\ Becomes(channel_state_changed([Now EXCEPT !.ch[c].state = "DISCONNECTED"], c))
    /\ UNCHANGED <<site, stale, knows, reading>>

\* belle_sip_channel_force_close()
ForceClosed(x) == [x EXCEPT !.force_close = TRUE, !.state = "DISCONNECTED"]

\* belle_http_request_cancel()
Cancelled(s, r) == [s EXCEPT !.req[r].cancelled = TRUE]

reenqueue_request(s, r, succeeds) == send_request(s, r, succeeds)

\* belle_sip_list_for_each2(outgoing_messages, reenqueue_request)
reenqueued(s, outgoing, succeeds) ==
    LET after[k \in 0..Len(outgoing)] ==
          IF k = 0 THEN s ELSE reenqueue_request(after[k - 1], outgoing[k], succeeds[k])
    IN  after[Len(outgoing)]

\* belle_http_provider_cancel_request(): the channel of the request is closed, and what it had
\* not sent, the request itself included if it was there, goes to other channels. A channel that
\* is no more in the list loses a reference all the same, and its queue is sent twice.
CancelHttpRequest(r) ==
    LET c == hreq[r].channel
        cancelled == Cancelled(Now, r)
        kept == [cancelled EXCEPT !.ch[c].ref = @ + 1]
        removed == provider_remove_channel(kept, c)
        closed == [removed EXCEPT !.ch[c] = ForceClosed(removed.ch[c])]
    IN  /\ hreq[r].sent /\ ~ hreq[r].cancelled
        /\ CancelsRemoved \/ c \in {NoChannel} \cup Range(tcp_channels)
        /\ IF c = NoChannel THEN Becomes(cancelled)
           ELSE /\ hchan[c].outgoing # <<>> => CanSend(closed)
                /\ \E succeeds \in [DOMAIN hchan[c].outgoing -> BOOLEAN] :
                     Becomes(reenqueued(ChannelUnref(closed, c), hchan[c].outgoing, succeeds))
        /\ UNCHANGED <<site, stale, knows, reading>>

HttpInit ==
    /\ \E x \in HttpSettings : site = x.site /\ knows = x.knows
    /\ stale = 0
    /\ hreq = [r \in HttpRequests |-> NewRequest]
    /\ hchan = [c \in HttpChannels |-> NoSuchChannel] /\ tcp_channels = <<>>
    /\ reading = NoChannel

\* There is no HTTP provider.
NoHttp ==
    /\ site = <<>> /\ knows = "nothing" /\ stale = 0 /\ hreq = <<>> /\ hchan = <<>>
    /\ tcp_channels = <<>> /\ reading = NoChannel

HttpNext ==
    \/ \E r \in HttpRequests : SendHttpRequest(r) \/ CancelHttpRequest(r)
    \/ \E c \in HttpChannels :
         HttpConnected(c) \/ HttpFailed(c) \/ HttpNotify(c) \/ SiteCloses(c) \/ Respond(c)
-----------------------------------------------------------------------------
\* The application is told one outcome of a request at the most, a response or I/O errors. The
\* response is the answer to that request, though nothing but the order says so, it comes before
\* the request is cancelled, and it refuses the credentials only if the application had no right
\* ones, the site's way to authenticate is not supported, or it called two nonces stale
\* (http_channel_context_handle_response(), http_channel_context_handle_authentication()). What
\* is sent has a path and one Host header, however often it is sent (split_request_url()).
AnsweredOwn ==
    /\ \A r \in DOMAIN hreq :
         /\ Len(hreq[r].answers) <= 1
         /\ hreq[r].answers # <<>> => hreq[r].errors = 0
         /\ \A i \in DOMAIN hreq[r].answers :
              /\ hreq[r].answers[i].of = r
              /\ hreq[r].answers[i].code = 401 =>
                   \/ knows \in {"wrong", "nothing"} \/ stale > 1
                   \/ site.scheme # "Digest" \/ site.qop \notin {Null, "auth"}
    /\ \A c \in DOMAIN hchan : \A i \in DOMAIN hchan[c].wire :
         hchan[c].wire[i].split /\ hchan[c].wire[i].hosts = 1
=============================================================================
