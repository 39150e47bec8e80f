--------------------------- MODULE Authentication ---------------------------
(***************************************************************************)
(* Digest authentication of requests (provider.c, transaction.c): the      *)
(* contexts the provider keeps, the credentials it puts in a request, and  *)
(* what it forgets when a request is refused. A request goes through the   *)
(* challengers of its path, each with its realm and nonce: a proxy answers *)
(* 407, the server 401. A nonce is never given twice.                      *)
(***************************************************************************)
EXTENDS Integers, FiniteSets, FiniteSetsExt

CONSTANTS
    CallIds,         \* Call-ID values; the requests of one are sent one after the other
    Paths,           \* the sets of challengers the requests may have to pass
    CachedRealms,    \* the realms the application may name in its calls, or None
    MaxNonce,        \* bound on the nonces given
    MaxRequests,     \* bound on the requests the application sends on its own
    MaxExpiries      \* bound on the nonces that get too old

Challengers == {"proxy", "server"}   \* also the names of their realms
NoRealm == "none"

ASSUME AuthenticationAssumption ==
    /\ Paths \subseteq SUBSET Challengers /\ CachedRealms \subseteq Challengers \cup {NoRealm}
    /\ MaxNonce \in Nat /\ MaxRequests \in Nat /\ MaxExpiries \in Nat

VARIABLES
    setting,        \* the path, the realm given to add_authorization(), whether the method is REGISTER
    auth_contexts,  \* the list of authorization_context_t, by their places, which are not used again
    request,        \* of each Call-ID: its last request, its credentials and its answer
    server,         \* external: the valid nonces of each challenger, and the highest count seen with each
    requests,       \* the number of requests sent on its own
    issued,         \* the number of nonces given
    expired,        \* the number of nonces that were taken back
    uses            \* of each nonce: in how many requests it was

authVars == <<setting, auth_contexts, request, server, requests, issued, expired, uses>>

(***************************************************************************)
(* Contexts.                                                               *)
(***************************************************************************)
\* belle_sip_provider_get_auth_context_by_realm_or_call_id(): the places in the list.
Found(list, call_id, realm) ==
    LET same == {i \in DOMAIN list : list[i].call_id = call_id} IN
    IF same # {} THEN same ELSE {i \in DOMAIN list : list[i].realm = realm}

\* belle_sip_authorization_create(). The user of From is the same in all requests.
NewContext(call_id) ==
    [call_id |-> call_id, realm |-> NoRealm, nonce |-> 0, nonce_count |-> 0, is_proxy |-> FALSE]

\* Mistake to detect: the count goes on with a new nonce.
reset_count_never(c, n) == c.nonce_count

\* The count starts again with a new nonce.
reset_count(c, n) == IF c.nonce # 0 /\ n # c.nonce THEN 0 ELSE c.nonce_count

\* Mistake to detect: a context does not learn that its challenger is a proxy.
fill_without_proxy(c, who, n) ==
    [c EXCEPT !.realm = who, !.nonce_count = reset_count(c, n), !.nonce = n]

\* authorization_context_fill_from_auth(): is_proxy is never taken back.
authorization_context_fill_from_auth(c, who, n) ==
    [c EXCEPT !.realm = who, !.nonce_count = reset_count(c, n), !.nonce = n,
              !.is_proxy = @ \/ who = "proxy"]

\* belle_sip_provider_update_or_create_auth_context()
update_or_create_auth_context(list, call_id, who, n) ==
    LET same == {i \in Found(list, call_id, setting.realm) : list[i].realm = who} IN
    IF same # {}
      THEN LET i == CHOOSE k \in same : \A j \in same : k <= j IN
           [list EXCEPT ![i] = authorization_context_fill_from_auth(@, who, n)]
      ELSE LET last == Max(DOMAIN list \cup {0}) + 1 IN
           [i \in DOMAIN list \cup {last} |->
               IF i = last THEN authorization_context_fill_from_auth(NewContext(call_id), who, n)
                           ELSE list[i]]

\* The loop of belle_sip_provider_add_authorization(): each context that is found is counted
\* once more and gives a credential, which goes to the proxy if the context says so, or if it
\* is another call's and was found by its realm, except for a REGISTER.
Counted(list, call_id) ==
    [i \in DOMAIN list |->
        IF i \in Found(list, call_id, setting.realm) THEN [list[i] EXCEPT !.nonce_count = @ + 1]
                                                     ELSE list[i]]

Credentials(list, call_id) ==
    {[nonce |-> list[i].nonce, nonce_count |-> list[i].nonce_count,
      proxy |-> list[i].is_proxy \/ (list[i].call_id # call_id /\ ~setting.register)]
        : i \in Found(list, call_id, setting.realm)}

\* belle_sip_provider_dispatch_response() of 401, 403 or 407: the contexts with the nonce of the
\* Proxy-Authorization, or if there is none of the Authorization, are destroyed.
cleanup(list, credentials) ==
    LET proxies == {c \in credentials : c.proxy}
        first == IF proxies # {} THEN proxies ELSE credentials
        n == (CHOOSE c \in first : TRUE).nonce IN
    IF credentials = {} THEN list
    ELSE [i \in {j \in DOMAIN list : list[j].nonce # n} |-> list[i]]

(***************************************************************************)
(* Requests.                                                               *)
(***************************************************************************)
Sent(list, call_id) ==
    LET counted == Counted(list, call_id)
        credentials == Credentials(counted, call_id) IN
    /\ auth_contexts' = counted
    /\ request' = [request EXCEPT ![call_id] =
                     [state |-> "sent", credentials |-> credentials, nonce |-> 0]]
    /\ uses' = [n \in DOMAIN uses |-> uses[n] + Cardinality({c \in credentials : c.nonce = n})]
    /\ UNCHANGED <<setting, server, issued, expired>>

\* The application sends a request of a call, with the credentials there are.
SendRequest(call_id) ==
    /\ request[call_id].state \in {"none", "accepted", "forbidden"}
    /\ requests < MaxRequests
    /\ requests' = requests + 1
    /\ Sent(auth_contexts, call_id)

\* belle_sip_client_transaction_create_authenticated_request(), and the request is sent.
Resend(call_id) ==
    LET who == request[call_id].state IN
    /\ who \in Challengers
    /\ Sent(update_or_create_auth_context(auth_contexts, call_id, who, request[call_id].nonce),
            call_id)
    /\ UNCHANGED requests

\* External: a challenger takes a credential of its own kind with a valid nonce and a count it has
\* not seen.
Accepts(who, c) ==
    /\ c.proxy = (who = "proxy")
    /\ c.nonce \in DOMAIN server[who] /\ c.nonce_count > server[who][c.nonce]

Refusing(call_id) ==
    {w \in setting.path : ~\E c \in request[call_id].credentials : Accepts(w, c)}

Seen(call_id) ==
    [w \in Challengers |-> [n \in DOMAIN server[w] |->
        LET new == {c \in request[call_id].credentials : Accepts(w, c) /\ c.nonce = n} IN
        IF new = {} THEN server[w][n] ELSE (CHOOSE c \in new : TRUE).nonce_count]]

Accepted(call_id) ==
    /\ request[call_id].state = "sent" /\ Refusing(call_id) = {}
    /\ request' = [request EXCEPT ![call_id].state = "accepted", ![call_id].credentials = {}]
    /\ server' = Seen(call_id)
    /\ UNCHANGED <<setting, requests, auth_contexts, issued, expired, uses>>

\* The proxy is the first on the path. Its challenge has a new nonce.
Challenged(call_id) ==
    LET who == IF "proxy" \in Refusing(call_id) THEN "proxy" ELSE "server"
        seen == Seen(call_id) IN
    /\ request[call_id].state = "sent" /\ Refusing(call_id) # {} /\ issued < MaxNonce
    /\ issued' = issued + 1
    /\ server' = [seen EXCEPT ![who] = [n \in DOMAIN @ \cup {issued + 1} |->
                                           IF n = issued + 1 THEN 0 ELSE @[n]]]
    /\ request' = [request EXCEPT ![call_id] = [state |-> who, credentials |-> {},
                                               nonce |-> issued + 1]]
    /\ auth_contexts' = cleanup(auth_contexts, request[call_id].credentials)
    /\ UNCHANGED <<setting, requests, expired, uses>>

\* 403: the request is refused for good.
Forbidden(call_id) ==
    /\ request[call_id].state = "sent"
    /\ request' = [request EXCEPT ![call_id].state = "forbidden", ![call_id].credentials = {}]
    /\ auth_contexts' = cleanup(auth_contexts, request[call_id].credentials)
    /\ UNCHANGED <<setting, requests, server, issued, expired, uses>>

\* External: a nonce gets too old.
NonceExpires(who, n) ==
    /\ n \in DOMAIN server[who] /\ expired < MaxExpiries
    /\ server' = [server EXCEPT ![who] = [m \in DOMAIN @ \ {n} |-> @[m]]]
    /\ expired' = expired + 1
    /\ UNCHANGED <<setting, requests, auth_contexts, request, issued, uses>>

AuthInit ==
    /\ setting \in [path : Paths, realm : CachedRealms, register : BOOLEAN]
    /\ auth_contexts = <<>> /\ requests = 0 /\ issued = 0 /\ expired = 0
    /\ request = [c \in CallIds |-> [state |-> "none", credentials |-> {}, nonce |-> 0]]
    /\ server = [w \in Challengers |-> <<>>] /\ uses = [n \in 1..MaxNonce |-> 0]

AuthNext ==
    \/ \E c \in CallIds :
         SendRequest(c) \/ Accepted(c) \/ Challenged(c) \/ Forbidden(c) \/ Resend(c)
    \/ \E w \in Challengers, n \in 1..MaxNonce : NonceExpires(w, n)

\* Requests are answered and answers handled; nothing else is fair. (Each formula is weak
\* fairness of the actions named, which are enabled until the state is left.)
Answerable(c) ==
    request[c].state = "sent" /\ (Refusing(c) = {} \/ issued < MaxNonce)

AuthFairness ==
    \A c \in CallIds :
        /\ []<>(~Answerable(c))                         \* Accepted(c) \/ Challenged(c)
        /\ []<>(request[c].state \notin Challengers)    \* Resend(c)

(***************************************************************************)
(* Properties.                                                             *)
(***************************************************************************)
\* The count of a context is the number of requests that had its nonce, also when the requests of
\* several calls share the context and however challenges and refusals meet.
CountIsExact ==
    \A i \in DOMAIN auth_contexts :
        auth_contexts[i].nonce # 0 => auth_contexts[i].nonce_count = uses[auth_contexts[i].nonce]

\* Where one party asks for credentials, a request is accepted in the end, or refused with 403,
\* if nonces do not expire for ever: also when the contexts of other calls are tried or deleted.
Authenticated ==
    \A c \in CallIds :
        (request[c].state = "sent" /\ Cardinality(setting.path) = 1)
            ~> (request[c].state \in {"accepted", "forbidden"})

\* What the comment in belle_sip_provider_get_auth_context_by_realm_or_call_id() quotes of RFC 3261:
\* credentials for the realm of a challenge are in all later requests of the call. So a request
\* sent again after the server's challenge still has those the proxy has just accepted.
KeepsCredentials ==
    [][\A c \in CallIds :
         (request[c].state = "server" /\ "proxy" \in setting.path /\ request'[c].state = "sent")
             => \E d \in request'[c].credentials : d.proxy]_authVars
=============================================================================
