-------------------------- MODULE TransactionLink --------------------------
(***************************************************************************)
(* What a client transaction and the server transaction it talks to share: *)
(* the kind of request, the kind of transport, and the messages in flight. *)
(*                                                                         *)
(* A message is kept in its set until it is lost, so over an unreliable    *)
(* transport it can be delivered late, out of order and more than once.    *)
(* Two identical messages in flight are one element of the set.            *)
(***************************************************************************)
EXTENDS Integers

CONSTANTS
    Codes,       \* the status codes a response may carry
    Methods      \* the methods the request may have

\* "OTHER" stands for the methods the transaction layer treats alike: BYE, INFO,
\* OPTIONS, SUBSCRIBE... ; it looks for REGISTER when a request times out.
ASSUME LinkAssumption ==
    /\ Codes \subseteq 100..699
    /\ Methods \subseteq {"INVITE", "REGISTER", "OTHER"}

VARIABLES
    method,      \* the request's method, as far as the transaction layer looks at it
    reliable,    \* belle_sip_channel_is_reliable() of the transport: TCP/TLS or UDP
    toServer,    \* requests and ACKs in flight
    toClient     \* status codes of the responses in flight

linkVars == <<method, reliable, toServer, toClient>>

\* belle_sip_provider_create_client_transaction() makes an ICT for INVITE and a
\* NICT for any other method; the server side decides in the same way.
IsInvite == method = "INVITE"

LinkTypeOK ==
    /\ method \in Methods
    /\ reliable \in BOOLEAN
    /\ toServer \subseteq {"REQUEST", "ACK"}
    /\ toClient \subseteq Codes

LinkInit ==
    /\ method \in Methods
    /\ reliable \in BOOLEAN
    /\ toServer = {}
    /\ toClient = {}
=============================================================================
