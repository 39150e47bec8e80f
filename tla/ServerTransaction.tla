------------------------- MODULE ServerTransaction -------------------------
(***************************************************************************)
(* A server transaction: the base class in transaction.c, the INVITE       *)
(* machine in ist.c and the non-INVITE machine in nist.c, with the part of *)
(* provider.c that creates it and finds it again for a retransmission.     *)
(***************************************************************************)
EXTENDS TransactionLink

CONSTANT MaxServers  \* bound on the server transactions one request may create

\* 100 is the response belle_sip_ist_new() sends by itself.
ASSUME ServerAssumption ==
    /\ MaxServers \in Nat \ {0}
    /\ 100 \in Codes

VARIABLES
    sState,      \* belle_sip_transaction_t.state, "NONE" before the request arrives
    sTimers,     \* the timers G H I L (ist) and J (nist) that are in the main loop
    sLast,       \* status code of last_response, 0 when there is none
    sListed,     \* the provider has it in server_transactions
    servers,     \* number of server transactions created so far
    sFinals      \* final codes the current transaction has given to the channel

serverVars == <<sState, sTimers, sLast, sListed, servers, sFinals>>

ServerStates == {"NONE", "TRYING", "PROCEEDING", "COMPLETED", "CONFIRMED", "ACCEPTED", "TERMINATED"}
ServerTimers == {"G", "H", "I", "L", "J"}

ServerTypeOK ==
    /\ sState \in ServerStates
    /\ sTimers \subseteq ServerTimers
    /\ sLast \in Codes \cup {0}
    /\ sListed \in BOOLEAN
    /\ servers \in 0..MaxServers
    /\ sFinals \subseteq Codes

ServerInit ==
    /\ sState = "NONE"
    /\ sTimers = {}
    /\ sLast = 0
    /\ sListed = FALSE
    /\ servers = 0
    /\ sFinals = {}

-----------------------------------------------------------------------------
(* Helpers *)

\* belle_sip_channel_queue_message() of a response.
ServerQueue(code) == toClient' = toClient \cup {code}

\* Send a response for the first time; sFinals remembers the final ones.
ServerSend(code) ==
    /\ ServerQueue(code)
    /\ sFinals' = IF code >= 200 THEN sFinals \cup {code} ELSE sFinals

\* belle_sip_transaction_terminate(): ist_on_terminate() and nist_on_terminate() stop
\* the timers, the provider drops the transaction from its list.
ServerTerminate ==
    /\ sState' = "TERMINATED"
    /\ sTimers' = {}
    /\ sListed' = FALSE

-----------------------------------------------------------------------------
(* Creation *)

\* belle_sip_ist_new(): PROCEEDING, and "100 Trying" is sent at once. The channel the
\* request came through carries the answer.
ist_new ==
    /\ sState' = "PROCEEDING"
    /\ sLast' = 100
    /\ toClient' = toClient \cup {100}

nist_new ==
    /\ sState' = "TRYING"
    /\ sLast' = 0
    /\ UNCHANGED toClient

\* A request no listed server transaction matches goes to the application, which makes
\* a server transaction for it. A late copy of the request does so once more.
RecvNewRequest ==
    /\ "REQUEST" \in toServer
    /\ ~sListed
    /\ servers < MaxServers
    /\ servers' = servers + 1
    /\ IF IsInvite THEN ist_new ELSE nist_new
    /\ sTimers' = {}
    /\ sFinals' = {}
    /\ sListed' = TRUE
    /\ UNCHANGED <<method, reliable>>

-----------------------------------------------------------------------------
(* Later messages of the client *)

\* ist_on_request_retransmission(), nist_on_request_retransmission(): send the last
\* response again; in any other state the copy is absorbed.
on_request_retransmission ==
    /\ sState \in {"PROCEEDING", "COMPLETED"}
    /\ ServerQueue(sLast)

RecvRetransmission ==
    /\ "REQUEST" \in toServer
    /\ sListed
    /\ on_request_retransmission
    /\ UNCHANGED <<serverVars, method, reliable>>

\* belle_sip_ist_process_ack() in COMPLETED: over a reliable transport timer I is zero
\* and its callback is called directly. In ACCEPTED the ACK is the dialog's business.
ist_process_ack ==
    /\ sState = "COMPLETED"
    /\ IF reliable
         THEN ServerTerminate
         ELSE /\ sState' = "CONFIRMED"
              /\ sTimers' = (sTimers \ {"G"}) \cup {"I"}
              /\ UNCHANGED sListed

RecvAck ==
    /\ "ACK" \in toServer
    /\ sListed
    /\ IsInvite
    /\ ist_process_ack
    /\ UNCHANGED <<sLast, servers, sFinals, method, reliable, toClient>>

-----------------------------------------------------------------------------
(* belle_sip_server_transaction_send_response(), in any state of the transaction *)

ist_send_new_response(code) ==
    \/ /\ sState = "PROCEEDING"
       /\ code < 200
       /\ ServerSend(code)
       /\ sLast' = code
       /\ UNCHANGED <<sState, sTimers>>
    \/ /\ sState = "PROCEEDING"
       /\ code \in 200..299
       /\ ServerSend(code)
       /\ sLast' = code
       /\ sState' = "ACCEPTED"
       /\ sTimers' = sTimers \cup {"L"}
    \/ /\ sState = "PROCEEDING"
       /\ code >= 300
       /\ ServerSend(code)
       /\ sLast' = code
       /\ sState' = "COMPLETED"
       /\ sTimers' = sTimers \cup {"H"} \cup (IF reliable THEN {} ELSE {"G"})
    \/ /\ sState = "ACCEPTED"      \* accepted as the last response, and not sent
       /\ code \in 200..299
       /\ sLast' = code
       /\ UNCHANGED <<sState, sTimers, sFinals, toClient>>

\* Mistake to detect: a second final response is sent in COMPLETED.
nist_send_new_response_twice(code) ==
    /\ sState \in {"TRYING", "PROCEEDING", "COMPLETED"}
    /\ code >= 200
    /\ ServerSend(code)
    /\ sLast' = code
    /\ sState' = "COMPLETED"
    /\ sTimers' = sTimers \cup {"J"}

\* nist_set_completed(): timer J is armed over a reliable transport too, with delay 0.
nist_send_new_response(code) ==
    \/ /\ sState = "TRYING"
       /\ code < 200
       /\ ServerSend(code)
       /\ sLast' = code
       /\ sState' = "PROCEEDING"
       /\ UNCHANGED sTimers
    \/ /\ sState = "PROCEEDING"
       /\ code < 200
       /\ ServerSend(code)
       /\ sLast' = code
       /\ UNCHANGED <<sState, sTimers>>
    \/ /\ sState \in {"TRYING", "PROCEEDING"}
       /\ code >= 200
       /\ ServerSend(code)
       /\ sLast' = code
       /\ sState' = "COMPLETED"
       /\ sTimers' = sTimers \cup {"J"}
    \/ /\ sState = "TERMINATED"    \* return value 0: stored, and not sent
       /\ sLast' = code
       /\ UNCHANGED <<sState, sTimers, sFinals, toClient>>

SendResponse(code) ==
    /\ sState # "NONE"
    /\ IF IsInvite THEN ist_send_new_response(code) ELSE nist_send_new_response(code)
    /\ UNCHANGED <<sListed, servers, method, reliable, toServer>>

-----------------------------------------------------------------------------
(* Timers *)

TimerStopsS(timer) == sTimers' = sTimers \ {timer} /\ UNCHANGED <<sState, sListed>>

ist_on_timer_G ==
    /\ "G" \in sTimers
    /\ IF sState = "COMPLETED"
         THEN ServerQueue(sLast) /\ UNCHANGED <<sState, sTimers, sListed>>
         ELSE TimerStopsS("G") /\ UNCHANGED toClient
    /\ UNCHANGED <<sLast, servers, sFinals, method, reliable, toServer>>

ist_on_timer_H ==
    /\ "H" \in sTimers
    /\ IF sState = "COMPLETED" THEN ServerTerminate ELSE TimerStopsS("H")
    /\ UNCHANGED <<sLast, servers, sFinals, linkVars>>

ist_on_timer_I ==
    /\ "I" \in sTimers
    /\ ServerTerminate
    /\ UNCHANGED <<sLast, servers, sFinals, linkVars>>

ist_on_timer_L ==
    /\ "L" \in sTimers
    /\ ServerTerminate
    /\ UNCHANGED <<sLast, servers, sFinals, linkVars>>

nist_on_timer_J ==
    /\ "J" \in sTimers
    /\ ServerTerminate
    /\ UNCHANGED <<sLast, servers, sFinals, linkVars>>

-----------------------------------------------------------------------------
\* belle_sip_transaction_terminate() called by the application or the provider's uninit.
ServerAppTerminates ==
    /\ sState \notin {"NONE", "TERMINATED"}
    /\ ServerTerminate
    /\ UNCHANGED <<sLast, servers, sFinals, linkVars>>

ServerTimerStep ==
    \/ ist_on_timer_G \/ ist_on_timer_H \/ ist_on_timer_I \/ ist_on_timer_L
    \/ nist_on_timer_J

\* Every step of the server that takes no message from the link.
ServerStep ==
    \/ \E code \in Codes : SendResponse(code)
    \/ ServerTimerStep
    \/ ServerAppTerminates
=============================================================================
