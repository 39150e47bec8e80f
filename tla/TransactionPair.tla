-------------------------- MODULE TransactionPair --------------------------
(***************************************************************************)
(* A client transaction of one belle-sip stack and the server transaction  *)
(* of another one, joined by the network.                                  *)
(***************************************************************************)
EXTENDS ClientTransaction, ServerTransaction

vars == <<method, reliable, toServer, toClient,
          cState, cTimers, cLast, ack, timed_out, listed, channel, notices, alternates, told,
          sState, sTimers, sLast, sListed, servers, sFinals>>

Init == LinkInit /\ ClientInit /\ ServerInit

\* A delivered datagram may come again; what a stream delivers is consumed.
Delivered(flight, msg) == IF reliable THEN flight \ {msg} ELSE flight

ClientReceives(code) ==
    /\ RecvResponse(code)
    /\ toClient' = Delivered(toClient, code)
    /\ UNCHANGED serverVars

ServerReceivesRequest ==
    /\ RecvNewRequest \/ RecvRetransmission
    /\ toServer' = Delivered(toServer, "REQUEST")
    /\ UNCHANGED clientVars

ServerReceivesAck ==
    /\ RecvAck
    /\ toServer' = Delivered(toServer, "ACK")
    /\ UNCHANGED clientVars

\* A datagram is lost at any time, the data of a stream only with its connection.
Loses ==
    /\ ~reliable \/ channel # "READY"
    /\ \/ \E m \in toServer : toServer' = toServer \ {m} /\ UNCHANGED toClient
       \/ \E c \in toClient : toClient' = toClient \ {c} /\ UNCHANGED toServer
    /\ UNCHANGED <<method, reliable, clientVars, serverVars>>

Next ==
    \/ ClientStep /\ UNCHANGED serverVars
    \/ \E code \in Codes : ClientReceives(code)
    \/ ServerStep /\ UNCHANGED clientVars
    \/ ServerReceivesRequest
    \/ ServerReceivesAck
    \/ Loses

Spec == Init /\ [][Next]_vars

(***************************************************************************)
(* Fairness. The main loop runs every timer that is due and every deferred *)
(* call (belle_sip_loop.c, belle_sip_main_loop_iterate). A channel being   *)
(* prepared ends READY or in error: the resolver and the connection        *)
(* attempts all have timeouts, and the addresses to try are finitely many. *)
(* Nothing is assumed of the applications, the peer or the network.        *)
(***************************************************************************)
Fairness ==
    /\ WF_vars((ict_on_timer_B \/ nict_on_timer_F) /\ UNCHANGED serverVars)
    /\ WF_vars((ict_on_timer_D \/ ict_on_timer_M \/ nict_on_timer_K) /\ UNCHANGED serverVars)
    /\ WF_vars((ist_on_timer_H \/ nist_on_timer_J) /\ UNCHANGED clientVars)
    /\ WF_vars(ist_on_timer_I /\ UNCHANGED clientVars)
    /\ WF_vars(ist_on_timer_L /\ UNCHANGED clientVars)
    /\ WF_vars(ChannelNotice /\ UNCHANGED serverVars)
    /\ WF_vars(channel = "PREPARING" /\ ClientChannelStep /\ UNCHANGED serverVars)

FairSpec == Spec /\ Fairness
-----------------------------------------------------------------------------
\* Every variable of the link, the client and the server holds a value of its type.
TypeOK == LinkTypeOK /\ ClientTypeOK /\ ServerTypeOK

Outcomes(t) == {e \in {"final", "timeout", "io_error"} : t[e] > 0}

(***************************************************************************)
(* The application hears of one outcome: a final response, a timeout or an *)
(* I/O error, never two of them, and of the termination at most once       *)
(* (transaction.c 112-160, 478-513; ict.c; nict.c). A failure response is  *)
(* reported once however often it is received. A REGISTER is left out of   *)
(* the first part: its timeout goes through the channel, which reports     *)
(* both an I/O error and the timeout, and over UDP a response may still    *)
(* come between the two.                                                   *)
(***************************************************************************)
OneOutcome ==
    /\ method # "REGISTER" => /\ \A e, f \in Outcomes(told) : e = f
                              /\ told["timeout"] <= 1
                              /\ told["io_error"] <= 1
    /\ told["terminated"] <= 1
    /\ cLast >= 300 => told["final"] = 1

(***************************************************************************)
(* Client and server agree: as long as the request made one server         *)
(* transaction, the final response the client ended on is the only one     *)
(* that transaction ever gave to its channel, however messages are lost,   *)
(* repeated or reordered and whatever else the server's application tries  *)
(* to send (ist.c 115-148, nist.c 55-82, ict.c 97-135, nict.c 46-68).      *)
(***************************************************************************)
AgreeOnFinal == servers = 1 /\ cLast >= 200 => sFinals = {cLast}

(***************************************************************************)
(* A server transaction that stopped retransmitting because of an ACK      *)
(* (ist.c 88-113) did so for a client that holds a failure response.       *)
(***************************************************************************)
ConfirmedKnowsFailure == sState = "CONFIRMED" => cLast >= 300

(***************************************************************************)
(* Nobody waits for ever: in each state with a time limit the timer that   *)
(* ends it is running, on both sides. (A REGISTER past timer F and an      *)
(* INVITE in PROCEEDING have no limit in the code.)                        *)
(***************************************************************************)
WaitingIsTimed ==
    /\ cState = "CALLING" => "B" \in cTimers
    /\ cState \in {"TRYING", "PROCEEDING"} /\ method = "OTHER" => "F" \in cTimers
    /\ cState = "ACCEPTED" => "M" \in cTimers
    /\ cState = "COMPLETED" => (IF IsInvite THEN "D" ELSE "K") \in cTimers
    /\ sState = "ACCEPTED" => "L" \in sTimers
    /\ sState = "COMPLETED" => (IF IsInvite THEN "H" ELSE "J") \in sTimers
    /\ sState = "CONFIRMED" => "I" \in sTimers

(***************************************************************************)
(* After a transaction is terminated it sends nothing more and reports     *)
(* nothing more, although the application may keep it alive, so that it    *)
(* stays a listener of its channel, and although timers D and K may be     *)
(* started after the termination (when the listener terminates it from     *)
(* process_response_event). REGISTER: see OneOutcome.                      *)
(***************************************************************************)
QuietAfterEnd ==
    [][cState = "TERMINATED" => /\ toServer' \subseteq toServer
                                /\ method # "REGISTER" => told' = told]_vars

\* A request sent from process_io_error on the channel that just died: it waits for a
\* channel state that never comes, all the notices of the channel being given.
GivenDeadChannel == cState = "INIT" /\ channel \in {"ERROR", "DISCONNECTED"} /\ notices = 0

(***************************************************************************)
(* A request that was sent is over one day: the client transaction of a    *)
(* non-INVITE request ends, and that of an INVITE ends unless it hears     *)
(* provisional responses only (there is no timer C in ict.c). Left out:    *)
(* GivenDeadChannel, which waits for ever (transaction.c 399-400), and a   *)
(* REGISTER, whose timeout is left to the channel (RegisterResolves).      *)
(***************************************************************************)
ClientResolves ==
    (channel # "UNSET" /\ method # "REGISTER" /\ ~GivenDeadChannel)
        ~> (cState = "TERMINATED" \/ (IsInvite /\ cState = "PROCEEDING"))

(***************************************************************************)
(* A server transaction that was answered with a final response ends, even *)
(* if no ACK ever comes (timers H, I, L, J).                               *)
(***************************************************************************)
ServerEnds ==
    (sState \in {"COMPLETED", "CONFIRMED", "ACCEPTED"}) ~> (sState = "TERMINATED")

\* Both sides of a request come to their end, with the exceptions of ClientResolves.
TransactionsEnd == ClientResolves /\ ServerEnds

(***************************************************************************)
(* What the comment in transaction.c 145-147 promises of a REGISTER that   *)
(* gets no answer: the channel is reported as possibly dead and will       *)
(* either retry or report the error. So the transaction ends.              *)
(***************************************************************************)
RegisterResolves == (channel # "UNSET" /\ method = "REGISTER") ~> (cState = "TERMINATED")

-----------------------------------------------------------------------------
\* The state of the service the application relies on, as the client transaction has it.
Outcome == INSTANCE RequestOutcome WITH
    over    <- cState = "TERMINATED",
    outcome <- Outcomes(told)

(***************************************************************************)
(* Every step of the two transactions is a step of RequestOutcome or does  *)
(* not concern it.                                                         *)
(***************************************************************************)
ImplementsOutcome == Outcome!Spec
=============================================================================
