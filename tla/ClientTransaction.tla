------------------------- MODULE ClientTransaction -------------------------
(***************************************************************************)
(* A client transaction: the base class in transaction.c, the INVITE       *)
(* machine in ict.c and the non-INVITE machine in nict.c, as seen by one    *)
(* request sent once over one channel.                                     *)
(*                                                                         *)
(* belle-sip runs in one thread, so every callback is one atomic step.     *)
(* A timer is in cTimers while its source is in the main loop; timers fire *)
(* in any order, which covers every setting of T1, T2 and T4 and a main    *)
(* loop that is late.                                                      *)
(***************************************************************************)
EXTENDS TransactionLink

CONSTANTS
    SendFromIoErrorCallback, \* may the application send the request from inside process_io_error?
    MaxAlternates            \* most addresses the peer's name resolves to, beyond the first one

ASSUME ClientAssumption ==
    /\ SendFromIoErrorCallback \in BOOLEAN
    /\ MaxAlternates \in Nat

VARIABLES
    cState,      \* belle_sip_transaction_t.state
    cTimers,     \* the timers A B D M (ict) and E F K (nict) that are in the main loop
    cLast,       \* status code of last_response, 0 when there is none
    ack,         \* belle_sip_ict_t.ack is set
    timed_out,   \* belle_sip_transaction_t.timed_out
    listed,      \* the provider has it in client_transactions
    channel,     \* state of the channel it is attached to
    notices,     \* calls of channel_invoke_state_listener_defered waiting in the main loop
    alternates,  \* addresses of the peer after current_peer that were not tried yet
    told         \* how often the listener was told of each event (2: twice or more)

clientVars == <<cState, cTimers, cLast, ack, timed_out, listed, channel, notices, alternates, told>>

MaxNotices == 2  \* bound on error notices pending at the same time

ClientStates == {"INIT", "CALLING", "TRYING", "PROCEEDING", "COMPLETED", "ACCEPTED", "TERMINATED"}
ClientTimers == {"A", "B", "D", "M", "E", "F", "K"}
Events == {"final", "timeout", "io_error", "terminated"}

\* "UNSET": send_request was not called; "NONE": no channel could be had.
\* PREPARING stands for INIT, RES_IN_PROGRESS, RES_DONE, CONNECTING and RETRY.
ChannelStates == {"UNSET", "NONE", "PREPARING", "READY", "ERROR", "DISCONNECTED"}

ClientTypeOK ==
    /\ cState \in ClientStates
    /\ cTimers \subseteq ClientTimers
    /\ cLast \in Codes \cup {0}
    /\ ack \in BOOLEAN
    /\ timed_out \in BOOLEAN
    /\ listed \in BOOLEAN
    /\ channel \in ChannelStates
    /\ notices \in 0..MaxNotices
    /\ alternates \in 0..MaxAlternates
    /\ told \in [Events -> 0..2]

ClientInit ==
    /\ cState = "INIT"
    /\ cTimers = {}
    /\ cLast = 0
    /\ ack = FALSE
    /\ timed_out = FALSE
    /\ listed = FALSE
    /\ channel = "UNSET"
    /\ notices = 0
    /\ alternates \in 0..MaxAlternates
    /\ told = [e \in Events |-> 0]

-----------------------------------------------------------------------------
(* Helpers *)

Tell(events) ==
    told' = [e \in Events |-> IF e \in events /\ told[e] < 2 THEN told[e] + 1 ELSE told[e]]

\* belle_sip_channel_queue_message() on a channel that is READY sends; on one that
\* has failed the message stays in outgoing_messages for ever.
ClientSend(msgs) == toServer' = IF channel = "READY" THEN toServer \cup msgs ELSE toServer

\* belle_sip_transaction_terminate(), together with the callbacks the caller makes
\* just before it. It does nothing to a transaction already TERMINATED.
\* on_ict_terminate() and nict_on_terminate() stop every timer and drop the ACK.
ClientTerminate(events) ==
    IF cState = "TERMINATED"
      THEN /\ Tell(events)
           /\ UNCHANGED <<cState, cTimers, ack, listed>>
      ELSE /\ cState' = "TERMINATED"
           /\ cTimers' = {}
           /\ ack' = FALSE
           /\ listed' = FALSE
           /\ Tell(events \cup {"terminated"})

-----------------------------------------------------------------------------
(* Sending the request *)

\* Mistake to detect: timer B armed over an unreliable transport only, like timer A.
ict_send_request_B_unreliable ==
    /\ cState' = "CALLING"
    /\ cTimers' = IF reliable THEN {} ELSE {"A", "B"}
    /\ toServer' = toServer \cup {"REQUEST"}

ict_send_request ==
    /\ cState' = "CALLING"
    /\ cTimers' = {"B"} \cup (IF reliable THEN {} ELSE {"A"})
    /\ toServer' = toServer \cup {"REQUEST"}

nict_send_request ==
    /\ cState' = "TRYING"
    /\ cTimers' = {"F"} \cup (IF reliable THEN {} ELSE {"E"})
    /\ toServer' = toServer \cup {"REQUEST"}

send_request == IF IsInvite THEN ict_send_request ELSE nict_send_request

\* The application sends a transaction once: a second call of send_request while the
\* channel is being prepared is not modelled.
Unsent == cState = "INIT" /\ channel = "UNSET"

\* No listening point has the transport: the transaction is terminated at once.
SendRequestNoChannel ==
    /\ Unsent
    /\ channel' = "NONE"
    /\ ClientTerminate({})
    /\ UNCHANGED <<cLast, timed_out, notices, alternates, linkVars>>

SendRequestReady ==
    /\ Unsent
    /\ channel' = "READY"
    /\ listed' = TRUE
    /\ send_request
    /\ UNCHANGED <<cLast, ack, timed_out, notices, alternates, told, method, reliable, toClient>>

\* The channel is being prepared, or it has failed and its listeners were not told
\* yet. belle_sip_provider_get_channel() does not look at the channel's state, and
\* provider.c channel_state_changed() calls process_io_error before it releases the
\* channel: a request sent from that callback gets the dead channel, of which no
\* notice is left.
SendRequestWait ==
    /\ Unsent
    /\ \/ channel' = "PREPARING" /\ notices' = 0
       \/ channel' = "ERROR" /\ notices' = 1
       \/ SendFromIoErrorCallback /\ channel' \in {"ERROR", "DISCONNECTED"} /\ notices' = 0
    /\ listed' = TRUE
    /\ UNCHANGED <<cState, cTimers, cLast, ack, timed_out, alternates, told, linkVars>>

-----------------------------------------------------------------------------
(* Channel events *)

\* Mistake to detect: a terminated transaction still reports I/O errors.
ReportedStatesButTerminated == {"COMPLETED", "CONFIRMED", "ACCEPTED"}

ReportedStates == {"COMPLETED", "CONFIRMED", "ACCEPTED", "TERMINATED"}

on_channel_state_changed(st) ==
    IF st \in {"ERROR", "DISCONNECTED"}
      THEN /\ ClientTerminate((IF cState \notin ReportedStates THEN {"io_error"} ELSE {})
                                \cup (IF timed_out THEN {"timeout"} ELSE {}))
           /\ UNCHANGED toServer
      ELSE /\ IF st = "READY" /\ cState = "INIT"
                THEN send_request
                ELSE UNCHANGED <<cState, cTimers, toServer>>
           /\ UNCHANGED <<ack, listed, told>>

ChannelReady ==
    /\ channel = "PREPARING"
    /\ channel' = "READY"
    /\ on_channel_state_changed("READY")
    /\ UNCHANGED <<cLast, timed_out, notices, alternates, method, reliable, toClient>>

\* channel_set_state(ERROR): try the next address if the channel is not READY and
\* there is one, else note the error and tell the listeners from the main loop.
channel_handle_error ==
    \/ /\ channel # "READY"
       /\ alternates > 0
       /\ alternates' = alternates - 1
       /\ channel' = "PREPARING"
       /\ UNCHANGED notices
    \/ /\ channel = "READY" \/ alternates = 0
       /\ notices < MaxNotices
       /\ channel' = "ERROR"
       /\ notices' = notices + 1
       /\ UNCHANGED alternates

ChannelFails ==
    /\ \/ channel \in {"PREPARING", "READY"}
       \/ channel = "ERROR" /\ notices > 0
    /\ channel_handle_error
    /\ UNCHANGED <<cState, cTimers, cLast, ack, timed_out, listed, told, linkVars>>

\* channel_invoke_state_listener_defered(): the listeners get the state the channel
\* has now, which need not be the one the notice was queued for.
ChannelNotice ==
    /\ notices > 0
    /\ notices' = notices - 1
    /\ on_channel_state_changed(channel)
    /\ UNCHANGED <<cLast, timed_out, channel, alternates, method, reliable, toClient>>

\* End of stream, inactivity timer or belle_sip_channel_force_close(): told at once.
ChannelDisconnects ==
    /\ \/ channel \in {"PREPARING", "READY"}
       \/ channel = "ERROR" /\ notices > 0
    /\ channel' = "DISCONNECTED"
    /\ on_channel_state_changed("DISCONNECTED")
    /\ UNCHANGED <<cLast, timed_out, notices, alternates, method, reliable, toClient>>

-----------------------------------------------------------------------------
(* Timers *)

\* Mistake to detect: the timeout is reported and the transaction goes on.
notify_timeout_goes_on(timer) ==
    /\ Tell({"timeout"})
    /\ cTimers' = cTimers \ {timer}
    /\ UNCHANGED <<cState, ack, listed, channel, notices, alternates, timed_out>>

\* belle_sip_transaction_notify_timeout(), called by a timer that runs once. A
\* REGISTER hands the timeout to its channel, which moves to error only if it
\* received nothing for 60 seconds; else nothing happens.
notify_timeout(timer) ==
    IF method = "REGISTER"
      THEN /\ \/ channel_handle_error /\ timed_out' = TRUE
              \/ UNCHANGED <<channel, notices, alternates, timed_out>>
           /\ cTimers' = cTimers \ {timer}
           /\ UNCHANGED <<cState, ack, listed, told>>
      ELSE /\ ClientTerminate({"timeout"})
           /\ UNCHANGED <<channel, notices, alternates, timed_out>>

\* A timer that finds nothing to do stops.
TimerStops(timer) ==
    /\ cTimers' = cTimers \ {timer}
    /\ UNCHANGED <<cState, ack, timed_out, listed, channel, notices, alternates, told>>

\* Timer A goes on running in every state and acts in CALLING only.
ict_on_timer_A ==
    /\ "A" \in cTimers
    /\ cState = "CALLING"
    /\ ClientSend({"REQUEST"})
    /\ UNCHANGED <<clientVars, method, reliable, toClient>>

\* Mistake to detect: timer B does not look at the state.
ict_on_timer_B_any_state ==
    /\ "B" \in cTimers
    /\ notify_timeout("B")
    /\ UNCHANGED <<cLast, linkVars>>

ict_on_timer_B ==
    /\ "B" \in cTimers
    /\ IF cState = "CALLING" THEN notify_timeout("B") ELSE TimerStops("B")
    /\ UNCHANGED <<cLast, linkVars>>

ict_on_timer_D ==
    /\ "D" \in cTimers
    /\ IF cState = "COMPLETED"
         THEN ClientTerminate({}) /\ UNCHANGED <<timed_out, channel, notices, alternates>>
         ELSE TimerStops("D")
    /\ UNCHANGED <<cLast, linkVars>>

ict_on_timer_M ==
    /\ "M" \in cTimers
    /\ IF cState = "ACCEPTED"
         THEN ClientTerminate({}) /\ UNCHANGED <<timed_out, channel, notices, alternates>>
         ELSE TimerStops("M")
    /\ UNCHANGED <<cLast, linkVars>>

nict_on_timer_E ==
    /\ "E" \in cTimers
    /\ IF cState \in {"TRYING", "PROCEEDING"}
         THEN ClientSend({"REQUEST"}) /\ UNCHANGED clientVars
         ELSE TimerStops("E") /\ UNCHANGED <<toServer, cLast>>
    /\ UNCHANGED <<method, reliable, toClient>>

\* Mistake to detect: timer F gives up once a provisional response was received.
nict_on_timer_F_trying_only ==
    /\ "F" \in cTimers
    /\ IF cState = "TRYING" THEN notify_timeout("F") ELSE TimerStops("F")
    /\ UNCHANGED <<cLast, linkVars>>

nict_on_timer_F ==
    /\ "F" \in cTimers
    /\ IF cState \in {"TRYING", "PROCEEDING"} THEN notify_timeout("F") ELSE TimerStops("F")
    /\ UNCHANGED <<cLast, linkVars>>

nict_on_timer_K ==
    /\ "K" \in cTimers
    /\ IF cState # "TERMINATED"
         THEN ClientTerminate({}) /\ UNCHANGED <<timed_out, channel, notices, alternates>>
         ELSE TimerStops("K")
    /\ UNCHANGED <<cLast, linkVars>>

-----------------------------------------------------------------------------
(* Responses *)

FinalEvent(code) == IF code >= 200 THEN {"final"} ELSE {}

\* The listener's process_response_event calls belle_sip_transaction_terminate():
\* a timer the handler starts after the callback outlives the termination.
TerminatedInCallback(code, later) ==
    /\ cState' = "TERMINATED"
    /\ cTimers' = later
    /\ ack' = FALSE
    /\ listed' = FALSE
    /\ Tell(FinalEvent(code) \cup {"terminated"})

\* belle_sip_client_transaction_notify_response() from a handler that moves to st and
\* starts the timers in before and later, on either side of the callback.
notify_response(code, st, before, later) ==
    /\ cLast' = code
    /\ \/ /\ cState' = st
          /\ cTimers' = cTimers \cup before \cup later
          /\ ack' = (ack \/ (IsInvite /\ code >= 300))
          /\ Tell(FinalEvent(code))
          /\ UNCHANGED listed
       \/ TerminatedInCallback(code, later)

\* A 2xx again: last_response is replaced, and the listener hears of it unless the
\* dialog knows it for a retransmission and answers it with its ACK.
notify_response_again(code) ==
    \/ notify_response(code, cState, {}, {})
    \/ cLast' = code /\ UNCHANGED <<cState, cTimers, ack, listed, told>>

\* Mistake to detect: the transaction acknowledges a 2xx too.
ict_on_response_acks_2xx(code) ==
    /\ cState \in {"CALLING", "PROCEEDING"}
    /\ code >= 200
    /\ ClientSend({"ACK"})
    /\ \/ code < 300 /\ notify_response(code, "ACCEPTED", {"M"}, {})
       \/ code >= 300 /\ notify_response(code, "COMPLETED", {}, {"D"})

ict_on_response(code) ==
    \/ /\ cState \in {"CALLING", "PROCEEDING"}
       /\ code >= 300
       /\ ClientSend({"ACK"})
       /\ notify_response(code, "COMPLETED", {}, {"D"})
    \/ /\ cState \in {"CALLING", "PROCEEDING"}
       /\ code \in 200..299
       /\ notify_response(code, "ACCEPTED", {"M"}, {})
       /\ UNCHANGED toServer
    \/ /\ cState \in {"CALLING", "PROCEEDING"}
       /\ code < 200
       /\ notify_response(code, "PROCEEDING", {}, {})
       /\ UNCHANGED toServer
    \/ /\ cState = "ACCEPTED"
       /\ code \in 200..299
       /\ notify_response_again(code)
       /\ UNCHANGED toServer
    \/ /\ cState = "COMPLETED"
       /\ code >= 300
       /\ ack
       /\ ClientSend({"ACK"})
       /\ UNCHANGED <<cState, cTimers, cLast, ack, listed, told>>

nict_set_completed(code) ==
    IF reliable
      THEN cLast' = code /\ TerminatedInCallback(code, {})
      ELSE notify_response(code, "COMPLETED", {}, {"K"})

nict_on_response(code) ==
    /\ \/ cState = "TRYING" /\ code < 200 /\ notify_response(code, "PROCEEDING", {}, {})
       \/ cState \in {"TRYING", "PROCEEDING"} /\ code >= 200 /\ nict_set_completed(code)
    /\ UNCHANGED toServer

\* A stream channel reads only while READY (stream_channel_process_data); datagrams
\* come through the listening point whatever became of the channel. The provider
\* hands the response to the transaction it has in its list; a response the
\* transaction ignores changes nothing.
RecvResponse(code) ==
    /\ code \in toClient
    /\ listed
    /\ reliable => channel = "READY"
    /\ IF IsInvite THEN ict_on_response(code) ELSE nict_on_response(code)
    /\ UNCHANGED <<timed_out, channel, notices, alternates, method, reliable>>

-----------------------------------------------------------------------------
\* belle_sip_transaction_terminate() is public; belle_sip_provider_uninit() calls it too.
ClientAppTerminates ==
    /\ cState # "TERMINATED"
    /\ ClientTerminate({})
    /\ UNCHANGED <<cLast, timed_out, channel, notices, alternates, linkVars>>

ClientChannelStep == ChannelReady \/ ChannelFails \/ ChannelNotice \/ ChannelDisconnects

ClientTimerStep ==
    \/ ict_on_timer_A \/ ict_on_timer_B \/ ict_on_timer_D \/ ict_on_timer_M
    \/ nict_on_timer_E \/ nict_on_timer_F \/ nict_on_timer_K

\* Every step of the client but the reception of a response, which takes a message
\* from the link.
ClientStep ==
    \/ SendRequestNoChannel \/ SendRequestReady \/ SendRequestWait
    \/ ClientChannelStep
    \/ ClientTimerStep
    \/ ClientAppTerminates
=============================================================================
