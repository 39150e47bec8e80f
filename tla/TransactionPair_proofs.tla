---------------------- MODULE TransactionPair_proofs ----------------------
(***************************************************************************)
(* Proofs about TransactionPair, for every set of codes, every set of      *)
(* methods and every bound.                                                *)
(***************************************************************************)
EXTENDS TransactionPair, TLAPS

-----------------------------------------------------------------------------
(* Type correctness *)

\* What the helpers of the client leave in told and toServer has the right type.
LEMMA TellType ==
    ASSUME NEW events, ClientTypeOK, Tell(events)
    PROVE  told' \in [Events -> 0..2]
BY DEF ClientTypeOK, Tell, Events

\* Ending the client transaction keeps the types of what it changes.
LEMMA ClientTerminateType ==
    ASSUME NEW events, ClientTypeOK, ClientTerminate(events)
    PROVE  /\ cState' \in ClientStates
           /\ cTimers' \subseteq ClientTimers
           /\ ack' \in BOOLEAN
           /\ listed' \in BOOLEAN
           /\ told' \in [Events -> 0..2]
<1>1. CASE cState = "TERMINATED"
  BY <1>1, TellType DEF ClientTerminate, ClientTypeOK
<1>2. CASE cState # "TERMINATED"
  BY <1>2, TellType DEF ClientTerminate, ClientTypeOK, ClientStates
<1> QED BY <1>1, <1>2

\* An error of the channel keeps its state, its notices and its addresses in bounds.
LEMMA ErrorType ==
    ASSUME ClientTypeOK, channel_handle_error
    PROVE  /\ channel' \in ChannelStates
           /\ notices' \in 0..MaxNotices
           /\ alternates' \in 0..MaxAlternates
BY ClientAssumption DEF ClientTypeOK, channel_handle_error, ChannelStates, MaxNotices

\* Sending the request, by either machine, keeps the types.
LEMMA SendRequestType ==
    ASSUME LinkTypeOK, send_request
    PROVE  /\ cState' \in ClientStates
           /\ cTimers' \subseteq ClientTimers
           /\ toServer' \subseteq {"REQUEST", "ACK"}
BY DEF LinkTypeOK, send_request, ict_send_request, nict_send_request, ClientStates, ClientTimers

\* So does the notice of a new state of the channel.
LEMMA StateChangedType ==
    ASSUME LinkTypeOK, ClientTypeOK, NEW st, on_channel_state_changed(st)
    PROVE  /\ cState' \in ClientStates
           /\ cTimers' \subseteq ClientTimers
           /\ toServer' \subseteq {"REQUEST", "ACK"}
           /\ ack' \in BOOLEAN
           /\ listed' \in BOOLEAN
           /\ told' \in [Events -> 0..2]
<1>1. CASE st \in {"ERROR", "DISCONNECTED"}
  BY <1>1, ClientTerminateType DEF on_channel_state_changed, LinkTypeOK
<1>2. CASE st \notin {"ERROR", "DISCONNECTED"}
  BY <1>2, SendRequestType DEF on_channel_state_changed, LinkTypeOK, ClientTypeOK
<1> QED BY <1>1, <1>2

\* So does the report of a timeout, directly or through the channel.
LEMMA TimeoutType ==
    ASSUME ClientTypeOK, NEW timer, notify_timeout(timer)
    PROVE  /\ cState' \in ClientStates
           /\ cTimers' \subseteq ClientTimers
           /\ ack' \in BOOLEAN
           /\ timed_out' \in BOOLEAN
           /\ listed' \in BOOLEAN
           /\ channel' \in ChannelStates
           /\ notices' \in 0..MaxNotices
           /\ alternates' \in 0..MaxAlternates
           /\ told' \in [Events -> 0..2]
<1>1. CASE method = "REGISTER"
  BY <1>1, ErrorType DEF notify_timeout, ClientTypeOK
<1>2. CASE method # "REGISTER"
  BY <1>2, ClientTerminateType DEF notify_timeout, ClientTypeOK
<1> QED BY <1>1, <1>2

\* So does the report of a response.
LEMMA ResponseType ==
    ASSUME ClientTypeOK, NEW code \in Codes, NEW st \in ClientStates,
           NEW before \in SUBSET ClientTimers, NEW later \in SUBSET ClientTimers,
           notify_response(code, st, before, later)
    PROVE  /\ cState' \in ClientStates
           /\ cTimers' \subseteq ClientTimers
           /\ cLast' \in Codes \cup {0}
           /\ ack' \in BOOLEAN
           /\ listed' \in BOOLEAN
           /\ told' \in [Events -> 0..2]
BY TellType DEF notify_response, TerminatedInCallback, ClientTypeOK, ClientStates

\* Each step of the client keeps the types of the client and of the link.
LEMMA ClientStepType ==
    ASSUME LinkTypeOK, ClientTypeOK, ClientStep
    PROVE  LinkTypeOK' /\ ClientTypeOK'
<1>1. CASE SendRequestNoChannel
  BY <1>1, ClientTerminateType DEF SendRequestNoChannel, ClientTypeOK, LinkTypeOK, linkVars, ChannelStates
<1>2. CASE SendRequestReady
  BY <1>2, SendRequestType DEF SendRequestReady, ClientTypeOK, LinkTypeOK, ChannelStates
<1>3. CASE SendRequestWait
  BY <1>3 DEF SendRequestWait, ClientTypeOK, LinkTypeOK, linkVars, ChannelStates, MaxNotices
<1>4. CASE ChannelReady
  BY <1>4, StateChangedType DEF ChannelReady, ClientTypeOK, LinkTypeOK, ChannelStates
<1>5. CASE ChannelFails
  BY <1>5, ErrorType DEF ChannelFails, ClientTypeOK, LinkTypeOK, linkVars
<1>6. CASE ChannelNotice
  BY <1>6, StateChangedType DEF ChannelNotice, ClientTypeOK, LinkTypeOK, MaxNotices
<1>7. CASE ChannelDisconnects
  BY <1>7, StateChangedType DEF ChannelDisconnects, ClientTypeOK, LinkTypeOK, ChannelStates
<1>8. CASE ict_on_timer_A
  BY <1>8 DEF ict_on_timer_A, ClientSend, clientVars, ClientTypeOK, LinkTypeOK
<1>9. CASE ict_on_timer_B
  BY <1>9, TimeoutType DEF ict_on_timer_B, TimerStops, ClientTypeOK, LinkTypeOK, linkVars
<1>10. CASE ict_on_timer_D
  BY <1>10, ClientTerminateType DEF ict_on_timer_D, TimerStops, ClientTypeOK, LinkTypeOK, linkVars
<1>11. CASE ict_on_timer_M
  BY <1>11, ClientTerminateType DEF ict_on_timer_M, TimerStops, ClientTypeOK, LinkTypeOK, linkVars
<1>12. CASE nict_on_timer_E
  BY <1>12 DEF nict_on_timer_E, ClientSend, TimerStops, clientVars, ClientTypeOK, LinkTypeOK
<1>13. CASE nict_on_timer_F
  BY <1>13, TimeoutType DEF nict_on_timer_F, TimerStops, ClientTypeOK, LinkTypeOK, linkVars
<1>14. CASE nict_on_timer_K
  BY <1>14, ClientTerminateType DEF nict_on_timer_K, TimerStops, ClientTypeOK, LinkTypeOK, linkVars
<1>15. CASE ClientAppTerminates
  BY <1>15, ClientTerminateType DEF ClientAppTerminates, ClientTypeOK, LinkTypeOK, linkVars
<1> QED BY <1>1, <1>2, <1>3, <1>4, <1>5, <1>6, <1>7, <1>8, <1>9, <1>10, <1>11, <1>12, <1>13,
           <1>14, <1>15 DEF ClientStep, ClientChannelStep, ClientTimerStep

\* Receiving a response keeps the types, in each state of each machine.
LEMMA RecvResponseType ==
    ASSUME LinkTypeOK, ClientTypeOK, NEW code \in Codes, RecvResponse(code)
    PROVE  ClientTypeOK' /\ toServer' \subseteq {"REQUEST", "ACK"}
<1>1. CASE IsInvite
  <2> DEFINE Post == /\ cState' \in ClientStates
                     /\ cTimers' \subseteq ClientTimers
                     /\ cLast' \in Codes \cup {0}
                     /\ ack' \in BOOLEAN
                     /\ listed' \in BOOLEAN
                     /\ told' \in [Events -> 0..2]
  <2>1. ict_on_response(code)
    BY <1>1 DEF RecvResponse
  <2>2. toServer' \subseteq {"REQUEST", "ACK"}
    BY <2>1 DEF ict_on_response, ClientSend, LinkTypeOK
  <2>3. ASSUME NEW st \in ClientStates, NEW before \in SUBSET {"M"}, NEW later \in SUBSET {"D"},
               notify_response(code, st, before, later)
        PROVE  Post
    BY <2>3, ResponseType DEF ClientTimers
  <2>4. ASSUME notify_response_again(code) PROVE Post
    <3>1. CASE notify_response(code, cState, {}, {})
      BY <3>1, <2>3 DEF ClientTypeOK
    <3>2. CASE cLast' = code /\ UNCHANGED <<cState, cTimers, ack, listed, told>>
      BY <3>2 DEF ClientTypeOK
    <3> QED BY <2>4, <3>1, <3>2 DEF notify_response_again
  <2>5. ASSUME UNCHANGED <<cState, cTimers, cLast, ack, listed, told>> PROVE Post
    BY <2>5 DEF ClientTypeOK
  <2>6. Post
    <3> HIDE DEF Post
    <3> QED BY <2>1, <2>3, <2>4, <2>5 DEF ict_on_response, ClientStates
  <2> QED BY <2>2, <2>6 DEF RecvResponse, ClientTypeOK
<1>2. CASE ~IsInvite
  <2>1. nict_on_response(code) /\ UNCHANGED toServer
    BY <1>2 DEF RecvResponse, nict_on_response
  <2>2. CASE cState = "TRYING" /\ code < 200 /\ notify_response(code, "PROCEEDING", {}, {})
    BY <2>1, <2>2, ResponseType DEF RecvResponse, ClientTypeOK, LinkTypeOK, ClientStates
  <2>3. CASE nict_set_completed(code) /\ reliable
    BY <2>1, <2>3, TellType DEF RecvResponse, nict_set_completed, TerminatedInCallback, ClientTypeOK,
         LinkTypeOK, ClientStates
  <2>4. CASE nict_set_completed(code) /\ ~reliable
    BY <2>1, <2>4, ResponseType DEF RecvResponse, nict_set_completed, ClientTypeOK, LinkTypeOK,
         ClientStates, ClientTimers
  <2> QED BY <2>1, <2>2, <2>3, <2>4 DEF nict_on_response
<1> QED BY <1>1, <1>2

\* TypeOK is not inductive: a response sent again is last_response, which must be set.
HasResponse == sState \in {"PROCEEDING", "COMPLETED"} => sLast \in Codes

\* Sending a response keeps the types of the server and sets last_response.
LEMMA SendResponseType ==
    ASSUME LinkTypeOK, ServerTypeOK, NEW code \in Codes, SendResponse(code)
    PROVE  LinkTypeOK' /\ ServerTypeOK' /\ HasResponse'
<1> USE DEF SendResponse, ServerSend, ServerQueue, LinkTypeOK, ServerTypeOK, ServerStates,
      ServerTimers, HasResponse
<1>1. CASE IsInvite
  <2>1. ist_send_new_response(code) /\ UNCHANGED <<sListed, servers, method, reliable, toServer>>
    BY <1>1
  <2>2. CASE UNCHANGED <<sState, sTimers, sFinals, toClient>> /\ sLast' = code
    BY <2>1, <2>2
  <2>3. CASE ServerSend(code) /\ sLast' = code /\ sState' = sState /\ sTimers' = sTimers
    BY <2>1, <2>3
  <2>4. CASE ServerSend(code) /\ sLast' = code /\ sState' \in {"ACCEPTED", "COMPLETED"}
               /\ sTimers' \subseteq sTimers \cup {"L", "H", "G"}
    BY <2>1, <2>4
  <2> QED BY <2>1, <2>2, <2>3, <2>4 DEF ist_send_new_response
<1>2. CASE ~IsInvite
  <2>1. nist_send_new_response(code) /\ UNCHANGED <<sListed, servers, method, reliable, toServer>>
    BY <1>2
  <2>2. CASE UNCHANGED <<sState, sTimers, sFinals, toClient>> /\ sLast' = code
    BY <2>1, <2>2
  <2>3. CASE ServerSend(code) /\ sLast' = code /\ sState' \in {"PROCEEDING", "COMPLETED"}
               /\ sTimers' \in {sTimers, sTimers \cup {"J"}}
    BY <2>1, <2>3
  <2> QED BY <2>1, <2>2, <2>3 DEF nist_send_new_response
<1> QED BY <1>1, <1>2

\* Each step of the server that takes no message keeps the types.
LEMMA ServerStepType ==
    ASSUME LinkTypeOK, ServerTypeOK, HasResponse, ServerStep
    PROVE  LinkTypeOK' /\ ServerTypeOK' /\ HasResponse'
<1>1. CASE \E code \in Codes : SendResponse(code)
  BY <1>1, SendResponseType
<1>2. CASE ist_on_timer_G
  BY <1>2 DEF ist_on_timer_G, ServerQueue, TimerStopsS, LinkTypeOK, ServerTypeOK, HasResponse
<1>3. CASE ist_on_timer_H \/ ist_on_timer_I \/ ist_on_timer_L \/ nist_on_timer_J \/ ServerAppTerminates
  BY <1>3 DEF ist_on_timer_H, ist_on_timer_I, ist_on_timer_L, nist_on_timer_J, ServerAppTerminates,
       ServerTerminate, TimerStopsS, linkVars, LinkTypeOK, ServerTypeOK, ServerStates, HasResponse
<1> QED BY <1>1, <1>2, <1>3 DEF ServerStep, ServerTimerStep

\* Receiving a request or an ACK keeps the types.
LEMMA ServerReceivesType ==
    ASSUME LinkTypeOK, ServerTypeOK, HasResponse, ServerReceivesRequest \/ ServerReceivesAck
    PROVE  LinkTypeOK' /\ ServerTypeOK' /\ HasResponse'
<1>1. CASE RecvNewRequest /\ toServer' = Delivered(toServer, "REQUEST")
  BY <1>1, ServerAssumption DEF RecvNewRequest, ist_new, nist_new, Delivered, LinkTypeOK,
       ServerTypeOK, ServerStates, HasResponse
<1>2. CASE RecvRetransmission /\ toServer' = Delivered(toServer, "REQUEST")
  BY <1>2 DEF RecvRetransmission, on_request_retransmission, ServerQueue, Delivered, LinkTypeOK,
       ServerTypeOK, serverVars, HasResponse
<1>3. CASE ServerReceivesAck
  BY <1>3 DEF ServerReceivesAck, RecvAck, ist_process_ack, ServerTerminate, Delivered, LinkTypeOK,
       ServerTypeOK, ServerStates, ServerTimers, HasResponse
<1> QED BY <1>1, <1>2, <1>3 DEF ServerReceivesRequest

\* The type invariant with what it needs.
TypeInv == TypeOK /\ HasResponse

\* The type invariant holds initially.
LEMMA TypeInit == Init => TypeInv
<1> SUFFICES ASSUME Init PROVE TypeInv
  OBVIOUS
<1>1. LinkTypeOK
  BY DEF Init, LinkInit, LinkTypeOK
<1>2. ClientTypeOK
  <2>1. /\ cState \in ClientStates
        /\ cTimers \subseteq ClientTimers
        /\ cLast \in Codes \cup {0}
        /\ channel \in ChannelStates
        /\ notices \in 0..MaxNotices
        /\ alternates \in 0..MaxAlternates
    BY DEF Init, ClientInit, ClientStates, ChannelStates, MaxNotices
  <2>2. ack \in BOOLEAN /\ timed_out \in BOOLEAN /\ listed \in BOOLEAN
    BY Zenon DEF Init, ClientInit
  <2>3. told \in [Events -> 0..2]
    BY DEF Init, ClientInit
  <2> QED BY <2>1, <2>2, <2>3 DEF ClientTypeOK
<1>3. ServerTypeOK /\ HasResponse
  <2>1. /\ sState \in ServerStates
        /\ sTimers \subseteq ServerTimers
        /\ sLast \in Codes \cup {0}
        /\ servers \in 0..MaxServers
        /\ sFinals \subseteq Codes
    BY ServerAssumption DEF Init, ServerInit, ServerStates
  <2>2. sListed \in BOOLEAN
    BY Zenon DEF Init, ServerInit
  <2>3. HasResponse
    BY DEF Init, ServerInit, HasResponse
  <2> QED BY <2>1, <2>2, <2>3 DEF ServerTypeOK
<1> QED BY <1>1, <1>2, <1>3 DEF TypeInv, TypeOK

\* Each step keeps the type invariant.
LEMMA TypeStep == TypeInv /\ [Next]_vars => TypeInv'
<1> SUFFICES ASSUME TypeInv, [Next]_vars PROVE TypeInv'
  OBVIOUS
<1> USE DEF TypeInv, TypeOK
<1>1. CASE ClientStep /\ UNCHANGED serverVars
  BY <1>1, ClientStepType DEF ServerTypeOK, serverVars, HasResponse
<1>2. ASSUME NEW code \in Codes, ClientReceives(code) PROVE TypeInv'
  <2>1. ClientTypeOK' /\ toServer' \subseteq {"REQUEST", "ACK"}
    BY <1>2, RecvResponseType DEF ClientReceives
  <2> QED BY <1>2, <2>1 DEF ClientReceives, RecvResponse, Delivered, LinkTypeOK, ServerTypeOK,
            serverVars, HasResponse
<1>3. CASE ServerStep /\ UNCHANGED clientVars
  BY <1>3, ServerStepType DEF ClientTypeOK, clientVars
<1>4. CASE ServerReceivesRequest \/ ServerReceivesAck
  BY <1>4, ServerReceivesType DEF ServerReceivesRequest, ServerReceivesAck, ClientTypeOK, clientVars
<1>5. CASE Loses
  BY <1>5 DEF Loses, LinkTypeOK, ClientTypeOK, ServerTypeOK, clientVars, serverVars, HasResponse
<1>6. CASE UNCHANGED vars
  BY <1>6 DEF vars, LinkTypeOK, ClientTypeOK, ServerTypeOK, HasResponse
<1> QED BY <1>1, <1>2, <1>3, <1>4, <1>5, <1>6 DEF Next

\* Every variable keeps its type: no counter leaves its bounds, no address beyond the
\* last one is tried (channel.c 850-870) and no message of another kind is sent.
THEOREM TypeCorrect == Spec => []TypeOK
<1>1. TypeInv => TypeOK
  BY DEF TypeInv
<1> QED BY <1>1, TypeInit, TypeStep, PTL DEF Spec

-----------------------------------------------------------------------------
(* The inductive invariant, in parts *)

\* The states of a client transaction before its outcome is known.
Undecided == {"INIT", "CALLING", "TRYING", "PROCEEDING"}

\* Nothing is reported before the outcome is known, and a transaction that got its
\* final response has reported nothing else until it ends.
OutcomeInv ==
    /\ method # "REGISTER" => ~timed_out
    /\ cState \in Undecided => cLast < 200 /\ \A e \in Events : told[e] = 0
    /\ cState \in {"COMPLETED", "ACCEPTED"} =>
          told["final"] > 0 /\ \A e \in Events \ {"final"} : told[e] = 0
    /\ cState = "ACCEPTED" => cLast < 300
    /\ OneOutcome

\* A server transaction has one final response, and as long as it is the only one,
\* every final response in flight or received is that one.
FinalInv ==
    /\ sState = "NONE" <=> servers = 0
    /\ sState = "NONE" => sTimers = {}
    /\ servers = 0 => toClient = {} /\ cLast = 0
    /\ sState \in {"NONE", "TRYING", "PROCEEDING"} => sFinals = {} /\ sLast < 200
    /\ sState = "COMPLETED" => sLast \in sFinals
    /\ \A a, b \in sFinals : a = b
    /\ servers = 1 => \A c \in toClient \cup {cLast} : c >= 200 => c \in sFinals

\* An ACK is sent after a failure response, which the client then keeps for ever.
AckInv ==
    /\ cLast >= 300 => cState \in {"COMPLETED", "TERMINATED"}
    /\ IsInvite /\ cState = "COMPLETED" => cLast >= 300
    /\ "ACK" \in toServer => cLast >= 300
    /\ ConfirmedKnowsFailure

\* The timers, and which machine has which state.
TimerInv ==
    /\ cState \in {"CALLING", "ACCEPTED"} => IsInvite
    /\ WaitingIsTimed

IInv == TypeInv /\ OutcomeInv /\ FinalInv /\ AckInv /\ TimerInv

-----------------------------------------------------------------------------
(* What the steps leave alone *)

\* A step of the client that receives nothing leaves the responses alone.
LEMMA ClientFrame == ClientStep => UNCHANGED <<cLast, method, reliable, toClient>>
<1> SUFFICES ASSUME ClientStep PROVE UNCHANGED <<cLast, method, reliable, toClient>>
  OBVIOUS
<1>1. CASE SendRequestNoChannel \/ SendRequestReady \/ SendRequestWait \/ ClientAppTerminates
  BY <1>1 DEF SendRequestNoChannel, SendRequestReady, SendRequestWait, ClientAppTerminates, linkVars
<1>2. CASE ClientChannelStep
  BY <1>2 DEF ClientChannelStep, ChannelReady, ChannelFails, ChannelNotice, ChannelDisconnects, linkVars
<1>3. CASE ClientTimerStep
  BY <1>3 DEF ClientTimerStep, ict_on_timer_A, ict_on_timer_B, ict_on_timer_D, ict_on_timer_M,
       nict_on_timer_E, nict_on_timer_F, nict_on_timer_K, linkVars, clientVars
<1> QED BY <1>1, <1>2, <1>3 DEF ClientStep

\* A step of the server that takes no message leaves the requests in flight alone.
LEMMA ServerFrame ==
    ASSUME \/ ServerStep /\ UNCHANGED clientVars
           \/ ServerReceivesRequest
           \/ ServerReceivesAck
           \/ Loses
    PROVE  UNCHANGED <<clientVars, method, reliable>>
<1>1. CASE ServerStep /\ UNCHANGED clientVars
  BY <1>1 DEF ServerStep, SendResponse, ServerTimerStep, ist_on_timer_G, ist_on_timer_H, ist_on_timer_I,
       ist_on_timer_L, nist_on_timer_J, ServerAppTerminates, linkVars
<1>2. CASE ServerReceivesRequest
  BY <1>2 DEF ServerReceivesRequest, RecvNewRequest, RecvRetransmission
<1>3. CASE ServerReceivesAck
  BY <1>3 DEF ServerReceivesAck, RecvAck
<1>4. CASE Loses
  BY <1>4 DEF Loses
<1> QED BY <1>1, <1>2, <1>3, <1>4

-----------------------------------------------------------------------------
(* One outcome *)

\* What a report adds to what was told.
LEMMA TellEffect ==
    ASSUME NEW events, ClientTypeOK, Tell(events)
    PROVE  /\ \A e \in Events \ events : told'[e] = told[e]
           /\ \A e \in Events \cap events : told[e] = 0 => told'[e] = 1
           /\ \A e \in Events \cap events : told'[e] > 0
           /\ \A e \in Events : told'[e] >= told[e]
BY DEF ClientTypeOK, Tell

\* Ending a transaction that reports at most one failure, and only if undecided.
LEMMA TerminateOutcome ==
    ASSUME TypeOK, OutcomeInv, NEW events \in SUBSET {"timeout", "io_error"},
           ClientTerminate(events), UNCHANGED <<cLast, method>>,
           method # "REGISTER" => ~timed_out',
           method # "REGISTER" /\ cState \notin Undecided => events = {},
           method # "REGISTER" => "timeout" \notin events \/ "io_error" \notin events
    PROVE  OutcomeInv'
<1>1. CASE cState = "TERMINATED"
  <2>1. cState' = "TERMINATED" /\ Tell(events)
    BY <1>1 DEF ClientTerminate
  <2>2. told'["final"] = told["final"] /\ told'["terminated"] = told["terminated"]
    BY <2>1, TellEffect DEF TypeOK, Events
  <2>3. method # "REGISTER" => told'["timeout"] = told["timeout"] /\ told'["io_error"] = told["io_error"]
    BY <1>1, <2>1, TellEffect DEF TypeOK, Events, Undecided
  <2> QED BY <2>1, <2>2, <2>3 DEF OutcomeInv, OneOutcome, Outcomes, Undecided
<1>2. CASE cState # "TERMINATED"
  <2>1. cState' = "TERMINATED" /\ Tell(events \cup {"terminated"})
    BY <1>2 DEF ClientTerminate
  <2>2. told["terminated"] = 0 /\ told["timeout"] = 0 /\ told["io_error"] = 0
    BY <1>2 DEF OutcomeInv, TypeOK, ClientTypeOK, ClientStates, Undecided, Events
  <2>3. told'["final"] = told["final"] /\ told'["terminated"] = 1
    BY <2>1, <2>2, TellEffect DEF TypeOK, Events
  <2>4. \A e \in {"timeout", "io_error"} : IF e \in events THEN told'[e] = 1 ELSE told'[e] = 0
    BY <2>1, <2>2, TellEffect DEF TypeOK, Events
  <2>5. cState \in Undecided => told["final"] = 0
    BY DEF OutcomeInv, Events
  <2>6. method # "REGISTER" => \A e, f \in Outcomes(told') : e = f
    <3> SUFFICES ASSUME method # "REGISTER", NEW e \in Outcomes(told'), NEW f \in Outcomes(told')
                 PROVE  e = f
      OBVIOUS
    <3>1. CASE cState \in Undecided
      BY <3>1, <2>3, <2>4, <2>5 DEF Outcomes
    <3>2. CASE cState \notin Undecided
      BY <3>2, <2>3, <2>4 DEF Outcomes
    <3> QED BY <3>1, <3>2
  <2>7. cLast' >= 300 => told'["final"] = 1
    BY <2>3 DEF OutcomeInv, OneOutcome
  <2>8. OneOutcome'
    BY <2>3, <2>4, <2>6, <2>7 DEF OneOutcome
  <2> QED BY <2>1, <2>8 DEF OutcomeInv, Undecided
<1> QED BY <1>1, <1>2

\* A step that tells nothing and does not decide the outcome.
LEMMA QuietOutcome ==
    ASSUME OutcomeInv, UNCHANGED <<cLast, method, told>>,
           method # "REGISTER" => ~timed_out',
           cState' = cState \/ (cState \in Undecided /\ cState' \in Undecided)
    PROVE  OutcomeInv'
BY DEF OutcomeInv, OneOutcome, Undecided

\* A notice of the channel reports an I/O error only if the outcome is open.
LEMMA StateChangedOutcome ==
    ASSUME TypeOK, OutcomeInv, NEW st, on_channel_state_changed(st),
           UNCHANGED <<cLast, method, timed_out>>
    PROVE  OutcomeInv'
<1>1. CASE st \in {"ERROR", "DISCONNECTED"}
  <2> DEFINE ev == (IF cState \notin ReportedStates THEN {"io_error"} ELSE {})
                     \cup (IF timed_out THEN {"timeout"} ELSE {})
  <2>1. ClientTerminate(ev)
    BY <1>1 DEF on_channel_state_changed
  <2>2. ev \in SUBSET {"timeout", "io_error"}
    OBVIOUS
  <2>3. method # "REGISTER" => ~timed_out /\ ~timed_out'
    BY DEF OutcomeInv
  <2>4. cState \notin Undecided => cState \in ReportedStates
    BY DEF TypeOK, ClientTypeOK, ClientStates, Undecided, ReportedStates
  <2>5. method # "REGISTER" => /\ cState \notin Undecided => ev = {}
                               /\ "timeout" \notin ev
    BY <2>3, <2>4
  <2> HIDE DEF ev
  <2> QED BY <2>1, <2>2, <2>3, <2>5, TerminateOutcome
<1>2. CASE st \notin {"ERROR", "DISCONNECTED"}
  <2>1. told' = told /\ (cState' = cState \/ (cState \in Undecided /\ cState' \in Undecided))
    BY <1>2 DEF on_channel_state_changed, send_request, ict_send_request, nict_send_request, Undecided
  <2> QED BY <2>1, QuietOutcome DEF OutcomeInv
<1> QED BY <1>1, <1>2

\* A timeout is reported only if the outcome is open, and ends the transaction.
LEMMA TimeoutOutcome ==
    ASSUME TypeOK, OutcomeInv, NEW timer, notify_timeout(timer), cState \in Undecided,
           UNCHANGED <<cLast, method>>
    PROVE  OutcomeInv'
<1>1. CASE method = "REGISTER"
  BY <1>1, QuietOutcome DEF notify_timeout
<1>2. CASE method # "REGISTER"
  BY <1>2, TerminateOutcome DEF notify_timeout, OutcomeInv
<1> QED BY <1>1, <1>2

\* A handler that stops a timer or ends the transaction without a report.
LEMMA EndOutcome ==
    ASSUME TypeOK, OutcomeInv, UNCHANGED <<cLast, method>>,
           \/ ClientTerminate({}) /\ UNCHANGED timed_out
           \/ \E timer : TimerStops(timer)
    PROVE  OutcomeInv'
<1>1. CASE ClientTerminate({}) /\ UNCHANGED timed_out
  BY <1>1, TerminateOutcome DEF OutcomeInv
<1>2. CASE \E timer : TimerStops(timer)
  BY <1>2, QuietOutcome DEF TimerStops, OutcomeInv
<1> QED BY <1>1, <1>2

\* The first final response, or a provisional one.
LEMMA FirstResponseOutcome ==
    ASSUME TypeOK, OutcomeInv, NEW code \in Codes, NEW st, NEW before, NEW later,
           notify_response(code, st, before, later), UNCHANGED <<method, timed_out>>,
           cState \in Undecided,
           \/ code < 200 /\ st = "PROCEEDING"
           \/ code >= 200 /\ st = "COMPLETED"
           \/ code \in 200..299 /\ st = "ACCEPTED"
    PROVE  OutcomeInv'
<1>1. code \in Nat /\ cLast' = code
  BY LinkAssumption DEF notify_response
<1>2. told["final"] = 0 /\ told["timeout"] = 0 /\ told["io_error"] = 0 /\ told["terminated"] = 0
  BY DEF OutcomeInv, Events
<1>3. /\ cState' = st \/ cState' = "TERMINATED"
      /\ told'["final"] = IF code >= 200 THEN 1 ELSE 0
      /\ told'["timeout"] = 0
      /\ told'["io_error"] = 0
      /\ told'["terminated"] \in {0, 1}
      /\ cState' = st => told'["terminated"] = 0
  <2>1. CASE cState' = st /\ Tell(FinalEvent(code))
    BY <1>1, <1>2, <2>1, TellEffect DEF TypeOK, Events, FinalEvent
  <2>2. CASE TerminatedInCallback(code, later)
    <3>1. Tell(FinalEvent(code) \cup {"terminated"}) /\ cState' = "TERMINATED"
      BY <2>2 DEF TerminatedInCallback
    <3>2. st # "TERMINATED"
      OBVIOUS
    <3> QED BY <1>1, <1>2, <3>1, <3>2, TellEffect DEF TypeOK, Events, FinalEvent
  <2> QED BY <2>1, <2>2 DEF notify_response
<1>4. OneOutcome'
  BY <1>1, <1>3 DEF OneOutcome, Outcomes
<1> QED BY <1>1, <1>3, <1>4 DEF OutcomeInv, Undecided, Events

\* A received response keeps to one outcome, in each state of each machine.
LEMMA RecvResponseOutcome ==
    ASSUME TypeOK, OutcomeInv, NEW code \in Codes, RecvResponse(code)
    PROVE  OutcomeInv'
<1>0. UNCHANGED <<method, timed_out>> /\ code \in Nat
  BY LinkAssumption DEF RecvResponse
<1>1. CASE IsInvite /\ cState \in {"CALLING", "PROCEEDING"}
  <2>1. \/ code >= 300 /\ notify_response(code, "COMPLETED", {}, {"D"})
        \/ code \in 200..299 /\ notify_response(code, "ACCEPTED", {"M"}, {})
        \/ code < 200 /\ notify_response(code, "PROCEEDING", {}, {})
    BY <1>0, <1>1 DEF RecvResponse, ict_on_response
  <2> QED BY <1>0, <1>1, <2>1, FirstResponseOutcome DEF Undecided
<1>2. CASE IsInvite /\ cState = "ACCEPTED"
  <2>1. code \in 200..299 /\ notify_response_again(code)
    BY <1>2 DEF RecvResponse, ict_on_response
  <2>2. told["final"] > 0 /\ told["timeout"] = 0 /\ told["io_error"] = 0 /\ told["terminated"] = 0
    BY <1>2 DEF OutcomeInv, Events
  <2>3. CASE cLast' = code /\ UNCHANGED <<cState, told>>
    BY <1>0, <1>2, <2>1, <2>3 DEF OutcomeInv, OneOutcome, Undecided
  <2>4. CASE notify_response(code, cState, {}, {})
    <3>1. cLast' = code /\ (cState' = "ACCEPTED" \/ cState' = "TERMINATED")
      BY <1>2, <2>4 DEF notify_response, TerminatedInCallback
    <3>2. /\ told'["final"] > 0
          /\ told'["timeout"] = 0
          /\ told'["io_error"] = 0
          /\ told'["terminated"] \in {0, 1}
          /\ cState' = "ACCEPTED" => told'["terminated"] = 0
      <4>1. CASE cState' = cState /\ Tell(FinalEvent(code))
        BY <1>2, <2>1, <2>2, <4>1, TellEffect DEF TypeOK, Events, FinalEvent
      <4>2. CASE TerminatedInCallback(code, {})
        <5>1. Tell(FinalEvent(code) \cup {"terminated"}) /\ cState' = "TERMINATED"
          BY <4>2 DEF TerminatedInCallback
        <5> QED BY <2>1, <2>2, <5>1, TellEffect DEF TypeOK, Events, FinalEvent
      <4> QED BY <2>4, <4>1, <4>2 DEF notify_response
    <3>3. OneOutcome'
      BY <2>1, <3>1, <3>2 DEF OneOutcome, Outcomes
    <3> QED BY <1>0, <2>1, <3>1, <3>2, <3>3 DEF OutcomeInv, Undecided, Events
  <2> QED BY <2>1, <2>3, <2>4 DEF notify_response_again
<1>3. CASE IsInvite /\ cState \notin {"CALLING", "PROCEEDING", "ACCEPTED"}
  <2>1. UNCHANGED <<cState, cLast, told>>
    BY <1>3 DEF RecvResponse, ict_on_response
  <2> QED BY <1>0, <2>1, QuietOutcome DEF OutcomeInv
<1>4. CASE ~IsInvite
  <2>1. nict_on_response(code) /\ cState \in Undecided
    BY <1>4 DEF RecvResponse, nict_on_response, Undecided
  <2>2. CASE code < 200 /\ notify_response(code, "PROCEEDING", {}, {})
    BY <1>0, <2>1, <2>2, FirstResponseOutcome
  <2>3. CASE code >= 200 /\ nict_set_completed(code)
    <3>1. notify_response(code, "COMPLETED", {}, {"K"}) \/ notify_response(code, "COMPLETED", {}, {})
      BY <2>3 DEF nict_set_completed, notify_response
    <3> QED BY <1>0, <2>1, <2>3, <3>1, FirstResponseOutcome
  <2> QED BY <2>1, <2>2, <2>3 DEF nict_on_response
<1> QED BY <1>1, <1>2, <1>3, <1>4

\* Each step keeps to one outcome.
LEMMA OutcomeStep ==
    ASSUME TypeOK, OutcomeInv, [Next]_vars
    PROVE  OutcomeInv'
<1>1. CASE ClientStep
  <2>1. UNCHANGED <<cLast, method>>
    BY <1>1, ClientFrame
  <2>2. CASE SendRequestNoChannel \/ ClientAppTerminates
    BY <2>1, <2>2, EndOutcome DEF SendRequestNoChannel, ClientAppTerminates
  <2>3. CASE SendRequestReady \/ SendRequestWait
    BY <2>1, <2>3, QuietOutcome DEF SendRequestReady, SendRequestWait, Unsent, send_request,
         ict_send_request, nict_send_request, Undecided, OutcomeInv
  <2>4. CASE ChannelReady \/ ChannelNotice \/ ChannelDisconnects
    BY <2>1, <2>4, StateChangedOutcome DEF ChannelReady, ChannelNotice, ChannelDisconnects
  <2>5. CASE ChannelFails
    BY <2>1, <2>5, QuietOutcome DEF ChannelFails, OutcomeInv
  <2>6. CASE ict_on_timer_A \/ nict_on_timer_E
    <3>1. cState' = cState /\ timed_out' = timed_out /\ told' = told
      BY <2>6 DEF ict_on_timer_A, nict_on_timer_E, TimerStops, clientVars
    <3> QED BY <2>1, <3>1, QuietOutcome DEF OutcomeInv
  <2>7. CASE ict_on_timer_B \/ nict_on_timer_F
    <3>1. \/ cState \in Undecided /\ \E timer : notify_timeout(timer)
          \/ \E timer : TimerStops(timer)
      BY <2>7 DEF ict_on_timer_B, nict_on_timer_F, Undecided
    <3> QED BY <2>1, <3>1, TimeoutOutcome, EndOutcome
  <2>8. CASE ict_on_timer_D \/ ict_on_timer_M \/ nict_on_timer_K
    BY <2>1, <2>8, EndOutcome DEF ict_on_timer_D, ict_on_timer_M, nict_on_timer_K
  <2> QED BY <1>1, <2>2, <2>3, <2>4, <2>5, <2>6, <2>7, <2>8
        DEF ClientStep, ClientChannelStep, ClientTimerStep
<1>2. ASSUME NEW code \in Codes, ClientReceives(code) PROVE OutcomeInv'
  BY <1>2, RecvResponseOutcome DEF ClientReceives
<1>3. CASE UNCHANGED <<clientVars, method, reliable>>
  BY <1>3, QuietOutcome DEF clientVars, OutcomeInv
<1>4. CASE UNCHANGED vars
  BY <1>3, <1>4 DEF vars, clientVars
<1> QED BY <1>1, <1>2, <1>3, <1>4, ServerFrame DEF Next

-----------------------------------------------------------------------------
(* Agreement on the final response *)

\* Steps of the client that receive nothing, and losses, do not disturb FinalInv.
LEMMA FinalQuiet ==
    ASSUME FinalInv, UNCHANGED <<serverVars, cLast>>, toClient' \subseteq toClient
    PROVE  FinalInv'
BY DEF FinalInv, serverVars

\* The client takes its final response from the ones in flight.
LEMMA FinalReceive ==
    ASSUME TypeOK, FinalInv, NEW code \in Codes, ClientReceives(code)
    PROVE  FinalInv'
<1>1. /\ cLast' \in {cLast, code}
      /\ code \in toClient
      /\ toClient' \subseteq toClient
      /\ UNCHANGED serverVars
  BY DEF ClientReceives, RecvResponse, Delivered, ict_on_response, nict_on_response,
       nict_set_completed, notify_response, notify_response_again
<1> QED BY <1>1 DEF FinalInv, serverVars

\* A response is sent as final only if none was before.
LEMMA FinalSendResponse ==
    ASSUME TypeInv, FinalInv, NEW code \in Codes, SendResponse(code), UNCHANGED clientVars
    PROVE  FinalInv'
<1>0. code \in Nat /\ code >= 100 /\ UNCHANGED <<servers, cLast>> /\ sState # "NONE"
  BY LinkAssumption DEF SendResponse, clientVars
<1>1. CASE UNCHANGED <<sState, sFinals, toClient>> /\ sState \in {"ACCEPTED", "TERMINATED"}
  BY <1>0, <1>1 DEF FinalInv
<1>2. CASE /\ ServerSend(code)
           /\ sLast' = code
           /\ sState \in {"TRYING", "PROCEEDING"}
           /\ \/ code < 200 /\ sState' = "PROCEEDING"
              \/ code >= 200 /\ sState' \in {"ACCEPTED", "COMPLETED"}
  <2>1. sFinals = {} /\ toClient' = toClient \cup {code}
    BY <1>2 DEF FinalInv, ServerSend, ServerQueue
  <2>2. sFinals' = IF code >= 200 THEN {code} ELSE {}
    BY <1>2, <2>1 DEF ServerSend
  <2>3. servers # 0
    BY <1>0 DEF FinalInv
  <2> QED BY <1>0, <1>2, <2>1, <2>2, <2>3 DEF FinalInv
<1>3. \/ UNCHANGED <<sState, sFinals, toClient>> /\ sState \in {"ACCEPTED", "TERMINATED"}
      \/ /\ ServerSend(code)
         /\ sLast' = code
         /\ sState \in {"TRYING", "PROCEEDING"}
         /\ \/ code < 200 /\ sState' = "PROCEEDING"
            \/ code >= 200 /\ sState' \in {"ACCEPTED", "COMPLETED"}
  <2>1. CASE IsInvite
    BY <1>0, <2>1 DEF SendResponse, ist_send_new_response
  <2>2. CASE ~IsInvite
    BY <1>0, <2>2 DEF SendResponse, nist_send_new_response
  <2> QED BY <2>1, <2>2
<1> QED BY <1>1, <1>2, <1>3

\* The server sends last_response again, or ends, or does nothing.
LEMMA FinalRepeat ==
    ASSUME TypeInv, FinalInv, UNCHANGED <<sLast, servers, sFinals, cLast>>,
           \/ sState \in {"PROCEEDING", "COMPLETED"} /\ sState' = sState /\ ServerQueue(sLast)
           \/ UNCHANGED toClient /\ sState' = sState /\ sTimers' \subseteq sTimers
           \/ UNCHANGED toClient /\ sState # "NONE" /\ sState' \in {"CONFIRMED", "TERMINATED"}
    PROVE  FinalInv'
<1>1. CASE sState \in {"PROCEEDING", "COMPLETED"} /\ sState' = sState /\ ServerQueue(sLast)
  <2>1. servers # 0 /\ toClient' = toClient \cup {sLast}
    BY <1>1 DEF FinalInv, ServerQueue
  <2>2. sLast >= 200 => sLast \in sFinals
    BY <1>1, LinkAssumption DEF FinalInv, TypeInv, TypeOK, ServerTypeOK
  <2> QED BY <1>1, <2>1, <2>2 DEF FinalInv
<1>2. CASE UNCHANGED toClient /\ sState' = sState /\ sTimers' \subseteq sTimers
  BY <1>2 DEF FinalInv
<1>3. CASE UNCHANGED toClient /\ sState # "NONE" /\ sState' \in {"CONFIRMED", "TERMINATED"}
  BY <1>3 DEF FinalInv
<1> QED BY <1>1, <1>2, <1>3

\* Each step keeps client and server agreed on the final response.
LEMMA FinalStep ==
    ASSUME TypeInv, FinalInv, [Next]_vars
    PROVE  FinalInv'
<1>1. CASE ClientStep /\ UNCHANGED serverVars
  BY <1>1, ClientFrame, FinalQuiet
<1>2. ASSUME NEW code \in Codes, ClientReceives(code) PROVE FinalInv'
  BY <1>2, FinalReceive DEF TypeInv
<1>3. CASE ServerStep /\ UNCHANGED clientVars
  <2>1. CASE \E code \in Codes : SendResponse(code)
    BY <1>3, <2>1, FinalSendResponse
  <2>2. CASE ist_on_timer_G
    BY <1>3, <2>2, FinalRepeat DEF ist_on_timer_G, TimerStopsS, clientVars
  <2>3. CASE \/ ist_on_timer_H
             \/ ist_on_timer_I
             \/ ist_on_timer_L
             \/ nist_on_timer_J
             \/ ServerAppTerminates
    <3>1. UNCHANGED <<sLast, servers, sFinals, cLast, toClient>>
      BY <1>3, <2>3 DEF ist_on_timer_H, ist_on_timer_I, ist_on_timer_L, nist_on_timer_J,
           ServerAppTerminates, linkVars, clientVars
    <3>2. sState # "NONE"
      BY <2>3 DEF FinalInv, ist_on_timer_H, ist_on_timer_I, ist_on_timer_L, nist_on_timer_J,
           ServerAppTerminates
    <3>3. \/ sState' = "TERMINATED"
          \/ sState' = sState /\ sTimers' \subseteq sTimers
      BY <2>3 DEF ist_on_timer_H, ist_on_timer_I, ist_on_timer_L, nist_on_timer_J,
           ServerAppTerminates, ServerTerminate, TimerStopsS
    <3> QED BY <3>1, <3>2, <3>3, FinalRepeat
  <2> QED BY <1>3, <2>1, <2>2, <2>3 DEF ServerStep, ServerTimerStep
<1>4. CASE ServerReceivesRequest
  <2>1. UNCHANGED clientVars /\ (RecvNewRequest \/ RecvRetransmission)
    BY <1>4 DEF ServerReceivesRequest
  <2>2. CASE RecvRetransmission
    BY <2>1, <2>2, FinalRepeat DEF RecvRetransmission, on_request_retransmission, serverVars, clientVars
  <2>3. CASE RecvNewRequest
    <3>1. /\ sState' \in {"TRYING", "PROCEEDING"} /\ sLast' \in {0, 100}
          /\ sFinals' = {} /\ servers' = servers + 1
          /\ toClient' \subseteq toClient \cup {100}
      BY <2>3 DEF RecvNewRequest, ist_new, nist_new
    <3>2. servers \in Nat /\ cLast' = cLast
      BY <2>1, ServerAssumption DEF TypeInv, TypeOK, ServerTypeOK, clientVars
    <3> QED BY <3>1, <3>2 DEF FinalInv
  <2> QED BY <2>1, <2>2, <2>3
<1>5. CASE ServerReceivesAck
  BY <1>5, FinalRepeat DEF ServerReceivesAck, RecvAck, ist_process_ack, ServerTerminate, clientVars
<1>6. CASE Loses
  <2>1. UNCHANGED <<serverVars, cLast>> /\ toClient' \subseteq toClient
    BY <1>6 DEF Loses, clientVars
  <2> QED BY <2>1, FinalQuiet
<1>7. CASE UNCHANGED vars
  BY <1>7, FinalQuiet DEF vars, serverVars
<1> QED BY <1>1, <1>2, <1>3, <1>4, <1>5, <1>6, <1>7 DEF Next

-----------------------------------------------------------------------------
(* The ACK *)

\* What a step of the client that receives nothing may do to its state and to the link.
LEMMA ClientStepShape ==
    ASSUME ClientStep
    PROVE  /\ \/ cState' = cState
              \/ cState' = "TERMINATED"
              \/ cState = "INIT" /\ cState' = (IF IsInvite THEN "CALLING" ELSE "TRYING")
           /\ toServer' \subseteq toServer \cup {"REQUEST"}
<1>1. CASE SendRequestNoChannel \/ ClientAppTerminates
  BY <1>1 DEF SendRequestNoChannel, ClientAppTerminates, ClientTerminate, linkVars
<1>2. CASE SendRequestReady \/ SendRequestWait
  BY <1>2 DEF SendRequestReady, SendRequestWait, Unsent, send_request, ict_send_request,
       nict_send_request, linkVars
<1>3. CASE ChannelReady \/ ChannelNotice \/ ChannelDisconnects
  <2>1. PICK st : on_channel_state_changed(st)
    BY <1>3 DEF ChannelReady, ChannelNotice, ChannelDisconnects
  <2>2. CASE st \in {"ERROR", "DISCONNECTED"}
    BY <2>1, <2>2 DEF on_channel_state_changed, ClientTerminate
  <2>3. CASE st \notin {"ERROR", "DISCONNECTED"}
    BY <2>1, <2>3 DEF on_channel_state_changed, send_request, ict_send_request, nict_send_request
  <2> QED BY <2>2, <2>3
<1>4. CASE ChannelFails
  BY <1>4 DEF ChannelFails, linkVars
<1>5. CASE ict_on_timer_A \/ nict_on_timer_E
  BY <1>5 DEF ict_on_timer_A, nict_on_timer_E, ClientSend, TimerStops, clientVars
<1>6. CASE ict_on_timer_B \/ nict_on_timer_F
  BY <1>6 DEF ict_on_timer_B, nict_on_timer_F, notify_timeout, ClientTerminate, TimerStops, linkVars
<1>7. CASE ict_on_timer_D \/ ict_on_timer_M \/ nict_on_timer_K
  BY <1>7 DEF ict_on_timer_D, ict_on_timer_M, nict_on_timer_K, ClientTerminate, TimerStops, linkVars
<1> QED BY <1>1, <1>2, <1>3, <1>4, <1>5, <1>6, <1>7 DEF ClientStep, ClientChannelStep, ClientTimerStep

\* What the reception of a response may do to the state, the last response and the timers.
LEMMA RecvResponseShape ==
    ASSUME TypeOK, NEW code \in Codes, RecvResponse(code)
    PROVE  \/ /\ IsInvite /\ cState \in {"CALLING", "PROCEEDING"} /\ cLast' = code
              /\ \/ /\ code >= 300
                    /\ (cState' = "COMPLETED" /\ "D" \in cTimers') \/ cState' = "TERMINATED"
                    /\ toServer' \subseteq toServer \cup {"ACK"}
                 \/ /\ code \in 200..299
                    /\ (cState' = "ACCEPTED" /\ "M" \in cTimers') \/ cState' = "TERMINATED"
                    /\ toServer' = toServer
                 \/ /\ code < 200
                    /\ cState' \in {"PROCEEDING", "TERMINATED"}
                    /\ toServer' = toServer
           \/ /\ IsInvite /\ cState = "ACCEPTED" /\ code \in 200..299 /\ cLast' = code
              /\ (cState' = "ACCEPTED" /\ cTimers' = cTimers) \/ cState' = "TERMINATED"
              /\ toServer' = toServer
           \/ /\ IsInvite /\ cState = "COMPLETED" /\ UNCHANGED <<cState, cTimers, cLast>>
              /\ toServer' \subseteq toServer \cup {"ACK"}
           \/ /\ ~IsInvite /\ cState \in {"TRYING", "PROCEEDING"} /\ cLast' = code
              /\ toServer' = toServer
              /\ \/ code < 200 /\ cState' = "PROCEEDING" /\ cTimers' = cTimers
                 \/ code >= 200 /\ cState' = "COMPLETED" /\ "K" \in cTimers'
                 \/ cState' = "TERMINATED"
<1>1. CASE IsInvite
  <2>1. ict_on_response(code)
    BY <1>1 DEF RecvResponse
  <2> QED BY <1>1, <2>1 DEF ict_on_response, notify_response, notify_response_again,
            TerminatedInCallback, ClientSend
<1>2. CASE ~IsInvite
  <2>1. nict_on_response(code)
    BY <1>2 DEF RecvResponse
  <2> QED BY <1>2, <2>1 DEF nict_on_response, nict_set_completed, notify_response, TerminatedInCallback
<1> QED BY <1>1, <1>2

\* Each step keeps ACKs to clients that hold a failure response.
LEMMA AckStep ==
    ASSUME TypeOK, OutcomeInv, AckInv, [Next]_vars
    PROVE  AckInv'
<1>0. cLast \in Nat /\ (cState \in Undecided => cLast < 200) /\ (cState = "ACCEPTED" => cLast < 300)
  BY LinkAssumption DEF TypeOK, ClientTypeOK, OutcomeInv
<1>1. CASE ClientStep /\ UNCHANGED serverVars
  <2>1. UNCHANGED <<cLast, method, sState>>
    BY <1>1, ClientFrame DEF serverVars
  <2> QED BY <1>0, <1>1, <2>1, ClientStepShape DEF AckInv, ConfirmedKnowsFailure, IsInvite, Undecided
<1>2. ASSUME NEW code \in Codes, ClientReceives(code) PROVE AckInv'
  <2>1. code \in Nat /\ RecvResponse(code) /\ UNCHANGED <<method, sState>>
    BY <1>2, LinkAssumption DEF ClientReceives, RecvResponse, serverVars
  <2> QED BY <1>0, <2>1, RecvResponseShape DEF AckInv, ConfirmedKnowsFailure, IsInvite, Undecided
<1>3. CASE ServerReceivesAck
  BY <1>3 DEF ServerReceivesAck, RecvAck, ist_process_ack, Delivered, clientVars, AckInv,
       ConfirmedKnowsFailure, IsInvite
<1>4. CASE (ServerStep /\ UNCHANGED clientVars) \/ ServerReceivesRequest \/ Loses
  <2>1. UNCHANGED <<cLast, cState, method>>
    BY <1>4, ServerFrame DEF clientVars
  <2>2. toServer' \subseteq toServer /\ (sState' = "CONFIRMED" => sState = "CONFIRMED")
    <3>1. CASE \E code \in Codes : SendResponse(code)
      <4>1. PICK code \in Codes : SendResponse(code)
        BY <3>1
      <4>2. toServer' = toServer
        BY <4>1 DEF SendResponse
      <4>3. sState' = sState \/ sState' \in {"PROCEEDING", "ACCEPTED", "COMPLETED"}
        BY <4>1 DEF SendResponse, ist_send_new_response, nist_send_new_response
      <4> QED BY <4>2, <4>3
    <3>2. CASE ServerTimerStep \/ ServerAppTerminates
      BY <3>2 DEF ServerTimerStep, ist_on_timer_G, ist_on_timer_H, ist_on_timer_I, ist_on_timer_L,
           nist_on_timer_J, ServerAppTerminates, ServerTerminate, TimerStopsS, linkVars
    <3>3. CASE ServerReceivesRequest
      BY <3>3 DEF ServerReceivesRequest, RecvNewRequest, RecvRetransmission, ist_new, nist_new,
           Delivered, serverVars
    <3>4. CASE Loses
      BY <3>4 DEF Loses, serverVars
    <3> QED BY <1>4, <3>1, <3>2, <3>3, <3>4 DEF ServerStep
  <2> QED BY <2>1, <2>2 DEF AckInv, ConfirmedKnowsFailure, IsInvite
<1>5. CASE UNCHANGED vars
  BY <1>5 DEF vars, AckInv, ConfirmedKnowsFailure, IsInvite
<1> QED BY <1>1, <1>2, <1>3, <1>4, <1>5 DEF Next

-----------------------------------------------------------------------------
(* Timers *)

\* TimerInv of the client and of the server.
ClientTimerInv ==
    /\ cState \in {"CALLING", "ACCEPTED"} => IsInvite
    /\ cState = "CALLING" => "B" \in cTimers
    /\ cState \in {"TRYING", "PROCEEDING"} /\ method = "OTHER" => "F" \in cTimers
    /\ cState = "ACCEPTED" => "M" \in cTimers
    /\ cState = "COMPLETED" => (IF IsInvite THEN "D" ELSE "K") \in cTimers

ServerTimerInv ==
    /\ sState = "ACCEPTED" => "L" \in sTimers
    /\ sState = "COMPLETED" => (IF IsInvite THEN "H" ELSE "J") \in sTimers
    /\ sState = "CONFIRMED" => "I" \in sTimers

\* Sending the request starts the timer that limits the wait.
LEMMA SendRequestTimer ==
    ASSUME send_request, method' = method
    PROVE  ClientTimerInv'
<1>1. CASE IsInvite
  BY <1>1 DEF send_request, ict_send_request, ClientTimerInv, IsInvite
<1>2. CASE ~IsInvite
  BY <1>2 DEF send_request, nict_send_request, ClientTimerInv, IsInvite
<1> QED BY <1>1, <1>2

\* Each step of the client keeps its timers as they should be.
LEMMA ClientTimerStepInv ==
    ASSUME ClientTimerInv, ClientStep
    PROVE  ClientTimerInv'
<1>0. method' = method
  BY ClientFrame
<1>1. CASE SendRequestNoChannel \/ ClientAppTerminates
  BY <1>1 DEF SendRequestNoChannel, ClientAppTerminates, ClientTerminate, Unsent, ClientTimerInv
<1>2. CASE SendRequestReady
  BY <1>0, <1>2, SendRequestTimer DEF SendRequestReady
<1>3. CASE SendRequestWait \/ ChannelFails
  BY <1>0, <1>3 DEF SendRequestWait, ChannelFails, ClientTimerInv, IsInvite
<1>4. CASE ChannelReady \/ ChannelNotice \/ ChannelDisconnects
  <2>1. PICK st : on_channel_state_changed(st)
    BY <1>4 DEF ChannelReady, ChannelNotice, ChannelDisconnects
  <2>2. CASE st \in {"ERROR", "DISCONNECTED"}
    BY <1>0, <2>1, <2>2 DEF on_channel_state_changed, ClientTerminate, ClientTimerInv
  <2>3. CASE st \notin {"ERROR", "DISCONNECTED"} /\ send_request
    BY <1>0, <2>3, SendRequestTimer
  <2>4. CASE st \notin {"ERROR", "DISCONNECTED"} /\ UNCHANGED <<cState, cTimers>>
    BY <1>0, <2>4 DEF ClientTimerInv, IsInvite
  <2> QED BY <2>1, <2>2, <2>3, <2>4 DEF on_channel_state_changed
<1>5. CASE ict_on_timer_A
  BY <1>0, <1>5 DEF ict_on_timer_A, clientVars, ClientTimerInv, IsInvite
<1>6. CASE nict_on_timer_E
  BY <1>0, <1>6 DEF nict_on_timer_E, TimerStops, clientVars, ClientTimerInv, IsInvite
<1>7. CASE ict_on_timer_B
  BY <1>0, <1>7 DEF ict_on_timer_B, notify_timeout, ClientTerminate, TimerStops, ClientTimerInv, IsInvite
<1>8. CASE nict_on_timer_F
  BY <1>0, <1>8 DEF nict_on_timer_F, notify_timeout, ClientTerminate, TimerStops, ClientTimerInv, IsInvite
<1>9. CASE ict_on_timer_D
  <2>1. CASE cState = "COMPLETED"
    BY <2>1, <1>9 DEF ict_on_timer_D, ClientTerminate, ClientTimerInv
  <2>2. CASE cState # "COMPLETED"
    BY <1>0, <2>2, <1>9 DEF ict_on_timer_D, TimerStops, ClientTimerInv, IsInvite
  <2> QED BY <2>1, <2>2
<1>10. CASE ict_on_timer_M
  <2>1. CASE cState = "ACCEPTED"
    BY <2>1, <1>10 DEF ict_on_timer_M, ClientTerminate, ClientTimerInv
  <2>2. CASE cState # "ACCEPTED"
    BY <1>0, <2>2, <1>10 DEF ict_on_timer_M, TimerStops, ClientTimerInv, IsInvite
  <2> QED BY <2>1, <2>2
<1>11. CASE nict_on_timer_K
  BY <1>0, <1>11 DEF nict_on_timer_K, ClientTerminate, TimerStops, ClientTimerInv, IsInvite
<1> QED BY <1>1, <1>2, <1>3, <1>4, <1>5, <1>6, <1>7, <1>8, <1>9, <1>10, <1>11
      DEF ClientStep, ClientChannelStep, ClientTimerStep

\* A step that leaves the server alone keeps its timers.
LEMMA ServerTimerQuiet ==
    ASSUME ServerTimerInv, UNCHANGED <<method, sState, sTimers>>
    PROVE  ServerTimerInv'
BY DEF ServerTimerInv, IsInvite

\* Each step of the server keeps its timers as they should be.
LEMMA ServerTimerStepInv ==
    ASSUME ServerTimerInv, UNCHANGED method,
           ServerStep \/ ServerReceivesRequest \/ ServerReceivesAck
    PROVE  ServerTimerInv'
<1>1. CASE \E code \in Codes : SendResponse(code)
  <2>1. PICK code \in Codes : SendResponse(code)
    BY <1>1
  <2>2. CASE IsInvite
    BY <2>1, <2>2 DEF SendResponse, ist_send_new_response, ServerTimerInv, IsInvite
  <2>3. CASE ~IsInvite
    BY <2>1, <2>3 DEF SendResponse, nist_send_new_response, ServerTimerInv, IsInvite
  <2> QED BY <2>2, <2>3
<1>2. CASE ist_on_timer_G \/ ist_on_timer_H
  BY <1>2 DEF ist_on_timer_G, ist_on_timer_H, ServerTerminate, TimerStopsS, ServerTimerInv, IsInvite
<1>3. CASE ist_on_timer_I \/ ist_on_timer_L \/ nist_on_timer_J \/ ServerAppTerminates
  BY <1>3 DEF ist_on_timer_I, ist_on_timer_L, nist_on_timer_J, ServerAppTerminates, ServerTerminate,
       ServerTimerInv
<1>4. CASE ServerReceivesRequest
  <2>1. CASE RecvNewRequest
    BY <2>1 DEF RecvNewRequest, ist_new, nist_new, ServerTimerInv
  <2>2. CASE RecvRetransmission
    BY <2>2, ServerTimerQuiet DEF RecvRetransmission, serverVars
  <2> QED BY <1>4, <2>1, <2>2 DEF ServerReceivesRequest
<1>5. CASE ServerReceivesAck
  BY <1>5 DEF ServerReceivesAck, RecvAck, ist_process_ack, ServerTerminate, ServerTimerInv
<1> QED BY <1>1, <1>2, <1>3, <1>4, <1>5 DEF ServerStep, ServerTimerStep

\* Each step keeps the timers of both.
LEMMA TimerStep ==
    ASSUME TypeOK, TimerInv, [Next]_vars
    PROVE  TimerInv'
<1>0. ClientTimerInv /\ ServerTimerInv
  BY DEF TimerInv, WaitingIsTimed, ClientTimerInv, ServerTimerInv
<1>1. ClientTimerInv' /\ ServerTimerInv'
  <2>1. CASE ClientStep /\ UNCHANGED serverVars
    BY <1>0, <2>1, ClientFrame, ClientTimerStepInv, ServerTimerQuiet DEF serverVars
  <2>2. ASSUME NEW code \in Codes, ClientReceives(code) PROVE ClientTimerInv' /\ ServerTimerInv'
    <3>1. RecvResponse(code) /\ UNCHANGED <<method, sState, sTimers>> /\ code \in Nat
      BY <2>2, LinkAssumption DEF ClientReceives, RecvResponse, serverVars
    <3>2. ClientTimerInv'
      BY <1>0, <3>1, RecvResponseShape DEF ClientTimerInv, IsInvite, LinkTypeOK, TypeOK
    <3> QED BY <1>0, <3>1, <3>2, ServerTimerQuiet
  <2>3. CASE (ServerStep /\ UNCHANGED clientVars) \/ ServerReceivesRequest \/ ServerReceivesAck
    <3>1. UNCHANGED <<clientVars, method>>
      BY <2>3, ServerFrame
    <3>2. ClientTimerInv'
      BY <1>0, <3>1 DEF ClientTimerInv, clientVars, IsInvite
    <3> QED BY <1>0, <2>3, <3>1, <3>2, ServerTimerStepInv
  <2>4. CASE UNCHANGED <<clientVars, serverVars, method>>
    BY <1>0, <2>4 DEF ClientTimerInv, ServerTimerInv, clientVars, serverVars, IsInvite
  <2>5. CASE Loses \/ UNCHANGED vars
    BY <2>4, <2>5 DEF Loses, vars, clientVars, serverVars
  <2> QED BY <2>1, <2>2, <2>3, <2>5 DEF Next
<1> QED BY <1>1 DEF TimerInv, WaitingIsTimed, ClientTimerInv, ServerTimerInv

-----------------------------------------------------------------------------
(* The invariant and what follows from it *)

\* The inductive invariant holds initially.
LEMMA InvInit == Init => IInv
<1> SUFFICES ASSUME Init PROVE IInv
  OBVIOUS
<1>1. OutcomeInv
  <2>1. cState = "INIT" /\ cLast = 0 /\ told = [e \in Events |-> 0]
    BY DEF Init, ClientInit
  <2>2. ~timed_out
    BY Zenon DEF Init, ClientInit
  <2>3. \A e \in Events : told[e] = 0
    BY <2>1
  <2>4. OneOutcome
    BY <2>1, <2>3 DEF OneOutcome, Outcomes, Events
  <2> QED BY <2>1, <2>2, <2>3, <2>4 DEF OutcomeInv
<1>2. FinalInv
  BY DEF Init, LinkInit, ClientInit, ServerInit, FinalInv
<1>3. AckInv
  BY DEF Init, LinkInit, ClientInit, ServerInit, AckInv, ConfirmedKnowsFailure
<1>4. TimerInv
  BY DEF Init, ClientInit, ServerInit, TimerInv, WaitingIsTimed
<1> QED BY <1>1, <1>2, <1>3, <1>4, TypeInit DEF IInv

\* Each step keeps the inductive invariant.
LEMMA InvStep == IInv /\ [Next]_vars => IInv'
BY TypeStep, OutcomeStep, FinalStep, AckStep, TimerStep DEF IInv, TypeInv

\* The inductive invariant holds in every reachable state.
LEMMA Invariance == Spec => []IInv
BY InvInit, InvStep, PTL DEF Spec

\* The application hears of at most one outcome of a request that is not a REGISTER,
\* of its end at most once, and of a failure response exactly once.
THEOREM OneOutcomeHolds == Spec => []OneOutcome
<1>1. IInv => OneOutcome
  BY DEF IInv, OutcomeInv
<1> QED BY <1>1, Invariance, PTL

\* As long as a request made one server transaction, the final response the client ended
\* on is the only one the server gave to its channel.
THEOREM AgreeOnFinalHolds == Spec => []AgreeOnFinal
<1>1. IInv => AgreeOnFinal
  BY LinkAssumption DEF IInv, FinalInv, AgreeOnFinal, TypeInv, TypeOK, ClientTypeOK
<1> QED BY <1>1, Invariance, PTL

\* A server transaction stops retransmitting for a client that holds a failure response.
THEOREM ConfirmedKnowsFailureHolds == Spec => []ConfirmedKnowsFailure
<1>1. IInv => ConfirmedKnowsFailure
  BY DEF IInv, AckInv
<1> QED BY <1>1, Invariance, PTL

\* Every state with a time limit has the timer that ends it running.
THEOREM WaitingIsTimedHolds == Spec => []WaitingIsTimed
<1>1. IInv => WaitingIsTimed
  BY DEF IInv, TimerInv
<1> QED BY <1>1, Invariance, PTL

\* A step from a terminated transaction adds no message and no report.
LEMMA QuietStep ==
    ASSUME IInv, [Next]_vars, cState = "TERMINATED"
    PROVE  toServer' \subseteq toServer /\ (method # "REGISTER" => told' = told)
<1>0. method # "REGISTER" => ~timed_out
  BY DEF IInv, OutcomeInv
<1>1. told \in [Events -> 0..2]
  BY DEF IInv, TypeInv, TypeOK, ClientTypeOK
<1>2. ASSUME NEW events, ClientTerminate(events), events = {} PROVE told' = told
  BY <1>1, <1>2 DEF ClientTerminate, Tell
<1>3. CASE ClientStep
  <2>1. CASE SendRequestNoChannel \/ SendRequestReady \/ SendRequestWait \/ ClientAppTerminates
    BY <2>1 DEF SendRequestNoChannel, SendRequestReady, SendRequestWait, ClientAppTerminates, Unsent
  <2>2. CASE ChannelReady \/ ChannelNotice \/ ChannelDisconnects
    <3>1. PICK st : on_channel_state_changed(st)
      BY <2>2 DEF ChannelReady, ChannelNotice, ChannelDisconnects
    <3>2. CASE st \in {"ERROR", "DISCONNECTED"}
      <4> DEFINE ev == (IF cState \notin ReportedStates THEN {"io_error"} ELSE {})
                         \cup (IF timed_out THEN {"timeout"} ELSE {})
      <4>1. ClientTerminate(ev) /\ UNCHANGED toServer
        BY <3>1, <3>2 DEF on_channel_state_changed
      <4>2. method # "REGISTER" => ev = {}
        BY <1>0 DEF ReportedStates
      <4> HIDE DEF ev
      <4> QED BY <1>2, <4>1, <4>2
    <3>3. CASE st \notin {"ERROR", "DISCONNECTED"}
      BY <3>1, <3>3 DEF on_channel_state_changed
    <3> QED BY <3>2, <3>3
  <2>3. CASE ChannelFails
    BY <2>3 DEF ChannelFails, linkVars
  <2>4. CASE ClientTimerStep
    BY <2>4 DEF ClientTimerStep, ict_on_timer_A, ict_on_timer_B, ict_on_timer_D, ict_on_timer_M,
         nict_on_timer_E, nict_on_timer_F, nict_on_timer_K, TimerStops, linkVars
  <2> QED BY <1>3, <2>1, <2>2, <2>3, <2>4 DEF ClientStep, ClientChannelStep
<1>4. ASSUME NEW code \in Codes, ClientReceives(code) PROVE FALSE
  <2>1. RecvResponse(code) /\ TypeOK
    BY <1>4 DEF ClientReceives, IInv, TypeInv
  <2> QED BY <2>1, RecvResponseShape
<1>5. CASE (ServerStep /\ UNCHANGED clientVars) \/ ServerReceivesRequest \/ ServerReceivesAck \/ Loses
  <2>1. told' = told
    BY <1>5, ServerFrame DEF clientVars
  <2>2. toServer' \subseteq toServer
    BY <1>5 DEF ServerStep, SendResponse, ServerTimerStep, ist_on_timer_G, ist_on_timer_H,
         ist_on_timer_I, ist_on_timer_L, nist_on_timer_J, ServerAppTerminates, linkVars,
         ServerReceivesRequest, ServerReceivesAck, Delivered, Loses
  <2> QED BY <2>1, <2>2
<1>6. CASE UNCHANGED vars
  BY <1>6 DEF vars
<1> QED BY <1>3, <1>4, <1>5, <1>6 DEF Next

\* A terminated client transaction sends nothing more and, unless it is a REGISTER, reports
\* nothing more, whatever its channel, its late timers and late responses do
\* (transaction.c 112-127, 478-513).
THEOREM QuietAfterEndHolds == Spec => QuietAfterEnd
<1> DEFINE Quiet == cState = "TERMINATED" => /\ toServer' \subseteq toServer
                                             /\ method # "REGISTER" => told' = told
<1>1. IInv /\ [Next]_vars => [Quiet]_vars
  BY QuietStep
<1>2. Spec => [][Quiet]_vars
  <2> HIDE DEF Quiet
  <2> QED BY <1>1, Invariance, PTL DEF Spec
<1> QED BY <1>2 DEF QuietAfterEnd
-----------------------------------------------------------------------------
(* The refinement of RequestOutcome *)

\* What was told is not taken back by the callbacks of a step of the client.
LEMMA TellGrows ==
    ASSUME NEW events, TypeOK,
           \/ Tell(events)
           \/ ClientTerminate(events)
    PROVE  \A e \in Events : told[e] > 0 => told'[e] > 0
<1>1. ASSUME NEW told_events, Tell(told_events)
      PROVE  \A e \in Events : told[e] > 0 => told'[e] > 0
  BY <1>1, TellEffect DEF TypeOK, ClientTypeOK
<1> QED BY <1>1 DEF ClientTerminate

\* No step takes a report back, and a client transaction that is over stays over.
LEMMA ToldGrows ==
    ASSUME TypeOK, [Next]_vars
    PROVE  /\ \A e \in Events : told[e] > 0 => told'[e] > 0
           /\ cState = "TERMINATED" => cState' = "TERMINATED"
<1> DEFINE Grows == /\ \A e \in Events : told[e] > 0 => told'[e] > 0
                    /\ cState = "TERMINATED" => cState' = "TERMINATED"
<1>1. ASSUME NEW events, ClientTerminate(events) PROVE Grows
  BY <1>1, TellGrows DEF ClientTerminate
<1>2. ASSUME UNCHANGED <<told, cState>> PROVE Grows
  BY <1>2
<1>3. CASE ClientStep
  <2>1. CASE SendRequestNoChannel \/ ClientAppTerminates
    BY <1>1, <2>1 DEF SendRequestNoChannel, ClientAppTerminates
  <2>2. CASE SendRequestReady \/ SendRequestWait
    BY <2>2 DEF SendRequestReady, SendRequestWait, Unsent
  <2>3. CASE ChannelReady \/ ChannelNotice \/ ChannelDisconnects
    <3>1. PICK st : on_channel_state_changed(st)
      BY <2>3 DEF ChannelReady, ChannelNotice, ChannelDisconnects
    <3>2. CASE st \in {"ERROR", "DISCONNECTED"}
      BY <1>1, <3>1, <3>2 DEF on_channel_state_changed
    <3>3. CASE st \notin {"ERROR", "DISCONNECTED"}
      BY <3>1, <3>3 DEF on_channel_state_changed
    <3> QED BY <3>2, <3>3
  <2>4. CASE ChannelFails
    BY <1>2, <2>4 DEF ChannelFails
  <2>5. CASE ict_on_timer_A \/ nict_on_timer_E
    BY <1>2, <2>5 DEF ict_on_timer_A, nict_on_timer_E, TimerStops, clientVars
  <2>6. ASSUME NEW timer, notify_timeout(timer) PROVE Grows
    BY <1>1, <1>2, <2>6 DEF notify_timeout
  <2>7. ASSUME NEW timer, TimerStops(timer) PROVE Grows
    BY <1>2, <2>7 DEF TimerStops
  <2>8. CASE ict_on_timer_B \/ nict_on_timer_F
    BY <2>6, <2>7, <2>8 DEF ict_on_timer_B, nict_on_timer_F
  <2>9. CASE ict_on_timer_D \/ ict_on_timer_M \/ nict_on_timer_K
    BY <1>1, <2>7, <2>9 DEF ict_on_timer_D, ict_on_timer_M, nict_on_timer_K
  <2> QED BY <1>3, <2>1, <2>2, <2>3, <2>4, <2>5, <2>8, <2>9
        DEF ClientStep, ClientChannelStep, ClientTimerStep
<1>4. ASSUME NEW code \in Codes, ClientReceives(code) PROVE Grows
  <2>1. RecvResponse(code)
    BY <1>4 DEF ClientReceives
  <2>2. cState # "TERMINATED"
    BY <2>1, RecvResponseShape
  <2>3. (\E events : Tell(events)) \/ UNCHANGED told
    BY <2>1 DEF RecvResponse, ict_on_response, nict_on_response, nict_set_completed,
         notify_response, notify_response_again, TerminatedInCallback
  <2> QED BY <2>2, <2>3, TellGrows
<1>5. CASE (ServerStep /\ UNCHANGED clientVars) \/ ServerReceivesRequest \/ ServerReceivesAck \/ Loses
  BY <1>2, <1>5, ServerFrame DEF clientVars
<1>6. CASE UNCHANGED vars
  BY <1>2, <1>6 DEF vars
<1> QED BY <1>3, <1>4, <1>5, <1>6 DEF Next

\* The method of the request never changes.
LEMMA MethodStays == [Next]_vars => method' = method
<1>1. ASSUME NEW code \in Codes, ClientReceives(code) PROVE method' = method
  BY <1>1 DEF ClientReceives, RecvResponse
<1> QED BY <1>1, ClientFrame, ServerFrame DEF Next, vars

\* A step maps to an answer, a failure or the end of the transaction, or to a stutter: an
\* outcome is added only to none, and a failure only to a transaction that ends with it.
LEMMA OutcomeRefined ==
    ASSUME IInv, IInv', [Next]_vars, method # "REGISTER"
    PROVE  [Outcome!Next]_Outcome!outcomeVars
<1> DEFINE over == cState = "TERMINATED"
           outcome == Outcomes(told)
<1>0. TypeOK /\ OutcomeInv /\ OutcomeInv' /\ TypeOK' /\ method' # "REGISTER"
  BY MethodStays DEF IInv, TypeInv
<1>1. CASE over
  <2>1. told' = told /\ cState' = cState
    BY <1>0, <1>1, QuietStep, ToldGrows
  <2> QED BY <2>1 DEF Outcome!outcomeVars, Outcomes
<1>2. CASE ~over
  <2>1. outcome \subseteq outcome'
    BY <1>0, ToldGrows DEF Outcomes, Events
  <2>2. \A e, f \in outcome' : e = f
    BY <1>0 DEF OutcomeInv, OneOutcome, Outcomes
  <2>3. CASE outcome' = outcome
    <3>1. CASE over'
      BY <1>2, <2>3, <3>1 DEF Outcome!Next, Outcome!End
    <3>2. CASE ~over'
      BY <1>2, <2>3, <3>2 DEF Outcome!outcomeVars
    <3> QED BY <3>1, <3>2
  <2>4. CASE outcome' # outcome
    <3>1. outcome = {} /\ \E e \in {"final", "timeout", "io_error"} : outcome' = {e}
      BY <2>1, <2>2, <2>4 DEF Outcomes
    <3>2. CASE outcome' = {"final"}
      BY <1>2, <3>1, <3>2 DEF Outcome!Next, Outcome!Answer
    <3>3. CASE outcome' \in {{"timeout"}, {"io_error"}}
      <4>1. told'["timeout"] # 0 \/ told'["io_error"] # 0
        BY <3>3 DEF Outcomes
      <4>2. over'
        BY <1>0, <4>1 DEF OutcomeInv, Undecided, Events, TypeOK, ClientTypeOK, ClientStates
      <4> QED BY <1>2, <3>1, <3>3, <4>2 DEF Outcome!Next, Outcome!Fail
    <3> QED BY <3>1, <3>2, <3>3
  <2> QED BY <2>3, <2>4
<1> QED BY <1>1, <1>2

\* A client and a server transaction, whatever the network does, give the application what
\* RequestOutcome promises: one outcome at most, a failure only together with the end, nothing
\* after it (transaction.c 112-160, ict.c, nict.c). Of a REGISTER, of which more can be reported,
\* this is not said: see OneOutcome.
THEOREM ImplementsOutcomeHolds == (method # "REGISTER") /\ Spec => ImplementsOutcome
<1> DEFINE RInv == IInv /\ method # "REGISTER"
<1>1. Init => Outcome!Init
  <2>1. ASSUME Init PROVE cState # "TERMINATED" /\ Outcomes(told) = {}
    BY <2>1 DEF Init, ClientInit, Outcomes, Events
  <2> QED BY <2>1 DEF Outcome!Init
<1>2. RInv /\ [Next]_vars => RInv'
  BY InvStep, MethodStays
<1>3. RInv /\ RInv' /\ [Next]_vars => [Outcome!Next]_Outcome!outcomeVars
  BY OutcomeRefined
<1>4. (method # "REGISTER") /\ Init => RInv
  BY InvInit
<1> HIDE DEF RInv
<1> QED BY <1>1, <1>2, <1>3, <1>4, PTL DEF Spec, ImplementsOutcome, Outcome!Spec
=============================================================================
