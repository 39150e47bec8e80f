------------------------------ MODULE Channel ------------------------------
(***************************************************************************)
(* One channel of a listening point (channel.c, stream_channel.c,          *)
(* udp_channel.c): name resolution, connection attempts on each address,   *)
(* sending, failure, and the notices to its listeners, which are the       *)
(* provider and the client transactions that use the channel.              *)
(*                                                                         *)
(* Every callback of the main loop is one atomic step. Callbacks put off   *)
(* with belle_sip_main_loop_do_later() are counted; they may run in any    *)
(* order and after any other callback that is due.                         *)
(***************************************************************************)
EXTENDS ChannelOutput

CONSTANTS
    MaxAddresses,  \* most addresses the peer's name resolves to
    MaxNotices,    \* bound on the notices waiting when another datagram fails
    Registers      \* the messages that are REGISTER requests of client transactions

ASSUME ChannelAssumption ==
    /\ MaxAddresses \in Nat \ {0}
    /\ MaxNotices \in Nat
    /\ Registers \subseteq Messages

VARIABLES
    transport,    \* "stream" or "datagram"
    state,        \* belle_sip_channel_t.state
    addresses,    \* addresses from current_peer on, 0 when current_peer is NULL
    resolving,    \* resolver_ctx waits for an answer
    connects,     \* calls of channel_connect_next waiting in the main loop
    notices,      \* calls of channel_invoke_state_listener_defered waiting in the main loop
    inLoop,       \* the channel is a source of the main loop (streams only)
    inactivity,   \* the inactivity timer is in the main loop
    listed,       \* the listening point has the channel in its list
    reported,     \* the listeners were told of ERROR or DISCONNECTED
    timerF,       \* timer F of each REGISTER request: it runs, is due, or has fired
    alive,        \* the object is not destroyed
    output        \* the sending half

lifeVars == <<state, addresses, resolving, connects, notices, inLoop, listed, reported>>
vars == <<transport, lifeVars, inactivity, timerF, alive, output>>

\* RES_DONE is passed through within one step.
States == {"INIT", "RES_IN_PROGRESS", "CONNECTING", "READY", "RETRY", "ERROR", "DISCONNECTED"}
Dead == {"ERROR", "DISCONNECTED"}

\* Every field of the channel holds a value of its type; current_peer never passes the last
\* address (belle_sip_channel_handle_error() looks at ai_next first), and a failed send()
\* has been dealt with when the handler returns.
TypeOK ==
    /\ transport \in {"stream", "datagram"}
    /\ state \in States
    /\ addresses \in 0..MaxAddresses
    /\ resolving \in BOOLEAN
    /\ connects \in Nat
    /\ notices \in Nat
    /\ inLoop \in BOOLEAN
    /\ inactivity \in BOOLEAN
    /\ listed \in BOOLEAN
    /\ reported \in BOOLEAN
    /\ timerF \in [Registers -> {"running", "due", "fired"}]
    /\ alive \in BOOLEAN
    /\ output \in Outputs /\ ~output.failed

\* An outgoing channel starts in INIT; one made for an incoming connection or datagram
\* knows its peer's only address and is READY.
Init ==
    /\ transport \in {"stream", "datagram"}
    /\ \/ state = "INIT" /\ addresses = 0 /\ inLoop = FALSE
       \/ state = "READY" /\ addresses = 1 /\ inLoop = (transport = "stream")
    /\ resolving = FALSE
    /\ connects = 0
    /\ notices = 0
    /\ inactivity \in BOOLEAN
    /\ listed = TRUE
    /\ reported = FALSE
    /\ timerF = [m \in Registers |-> "running"]
    /\ alive = TRUE
    /\ output = NoOutput

-----------------------------------------------------------------------------
(* Steps of the handlers. Their arguments are the values the variables have *)
(* at that point of the handler.                                            *)

\* Mistake to detect: the error is not notified.
belle_sip_channel_handle_error_silent(st, a, conn, note, loop) ==
    IF st # "READY" /\ a > 1
      THEN /\ state' = "RETRY"
           /\ addresses' = a - 1
           /\ connects' = conn + 1
           /\ inLoop' = FALSE
           /\ notices' = note
      ELSE /\ state' = "ERROR"
           /\ notices' = note
           /\ addresses' = a
           /\ connects' = conn
           /\ inLoop' = loop

\* belle_sip_channel_handle_error() of a channel in state st with a addresses left.
belle_sip_channel_handle_error(st, a, conn, note, loop) ==
    IF st # "READY" /\ a > 1
      THEN /\ state' = "RETRY"
           /\ addresses' = a - 1
           /\ connects' = conn + 1
           /\ inLoop' = FALSE
           /\ notices' = note
      ELSE /\ state' = "ERROR"
           /\ notices' = note + 1
           /\ addresses' = a
           /\ connects' = conn
           /\ inLoop' = loop

\* The results of sending on a READY channel: either it stays READY or a send() failed.
SendResult(results, a, conn, note, loop) ==
    \E o \in results :
        /\ output' = [o EXCEPT !.failed = FALSE]
        /\ IF o.failed
             THEN belle_sip_channel_handle_error("READY", a, conn, note, loop)
             ELSE /\ state' = "READY"
                  /\ addresses' = a
                  /\ connects' = conn
                  /\ notices' = note
                  /\ inLoop' = loop

Fresh == Messages \ output.accepted

\* A listener told of READY may send a request at once, which queues its message and
\* processes the queue; belle_sip_channel_set_ready() then processes the queue again.
AfterReady(o) ==
    {o} \cup UNION {channel_process_queue(channel_push_outgoing(o, m)) : m \in Messages \ o.accepted}

\* Mistake to detect: the queue is not processed once the channel is READY.
belle_sip_channel_set_ready_only(o, a, conn, note, loop) ==
    SendResult(AfterReady(o), a, conn, note, loop)

belle_sip_channel_set_ready(o, a, conn, note, loop) ==
    SendResult(UNION {channel_process_queue(p) : p \in AfterReady(o)}, a, conn, note, loop)

\* belle_sip_channel_connect(): a datagram channel is READY at once; a stream starts to
\* connect, or fails. (A stream that is in the main loop already cannot be added again:
\* belle_sip_main_loop_add_source() aborts the program, see NoDoubleLink.)
belle_sip_channel_connect(o, a, conn, note) ==
    \/ /\ transport = "stream"
       /\ ~inLoop
       /\ state' = "CONNECTING"
       /\ inLoop' = TRUE
       /\ addresses' = a
       /\ connects' = conn
       /\ notices' = note
       /\ output' = o
    \/ /\ transport = "stream"
       /\ belle_sip_channel_handle_error("CONNECTING", a, conn, note, inLoop)
       /\ output' = o
    \/ /\ transport = "datagram"
       /\ belle_sip_channel_set_ready(o, a, conn, note, FALSE)

\* channel_res_done(): n addresses, or none.
channel_res_done(o, n) ==
    /\ resolving' = FALSE
    /\ IF n > 0
         THEN belle_sip_channel_connect(o, n, connects, notices)
         ELSE /\ belle_sip_channel_handle_error("RES_IN_PROGRESS", addresses, connects, notices, inLoop)
              /\ output' = o

\* channel_invoke_state_listener() in ERROR or DISCONNECTED: the channel is closed, every
\* listener is told, and the provider releases the channel.
ReportDeath ==
    /\ inLoop' = FALSE
    /\ reported' = TRUE
    /\ listed' = FALSE

channel_set_state_DISCONNECTED ==
    /\ state' = "DISCONNECTED"
    /\ ReportDeath
    /\ UNCHANGED <<addresses, resolving, connects, notices>>

-----------------------------------------------------------------------------
(* Sending *)

\* belle_sip_channel_prepare() of a channel in INIT whose sending half is o. A numeric
\* address is resolved at once.
belle_sip_channel_prepare(o) ==
    \/ /\ state' = "RES_IN_PROGRESS"
       /\ resolving' = TRUE
       /\ output' = o
       /\ UNCHANGED <<addresses, connects, notices, inLoop>>
    \/ channel_res_done(o, 1)

\* A client transaction that was given a channel in INIT prepares it.
Prepare ==
    /\ alive /\ listed
    /\ state = "INIT"
    /\ belle_sip_channel_prepare(output)
    /\ UNCHANGED <<transport, listed, reported, inactivity, timerF, alive>>

\* belle_sip_channel_queue_message() without tx_delay. A client transaction first waits for
\* the channel to be READY; responses and retransmissions are queued in any state.
belle_sip_channel_queue_message(m) ==
    LET o == channel_push_outgoing(output, m)
    IN  /\ alive
        /\ m \in Messages \ output.accepted
        /\ m \in Registers => state = "READY"
        /\ CASE state = "INIT"  -> belle_sip_channel_prepare(o)
             [] state = "READY" -> /\ SendResult(channel_process_queue(o), addresses, connects,
                                                 notices, inLoop)
                                   /\ UNCHANGED resolving
             [] OTHER           -> /\ output' = o
                                   /\ UNCHANGED <<state, addresses, connects, notices, inLoop,
                                                  resolving>>
        /\ UNCHANGED <<transport, listed, reported, inactivity, timerF, alive>>

-----------------------------------------------------------------------------
(* Callbacks of the main loop *)

ResolverAnswers ==
    /\ alive
    /\ resolving
    /\ \E n \in 0..MaxAddresses : channel_res_done(output, n)
    /\ UNCHANGED <<transport, listed, reported, inactivity, timerF, alive>>

\* Mistake to detect: belle_sip_channel_prepare() is called, which does nothing in RETRY.
channel_connect_next_prepares ==
    /\ connects > 0
    /\ connects' = connects - 1
    /\ UNCHANGED <<transport, state, addresses, resolving, notices, inLoop, listed, reported,
                   inactivity, timerF, alive, output>>

channel_connect_next ==
    /\ connects > 0
    /\ belle_sip_channel_connect(output, addresses, connects - 1, notices)
    /\ UNCHANGED <<transport, resolving, listed, reported, inactivity, timerF, alive>>

channel_invoke_state_listener_defered ==
    /\ notices > 0
    /\ notices' = notices - 1
    /\ IF state \in Dead THEN ReportDeath ELSE UNCHANGED <<inLoop, listed, reported>>
    /\ UNCHANGED <<transport, state, addresses, resolving, connects, inactivity, timerF, alive, output>>

\* stream_channel_process_data() while CONNECTING: the connection is made, or it failed or
\* the transport timeout is over. The main loop drops the source of a failed one.
StreamConnected ==
    /\ inLoop
    /\ state = "CONNECTING"
    /\ \/ belle_sip_channel_set_ready(output, addresses, connects, notices, TRUE)
       \/ /\ belle_sip_channel_handle_error("CONNECTING", addresses, connects, notices, FALSE)
          /\ UNCHANGED output
    /\ UNCHANGED <<transport, resolving, listed, reported, inactivity, timerF, alive>>

\* The socket is writable again after EWOULDBLOCK.
StreamWritable ==
    /\ inLoop
    /\ state = "READY"
    /\ output.cur # NoMessage
    /\ SendResult(channel_process_queue(output), addresses, connects, notices, inLoop)
    /\ UNCHANGED <<transport, resolving, listed, reported, inactivity, timerF, alive>>

\* belle_sip_channel_process_read_data(): end of stream or an empty datagram, or an error
\* of recv(). (Messages received do not change the channel.)
StreamReadFails ==
    /\ inLoop
    /\ state = "READY"
    /\ \/ channel_set_state_DISCONNECTED
       \/ /\ belle_sip_channel_handle_error("READY", addresses, connects, notices, FALSE)
          /\ UNCHANGED <<resolving, listed, reported>>
    /\ UNCHANGED <<transport, inactivity, timerF, alive, output>>

\* on_udp_data() of the listening point gives the datagram to the channel that has the
\* sender's address, whatever state the channel is in.
DatagramReadFails ==
    /\ transport = "datagram"
    /\ listed
    /\ addresses > 0
    /\ \/ channel_set_state_DISCONNECTED
       \/ /\ notices < MaxNotices
          /\ belle_sip_channel_handle_error(state, addresses, connects, notices, FALSE)
          /\ UNCHANGED <<resolving, listed, reported>>
    /\ UNCHANGED <<transport, inactivity, timerF, alive, output>>

\* An event of the socket in any other state: the source is dropped.
StreamEventIgnored ==
    /\ inLoop
    /\ state \notin {"CONNECTING", "READY"}
    /\ inLoop' = FALSE
    /\ UNCHANGED <<transport, state, addresses, resolving, connects, notices, listed, reported,
                   inactivity, timerF, alive, output>>

\* keep_alive_timer_func() of the listening point: a keep-alive that cannot be sent.
KeepAliveFails ==
    /\ listed
    /\ state = "READY"
    /\ belle_sip_channel_handle_error("READY", addresses, connects, notices, FALSE)
    /\ UNCHANGED <<transport, resolving, listed, reported, inactivity, timerF, alive, output>>

\* 32 seconds pass, in which the main loop runs every call it put off before: timer F of
\* the REGISTER requests sent is due. Several may be due in one turn of the main loop.
TimePasses ==
    /\ connects = 0 /\ notices = 0
    /\ \E m \in Registers \cap output.accepted : timerF[m] = "running"
    /\ timerF' = [m \in Registers |-> IF m \in output.accepted /\ timerF[m] = "running"
                                       THEN "due" ELSE timerF[m]]
    /\ UNCHANGED <<transport, state, addresses, resolving, connects, notices, inLoop, listed,
                   reported, inactivity, alive, output>>

\* belle_sip_channel_notify_timeout(): a REGISTER sent on the channel timed out and nothing
\* was received for a minute. Transactions end when they hear of the channel's death.
belle_sip_channel_notify_timeout(m) ==
    /\ timerF[m] = "due"
    /\ ~reported
    /\ timerF' = [timerF EXCEPT ![m] = "fired"]
    /\ belle_sip_channel_handle_error(state, addresses, connects, notices, inLoop)
    /\ UNCHANGED <<transport, resolving, listed, reported, inactivity, alive, output>>

\* The timer runs once: belle_sip_source_set_timeout() does not put it back.
channel_inactive_timeout ==
    /\ inactivity
    /\ inactivity' = FALSE
    /\ channel_set_state_DISCONNECTED
    /\ UNCHANGED <<transport, timerF, alive, output>>

\* belle_sip_listening_point_clean_channels(), on request of the application.
belle_sip_channel_force_close ==
    /\ listed
    /\ channel_set_state_DISCONNECTED
    /\ UNCHANGED <<transport, inactivity, timerF, alive, output>>

\* The last reference is gone. The list, the main loop and the deferred calls hold one
\* each; the transactions that hold one let it go at any time.
belle_sip_channel_destroy ==
    /\ alive
    /\ ~listed /\ ~inLoop /\ connects = 0 /\ notices = 0
    /\ alive' = FALSE
    /\ resolving' = FALSE
    /\ inactivity' = FALSE
    /\ UNCHANGED <<transport, state, addresses, connects, notices, inLoop, listed, reported,
                   timerF, output>>

Next ==
    \/ Prepare
    \/ \E m \in Messages : belle_sip_channel_queue_message(m)
    \/ ResolverAnswers
    \/ channel_connect_next
    \/ channel_invoke_state_listener_defered
    \/ StreamConnected
    \/ StreamWritable
    \/ StreamReadFails
    \/ DatagramReadFails
    \/ StreamEventIgnored
    \/ KeepAliveFails
    \/ TimePasses
    \/ \E m \in Registers : belle_sip_channel_notify_timeout(m)
    \/ channel_inactive_timeout
    \/ belle_sip_channel_force_close
    \/ belle_sip_channel_destroy

Spec == Init /\ [][Next]_vars

\* The resolver gives up in the end (dns_timeout), a connection attempt is ended by the
\* transport timeout at the latest, and the main loop runs what was put off.
Fairness ==
    /\ WF_vars(ResolverAnswers)
    /\ WF_vars(channel_connect_next)
    /\ WF_vars(channel_invoke_state_listener_defered)
    /\ WF_vars(StreamConnected)

FairSpec == Spec /\ Fairness

-----------------------------------------------------------------------------
(* Properties *)

\* channel_prepare_continue() ignores a channel that is neither INIT, RES_DONE nor READY,
\* and a client transaction given such a channel just waits for its next state. So each
\* channel the listening point can hand out must have something under way that will
\* move it: a resolution, a socket in the main loop, or a deferred call.
NoLimbo ==
    listed =>
      /\ state = "RES_IN_PROGRESS" => resolving
      /\ state = "CONNECTING" => transport = "stream" /\ inLoop
      /\ state = "RETRY" => connects > 0
      /\ state = "ERROR" => notices > 0
      /\ state # "DISCONNECTED"

\* Nothing stays in the queue of a READY channel that is not in the middle of a message:
\* whatever was queued before, while or after it became READY is on the wire. As long as the
\* socket took all it was given, that is every message that can be marshalled; afterwards,
\* those whose send() failed are left out, and, which NothingGivenUp denies, those
\* that channel_process_queue() popped in vain (channel.c 1182).
FlushedWhenReady ==
    state = "READY" /\ output.cur = NoMessage =>
        /\ output.queue = <<>>
        /\ output.accepted \subseteq OnTheWire(output) \cup GivenUp(output)

\* A channel that was set to work becomes READY, or its listeners are told of its death.
ChannelSettles ==
    alive /\ state \in {"RES_IN_PROGRESS", "CONNECTING", "RETRY", "ERROR"}
      ~> state = "READY" \/ reported \/ ~alive

\* "Source is already linked somewhere else." is fatal (belle_sip_main_loop_add_source()):
\* no deferred connection attempt may find the channel in the main loop already.
NoDoubleLink == transport = "stream" /\ connects > 0 => ~inLoop

\* "continue to send pending messages" after EWOULDBLOCK: channel_process_queue() on a
\* stream that stays READY gives up no message that can be marshalled.
NothingGivenUp == transport = "stream" /\ state = "READY" => output.broken \cup output.popped = {}
=============================================================================
