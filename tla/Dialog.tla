------------------------------- MODULE Dialog -------------------------------
(***************************************************************************)
(* One SIP dialog (dialog.c) of a user agent, with the client and server   *)
(* transactions that belong to it, the application that uses it and the    *)
(* peer. The peer's requests and ACKs may be lost or arrive in any order.  *)
(*                                                                         *)
(* A handler that changes the dialog in several calls is one action: the   *)
(* operators below take the dialog d and the transactions ts as they are   *)
(* at that point of the handler and give what they become.                 *)
(***************************************************************************)
EXTENDS Integers, Sequences

CONSTANTS
    Methods,          \* the methods the application sends in the dialog
    PeerMethods,      \* the methods the peer sends in the dialog
    Provisional,      \* the provisional codes the peer answers to non-INVITE requests
    TerminateOnBye,   \* the values terminate_on_bye may have
    MaxTransactions,  \* bound on the transactions started by the application and the peer
    MaxPeerCseq,      \* bound on the sequence numbers of the peer
    MaxAcks           \* bound on the times the application ACKs the 2xx of one INVITE

ASSUME DialogAssumption ==
    /\ Methods \cup PeerMethods \subseteq {"INVITE", "BYE", "INFO", "UPDATE"}
    /\ Provisional \subseteq {100, 180}
    /\ TerminateOnBye \subseteq BOOLEAN
    /\ MaxTransactions \in Nat \ {0}
    /\ MaxPeerCseq \in Nat \ {0}
    /\ MaxAcks \in Nat \ {0}

VARIABLES
    isServer,   \* is_server: the dialog was created by an incoming request
    dialog,     \* the fields of belle_sip_dialog_t
    trans       \* its transactions, in the order of their creation

vars == <<isServer, dialog, trans>>

Codes == {0, 100, 180, 200, 400}   \* last_response of a transaction: none, or by class

\* st stands for the state of the transaction: "INIT" for a client transaction that waits
\* in the dialog's queue, "BUSY" for the transient states, "FINAL" for COMPLETED and
\* ACCEPTED. acks counts how often the application was given a 2xx and sent an ACK.
Transactions ==
    [side : {"client", "server"}, method : {"INVITE", "BYE", "INFO", "UPDATE"}, cseq : Nat,
     st : {"INIT", "BUSY", "FINAL", "TERMINATED"}, code : Codes, queued : BOOLEAN,
     acks : Nat]

\* last is last_transaction (0 is NULL), lastOutInvite and lastOutAck are the sequence
\* numbers of these requests, okTimers says that timer_200Ok and timer_200Ok_end are
\* started, queue is queued_ct, deferred says that a call of _belle_sip_dialog_process_queue
\* is put off (of several, all but the first find nothing to do), ended counts the
\* process_dialog_terminated events.
Dialogs ==
    [state : {"NULL", "EARLY", "CONFIRMED", "TERMINATED"}, needsAck : BOOLEAN, last : Nat,
     localCseq : Nat, remoteCseq : Nat, lastOutInvite : Nat, lastOutAck : Nat,
     okTimers : BOOLEAN, queue : Seq(Nat), deferred : BOOLEAN, ended : Nat,
     terminateOnBye : BOOLEAN]

\* The state holds values of these types, and last_transaction and the queue name
\* transactions of the dialog; the queued ones have not been sent.
TypeOK ==
    /\ isServer \in BOOLEAN
    /\ dialog \in Dialogs
    /\ trans \in Seq(Transactions)
    /\ dialog.last \in 0..Len(trans)
    /\ \A i \in 1..Len(dialog.queue) :
         dialog.queue[i] \in 1..Len(trans) /\ trans[dialog.queue[i]].st = "INIT"

NewTransaction(side, method, cseq) ==
    [side |-> side, method |-> method, cseq |-> cseq, st |-> "BUSY", code |-> 0,
     queued |-> FALSE, acks |-> 0]

\* belle_sip_dialog_new() for the INVITE, sent or received, that may establish the dialog.
Init ==
    /\ isServer \in BOOLEAN
    /\ trans = <<NewTransaction(IF isServer THEN "server" ELSE "client", "INVITE", 1)>>
    /\ \E bye \in TerminateOnBye :
         dialog = [state |-> "NULL", needsAck |-> FALSE, last |-> IF isServer THEN 0 ELSE 1,
                   localCseq |-> 0, remoteCseq |-> 0, lastOutInvite |-> 0, lastOutAck |-> 0,
                   okTimers |-> FALSE, queue |-> <<>>, deferred |-> FALSE, ended |-> 0,
                   terminateOnBye |-> bye]

-----------------------------------------------------------------------------
(* The operations of the dialog *)

\* belle_sip_dialog_request_pending()
belle_sip_dialog_request_pending(d, ts) == d.last # 0 /\ ts[d.last].st \in {"INIT", "BUSY"}

belle_sip_dialog_process_queue(d) == [d EXCEPT !.deferred = TRUE]

\* belle_sip_dialog_establish(), for the INVITE t.
belle_sip_dialog_establish(d, t) ==
    IF isServer THEN [d EXCEPT !.remoteCseq = t.cseq]
    ELSE [d EXCEPT !.localCseq = t.cseq, !.lastOutInvite = t.cseq]

\* belle_sip_dialog_establish_full() of an INVITE: a server retransmits its 200 until the
\* ACK comes.
belle_sip_dialog_establish_full(d) ==
    [d EXCEPT !.needsAck = TRUE, !.state = "CONFIRMED", !.okTimers = isServer]

\* belle_sip_dialog_delete(): each queued transaction is terminated, and on its way out
\* calls belle_sip_dialog_update(), which makes it the last one.
belle_sip_dialog_delete(d) ==
    [d EXCEPT !.okTimers = FALSE, !.state = "TERMINATED", !.queue = <<>>, !.ended = @ + 1,
              !.last = IF d.queue = <<>> THEN @ ELSE d.queue[Len(d.queue)],
              !.deferred = @ \/ d.queue # <<>>]

AbortQueued(d, ts) ==
    [i \in DOMAIN ts |-> IF \E k \in DOMAIN d.queue : d.queue[k] = i
                           THEN [ts[i] EXCEPT !.st = "TERMINATED"] ELSE ts[i]]

Deleted(d, ts) == [d |-> belle_sip_dialog_delete(d), ts |-> AbortQueued(d, ts), again |-> FALSE]
Kept(d, ts) == [d |-> belle_sip_dialog_process_queue(d), ts |-> ts, again |-> FALSE]

\* The case of belle_sip_dialog_update() for an INVITE in a CONFIRMED dialog. A 2xx that
\* has the sequence number of the last ACK is a retransmission, and is ACKed again
\* (belle_sip_dialog_handle_200Ok()).
UpdateReinvite(d, ts, t, asUas) ==
    CASE t.code = 200 /\ asUas -> Kept([d EXCEPT !.needsAck = TRUE], ts)
      [] t.code = 200 /\ ~asUas /\ d.lastOutAck # t.cseq ->
           Kept([d EXCEPT !.needsAck = TRUE, !.lastOutInvite = t.cseq], ts)
      [] t.code = 200 /\ ~asUas /\ d.lastOutAck = t.cseq ->
           [d |-> [d EXCEPT !.lastOutInvite = t.cseq], ts |-> ts, again |-> TRUE]
      [] t.code = 400 -> Kept([d EXCEPT !.needsAck = FALSE], ts)
      [] OTHER -> Kept(d, ts)

\* ... and for a BYE that has its final response, or ended without one.
UpdateBye(d, ts, t) ==
    IF t.code >= 200 \/ (t.code = 0 /\ t.st = "TERMINATED")
      THEN LET e == [d EXCEPT !.needsAck = FALSE]
           IN  IF d.terminateOnBye THEN Deleted(e, ts) ELSE Kept(e, ts)
      ELSE Kept(d, ts)

\* belle_sip_dialog_update() by transaction number n. "again" is its result: the response
\* is a retransmission, not to be given to the application.
belle_sip_dialog_update(d0, ts, n, asUas) ==
    LET t == ts[n]
        d == [d0 EXCEPT !.last = n, !.remoteCseq = IF asUas THEN t.cseq ELSE @]
        invite == t.method = "INVITE"
    IN  CASE d.state = "NULL" /\ invite /\ t.code = 180 ->
               Kept([belle_sip_dialog_establish(d, t) EXCEPT !.state = "EARLY"], ts)
          [] d.state = "NULL" /\ invite /\ t.code = 200 ->
               Kept(belle_sip_dialog_establish_full(belle_sip_dialog_establish(d, t)), ts)
          [] d.state = "EARLY" /\ invite /\ t.code = 200 ->
               Kept(belle_sip_dialog_establish_full(d), ts)
          [] d.state \in {"NULL", "EARLY"} /\ invite /\ t.code = 400 -> Deleted(d, ts)
          [] d.state = "CONFIRMED" /\ invite -> UpdateReinvite(d, ts, t, asUas)
          [] d.state = "CONFIRMED" /\ t.method = "BYE" -> UpdateBye(d, ts, t)
          [] OTHER -> Kept(d, ts)

\* belle_sip_dialog_update_local_cseq(), not for ACK.
belle_sip_dialog_update_local_cseq(d) ==
    [d EXCEPT !.localCseq = (IF @ = 0 THEN 110 ELSE @) + 1]

\* belle_sip_dialog_create_request(), and belle_sip_client_transaction_send_request() of it.
SendNew(d, ts, method) ==
    LET e == belle_sip_dialog_update_local_cseq(d)
        us == Append(ts, NewTransaction("client", method, e.localCseq))
    IN  belle_sip_dialog_update(e, us, Len(us), FALSE)

\* belle_sip_dialog_create_request() refuses most requests while another one is pending.
MayCreate(d, ts, method) ==
    /\ d.state \in {"EARLY", "CONFIRMED"}
    /\ \/ method \in {"BYE", "UPDATE"}
       \/ d.state = "EARLY"
       \/ ~belle_sip_dialog_request_pending(d, ts)

\* belle_sip_dialog_send_ack(). create_request() gives the ACK the last sequence number used.
belle_sip_dialog_send_ack(d) ==
    belle_sip_dialog_process_queue([d EXCEPT !.needsAck = FALSE, !.lastOutAck = d.localCseq])

\* belle_sip_client_transaction_send_request() of the queued transaction n, when its turn
\* has come: belle_sip_dialog_update_request() gives it a sequence number.
SendQueued(d, ts, n) ==
    LET e == belle_sip_dialog_update_local_cseq(d)
        us == [ts EXCEPT ![n] = [@ EXCEPT !.cseq = e.localCseq, !.st = "BUSY"]]
    IN  belle_sip_dialog_update(e, us, n, FALSE)

Become(r) == dialog' = r.d /\ trans' = r.ts
Room == Len(trans) < MaxTransactions

-----------------------------------------------------------------------------
(* The application *)

\* The application starts no INVITE while the first one goes on (RFC 3261, 14.1), though
\* belle_sip_dialog_create_request() would let it.
SendRequest(method) ==
    /\ Room
    /\ method = "INVITE" => dialog.state = "CONFIRMED"
    /\ MayCreate(dialog, trans, method)
    /\ Become(SendNew(dialog, trans, method))
    /\ UNCHANGED isServer

\* Mistake to detect: only a pending transaction makes a request wait, not the queue.
SendQueuedRequest_overtakes(method) ==
    LET ts == Append(trans, [NewTransaction("client", method, 0) EXCEPT !.st = "INIT", !.queued = TRUE])
    IN  /\ Room
        /\ dialog.state \in {"EARLY", "CONFIRMED"}
        /\ method # "INVITE"
        /\ IF belle_sip_dialog_request_pending(dialog, trans)
             THEN dialog' = [dialog EXCEPT !.queue = Append(@, Len(ts))] /\ trans' = ts
             ELSE Become(SendQueued(dialog, ts, Len(ts)))
        /\ UNCHANGED isServer

\* belle_sip_dialog_create_queued_request() and belle_sip_client_transaction_send_request():
\* the transaction is queued while the dialog is busy. (The application queues nothing
\* in a dialog that is not established or is over.)
SendQueuedRequest(method) ==
    LET ts == Append(trans, [NewTransaction("client", method, 0) EXCEPT !.st = "INIT", !.queued = TRUE])
    IN  /\ Room
        /\ dialog.state \in {"EARLY", "CONFIRMED"}
        /\ method # "INVITE"
        /\ IF belle_sip_dialog_request_pending(dialog, trans) \/ dialog.queue # <<>>
             THEN dialog' = [dialog EXCEPT !.queue = Append(@, Len(ts))] /\ trans' = ts
             ELSE Become(SendQueued(dialog, ts, Len(ts)))
        /\ UNCHANGED isServer

\* belle_sip_server_transaction_send_response()
Respond(n, code) ==
    LET t == trans[n]
        ts == [trans EXCEPT ![n] = [t EXCEPT !.code = code,
                                             !.st = IF code < 200 THEN "BUSY" ELSE "FINAL"]]
    IN  /\ t.side = "server"
        /\ t.st = "BUSY"
        /\ code > t.code
        /\ code >= 200 \/ (code = 180 /\ t.method = "INVITE")
        /\ Become(belle_sip_dialog_update(dialog, ts, n, TRUE))
        /\ UNCHANGED isServer

\* belle_sip_dialog_delete() is part of the interface.
ApplicationDeletes ==
    /\ dialog.state # "TERMINATED"
    /\ Become(Deleted(dialog, trans))
    /\ UNCHANGED isServer

-----------------------------------------------------------------------------
(* Responses and ends of client transactions *)

\* belle_sip_dialog_check_ack_sent(): a dialog that still needs an ACK is ended with a BYE.
\* (If the application has deleted it, belle_sip_dialog_create_request() gives NULL and the
\* program crashes: no step.)
belle_sip_dialog_check_ack_sent(r) ==
    /\ r.d.needsAck => r.d.state # "TERMINATED" /\ Len(r.ts) <= MaxTransactions
    /\ Become(IF r.d.needsAck THEN SendNew(r.d, r.ts, "BYE") ELSE r)

\* belle_sip_client_transaction_notify_response(): the dialog is updated, and unless the
\* response is a retransmission the application is told, which ACKs a 2xx or does not.
belle_sip_client_transaction_notify_response(ts, n) ==
    LET t == ts[n]
        r == belle_sip_dialog_update(dialog, ts, n, FALSE)
        accepted == t.method = "INVITE" /\ t.code = 200
    IN  \/ /\ r.again
           /\ Become(r)
        \/ /\ ~r.again
           /\ accepted /\ r.d.needsAck /\ r.d.lastOutInvite = t.cseq
           /\ Become([r EXCEPT !.d = belle_sip_dialog_send_ack(@),
                               !.ts[n].acks = @ + 1])
        \/ /\ ~r.again
           /\ IF t.method = "INVITE" THEN belle_sip_dialog_check_ack_sent(r) ELSE Become(r)

\* A response of the peer to client transaction n: the first ones, or a 2xx again while
\* an INVITE transaction is in ACCEPTED.
ReceiveResponse(n, code) ==
    LET t == trans[n]
        ts == [trans EXCEPT ![n] = [t EXCEPT !.code = code,
                                             !.st = IF code < 200 THEN "BUSY" ELSE "FINAL"]]
    IN  /\ t.side = "client"
        /\ t.method = "INVITE" \/ code >= 200 \/ code \in Provisional
        /\ \/ t.st = "BUSY" /\ code > t.code
           \/ t.st = "FINAL" /\ t.method = "INVITE" /\ code = 200 /\ t.code = 200
             /\ t.acks < MaxAcks
        /\ belle_sip_client_transaction_notify_response(ts, n)
        /\ UNCHANGED isServer

\* Mistake to detect: the dialog is not informed.
TransactionEnds_untold(n) ==
    /\ trans[n].side = "client"
    /\ trans[n].st = "BUSY"
    /\ trans' = [trans EXCEPT ![n] = [@ EXCEPT !.st = "TERMINATED"]]
    /\ UNCHANGED <<isServer, dialog>>

\* belle_sip_transaction_terminate() of a client transaction after a timeout or an I/O
\* error, before the final response. (After it, the dialog is not informed.)
TransactionEnds(n) ==
    LET ts == [trans EXCEPT ![n] = [@ EXCEPT !.st = "TERMINATED"]]
    IN  /\ trans[n].side = "client"
        /\ trans[n].st = "BUSY"
        /\ Become(belle_sip_dialog_update(dialog, ts, n, FALSE))
        /\ UNCHANGED isServer

-----------------------------------------------------------------------------
(* Requests of the peer *)

\* belle_sip_dialog_is_authorized_transaction()
belle_sip_dialog_is_authorized_transaction(d, ts, method) ==
    \/ ~belle_sip_dialog_request_pending(d, ts)
    \/ method = "BYE"
    \/ method = "UPDATE" /\ ts[d.last].method = "INVITE"

\* belle_sip_provider_dispatch_request() of a request that matches the dialog and no
\* transaction: it is refused with 491, or the application gets a server transaction.
\* The sequence number is not looked at.
ReceiveRequest(method, cseq) ==
    LET t == NewTransaction("server", method, cseq)
        refused == Append(trans, [t EXCEPT !.code = 400, !.st = "FINAL"])
    IN  /\ Room
        /\ dialog.state \in {"EARLY", "CONFIRMED"}
        /\ \A i \in DOMAIN trans : trans[i].side = "server" => trans[i].cseq # cseq
        /\ IF belle_sip_dialog_is_authorized_transaction(dialog, trans, method)
             THEN trans' = Append(trans, t) /\ UNCHANGED dialog
             ELSE Become(belle_sip_dialog_update(dialog, refused, Len(refused), TRUE))
        /\ UNCHANGED isServer

\* Mistake to detect: the ACK does not set the queue going.
belle_sip_dialog_handle_ack_no_wakeup(n) ==
    /\ trans[n].side = "server" /\ trans[n].method = "INVITE" /\ trans[n].code = 200
    /\ dialog.needsAck
    /\ trans[n].cseq = dialog.remoteCseq
    /\ dialog' = [dialog EXCEPT !.needsAck = FALSE, !.okTimers = FALSE]
    /\ UNCHANGED <<isServer, trans>>

\* belle_sip_dialog_handle_ack() of the ACK for the 2xx of server transaction n, or of one
\* of its retransmissions.
belle_sip_dialog_handle_ack(n) ==
    /\ trans[n].side = "server" /\ trans[n].method = "INVITE" /\ trans[n].code = 200
    /\ dialog.needsAck
    /\ trans[n].cseq = dialog.remoteCseq
    /\ dialog' = belle_sip_dialog_process_queue([dialog EXCEPT !.needsAck = FALSE, !.okTimers = FALSE])
    /\ UNCHANGED <<isServer, trans>>

-----------------------------------------------------------------------------
(* Callbacks of the main loop *)

\* Mistake to detect: the retransmissions stop, and that is all.
dialog_on_200Ok_end_no_bye ==
    /\ dialog.okTimers
    /\ dialog' = [dialog EXCEPT !.okTimers = FALSE, !.state = "CONFIRMED"]
    /\ UNCHANGED <<isServer, trans>>

\* No ACK came within 64*T1. (dialog_on_200Ok_timer() only sends the 200 again.)
dialog_on_200Ok_end ==
    /\ dialog.okTimers
    /\ Become(SendNew([dialog EXCEPT !.okTimers = FALSE, !.state = "CONFIRMED"], trans, "BYE"))
    /\ UNCHANGED isServer

_belle_sip_dialog_process_queue ==
    LET d == [dialog EXCEPT !.deferred = FALSE]
    IN  /\ dialog.deferred
        /\ IF \/ d.state = "TERMINATED" \/ belle_sip_dialog_request_pending(d, trans)
              \/ d.needsAck \/ d.queue = <<>>
             THEN dialog' = d /\ UNCHANGED trans
             ELSE Become(SendQueued([d EXCEPT !.queue = Tail(@)], trans, Head(d.queue)))
        /\ UNCHANGED isServer

Next ==
    \/ \E m \in Methods : SendRequest(m) \/ SendQueuedRequest(m)
    \/ \E n \in DOMAIN trans, c \in Codes : Respond(n, c) \/ ReceiveResponse(n, c)
    \/ \E n \in DOMAIN trans : TransactionEnds(n) \/ belle_sip_dialog_handle_ack(n)
    \/ \E m \in PeerMethods, c \in 1..MaxPeerCseq : ReceiveRequest(m, c)
    \/ ApplicationDeletes
    \/ dialog_on_200Ok_end
    \/ _belle_sip_dialog_process_queue

Spec == Init /\ [][Next]_vars

\* The main loop runs the timers and what was put off; a client transaction ends (see
\* ClientResolves of TransactionPair); the application answers what it is asked. Nothing
\* makes the peer's ACK arrive. (The last two formulas are weak fairness of dialog_on_200Ok_end
\* and of final responses and ends of transactions, which are enabled until they are taken.)
Fairness ==
    /\ WF_vars(_belle_sip_dialog_process_queue)
    /\ []<>(~dialog.okTimers)
    /\ \A n \in 1..(MaxTransactions + 2) : []<>(~(n \in DOMAIN trans /\ trans[n].st = "BUSY"))

FairSpec == Spec /\ Fairness

-----------------------------------------------------------------------------
(* Properties *)

\* A dialog is deleted once and stays so: process_dialog_terminated is told once, which
\* drops the provider's reference, and no timer that holds a pointer to the dialog is left.
DeletedOnce ==
    /\ dialog.ended = IF dialog.state = "TERMINATED" THEN 1 ELSE 0
    /\ dialog.okTimers => dialog.state = "CONFIRMED"

\* Requests of the queue go out in the order the application made them, also when one is
\* made while the queue is about to be served: their sequence numbers show it.
QueueInOrder ==
    \A i, j \in DOMAIN trans :
      i < j /\ trans[i].queued /\ trans[j].queued /\ trans[j].cseq > 0
        => trans[i].cseq \in 1..(trans[j].cseq - 1) \/ trans[i].st = "TERMINATED"

\* The last ACK has the sequence number of an INVITE that is still to be ACKed, because
\* belle_sip_dialog_create_request() gave it the last number used and not that of its INVITE.
AckedEarly ==
    \E i \in DOMAIN trans :
      /\ trans[i].side = "client" /\ trans[i].method = "INVITE" /\ trans[i].acks = 0
      /\ trans[i].cseq = dialog.lastOutAck

\* No lost wake-up: when all transactions of a dialog are over and it awaits no ACK, a call
\* that sends what is queued is on its way. Nothing polls the queue, so every event that
\* frees the dialog (a final response, the end of a transaction, an ACK) has to put one off.
\* The exception: the 2xx of an INVITE that is acknowledged early is taken for a retransmission,
\* for which belle_sip_dialog_update() returns before it does so.
NoLostWakeup ==
    dialog.queue # <<>> /\ ~dialog.needsAck /\ (\A i \in DOMAIN trans : trans[i].st # "BUSY")
      /\ ~AckedEarly
      => dialog.deferred

\* The BYE that dialog_on_200Ok_end() or belle_sip_dialog_check_ack_sent() sends, or the
\* application, got a provisional response and then none: belle_sip_dialog_update() neither
\* deletes the dialog nor forgets that it needs an ACK (dialog.c 421), which contradicts
\* the sentence of the RFC quoted there.
ByeGivenUp ==
    \E n \in DOMAIN trans :
      /\ trans[n].side = "client" /\ trans[n].method = "BYE"
      /\ trans[n].st = "TERMINATED" /\ trans[n].code \in {100, 180}

\* A request made while the dialog is busy "will be sent by the transaction when the dialog
\* becomes available", or is aborted with the dialog. The exception: the dialog never
\* becomes available when it waits for an ACK and its BYE was given up.
QueuedRequestSent ==
    \A n \in 1..MaxTransactions :
      (n \in DOMAIN trans /\ trans[n].st = "INIT")
        ~> (n \in DOMAIN trans /\ trans[n].st # "INIT") \/ (dialog.needsAck /\ ByeGivenUp)

\* The remote_cseq by which an ACK is known is that of a later request of the peer, which was
\* answered or refused while the 200 waited for its ACK: the ACK is ignored (dialog.c 809).
Overtaken ==
    \E n \in DOMAIN trans :
      n > 1 /\ trans[n].side = "server" /\ trans[n].code # 0 /\ trans[n].cseq = dialog.remoteCseq

\* As long as the 200 to the first INVITE is sent again, its ACK would be known, unless the
\* INVITE was overtaken; and it is ACKed, or the dialog is ended, or its BYE was given up.
UnacknowledgedEnds ==
    /\ [](dialog.okTimers => trans[1].cseq = dialog.remoteCseq \/ Overtaken)
    /\ dialog.okTimers ~> /\ ~dialog.okTimers
                          /\ ~dialog.needsAck \/ dialog.state = "TERMINATED" \/ ByeGivenUp

\* "handle possible retransmission of 200Ok": once the application has ACKed the 2xx of an
\* INVITE, it is not given that response again, as long as nobody ends the dialog.
RetransmissionAbsorbed ==
    (\A i \in DOMAIN trans : trans[i].method # "BYE") => \A i \in DOMAIN trans : trans[i].acks <= 1
=============================================================================
