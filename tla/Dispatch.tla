------------------------------ MODULE Dispatch ------------------------------
(***************************************************************************)
(* What the provider does with the requests it receives (provider.c): it   *)
(* looks for their server transaction, then for their dialog, answers some *)
(* itself and tells the application of the others. One call is followed:   *)
(* its INVITE, a CANCEL, the ACKs, a second INVITE and a BYE, each of      *)
(* which may arrive at any time and again, from a peer with RFC 3261       *)
(* branches or from an older one.                                          *)
(***************************************************************************)
EXTENDS Integers, Sequences, SequencesExt

CONSTANTS
    MaxTransactions   \* bound on the server transactions made

ASSUME DispatchAssumption == MaxTransactions \in Nat

VARIABLES
    old,            \* whether the peer is an RFC 2543 one, without branches
    unconditional,  \* unconditional_answer_enabled
    server_transactions,  \* the list, the last one made first
    made,           \* how many were made
    dialog,         \* the dialog of the call
    reported,       \* the request of which the last step told the application
    acks            \* how often the dialog passed an ACK on since the last 2xx

dispatchVars == <<old, unconditional, server_transactions, made, dialog, reported, acks>>

Request(method, branch, cseq, to_tag) ==
    [method |-> method, branch |-> branch, cseq |-> cseq, to_tag |-> to_tag]

\* The ACK of a failure and the CANCEL have the branch of the INVITE; the ACK of a 2xx has its own.
Requests ==
    {Request("INVITE", "b1", 1, FALSE), Request("CANCEL", "b1", 1, FALSE),
     Request("ACK", "b1", 1, TRUE), Request("ACK", "b2", 1, TRUE),
     Request("INVITE", "b3", 2, TRUE), Request("ACK", "b4", 2, TRUE),
     Request("BYE", "b5", 3, TRUE)}

NoRequest == Request("none", "none", 0, FALSE)

NoDialog == [state |-> "NONE", needs_ack |-> FALSE, remote_cseq |-> 0, last |-> <<>>]

(***************************************************************************)
(* Matching.                                                               *)
(***************************************************************************)
\* The branch parameter, or compute_rfc2543_branch(): a hash of From, To (without its tag),
\* Call-ID and the number of CSeq, not of its method.
BranchOf(req) == IF old THEN <<req.cseq>> ELSE <<req.branch>>

transaction_match(tr, req) ==
    /\ tr.branch = BranchOf(req)
    /\ tr.method = req.method \/ (req.method \in {"ACK", "CANCEL"} /\ tr.method = "INVITE")

Matching(req) ==
    {i \in DOMAIN server_transactions : transaction_match(server_transactions[i], req)}

\* belle_sip_provider_find_matching_transaction(): the first in the list.
FindTransaction(req) == CHOOSE i \in Matching(req) : \A j \in Matching(req) : i <= j

\* belle_sip_provider_find_dialog_from_message()
InDialog(req) == req.to_tag /\ dialog.state \in {"EARLY", "CONFIRMED"}

\* belle_sip_dialog_is_authorized_transaction(): the last transaction of the dialog is pending.
Pending ==
    \E i \in DOMAIN server_transactions :
        /\ <<server_transactions[i].branch, server_transactions[i].method>> = dialog.last
        /\ server_transactions[i].state = "PROCEEDING"

Authorized(req) == ~Pending \/ req.method = "BYE"

(***************************************************************************)
(* Effects.                                                                *)
(***************************************************************************)
\* belle_sip_provider_create_server_transaction()
Transaction(req, state) ==
    [branch |-> BranchOf(req), method |-> req.method, cseq |-> req.cseq,
     in_dialog |-> InDialog(req), state |-> state]

add_server_transaction(tr) ==
    /\ made < MaxTransactions
    /\ made' = made + 1
    /\ server_transactions' = <<tr>> \o server_transactions

\* belle_sip_dialog_update() as the server of a transaction that is answered with code.
Updated(d, tr, code) ==
    LET seen == [d EXCEPT !.last = <<tr.branch, tr.method>>, !.remote_cseq = tr.cseq] IN
    CASE d.state \in {"NULL", "EARLY"} /\ tr.method = "INVITE" ->
           IF code >= 300 THEN NoDialog
           ELSE IF code >= 200 THEN [seen EXCEPT !.state = "CONFIRMED", !.needs_ack = TRUE]
           ELSE [seen EXCEPT !.state = "EARLY"]
      [] d.state = "CONFIRMED" /\ tr.method = "INVITE" /\ code >= 200 ->
           [seen EXCEPT !.needs_ack = code < 300]
      [] d.state = "CONFIRMED" /\ tr.method = "BYE" /\ code >= 200 -> NoDialog
      [] OTHER -> seen

\* process_request_event
Tell(req) == reported' = req

Untold == reported' = NoRequest

\* Mistake to detect: the ACK does not settle the dialog's wait.
acknowledged_not(d) == d

acknowledged(d) == [d EXCEPT !.needs_ack = FALSE]

\* belle_sip_dialog_handle_ack(): the ACK the dialog waits for is passed on; others are ignored.
handle_ack(req) ==
    \/ /\ dialog.needs_ack /\ req.cseq = dialog.remote_cseq
       /\ dialog' = acknowledged(dialog)
       /\ acks' = acks + 1
       /\ Tell(req)
    \/ /\ ~(dialog.needs_ack /\ req.cseq = dialog.remote_cseq)
       /\ Untold /\ UNCHANGED <<dialog, acks>>

(***************************************************************************)
(* belle_sip_server_transaction_on_request(): the request has a            *)
(* transaction. A CANCEL is reported each time, also a repeated one.       *)
(***************************************************************************)
OnAck(i, req) ==
    LET tr == server_transactions[i] IN
    /\ \/ /\ tr.state = "COMPLETED"
          /\ server_transactions' = [server_transactions EXCEPT ![i].state = "CONFIRMED"]
          /\ Untold /\ UNCHANGED <<dialog, acks>>
       \/ /\ tr.state = "ACCEPTED" /\ dialog.state # "NONE" /\ handle_ack(req)
          /\ UNCHANGED server_transactions
       \/ /\ tr.state \notin {"COMPLETED", "ACCEPTED"} \/ dialog.state = "NONE"
          /\ Untold /\ UNCHANGED <<server_transactions, dialog, acks>>
    /\ UNCHANGED made

belle_sip_server_transaction_on_request(req) ==
    LET i == FindTransaction(req) IN
    /\ Matching(req) # {}
    /\ \/ req.method = "ACK" /\ OnAck(i, req)
       \/ /\ req.method = "CANCEL" /\ Tell(req)
          /\ \/ add_server_transaction(Transaction(req, "PROCEEDING"))
             \/ UNCHANGED <<server_transactions, made>>
          /\ UNCHANGED <<dialog, acks>>
       \/ /\ req.method \notin {"ACK", "CANCEL"} /\ Untold
          /\ UNCHANGED <<server_transactions, made, dialog, acks>>
    /\ UNCHANGED <<old, unconditional>>

(***************************************************************************)
(* belle_sip_provider_dispatch_request(): the request has none.            *)
(***************************************************************************)
\* The provider answers with a transaction of its own: 491, or 480.
AnswerItself(req, code) ==
    LET tr == Transaction(req, "COMPLETED") IN
    /\ add_server_transaction(tr)
    /\ dialog' = IF tr.in_dialog THEN Updated(dialog, tr, code) ELSE dialog
    /\ Untold /\ UNCHANGED acks

\* The application is told. In its listener it makes a transaction, with a dialog for the
\* first INVITE, or it leaves the request without one.
TellApplication(req) ==
    /\ Tell(req)
    /\ \/ /\ req.method # "ACK"
          /\ add_server_transaction(Transaction(req, "PROCEEDING"))
          /\ dialog' = IF req.method = "INVITE" /\ dialog.state = "NONE" /\ ~req.to_tag
                         THEN [NoDialog EXCEPT !.state = "NULL"] ELSE dialog
       \/ UNCHANGED <<server_transactions, made, dialog>>
    /\ UNCHANGED acks

belle_sip_provider_dispatch_request(req) ==
    /\ Matching(req) = {}
    /\ \/ /\ InDialog(req) /\ req.method = "ACK" /\ handle_ack(req)
          /\ UNCHANGED <<server_transactions, made>>
       \/ /\ InDialog(req) /\ req.method # "ACK" /\ ~Authorized(req)
          /\ AnswerItself(req, 491)
       \/ /\ InDialog(req) => (req.method # "ACK" /\ Authorized(req))
          /\ \/ unconditional /\ req.method # "ACK" /\ AnswerItself(req, 480)
             \/ (~unconditional \/ req.method = "ACK") /\ TellApplication(req)
    /\ UNCHANGED <<old, unconditional>>

\* belle_sip_provider_dispatch_message(): a request without its mandatory headers is answered
\* with 400, without a transaction.
DispatchMalformed ==
    Untold /\ UNCHANGED <<old, unconditional, server_transactions, made, dialog, acks>>

(***************************************************************************)
(* The application answers; transactions end.                              *)
(***************************************************************************)
belle_sip_server_transaction_send_response(i, code) ==
    LET tr == server_transactions[i] IN
    /\ tr.state = "PROCEEDING" /\ (code < 200 => tr.method = "INVITE")
    /\ server_transactions' = [server_transactions EXCEPT ![i].state =
           IF code < 200 THEN "PROCEEDING"
           ELSE IF tr.method = "INVITE" /\ code < 300 THEN "ACCEPTED" ELSE "COMPLETED"]
    /\ dialog' = IF tr.in_dialog \/ (tr.method = "INVITE" /\ dialog.state \in {"NULL", "EARLY"})
                   THEN Updated(dialog, tr, code) ELSE dialog
    /\ acks' = IF tr.method = "INVITE" /\ code \in 200..299 THEN 0 ELSE acks
    /\ Untold /\ UNCHANGED <<old, unconditional, made>>

\* belle_sip_provider_set_transaction_terminated()
TransactionTerminated(i) ==
    /\ server_transactions[i].state # "PROCEEDING"
    /\ server_transactions' = RemoveAt(server_transactions, i)
    /\ Untold /\ UNCHANGED <<old, unconditional, made, dialog, acks>>

DispatchInit ==
    /\ old \in BOOLEAN /\ unconditional \in BOOLEAN
    /\ server_transactions = <<>> /\ made = 0 /\ dialog = NoDialog
    /\ reported = NoRequest /\ acks = 0

DispatchNext ==
    \/ \E req \in Requests :
         belle_sip_server_transaction_on_request(req) \/ belle_sip_provider_dispatch_request(req)
    \/ DispatchMalformed
    \/ \E i \in DOMAIN server_transactions :
         \/ \E code \in {180, 200, 486} : belle_sip_server_transaction_send_response(i, code)
         \/ TransactionTerminated(i)

(***************************************************************************)
(* Properties.                                                             *)
(***************************************************************************)
\* The ACK of its last 2xx was passed to the application at most once.
AckToldOnce == acks <= 1

\* A transaction of the INVITE waits for the ACK of a failure response.
AwaitsAck ==
    \E i \in DOMAIN server_transactions :
        /\ server_transactions[i].method = "INVITE" /\ server_transactions[i].cseq = 1
        /\ server_transactions[i].state = "COMPLETED"

\* What the application hears of ACKs. It hears of that of its last 2xx at most once, however often
\* it is repeated and whether it comes to the transaction or to the dialog. The ACK of a failure
\* ends the retransmissions of the INVITE's transaction, whichever other transactions have its
\* branch, also from a peer without branches: as long as that transaction waits for the ACK, it
\* takes it, and the ACK is not reported (belle_sip_server_transaction_on_request(),
\* belle_sip_dialog_handle_ack()).
AcksReported ==
    [][AckToldOnce' /\ (AwaitsAck => reported' # Request("ACK", "b1", 1, TRUE))]_dispatchVars
=============================================================================
