------------------------------- MODULE Forking -------------------------------
(***************************************************************************)
(* A call that a proxy forks to several peers (transaction.c, provider.c,  *)
(* dialog.c): the responses to one INVITE come from all of them, each with *)
(* the tag of the peer, and the client makes a dialog for each. The        *)
(* transaction points to the dialog it made last.                          *)
(*                                                                         *)
(* Responses have a Contact; all but the first provisional ones have a tag *)
(* in To (a response without one is compared with strcmp() to the tag of   *)
(* the transaction's dialog). The application keeps no reference to a      *)
(* dialog that ended.                                                      *)
(***************************************************************************)
EXTENDS Integers, Sequences, FiniteSets

CONSTANTS
    ForkTags,       \* the tags of the peers
    MaxDialogs,     \* bound on the dialogs made
    MaxResponses    \* bound on the responses received

ASSUME ForkingAssumption == MaxDialogs \in Nat /\ MaxResponses \in Nat

VARIABLES
    ict,        \* the state of the client transaction
    forks,      \* its dialogs, in the order they were made
    tdialog,    \* the transaction's dialog: its place in forks, or 0
    answers,    \* the responses received
    event,      \* process_response_event of the last step
    lost,       \* the transaction's dialog went away when there were others
    aborted     \* belle_sip_fatal() was called

forkVars == <<ict, forks, tdialog, answers, event, lost, aborted>>

NoTag == "no tag"
NoEvent == [code |-> 0, tag |-> NoTag, place |-> 0]

\* belle_sip_dialog_new()
NewFork(tag) ==
    [state |-> "NULL", tag |-> tag, needs_ack |-> FALSE, acked |-> FALSE, leaving |-> FALSE]

\* prov->dialogs has those that were not deleted.
StillListed(i) == forks[i].state \in {"NULL", "EARLY", "CONFIRMED"}

\* _belle_sip_dialog_match()
ForkMatches(i, tag) == forks[i].tag # NoTag /\ forks[i].tag = tag

\* belle_sip_provider_find_dialog_from_message(): what matches; it aborts when that is not one.
FoundForks(tag) ==
    {i \in DOMAIN forks : StillListed(i) /\ forks[i].state # "NULL" /\ ForkMatches(i, tag)}

\* set_to_tag()
WithTag(d, tag) == IF d.tag = NoTag THEN [d EXCEPT !.tag = tag] ELSE d

\* belle_sip_dialog_update() with a response to the INVITE.
ForkUpdated(d, code, tag) ==
    CASE d.state \in {"NULL", "EARLY"} /\ code >= 300 -> [d EXCEPT !.state = "TERMINATED"]
      [] d.state \in {"NULL", "EARLY"} /\ code = 200 ->
           [WithTag(d, tag) EXCEPT !.state = "CONFIRMED", !.needs_ack = TRUE]
      [] d.state = "NULL" /\ code \in 101..199 -> [WithTag(d, tag) EXCEPT !.state = "EARLY"]
      [] d.state = "CONFIRMED" /\ code = 200 -> [d EXCEPT !.needs_ack = TRUE]
      [] OTHER -> d

\* belle_sip_dialog_handle_200Ok(): the ACK is sent again and the application hears nothing.
Repeated200(d, code) == d.state = "CONFIRMED" /\ code = 200 /\ d.acked

\* The listener sends the ACK of a 2xx, or belle_sip_dialog_check_ack_sent() sends a BYE.
Listened(d) ==
    IF ~ d.needs_ack THEN {d}
    ELSE {[d EXCEPT !.needs_ack = FALSE, !.acked = TRUE], [d EXCEPT !.leaving = TRUE]}

\* The response goes to dialog i of fs, and to the application with it.
Handled(fs, i, code, tag) ==
    IF Repeated200(fs[i], code) THEN forks' = fs /\ event' = NoEvent
    ELSE /\ \E d \in Listened(ForkUpdated(fs[i], code, tag)) : forks' = [fs EXCEPT ![i] = d]
         /\ event' = [code |-> code, tag |-> tag, place |-> i]

\* should_dialog_be_created(), for an INVITE.
should_dialog_be_created(code) == code >= 101 /\ code < 300

\* belle_sip_provider_create_dialog_internal(), belle_sip_transaction_set_dialog().
CreateFork(code, tag) ==
    /\ Len(forks) < MaxDialogs
    /\ tdialog' = Len(forks) + 1
    /\ Handled(Append(forks, NewFork(tag)), Len(forks) + 1, code, tag)
    /\ UNCHANGED aborted

\* The response is not one of the transaction's dialog.
AnotherFork(code, tag) ==
    /\ tdialog # 0 /\ code \in 101..299 /\ forks[tdialog].state \in {"EARLY", "CONFIRMED"}
    /\ ~ ForkMatches(tdialog, tag)

\* Mistake to detect: no dialog is looked for before one is made.
belle_sip_client_transaction_notify_response_Unsought(code, tag) ==
    \/ AnotherFork(code, tag) /\ CreateFork(code, tag)
    \/ /\ tdialog # 0 /\ ~ AnotherFork(code, tag) /\ Handled(forks, tdialog, code, tag)
       /\ UNCHANGED <<tdialog, aborted>>
    \/ tdialog = 0 /\ should_dialog_be_created(code) /\ CreateFork(code, tag)
    \/ /\ tdialog = 0 /\ ~ should_dialog_be_created(code)
       /\ event' = [code |-> code, tag |-> tag, place |-> 0] /\ UNCHANGED <<forks, tdialog, aborted>>

belle_sip_client_transaction_notify_response(code, tag) ==
    \/ /\ AnotherFork(code, tag) /\ Cardinality(FoundForks(tag)) > 1
       /\ aborted' = TRUE /\ UNCHANGED <<forks, tdialog, event>>
    \/ /\ AnotherFork(code, tag) /\ Cardinality(FoundForks(tag)) = 1
       /\ \E i \in FoundForks(tag) : Handled(forks, i, code, tag)
       /\ UNCHANGED <<tdialog, aborted>>
    \/ AnotherFork(code, tag) /\ FoundForks(tag) = {} /\ CreateFork(code, tag)
    \/ /\ tdialog # 0 /\ ~ AnotherFork(code, tag) /\ Handled(forks, tdialog, code, tag)
       /\ UNCHANGED <<tdialog, aborted>>
    \/ tdialog = 0 /\ should_dialog_be_created(code) /\ CreateFork(code, tag)
    \/ /\ tdialog = 0 /\ ~ should_dialog_be_created(code)
       /\ event' = [code |-> code, tag |-> tag, place |-> 0] /\ UNCHANGED <<forks, tdialog, aborted>>

\* The tag of the transaction's dialog.
TransactionTag == IF tdialog = 0 THEN NoTag ELSE forks[tdialog].tag

\* ict_on_response()
ForkAnswers(code, tag) ==
    /\ answers < MaxResponses /\ answers' = answers + 1
    /\ tag = NoTag => code = 180 /\ tag = TransactionTag
    /\ \/ /\ ict = "PROCEEDING"
          /\ ict' = CASE code >= 300 -> "COMPLETED" [] code = 200 -> "ACCEPTED" [] OTHER -> ict
          /\ belle_sip_client_transaction_notify_response(code, tag)
       \/ /\ ict = "ACCEPTED" /\ code = 200 /\ UNCHANGED ict
          /\ belle_sip_client_transaction_notify_response(code, tag)
       \/ /\ (ict = "ACCEPTED" /\ code # 200) \/ ict = "COMPLETED"
          /\ event' = NoEvent /\ UNCHANGED <<ict, forks, tdialog, aborted>>
       \/ /\ ict = "TERMINATED" \* belle_sip_provider_dispatch_response() finds no transaction
          /\ event' = [code |-> code, tag |-> tag, place |-> 0]
          /\ UNCHANGED <<ict, forks, tdialog, aborted>>
    /\ UNCHANGED lost

\* ict_on_timer_D(), ict_on_timer_M()
ForkTimer ==
    /\ ict \in {"COMPLETED", "ACCEPTED"} /\ ict' = "TERMINATED" /\ event' = NoEvent
    /\ UNCHANGED <<forks, tdialog, answers, lost, aborted>>

\* belle_sip_dialog_delete(), belle_sip_provider_remove_dialog().
Deleted(i) ==
    /\ forks' = [forks EXCEPT ![i].state = "TERMINATED", ![i].needs_ack = FALSE]
    /\ event' = NoEvent /\ UNCHANGED <<ict, tdialog, answers, lost>>

\* The answer to a BYE of the client, or its timeout.
ForkBye(i) == forks[i].state = "CONFIRMED" /\ Deleted(i) /\ UNCHANGED aborted

\* The application gives up a call that is not answered.
ForkGivenUp(i) == forks[i].state \in {"NULL", "EARLY"} /\ Deleted(i) /\ UNCHANGED aborted

\* The application answers the BYE of a peer, in the dialog it was found for.
PeerBye(tag) ==
    \/ \E i \in DOMAIN forks : FoundForks(tag) = {i} /\ Deleted(i) /\ UNCHANGED aborted
    \/ /\ Cardinality(FoundForks(tag)) > 1 /\ aborted' = TRUE
       /\ UNCHANGED <<ict, forks, tdialog, answers, event, lost>>

\* notify_dialog_terminated() gives up the last reference; belle_sip_transaction_reset_dialog().
ForkReleased(i) ==
    /\ forks[i].state = "TERMINATED"
    /\ forks' = [forks EXCEPT ![i].state = "RELEASED"]
    /\ tdialog' = IF tdialog = i THEN 0 ELSE tdialog
    /\ lost' = (lost \/ (tdialog = i /\ \E j \in DOMAIN forks : StillListed(j)))
    /\ event' = NoEvent /\ UNCHANGED <<ict, answers, aborted>>

\* The application made a dialog with the request, or leaves that to its responses.
ForkInit ==
    /\ ict = "PROCEEDING" /\ forks \in {<<>>, <<NewFork(NoTag)>>} /\ tdialog = Len(forks)
    /\ answers = 0 /\ event = NoEvent /\ lost = FALSE /\ aborted = FALSE

ForkNext ==
    /\ ~ aborted
    /\ \/ \E code \in {100, 180, 200, 486}, tag \in ForkTags \cup {NoTag} : ForkAnswers(code, tag)
       \/ ForkTimer
       \/ \E i \in DOMAIN forks : ForkBye(i) \/ ForkGivenUp(i) \/ ForkReleased(i)
       \/ \E tag \in ForkTags : PeerBye(tag)

ForkSpec == ForkInit /\ [][ForkNext]_forkVars
-----------------------------------------------------------------------------
\* The answers of the peers are kept apart: a response is reported with the dialog of the peer it
\* came from (unless that of the transaction was just deleted), no peer has two dialogs as long
\* as the transaction keeps one, and every call that a peer accepted is acknowledged or hung up
\* (belle_sip_client_transaction_notify_response(), belle_sip_dialog_check_ack_sent()).
ForkedApart ==
    /\ event.place # 0 /\ event.code \in 101..299 =>
         forks[event.place].tag = event.tag \/ forks[event.place].state = "TERMINATED"
    /\ ~ lost => \A tag \in ForkTags : Cardinality(FoundForks(tag)) < 2
    /\ \A i \in DOMAIN forks :
         forks[i].state = "CONFIRMED" => ~ forks[i].needs_ack \/ forks[i].leaving

\* belle_sip_provider_find_dialog_from_message() finds one dialog: "More than 1 dialog is
\* matching, check your app" is not what an application that hangs up one of the calls gets.
OneDialogPerPeer == ~ aborted
=============================================================================
