------------------------------ MODULE Refresher ------------------------------
(***************************************************************************)
(* A refresher (refresher.c): it sends a REGISTER, PUBLISH or SUBSCRIBE    *)
(* again before it expires, and later again when it failed. It owns a      *)
(* timer and the last of its client transactions; the earlier ones are     *)
(* "not for me" in all its handlers, so they are not part of the state.    *)
(*                                                                         *)
(* How long the timer runs is left out (obtained_expires, retry_after and  *)
(* number_of_retry decide nothing else): it may fire at any time.          *)
(***************************************************************************)
EXTENDS Integers

CONSTANTS
    Methods,            \* the methods of the requests to refresh
    Expires,            \* the positive expiration times in use
    Codes,              \* the status codes of the responses
    ListenerRefreshes,  \* the application may call refresh() when it is told of an I/O error
    ResubmitFails       \* a request the refresher sends from a handler may fail at once

ASSUME RefresherAssumption ==
    /\ Methods \subseteq {"REGISTER", "PUBLISH", "SUBSCRIBE"}
    /\ Expires \subseteq Nat \ {0}
    /\ Codes \subseteq 100..699
    /\ ListenerRefreshes \in BOOLEAN
    /\ ResubmitFails \in BOOLEAN

VARIABLES
    method,  \* of the request; a SUBSCRIBE is refreshed in its dialog
    r,       \* the fields of belle_sip_refresher_t
    tr,      \* refresher->transaction, with what matters of its channel
    known,   \* what the application knows of the last request that was sent
    quiet    \* the application stopped the refresher and has not called it since

vars == <<method, r, tr, known, quiet>>

ReuseExpires == -1   \* BELLE_SIP_REFRESHER_REUSE_EXPIRES

Transient(t) == t.st \in {"INIT", "TRYING", "PROCEEDING"}

\* A transaction that can still be answered, or told that it cannot.
UnderWay(t) == Transient(t) /\ t.chan \in {"up", "failing"}

\* A transaction's channel is "failing" from its error until its listeners are called.
Transaction(st, expires, chan) ==
    [st |-> st, expires |-> expires, chan |-> chan, timedOut |-> 0]

Refreshers ==
    [state : {"started", "stopped", "destroyed"}, timer : {"none", "NORMAL_REFRESH", "RETRY"},
     target : Expires \cup {0}, authFailures : {0, 1}, onIoError : {0, 1}, manual : {0, 1}]

Transactions ==
    [st : {"INIT", "TRYING", "PROCEEDING", "COMPLETED", "TERMINATED"},
     expires : Expires \cup {0}, chan : {"none", "up", "failing", "dead"},
     timedOut : {0, 1}]

\* The values the state may have. A refresher answers one challenge at once, not two.
TypeOK ==
    /\ method \in Methods
    /\ r \in Refreshers
    /\ tr \in Transactions
    /\ known \in {"waiting", "good", "bad"}
    /\ quiet \in BOOLEAN

(***************************************************************************)
(* Timers, and sending a request. What a call may result in is a set of    *)
(* records: the value returned, the refresher and its transaction.          *)
(***************************************************************************)
schedule_timer_at(x, purpose) == [x EXCEPT !.timer = purpose]

cancel_retry(x) == [x EXCEPT !.timer = "none"]

retry_later(x) == schedule_timer_at(x, "RETRY")

RetryIfWanted(x) == IF x.target > 0 THEN retry_later(x) ELSE x

belle_sip_refresher_stop_internal(x) == [cancel_retry(x) EXCEPT !.state = "stopped"]

\* A dialog is busy, at least, as long as its SUBSCRIBE is.
DialogHasRequest(t) == method = "SUBSCRIBE" /\ Transient(t) /\ t.chan # "none"

\* Not sent at all: the dialog is busy, for this or another request, or not CONFIRMED; or a
\* password is needed (auth is 1) and there is none.
Refusals(x, t, auth) ==
    IF method = "SUBSCRIBE" \/ auth = 1 THEN {[rc |-> -1, r |-> x, tr |-> t]} ELSE {}

\* A new transaction: it has no channel (none can be made, or the request is not valid and
\* stays in INIT), or it waits for its channel, or it is sent. A failing channel is still in
\* the listening point's list and is given out again.
Attempts(x, t, stop) ==
    {[rc |-> -1, r |-> x, tr |-> Transaction(st, x.target, "none")] :
       st \in {"INIT", "TERMINATED"}}
      \cup {[rc |-> 0, r |-> IF stop THEN belle_sip_refresher_stop_internal(x) ELSE x,
             tr |-> new] :
               new \in IF t.chan = "failing"
                         THEN {Transaction("INIT", x.target, "failing")}
                         ELSE {Transaction(st, x.target, "up") : st \in {"INIT", "TRYING"}}}

\* Mistake to detect: the flag on_io_error is not reset.
belle_sip_refresher_refresh_internal_flag_kept(x, t, expires, auth) ==
    LET y == IF expires = ReuseExpires THEN x ELSE [x EXCEPT !.target = expires] IN
    Refusals(y, t, auth)
      \cup IF DialogHasRequest(t) THEN {} ELSE Attempts(y, t, expires = 0)

belle_sip_refresher_refresh_internal(x, t, expires, auth) ==
    LET y == IF expires = ReuseExpires THEN x ELSE [x EXCEPT !.target = expires] IN
    Refusals(y, t, auth)
      \cup IF DialogHasRequest(t)
             THEN {}
             ELSE Attempts([y EXCEPT !.onIoError = 0], t, expires = 0)

belle_sip_refresher_refresh(x, t, expires) ==
    belle_sip_refresher_refresh_internal(
        [cancel_retry(x) EXCEPT !.authFailures = 0], t, expires, 0)

\* Calls of belle_sip_refresher_refresh() whose result nobody looks at.
Resubmit(x, t) ==
    {o \in belle_sip_refresher_refresh(x, t, x.target) : o.rc = 0 \/ ResubmitFails}

\* Was the request sent with a Contact whose address turns out to be wrong?
ContactMayBeWrong(t) == t.st # "INIT" /\ t.chan # "none"

(***************************************************************************)
(* What the application does.                                              *)
(***************************************************************************)
\* belle_sip_refresher_new() for a transaction that is under way, or over.
Init ==
    /\ method \in Methods
    /\ quiet = FALSE
    /\ \E expires \in Expires \cup {0}, manual \in {0, 1},
          st \in {"INIT", "TRYING", "PROCEEDING", "COMPLETED", "TERMINATED"} :
         LET t == Transaction(st, expires, "up")
             x == [state |-> IF Transient(t) \/ expires > 0 THEN "started" ELSE "stopped",
                   timer |-> "none", target |-> expires, authFailures |-> 0,
                   onIoError |-> 0, manual |-> manual]
         IN  IF Transient(t) \/ x.state = "stopped"
               THEN r = x /\ tr = t /\ known = IF Transient(t) THEN "waiting" ELSE "good"
               ELSE \/ /\ r = schedule_timer_at(x, "NORMAL_REFRESH")
                       /\ tr = t
                       /\ known = "good"
                    \/ \E o \in Resubmit(x, t) : r = o.r /\ tr = o.tr /\ known = "waiting"

ApplicationRefreshes ==
    /\ \E expires \in Expires \cup {0, ReuseExpires} :
         \E o \in belle_sip_refresher_refresh(r, tr, expires) :
           /\ r' = o.r
           /\ tr' = o.tr
           /\ known' = IF o.rc = 0 THEN "waiting" ELSE "bad"
    /\ quiet' = FALSE
    /\ UNCHANGED method

belle_sip_refresher_start ==
    /\ r.state = "stopped" /\ r.target > 0
    /\ LET x == [r EXCEPT !.state = "started"] IN
       \/ /\ r' = schedule_timer_at(x, "NORMAL_REFRESH")
          /\ UNCHANGED <<tr, known>>
       \/ /\ ContactMayBeWrong(tr)
          /\ \E o \in Resubmit(x, tr) : r' = o.r /\ tr' = o.tr
          /\ known' = "waiting"
    /\ quiet' = FALSE
    /\ UNCHANGED method

Terminated(t) == IF Transient(t) THEN [t EXCEPT !.st = "TERMINATED"] ELSE t

belle_sip_refresher_stop ==
    /\ r' = belle_sip_refresher_stop_internal(r)
    /\ tr' = Terminated(tr)
    /\ known' = "bad"
    /\ quiet' = TRUE
    /\ UNCHANGED method

destroy ==
    /\ r' = [belle_sip_refresher_stop_internal(r) EXCEPT !.state = "destroyed"]
    /\ tr' = Terminated(tr)
    /\ known' = "bad"
    /\ quiet' = TRUE
    /\ UNCHANGED method

belle_sip_refresher_enable_manual_mode ==
    /\ r' = [r EXCEPT !.manual = 1 - r.manual]
    /\ UNCHANGED <<method, tr, known, quiet>>

(***************************************************************************)
(* Responses. t is the transaction, in PROCEEDING or COMPLETED.            *)
(***************************************************************************)
\* The listener is told; a provisional response says nothing of the outcome.
Told(x, t, code) ==
    /\ r' = x
    /\ tr' \in {t} \cup IF code < 200 THEN {} ELSE {[t EXCEPT !.st = "TERMINATED"]}
    /\ known' = IF code < 200 THEN known ELSE IF code < 300 THEN "good" ELSE "bad"

Sent(outcomes) == \E o \in outcomes : r' = o.r /\ tr' = o.tr /\ known' = "waiting"

\* The expiration time is taken from the request; what the server granted sets the delay.
set_expires_from_trans(x, t) == [x EXCEPT !.target = t.expires]

Success(t, code) ==
    LET x == set_expires_from_trans([r EXCEPT !.authFailures = 0], t) IN
    IF x.target <= 0
      THEN Told(belle_sip_refresher_stop_internal(x), t, code)
      ELSE \/ x.state = "stopped" /\ Told(x, t, code)
           \/ x.state = "started" /\ Told(schedule_timer_at(x, "NORMAL_REFRESH"), t, code)
           \/ x.state = "started" /\ Sent(Resubmit(x, t))

\* One more request that may lack a password; if it is not sent the listener is told.
TryAgain(x, t, code) ==
    \E o \in belle_sip_refresher_refresh_internal(x, t, x.target, 1) :
       IF o.rc = 0 THEN Sent({o}) ELSE Told(o.r, o.tr, code)

Redirected(t, code) == TryAgain(r, t, code) \/ Told(r, t, code)   \* without a Contact

Challenged(t, code) ==
    IF r.authFailures + 1 > 1
      THEN Told([RetryIfWanted(r) EXCEPT !.authFailures = 0], t, code)
      ELSE TryAgain([r EXCEPT !.authFailures = @ + 1], t, code)

IntervalTooBrief(t, code) ==
    \/ /\ r.state = "started"
       /\ \E minExpires \in Expires : Sent(Resubmit([r EXCEPT !.target = minExpires], t))
    \/ Told(r, t, code)   \* no Min-Expires, or stopped

process_response_event(t, code) ==
    CASE code \in 200..299   -> Success(t, code)
      [] code \in {301, 302} -> Redirected(t, code)
      [] code \in {401, 407} -> Challenged(t, code)
      [] code = 423          -> IntervalTooBrief(t, code)
      [] code \in {501, 505} -> Told(r, t, code)
      [] OTHER               -> Told(RetryIfWanted(r), t, code)

\* nict_on_response(): a second provisional response is not reported.
ReceiveResponse(code) ==
    /\ tr.st = "TRYING" \/ (tr.st = "PROCEEDING" /\ code >= 200)
    /\ tr.chan = "up"
    /\ process_response_event(
           [tr EXCEPT !.st = IF code < 200 THEN "PROCEEDING" ELSE "COMPLETED"], code)
    /\ UNCHANGED <<method, quiet>>

(***************************************************************************)
(* Timeouts and I/O errors.                                                *)
(***************************************************************************)
\* Mistake to detect: a refresher that was stopped retries too.
process_timeout_any_state(x) == retry_later(x)

process_timeout(x) == IF x.state = "started" THEN retry_later(x) ELSE x

\* process_io_error() for an event of the transaction t.
TransactionIoError(x, t) ==
    IF x.onIoError = 1 \/ ((x.state = "stopped" \/ x.target = 0) /\ t.st = "PROCEEDING")
      THEN [r |-> x, known |-> known]
      ELSE [r |-> IF x.state = "started" THEN retry_later(x) ELSE x, known |-> "bad"]

\* process_io_error() for an event of the provider: some channel failed, maybe not ours.
\* The flag is set after the listener returns, which may have sent a request meanwhile.
ProviderIoError(x, t) ==
    IF x.onIoError = 1 \/ x.state # "started" \/ t.st # "TERMINATED"
         \/ t.chan \notin {"failing", "dead"}
      THEN {[r |-> x, tr |-> t, known |-> known]}
      ELSE {[r |-> [retry_later(x) EXCEPT !.onIoError = 1], tr |-> t, known |-> "bad"]}
             \cup {[r |-> [o.r EXCEPT !.onIoError = 1], tr |-> o.tr,
                    known |-> IF o.rc = 0 THEN "waiting" ELSE "bad"] :
                     o \in IF ListenerRefreshes
                             THEN belle_sip_refresher_refresh(retry_later(x), t, x.target)
                             ELSE {}}

OtherChannelFails ==
    /\ \E o \in ProviderIoError(r, tr) : r' = o.r /\ tr' = o.tr /\ known' = o.known
    /\ UNCHANGED <<method, quiet>>

\* on_channel_state_changed() of the transaction: the I/O error, then the timeout that
\* led to it if there was one, and the end of the transaction.
TransactionNotice(x, t, k) ==
    LET e == IF Transient(t) THEN TransactionIoError(x, t) ELSE [r |-> x, known |-> k] IN
    /\ r' = IF t.timedOut = 1 THEN process_timeout(e.r) ELSE e.r
    /\ known' = IF t.timedOut = 1 THEN "bad" ELSE e.known
    /\ tr' = [t EXCEPT !.st = "TERMINATED"]

\* The listeners of the channel are told, the provider first, then the transaction. If the
\* application sent a request when the provider was told, that one is on the same channel,
\* which is released only afterwards, and hears nothing of it.
ChannelNotice ==
    /\ tr.chan \in {"up", "failing"}
    /\ LET t == [tr EXCEPT !.chan = "failing"] IN
       \E o \in ProviderIoError(r, t) :
          LET u == IF o.tr.chan = "none" THEN o.tr ELSE [o.tr EXCEPT !.chan = "dead"] IN
          IF o.tr = t THEN TransactionNotice(o.r, u, o.known)
                      ELSE r' = o.r /\ tr' = u /\ known' = o.known
    /\ UNCHANGED <<method, quiet>>

ChannelErrs ==
    /\ tr.chan = "up"
    /\ tr' = [tr EXCEPT !.chan = "failing"]
    /\ UNCHANGED <<method, r, known, quiet>>

ChannelReady ==
    /\ tr.st = "INIT" /\ tr.chan = "up"
    /\ tr' = [tr EXCEPT !.st = "TRYING"]
    /\ UNCHANGED <<method, r, known, quiet>>

\* Timer F. The timeout of a REGISTER goes to the channel, which may try another address,
\* fail, or do nothing.
RegisterTimesOut ==
    /\ method = "REGISTER" /\ tr.st \in {"TRYING", "PROCEEDING"} /\ tr.chan = "up"
    /\ \E chan \in {"up", "failing"} :
         tr' = [tr EXCEPT !.timedOut = 1, !.chan = chan]
    /\ UNCHANGED <<method, r, known, quiet>>

TransactionTimesOut ==
    /\ method # "REGISTER" /\ tr.st \in {"TRYING", "PROCEEDING"}
    /\ r' = process_timeout(r)
    /\ tr' = [tr EXCEPT !.st = "TERMINATED"]
    /\ known' = "bad"
    /\ UNCHANGED <<method, quiet>>

nict_on_timer_K ==
    /\ tr.st = "COMPLETED"
    /\ tr' = [tr EXCEPT !.st = "TERMINATED"]
    /\ UNCHANGED <<method, r, known, quiet>>

timer_cb ==
    /\ r.timer # "none"
    /\ IF r.timer = "NORMAL_REFRESH" /\ r.manual = 1
         THEN r' = [r EXCEPT !.timer = "none"] /\ tr' = tr /\ known' = "bad"
         ELSE \E o \in belle_sip_refresher_refresh(r, tr, r.target) :
                /\ r' = IF o.rc = 0 THEN o.r ELSE retry_later(o.r)
                /\ tr' = o.tr
                /\ known' = "waiting"
    /\ UNCHANGED <<method, quiet>>

Next ==
    /\ r.state # "destroyed"
    /\ \/ ApplicationRefreshes
       \/ belle_sip_refresher_start
       \/ belle_sip_refresher_stop
       \/ destroy
       \/ belle_sip_refresher_enable_manual_mode
       \/ \E code \in Codes : ReceiveResponse(code)
       \/ OtherChannelFails
       \/ ChannelNotice
       \/ ChannelErrs
       \/ ChannelReady
       \/ RegisterTimesOut
       \/ TransactionTimesOut
       \/ nict_on_timer_K
       \/ timer_cb

Spec == Init /\ [][Next]_vars

(***************************************************************************)
(* Properties.                                                             *)
(***************************************************************************)
\* A refresher that is started and has something to refresh is never forgotten: a timer
\* runs or a request is under way, or the application was told of the failure. Of all the
\* ways a request can end (responses, timeout, I/O error on its channel or reported by the
\* provider) none may drop the refresh without a word.
NeverForgotten ==
    r.state = "started" /\ r.target > 0 =>
       r.timer # "none" \/ UnderWay(tr) \/ known = "bad"

\* Once the application has called belle_sip_refresher_stop(), or let go of the refresher,
\* and until it calls the refresher again, no timer runs and no request is under way,
\* whatever channels fail and whatever timeouts come late.
StopIsQuiet ==
    quiet => r.timer = "none" /\ ~Transient(tr)

=============================================================================
