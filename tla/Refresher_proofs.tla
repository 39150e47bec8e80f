--------------------------- MODULE Refresher_proofs ---------------------------
(***************************************************************************)
(* Theorems about Refresher: its types, and its two safety properties for  *)
(* every set of methods, codes and expiration times. NeverForgotten needs  *)
(* two assumptions, which name what the code gets wrong: the application   *)
(* does not refresh from the callback of an I/O error, and a request sent  *)
(* from a handler, whose result the code ignores, does not fail at once.   *)
(***************************************************************************)
EXTENDS Refresher, TLAPS

\* The flag on_io_error is set only while the transaction is over, so that no error of a
\* transaction under way is ignored.
FlagInv == r.onIoError = 1 => tr.st = "TERMINATED"

\* A refresher that the application stopped is not started.
QuietInv == quiet => r.state # "started"

\* What NeverForgotten assumes of the application and of sending.
Assumed == ~ListenerRefreshes /\ ~ResubmitFails

\* The inductive invariant.
IInv ==
    /\ TypeOK /\ QuietInv /\ StopIsQuiet
    /\ Assumed => FlagInv /\ NeverForgotten

\* Setting the timer changes nothing else.
LEMMA TimerResult ==
    ASSUME NEW x \in Refreshers, NEW purpose \in {"none", "NORMAL_REFRESH", "RETRY"}
    PROVE  LET y == [x EXCEPT !.timer = purpose]
           IN  /\ y \in Refreshers /\ y.timer = purpose
               /\ y.state = x.state /\ y.target = x.target /\ y.onIoError = x.onIoError
               /\ y.authFailures = x.authFailures /\ y.manual = x.manual
BY DEF Refreshers

\* belle_sip_refresher_stop_internal() cancels the timer and stops the refresher.
LEMMA StopResult ==
    ASSUME NEW x \in Refreshers
    PROVE  LET y == belle_sip_refresher_stop_internal(x)
           IN  /\ y \in Refreshers /\ y.timer = "none" /\ y.state = "stopped"
               /\ y.target = x.target /\ y.onIoError = x.onIoError
<1> DEFINE c == cancel_retry(x)
<1>1. c \in Refreshers /\ c.timer = "none" /\ c.target = x.target /\ c.onIoError = x.onIoError
  BY TimerResult DEF cancel_retry
<1> HIDE DEF c
<1>2. LET y == [c EXCEPT !.state = "stopped"]
      IN  /\ y \in Refreshers /\ y.timer = c.timer /\ y.state = "stopped"
          /\ y.target = c.target /\ y.onIoError = c.onIoError
  BY <1>1 DEF Refreshers
<1> QED
  BY <1>1, <1>2 DEF belle_sip_refresher_stop_internal, c

\* What a call that sends a request may do to the refresher and its transaction.
LEMMA InternalResult ==
    ASSUME NEW x \in Refreshers, NEW t \in Transactions, NEW auth \in {0, 1},
           NEW expires \in Expires \cup {0, ReuseExpires},
           NEW o \in belle_sip_refresher_refresh_internal(x, t, expires, auth)
    PROVE  /\ o.rc \in {0, -1} /\ o.r \in Refreshers /\ o.tr \in Transactions
           /\ o.r.state = x.state \/ o.r.state = "stopped"
           /\ o.r.timer = x.timer \/ o.r.timer = "none"
           /\ (o.rc = 0 => UnderWay(o.tr)) /\ (o.rc = -1 => o.r.timer = x.timer)
           /\ o.r.onIoError = 0 \/ (o.r.onIoError = x.onIoError /\ o.tr = t)
<1> DEFINE y == IF expires = ReuseExpires THEN x ELSE [x EXCEPT !.target = expires]
           z == [y EXCEPT !.onIoError = 0]
           stop == expires = 0
<1>1. y \in Refreshers /\ y.state = x.state /\ y.timer = x.timer /\ y.onIoError = x.onIoError
  BY RefresherAssumption DEF Refreshers, ReuseExpires
<1> HIDE DEF y
<1>2. z \in Refreshers /\ z.state = x.state /\ z.timer = x.timer /\ z.onIoError = 0
  BY <1>1 DEF Refreshers
<1>3. o \in Refusals(y, t, auth) \/ o \in Attempts(z, t, stop)
  BY Zenon DEF belle_sip_refresher_refresh_internal, y
<1> HIDE DEF z, stop
<1>4. CASE o \in Refusals(y, t, auth)
  BY <1>1, <1>4 DEF Refusals
<1>5. CASE o \in Attempts(z, t, stop)
  <2>1. PICK st \in {"INIT", "TRYING", "TERMINATED"}, chan \in {"none", "up", "failing"} :
          o.tr = Transaction(st, z.target, chan)
    BY <1>5 DEF Attempts
  <2>2. o.tr \in Transactions
    BY <1>2, <2>1 DEF Transaction, Transactions, Refreshers
  <2>3. o.rc \in {0, -1} /\ (o.rc = -1 => o.r = z)
        /\ (o.r = z \/ o.r = belle_sip_refresher_stop_internal(z))
    BY <1>5 DEF Attempts
  <2>4. o.rc = 0 => UnderWay(o.tr)
    BY <1>5 DEF Attempts, UnderWay, Transient, Transaction
  <2>5. /\ belle_sip_refresher_stop_internal(z) \in Refreshers
        /\ belle_sip_refresher_stop_internal(z).state = "stopped"
        /\ belle_sip_refresher_stop_internal(z).timer = "none"
        /\ belle_sip_refresher_stop_internal(z).onIoError = 0
    BY <1>2, StopResult
  <2> QED
    BY <1>2, <2>2, <2>3, <2>4, <2>5
<1> QED
  BY <1>3, <1>4, <1>5

\* belle_sip_refresher_refresh() cancels the timer as well.
LEMMA RefreshResult ==
    ASSUME NEW x \in Refreshers, NEW t \in Transactions,
           NEW expires \in Expires \cup {0, ReuseExpires},
           NEW o \in belle_sip_refresher_refresh(x, t, expires)
    PROVE  /\ o.rc \in {0, -1} /\ o.r \in Refreshers /\ o.tr \in Transactions
           /\ o.r.state = x.state \/ o.r.state = "stopped"
           /\ o.r.timer = "none"
           /\ o.rc = 0 => UnderWay(o.tr)
           /\ o.r.onIoError = 0 \/ (o.r.onIoError = x.onIoError /\ o.tr = t)
<1> DEFINE c == cancel_retry(x)
           d == [c EXCEPT !.authFailures = 0]
<1>1. c \in Refreshers /\ c.timer = "none" /\ c.state = x.state /\ c.onIoError = x.onIoError
  BY TimerResult DEF cancel_retry
<1> HIDE DEF c
<1>2. d \in Refreshers /\ d.timer = "none" /\ d.state = x.state /\ d.onIoError = x.onIoError
  BY <1>1 DEF Refreshers
<1>3. o \in belle_sip_refresher_refresh_internal(d, t, expires, 0)
  BY DEF belle_sip_refresher_refresh, c
<1> HIDE DEF d
<1> QED
  BY <1>2, <1>3, InternalResult

\* A request sent by the refresher itself.
LEMMA ResubmitResult ==
    ASSUME NEW x \in Refreshers, NEW t \in Transactions, NEW o \in Resubmit(x, t)
    PROVE  /\ o.r \in Refreshers /\ o.tr \in Transactions
           /\ o.r.state = x.state \/ o.r.state = "stopped"
           /\ ~ResubmitFails => UnderWay(o.tr)
           /\ o.r.onIoError = 0 \/ (o.r.onIoError = x.onIoError /\ o.tr = t)
<1>1. x.target \in Expires \cup {0, ReuseExpires}
  BY DEF Refreshers
<1>2. o \in belle_sip_refresher_refresh(x, t, x.target) /\ (o.rc = 0 \/ ResubmitFails)
  BY DEF Resubmit
<1> QED
  BY <1>1, <1>2, RefreshResult

\* belle_sip_refresher_new() makes a refresher of the right type that satisfies the invariants.
LEMMA InitHolds ==
    ASSUME Init
    PROVE  IInv
<1>1. PICK expires \in Expires \cup {0}, manual \in {0, 1},
           st \in {"INIT", "TRYING", "PROCEEDING", "COMPLETED", "TERMINATED"} :
         LET t == Transaction(st, expires, "up")
             x == [state |-> IF Transient(t) \/ expires > 0 THEN "started" ELSE "stopped",
                   timer |-> "none", target |-> expires, authFailures |-> 0,
                   onIoError |-> 0, manual |-> manual]
         IN  IF Transient(t) \/ x.state = "stopped"
               THEN r = x /\ tr = t /\ known = IF Transient(t) THEN "waiting" ELSE "good"
               ELSE \/ /\ r = schedule_timer_at(x, "NORMAL_REFRESH")
                       /\ tr = t
                       /\ known = "good"
                    \/ \E o \in Resubmit(x, t) : r = o.r /\ tr = o.tr /\ known = "waiting"
  BY DEF Init
<1> DEFINE t == Transaction(st, expires, "up")
           x == [state |-> IF Transient(t) \/ expires > 0 THEN "started" ELSE "stopped",
                 timer |-> "none", target |-> expires, authFailures |-> 0,
                 onIoError |-> 0, manual |-> manual]
<1>2. t \in Transactions /\ (Transient(t) => UnderWay(t))
  BY DEF Transaction, Transactions, UnderWay
<1>3. /\ x \in Refreshers /\ x.onIoError = 0
      /\ (x.state = "stopped" => ~(x.state = "started"))
      /\ (~Transient(t) /\ x.state # "stopped" => x.state = "started")
  BY DEF Refreshers
<1>4. \/ (Transient(t) \/ x.state = "stopped") /\ r = x /\ tr = t
           /\ known = (IF Transient(t) THEN "waiting" ELSE "good")
      \/ r = schedule_timer_at(x, "NORMAL_REFRESH") /\ tr = t /\ known = "good"
      \/ \E o \in Resubmit(x, t) : r = o.r /\ tr = o.tr /\ known = "waiting"
  BY <1>1
<1> HIDE DEF t, x
<1>5. method \in Methods /\ quiet \in BOOLEAN /\ ~quiet
  BY DEF Init
<1>6. CASE (Transient(t) \/ x.state = "stopped") /\ r = x /\ tr = t
             /\ known = (IF Transient(t) THEN "waiting" ELSE "good")
  BY <1>2, <1>3, <1>5, <1>6 DEF IInv, TypeOK, QuietInv, StopIsQuiet, FlagInv, NeverForgotten
<1>7. CASE r = schedule_timer_at(x, "NORMAL_REFRESH") /\ tr = t /\ known = "good"
  <2>1. r \in Refreshers /\ r.timer = "NORMAL_REFRESH" /\ r.onIoError = 0
    BY <1>3, <1>7, TimerResult DEF schedule_timer_at
  <2> QED
    BY <1>2, <1>5, <1>7, <2>1 DEF IInv, TypeOK, QuietInv, StopIsQuiet, FlagInv, NeverForgotten
<1>8. CASE \E o \in Resubmit(x, t) : r = o.r /\ tr = o.tr /\ known = "waiting"
  BY <1>2, <1>3, <1>5, <1>8, ResubmitResult
     DEF IInv, Assumed, TypeOK, QuietInv, StopIsQuiet, FlagInv, NeverForgotten
<1> QED
  BY <1>4, <1>6, <1>7, <1>8

(***************************************************************************)
(* Each action keeps the invariant.                                        *)
(***************************************************************************)
\* A request that the application asks for.
LEMMA ApplicationRefreshesKeeps ==
    ASSUME IInv, ApplicationRefreshes
    PROVE  IInv'
<1>1. PICK expires \in Expires \cup {0, ReuseExpires} :
         \E o \in belle_sip_refresher_refresh(r, tr, expires) :
           r' = o.r /\ tr' = o.tr /\ known' = IF o.rc = 0 THEN "waiting" ELSE "bad"
  BY DEF ApplicationRefreshes
<1>2. PICK o \in belle_sip_refresher_refresh(r, tr, expires) :
         r' = o.r /\ tr' = o.tr /\ known' = IF o.rc = 0 THEN "waiting" ELSE "bad"
  BY <1>1
<1>3. r \in Refreshers /\ tr \in Transactions
  BY DEF IInv, TypeOK
<1>4. /\ r' \in Refreshers /\ tr' \in Transactions
      /\ UnderWay(tr)' \/ known' = "bad"
      /\ r'.onIoError = 0 \/ (r'.onIoError = r.onIoError /\ tr' = tr)
  BY <1>2, <1>3, RefreshResult DEF UnderWay, Transient
<1>5. quiet' \in BOOLEAN /\ ~quiet' /\ method' = method /\ known' \in {"waiting", "bad"}
  BY <1>2 DEF ApplicationRefreshes
<1> QED
  BY <1>4, <1>5 DEF IInv, TypeOK, QuietInv, StopIsQuiet, FlagInv, NeverForgotten

\* belle_sip_refresher_start() sets the timer or sends a request.
LEMMA StartKeeps ==
    ASSUME IInv, belle_sip_refresher_start
    PROVE  IInv'
<1> DEFINE x == [r EXCEPT !.state = "started"]
<1>1. r \in Refreshers /\ tr \in Transactions /\ known \in {"waiting", "good", "bad"}
  BY DEF IInv, TypeOK
<1>2. x \in Refreshers /\ x.onIoError = r.onIoError
  BY <1>1 DEF Refreshers
<1>3. \/ r' = schedule_timer_at(x, "NORMAL_REFRESH") /\ tr' = tr /\ known' = known
      \/ \E o \in Resubmit(x, tr) : r' = o.r /\ tr' = o.tr /\ known' = "waiting"
  BY DEF belle_sip_refresher_start
<1>4. quiet' \in BOOLEAN /\ ~quiet' /\ method' = method
  BY DEF belle_sip_refresher_start
<1> HIDE DEF x
<1>5. CASE r' = schedule_timer_at(x, "NORMAL_REFRESH") /\ tr' = tr /\ known' = known
  <2>1. r' \in Refreshers /\ r'.timer = "NORMAL_REFRESH" /\ r'.onIoError = r.onIoError
    BY <1>2, <1>5, TimerResult DEF schedule_timer_at
  <2> QED
    BY <1>1, <1>4, <1>5, <2>1
       DEF IInv, TypeOK, QuietInv, StopIsQuiet, FlagInv, NeverForgotten
<1>6. CASE \E o \in Resubmit(x, tr) : r' = o.r /\ tr' = o.tr /\ known' = "waiting"
  <2>1. /\ r' \in Refreshers /\ tr' \in Transactions
        /\ ~ResubmitFails => UnderWay(tr)'
        /\ r'.onIoError = 0 \/ (r'.onIoError = r.onIoError /\ tr' = tr)
    BY <1>1, <1>2, <1>6, ResubmitResult DEF UnderWay, Transient
  <2> QED
    BY <1>4, <1>6, <2>1
       DEF IInv, Assumed, TypeOK, QuietInv, StopIsQuiet, FlagInv, NeverForgotten
<1> QED
  BY <1>3, <1>5, <1>6

\* The refresher is stopped, or given up, by the application.
LEMMA StopKeeps ==
    ASSUME IInv, belle_sip_refresher_stop \/ destroy
    PROVE  IInv'
<1> DEFINE y == belle_sip_refresher_stop_internal(r)
<1>1. r \in Refreshers /\ tr \in Transactions
  BY DEF IInv, TypeOK
<1>2. y \in Refreshers /\ y.timer = "none" /\ y.state = "stopped" /\ y.onIoError = r.onIoError
  BY <1>1, StopResult
<1>3. r' = y \/ r' = [y EXCEPT !.state = "destroyed"]
  BY DEF belle_sip_refresher_stop, destroy
<1> HIDE DEF y
<1>4. /\ r' \in Refreshers /\ r'.timer = "none" /\ r'.state # "started"
      /\ r'.onIoError = r.onIoError
  BY <1>2, <1>3 DEF Refreshers
<1>5. /\ tr' \in Transactions /\ ~Transient(tr)'
      /\ tr.st = "TERMINATED" => tr'.st = "TERMINATED"
  BY <1>1 DEF belle_sip_refresher_stop, destroy, Terminated, Transient, Transactions
<1>6. quiet' \in BOOLEAN /\ method' = method /\ known' = "bad"
  BY DEF belle_sip_refresher_stop, destroy
<1> QED
  BY <1>4, <1>5, <1>6 DEF IInv, TypeOK, QuietInv, StopIsQuiet, FlagInv, NeverForgotten

\* The listener is told of a response. A provisional one must leave the transaction under
\* way, a success must leave a timer unless there is nothing to refresh.
LEMMA ToldKeeps ==
    ASSUME IInv, NEW x \in Refreshers, NEW t \in Transactions, NEW code \in Nat,
           Told(x, t, code), method' = method, quiet' = quiet, ~quiet,
           Assumed => x.onIoError = 0,
           code < 200 => UnderWay(t),
           code \in 200..299 => x.state # "started" \/ x.timer # "none" \/ x.target = 0
    PROVE  IInv'
<1>1. quiet' \in BOOLEAN /\ ~quiet' /\ known \in {"waiting", "good", "bad"}
  BY DEF IInv, TypeOK
<1>2. tr' \in Transactions /\ (code < 200 => UnderWay(tr)')
  BY DEF Told, Transactions, UnderWay, Transient
<1>3. /\ r' = x
      /\ known' = IF code < 200 THEN known ELSE IF code < 300 THEN "good" ELSE "bad"
  BY DEF Told
<1>4. known' \in {"waiting", "good", "bad"} /\ (code >= 300 => known' = "bad")
  BY <1>1, <1>3
<1>5. Assumed => NeverForgotten'
  BY <1>2, <1>3, <1>4 DEF NeverForgotten, UnderWay, Transient
<1> QED
  BY <1>1, <1>2, <1>3, <1>4, <1>5 DEF IInv, TypeOK, QuietInv, StopIsQuiet, FlagInv

\* A request is sent instead.
LEMMA SentKeeps ==
    ASSUME IInv, NEW outcomes, Sent(outcomes), method' = method, quiet' = quiet, ~quiet,
           \A o \in outcomes : /\ o.r \in Refreshers /\ o.tr \in Transactions
                               /\ Assumed => UnderWay(o.tr) /\ o.r.onIoError = 0
    PROVE  IInv'
<1>1. quiet' \in BOOLEAN /\ ~quiet'
  BY DEF IInv, TypeOK
<1>2. /\ r' \in Refreshers /\ tr' \in Transactions /\ known' = "waiting"
      /\ Assumed => UnderWay(tr)' /\ r'.onIoError = 0
  BY DEF Sent, UnderWay, Transient
<1> QED
  BY <1>1, <1>2 DEF IInv, TypeOK, QuietInv, StopIsQuiet, FlagInv, NeverForgotten

\* Every response. The transaction is under way, so the refresher is not quiet and the flag
\* on_io_error is not set.
LEMMA ReceiveResponseKeeps ==
    ASSUME IInv, NEW code \in Codes, ReceiveResponse(code)
    PROVE  IInv'
<1> DEFINE t == [tr EXCEPT !.st = IF code < 200 THEN "PROCEEDING" ELSE "COMPLETED"]
<1>1. r \in Refreshers /\ tr \in Transactions /\ code \in Nat
  BY RefresherAssumption DEF IInv, TypeOK
<1>2. t \in Transactions /\ (code < 200 => UnderWay(t))
  BY <1>1 DEF Transactions, UnderWay, Transient, ReceiveResponse
<1>3. method' = method /\ quiet' = quiet /\ ~quiet
  BY <1>1 DEF ReceiveResponse, IInv, StopIsQuiet, Transient
<1>4. Assumed => r.onIoError = 0
  BY <1>1 DEF ReceiveResponse, IInv, FlagInv, Refreshers
<1>5. process_response_event(t, code)
  BY DEF ReceiveResponse
<1> HIDE DEF t
<1>6. ASSUME NEW x \in Refreshers, Assumed => x.onIoError = 0, Sent(Resubmit(x, t))
      PROVE  IInv'
  <2>1. \A o \in Resubmit(x, t) : /\ o.r \in Refreshers /\ o.tr \in Transactions
                                  /\ Assumed => UnderWay(o.tr) /\ o.r.onIoError = 0
    BY <1>2, <1>6, ResubmitResult DEF Assumed
  <2> QED
    BY <1>3, <1>6, <2>1, SentKeeps
<1>7. ASSUME NEW x \in Refreshers, x.onIoError = r.onIoError, TryAgain(x, t, code),
             code >= 300
      PROVE  IInv'
  <2>1. PICK o \in belle_sip_refresher_refresh_internal(x, t, x.target, 1) :
          IF o.rc = 0 THEN Sent({o}) ELSE Told(o.r, o.tr, code)
    BY <1>7 DEF TryAgain
  <2>2. x.target \in Expires \cup {0, ReuseExpires}
    BY DEF Refreshers
  <2>3. /\ o.r \in Refreshers /\ o.tr \in Transactions /\ (o.rc = 0 => UnderWay(o.tr))
        /\ Assumed => o.r.onIoError = 0
    BY <1>2, <1>4, <1>7, <2>1, <2>2, InternalResult
  <2>4. CASE o.rc = 0
    BY <1>3, <2>1, <2>3, <2>4, SentKeeps
  <2>5. CASE o.rc # 0
    BY <1>1, <1>3, <1>7, <2>1, <2>3, <2>5, ToldKeeps
  <2> QED
    BY <2>4, <2>5
<1>8. ASSUME NEW x \in Refreshers, x.onIoError = r.onIoError, Told(x, t, code),
             code \notin 200..299
      PROVE  IInv'
  BY <1>1, <1>2, <1>3, <1>4, <1>8, ToldKeeps
<1>9. /\ RetryIfWanted(r) \in Refreshers
      /\ RetryIfWanted(r).onIoError = r.onIoError
  BY <1>1, TimerResult DEF RetryIfWanted, retry_later, schedule_timer_at
<1>10. CASE code \in 200..299
  <2> DEFINE c == [r EXCEPT !.authFailures = 0]
             x == set_expires_from_trans(c, t)
  <2>1. c \in Refreshers /\ c.onIoError = r.onIoError
    BY <1>1 DEF Refreshers
  <2> HIDE DEF c
  <2>2. x \in Refreshers /\ x.onIoError = r.onIoError
    BY <1>2, <2>1 DEF set_expires_from_trans, Refreshers, Transactions
  <2>3. Success(t, code)
    BY <1>5, <1>10 DEF process_response_event
  <2>4. \/ x.target <= 0 /\ Told(belle_sip_refresher_stop_internal(x), t, code)
        \/ x.state = "stopped" /\ Told(x, t, code)
        \/ Told(schedule_timer_at(x, "NORMAL_REFRESH"), t, code)
        \/ Sent(Resubmit(x, t))
    BY <2>3 DEF Success, c
  <2> HIDE DEF x
  <2>5. CASE Told(belle_sip_refresher_stop_internal(x), t, code)
    <3>1. /\ belle_sip_refresher_stop_internal(x) \in Refreshers
          /\ belle_sip_refresher_stop_internal(x).onIoError = r.onIoError
          /\ belle_sip_refresher_stop_internal(x).state = "stopped"
      BY <2>2, StopResult
    <3> QED
      BY <1>1, <1>2, <1>3, <1>4, <1>10, <2>5, <3>1, ToldKeeps
  <2>6. CASE x.state = "stopped" /\ Told(x, t, code)
    BY <1>1, <1>2, <1>3, <1>4, <1>10, <2>2, <2>6, ToldKeeps
  <2>7. CASE Told(schedule_timer_at(x, "NORMAL_REFRESH"), t, code)
    <3>1. /\ schedule_timer_at(x, "NORMAL_REFRESH") \in Refreshers
          /\ schedule_timer_at(x, "NORMAL_REFRESH").onIoError = r.onIoError
          /\ schedule_timer_at(x, "NORMAL_REFRESH").timer = "NORMAL_REFRESH"
      BY <2>2, TimerResult DEF schedule_timer_at
    <3> QED
      BY <1>1, <1>2, <1>3, <1>4, <1>10, <2>7, <3>1, ToldKeeps
  <2>8. CASE Sent(Resubmit(x, t))
    BY <1>4, <1>6, <2>2, <2>8
  <2> QED
    BY <2>4, <2>5, <2>6, <2>7, <2>8
<1>11. CASE code \in {301, 302}
  BY <1>1, <1>5, <1>7, <1>8, <1>11 DEF process_response_event, Redirected
<1>12. CASE code \in {401, 407}
  <2>1. Challenged(t, code)
    BY <1>5, <1>12 DEF process_response_event
  <2> DEFINE x == [RetryIfWanted(r) EXCEPT !.authFailures = 0]
             y == [r EXCEPT !.authFailures = @ + 1]
  <2>2. CASE r.authFailures + 1 > 1
    <3>1. x \in Refreshers /\ x.onIoError = r.onIoError
      BY <1>9 DEF Refreshers
    <3>2. Told(x, t, code)
      BY <2>1, <2>2 DEF Challenged
    <3>3. code \notin 200..299
      BY <1>12
    <3> HIDE DEF x
    <3> QED
      BY <1>8, <3>1, <3>2, <3>3
  <2>3. CASE ~(r.authFailures + 1 > 1)
    <3>1. y \in Refreshers /\ y.onIoError = r.onIoError
      BY <1>1, <2>3 DEF Refreshers
    <3>2. TryAgain(y, t, code)
      BY <2>1, <2>3 DEF Challenged
    <3>3. code >= 300
      BY <1>12
    <3> HIDE DEF y
    <3> QED
      BY <1>7, <3>1, <3>2, <3>3
  <2> QED
    BY <2>2, <2>3
<1>13. CASE code = 423
  <2>1. IntervalTooBrief(t, code)
    BY <1>5, <1>13 DEF process_response_event
  <2>2. CASE Told(r, t, code)
    BY <1>1, <1>8, <1>13, <2>2
  <2>3. ASSUME NEW minExpires \in Expires, Sent(Resubmit([r EXCEPT !.target = minExpires], t))
        PROVE  IInv'
    <3> DEFINE x == [r EXCEPT !.target = minExpires]
    <3>1. x \in Refreshers /\ x.onIoError = r.onIoError
      BY <1>1 DEF Refreshers
    <3>2. Sent(Resubmit(x, t))
      BY <2>3
    <3> HIDE DEF x
    <3> QED
      BY <1>4, <1>6, <3>1, <3>2
  <2> QED
    BY <2>1, <2>2, <2>3 DEF IntervalTooBrief
<1>14. CASE code \in {501, 505}
  BY <1>1, <1>5, <1>8, <1>14 DEF process_response_event
<1>15. CASE code \notin (200..299) \cup {301, 302, 401, 407, 423, 501, 505}
  BY <1>5, <1>8, <1>9, <1>15 DEF process_response_event
<1> QED
  BY <1>10, <1>11, <1>12, <1>13, <1>14, <1>15

\* The actions that only move the transaction or its channel: it stays under way or was over.
LEMMA TransactionMovesKeeps ==
    ASSUME IInv,
           \/ ChannelErrs \/ ChannelReady \/ RegisterTimesOut \/ nict_on_timer_K
    PROVE  IInv'
<1>1. tr \in Transactions /\ r' = r /\ known' = known /\ quiet' = quiet /\ method' = method
  BY DEF IInv, TypeOK, ChannelErrs, ChannelReady, RegisterTimesOut, nict_on_timer_K
<1>2. /\ tr' \in Transactions
      /\ UnderWay(tr) => UnderWay(tr)'
      /\ Transient(tr)' => Transient(tr)
      /\ tr.st = "TERMINATED" => tr'.st = "TERMINATED"
  BY <1>1 DEF Transactions, UnderWay, Transient,
              ChannelErrs, ChannelReady, RegisterTimesOut, nict_on_timer_K
<1> QED
  BY <1>1, <1>2 DEF IInv, TypeOK, QuietInv, StopIsQuiet, FlagInv, NeverForgotten

\* Manual mode is switched.
LEMMA ManualModeKeeps ==
    ASSUME IInv, belle_sip_refresher_enable_manual_mode
    PROVE  IInv'
<1>1. r \in Refreshers
  BY DEF IInv, TypeOK
<1>2. /\ r' \in Refreshers /\ r'.state = r.state /\ r'.timer = r.timer
      /\ r'.target = r.target /\ r'.onIoError = r.onIoError
  BY <1>1 DEF belle_sip_refresher_enable_manual_mode, Refreshers
<1>3. tr' = tr /\ known' = known /\ quiet' = quiet /\ method' = method
  BY DEF belle_sip_refresher_enable_manual_mode
<1> QED
  BY <1>2, <1>3
     DEF IInv, TypeOK, QuietInv, StopIsQuiet, FlagInv, NeverForgotten, UnderWay, Transient

\* A timeout, or an error, of a transaction sets at most the timer of a started refresher.
LEMMA TimeoutResult ==
    ASSUME NEW x \in Refreshers
    PROVE  LET y == process_timeout(x)
           IN  /\ y \in Refreshers /\ y.state = x.state /\ y.target = x.target
               /\ y.onIoError = x.onIoError
               /\ y.timer = x.timer \/ (x.state = "started" /\ y.timer = "RETRY")
BY TimerResult DEF process_timeout, retry_later, schedule_timer_at

\* Timer F of a PUBLISH or SUBSCRIBE.
LEMMA TransactionTimesOutKeeps ==
    ASSUME IInv, TransactionTimesOut
    PROVE  IInv'
<1>1. r \in Refreshers /\ tr \in Transactions /\ ~quiet
  BY DEF IInv, TypeOK, StopIsQuiet, TransactionTimesOut, Transient
<1>2. r' \in Refreshers
  BY <1>1, TimeoutResult DEF TransactionTimesOut
<1>3. tr' \in Transactions /\ tr'.st = "TERMINATED"
  BY <1>1 DEF TransactionTimesOut, Transactions
<1>4. known' = "bad" /\ quiet' = quiet /\ method' = method
  BY DEF TransactionTimesOut
<1> QED
  BY <1>1, <1>2, <1>3, <1>4
     DEF IInv, TypeOK, QuietInv, StopIsQuiet, FlagInv, NeverForgotten

\* The refresher's timer: either a request is sent, or the timer is set again, or the
\* application is told that it has to refresh.
LEMMA TimerKeeps ==
    ASSUME IInv, timer_cb
    PROVE  IInv'
<1>1. /\ r \in Refreshers /\ tr \in Transactions /\ ~quiet
      /\ quiet' = quiet /\ quiet \in BOOLEAN /\ method' = method /\ method \in Methods
  BY DEF IInv, TypeOK, StopIsQuiet, timer_cb
<1>2. CASE r.timer = "NORMAL_REFRESH" /\ r.manual = 1
  <2>1. r' = [r EXCEPT !.timer = "none"] /\ tr' = tr /\ known' = "bad"
    BY <1>2 DEF timer_cb
  <2>2. r' \in Refreshers /\ r'.onIoError = r.onIoError
    BY <1>1, <2>1, TimerResult
  <2> QED
    BY <1>1, <2>1, <2>2 DEF IInv, TypeOK, QuietInv, StopIsQuiet, FlagInv, NeverForgotten
<1>3. CASE ~(r.timer = "NORMAL_REFRESH" /\ r.manual = 1)
  <2>1. PICK o \in belle_sip_refresher_refresh(r, tr, r.target) :
          /\ r' = IF o.rc = 0 THEN o.r ELSE retry_later(o.r)
          /\ tr' = o.tr /\ known' = "waiting"
    BY <1>3 DEF timer_cb
  <2>2. r.target \in Expires \cup {0, ReuseExpires}
    BY <1>1 DEF Refreshers
  <2>3. /\ o.r \in Refreshers /\ o.tr \in Transactions /\ (o.rc = 0 => UnderWay(o.tr))
        /\ o.r.onIoError = 0 \/ (o.r.onIoError = r.onIoError /\ o.tr = tr)
    BY <1>1, <2>1, <2>2, RefreshResult
  <2>4. /\ retry_later(o.r) \in Refreshers /\ retry_later(o.r).timer = "RETRY"
        /\ retry_later(o.r).onIoError = o.r.onIoError
    BY <2>3, TimerResult DEF retry_later, schedule_timer_at
  <2>5. /\ r' \in Refreshers /\ r'.onIoError = o.r.onIoError
        /\ UnderWay(tr)' \/ r'.timer = "RETRY"
    BY <2>1, <2>3, <2>4 DEF UnderWay, Transient
  <2> QED
    BY <1>1, <2>1, <2>3, <2>5 DEF IInv, TypeOK, QuietInv, StopIsQuiet, FlagInv, NeverForgotten
<1> QED
  BY <1>2, <1>3

\* An error the provider reports is ignored, or concerns a started refresher whose
\* transaction is over: the timer is set, unless the listener sends a request.
LEMMA ProviderIoErrorResult ==
    ASSUME NEW x \in Refreshers, NEW t \in Transactions, known \in {"waiting", "good", "bad"},
           NEW o \in ProviderIoError(x, t)
    PROVE  /\ o.r \in Refreshers /\ o.tr \in Transactions /\ o.known \in {"waiting", "good", "bad"}
           /\ \/ o.r = x /\ o.tr = t /\ o.known = known
              \/ /\ x.state = "started" /\ t.st = "TERMINATED"
                 /\ Assumed => o.tr = t /\ o.r.timer = "RETRY"
<1> DEFINE y == retry_later(x)
<1>1. y \in Refreshers /\ y.timer = "RETRY"
  BY TimerResult DEF retry_later, schedule_timer_at
<1>2. x.target \in Expires \cup {0, ReuseExpires}
  BY DEF Refreshers
<1>3. CASE x.onIoError = 1 \/ x.state # "started" \/ t.st # "TERMINATED"
             \/ t.chan \notin {"failing", "dead"}
  BY <1>3 DEF ProviderIoError
<1>4. CASE ~(x.onIoError = 1 \/ x.state # "started" \/ t.st # "TERMINATED"
               \/ t.chan \notin {"failing", "dead"})
  <2> DEFINE sent == belle_sip_refresher_refresh(y, t, x.target)
  <2>1. \/ o = [r |-> [y EXCEPT !.onIoError = 1], tr |-> t, known |-> "bad"]
        \/ /\ ListenerRefreshes
           /\ \E p \in sent : o = [r |-> [p.r EXCEPT !.onIoError = 1], tr |-> p.tr,
                                   known |-> IF p.rc = 0 THEN "waiting" ELSE "bad"]
    BY <1>4 DEF ProviderIoError
  <2>2. \A p \in sent : p.r \in Refreshers /\ p.tr \in Transactions
    BY <1>1, <1>2, RefreshResult
  <2> HIDE DEF y, sent
  <2>3. CASE o = [r |-> [y EXCEPT !.onIoError = 1], tr |-> t, known |-> "bad"]
    BY <1>1, <1>4, <2>3 DEF Refreshers
  <2>4. ASSUME ListenerRefreshes, NEW p \in sent,
               o = [r |-> [p.r EXCEPT !.onIoError = 1], tr |-> p.tr,
                    known |-> IF p.rc = 0 THEN "waiting" ELSE "bad"]
        PROVE  /\ o.r \in Refreshers /\ o.tr \in Transactions
               /\ o.known \in {"waiting", "good", "bad"} /\ ~Assumed
    BY <2>2, <2>4 DEF Refreshers, Assumed
  <2> QED
    BY <1>4, <2>1, <2>3, <2>4
<1> QED
  BY <1>3, <1>4

\* Some other channel fails.
LEMMA OtherChannelFailsKeeps ==
    ASSUME IInv, OtherChannelFails
    PROVE  IInv'
<1>1. PICK o \in ProviderIoError(r, tr) : r' = o.r /\ tr' = o.tr /\ known' = o.known
  BY DEF OtherChannelFails
<1>2. /\ r \in Refreshers /\ tr \in Transactions /\ known \in {"waiting", "good", "bad"}
      /\ quiet' = quiet /\ method' = method
  BY DEF IInv, TypeOK, OtherChannelFails
<1>3. /\ r' \in Refreshers /\ tr' \in Transactions /\ known' \in {"waiting", "good", "bad"}
      /\ \/ r' = r /\ tr' = tr /\ known' = known
         \/ /\ r.state = "started" /\ tr.st = "TERMINATED"
            /\ Assumed => tr' = tr /\ r'.timer = "RETRY"
  BY <1>1, <1>2, ProviderIoErrorResult
<1> QED
  BY <1>2, <1>3
     DEF IInv, TypeOK, QuietInv, StopIsQuiet, FlagInv, NeverForgotten, UnderWay, Transient

\* What the end of its channel does to the transaction and the refresher.
LEMMA TransactionNoticeResult ==
    ASSUME NEW x \in Refreshers, NEW t \in Transactions, NEW k \in {"waiting", "good", "bad"},
           known \in {"waiting", "good", "bad"}, TransactionNotice(x, t, k)
    PROVE  /\ r' \in Refreshers /\ tr' \in Transactions /\ known' \in {"waiting", "good", "bad"}
           /\ tr'.st = "TERMINATED" /\ r'.state = x.state /\ r'.target = x.target
           /\ r'.timer = x.timer \/ (x.state = "started" /\ r'.timer = "RETRY")
           /\ Transient(t) /\ x.onIoError = 0 /\ x.state = "started" /\ x.target > 0
                => r'.timer = "RETRY"
           /\ ~Transient(t) => known' \in {k, "bad"}
<1> DEFINE e == IF Transient(t) THEN TransactionIoError(x, t) ELSE [r |-> x, known |-> k]
<1>1. /\ retry_later(x) \in Refreshers /\ retry_later(x).timer = "RETRY"
      /\ retry_later(x).state = x.state /\ retry_later(x).target = x.target
  BY TimerResult DEF retry_later, schedule_timer_at
<1>2. /\ e.r \in Refreshers /\ e.known \in {"waiting", "good", "bad"}
      /\ e.r.state = x.state /\ e.r.target = x.target
      /\ e.r.timer = x.timer \/ (x.state = "started" /\ e.r.timer = "RETRY")
      /\ Transient(t) /\ x.onIoError = 0 /\ x.state = "started" /\ x.target > 0
           => e.r.timer = "RETRY"
      /\ ~Transient(t) => e.known = k
  BY <1>1 DEF TransactionIoError
<1>3. /\ r' = IF t.timedOut = 1 THEN process_timeout(e.r) ELSE e.r
      /\ known' = IF t.timedOut = 1 THEN "bad" ELSE e.known
  BY DEF TransactionNotice
<1> HIDE DEF e
<1>4. /\ r' \in Refreshers /\ r'.state = x.state /\ r'.target = x.target
      /\ r'.timer = e.r.timer \/ (x.state = "started" /\ r'.timer = "RETRY")
  BY <1>2, <1>3, TimeoutResult
<1>5. tr' \in Transactions /\ tr'.st = "TERMINATED"
  BY DEF TransactionNotice, Transactions
<1> QED
  BY <1>2, <1>3, <1>4, <1>5

\* The transaction's own channel fails. If the transaction is under way the flag on_io_error
\* is not set, so the timer is; if it is over, what was known of its outcome stays known.
LEMMA ChannelNoticeKeeps ==
    ASSUME IInv, ChannelNotice
    PROVE  IInv'
<1> DEFINE t == [tr EXCEPT !.chan = "failing"]
           U(o) == IF o.tr.chan = "none" THEN o.tr ELSE [o.tr EXCEPT !.chan = "dead"]
<1>1. /\ r \in Refreshers /\ tr \in Transactions /\ known \in {"waiting", "good", "bad"}
      /\ quiet' = quiet /\ method' = method
  BY DEF IInv, TypeOK, ChannelNotice
<1>2. t \in Transactions /\ t.st = tr.st /\ t.chan = "failing"
  BY <1>1 DEF Transactions
<1>3. PICK o \in ProviderIoError(r, t) :
         IF o.tr = t THEN TransactionNotice(o.r, U(o), o.known)
                     ELSE r' = o.r /\ tr' = U(o) /\ known' = o.known
  BY DEF ChannelNotice
<1> HIDE DEF t
<1>4. /\ o.r \in Refreshers /\ o.tr \in Transactions /\ o.known \in {"waiting", "good", "bad"}
      /\ \/ o.r = r /\ o.tr = t /\ o.known = known
         \/ /\ r.state = "started" /\ tr.st = "TERMINATED"
            /\ Assumed => o.tr = t /\ o.r.timer = "RETRY"
  BY <1>1, <1>2, ProviderIoErrorResult
<1>5. U(o) \in Transactions /\ U(o).st = o.tr.st
  BY <1>4 DEF Transactions
<1> DEFINE u == U(o)
<1>6. u \in Transactions /\ u.st = o.tr.st
  BY <1>5
<1>7. \/ o.tr = t /\ TransactionNotice(o.r, u, o.known)
      \/ o.tr # t /\ r' = o.r /\ tr' = u /\ known' = o.known
  BY <1>3
<1> HIDE DEF u
<1>8. CASE o.tr = t /\ TransactionNotice(o.r, u, o.known)
  <2>1. /\ r' \in Refreshers /\ tr' \in Transactions /\ known' \in {"waiting", "good", "bad"}
        /\ tr'.st = "TERMINATED" /\ r'.state = o.r.state /\ r'.target = o.r.target
        /\ r'.timer = o.r.timer \/ (o.r.state = "started" /\ r'.timer = "RETRY")
        /\ Transient(u) /\ o.r.onIoError = 0 /\ o.r.state = "started" /\ o.r.target > 0
             => r'.timer = "RETRY"
        /\ ~Transient(u) => known' \in {o.known, "bad"}
    BY <1>1, <1>4, <1>6, <1>8, TransactionNoticeResult
  <2>2. Transient(u) <=> Transient(tr)
    BY <1>2, <1>6, <1>8 DEF Transient
  <2>3. CASE o.r = r /\ o.known = known
    <3>1. Assumed /\ Transient(tr) => r.onIoError = 0
      BY <1>1 DEF IInv, FlagInv, Transient, Refreshers
    <3>2. Assumed => NeverForgotten'
      BY <2>1, <2>2, <2>3, <3>1 DEF IInv, NeverForgotten, UnderWay
    <3> QED
      BY <1>1, <2>1, <2>3, <3>2
         DEF IInv, TypeOK, QuietInv, StopIsQuiet, FlagInv, Transient
  <2>4. CASE r.state = "started" /\ (Assumed => o.r.timer = "RETRY")
    BY <1>1, <2>1, <2>4
       DEF IInv, TypeOK, QuietInv, StopIsQuiet, FlagInv, NeverForgotten, Transient
  <2> QED
    BY <1>4, <2>3, <2>4
<1>9. CASE o.tr # t /\ r' = o.r /\ tr' = u /\ known' = o.known
  BY <1>1, <1>4, <1>6, <1>9 DEF IInv, TypeOK, QuietInv, StopIsQuiet
<1> QED
  BY <1>7, <1>8, <1>9

\* Every step keeps the invariant.
LEMMA NextKeeps ==
    ASSUME IInv, [Next]_vars
    PROVE  IInv'
<1>1. CASE vars' = vars
  BY <1>1 DEF vars, IInv, TypeOK, QuietInv, StopIsQuiet, FlagInv, NeverForgotten,
              UnderWay, Transient
<1>2. CASE Next
  BY <1>2, ApplicationRefreshesKeeps, StartKeeps, StopKeeps, ManualModeKeeps,
     ReceiveResponseKeeps, OtherChannelFailsKeeps, ChannelNoticeKeeps, TransactionMovesKeeps,
     TransactionTimesOutKeeps, TimerKeeps
     DEF Next
<1> QED
  BY <1>1, <1>2

\* The inductive invariant holds in every behaviour.
LEMMA AlwaysIInv == Spec => []IInv
<1>1. Init => IInv
  BY InitHolds
<1>2. IInv /\ [Next]_vars => IInv'
  BY NextKeeps
<1> QED
  BY <1>1, <1>2, PTL DEF Spec

(***************************************************************************)
(* The theorems.                                                           *)
(***************************************************************************)
\* Type correctness: in particular auth_failures never exceeds one, however often the server
\* challenges the refresher.
THEOREM TypeCorrect == Spec => []TypeOK
<1>1. IInv => TypeOK
  BY DEF IInv
<1> QED
  BY <1>1, AlwaysIInv, PTL

\* belle_sip_refresher_stop() is final: after it neither a late timeout, nor a failing
\* channel, nor a response starts a timer or a request, whatever the listener does and
\* whether or not requests can be sent.
THEOREM StopIsQuietHolds == Spec => []StopIsQuiet
<1>1. IInv => StopIsQuiet
  BY DEF IInv
<1> QED
  BY <1>1, AlwaysIInv, PTL

\* A refresher that is started never forgets to refresh without telling the application, if
\* the application does not refresh from the callback of an I/O error and the requests sent
\* from handlers do not fail at once.
THEOREM NeverForgottenHolds ==
    ASSUME ~ListenerRefreshes, ~ResubmitFails
    PROVE  Spec => []NeverForgotten
<1>1. IInv => NeverForgotten
  BY DEF IInv, Assumed
<1> QED
  BY <1>1, AlwaysIInv, PTL

=============================================================================
