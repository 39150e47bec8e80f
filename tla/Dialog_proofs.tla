---------------------------- MODULE Dialog_proofs ----------------------------
(***************************************************************************)
(* Theorems about Dialog, for any methods, sequence numbers and number of  *)
(* transactions: the queue of requests is served in order and its wake-up  *)
(* is never lost, and the dialog is deleted once.                          *)
(*                                                                         *)
(* The operators of Dialog take a dialog d and its transactions ts in the  *)
(* middle of a handler, and so does the invariant.                         *)
(***************************************************************************)
EXTENDS Dialog, TLAPS

\* The fields have their types, and a dialog is deleted once, with its timers stopped. A transaction
\* that goes on has no 2xx, and nothing that was ACKed.
FieldsOK(d, ts) ==
    /\ d \in Dialogs /\ ts \in Seq(Transactions)
    /\ d.last \in 0..Len(ts)
    /\ d.ended = IF d.state = "TERMINATED" THEN 1 ELSE 0
    /\ d.okTimers => d.state = "CONFIRMED"
    /\ \A i \in 1..Len(ts) :
         ts[i].st \in {"INIT", "BUSY"} => ts[i].acks = 0 /\ ts[i].code # 200

\* The queue has the transactions that were not sent, in the order of their creation. None of
\* them is the last transaction, so that one that is waited for is under way.
QueueOK(d, ts) ==
    /\ \A k \in 1..Len(d.queue) : d.queue[k] \in 1..Len(ts) /\ ts[d.queue[k]].st = "INIT"
    /\ \A k, l \in 1..Len(d.queue) : k < l => d.queue[k] < d.queue[l]
    /\ \A i \in 1..Len(ts) : ts[i].st = "INIT" => \E k \in 1..Len(d.queue) : d.queue[k] = i
    /\ d.last # 0 => ts[d.last].st # "INIT"
    /\ d.queue # <<>> => d.state \in {"EARLY", "CONFIRMED"}

\* A request that waits has no response. A queued request has a sequence number, one that was
\* given out, from the time it is sent. Those made after one that waits are waiting too.
NumbersOK(d, ts) ==
    /\ d.state = "NULL" => \A i \in 1..Len(ts) : ~ts[i].queued
    /\ \A i \in 1..Len(ts) :
         ts[i].st = "INIT" => ts[i].queued /\ ts[i].cseq = 0 /\ ts[i].code = 0
    /\ \A i \in 1..Len(ts) :
         ts[i].queued => /\ ts[i].cseq <= d.localCseq
                         /\ ts[i].cseq = 0 => ts[i].st \in {"INIT", "TERMINATED"}
    /\ \A i, j \in 1..Len(ts) :
         i < j /\ ts[i].queued /\ ts[j].queued
         => /\ ts[i].st = "INIT" => ts[j].st = "INIT"
            /\ ts[j].cseq > 0 => ts[i].cseq \in 1..(ts[j].cseq - 1) \/ ts[i].st = "TERMINATED"

Sound(d, ts) == FieldsOK(d, ts) /\ QueueOK(d, ts) /\ NumbersOK(d, ts)

\* A call that serves the queue is on its way, or there is nothing to serve.
Served(d) == d.deferred \/ d.queue = <<>>

IInv == isServer \in BOOLEAN /\ Sound(dialog, trans) /\ NoLostWakeup

-----------------------------------------------------------------------------
(***************************************************************************)
(* What keeps the invariant.                                               *)
(***************************************************************************)
\* Fields that say nothing of the queue may change, the sequence number may rise and the dialog
\* be established.
LEMMA FieldsKeep ==
    ASSUME NEW d, NEW ts, Sound(d, ts), NEW e \in Dialogs,
           e.queue = d.queue, e.ended = d.ended,
           e.last \in 0..Len(ts), e.last # 0 => ts[e.last].st # "INIT",
           \/ e.state = d.state
           \/ d.state \in {"NULL", "EARLY"} /\ e.state \in {"EARLY", "CONFIRMED"},
           e.localCseq >= d.localCseq \/ d.state = "NULL",
           e.okTimers => d.okTimers \/ e.state = "CONFIRMED"
    PROVE  Sound(e, ts)
<1>1. FieldsOK(e, ts)
  BY DEF Sound, FieldsOK
<1>2. QueueOK(e, ts)
  BY DEF Sound, QueueOK
<1>3. NumbersOK(e, ts)
  <2>1. \A i \in 1..Len(ts) : ts[i].cseq \in Nat
    <3>1. \A i \in 1..Len(ts) : ts[i] \in Transactions
      BY DEF Sound, FieldsOK
    <3> QED
      BY <3>1 DEF Transactions
  <2>2. d.localCseq \in Nat /\ e.localCseq \in Nat
    BY DEF Sound, FieldsOK, Dialogs
  <2>3. \A i \in 1..Len(ts) : ts[i].queued => ts[i].cseq <= e.localCseq
    BY <2>1, <2>2 DEF Sound, NumbersOK
  <2>4. e.state = "NULL" => d.state = "NULL"
    OBVIOUS
  <2> QED
    BY <2>3, <2>4 DEF Sound, NumbersOK
<1> QED
  BY <1>1, <1>2, <1>3 DEF Sound

\* A transaction that does not come from the queue is new.
LEMMA AppendKeeps ==
    ASSUME NEW d, NEW ts, Sound(d, ts), NEW t \in Transactions, t.st # "INIT", ~t.queued,
           t.acks = 0, t.code # 200
    PROVE  Sound(d, Append(ts, t))
<1> DEFINE us == Append(ts, t)
<1>1. ts \in Seq(Transactions) /\ Len(ts) \in Nat
  BY DEF Sound, FieldsOK
<1>2. /\ us \in Seq(Transactions) /\ Len(us) = Len(ts) + 1
      /\ \A i \in 1..Len(us) : us[i] = IF i \in 1..Len(ts) THEN ts[i] ELSE t
  BY <1>1
<1> HIDE DEF us
<1>3. FieldsOK(d, us)
  BY <1>1, <1>2 DEF Sound, FieldsOK
<1>4. QueueOK(d, us)
  <2>1. /\ \A i \in 1..Len(ts) : i \in 1..Len(us) /\ us[i] = ts[i]
        /\ \A i \in 1..Len(us) : us[i].st = "INIT" => i \in 1..Len(ts) /\ ts[i].st = "INIT"
        /\ d.last \in 0..Len(ts)
    BY <1>1, <1>2 DEF Sound, FieldsOK
  <2>2. d.last # 0 => us[d.last].st # "INIT"
    BY <1>1, <2>1 DEF Sound, QueueOK
  <2> QED
    BY <2>1, <2>2 DEF Sound, QueueOK
<1>5. NumbersOK(d, us)
  BY <1>1, <1>2 DEF Sound, NumbersOK
<1> QED
  BY <1>3, <1>4, <1>5 DEF Sound, us

\* A transaction that was sent goes on.
LEMMA ChangeKeeps ==
    ASSUME NEW d, NEW ts, Sound(d, ts), NEW n \in 1..Len(ts),
           NEW t \in Transactions, t.st # "INIT", t.cseq = ts[n].cseq, t.queued = ts[n].queued,
           ts[n].st \in {"BUSY", "FINAL"} \/ t.st = ts[n].st,
           t.st = "BUSY" => t.acks = 0 /\ t.code # 200
    PROVE  Sound(d, [ts EXCEPT ![n] = t])
<1> DEFINE us == [ts EXCEPT ![n] = t]
<1>1. ts \in Seq(Transactions)
  BY DEF Sound, FieldsOK
<1>2. /\ us \in Seq(Transactions) /\ Len(us) = Len(ts)
      /\ \A i \in 1..Len(us) : us[i] = IF i = n THEN t ELSE ts[i]
  BY <1>1
<1> HIDE DEF us
<1>3. FieldsOK(d, us)
  BY <1>2 DEF Sound, FieldsOK
<1>4. QueueOK(d, us)
  <2>1. d.last \in 0..Len(ts)
    BY DEF Sound, FieldsOK
  <2>2. n \in 1..Len(ts) /\ ts[n].st # "INIT"
    OBVIOUS
  <2>3. \A i \in 1..Len(ts) : us[i].st = "INIT" <=> ts[i].st = "INIT"
    BY <1>2, <2>2
  <2> QED
    BY <1>2, <2>1, <2>3 DEF Sound, QueueOK
<1>5. NumbersOK(d, us)
  BY <1>2 DEF Sound, NumbersOK
<1> QED
  BY <1>3, <1>4, <1>5 DEF Sound, us

\* Deletion terminates what is queued: then nothing waits, whatever the numbers are.
LEMMA DeletedKeeps ==
    ASSUME NEW d, NEW ts, Sound(d, ts), d.state # "TERMINATED"
    PROVE  LET r == Deleted(d, ts) IN
           /\ Sound(r.d, r.ts) /\ r.d.queue = <<>> /\ Len(r.ts) = Len(ts)
           /\ \A i \in 1..Len(ts) : ts[i].st # "INIT" => r.ts[i] = ts[i]
<1> DEFINE e == belle_sip_dialog_delete(d)
           us == AbortQueued(d, ts)
           q == d.queue
<1>1. /\ d \in Dialogs /\ ts \in Seq(Transactions) /\ d.last \in 0..Len(ts)
      /\ \A i \in 1..Len(ts) : ts[i] \in Transactions
      /\ d.ended = 0 /\ q \in Seq(Nat) /\ Len(q) \in Nat /\ (q # <<>> => Len(q) \in 1..Len(q))
  BY DEF Sound, FieldsOK, Dialogs
<1>2. \A i \in 1..Len(ts) : (\E k \in DOMAIN q : q[k] = i) <=> ts[i].st = "INIT"
  <2>1. DOMAIN q = 1..Len(q)
    BY <1>1
  <2>2. /\ \A k \in 1..Len(q) : ts[q[k]].st = "INIT"
        /\ \A i \in 1..Len(ts) : ts[i].st = "INIT" => \E k \in 1..Len(q) : q[k] = i
    BY DEF Sound, QueueOK
  <2> QED
    BY <2>1, <2>2, Zenon
<1>3. us = [i \in 1..Len(ts) |-> IF ts[i].st = "INIT" THEN [ts[i] EXCEPT !.st = "TERMINATED"]
                                                      ELSE ts[i]]
  BY <1>1, <1>2 DEF AbortQueued
<1>4. \A i \in 1..Len(ts) : [ts[i] EXCEPT !.st = "TERMINATED"] \in Transactions
  <2>1. \A t \in Transactions : [t EXCEPT !.st = "TERMINATED"] \in Transactions
    BY DEF Transactions
  <2> QED
    BY <1>1, <2>1, Zenon
<1>5. us \in Seq(Transactions) /\ Len(us) = Len(ts)
  <2>1. us \in [1..Len(ts) -> Transactions]
    BY <1>1, <1>3, <1>4
  <2> QED
    BY <1>1, <2>1
<1>6. \A i \in 1..Len(ts) :
         /\ us[i].st = IF ts[i].st = "INIT" THEN "TERMINATED" ELSE ts[i].st
         /\ us[i].cseq = ts[i].cseq /\ us[i].queued = ts[i].queued /\ us[i].acks = ts[i].acks
         /\ us[i].code = ts[i].code
         /\ ts[i].st # "INIT" => us[i] = ts[i]
  BY <1>1, <1>3 DEF Transactions
<1> DEFINE l == IF q = <<>> THEN d.last ELSE q[Len(q)]
<1>7. l \in 0..Len(ts) /\ (l # 0 => us[l].st # "INIT")
  BY <1>1, <1>6, SMTT(30) DEF Sound, QueueOK
<1>8. PICK f \in BOOLEAN : f = (d.deferred \/ q # <<>>)
  OBVIOUS
<1>9. e = [d EXCEPT !.okTimers = FALSE, !.state = "TERMINATED", !.queue = <<>>, !.ended = 1,
                    !.last = l, !.deferred = f]
  BY <1>1, <1>8 DEF belle_sip_dialog_delete, Dialogs
<1>10. l \in Nat /\ <<>> \in Seq(Nat)
  <2>1. <<>> \in Seq(Nat)
    OBVIOUS
  <2>2. l \in Nat
    BY <1>1, <1>7
  <2> QED
    BY <2>1, <2>2
<1> HIDE DEF l
<1>11. /\ e \in Dialogs /\ e.okTimers = FALSE /\ e.state = "TERMINATED" /\ e.queue = <<>>
       /\ e.ended = 1 /\ e.last = l /\ e.localCseq = d.localCseq
  <2> HIDE DEF e
  <2>1. e.okTimers = FALSE /\ e.state = "TERMINATED" /\ e.queue = <<>>
    BY <1>1, <1>9 DEF Dialogs
  <2>2. e.ended = 1 /\ e.last = l /\ e.localCseq = d.localCseq
    BY <1>1, <1>9 DEF Dialogs
  <2>3. e \in Dialogs
    BY <1>1, <1>8, <1>9, <1>10 DEF Dialogs
  <2> QED
    BY <2>1, <2>2, <2>3
<1> HIDE DEF e, us
<1>12. FieldsOK(e, us)
  <2>1. \A i \in 1..Len(us) :
          us[i].st \in {"INIT", "BUSY"} => us[i].acks = 0 /\ us[i].code # 200
    BY <1>5, <1>6 DEF Sound, FieldsOK
  <2> QED
    BY <1>1, <1>5, <1>7, <1>11, <2>1 DEF FieldsOK
<1>13. QueueOK(e, us)
  BY <1>5, <1>6, <1>7, <1>11 DEF QueueOK
<1>14. NumbersOK(e, us)
  <2>1. \A i \in 1..Len(ts) :
          ts[i].queued => ts[i].cseq <= d.localCseq
                          /\ (ts[i].cseq = 0 => ts[i].st \in {"INIT", "TERMINATED"})
    BY DEF Sound, NumbersOK
  <2>2. \A i, j \in 1..Len(ts) :
          i < j /\ ts[i].queued /\ ts[j].queued /\ ts[j].cseq > 0
          => ts[i].cseq \in 1..(ts[j].cseq - 1) \/ ts[i].st = "TERMINATED"
    BY DEF Sound, NumbersOK
  <2>3. \A i \in 1..Len(us) : us[i].st # "INIT"
    BY <1>5, <1>6
  <2> QED
    BY <1>5, <1>6, <1>11, <2>1, <2>2, <2>3 DEF NumbersOK
<1>15. Deleted(d, ts) = [d |-> e, ts |-> us, again |-> FALSE]
  BY DEF Deleted, e, us
<1> QED
  BY <1>5, <1>6, <1>11, <1>12, <1>13, <1>14, <1>15 DEF Sound

\* A call that serves the queue is put off.
LEMMA KeptKeeps ==
    ASSUME NEW d, NEW ts, Sound(d, ts)
    PROVE  LET r == Kept(d, ts) IN
           /\ Sound(r.d, r.ts) /\ r.ts = ts /\ r.again = FALSE
           /\ r.d.deferred = TRUE /\ r.d.queue = d.queue /\ r.d.localCseq = d.localCseq
<1>1. d \in Dialogs /\ d.last \in 0..Len(ts) /\ (d.last # 0 => ts[d.last].st # "INIT")
  BY DEF Sound, FieldsOK, QueueOK
<1>2. PICK e \in Dialogs : e = [d EXCEPT !.deferred = TRUE]
  BY <1>1 DEF Dialogs
<1>3. /\ e.deferred = TRUE /\ e.queue = d.queue /\ e.localCseq = d.localCseq
      /\ e.ended = d.ended /\ e.last = d.last /\ e.state = d.state /\ e.okTimers = d.okTimers
      /\ d.localCseq \in Nat
  BY <1>1, <1>2 DEF Dialogs
<1>4. Sound(e, ts)
  BY <1>1, <1>3, FieldsKeep
<1>5. Kept(d, ts) = [d |-> e, ts |-> ts, again |-> FALSE]
  BY <1>2 DEF Kept, belle_sip_dialog_process_queue
<1> QED
  BY <1>3, <1>4, <1>5

\* What belle_sip_dialog_update() gives: the queue is served or empty, unless the 2xx of an INVITE
\* has the sequence number of the last ACK.
Updated(d, ts, n, asUas, r) ==
    /\ Sound(r.d, r.ts) /\ Len(r.ts) = Len(ts) /\ r.ts[n] = ts[n]
    /\ \/ ~r.again /\ Served(r.d)
       \/ /\ r.again /\ r.ts = ts
          /\ ~asUas /\ ts[n].method = "INVITE" /\ ts[n].code = 200 /\ d.lastOutAck = ts[n].cseq
          /\ r.d.queue = d.queue /\ r.d.deferred = d.deferred /\ r.d.needsAck = d.needsAck
          /\ r.d.lastOutAck = d.lastOutAck

LEMMA KeptUpdates ==
    ASSUME NEW c, NEW d, NEW ts, NEW n, NEW asUas, Sound(d, ts)
    PROVE  Updated(c, ts, n, asUas, Kept(d, ts))
BY KeptKeeps DEF Updated, Served

LEMMA DeletedUpdates ==
    ASSUME NEW c, NEW d, NEW ts, Sound(d, ts), NEW n \in 1..Len(ts), ts[n].st # "INIT",
           NEW asUas, d.state # "TERMINATED"
    PROVE  Updated(c, ts, n, asUas, Deleted(d, ts))
BY DeletedKeeps DEF Updated, Served, Deleted

\* An INVITE that is answered establishes the dialog.
LEMMA EstablishKeeps ==
    ASSUME isServer \in BOOLEAN, NEW d, NEW ts, Sound(d, ts), d.state = "NULL",
           NEW t \in Transactions
    PROVE  LET e == belle_sip_dialog_establish(d, t) IN
           Sound(e, ts) /\ Sound([e EXCEPT !.state = "EARLY"], ts)
<1> DEFINE e == belle_sip_dialog_establish(d, t)
           f == [e EXCEPT !.state = "EARLY"]
<1>1. d \in Dialogs /\ d.last \in 0..Len(ts) /\ (d.last # 0 => ts[d.last].st # "INIT")
  BY DEF Sound, FieldsOK, QueueOK
<1>2. t.cseq \in Nat
  BY DEF Transactions
<1>3. /\ e \in Dialogs
      /\ e.queue = d.queue /\ e.ended = d.ended /\ e.last = d.last /\ e.state = d.state
      /\ e.okTimers = d.okTimers
  BY <1>1, <1>2 DEF belle_sip_dialog_establish, Dialogs
<1>4. /\ f \in Dialogs
      /\ f.queue = d.queue /\ f.ended = d.ended /\ f.last = d.last /\ f.state = "EARLY"
      /\ f.okTimers = d.okTimers
  <2> HIDE DEF e
  <2> QED
    BY <1>3 DEF Dialogs
<1> HIDE DEF e, f
<1>5. Sound(e, ts)
  BY <1>1, <1>3, FieldsKeep
<1>6. Sound(f, ts)
  BY <1>1, <1>4, FieldsKeep
<1> QED
  BY <1>5, <1>6 DEF e, f

LEMMA EstablishFullKeeps ==
    ASSUME isServer \in BOOLEAN, NEW d, NEW ts, Sound(d, ts), d.state \in {"NULL", "EARLY"}
    PROVE  Sound(belle_sip_dialog_establish_full(d), ts)
<1> DEFINE e == belle_sip_dialog_establish_full(d)
<1>1. d \in Dialogs /\ d.last \in 0..Len(ts) /\ (d.last # 0 => ts[d.last].st # "INIT")
      /\ d.localCseq \in Nat
  BY DEF Sound, FieldsOK, QueueOK, Dialogs
<1>2. PICK b \in BOOLEAN : b = isServer
  OBVIOUS
<1>3. e = [d EXCEPT !.needsAck = TRUE, !.state = "CONFIRMED", !.okTimers = b]
  BY <1>2 DEF belle_sip_dialog_establish_full
<1> HIDE DEF e
<1>4. e \in Dialogs
  BY <1>1, <1>2, <1>3 DEF Dialogs
<1>5. /\ e.queue = d.queue /\ e.ended = d.ended /\ e.last = d.last /\ e.state = "CONFIRMED"
      /\ e.localCseq = d.localCseq
  BY <1>1, <1>3 DEF Dialogs
<1>6. Sound(e, ts)
  BY <1>1, <1>4, <1>5, FieldsKeep
<1> QED
  BY <1>6 DEF e

\* needs_ack and the last INVITE sent are not in the invariant.
LEMMA AckFieldsKeep ==
    ASSUME NEW d, NEW ts, Sound(d, ts), NEW b \in BOOLEAN, NEW c \in Nat
    PROVE  /\ Sound([d EXCEPT !.needsAck = b], ts)
           /\ Sound([d EXCEPT !.lastOutInvite = c], ts)
           /\ Sound([d EXCEPT !.needsAck = b, !.lastOutInvite = c], ts)
<1>1. d \in Dialogs /\ d.last \in 0..Len(ts) /\ (d.last # 0 => ts[d.last].st # "INIT")
      /\ d.localCseq \in Nat
  BY DEF Sound, FieldsOK, QueueOK, Dialogs
<1>2. ASSUME NEW e \in Dialogs,
             e.queue = d.queue /\ e.ended = d.ended /\ e.last = d.last /\ e.state = d.state,
             e.localCseq = d.localCseq /\ e.okTimers = d.okTimers
      PROVE  Sound(e, ts)
  BY <1>1, <1>2, FieldsKeep
<1> DEFINE x == [d EXCEPT !.needsAck = b]
           y == [d EXCEPT !.lastOutInvite = c]
           z == [d EXCEPT !.needsAck = b, !.lastOutInvite = c]
<1>3. /\ x \in Dialogs /\ x.queue = d.queue /\ x.ended = d.ended /\ x.last = d.last
      /\ x.state = d.state /\ x.localCseq = d.localCseq /\ x.okTimers = d.okTimers
  BY <1>1 DEF Dialogs
<1>4. /\ y \in Dialogs /\ y.queue = d.queue /\ y.ended = d.ended /\ y.last = d.last
      /\ y.state = d.state /\ y.localCseq = d.localCseq /\ y.okTimers = d.okTimers
  BY <1>1 DEF Dialogs
<1>5. /\ z \in Dialogs /\ z.queue = d.queue /\ z.ended = d.ended /\ z.last = d.last
      /\ z.state = d.state /\ z.localCseq = d.localCseq /\ z.okTimers = d.okTimers
  BY <1>1 DEF Dialogs
<1> HIDE DEF x, y, z
<1>6. Sound(x, ts) /\ Sound(y, ts) /\ Sound(z, ts)
  BY <1>2, <1>3, <1>4, <1>5
<1> QED
  BY <1>6 DEF x, y, z

LEMMA ReinviteUpdates ==
    ASSUME NEW c, NEW d, NEW ts, NEW n, Sound(d, ts), NEW asUas \in BOOLEAN,
           ts[n] \in Transactions, ts[n].method = "INVITE",
           /\ c.lastOutAck = d.lastOutAck /\ c.queue = d.queue /\ c.deferred = d.deferred
           /\ c.needsAck = d.needsAck
    PROVE  Updated(c, ts, n, asUas, UpdateReinvite(d, ts, ts[n], asUas))
<1> DEFINE t == ts[n]
           r == UpdateReinvite(d, ts, t, asUas)
<1>1. t.cseq \in Nat /\ t.code \in Codes /\ TRUE \in BOOLEAN /\ FALSE \in BOOLEAN
  BY DEF Transactions
<1>2. CASE t.code = 200 /\ asUas
  <2>1. r = Kept([d EXCEPT !.needsAck = TRUE], ts)
    BY <1>2 DEF UpdateReinvite
  <2> QED
    BY <1>1, <2>1, AckFieldsKeep, KeptUpdates
<1>3. CASE t.code = 200 /\ ~asUas /\ d.lastOutAck # t.cseq
  <2> DEFINE e == [d EXCEPT !.needsAck = TRUE, !.lastOutInvite = t.cseq]
  <2>1. r = Kept(e, ts)
    BY <1>3 DEF UpdateReinvite
  <2>2. Sound(e, ts)
    BY <1>1, AckFieldsKeep
  <2> HIDE DEF e
  <2>3. Updated(c, ts, n, asUas, Kept(e, ts))
    BY <2>2, KeptUpdates
  <2> QED
    BY <2>1, <2>3
<1>4. CASE t.code = 200 /\ ~asUas /\ d.lastOutAck = t.cseq
  <2>1. r = [d |-> [d EXCEPT !.lastOutInvite = t.cseq], ts |-> ts, again |-> TRUE]
    BY <1>4 DEF UpdateReinvite
  <2>2. Sound([d EXCEPT !.lastOutInvite = t.cseq], ts)
    BY <1>1, AckFieldsKeep
  <2>3. d \in Dialogs
    BY DEF Sound, FieldsOK
  <2>4. r.d.lastOutAck = d.lastOutAck /\ r.d.queue = d.queue /\ r.d.deferred = d.deferred
        /\ r.d.needsAck = d.needsAck /\ r.again = TRUE /\ r.ts = ts
    BY <1>1, <2>1, <2>3 DEF Dialogs
  <2>5. r.d = [d EXCEPT !.lastOutInvite = t.cseq]
    BY <2>1
  <2> HIDE DEF r
  <2>6. Updated(c, ts, n, asUas, r)
    BY <1>4, <2>2, <2>4, <2>5 DEF Updated
  <2> QED
    BY <2>6 DEF r
<1>5. CASE t.code = 400
  <2>1. r = Kept([d EXCEPT !.needsAck = FALSE], ts)
    BY <1>5 DEF UpdateReinvite
  <2> QED
    BY <1>1, <2>1, AckFieldsKeep, KeptUpdates
<1>6. CASE t.code \notin {200, 400}
  <2>1. r = Kept(d, ts)
    BY <1>6 DEF UpdateReinvite
  <2> QED
    BY <2>1, KeptUpdates
<1> QED
  BY <1>2, <1>3, <1>4, <1>5, <1>6

LEMMA ByeUpdates ==
    ASSUME NEW c, NEW d, NEW ts, Sound(d, ts), NEW n \in 1..Len(ts), ts[n].st # "INIT",
           NEW asUas, NEW t, d.state = "CONFIRMED"
    PROVE  Updated(c, ts, n, asUas, UpdateBye(d, ts, t))
<1> DEFINE e == [d EXCEPT !.needsAck = FALSE]
<1>1. Sound(e, ts) /\ Sound(d, ts)
  BY AckFieldsKeep
<1>2. e.state # "TERMINATED"
  BY DEF Sound, FieldsOK, Dialogs
<1> HIDE DEF e
<1>3. UpdateBye(d, ts, t) \in {Deleted(e, ts), Kept(e, ts), Kept(d, ts)}
  BY DEF UpdateBye, e
<1>4. Updated(c, ts, n, asUas, Deleted(e, ts))
  BY <1>1, <1>2, DeletedUpdates
<1>5. Updated(c, ts, n, asUas, Kept(e, ts)) /\ Updated(c, ts, n, asUas, Kept(d, ts))
  BY <1>1, KeptUpdates
<1> QED
  BY <1>3, <1>4, <1>5

LEMMA UpdateKeeps ==
    ASSUME isServer \in BOOLEAN, NEW c, NEW ts, Sound(c, ts), NEW n \in 1..Len(ts),
           ts[n].st # "INIT", NEW asUas \in BOOLEAN
    PROVE  Updated(c, ts, n, asUas, belle_sip_dialog_update(c, ts, n, asUas))
<1> DEFINE t == ts[n]
           q == IF asUas THEN t.cseq ELSE c.remoteCseq
           d == [c EXCEPT !.last = n, !.remoteCseq = q]
           r == belle_sip_dialog_update(c, ts, n, asUas)
<1>1. c \in Dialogs /\ ts \in Seq(Transactions) /\ Len(ts) \in Nat
  BY DEF Sound, FieldsOK
<1>2. t \in Transactions /\ t.cseq \in Nat /\ q \in Nat /\ n \in Nat
  <2>1. t \in Transactions
    BY <1>1
  <2>2. t.cseq \in Nat /\ c.remoteCseq \in Nat
    BY <1>1, <2>1 DEF Dialogs, Transactions
  <2> QED
    BY <1>1, <2>1, <2>2
<1>3. d \in Dialogs /\ d.last = n /\ d.queue = c.queue /\ d.ended = c.ended /\ d.state = c.state
      /\ d.localCseq = c.localCseq /\ d.okTimers = c.okTimers
  <2> HIDE DEF q
  <2> QED
    BY <1>1, <1>2 DEF Dialogs
<1>4. d.lastOutAck = c.lastOutAck /\ d.deferred = c.deferred /\ d.needsAck = c.needsAck
      /\ c.localCseq \in Nat
  <2> HIDE DEF q
  <2> QED
    BY <1>1, <1>2 DEF Dialogs
<1>5. r = CASE d.state = "NULL" /\ t.method = "INVITE" /\ t.code = 180 ->
                 Kept([belle_sip_dialog_establish(d, t) EXCEPT !.state = "EARLY"], ts)
            [] d.state = "NULL" /\ t.method = "INVITE" /\ t.code = 200 ->
                 Kept(belle_sip_dialog_establish_full(belle_sip_dialog_establish(d, t)), ts)
            [] d.state = "EARLY" /\ t.method = "INVITE" /\ t.code = 200 ->
                 Kept(belle_sip_dialog_establish_full(d), ts)
            [] d.state \in {"NULL", "EARLY"} /\ t.method = "INVITE" /\ t.code = 400 ->
                 Deleted(d, ts)
            [] d.state = "CONFIRMED" /\ t.method = "INVITE" -> UpdateReinvite(d, ts, t, asUas)
            [] d.state = "CONFIRMED" /\ t.method = "BYE" -> UpdateBye(d, ts, t)
            [] OTHER -> Kept(d, ts)
  BY DEF belle_sip_dialog_update
<1> HIDE DEF r, d
<1>6. Sound(d, ts)
  BY <1>1, <1>2, <1>3, <1>4, FieldsKeep
<1>7. CASE d.state = "NULL" /\ t.method = "INVITE" /\ t.code = 180
  <2>1. r = Kept([belle_sip_dialog_establish(d, t) EXCEPT !.state = "EARLY"], ts)
    BY <1>5, <1>7
  <2> QED
    BY <1>2, <1>6, <1>7, <2>1, EstablishKeeps, KeptUpdates DEF r
<1>8. CASE d.state = "NULL" /\ t.method = "INVITE" /\ t.code = 200
  <2> DEFINE e == belle_sip_dialog_establish(d, t)
  <2>1. r = Kept(belle_sip_dialog_establish_full(e), ts)
    BY <1>5, <1>8
  <2>2. Sound(e, ts)
    <3>1. t \in Transactions /\ d.state = "NULL"
      BY <1>2, <1>8
    <3> HIDE DEF t
    <3> QED
      BY <1>6, <3>1, EstablishKeeps, Zenon
  <2>3. e.state = "NULL"
    BY <1>3, <1>8 DEF belle_sip_dialog_establish, Dialogs
  <2> HIDE DEF e
  <2>4. Sound(belle_sip_dialog_establish_full(e), ts)
    BY <2>2, <2>3, EstablishFullKeeps
  <2> QED
    BY <2>1, <2>4, KeptUpdates DEF r
<1>9. CASE d.state = "EARLY" /\ t.method = "INVITE" /\ t.code = 200
  <2>1. r = Kept(belle_sip_dialog_establish_full(d), ts)
    BY <1>5, <1>9
  <2> QED
    BY <1>6, <1>9, <2>1, EstablishFullKeeps, KeptUpdates DEF r
<1>10. CASE d.state \in {"NULL", "EARLY"} /\ t.method = "INVITE" /\ t.code = 400
  <2>1. r = Deleted(d, ts)
    BY <1>5, <1>10
  <2> QED
    BY <1>6, <1>10, <2>1, DeletedUpdates DEF r
<1>11. CASE d.state = "CONFIRMED" /\ t.method = "INVITE"
  <2>1. r = UpdateReinvite(d, ts, t, asUas)
    BY <1>5, <1>11
  <2> QED
    BY <1>2, <1>3, <1>4, <1>6, <1>11, <2>1, ReinviteUpdates DEF r
<1>12. CASE d.state = "CONFIRMED" /\ t.method = "BYE"
  <2>1. r = UpdateBye(d, ts, t)
    BY <1>5, <1>12
  <2> QED
    BY <1>6, <1>12, <2>1, ByeUpdates DEF r
<1>13. r = Kept(d, ts) => Updated(c, ts, n, asUas, r)
  BY <1>6, KeptUpdates
<1>14. \/ d.state = "NULL" /\ t.method = "INVITE" /\ t.code = 180
       \/ d.state = "NULL" /\ t.method = "INVITE" /\ t.code = 200
       \/ d.state = "EARLY" /\ t.method = "INVITE" /\ t.code = 200
       \/ d.state \in {"NULL", "EARLY"} /\ t.method = "INVITE" /\ t.code = 400
       \/ d.state = "CONFIRMED" /\ t.method = "INVITE"
       \/ d.state = "CONFIRMED" /\ t.method = "BYE"
       \/ r = Kept(d, ts)
  BY <1>5
<1> QED
  BY <1>7, <1>8, <1>9, <1>10, <1>11, <1>12, <1>13, <1>14 DEF r

-----------------------------------------------------------------------------
(***************************************************************************)
(* Sending.                                                                *)
(***************************************************************************)
\* A sequence number is above those given out before.
LEMMA NumberKeeps ==
    ASSUME NEW d, NEW ts, Sound(d, ts)
    PROVE  LET e == belle_sip_dialog_update_local_cseq(d) IN
           /\ Sound(e, ts) /\ e.localCseq \in Nat /\ e.localCseq > d.localCseq
           /\ e.queue = d.queue /\ e.state = d.state /\ e.last = d.last
<1> DEFINE e == belle_sip_dialog_update_local_cseq(d)
           c == (IF d.localCseq = 0 THEN 110 ELSE d.localCseq) + 1
<1>1. d \in Dialogs /\ d.last \in 0..Len(ts) /\ (d.last # 0 => ts[d.last].st # "INIT")
      /\ d.localCseq \in Nat
  BY DEF Sound, FieldsOK, QueueOK, Dialogs
<1>2. PICK m \in Nat : m = c /\ m > d.localCseq
  <2>1. PICK l \in Nat : l = d.localCseq
    BY <1>1
  <2>2. (IF l = 0 THEN 110 ELSE l) + 1 \in Nat /\ (IF l = 0 THEN 110 ELSE l) + 1 > l
    OBVIOUS
  <2> QED
    BY <2>1, <2>2
<1>3. e = [d EXCEPT !.localCseq = m]
  BY <1>2 DEF belle_sip_dialog_update_local_cseq
<1> HIDE DEF e
<1>4. /\ e \in Dialogs /\ e.queue = d.queue /\ e.ended = d.ended /\ e.last = d.last
      /\ e.state = d.state /\ e.localCseq = m /\ e.okTimers = d.okTimers
  BY <1>1, <1>3 DEF Dialogs
<1>5. Sound(e, ts)
  BY <1>1, <1>2, <1>4, FieldsKeep
<1> QED
  BY <1>2, <1>4, <1>5 DEF e

LEMMA NewTransactionOK ==
    ASSUME NEW side \in {"client", "server"}, NEW cseq \in Nat,
           NEW method \in {"INVITE", "BYE", "INFO", "UPDATE"}
    PROVE  LET t == NewTransaction(side, method, cseq) IN
           /\ t \in Transactions /\ t.st = "BUSY" /\ ~t.queued /\ t.code = 0 /\ t.acks = 0
           /\ t.cseq = cseq /\ t.method = method /\ t.side = side
BY DEF NewTransaction, Transactions, Codes

\* A request that does not come from the queue.
LEMMA SendNewKeeps ==
    ASSUME isServer \in BOOLEAN, NEW d, NEW ts, Sound(d, ts),
           NEW method \in {"INVITE", "BYE", "INFO", "UPDATE"}
    PROVE  LET r == SendNew(d, ts, method) IN Sound(r.d, r.ts) /\ Served(r.d)
<1> DEFINE e == belle_sip_dialog_update_local_cseq(d)
           t == NewTransaction("client", method, e.localCseq)
           us == Append(ts, t)
           n == Len(us)
           r == belle_sip_dialog_update(e, us, n, FALSE)
<1>1. Sound(e, ts) /\ e.localCseq \in Nat
  BY NumberKeeps
<1> HIDE DEF e
<1>2. t \in Transactions /\ t.st = "BUSY" /\ ~t.queued /\ t.code = 0 /\ t.acks = 0
  BY <1>1, NewTransactionOK
<1>3. ts \in Seq(Transactions)
  BY DEF Sound, FieldsOK
<1> HIDE DEF t
<1>4. Sound(e, us)
  BY <1>1, <1>2, AppendKeeps
<1>5. n \in 1..n /\ us[n] = t
  BY <1>2, <1>3
<1> HIDE DEF us, n
<1>6. n \in 1..Len(us)
  BY <1>5 DEF n
<1>7. Updated(e, us, n, FALSE, r)
  BY <1>2, <1>4, <1>5, <1>6, UpdateKeeps
<1>8. SendNew(d, ts, method) = r
  BY DEF SendNew, e, us, t, n
<1> HIDE DEF r
<1>9. Sound(r.d, r.ts) /\ Served(r.d)
  <2>1. us[n].code # 200
    BY <1>2, <1>5
  <2> QED
    BY <1>7, <2>1 DEF Updated
<1> QED
  BY <1>8, <1>9

\* A request that waits behind the others.
LEMMA EnqueueKeeps ==
    ASSUME NEW d, NEW ts, Sound(d, ts), d.state \in {"EARLY", "CONFIRMED"},
           NEW t \in Transactions, t.st = "INIT", t.queued, t.cseq = 0, t.code = 0, t.acks = 0
    PROVE  Sound([d EXCEPT !.queue = Append(@, Len(ts) + 1)], Append(ts, t))
<1> DEFINE us == Append(ts, t)
           n == Len(ts) + 1
           p == Append(d.queue, n)
           e == [d EXCEPT !.queue = p]
<1>1. /\ d \in Dialogs /\ ts \in Seq(Transactions) /\ Len(ts) \in Nat
      /\ d.queue \in Seq(Nat) /\ Len(d.queue) \in Nat /\ d.last \in 0..Len(ts)
  BY DEF Sound, FieldsOK, Dialogs
<1>2. /\ us \in Seq(Transactions) /\ Len(us) = n
      /\ \A i \in 1..n : us[i] = IF i \in 1..Len(ts) THEN ts[i] ELSE t
  BY <1>1
<1>3. /\ p \in Seq(Nat) /\ Len(p) = Len(d.queue) + 1
      /\ \A k \in 1..Len(d.queue) : k \in 1..Len(p) /\ p[k] = d.queue[k]
      /\ Len(p) \in 1..Len(p) /\ p[Len(p)] = n
      /\ \A k \in 1..Len(p) : k \in 1..Len(d.queue) \/ k = Len(p)
  BY <1>1
<1> HIDE DEF p, us
<1>4. /\ e \in Dialogs /\ e.queue = p /\ e.ended = d.ended /\ e.last = d.last
      /\ e.state = d.state /\ e.localCseq = d.localCseq /\ e.okTimers = d.okTimers
      /\ d.localCseq \in Nat
  BY <1>1, <1>3 DEF Dialogs
<1> HIDE DEF e
<1>5. FieldsOK(e, us)
  <2>1. /\ e.ended = IF e.state = "TERMINATED" THEN 1 ELSE 0
        /\ e.okTimers => e.state = "CONFIRMED"
    BY <1>4 DEF Sound, FieldsOK
  <2>2. \A i \in 1..Len(us) : us[i].st \in {"INIT", "BUSY"} => us[i].acks = 0 /\ us[i].code # 200
    <3>1. \A i \in 1..Len(ts) :
            ts[i].st \in {"INIT", "BUSY"} => ts[i].acks = 0 /\ ts[i].code # 200
      BY DEF Sound, FieldsOK
    <3> QED
      BY <1>2, <3>1
  <2> QED
    BY <1>1, <1>2, <1>4, <2>1, <2>2 DEF FieldsOK
<1>6. QueueOK(e, us)
  <2>1. /\ \A k \in 1..Len(d.queue) :
             d.queue[k] \in 1..Len(ts) /\ ts[d.queue[k]].st = "INIT"
        /\ \A k, l \in 1..Len(d.queue) : k < l => d.queue[k] < d.queue[l]
        /\ \A i \in 1..Len(ts) : ts[i].st = "INIT" => \E k \in 1..Len(d.queue) : d.queue[k] = i
        /\ d.last # 0 => ts[d.last].st # "INIT"
    BY DEF Sound, QueueOK
  <2>2. ASSUME NEW k \in 1..Len(p) PROVE p[k] \in 1..n /\ us[p[k]].st = "INIT"
    <3>1. CASE k \in 1..Len(d.queue)
      <4>1. p[k] \in 1..Len(ts) /\ ts[p[k]].st = "INIT"
        <5>1. p[k] = d.queue[k]
          BY <1>3, <3>1, Zenon
        <5>2. d.queue[k] \in 1..Len(ts) /\ ts[d.queue[k]].st = "INIT"
          BY <2>1, <3>1, Zenon
        <5> QED
          BY <5>1, <5>2, Zenon
      <4> QED
        BY <1>1, <1>2, <4>1
    <3>2. CASE k = Len(p)
      <4>1. p[k] = n /\ n \in 1..n /\ n \notin 1..Len(ts)
        BY <1>1, <1>3, <3>2
      <4> QED
        BY <1>2, <4>1
    <3> QED
      BY <1>3, <3>1, <3>2
  <2>3. ASSUME NEW k \in 1..Len(p), NEW l \in 1..Len(p), k < l PROVE p[k] < p[l]
    <3>1. k \in 1..Len(d.queue) /\ p[k] = d.queue[k]
      BY <1>1, <1>3, <2>3
    <3>2. CASE l \in 1..Len(d.queue)
      BY <1>3, <2>1, <2>3, <3>1, <3>2
    <3>3. CASE l = Len(p)
      <4>1. p[k] \in 1..Len(ts) /\ p[l] = n
        BY <1>3, <2>1, <3>1, <3>3
      <4> QED
        BY <1>1, <4>1
    <3> QED
      BY <1>3, <3>2, <3>3
  <2>4. ASSUME NEW i \in 1..n, us[i].st = "INIT" PROVE \E k \in 1..Len(p) : p[k] = i
    <3>1. CASE i = n
      BY <1>3, <3>1
    <3>2. CASE i # n
      <4>1. i \in 1..Len(ts) /\ ts[i].st = "INIT"
        BY <1>1, <1>2, <2>4, <3>2
      <4>2. PICK k \in 1..Len(d.queue) : d.queue[k] = i
        BY <2>1, <4>1
      <4> QED
        BY <1>3, <4>2
    <3> QED
      BY <3>1, <3>2
  <2>5. e.last # 0 => us[e.last].st # "INIT"
    BY <1>1, <1>2, <1>4, <2>1
  <2> QED
    BY <1>2, <1>4, <2>2, <2>3, <2>4, <2>5 DEF QueueOK
<1>7. NumbersOK(e, us)
  <2>1. /\ \A i \in 1..Len(ts) :
             ts[i].st = "INIT" => ts[i].queued /\ ts[i].cseq = 0 /\ ts[i].code = 0
        /\ \A i \in 1..Len(ts) :
             ts[i].queued => /\ ts[i].cseq <= d.localCseq
                             /\ ts[i].cseq = 0 => ts[i].st \in {"INIT", "TERMINATED"}
        /\ \A i, j \in 1..Len(ts) :
             i < j /\ ts[i].queued /\ ts[j].queued
             => /\ ts[i].st = "INIT" => ts[j].st = "INIT"
                /\ ts[j].cseq > 0 => ts[i].cseq \in 1..(ts[j].cseq - 1)
                                      \/ ts[i].st = "TERMINATED"
    BY DEF Sound, NumbersOK
  <2>2. /\ \A i \in 1..Len(ts) : us[i] = ts[i] /\ i < n
        /\ us[n] = t /\ \A i \in 1..n : i \in 1..Len(ts) \/ i = n
    BY <1>1, <1>2
  <2>3. \A i \in 1..n :
          /\ us[i].st = "INIT" => us[i].queued /\ us[i].cseq = 0 /\ us[i].code = 0
          /\ us[i].queued => /\ us[i].cseq <= d.localCseq
                             /\ us[i].cseq = 0 => us[i].st \in {"INIT", "TERMINATED"}
    BY <1>4, <2>1, <2>2
  <2>4. ASSUME NEW i \in 1..n, NEW j \in 1..n, i < j, us[i].queued, us[j].queued
        PROVE  /\ us[i].st = "INIT" => us[j].st = "INIT"
               /\ us[j].cseq > 0 => us[i].cseq \in 1..(us[j].cseq - 1)
                                     \/ us[i].st = "TERMINATED"
    <3>1. i \in 1..Len(ts)
      BY <1>1, <2>2, <2>4
    <3>2. CASE j = n
      BY <2>2, <3>2
    <3>3. CASE j \in 1..Len(ts)
      BY <2>1, <2>2, <2>4, <3>1, <3>3
    <3> QED
      BY <2>2, <3>2, <3>3
  <2> QED
    BY <1>2, <1>4, <2>3, <2>4 DEF NumbersOK
<1> QED
  BY <1>5, <1>6, <1>7 DEF Sound, e, us, p

\* The first of the queue is sent: those behind it go on waiting.
LEMMA DequeueKeeps ==
    ASSUME NEW d, NEW ts, Sound(d, ts), d.queue # <<>>, NEW c \in Nat, c > d.localCseq
    PROVE  LET n == Head(d.queue) IN
           /\ n \in 1..Len(ts)
           /\ Sound([d EXCEPT !.queue = Tail(@), !.localCseq = c],
                    [ts EXCEPT ![n] = [@ EXCEPT !.cseq = c, !.st = "BUSY"]])
<1> DEFINE q == d.queue
           n == Head(q)
           p == Tail(q)
           t == [ts[n] EXCEPT !.cseq = c, !.st = "BUSY"]
           us == [ts EXCEPT ![n] = t]
           e == [d EXCEPT !.queue = p, !.localCseq = c]
<1>1. /\ d \in Dialogs /\ ts \in Seq(Transactions) /\ Len(ts) \in Nat
      /\ q \in Seq(Nat) /\ Len(q) \in Nat \ {0} /\ d.last \in 0..Len(ts) /\ d.localCseq \in Nat
  BY DEF Sound, FieldsOK, Dialogs
<1>2. /\ n = q[1] /\ p \in Seq(Nat) /\ Len(p) = Len(q) - 1
      /\ \A k \in 1..Len(p) : p[k] = q[k + 1] /\ k + 1 \in 1..Len(q)
  BY <1>1
<1>3. /\ \A k \in 1..Len(q) : q[k] \in 1..Len(ts) /\ ts[q[k]].st = "INIT"
      /\ \A k, l \in 1..Len(q) : k < l => q[k] < q[l]
      /\ \A i \in 1..Len(ts) : ts[i].st = "INIT" => \E k \in 1..Len(q) : q[k] = i
      /\ d.last # 0 => ts[d.last].st # "INIT"
      /\ d.state \in {"EARLY", "CONFIRMED"}
  BY DEF Sound, QueueOK
<1> HIDE DEF q
<1>4. n \in 1..Len(ts) /\ ts[n].st = "INIT" /\ 1 \in 1..Len(q)
  BY <1>1, <1>2, <1>3
<1> HIDE DEF n, p
<1>5. /\ t \in Transactions /\ t.cseq = c /\ t.st = "BUSY" /\ t.queued = ts[n].queued
      /\ t.acks = 0 /\ t.code # 200
  <2>1. ts[n] \in Transactions
    BY <1>1, <1>4
  <2>2. ts[n].acks = 0 /\ ts[n].code # 200
    BY <1>4 DEF Sound, FieldsOK
  <2> QED
    BY <2>1, <2>2 DEF Transactions
<1> HIDE DEF t
<1>6. /\ us \in Seq(Transactions) /\ Len(us) = Len(ts)
      /\ \A i \in 1..Len(us) : us[i] = IF i = n THEN t ELSE ts[i]
  BY <1>1, <1>4, <1>5
<1> HIDE DEF us
<1>7. /\ e \in Dialogs /\ e.queue = p /\ e.ended = d.ended /\ e.last = d.last
      /\ e.state = d.state /\ e.localCseq = c /\ e.okTimers = d.okTimers
  BY <1>1, <1>2 DEF Dialogs
<1> HIDE DEF e
<1>8. FieldsOK(e, us)
  BY <1>1, <1>5, <1>6, <1>7, SMTT(30) DEF Sound, FieldsOK
<1>9. \A k \in 1..Len(p) : p[k] \in 1..Len(ts) /\ p[k] > n /\ ts[p[k]].st = "INIT"
  <2>1. ASSUME NEW k \in 1..Len(p) PROVE p[k] \in 1..Len(ts) /\ p[k] > n /\ ts[p[k]].st = "INIT"
    <3>1. k + 1 \in 1..Len(q) /\ 1 < k + 1 /\ p[k] = q[k + 1]
      BY <1>2
    <3> QED
      BY <1>2, <1>3, <1>4, <3>1
  <2> QED
    BY <2>1
<1>10. QueueOK(e, us)
  <2>1. \A k \in 1..Len(p) : p[k] \in 1..Len(us) /\ us[p[k]].st = "INIT"
    BY <1>4, <1>6, <1>9
  <2>2. ASSUME NEW k \in 1..Len(p), NEW l \in 1..Len(p), k < l PROVE p[k] < p[l]
    <3>1. k + 1 \in 1..Len(q) /\ l + 1 \in 1..Len(q) /\ k + 1 < l + 1
      BY <1>2, <2>2
    <3> QED
      BY <1>2, <1>3, <3>1
  <2>3. ASSUME NEW i \in 1..Len(us), us[i].st = "INIT" PROVE \E k \in 1..Len(p) : p[k] = i
    <3>1. i # n /\ ts[i].st = "INIT"
      BY <1>5, <1>6, <2>3
    <3>2. PICK k \in 1..Len(q) : q[k] = i
      BY <1>3, <1>6, <3>1
    <3>3. k - 1 \in 1..Len(p) /\ p[k - 1] = q[(k - 1) + 1] /\ (k - 1) + 1 = k
      BY <1>1, <1>2, <3>1, <3>2, SMTT(30)
    <3> QED
      BY <3>2, <3>3
  <2>4. e.last # 0 => us[e.last].st # "INIT"
    BY <1>1, <1>3, <1>5, <1>6, <1>7
  <2> QED
    BY <1>3, <1>7, <2>1, <2>2, <2>3, <2>4 DEF QueueOK
<1>11. NumbersOK(e, us)
  <2>1. \A i \in 1..Len(ts) : ts[i].cseq \in Nat
    <3>1. \A i \in 1..Len(ts) : ts[i] \in Transactions
      BY <1>1
    <3> QED
      BY <3>1 DEF Transactions
  <2>2. \A i \in 1..Len(us) : i # n => us[i] = ts[i]
    BY <1>6
  <2>3. us[n] = t /\ Len(us) = Len(ts)
    BY <1>4, <1>6
  <2>4. \A i \in 1..Len(ts) :
          ts[i].st = "INIT" => ts[i].queued /\ ts[i].cseq = 0 /\ ts[i].code = 0
    BY DEF Sound, NumbersOK
  <2>5. \A i \in 1..Len(ts) :
          ts[i].queued => /\ ts[i].cseq <= d.localCseq
                          /\ ts[i].cseq = 0 => ts[i].st \in {"INIT", "TERMINATED"}
    BY DEF Sound, NumbersOK
  <2>6. \A i, j \in 1..Len(ts) :
         i < j /\ ts[i].queued /\ ts[j].queued
         => /\ ts[i].st = "INIT" => ts[j].st = "INIT"
            /\ ts[j].cseq > 0 => ts[i].cseq \in 1..(ts[j].cseq - 1) \/ ts[i].st = "TERMINATED"
    BY DEF Sound, NumbersOK
  <2>7. \A i \in 1..Len(ts) : i # n /\ ts[i].st = "INIT" => i > n
    BY <1>1, <1>2, <1>3, <1>4, SMTT(30)
  <2>8. \A i \in 1..Len(us) :
          us[i].st = "INIT" => us[i].queued /\ us[i].cseq = 0 /\ us[i].code = 0
    BY <1>5, <2>2, <2>3, <2>4
  <2>9. \A i \in 1..Len(us) :
          us[i].queued => /\ us[i].cseq <= c
                          /\ us[i].cseq = 0 => us[i].st \in {"INIT", "TERMINATED"}
    BY <1>1, <1>5, <2>1, <2>2, <2>3, <2>5
  <2>10. ASSUME NEW i \in 1..Len(us), NEW j \in 1..Len(us), i < j, us[i].queued, us[j].queued
         PROVE  /\ us[i].st = "INIT" => us[j].st = "INIT"
                /\ us[j].cseq > 0 => us[i].cseq \in 1..(us[j].cseq - 1) \/ us[i].st = "TERMINATED"
    <3>1. CASE i = n
      <4>1. us[j] = ts[j] /\ ts[j].st = "INIT" /\ ts[j].cseq = 0 /\ us[i].st = "BUSY"
        BY <1>4, <1>5, <2>2, <2>3, <2>4, <2>6, <2>10, <3>1
      <4> QED
        BY <4>1
    <3>2. CASE j = n
      <4>1. us[i] = ts[i] /\ ts[i].st # "INIT" /\ us[j].cseq = c
        BY <1>5, <2>2, <2>3, <2>7, <2>10, <3>2
      <4>2. ts[i].cseq \in 1..(c - 1) \/ ts[i].st = "TERMINATED"
        BY <1>1, <2>1, <2>3, <2>5, <2>10, <4>1
      <4> QED
        BY <4>1, <4>2
    <3>3. CASE i # n /\ j # n
      BY <2>2, <2>3, <2>6, <2>10, <3>3
    <3> QED
      BY <3>1, <3>2, <3>3
  <2> QED
    BY <1>3, <1>7, <2>8, <2>9, <2>10 DEF NumbersOK
<1> QED
  BY <1>4, <1>8, <1>10, <1>11 DEF Sound, e, us, p, t, n, q

\* The queued transaction whose turn has come.
LEMMA SendQueuedKeeps ==
    ASSUME isServer \in BOOLEAN, NEW d, NEW ts, Sound(d, ts), d.queue # <<>>
    PROVE  LET r == SendQueued([d EXCEPT !.queue = Tail(@)], ts, Head(d.queue)) IN
           Sound(r.d, r.ts) /\ Served(r.d)
<1> DEFINE n == Head(d.queue)
           f == [d EXCEPT !.queue = Tail(@)]
           e == belle_sip_dialog_update_local_cseq(f)
           us == [ts EXCEPT ![n] = [@ EXCEPT !.cseq = e.localCseq, !.st = "BUSY"]]
           r == belle_sip_dialog_update(e, us, n, FALSE)
<1>1. d \in Dialogs /\ ts \in Seq(Transactions) /\ d.localCseq \in Nat /\ d.queue \in Seq(Nat)
  BY DEF Sound, FieldsOK, Dialogs
<1>2. PICK c \in Nat : c = (IF d.localCseq = 0 THEN 110 ELSE d.localCseq) + 1 /\ c > d.localCseq
  <2>1. PICK l \in Nat : l = d.localCseq
    BY <1>1
  <2>2. (IF l = 0 THEN 110 ELSE l) + 1 \in Nat /\ (IF l = 0 THEN 110 ELSE l) + 1 > l
    OBVIOUS
  <2> QED
    BY <2>1, <2>2
<1>3. PICK p \in Seq(Nat) : p = Tail(d.queue)
  <2>1. Tail(d.queue) \in Seq(Nat)
    BY <1>1
  <2> QED
    BY <2>1
<1>4. e = [d EXCEPT !.queue = p, !.localCseq = c] /\ e.localCseq = c
  <2>1. f = [d EXCEPT !.queue = p] /\ f \in Dialogs /\ f.localCseq = d.localCseq
    BY <1>1, <1>3 DEF Dialogs
  <2>2. e = [f EXCEPT !.localCseq = c]
    BY <1>2, <2>1 DEF belle_sip_dialog_update_local_cseq
  <2> HIDE DEF e, f
  <2>3. e = [d EXCEPT !.queue = p, !.localCseq = c]
    BY <1>1, <2>1, <2>2 DEF Dialogs
  <2>4. e.localCseq = c
    BY <2>1, <2>2 DEF Dialogs
  <2> QED
    BY <2>3, <2>4
<1> HIDE DEF e, f
<1>5. /\ n \in 1..Len(ts)
      /\ Sound([d EXCEPT !.queue = Tail(@), !.localCseq = c],
               [ts EXCEPT ![n] = [@ EXCEPT !.cseq = c, !.st = "BUSY"]])
  BY <1>2, DequeueKeeps
<1>6. Sound(e, us)
  BY <1>3, <1>4, <1>5
<1>7. Len(us) = Len(ts) /\ us[n].st = "BUSY" /\ us[n].code = 0
  <2>1. ts[n] \in Transactions
    BY <1>1, <1>5
  <2>2. ts[n].st = "INIT"
    <3>1. n = d.queue[1] /\ 1 \in 1..Len(d.queue)
      BY <1>1
    <3> QED
      BY <3>1 DEF Sound, QueueOK
  <2>3. ts[n].code = 0
    BY <1>5, <2>2 DEF Sound, NumbersOK
  <2> QED
    BY <1>1, <1>5, <2>1, <2>3 DEF Transactions
<1>8. SendQueued(f, ts, n) = r
  BY DEF SendQueued, e
<1> HIDE DEF us, n
<1>9. Updated(e, us, n, FALSE, r)
  BY <1>5, <1>6, <1>7, UpdateKeeps
<1> HIDE DEF r
<1>10. Sound(r.d, r.ts) /\ Served(r.d)
  BY <1>7, <1>9 DEF Updated
<1> QED
  BY <1>8, <1>10 DEF f, n

-----------------------------------------------------------------------------
(***************************************************************************)
(* The steps.                                                              *)
(***************************************************************************)
LEMMA ServedIsAwake ==
    ASSUME Served(dialog')
    PROVE  NoLostWakeup'
BY DEF Served, NoLostWakeup

LEMMA ResultKeeps ==
    ASSUME IInv, NEW r, Sound(r.d, r.ts), Served(r.d), Become(r), UNCHANGED isServer
    PROVE  IInv'
<1>1. dialog' = r.d /\ trans' = r.ts
  BY DEF Become
<1>2. Sound(dialog, trans)' /\ Served(dialog')
  BY <1>1
<1> QED
  BY <1>2, ServedIsAwake DEF IInv

LEMMA TypesOfMethods ==
    /\ Methods \subseteq {"INVITE", "BYE", "INFO", "UPDATE"}
    /\ PeerMethods \subseteq {"INVITE", "BYE", "INFO", "UPDATE"}
    /\ Provisional \subseteq {100, 180}
BY DialogAssumption

\* The transactions of the dialog.
LEMMA OfTransactions ==
    ASSUME IInv
    PROVE  /\ trans \in Seq(Transactions) /\ Len(trans) \in Nat /\ DOMAIN trans = 1..Len(trans)
           /\ \A i \in 1..Len(trans) : trans[i] \in Transactions
           /\ dialog \in Dialogs /\ Sound(dialog, trans) /\ isServer \in BOOLEAN
BY DEF IInv, Sound, FieldsOK

LEMMA ReceiveRequestKeeps ==
    ASSUME IInv, NEW m \in PeerMethods, NEW c \in 1..MaxPeerCseq, ReceiveRequest(m, c)
    PROVE  IInv'
<1> DEFINE t == NewTransaction("server", m, c)
           x == [t EXCEPT !.code = 400, !.st = "FINAL"]
<1>1. c \in Nat
  BY DialogAssumption
<1>2. t \in Transactions /\ t.st = "BUSY" /\ ~t.queued /\ t.acks = 0 /\ t.code = 0
  BY <1>1, TypesOfMethods, NewTransactionOK
<1> HIDE DEF t
<1>3. x \in Transactions /\ x.st = "FINAL" /\ ~x.queued /\ x.acks = 0 /\ x.code = 400
  <2>1. x.st = "FINAL" /\ x.code = 400 /\ x.acks = 0 /\ x.queued = t.queued
    BY <1>2 DEF Transactions
  <2>2. "FINAL" \in {"INIT", "BUSY", "FINAL", "TERMINATED"} /\ 400 \in Codes
    BY DEF Codes
  <2>3. x \in Transactions
    <3>1. PICK st : st = "FINAL"
      OBVIOUS
    <3>2. PICK code : code = 400
      OBVIOUS
    <3>3. x = [t EXCEPT !.code = code, !.st = st] /\ code \in Codes
          /\ st \in {"INIT", "BUSY", "FINAL", "TERMINATED"}
      BY <2>2, <3>1, <3>2
    <3> HIDE DEF x
    <3> QED
      BY <1>2, <3>3 DEF Transactions
  <2> QED
    BY <1>2, <2>1, <2>3
<1> HIDE DEF x
<1>4. Sound(dialog, Append(trans, t)) /\ Sound(dialog, Append(trans, x))
  BY <1>2, <1>3, AppendKeeps, OfTransactions
<1>5. CASE belle_sip_dialog_is_authorized_transaction(dialog, trans, m)
  <2>1. trans' = Append(trans, t) /\ dialog' = dialog /\ isServer' = isServer
    BY <1>5 DEF ReceiveRequest, t
  <2>2. Sound(dialog, trans)'
    BY <1>4, <2>1
  <2>3. NoLostWakeup'
    <3>1. /\ Len(trans) + 1 \in DOMAIN trans' /\ trans'[Len(trans) + 1] = t
      BY <1>2, <2>1, OfTransactions
    <3> QED
      BY <1>2, <3>1 DEF NoLostWakeup
  <2> QED
    BY <2>1, <2>2, <2>3 DEF IInv
<1>6. CASE ~belle_sip_dialog_is_authorized_transaction(dialog, trans, m)
  <2> DEFINE us == Append(trans, x)
             n == Len(us)
             r == belle_sip_dialog_update(dialog, us, n, TRUE)
  <2>1. Become(r) /\ UNCHANGED isServer
    BY <1>6 DEF ReceiveRequest, x, t
  <2>2. n \in 1..n /\ us[n] = x
    BY <1>3, OfTransactions
  <2>3. Sound(dialog, us)
    BY <1>4
  <2> HIDE DEF us, n
  <2>4. n \in 1..Len(us)
    BY <2>2 DEF n
  <2>5. Updated(dialog, us, n, TRUE, r)
    BY <1>3, <2>2, <2>3, <2>4, UpdateKeeps, OfTransactions
  <2> HIDE DEF r
  <2>6. us[n].code # 200
    BY <1>3, <2>2
  <2>7. Sound(r.d, r.ts) /\ Served(r.d)
    BY <2>5, <2>6 DEF Updated
  <2> QED
    BY <2>1, <2>7, ResultKeeps
<1> QED
  BY <1>5, <1>6

LEMMA SendQueuedRequestKeeps ==
    ASSUME IInv, NEW m \in Methods, SendQueuedRequest(m)
    PROVE  IInv'
<1> DEFINE x == NewTransaction("client", m, 0)
           t == [x EXCEPT !.st = "INIT", !.queued = TRUE]
           ts == Append(trans, t)
           d == [dialog EXCEPT !.queue = Append(@, Len(trans) + 1)]
<1>1. /\ x \in Transactions /\ x.code = 0 /\ x.acks = 0 /\ x.cseq = 0
  BY TypesOfMethods, NewTransactionOK
<1> HIDE DEF x
<1>2. /\ t \in Transactions /\ t.st = "INIT" /\ t.queued /\ t.code = 0 /\ t.acks = 0 /\ t.cseq = 0
  BY <1>1 DEF Transactions
<1>3. dialog.state \in {"EARLY", "CONFIRMED"}
  BY DEF SendQueuedRequest
<1>4. Len(ts) = Len(trans) + 1
  BY OfTransactions
<1> HIDE DEF t
<1>5. Sound(d, ts)
  BY <1>2, <1>3, EnqueueKeeps, OfTransactions
<1>6. CASE belle_sip_dialog_request_pending(dialog, trans) \/ dialog.queue # <<>>
  <2>1. dialog' = d /\ trans' = ts /\ isServer' = isServer
    BY <1>4, <1>6 DEF SendQueuedRequest, t, x
  <2>2. Sound(dialog, trans)'
    BY <1>5, <2>1
  <2>3. NoLostWakeup'
    <3>1. SUFFICES ASSUME dialog'.queue # <<>>, ~dialog'.needsAck,
                          \A i \in DOMAIN trans' : trans'[i].st # "BUSY", ~AckedEarly'
                   PROVE  dialog'.deferred
      BY DEF NoLostWakeup
    <3>2. /\ dialog'.needsAck = dialog.needsAck /\ dialog'.deferred = dialog.deferred
          /\ dialog'.lastOutAck = dialog.lastOutAck
      BY <2>1, OfTransactions DEF Dialogs
    <3>3. \A i \in DOMAIN trans : i \in DOMAIN trans' /\ trans'[i] = trans[i]
      BY <2>1, OfTransactions
    <3>4. \A i \in DOMAIN trans : trans[i].st # "BUSY"
      BY <3>1, <3>3
    <3>5. ~AckedEarly
      BY <3>1, <3>2, <3>3, Zenon DEF AckedEarly
    <3>6. dialog.queue # <<>>
      <4>1. SUFFICES ASSUME belle_sip_dialog_request_pending(dialog, trans),
                            dialog.queue = <<>>
                     PROVE  FALSE
        BY <1>6
      <4>2. dialog.last \in 1..Len(trans) /\ trans[dialog.last].st \in {"INIT", "BUSY"}
        BY <4>1, OfTransactions DEF belle_sip_dialog_request_pending, Sound, FieldsOK
      <4>3. trans[dialog.last].st # "INIT"
        BY <4>2, OfTransactions DEF Sound, QueueOK
      <4> QED
        BY <3>4, <4>2, <4>3, OfTransactions
    <3> QED
      BY <3>1, <3>2, <3>4, <3>5, <3>6 DEF IInv, NoLostWakeup
  <2> QED
    BY <2>1, <2>2, <2>3 DEF IInv
<1>7. CASE ~(belle_sip_dialog_request_pending(dialog, trans) \/ dialog.queue # <<>>)
  <2> DEFINE r == SendQueued(dialog, ts, Len(ts))
  <2>1. Become(r) /\ UNCHANGED isServer
    BY <1>7 DEF SendQueuedRequest, t, x
  <2>2. d.queue = <<Len(ts)>> /\ d \in Dialogs
    <3>1. Append(dialog.queue, Len(trans) + 1) = <<Len(ts)>>
      <4>1. PICK n : n = Len(trans) + 1 /\ n = Len(ts)
        BY <1>4
      <4>2. Append(<<>>, n) = <<n>>
        OBVIOUS
      <4> QED
        BY <1>7, <4>1, <4>2, Zenon
    <3>2. <<Len(ts)>> \in Seq(Nat)
      BY <1>4, OfTransactions
    <3> QED
      BY <3>1, <3>2, OfTransactions DEF Dialogs
  <2>3. Tail(d.queue) = <<>> /\ Head(d.queue) = Len(ts) /\ d.queue # <<>>
    BY <2>2
  <2>4. [d EXCEPT !.queue = Tail(@)] = dialog
    BY <1>7, <2>2, <2>3, OfTransactions DEF Dialogs
  <2> HIDE DEF d
  <2>5. LET s == SendQueued([d EXCEPT !.queue = Tail(@)], ts, Head(d.queue)) IN
        Sound(s.d, s.ts) /\ Served(s.d)
    BY <1>5, <2>3, SendQueuedKeeps, OfTransactions
  <2>6. Sound(r.d, r.ts) /\ Served(r.d)
    BY <2>3, <2>4, <2>5
  <2> HIDE DEF r
  <2> QED
    BY <2>1, <2>6, ResultKeeps
<1> QED
  BY <1>6, <1>7

LEMMA RespondKeeps ==
    ASSUME IInv, NEW n \in DOMAIN trans, NEW c \in Codes, Respond(n, c)
    PROVE  IInv'
<1> DEFINE t == [trans[n] EXCEPT !.code = c, !.st = IF c < 200 THEN "BUSY" ELSE "FINAL"]
           ts == [trans EXCEPT ![n] = t]
           r == belle_sip_dialog_update(dialog, ts, n, TRUE)
<1>1. n \in 1..Len(trans) /\ trans[n] \in Transactions /\ trans[n].st = "BUSY"
      /\ trans[n].acks = 0 /\ trans[n].code # 200
  BY OfTransactions DEF Respond, Sound, FieldsOK
<1>2. PICK st \in {"BUSY", "FINAL"} :
        st = (IF c < 200 THEN "BUSY" ELSE "FINAL") /\ (st = "BUSY" => c # 200)
  OBVIOUS
<1>3. /\ t \in Transactions /\ t.st = st /\ t.cseq = trans[n].cseq /\ t.queued = trans[n].queued
      /\ t.acks = 0 /\ t.code = c
  <2>1. PICK x : x = trans[n]
    OBVIOUS
  <2>2. t = [x EXCEPT !.code = c, !.st = st]
    BY <1>2, <2>1
  <2>3. x \in Transactions /\ x.acks = 0
    BY <1>1, <2>1
  <2> HIDE DEF t
  <2>4. t \in Transactions
    BY <2>2, <2>3 DEF Transactions
  <2>5. t.st = st /\ t.code = c
    BY <2>2, <2>3 DEF Transactions
  <2>6. t.cseq = x.cseq /\ t.queued = x.queued /\ t.acks = x.acks
    BY <2>2, <2>3 DEF Transactions
  <2> QED
    BY <2>1, <2>3, <2>4, <2>5, <2>6
<1> HIDE DEF t
<1>4. Sound(dialog, ts)
  <2>1. t.st # "INIT" /\ (t.st = "BUSY" => t.acks = 0 /\ t.code # 200)
    BY <1>2, <1>3
  <2>2. Sound(dialog, trans)
    BY OfTransactions
  <2> QED
    BY <1>1, <1>3, <2>1, <2>2, ChangeKeeps
<1>5. n \in 1..Len(ts) /\ ts[n] = t
  BY <1>1, <1>3, OfTransactions
<1>6. Become(r) /\ UNCHANGED isServer
  BY DEF Respond, t
<1> HIDE DEF ts
<1>7. Updated(dialog, ts, n, TRUE, r)
  BY <1>2, <1>3, <1>4, <1>5, UpdateKeeps, OfTransactions
<1> HIDE DEF r
<1>8. Sound(r.d, r.ts) /\ Served(r.d)
  BY <1>7 DEF Updated
<1> QED
  BY <1>6, <1>8, ResultKeeps

LEMMA TransactionEndsKeeps ==
    ASSUME IInv, NEW n \in DOMAIN trans, TransactionEnds(n)
    PROVE  IInv'
<1> DEFINE t == [trans[n] EXCEPT !.st = "TERMINATED"]
           ts == [trans EXCEPT ![n] = t]
           r == belle_sip_dialog_update(dialog, ts, n, FALSE)
<1>1. n \in 1..Len(trans) /\ trans[n] \in Transactions /\ trans[n].st = "BUSY"
      /\ trans[n].code # 200
  BY OfTransactions DEF TransactionEnds, Sound, FieldsOK
<1>2. /\ t \in Transactions /\ t.st = "TERMINATED" /\ t.cseq = trans[n].cseq
      /\ t.queued = trans[n].queued /\ t.code # 200
  BY <1>1 DEF Transactions
<1> HIDE DEF t
<1>3. Sound(dialog, ts)
  BY <1>1, <1>2, ChangeKeeps, OfTransactions
<1>4. n \in 1..Len(ts) /\ ts[n] = t
  BY <1>1, <1>2, OfTransactions
<1>5. Become(r) /\ UNCHANGED isServer
  BY DEF TransactionEnds, t
<1> HIDE DEF ts
<1>6. Updated(dialog, ts, n, FALSE, r)
  BY <1>2, <1>3, <1>4, UpdateKeeps, OfTransactions
<1> HIDE DEF r
<1>7. Sound(r.d, r.ts) /\ Served(r.d)
  BY <1>2, <1>4, <1>6 DEF Updated
<1> QED
  BY <1>5, <1>7, ResultKeeps

LEMMA HandleAckKeeps ==
    ASSUME IInv, NEW n \in DOMAIN trans, belle_sip_dialog_handle_ack(n)
    PROVE  IInv'
<1>1. dialog' = [dialog EXCEPT !.needsAck = FALSE, !.okTimers = FALSE, !.deferred = TRUE]
      /\ UNCHANGED <<isServer, trans>>
  BY OfTransactions
     DEF belle_sip_dialog_handle_ack, belle_sip_dialog_process_queue, Dialogs
<1>2. /\ dialog' \in Dialogs /\ dialog'.queue = dialog.queue /\ dialog'.ended = dialog.ended
      /\ dialog'.last = dialog.last /\ dialog'.state = dialog.state
      /\ dialog'.localCseq = dialog.localCseq /\ dialog'.okTimers = FALSE
      /\ dialog'.deferred = TRUE /\ dialog.localCseq \in Nat
  BY <1>1, OfTransactions DEF Dialogs
<1>3. dialog.last \in 0..Len(trans) /\ (dialog.last # 0 => trans[dialog.last].st # "INIT")
  BY OfTransactions DEF Sound, FieldsOK, QueueOK
<1>4. Sound(dialog', trans)
  BY <1>2, <1>3, FieldsKeep, OfTransactions
<1>5. Served(dialog')
  BY <1>2 DEF Served
<1> QED
  BY <1>1, <1>4, <1>5, ServedIsAwake DEF IInv

LEMMA DeletesKeeps ==
    ASSUME IInv, ApplicationDeletes
    PROVE  IInv'
<1> DEFINE r == Deleted(dialog, trans)
<1>1. Become(r) /\ UNCHANGED isServer /\ dialog.state # "TERMINATED"
  BY DEF ApplicationDeletes
<1>2. Sound(r.d, r.ts) /\ r.d.queue = <<>>
  BY <1>1, DeletedKeeps, OfTransactions
<1> HIDE DEF r
<1> QED
  BY <1>1, <1>2, ResultKeeps DEF Served

LEMMA OkEndKeeps ==
    ASSUME IInv, dialog_on_200Ok_end
    PROVE  IInv'
<1> DEFINE d == [dialog EXCEPT !.okTimers = FALSE, !.state = "CONFIRMED"]
           r == SendNew(d, trans, "BYE")
<1>1. Become(r) /\ UNCHANGED isServer /\ dialog.state = "CONFIRMED"
  BY OfTransactions DEF dialog_on_200Ok_end, Sound, FieldsOK
<1>2. /\ d \in Dialogs /\ d.queue = dialog.queue /\ d.ended = dialog.ended
      /\ d.last = dialog.last /\ d.state = dialog.state
      /\ d.localCseq = dialog.localCseq /\ d.okTimers = FALSE
      /\ dialog.localCseq \in Nat
  BY <1>1, OfTransactions DEF Dialogs
<1> HIDE DEF d
<1>3. dialog.last \in 0..Len(trans) /\ (dialog.last # 0 => trans[dialog.last].st # "INIT")
  BY OfTransactions DEF Sound, FieldsOK, QueueOK
<1>4. Sound(d, trans)
  BY <1>2, <1>3, FieldsKeep, OfTransactions
<1>5. Sound(r.d, r.ts) /\ Served(r.d)
  BY <1>4, SendNewKeeps, OfTransactions
<1> HIDE DEF r
<1> QED
  BY <1>1, <1>5, ResultKeeps

LEMMA ProcessQueueKeeps ==
    ASSUME IInv, _belle_sip_dialog_process_queue
    PROVE  IInv'
<1> DEFINE d == [dialog EXCEPT !.deferred = FALSE]
<1>1. /\ d \in Dialogs /\ d.queue = dialog.queue /\ d.ended = dialog.ended
      /\ d.last = dialog.last /\ d.state = dialog.state /\ d.needsAck = dialog.needsAck
      /\ d.localCseq = dialog.localCseq /\ d.okTimers = dialog.okTimers
      /\ dialog.localCseq \in Nat
  BY OfTransactions DEF Dialogs
<1>2. dialog.last \in 0..Len(trans) /\ (dialog.last # 0 => trans[dialog.last].st # "INIT")
      /\ (dialog.queue # <<>> => dialog.state \in {"EARLY", "CONFIRMED"})
  BY OfTransactions DEF Sound, FieldsOK, QueueOK
<1> DEFINE wait == \/ d.state = "TERMINATED" \/ belle_sip_dialog_request_pending(d, trans)
                   \/ d.needsAck \/ d.queue = <<>>
<1>3. isServer' = isServer /\ IF wait THEN dialog' = d /\ trans' = trans
                             ELSE Become(SendQueued([d EXCEPT !.queue = Tail(@)], trans, Head(d.queue)))
  BY DEF _belle_sip_dialog_process_queue
<1> HIDE DEF d
<1>4. Sound(d, trans)
  BY <1>1, <1>2, FieldsKeep, OfTransactions
<1>5. CASE wait
  <2>1. dialog' = d /\ trans' = trans /\ isServer' = isServer
    BY <1>3, <1>5
  <2>2. d.queue = <<>> \/ d.needsAck \/ \E i \in DOMAIN trans : trans[i].st = "BUSY"
    <3>1. CASE d.state = "TERMINATED"
      BY <1>1, <1>2, <3>1
    <3>2. CASE belle_sip_dialog_request_pending(d, trans)
      <4>1. d.last \in 1..Len(trans) /\ trans[d.last].st = "BUSY"
        BY <1>1, <1>2, <3>2, OfTransactions DEF belle_sip_dialog_request_pending
      <4> QED
        BY <4>1, OfTransactions
    <3> QED
      BY <1>5, <3>1, <3>2
  <2>3. NoLostWakeup'
    BY <2>1, <2>2 DEF NoLostWakeup
  <2> QED
    BY <1>4, <2>1, <2>3 DEF IInv
<1>6. CASE ~wait
  <2> DEFINE r == SendQueued([d EXCEPT !.queue = Tail(@)], trans, Head(d.queue))
  <2>1. Become(r) /\ UNCHANGED isServer /\ d.queue # <<>>
    BY <1>3, <1>6
  <2>2. Sound(r.d, r.ts) /\ Served(r.d)
    BY <1>4, <2>1, SendQueuedKeeps, OfTransactions
  <2> HIDE DEF r
  <2> QED
    BY <2>1, <2>2, ResultKeeps
<1> QED
  BY <1>5, <1>6

LEMMA SendRequestKeeps ==
    ASSUME IInv, NEW m \in Methods, SendRequest(m)
    PROVE  IInv'
<1> DEFINE r == SendNew(dialog, trans, m)
<1>1. Become(r) /\ UNCHANGED isServer
  BY DEF SendRequest
<1>2. Sound(r.d, r.ts) /\ Served(r.d)
  <2>1. m \in {"INVITE", "BYE", "INFO", "UPDATE"}
    BY TypesOfMethods
  <2> QED
    BY <2>1, SendNewKeeps, OfTransactions
<1> HIDE DEF r
<1> QED
  BY <1>1, <1>2, ResultKeeps

\* The application is given the response, and may ACK it: the rest of the handler.
LEMMA NotifyKeeps ==
    ASSUME IInv, NEW n \in 1..Len(trans), NEW ts, NEW r, Sound(dialog, ts), Len(ts) = Len(trans),
           ts[n].st # "INIT", ts[n].method = "INVITE" /\ ts[n].code = 200 => ts[n].st # "BUSY",
           Updated(dialog, ts, n, FALSE, r), ~r.again, UNCHANGED isServer,
           \/ /\ ts[n].code = 200 /\ ts[n].method = "INVITE"
              /\ Become([r EXCEPT !.d = belle_sip_dialog_send_ack(@),
                                  !.ts[n].acks = @ + 1])
           \/ belle_sip_dialog_check_ack_sent(r)
           \/ Become(r),
           r = [d |-> r.d, ts |-> r.ts, again |-> r.again]
    PROVE  IInv'
<1>1. Sound(r.d, r.ts) /\ Served(r.d) /\ r.ts[n] = ts[n] /\ Len(r.ts) = Len(ts)
  BY DEF Updated
<1>2. CASE Become(r)
  BY <1>1, <1>2, ResultKeeps
<1>3. CASE belle_sip_dialog_check_ack_sent(r)
  <2>1. CASE r.d.needsAck
    <3> DEFINE x == SendNew(r.d, r.ts, "BYE")
    <3>1. Become(x)
      BY <1>3, <2>1 DEF belle_sip_dialog_check_ack_sent
    <3>2. Sound(x.d, x.ts) /\ Served(x.d)
      BY <1>1, SendNewKeeps, OfTransactions
    <3> HIDE DEF x
    <3> QED
      BY <3>1, <3>2, ResultKeeps
  <2>2. CASE ~r.d.needsAck
    BY <1>2, <1>3, <2>2 DEF belle_sip_dialog_check_ack_sent
  <2> QED
    BY <2>1, <2>2
<1>4. CASE /\ ts[n].code = 200 /\ ts[n].method = "INVITE"
           /\ Become([r EXCEPT !.d = belle_sip_dialog_send_ack(@),
                               !.ts[n].acks = @ + 1])
  <2> DEFINE t == [r.ts[n] EXCEPT !.acks = r.ts[n].acks + 1]
             us == [r.ts EXCEPT ![n] = t]
             e == belle_sip_dialog_send_ack(r.d)
  <2>1. dialog' = e /\ trans' = us
    <3> DEFINE s == [r EXCEPT !.d = belle_sip_dialog_send_ack(@), !.ts[n].acks = @ + 1]
    <3>1. PICK x, y, g : r = [d |-> x, ts |-> y, again |-> g]
      BY <1>1, Zenon
    <3>2. s.d = e /\ s.ts = us
      BY <3>1
    <3>3. Become(s)
      BY <1>4, Zenon
    <3> HIDE DEF s, us, e
    <3> QED
      BY <3>2, <3>3 DEF Become
  <2>2. /\ r.d \in Dialogs /\ r.d.last \in 0..Len(r.ts) /\ r.d.localCseq \in Nat
        /\ (r.d.last # 0 => r.ts[r.d.last].st # "INIT")
        /\ r.ts[n] \in Transactions /\ n \in 1..Len(r.ts) /\ r.ts \in Seq(Transactions)
    BY <1>1, SMTT(30) DEF Sound, FieldsOK, QueueOK, Dialogs
  <2>3. /\ t \in Transactions /\ t.st = r.ts[n].st /\ t.cseq = r.ts[n].cseq
        /\ t.queued = r.ts[n].queued
    <3>1. PICK a \in Nat : a = r.ts[n].acks + 1
      BY <2>2 DEF Transactions
    <3> QED
      BY <2>2, <3>1 DEF Transactions
  <2>4. t.st \notin {"INIT", "BUSY"}
    BY <1>1, <1>4, <2>3
  <2> HIDE DEF t
  <2>5. Sound(r.d, us)
    BY <1>1, <2>2, <2>3, <2>4, ChangeKeeps
  <2>6. Len(us) = Len(r.ts) /\ \A i \in 1..Len(r.ts) : r.ts[i].st # "INIT" => us[i].st # "INIT"
    BY <2>2, <2>4
  <2> HIDE DEF us
  <2>7. e = [r.d EXCEPT !.needsAck = FALSE, !.lastOutAck = r.d.localCseq, !.deferred = TRUE]
    BY <2>2 DEF belle_sip_dialog_send_ack, belle_sip_dialog_process_queue, Dialogs
  <2> HIDE DEF e
  <2>8. /\ e \in Dialogs /\ e.queue = r.d.queue /\ e.ended = r.d.ended
        /\ e.last = r.d.last /\ e.state = r.d.state /\ e.localCseq = r.d.localCseq
        /\ e.okTimers = r.d.okTimers /\ e.deferred = TRUE
    BY <2>2, <2>7 DEF Dialogs
  <2>9. Sound(e, us)
    BY <2>2, <2>5, <2>6, <2>8, FieldsKeep
  <2>10. Sound(dialog, trans)' /\ Served(dialog')
    BY <2>1, <2>8, <2>9 DEF Served
  <2> QED
    BY <2>10, ServedIsAwake DEF IInv
<1> QED
  BY <1>2, <1>3, <1>4

\* A response that is taken for a retransmission: if it is none, the INVITE was ACKed early.
LEMMA AgainKeeps ==
    ASSUME IInv, NEW n \in 1..Len(trans), NEW t \in Transactions, NEW r,
           Sound(dialog, [trans EXCEPT ![n] = t]),
           /\ t.side = "client" /\ t.side = trans[n].side /\ t.method = trans[n].method
           /\ t.cseq = trans[n].cseq /\ t.acks = trans[n].acks,
           trans[n].st = "BUSY" \/ trans[n].st = "FINAL",
           Updated(dialog, [trans EXCEPT ![n] = t], n, FALSE, r), r.again, Become(r),
           UNCHANGED isServer
    PROVE  IInv'
<1> DEFINE ts == [trans EXCEPT ![n] = t]
<1>1. ts[n] = t /\ DOMAIN ts = DOMAIN trans /\ n \in DOMAIN trans
      /\ \A i \in DOMAIN trans : i # n => ts[i] = trans[i]
  BY OfTransactions
<1>2. /\ r.ts = ts /\ t.method = "INVITE" /\ t.code = 200 /\ dialog.lastOutAck = t.cseq
      /\ r.d.queue = dialog.queue /\ r.d.deferred = dialog.deferred
      /\ r.d.needsAck = dialog.needsAck /\ r.d.lastOutAck = dialog.lastOutAck
      /\ Sound(r.d, r.ts)
  BY <1>1 DEF Updated
<1> HIDE DEF ts
<1>3. dialog' = r.d /\ trans' = ts
  BY <1>2 DEF Become
<1>4. NoLostWakeup'
  <2>1. SUFFICES ASSUME dialog'.queue # <<>>, ~dialog'.needsAck,
                        \A i \in DOMAIN trans' : trans'[i].st # "BUSY", ~AckedEarly'
                 PROVE  dialog'.deferred
    BY DEF NoLostWakeup
  <2>2. t.acks # 0
    BY <1>1, <1>2, <1>3, <2>1 DEF AckedEarly
  <2>3. trans[n].st = "FINAL"
    BY <2>2, OfTransactions DEF Sound, FieldsOK
  <2>4. \A i \in DOMAIN trans : trans[i].st # "BUSY"
    BY <1>1, <1>3, <2>1, <2>3
  <2>5. ~AckedEarly
    <3>1. SUFFICES ASSUME NEW i \in DOMAIN trans, trans[i].side = "client",
                          trans[i].method = "INVITE", trans[i].acks = 0,
                          trans[i].cseq = dialog.lastOutAck
                   PROVE  FALSE
      BY DEF AckedEarly
    <3>2. i \in DOMAIN trans' /\ trans'[i].side = "client" /\ trans'[i].method = "INVITE"
          /\ trans'[i].acks = 0 /\ trans'[i].cseq = dialog'.lastOutAck
      BY <1>1, <1>2, <1>3, <3>1
    <3> QED
      BY <2>1, <3>2 DEF AckedEarly
  <2> QED
    BY <1>2, <1>3, <2>1, <2>4, <2>5 DEF IInv, NoLostWakeup
<1>5. Sound(dialog, trans)'
  BY <1>2, <1>3
<1> QED
  BY <1>4, <1>5 DEF IInv

LEMMA ReceiveResponseKeeps ==
    ASSUME IInv, NEW n \in DOMAIN trans, NEW c \in Codes, ReceiveResponse(n, c)
    PROVE  IInv'
<1> DEFINE t == [trans[n] EXCEPT !.code = c, !.st = IF c < 200 THEN "BUSY" ELSE "FINAL"]
           ts == [trans EXCEPT ![n] = t]
           r == belle_sip_dialog_update(dialog, ts, n, FALSE)
<1>1. /\ n \in 1..Len(trans) /\ trans[n] \in Transactions /\ trans[n].side = "client"
      /\ trans[n].st \in {"BUSY", "FINAL"}
      /\ trans[n].st = "FINAL" => c = 200
      /\ trans[n].st = "BUSY" => trans[n].acks = 0
  BY OfTransactions DEF ReceiveResponse, Sound, FieldsOK
<1>2. PICK st \in {"BUSY", "FINAL"} :
        st = (IF c < 200 THEN "BUSY" ELSE "FINAL") /\ (st = "BUSY" => c # 200)
  OBVIOUS
<1>3. /\ t \in Transactions /\ t.st = st /\ t.cseq = trans[n].cseq /\ t.queued = trans[n].queued
      /\ t.acks = trans[n].acks /\ t.code = c /\ t.method = trans[n].method
      /\ t.side = trans[n].side
  BY <1>1, <1>2 DEF Transactions
<1>4. isServer' = isServer
  BY DEF ReceiveResponse
<1>5. \/ r.again /\ Become(r)
      \/ /\ ~r.again /\ ts[n].code = 200 /\ ts[n].method = "INVITE"
         /\ Become([r EXCEPT !.d = belle_sip_dialog_send_ack(@),
                             !.ts[n].acks = @ + 1])
      \/ ~r.again /\ belle_sip_dialog_check_ack_sent(r)
      \/ ~r.again /\ Become(r)
  BY DEF ReceiveResponse, belle_sip_client_transaction_notify_response
<1> HIDE DEF t
<1>6. t.st # "INIT" /\ (t.st = "BUSY" => t.acks = 0 /\ t.code # 200)
  <2>1. st = "BUSY" => trans[n].st = "BUSY"
    BY <1>1, <1>2
  <2> QED
    BY <1>1, <1>2, <1>3, <2>1
<1>7. Sound(dialog, ts)
  <2>1. Sound(dialog, trans)
    BY OfTransactions
  <2> QED
    BY <1>1, <1>3, <1>6, <2>1, ChangeKeeps
<1>8. n \in 1..Len(ts) /\ ts[n] = t /\ Len(ts) = Len(trans)
  BY <1>1, <1>3, OfTransactions
<1>9. Updated(dialog, ts, n, FALSE, r)
  <2> HIDE DEF ts
  <2> QED
    BY <1>6, <1>7, <1>8, UpdateKeeps, OfTransactions
<1>10. r = [d |-> r.d, ts |-> r.ts, again |-> r.again]
  BY DEF belle_sip_dialog_update, Kept, Deleted, UpdateReinvite, UpdateBye
<1> HIDE DEF r
<1>11. CASE r.again /\ Become(r)
  <2>1. /\ t.side = "client" /\ t.side = trans[n].side /\ t.method = trans[n].method
        /\ t.cseq = trans[n].cseq /\ t.acks = trans[n].acks
    BY <1>1, <1>3
  <2>2. trans[n].st = "BUSY" \/ trans[n].st = "FINAL"
    BY <1>1
  <2>3. n \in 1..Len(trans) /\ t \in Transactions
    BY <1>1, <1>3
  <2> QED
    BY <1>4, <1>7, <1>9, <1>11, <2>1, <2>2, <2>3, AgainKeeps
<1>12. CASE ~(r.again /\ Become(r))
  <2>1. /\ ~r.again
        /\ \/ /\ ts[n].code = 200 /\ ts[n].method = "INVITE"
              /\ Become([r EXCEPT !.d = belle_sip_dialog_send_ack(@),
                                  !.ts[n].acks = @ + 1])
           \/ belle_sip_dialog_check_ack_sent(r)
           \/ Become(r)
    <3> HIDE DEF ts
    <3> QED
      BY <1>5, <1>12, Zenon
  <2> HIDE DEF ts
  <2>2. /\ ts[n].st # "INIT" /\ (ts[n].method = "INVITE" /\ ts[n].code = 200 => ts[n].st # "BUSY")
        /\ Len(ts) = Len(trans) /\ n \in 1..Len(trans)
    BY <1>1, <1>6, <1>8
  <2>3. UNCHANGED isServer
    BY <1>4
  <2> QED
    BY <1>7, <1>9, <1>10, <2>1, <2>2, <2>3, NotifyKeeps, Zenon
<1> QED
  BY <1>11, <1>12

-----------------------------------------------------------------------------
LEMMA InitSound == Init => IInv
<1> SUFFICES ASSUME Init PROVE IInv
  OBVIOUS
<1> DEFINE t == NewTransaction(IF isServer THEN "server" ELSE "client", "INVITE", 1)
<1>1. /\ t \in Transactions /\ t.st = "BUSY" /\ ~t.queued /\ t.code = 0 /\ t.acks = 0
  BY DEF NewTransaction, Transactions, Codes
<1> HIDE DEF t
<1>2. trans = <<t>> /\ isServer \in BOOLEAN
  BY DEF Init, t
<1>3. trans \in Seq(Transactions) /\ Len(trans) = 1 /\ trans[1] = t
  BY <1>1, <1>2
<1>4. PICK b \in BOOLEAN, l \in {0, 1} :
        dialog = [state |-> "NULL", needsAck |-> FALSE, last |-> l, localCseq |-> 0,
                  remoteCseq |-> 0, lastOutInvite |-> 0, lastOutAck |-> 0, okTimers |-> FALSE,
                  queue |-> <<>>, deferred |-> FALSE, ended |-> 0, terminateOnBye |-> b]
  <2>1. PICK b \in TerminateOnBye :
          dialog = [state |-> "NULL", needsAck |-> FALSE, last |-> IF isServer THEN 0 ELSE 1,
                    localCseq |-> 0, remoteCseq |-> 0, lastOutInvite |-> 0, lastOutAck |-> 0,
                    okTimers |-> FALSE, queue |-> <<>>, deferred |-> FALSE, ended |-> 0,
                    terminateOnBye |-> b]
    BY Zenon DEF Init
  <2>2. b \in BOOLEAN
    BY DialogAssumption
  <2>3. PICK l \in {0, 1} : l = IF isServer THEN 0 ELSE 1
    OBVIOUS
  <2> QED
    BY <2>1, <2>2, <2>3, Zenon
<1>5. <<>> \in Seq(Nat)
  OBVIOUS
<1>6. dialog \in Dialogs
  BY <1>4, <1>5 DEF Dialogs
<1>7. /\ dialog.state = "NULL" /\ dialog.last = l /\ dialog.queue = <<>> /\ dialog.ended = 0
      /\ dialog.okTimers = FALSE /\ Len(dialog.queue) = 0
  BY <1>4
<1>8. FieldsOK(dialog, trans)
  BY <1>1, <1>3, <1>6, <1>7 DEF FieldsOK
<1>9. QueueOK(dialog, trans)
  BY <1>1, <1>3, <1>7 DEF QueueOK
<1>10. NumbersOK(dialog, trans)
  BY <1>1, <1>3, <1>7 DEF NumbersOK
<1>11. NoLostWakeup
  BY <1>7 DEF NoLostWakeup
<1> QED
  BY <1>2, <1>8, <1>9, <1>10, <1>11 DEF IInv, Sound

LEMMA StepKeeps == IInv /\ [Next]_vars => IInv'
<1> SUFFICES ASSUME IInv, [Next]_vars PROVE IInv'
  OBVIOUS
<1>1. ASSUME NEW m \in Methods, SendRequest(m) PROVE IInv'
  BY <1>1, SendRequestKeeps
<1>2. ASSUME NEW m \in Methods, SendQueuedRequest(m) PROVE IInv'
  BY <1>2, SendQueuedRequestKeeps
<1>3. ASSUME NEW n \in DOMAIN trans, NEW c \in Codes, Respond(n, c) PROVE IInv'
  BY <1>3, RespondKeeps
<1>4. ASSUME NEW n \in DOMAIN trans, NEW c \in Codes, ReceiveResponse(n, c) PROVE IInv'
  BY <1>4, ReceiveResponseKeeps
<1>5. ASSUME NEW n \in DOMAIN trans, TransactionEnds(n) PROVE IInv'
  BY <1>5, TransactionEndsKeeps
<1>6. ASSUME NEW n \in DOMAIN trans, belle_sip_dialog_handle_ack(n) PROVE IInv'
  BY <1>6, HandleAckKeeps
<1>7. ASSUME NEW m \in PeerMethods, NEW c \in 1..MaxPeerCseq, ReceiveRequest(m, c) PROVE IInv'
  BY <1>7, ReceiveRequestKeeps
<1>8. CASE ApplicationDeletes
  BY <1>8, DeletesKeeps
<1>9. CASE dialog_on_200Ok_end
  BY <1>9, OkEndKeeps
<1>10. CASE _belle_sip_dialog_process_queue
  BY <1>10, ProcessQueueKeeps
<1>11. CASE UNCHANGED vars
  <2>1. dialog' = dialog /\ trans' = trans /\ isServer' = isServer
    BY <1>11 DEF vars
  <2>2. NoLostWakeup'
    BY <2>1 DEF IInv, NoLostWakeup, AckedEarly
  <2> QED
    BY <2>1, <2>2 DEF IInv
<1> QED
  BY <1>1, <1>2, <1>3, <1>4, <1>5, <1>6, <1>7, <1>8, <1>9, <1>10, <1>11 DEF Next

\* The inductive invariant.
LEMMA DialogInvariant == Spec => []IInv
BY InitSound, StepKeeps, PTL DEF Spec

\* Dialog and transactions keep their types, whatever both sides send and in whatever order:
\* last_transaction is one of the dialog, and the queue has those that were not sent.
THEOREM TypeCorrect == Spec => []TypeOK
<1>1. IInv => TypeOK
  BY DEF IInv, Sound, FieldsOK, QueueOK, TypeOK
<1> QED
  BY <1>1, DialogInvariant, PTL

\* The queue of requests is served in the order the application filled it
\* (belle_sip_dialog_create_queued_request(), _belle_sip_dialog_process_queue()).
THEOREM QueueInOrderHolds == Spec => []QueueInOrder
<1>1. IInv => QueueInOrder
  <2> SUFFICES ASSUME IInv PROVE QueueInOrder
    OBVIOUS
  <2>1. DOMAIN trans = 1..Len(trans)
    BY OfTransactions
  <2> QED
    BY <2>1 DEF IInv, Sound, NumbersOK, QueueInOrder
<1> QED
  BY <1>1, DialogInvariant, PTL

\* Every event that frees the dialog puts off a call that serves the queue, but for the 2xx of an
\* INVITE that was ACKed early (belle_sip_dialog_update(), belle_sip_dialog_process_queue()).
THEOREM NoLostWakeupHolds == Spec => []NoLostWakeup
<1>1. IInv => NoLostWakeup
  BY DEF IInv
<1> QED
  BY <1>1, DialogInvariant, PTL

\* However calls end (BYE, error, missing ACK, application), a dialog is deleted once, and its
\* timers have been stopped (belle_sip_dialog_delete(), belle_sip_dialog_stop_200Ok_retrans()).
THEOREM DeletedOnceHolds == Spec => []DeletedOnce
<1>1. IInv => DeletedOnce
  BY DEF IInv, Sound, FieldsOK, DeletedOnce
<1> QED
  BY <1>1, DialogInvariant, PTL
=============================================================================
