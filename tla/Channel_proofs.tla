---------------------------- MODULE Channel_proofs ----------------------------
(***************************************************************************)
(* Theorems about Channel, for any messages, addresses and notices: a      *)
(* channel that is in use always has something under way, and one that is  *)
(* READY has sent what it was given, or given it up for a named reason.    *)
(*                                                                         *)
(* First what one call of channel_process_queue() can leave behind, then   *)
(* the steps of the handlers, then the callbacks.                          *)
(***************************************************************************)
EXTENDS Channel, TLAPS

\* Of a sending half: a send() failed, a message is held up, or everything was dealt with.
Flushed(o) == o.failed \/ o.cur # NoMessage \/ o.queue = <<>>

\* Where a message that was accepted is: on the wire, given up, held up, in the queue, or in
\* hand, which is the argument m.
Placed(o, m) ==
    \A a \in o.accepted :
        \/ o.copies[a] > 0 \/ a \in GivenUp(o) \/ a = o.cur \/ a = m
        \/ \E i \in 1..Len(o.queue) : o.queue[i] = a

\* The sending halves of a channel between two functions: every message is somewhere, and
\* what was held up or failed has made it stuck.
Sound == {o \in Outputs : /\ Placed(o, NoMessage)
                          /\ o.failed \/ o.cur # NoMessage => o.stuck}

\* The parts of the life of a channel that the handlers write have their types.
LifeOK ==
    /\ state \in States /\ addresses \in 0..MaxAddresses
    /\ connects \in Nat /\ notices \in Nat /\ inLoop \in BOOLEAN

\* What is under way in each state, as long as the channel can be handed out.
UnderWay ==
    /\ state = "RES_IN_PROGRESS" => resolving
    /\ state = "CONNECTING" => transport = "stream" /\ inLoop
    /\ state = "RETRY" => connects > 0
    /\ state = "ERROR" => notices > 0
    /\ state # "DISCONNECTED"

IInv == TypeOK /\ NoLimbo /\ FlushedWhenReady /\ output \in Sound

-----------------------------------------------------------------------------
(***************************************************************************)
(* The sending half.                                                       *)
(***************************************************************************)
LEMMA BumpType == \A n \in 0..MaxCopies : Bump(n) \in 0..MaxCopies /\ Bump(n) > 0
BY DEF Bump, MaxCopies

LEMMA SoundType == Sound \subseteq Outputs
BY DEF Sound

\* A sound sending half with nothing held up and nothing in its queue has placed all.
LEMMA PlacedAll ==
    ASSUME NEW o \in Sound, o.cur = NoMessage, o.queue = <<>>
    PROVE  o.accepted \subseteq OnTheWire(o) \cup GivenUp(o)
<1>1. o.accepted \subseteq Messages /\ Len(o.queue) = 0
  BY DEF Sound, Outputs
<1>2. \A a \in o.accepted : a # NoMessage
  BY <1>1, OutputAssumption
<1> QED
  BY <1>1, <1>2 DEF Sound, Placed, OnTheWire

\* The pop in the condition of the loop, which is in vain only once the socket was stuck,
\* gives up a message and does nothing else.
LEMMA PopKeeps ==
    ASSUME NEW o \in Sound, o.stuck
    PROVE  /\ PopInVain(o) \in Sound /\ PopInVain(o).cur = o.cur
           /\ PopInVain(o).failed = o.failed
<1>1. CASE o.queue = <<>>
  BY <1>1 DEF PopInVain
<1>2. CASE o.queue # <<>>
  <2>1. PICK q : q = Tail(o.queue)
    OBVIOUS
  <2>2. PICK x : x = o.popped \cup {Head(o.queue)}
    OBVIOUS
  <2>3. PopInVain(o) = [o EXCEPT !.queue = q, !.popped = x]
    BY <1>2, <2>1, <2>2 DEF PopInVain
  <2>4. o.queue \in Seq(Messages) /\ o.popped \subseteq Messages /\ o \in Outputs
    BY DEF Outputs, Sound
  <2>5. q \in Seq(Messages) /\ x \in SUBSET Messages
    <3>1. Head(o.queue) \in Messages /\ Tail(o.queue) \in Seq(Messages)
      BY <1>2, <2>4
    <3> QED
      BY <2>1, <2>2, <2>4, <3>1
  <2> DEFINE p == [o EXCEPT !.queue = q, !.popped = x]
  <2>6. /\ p \in Outputs /\ p.queue = q /\ p.popped = x /\ p.cur = o.cur /\ p.failed = o.failed
        /\ p.accepted = o.accepted /\ p.copies = o.copies /\ p.broken = o.broken
        /\ p.stuck = o.stuck
    BY <2>4, <2>5 DEF Outputs
  <2> HIDE DEF p
  <2>7. Placed(p, NoMessage)
    <3> SUFFICES ASSUME NEW a \in o.accepted
                 PROVE  \/ o.copies[a] > 0 \/ a \in GivenUp(p) \/ a = o.cur \/ a = NoMessage
                        \/ \E i \in 1..Len(q) : q[i] = a
      BY <2>6 DEF Placed
    <3>1. GivenUp(o) \cup {Head(o.queue)} \subseteq GivenUp(p)
      BY <2>2, <2>6 DEF GivenUp
    <3>2. CASE \E i \in 1..Len(o.queue) : o.queue[i] = a
      <4>1. PICK i \in 1..Len(o.queue) : o.queue[i] = a
        BY <3>2
      <4>2. CASE i = 1
        BY <1>2, <2>4, <3>1, <4>1, <4>2
      <4>3. CASE i # 1
        <5>1. i - 1 \in 1..Len(q) /\ q[i - 1] = o.queue[i]
          BY <1>2, <2>1, <2>4, <4>1, <4>3
        <5> QED
          BY <4>1, <5>1
      <4> QED
        BY <4>2, <4>3
    <3> QED
      BY <3>1, <3>2 DEF Sound, Placed
  <2> QED
    BY <2>3, <2>6, <2>7 DEF Sound, p
<1> QED
  BY <1>1, <1>2

\* The first n messages are out of the queue.
LEMMA SendFirstKeeps ==
    ASSUME NEW o \in Sound, o.cur = NoMessage, NEW n \in 0..Len(o.queue)
    PROVE  /\ SendFirst(o, n) \in Sound
           /\ SendFirst(o, n).queue = SubSeq(o.queue, n + 1, Len(o.queue))
           /\ SendFirst(o, n).cur = NoMessage /\ SendFirst(o, n).failed = o.failed
<1> DEFINE gone == {o.queue[i] : i \in 1..n}
<1>1. PICK q : q = SubSeq(o.queue, n + 1, Len(o.queue))
  OBVIOUS
<1>2. PICK c : c = [m \in Messages |-> IF m \in gone \ TooLong THEN Bump(o.copies[m]) ELSE o.copies[m]]
  OBVIOUS
<1>3. PICK p : p = [o EXCEPT !.queue = q, !.cur = NoMessage, !.copies = c]
  OBVIOUS
<1>4. SendFirst(o, n) = p
  BY <1>1, <1>2, <1>3 DEF SendFirst
<1>5. o \in Outputs /\ o.queue \in Seq(Messages) /\ Len(o.queue) \in Nat /\ o.accepted \subseteq Messages
  BY DEF Outputs, Sound
<1>6. q \in Seq(Messages)
  BY <1>1, <1>5
<1>7. \A m \in Messages : /\ o.copies[m] \in 0..MaxCopies
                          /\ Bump(o.copies[m]) \in 0..MaxCopies
                          /\ Bump(o.copies[m]) > 0
  <2>1. \A m \in Messages : o.copies[m] \in 0..MaxCopies
    BY <1>5 DEF Outputs
  <2> QED
    BY <2>1, BumpType, Zenon
<1>8. c \in [Messages -> 0..MaxCopies]
  BY <1>2, <1>7
<1>9. /\ p \in Outputs /\ p.queue = q /\ p.cur = NoMessage /\ p.copies = c /\ p.failed = o.failed
      /\ p.accepted = o.accepted /\ p.popped = o.popped /\ p.broken = o.broken
      /\ p.stuck = o.stuck
  BY <1>3, <1>5, <1>6, <1>8 DEF Outputs
<1>10. Placed(p, NoMessage)
  <2> SUFFICES ASSUME NEW a \in o.accepted
               PROVE  \/ c[a] > 0 \/ a \in GivenUp(o) \/ a = NoMessage
                      \/ \E i \in 1..Len(q) : q[i] = a
    BY <1>9 DEF Placed, GivenUp
  <2>1. a \in Messages
    BY <1>5
  <2>2. CASE o.copies[a] > 0
    BY <1>2, <1>7, <2>1, <2>2
  <2>3. CASE a \in gone
    <3>1. CASE a \in TooLong
      BY <3>1 DEF GivenUp
    <3>2. CASE a \notin TooLong
      BY <1>2, <1>7, <2>1, <2>3, <3>2
    <3> QED
      BY <3>1, <3>2
  <2>4. CASE a \notin gone /\ \E i \in 1..Len(o.queue) : o.queue[i] = a
    <3>1. PICK i \in 1..Len(o.queue) : o.queue[i] = a
      BY <2>4
    <3>2. i > n
      BY <2>4, <3>1
    <3>3. i - n \in 1..Len(q) /\ q[i - n] = o.queue[i]
      BY <1>1, <1>5, <3>1, <3>2
    <3> QED
      BY <3>1, <3>3
  <2> QED
    BY <2>2, <2>3, <2>4 DEF Sound, Placed
<1> QED
  BY <1>1, <1>4, <1>9, <1>10 DEF Sound

\* The message m, taken from the queue, is held up, or its send() fails.
LEMMA BlockedKeeps ==
    ASSUME NEW o \in Outputs, NEW m \in Messages, Placed(o, m), o.cur = NoMessage
    PROVE  /\ Blocked(o, m) \in Sound /\ Flushed(Blocked(o, m))
           /\ Blocked(o, m).cur = m /\ Blocked(o, m).stuck
<1>1. PICK p : p = [o EXCEPT !.cur = m, !.stuck = TRUE]
  OBVIOUS
<1>2. /\ p \in Outputs /\ p.cur = m /\ p.stuck /\ p.queue = o.queue /\ p.accepted = o.accepted
      /\ p.copies = o.copies /\ p.popped = o.popped /\ p.broken = o.broken
  BY <1>1 DEF Outputs
<1>3. GivenUp(o) \subseteq GivenUp(p)
  BY <1>2 DEF GivenUp
<1>4. Placed(p, NoMessage)
  BY <1>2, <1>3 DEF Placed
<1> QED
  BY <1>1, <1>2, <1>4, OutputAssumption DEF Blocked, Sound, Flushed

LEMMA FailedKeeps ==
    ASSUME NEW o \in Outputs, NEW m \in Messages, Placed(o, m), o.cur \in {m, NoMessage}
    PROVE  Failed(o, m) \in Sound /\ Failed(o, m).failed /\ Failed(o, m).stuck
<1>1. PICK x : x = o.broken \cup {m}
  OBVIOUS
<1>2. x \in SUBSET Messages
  BY <1>1 DEF Outputs
<1>3. PICK p : p = [o EXCEPT !.cur = NoMessage, !.failed = TRUE, !.broken = x, !.stuck = TRUE]
  OBVIOUS
<1>4. /\ p \in Outputs /\ p.cur = NoMessage /\ p.stuck /\ p.failed /\ p.queue = o.queue
      /\ p.accepted = o.accepted /\ p.copies = o.copies /\ p.popped = o.popped /\ p.broken = x
  BY <1>2, <1>3 DEF Outputs
<1>5. GivenUp(o) \cup {m} \subseteq GivenUp(p)
  BY <1>1, <1>4 DEF GivenUp
<1>6. Placed(p, NoMessage)
  BY <1>4, <1>5 DEF Placed
<1>7. Failed(o, m) = p
  BY <1>1, <1>3 DEF Failed
<1> QED
  BY <1>4, <1>6, <1>7 DEF Sound

LEMMA SentKeeps ==
    ASSUME NEW o \in Sound, o.cur \in Messages, ~o.failed
    PROVE  /\ Sent(o, o.cur) \in Sound /\ Sent(o, o.cur).cur = NoMessage
           /\ ~Sent(o, o.cur).failed /\ Sent(o, o.cur).queue = o.queue
<1> DEFINE m == o.cur
<1>1. PICK c : c = [o.copies EXCEPT ![m] = Bump(o.copies[m])]
  OBVIOUS
<1>2. c \in [Messages -> 0..MaxCopies] /\ c[m] > 0 /\ \A a \in Messages \ {m} : c[a] = o.copies[a]
  <2>1. o.copies \in [Messages -> 0..MaxCopies]
    BY DEF Outputs, Sound
  <2>2. Bump(o.copies[m]) \in 0..MaxCopies /\ Bump(o.copies[m]) > 0
    BY <2>1, BumpType
  <2> QED
    BY <1>1, <2>1, <2>2
<1>3. PICK p : p = [o EXCEPT !.copies = c, !.cur = NoMessage]
  OBVIOUS
<1>4. /\ p \in Outputs /\ p.cur = NoMessage /\ p.copies = c /\ p.failed = o.failed
      /\ p.queue = o.queue /\ p.accepted = o.accepted /\ p.popped = o.popped
      /\ p.broken = o.broken /\ p.stuck = o.stuck /\ o.accepted \subseteq Messages
  BY <1>2, <1>3 DEF Outputs, Sound
<1>5. Placed(p, NoMessage)
  <2>1. GivenUp(p) = GivenUp(o)
    BY <1>4 DEF GivenUp
  <2> SUFFICES ASSUME NEW a \in o.accepted
               PROVE  \/ c[a] > 0 \/ a \in GivenUp(o) \/ a = NoMessage
                      \/ \E i \in 1..Len(o.queue) : o.queue[i] = a
    BY <1>4, <2>1 DEF Placed
  <2>2. \/ o.copies[a] > 0 \/ a \in GivenUp(o) \/ a = m \/ a = NoMessage
        \/ \E i \in 1..Len(o.queue) : o.queue[i] = a
    BY DEF Sound, Placed
  <2> QED
    BY <1>2, <1>4, <2>2
<1>6. Sent(o, m) = p
  BY <1>1, <1>3 DEF Sent
<1>7. p \in Sound
  BY <1>4, <1>5 DEF Sound
<1> QED
  BY <1>4, <1>6, <1>7

\* All messages are dealt with, or one of them is held up or fails.
LEMMA SendQueueKeeps ==
    ASSUME NEW o \in Sound, o.cur = NoMessage, NEW r \in SendQueue(o)
    PROVE  r \in Sound /\ Flushed(r)
<1>1. o.queue \in Seq(Messages) /\ Len(o.queue) \in Nat
  BY DEF Outputs, Sound
<1>2. CASE r = SendFirst(o, Len(o.queue))
  <2>1. Len(o.queue) \in 0..Len(o.queue)
    BY <1>1
  <2>2. SubSeq(o.queue, Len(o.queue) + 1, Len(o.queue)) = <<>>
    BY <1>1
  <2> QED
    BY <1>2, <2>1, <2>2, SendFirstKeeps DEF Flushed
<1>3. ASSUME NEW n \in 0..(Len(o.queue) - 1),
             r = PopInVain(Blocked([SendFirst(o, n) EXCEPT !.queue = Tail(@)],
                                   Head(SendFirst(o, n).queue)))
             \/ r = PopInVain(Failed([SendFirst(o, n) EXCEPT !.queue = Tail(@)],
                                     Head(SendFirst(o, n).queue)))
      PROVE  r \in Sound /\ Flushed(r)
  <2> DEFINE p == SendFirst(o, n)
             q == [p EXCEPT !.queue = Tail(@)]
             m == Head(p.queue)
  <2>1. n \in 0..Len(o.queue) /\ n + 1 \in 1..Len(o.queue)
    BY <1>1
  <2>2. /\ p \in Sound /\ p.queue = SubSeq(o.queue, n + 1, Len(o.queue))
        /\ p.cur = NoMessage
    BY <2>1, SendFirstKeeps
  <2>3. p.queue \in Seq(Messages) /\ p.queue # <<>>
    <3>1. Len(SubSeq(o.queue, n + 1, Len(o.queue))) = Len(o.queue) - n
      BY <1>1, <2>1
    <3>2. Len(o.queue) - n > 0
      BY <1>1
    <3>3. p.queue \in Seq(Messages)
      BY <2>2 DEF Outputs, Sound
    <3>4. Len(p.queue) = Len(o.queue) - n
      BY <2>2, <3>1
    <3> HIDE DEF p
    <3>5. Len(p.queue) # 0
      BY <1>1, <3>2, <3>4
    <3> QED
      BY <3>3, <3>5
  <2> HIDE DEF p
  <2>4. m \in Messages /\ Tail(p.queue) \in Seq(Messages)
    BY <2>3
  <2>5. q \in Outputs /\ Placed(q, m) /\ q.cur = NoMessage
    <3>1. PICK t : t = Tail(p.queue)
      OBVIOUS
    <3>2. q = [p EXCEPT !.queue = t] /\ t \in Seq(Messages)
      BY <2>4, <3>1
    <3>3. /\ q \in Outputs /\ q.queue = t /\ q.cur = NoMessage /\ q.accepted = p.accepted
          /\ q.copies = p.copies /\ q.popped = p.popped /\ q.broken = p.broken
          /\ q.stuck = p.stuck
      BY <2>2, <3>2 DEF Outputs, Sound
    <3> HIDE DEF q
    <3>4. ASSUME NEW i \in 1..Len(p.queue)
          PROVE  p.queue[i] = m \/ \E j \in 1..Len(t) : t[j] = p.queue[i]
      <4>1. CASE i = 1
        BY <2>3, <4>1
      <4>2. CASE i # 1
        <5>1. i - 1 \in 1..Len(t) /\ t[i - 1] = p.queue[i]
          BY <2>3, <3>1, <4>2
        <5> QED
          BY <5>1
      <4> QED
        BY <4>1, <4>2
    <3> HIDE DEF m
    <3>5. GivenUp(q) = GivenUp(p)
      BY <3>3 DEF GivenUp
    <3>6. Placed(q, m)
      <4> SUFFICES ASSUME NEW a \in p.accepted
                   PROVE  \/ p.copies[a] > 0 \/ a \in GivenUp(p) \/ a = NoMessage \/ a = m
                          \/ \E j \in 1..Len(t) : t[j] = a
        BY <3>3, <3>5 DEF Placed
      <4>1. \/ p.copies[a] > 0 \/ a \in GivenUp(p) \/ a = p.cur \/ a = NoMessage
            \/ \E i \in 1..Len(p.queue) : p.queue[i] = a
        BY <2>2 DEF Sound, Placed
      <4> QED
        BY <2>2, <3>4, <4>1
    <3> QED
      BY <3>3, <3>6
  <2>6. r = PopInVain(Blocked(q, m)) \/ r = PopInVain(Failed(q, m))
    BY <1>3 DEF p
  <2> HIDE DEF q, m
  <2>7. /\ Blocked(q, m) \in Sound /\ Failed(q, m) \in Sound
        /\ Blocked(q, m).stuck /\ Failed(q, m).stuck
    BY <2>4, <2>5, BlockedKeeps, FailedKeeps
  <2>8. Blocked(q, m).cur = m /\ m # NoMessage /\ Failed(q, m).failed
    BY <2>4, <2>5, BlockedKeeps, FailedKeeps, OutputAssumption
  <2> QED
    BY <2>6, <2>7, <2>8, PopKeeps DEF Flushed
<1> QED
  BY <1>2, <1>3 DEF SendQueue

\* One call of channel_process_queue(), after which nothing is left that could be sent.
LEMMA ProcessQueueKeeps ==
    ASSUME NEW o \in Sound, NEW r \in channel_process_queue(o)
    PROVE  r \in Sound /\ Flushed(r)
<1>1. CASE o.failed
  <2>1. o.stuck
    BY <1>1 DEF Sound
  <2> QED
    BY <1>1, <2>1, PopKeeps DEF channel_process_queue, Flushed
<1>2. CASE ~o.failed /\ o.cur = NoMessage
  BY <1>2, SendQueueKeeps DEF channel_process_queue
<1>3. CASE ~o.failed /\ o.cur # NoMessage
  <2> DEFINE m == o.cur
             s == Sent(o, m)
             again == [s EXCEPT !.queue = <<m>> \o @]
  <2>1. m \in Messages /\ o.stuck /\ o \in Outputs /\ Placed(o, m)
    <3>1. m \in Messages /\ o.stuck /\ o \in Outputs /\ o.accepted \subseteq Messages
      BY <1>3 DEF Outputs, Sound
    <3> QED
      BY <3>1, OutputAssumption DEF Sound, Placed
  <2>2. s \in Sound /\ s.cur = NoMessage
    BY <1>3, <2>1, SentKeeps
  <2>3. again \in Sound /\ again.cur = NoMessage
    <3>1. PICK t : t = <<m>> \o s.queue
      OBVIOUS
    <3>2. s.queue \in Seq(Messages) /\ <<m>> \in Seq(Messages) /\ s \in Outputs
      BY <2>1, <2>2 DEF Outputs, Sound
    <3>3. /\ t \in Seq(Messages)
          /\ \A i \in 1..Len(s.queue) : i + 1 \in 1..Len(t) /\ t[i + 1] = s.queue[i]
      <4> HIDE DEF s
      <4> QED
        BY <2>1, <3>1, <3>2
    <3>4. again = [s EXCEPT !.queue = t]
      BY <3>1
    <3> HIDE DEF s
    <3>5. /\ again \in Outputs /\ again.queue = t /\ again.cur = NoMessage
          /\ again.accepted = s.accepted /\ again.copies = s.copies /\ again.popped = s.popped
          /\ again.broken = s.broken /\ again.stuck = s.stuck /\ again.failed = s.failed
      BY <2>2, <3>2, <3>3, <3>4 DEF Outputs
    <3> HIDE DEF again
    <3>6. Placed(again, NoMessage)
      BY <2>2, <3>3, <3>5 DEF Placed, Sound, GivenUp
    <3> QED
      BY <2>2, <3>5, <3>6 DEF Sound
  <2>4. r \in ResumeSend(o)
    BY <1>3 DEF channel_process_queue
  <2>5. \/ r = PopInVain(o) \/ r = PopInVain(Failed(o, m))
        \/ r \in SendQueue(s) \/ r \in SendQueue(again)
    BY <2>4 DEF ResumeSend
  <2> HIDE DEF s, again
  <2>6. CASE r = PopInVain(o)
    BY <1>3, <2>1, <2>6, PopKeeps DEF Flushed
  <2>7. CASE r = PopInVain(Failed(o, m))
    <3>1. Failed(o, m) \in Sound /\ Failed(o, m).failed /\ Failed(o, m).stuck
      BY <2>1, FailedKeeps
    <3> QED
      BY <2>7, <3>1, PopKeeps DEF Flushed
  <2>8. CASE r \in SendQueue(s)
    BY <2>2, <2>8, SendQueueKeeps
  <2>9. CASE r \in SendQueue(again)
    BY <2>3, <2>9, SendQueueKeeps
  <2> QED
    BY <2>5, <2>6, <2>7, <2>8, <2>9
<1> QED
  BY <1>1, <1>2, <1>3

LEMMA PushKeeps ==
    ASSUME NEW o \in Sound, NEW m \in Messages
    PROVE  /\ channel_push_outgoing(o, m) \in Sound
           /\ channel_push_outgoing(o, m).failed = o.failed
<1>1. PICK q : q = Append(o.queue, m)
  OBVIOUS
<1>2. PICK x : x = o.accepted \cup {m}
  OBVIOUS
<1>3. PICK p : p = [o EXCEPT !.queue = q, !.accepted = x]
  OBVIOUS
<1>4. o \in Outputs /\ o.queue \in Seq(Messages)
  BY DEF Outputs, Sound
<1>5. /\ q \in Seq(Messages) /\ x \in SUBSET Messages
      /\ Len(o.queue) + 1 \in 1..Len(q) /\ q[Len(o.queue) + 1] = m
      /\ \A i \in 1..Len(o.queue) : i \in 1..Len(q) /\ q[i] = o.queue[i]
  BY <1>1, <1>2, <1>4 DEF Outputs
<1>6. /\ p \in Outputs /\ p.queue = q /\ p.accepted = x /\ p.cur = o.cur /\ p.failed = o.failed
      /\ p.copies = o.copies /\ p.popped = o.popped /\ p.broken = o.broken /\ p.stuck = o.stuck
  BY <1>3, <1>4, <1>5 DEF Outputs
<1>7. GivenUp(p) = GivenUp(o)
  BY <1>6 DEF GivenUp
<1>8. Placed(p, NoMessage)
  <2> SUFFICES ASSUME NEW a \in x
               PROVE  \/ o.copies[a] > 0 \/ a \in GivenUp(o) \/ a = o.cur \/ a = NoMessage
                      \/ \E i \in 1..Len(q) : q[i] = a
    BY <1>6, <1>7 DEF Placed
  <2>1. CASE a = m
    BY <1>5, <2>1
  <2>2. CASE a \in o.accepted
    BY <1>5, <2>2 DEF Sound, Placed
  <2> QED
    BY <1>2, <2>1, <2>2
<1> QED
  BY <1>1, <1>2, <1>3, <1>6, <1>8 DEF channel_push_outgoing, Sound

\* belle_sip_channel_set_ready() processes the queue after its listeners.
LEMMA AfterReadyKeeps ==
    ASSUME NEW o \in Sound, NEW r \in UNION {channel_process_queue(p) : p \in AfterReady(o)}
    PROVE  r \in Sound /\ Flushed(r)
<1>1. PICK p \in AfterReady(o) : r \in channel_process_queue(p)
  OBVIOUS
<1>2. p \in Sound
  <2>1. CASE p = o
    BY <2>1
  <2>2. ASSUME NEW m \in Messages, p \in channel_process_queue(channel_push_outgoing(o, m))
        PROVE  p \in Sound
    <3>1. channel_push_outgoing(o, m) \in Sound
      BY PushKeeps
    <3> QED
      BY <2>2, <3>1, ProcessQueueKeeps
  <2> QED
    BY <2>1, <2>2 DEF AfterReady
<1> QED
  BY <1>1, <1>2, ProcessQueueKeeps

-----------------------------------------------------------------------------
(***************************************************************************)
(* The steps of the handlers.                                              *)
(***************************************************************************)
\* An error leads to the next address or to ERROR, and to a deferred call in both cases.
LEMMA HandleErrorKeeps ==
    ASSUME NEW st, NEW a \in 0..MaxAddresses, NEW conn \in Nat, NEW note \in Nat,
           NEW loop \in BOOLEAN, belle_sip_channel_handle_error(st, a, conn, note, loop)
    PROVE  LifeOK' /\ UnderWay' /\ state' # "READY"
<1>1. CASE st # "READY" /\ a > 1
  <2>1. a - 1 \in 0..MaxAddresses /\ conn + 1 \in Nat /\ conn + 1 > 0
    BY <1>1, ChannelAssumption
  <2> QED
    BY <1>1, <2>1 DEF belle_sip_channel_handle_error, LifeOK, UnderWay, States
<1>2. CASE ~(st # "READY" /\ a > 1)
  <2>1. note + 1 \in Nat /\ note + 1 > 0
    OBVIOUS
  <2> QED
    BY <1>2, <2>1 DEF belle_sip_channel_handle_error, LifeOK, UnderWay, States
<1> QED
  BY <1>1, <1>2

\* What is sent on a READY channel is sent, held up, or the end of it.
LEMMA SendResultKeeps ==
    ASSUME NEW results, \A o \in results : o \in Sound /\ Flushed(o),
           NEW a \in 0..MaxAddresses, NEW conn \in Nat, NEW note \in Nat, NEW loop \in BOOLEAN,
           SendResult(results, a, conn, note, loop)
    PROVE  LifeOK' /\ UnderWay' /\ output' \in Sound /\ ~output'.failed /\ FlushedWhenReady'
<1>1. PICK o \in results :
        /\ output' = [o EXCEPT !.failed = FALSE]
        /\ IF o.failed
             THEN belle_sip_channel_handle_error("READY", a, conn, note, loop)
             ELSE /\ state' = "READY"
                  /\ addresses' = a
                  /\ connects' = conn
                  /\ notices' = note
                  /\ inLoop' = loop
  BY DEF SendResult
<1>2. o \in Sound /\ Flushed(o)
  OBVIOUS
<1>3. output' \in Sound /\ ~output'.failed /\ output'.cur = o.cur /\ output'.queue = o.queue
  <2>1. PICK p : p = [o EXCEPT !.failed = FALSE]
    OBVIOUS
  <2>2. /\ p \in Outputs /\ ~p.failed /\ p.cur = o.cur /\ p.queue = o.queue /\ p.stuck = o.stuck
        /\ p.accepted = o.accepted /\ p.copies = o.copies /\ p.popped = o.popped
        /\ p.broken = o.broken
    BY <1>2, <2>1 DEF Outputs, Sound
  <2>3. p \in Sound
    BY <1>2, <2>2 DEF Sound, Placed, GivenUp
  <2> QED
    BY <1>1, <2>1, <2>2, <2>3
<1>4. CASE o.failed
  <2>1. LifeOK' /\ UnderWay' /\ state' # "READY"
    BY <1>1, <1>4, HandleErrorKeeps
  <2> QED
    BY <1>3, <2>1 DEF FlushedWhenReady
<1>5. CASE ~o.failed
  <2>1. LifeOK' /\ UnderWay'
    BY <1>1, <1>5 DEF LifeOK, UnderWay, States
  <2>2. output'.cur = NoMessage => output'.queue = <<>>
    BY <1>2, <1>3, <1>5 DEF Flushed
  <2> QED
    BY <1>3, <2>1, <2>2, PlacedAll DEF FlushedWhenReady
<1> QED
  BY <1>4, <1>5

\* A connection is under way, or made, or another attempt or the end is.
LEMMA ConnectKeeps ==
    ASSUME TypeOK, transport' = transport, NEW o \in Sound, ~o.failed,
           NEW a \in 0..MaxAddresses, NEW conn \in Nat, NEW note \in Nat,
           belle_sip_channel_connect(o, a, conn, note)
    PROVE  LifeOK' /\ UnderWay' /\ output' \in Sound /\ ~output'.failed /\ FlushedWhenReady'
<1>1. CASE /\ transport = "stream"
           /\ ~inLoop
           /\ state' = "CONNECTING"
           /\ inLoop' = TRUE
           /\ addresses' = a
           /\ connects' = conn
           /\ notices' = note
           /\ output' = o
  BY <1>1 DEF LifeOK, UnderWay, States, FlushedWhenReady
<1>2. CASE belle_sip_channel_handle_error("CONNECTING", a, conn, note, inLoop) /\ output' = o
  <2>1. inLoop \in BOOLEAN
    BY DEF TypeOK
  <2>2. LifeOK' /\ UnderWay' /\ state' # "READY"
    BY <1>2, <2>1, HandleErrorKeeps
  <2> QED
    BY <1>2, <2>2 DEF FlushedWhenReady
<1>3. CASE belle_sip_channel_set_ready(o, a, conn, note, FALSE)
  <2> DEFINE results == UNION {channel_process_queue(p) : p \in AfterReady(o)}
  <2>1. \A r \in results : r \in Sound /\ Flushed(r)
    BY AfterReadyKeeps
  <2>2. SendResult(results, a, conn, note, FALSE)
    BY <1>3 DEF belle_sip_channel_set_ready
  <2> HIDE DEF results
  <2> QED
    BY <2>1, <2>2, SendResultKeeps
<1> QED
  BY <1>1, <1>2, <1>3 DEF belle_sip_channel_connect

\* The resolver's answer, of one address at least or none.
LEMMA ResDoneKeeps ==
    ASSUME TypeOK, transport' = transport, NEW o \in Sound, ~o.failed,
           NEW n \in 0..MaxAddresses, channel_res_done(o, n)
    PROVE  /\ LifeOK' /\ UnderWay' /\ output' \in Sound /\ ~output'.failed /\ FlushedWhenReady'
           /\ resolving' = FALSE
<1>1. /\ connects \in Nat /\ notices \in Nat /\ inLoop \in BOOLEAN
      /\ addresses \in 0..MaxAddresses
  BY DEF TypeOK
<1>2. resolving' = FALSE
  BY DEF channel_res_done
<1>3. CASE n > 0
  <2>1. belle_sip_channel_connect(o, n, connects, notices)
    BY <1>3 DEF channel_res_done
  <2> QED
    BY <1>1, <1>2, <2>1, ConnectKeeps
<1>4. CASE ~(n > 0)
  <2>1. /\ belle_sip_channel_handle_error("RES_IN_PROGRESS", addresses, connects, notices, inLoop)
        /\ output' = o
    BY <1>4 DEF channel_res_done
  <2>2. LifeOK' /\ UnderWay' /\ state' # "READY"
    BY <1>1, <2>1, HandleErrorKeeps
  <2> QED
    BY <1>2, <2>1, <2>2 DEF FlushedWhenReady
<1> QED
  BY <1>3, <1>4

LEMMA PrepareKeeps ==
    ASSUME TypeOK, transport' = transport, NEW o \in Sound, ~o.failed,
           belle_sip_channel_prepare(o)
    PROVE  /\ LifeOK' /\ UnderWay' /\ output' \in Sound /\ ~output'.failed /\ FlushedWhenReady'
           /\ resolving' \in BOOLEAN
<1>1. CASE /\ state' = "RES_IN_PROGRESS"
           /\ resolving' = TRUE
           /\ output' = o
           /\ UNCHANGED <<addresses, connects, notices, inLoop>>
  BY <1>1 DEF TypeOK, LifeOK, UnderWay, States, FlushedWhenReady
<1>2. CASE channel_res_done(o, 1)
  <2>1. 1 \in 0..MaxAddresses
    BY ChannelAssumption
  <2> QED
    BY <1>2, <2>1, ResDoneKeeps
<1> QED
  BY <1>1, <1>2 DEF belle_sip_channel_prepare

-----------------------------------------------------------------------------
(***************************************************************************)
(* The invariant is inductive.                                             *)
(***************************************************************************)
\* A handler that leaves a channel with something under way keeps the invariant.
LEMMA HandlerKeeps ==
    ASSUME IInv, LifeOK', UnderWay', output' \in Sound, ~output'.failed, FlushedWhenReady',
           resolving' \in BOOLEAN, inactivity' \in BOOLEAN, listed' \in BOOLEAN,
           reported' \in BOOLEAN, timerF' \in [Registers -> {"running", "due", "fired"}],
           transport' = transport, alive' \in BOOLEAN
    PROVE  IInv'
<1>1. TypeOK'
  BY SoundType DEF IInv, TypeOK, LifeOK
<1>2. NoLimbo'
  BY DEF NoLimbo, UnderWay
<1> QED
  BY <1>1, <1>2 DEF IInv

\* The channel dies, and the listening point does not list it any more.
LEMMA DeathKeeps ==
    ASSUME IInv, channel_set_state_DISCONNECTED, inactivity' \in BOOLEAN,
           UNCHANGED <<transport, timerF, alive, output>>
    PROVE  IInv'
<1>1. TypeOK'
  BY DEF IInv, TypeOK, channel_set_state_DISCONNECTED, ReportDeath, States
<1>2. NoLimbo'
  BY DEF NoLimbo, channel_set_state_DISCONNECTED, ReportDeath
<1>3. FlushedWhenReady'
  BY DEF FlushedWhenReady, channel_set_state_DISCONNECTED
<1> QED
  BY <1>1, <1>2, <1>3 DEF IInv

LEMMA QueueMessageKeeps ==
    ASSUME IInv, NEW m \in Messages, belle_sip_channel_queue_message(m)
    PROVE  IInv'
<1> DEFINE o == channel_push_outgoing(output, m)
<1>1. /\ UNCHANGED <<transport, listed, reported, inactivity, timerF, alive>>
      /\ state \in {"INIT", "READY"} \/ state \notin {"INIT", "READY"}
  BY DEF belle_sip_channel_queue_message
<1>2. o \in Sound /\ ~o.failed
  BY PushKeeps DEF IInv, TypeOK
<1>3. /\ listed \in BOOLEAN /\ reported \in BOOLEAN /\ inactivity \in BOOLEAN /\ alive \in BOOLEAN
      /\ timerF \in [Registers -> {"running", "due", "fired"}] /\ resolving \in BOOLEAN
      /\ connects \in Nat /\ notices \in Nat /\ inLoop \in BOOLEAN
      /\ addresses \in 0..MaxAddresses /\ state \in States
  BY DEF IInv, TypeOK
<1>4. CASE state = "INIT"
  <2>1. belle_sip_channel_prepare(o)
    BY <1>4 DEF belle_sip_channel_queue_message
  <2> HIDE DEF o
  <2>2. /\ LifeOK' /\ UnderWay' /\ output' \in Sound /\ ~output'.failed /\ FlushedWhenReady'
        /\ resolving' \in BOOLEAN
    BY <1>1, <1>2, <2>1, PrepareKeeps DEF IInv
  <2> QED
    BY <1>1, <1>3, <2>2, HandlerKeeps
<1>5. CASE state = "READY"
  <2>1. /\ SendResult(channel_process_queue(o), addresses, connects, notices, inLoop)
        /\ UNCHANGED resolving
    BY <1>5 DEF belle_sip_channel_queue_message
  <2>2. \A r \in channel_process_queue(o) : r \in Sound /\ Flushed(r)
    BY <1>2, ProcessQueueKeeps
  <2> HIDE DEF o
  <2>3. LifeOK' /\ UnderWay' /\ output' \in Sound /\ ~output'.failed /\ FlushedWhenReady'
    BY <1>3, <2>1, <2>2, SendResultKeeps
  <2> QED
    BY <1>1, <1>3, <2>1, <2>3, HandlerKeeps
<1>6. CASE state \notin {"INIT", "READY"}
  <2>1. /\ output' = o
        /\ UNCHANGED <<state, addresses, connects, notices, inLoop, resolving>>
    BY <1>6 DEF belle_sip_channel_queue_message
  <2> HIDE DEF o
  <2>2. TypeOK' /\ output' \in Sound
    BY <1>1, <1>2, <1>3, <2>1, SoundType DEF IInv, TypeOK
  <2>3. NoLimbo' /\ FlushedWhenReady'
    BY <1>1, <1>6, <2>1 DEF IInv, NoLimbo, FlushedWhenReady
  <2> QED
    BY <2>2, <2>3 DEF IInv
<1> QED
  BY <1>1, <1>4, <1>5, <1>6

\* What a callback that says nothing of death leaves alone.
Others == UNCHANGED <<transport, listed, reported, inactivity, timerF, alive>>

LEMMA OthersKeep ==
    ASSUME IInv, Others, LifeOK', UnderWay', output' \in Sound, ~output'.failed,
           FlushedWhenReady', resolving' \in BOOLEAN
    PROVE  IInv'
<1>1. /\ inactivity' \in BOOLEAN /\ listed' \in BOOLEAN /\ reported' \in BOOLEAN
      /\ timerF' \in [Registers -> {"running", "due", "fired"}]
      /\ transport' = transport /\ alive' \in BOOLEAN
  BY DEF IInv, TypeOK, Others
<1> QED
  BY <1>1, HandlerKeeps

\* An error in a callback that does nothing else to the channel.
LEMMA ErrorKeeps ==
    ASSUME IInv, Others \/ (UNCHANGED <<transport, listed, reported, inactivity, alive>>
                            /\ timerF' \in [Registers -> {"running", "due", "fired"}]),
           UNCHANGED <<resolving, output>>, NEW st, NEW loop \in BOOLEAN,
           belle_sip_channel_handle_error(st, addresses, connects, notices, loop)
    PROVE  IInv'
<1>1. /\ connects \in Nat /\ notices \in Nat /\ addresses \in 0..MaxAddresses
      /\ inactivity' \in BOOLEAN /\ listed' \in BOOLEAN /\ reported' \in BOOLEAN
      /\ timerF' \in [Registers -> {"running", "due", "fired"}]
      /\ transport' = transport /\ alive' \in BOOLEAN /\ resolving' \in BOOLEAN
      /\ output' \in Sound /\ ~output'.failed
  BY DEF IInv, TypeOK, Others
<1>2. LifeOK' /\ UnderWay' /\ state' # "READY"
  BY <1>1, HandleErrorKeeps
<1>3. FlushedWhenReady'
  BY <1>2 DEF FlushedWhenReady
<1> QED
  BY <1>1, <1>2, <1>3, HandlerKeeps

LEMMA ReadyKeeps ==
    ASSUME IInv, Others, UNCHANGED resolving, NEW loop \in BOOLEAN,
           belle_sip_channel_set_ready(output, addresses, connects, notices, loop)
    PROVE  IInv'
<1> DEFINE results == UNION {channel_process_queue(p) : p \in AfterReady(output)}
<1>1. /\ connects \in Nat /\ notices \in Nat /\ addresses \in 0..MaxAddresses
      /\ resolving' \in BOOLEAN /\ output \in Sound
  BY DEF IInv, TypeOK
<1>2. \A r \in results : r \in Sound /\ Flushed(r)
  BY <1>1, AfterReadyKeeps
<1>3. SendResult(results, addresses, connects, notices, loop)
  BY DEF belle_sip_channel_set_ready
<1> HIDE DEF results
<1>4. LifeOK' /\ UnderWay' /\ output' \in Sound /\ ~output'.failed /\ FlushedWhenReady'
  BY <1>1, <1>2, <1>3, SendResultKeeps
<1> QED
  BY <1>1, <1>4, OthersKeep

LEMMA StepKeeps == IInv /\ [Next]_vars => IInv'
<1> SUFFICES ASSUME IInv, [Next]_vars PROVE IInv'
  OBVIOUS
<1> USE DEF Others
<1>0. /\ connects \in Nat /\ notices \in Nat /\ addresses \in 0..MaxAddresses
      /\ resolving \in BOOLEAN /\ output \in Sound /\ ~output.failed /\ TypeOK
      /\ inLoop \in BOOLEAN /\ state \in States
  BY DEF IInv, TypeOK
<1>1. CASE Prepare
  <2>1. Others /\ belle_sip_channel_prepare(output)
    BY <1>1 DEF Prepare
  <2>2. /\ LifeOK' /\ UnderWay' /\ output' \in Sound /\ ~output'.failed /\ FlushedWhenReady'
        /\ resolving' \in BOOLEAN
    BY <1>0, <2>1, PrepareKeeps
  <2> QED
    BY <2>1, <2>2, OthersKeep
<1>2. ASSUME NEW m \in Messages, belle_sip_channel_queue_message(m) PROVE IInv'
  BY <1>2, QueueMessageKeeps
<1>3. CASE ResolverAnswers
  <2>1. PICK n \in 0..MaxAddresses : Others /\ channel_res_done(output, n)
    BY <1>3 DEF ResolverAnswers
  <2>2. /\ LifeOK' /\ UnderWay' /\ output' \in Sound /\ ~output'.failed /\ FlushedWhenReady'
        /\ resolving' = FALSE
    BY <1>0, <2>1, ResDoneKeeps
  <2> QED
    BY <2>1, <2>2, OthersKeep
<1>4. CASE channel_connect_next
  <2>1. /\ Others /\ connects > 0 /\ resolving' = resolving
        /\ belle_sip_channel_connect(output, addresses, connects - 1, notices)
    BY <1>4 DEF channel_connect_next
  <2>2. connects - 1 \in Nat
    BY <1>0, <2>1
  <2>3. LifeOK' /\ UnderWay' /\ output' \in Sound /\ ~output'.failed /\ FlushedWhenReady'
    BY <1>0, <2>1, <2>2, ConnectKeeps
  <2> QED
    BY <1>0, <2>1, <2>3, OthersKeep
<1>5. CASE channel_invoke_state_listener_defered
  <2>1. TypeOK'
    <3>1. notices' \in Nat
      BY <1>0, <1>5 DEF channel_invoke_state_listener_defered
    <3>2. inLoop' \in BOOLEAN /\ listed' \in BOOLEAN /\ reported' \in BOOLEAN
      BY <1>0, <1>5, Zenon DEF TypeOK, channel_invoke_state_listener_defered, ReportDeath
    <3>3. UNCHANGED <<transport, state, addresses, resolving, connects, inactivity, timerF, alive,
                      output>>
      BY <1>5 DEF channel_invoke_state_listener_defered
    <3> QED
      BY <1>0, <3>1, <3>2, <3>3, SoundType DEF TypeOK
  <2>2. NoLimbo'
    BY <1>0, <1>5 DEF IInv, NoLimbo, channel_invoke_state_listener_defered, ReportDeath, Dead
  <2>3. FlushedWhenReady' /\ output' \in Sound
    BY <1>0, <1>5 DEF IInv, FlushedWhenReady, channel_invoke_state_listener_defered
  <2> QED
    BY <2>1, <2>2, <2>3 DEF IInv
<1>6. CASE StreamConnected
  <2>1. Others /\ UNCHANGED resolving
    BY <1>6 DEF StreamConnected
  <2>2. CASE belle_sip_channel_set_ready(output, addresses, connects, notices, TRUE)
    BY <2>1, <2>2, ReadyKeeps
  <2>3. CASE /\ belle_sip_channel_handle_error("CONNECTING", addresses, connects, notices, FALSE)
             /\ UNCHANGED output
    BY <2>1, <2>3, ErrorKeeps
  <2> QED
    BY <1>6, <2>2, <2>3 DEF StreamConnected
<1>7. CASE StreamWritable
  <2>1. /\ Others /\ UNCHANGED resolving
        /\ SendResult(channel_process_queue(output), addresses, connects, notices, inLoop)
    BY <1>7 DEF StreamWritable
  <2>2. \A r \in channel_process_queue(output) : r \in Sound /\ Flushed(r)
    BY <1>0, ProcessQueueKeeps
  <2>3. LifeOK' /\ UnderWay' /\ output' \in Sound /\ ~output'.failed /\ FlushedWhenReady'
    BY <1>0, <2>1, <2>2, SendResultKeeps
  <2> QED
    BY <1>0, <2>1, <2>3, OthersKeep
<1>8. CASE StreamReadFails
  <2>1. UNCHANGED <<transport, inactivity, timerF, alive, output>> /\ inactivity \in BOOLEAN
    BY <1>0, <1>8 DEF StreamReadFails, TypeOK
  <2>2. CASE channel_set_state_DISCONNECTED
    BY <2>1, <2>2, DeathKeeps
  <2>3. CASE /\ belle_sip_channel_handle_error("READY", addresses, connects, notices, FALSE)
             /\ UNCHANGED <<resolving, listed, reported>>
    BY <2>1, <2>3, ErrorKeeps
  <2> QED
    BY <1>8, <2>2, <2>3 DEF StreamReadFails
<1>9. CASE DatagramReadFails
  <2>1. UNCHANGED <<transport, inactivity, timerF, alive, output>> /\ inactivity \in BOOLEAN
    BY <1>0, <1>9 DEF DatagramReadFails, TypeOK
  <2>2. CASE channel_set_state_DISCONNECTED
    BY <2>1, <2>2, DeathKeeps
  <2>3. CASE /\ belle_sip_channel_handle_error(state, addresses, connects, notices, FALSE)
             /\ UNCHANGED <<resolving, listed, reported>>
    BY <2>1, <2>3, ErrorKeeps
  <2> QED
    BY <1>9, <2>2, <2>3 DEF DatagramReadFails
<1>10. CASE StreamEventIgnored
  <2>1. TypeOK'
    BY <1>0, <1>10 DEF TypeOK, StreamEventIgnored
  <2>2. NoLimbo' /\ FlushedWhenReady' /\ output' \in Sound
    BY <1>10 DEF IInv, NoLimbo, FlushedWhenReady, StreamEventIgnored
  <2> QED
    BY <2>1, <2>2 DEF IInv
<1>11. CASE KeepAliveFails
  <2>1. /\ Others /\ UNCHANGED <<resolving, output>>
        /\ belle_sip_channel_handle_error("READY", addresses, connects, notices, FALSE)
    BY <1>11 DEF KeepAliveFails
  <2> QED
    BY <2>1, ErrorKeeps
<1>12. CASE TimePasses
  <2>1. TypeOK'
    BY <1>0, <1>12 DEF TypeOK, TimePasses
  <2>2. NoLimbo' /\ FlushedWhenReady' /\ output' \in Sound
    BY <1>12 DEF IInv, NoLimbo, FlushedWhenReady, TimePasses
  <2> QED
    BY <2>1, <2>2 DEF IInv
<1>13. ASSUME NEW m \in Registers, belle_sip_channel_notify_timeout(m) PROVE IInv'
  <2>1. /\ UNCHANGED <<transport, resolving, listed, reported, inactivity, alive, output>>
        /\ timerF' = [timerF EXCEPT ![m] = "fired"]
        /\ belle_sip_channel_handle_error(state, addresses, connects, notices, inLoop)
    BY <1>13 DEF belle_sip_channel_notify_timeout
  <2>2. timerF' \in [Registers -> {"running", "due", "fired"}]
    BY <1>0, <2>1 DEF TypeOK
  <2> QED
    BY <1>0, <2>1, <2>2, ErrorKeeps
<1>14. CASE channel_inactive_timeout
  BY <1>14, DeathKeeps DEF channel_inactive_timeout
<1>15. CASE belle_sip_channel_force_close
  <2>1. /\ UNCHANGED <<transport, inactivity, timerF, alive, output>> /\ inactivity \in BOOLEAN
        /\ channel_set_state_DISCONNECTED
    BY <1>0, <1>15 DEF belle_sip_channel_force_close, TypeOK
  <2> QED
    BY <2>1, DeathKeeps
<1>16. CASE belle_sip_channel_destroy
  <2>1. TypeOK'
    BY <1>0, <1>16 DEF TypeOK, belle_sip_channel_destroy
  <2>2. NoLimbo' /\ FlushedWhenReady' /\ output' \in Sound
    BY <1>16 DEF IInv, NoLimbo, FlushedWhenReady, belle_sip_channel_destroy
  <2> QED
    BY <2>1, <2>2 DEF IInv
<1>17. CASE UNCHANGED vars
  <2>1. TypeOK'
    BY <1>0, <1>17 DEF TypeOK, vars, lifeVars
  <2>2. NoLimbo' /\ FlushedWhenReady' /\ output' \in Sound
    BY <1>17 DEF IInv, NoLimbo, FlushedWhenReady, vars, lifeVars
  <2> QED
    BY <2>1, <2>2 DEF IInv
<1> QED
  BY <1>1, <1>2, <1>3, <1>4, <1>5, <1>6, <1>7, <1>8, <1>9, <1>10, <1>11, <1>12, <1>13, <1>14,
     <1>15, <1>16, <1>17 DEF Next

LEMMA InitSound == Init => IInv
<1> SUFFICES ASSUME Init PROVE IInv
  OBVIOUS
<1>1. /\ NoOutput \in Outputs /\ ~NoOutput.failed /\ NoOutput.queue = <<>>
      /\ NoOutput.accepted = {} /\ NoOutput.cur = NoMessage
  <2>1. <<>> \in Seq(Messages)
    OBVIOUS
  <2>2. [m \in Messages |-> 0] \in [Messages -> 0..MaxCopies]
    BY DEF MaxCopies
  <2> QED
    BY <2>1, <2>2 DEF NoOutput, Outputs
<1>2. TypeOK
  <2>1. state \in States /\ addresses \in 0..MaxAddresses
    BY ChannelAssumption DEF Init, States
  <2>2. inLoop \in BOOLEAN
    BY Zenon DEF Init
  <2>3. timerF \in [Registers -> {"running", "due", "fired"}]
    BY DEF Init
  <2>4. /\ transport \in {"stream", "datagram"} /\ resolving \in BOOLEAN /\ connects \in Nat
        /\ notices \in Nat /\ inactivity \in BOOLEAN /\ listed \in BOOLEAN /\ reported \in BOOLEAN
        /\ alive \in BOOLEAN /\ output \in Outputs /\ ~output.failed
    BY <1>1 DEF Init
  <2> QED
    BY <2>1, <2>2, <2>3, <2>4 DEF TypeOK
<1>3. NoLimbo /\ FlushedWhenReady /\ output \in Sound
  BY <1>1 DEF Init, NoLimbo, FlushedWhenReady, Sound, Placed
<1> QED
  BY <1>2, <1>3 DEF IInv

\* The inductive invariant.
LEMMA ChannelInvariant == Spec => []IInv
BY InitSound, StepKeeps, PTL DEF Spec

\* The fields of a channel and its sending half keep their types, whatever its resolver, its socket,
\* its transactions and the application do to it (channel.c).
THEOREM TypeCorrect == Spec => []TypeOK
<1>1. IInv => TypeOK
  BY DEF IInv
<1> QED
  BY <1>1, ChannelInvariant, PTL

\* A channel that the listening point can hand out has a resolution, a connection or a deferred
\* call under way that will move it, unless it is READY or was not asked to do anything
\* (channel_prepare_continue(), belle_sip_channel_handle_error()).
THEOREM NoLimboHolds == Spec => []NoLimbo
<1>1. IInv => NoLimbo
  BY DEF IInv
<1> QED
  BY <1>1, ChannelInvariant, PTL

\* A READY channel that is not in the middle of a message has nothing in its queue, and every
\* message it was given is on the wire, but for those that GivenUp names (channel_process_queue(),
\* belle_sip_channel_set_ready()).
THEOREM FlushedWhenReadyHolds == Spec => []FlushedWhenReady
<1>1. IInv => FlushedWhenReady
  BY DEF IInv
<1> QED
  BY <1>1, ChannelInvariant, PTL

=============================================================================
