--------------------------- MODULE ChannelOutput ---------------------------
(***************************************************************************)
(* The sending half of a channel (channel.c): the queue of messages, the   *)
(* message being sent, and what the socket made of it.                     *)
(*                                                                         *)
(* send() may take a message whole, take part of it or nothing and answer  *)
(* EWOULDBLOCK, or fail; so one call of channel_process_queue() has many   *)
(* possible results, and the operators below give the set of them.         *)
(***************************************************************************)
EXTENDS Integers, Sequences

CONSTANTS
    Messages,   \* the messages that are sent, each one once
    Big,        \* those whose body does not fit the 16 kB buffer and is sent in chunks
    TooLong,    \* those whose headers alone do not fit it, so that marshalling fails
    NoMessage   \* cur_out_message is NULL

ASSUME OutputAssumption ==
    /\ Big \subseteq Messages
    /\ TooLong \subseteq Messages \ Big
    /\ NoMessage \notin Messages

MaxCopies == 2   \* bound on the copies of one message that are told apart

\* accepted: the messages given to belle_sip_channel_queue_message() so far
\* queue:   outgoing_messages
\* cur:     cur_out_message; it is set exactly while out_state is not IDLE, and then
\*          ewouldblock_buffer holds bytes that wait for the socket
\* copies:  how many times each message went out completely
\* failed:  a send() failed in this call, and channel_set_state(ERROR) was called
\* Only properties read the rest:
\* popped:  messages taken from the queue in vain, without a send() (PopInVain)
\* broken:  messages whose send() failed
\* stuck:   some send() was held up or failed
Outputs == [accepted : SUBSET Messages, queue : Seq(Messages), cur : Messages \cup {NoMessage},
            copies : [Messages -> 0..MaxCopies], failed : BOOLEAN,
            popped : SUBSET Messages, broken : SUBSET Messages, stuck : BOOLEAN]

NoOutput == [accepted |-> {}, queue |-> <<>>, cur |-> NoMessage, copies |-> [m \in Messages |-> 0],
             failed |-> FALSE, popped |-> {}, broken |-> {}, stuck |-> FALSE]

channel_push_outgoing(o, m) == [o EXCEPT !.queue = Append(@, m), !.accepted = @ \cup {m}]

\* channel_pop_outgoing() in the condition of the loop of channel_process_queue(): the
\* message is popped before the state is looked at, so when the loop ends because the
\* channel is not READY or not IDLE any more, the popped message is given up.
PopInVain(o) ==
    IF o.queue = <<>> THEN o
    ELSE [o EXCEPT !.queue = Tail(@), !.popped = @ \cup {Head(o.queue)}]

Bump(n) == IF n < MaxCopies THEN n + 1 ELSE n

\* The message is on the wire: OUTPUT_STREAM_IDLE again.
Sent(o, m) == [o EXCEPT !.copies[m] = Bump(@), !.cur = NoMessage]

\* EWOULDBLOCK: handle_ewouldblock() keeps the bytes, out_state stays.
Blocked(o, m) == [o EXCEPT !.cur = m, !.stuck = TRUE]

\* A send() that fails: channel_set_state(ERROR), and the message is given up.
Failed(o, m) ==
    [o EXCEPT !.cur = NoMessage, !.failed = TRUE, !.broken = @ \cup {m}, !.stuck = TRUE]

\* send_message() of the first n messages of the queue, none of which is held up: each
\* goes out, or is given up because it cannot be marshalled.
SendFirst(o, n) ==
    LET gone == {o.queue[i] : i \in 1..n}
    IN  [o EXCEPT !.queue = SubSeq(@, n + 1, Len(@)), !.cur = NoMessage,
                  !.copies = [m \in Messages |-> IF m \in gone \ TooLong THEN Bump(@[m]) ELSE @[m]]]

\* The loop of channel_process_queue() on a channel that is READY and IDLE: all messages
\* are dealt with, or message n + 1 is held up or fails.
SendQueue(o) ==
    {SendFirst(o, Len(o.queue))} \cup
    UNION { LET p == SendFirst(o, n)
                m == Head(p.queue)
                q == [p EXCEPT !.queue = Tail(@)]
            IN  {PopInVain(Blocked(q, m)), PopInVain(Failed(q, m))}
            : n \in {k \in 0..(Len(o.queue) - 1) : o.queue[k + 1] \notin TooLong} }

\* _send_message() with bytes in ewouldblock_buffer. Once they are gone, a message whose
\* out_state is SENDING_BODY goes on with its body; for any other message out_state is
\* still SENDING_HEADERS, and it is sent again from its beginning.
ResumeSend(o) ==
    LET m == o.cur
        again == [Sent(o, m) EXCEPT !.queue = <<m>> \o @]
    IN  {PopInVain(o), PopInVain(Failed(o, m))}
          \cup (IF m \in Big THEN SendQueue(Sent(o, m)) ELSE SendQueue(again))

\* channel_process_queue(). After a failure the channel is not READY any more.
channel_process_queue(o) ==
    IF o.failed THEN {PopInVain(o)}
    ELSE IF o.cur = NoMessage THEN SendQueue(o) ELSE ResumeSend(o)

-----------------------------------------------------------------------------
OnTheWire(o) == {m \in Messages : o.copies[m] > 0}

\* Messages that need not be on the wire: they cannot be
\* marshalled, or, once a send() did not take the whole of its message, the sending failed
\* or they were popped in vain.
GivenUp(o) == TooLong \cup (IF o.stuck THEN o.broken \cup o.popped ELSE {})
=============================================================================
