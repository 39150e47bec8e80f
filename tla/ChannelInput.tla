---------------------------- MODULE ChannelInput ----------------------------
(***************************************************************************)
(* The receiving half of a channel (channel.c): what recv() returns is     *)
(* added to the buffer of the input stream, messages are cut out of it,    *)
(* their bodies go to a body handler, and the finished ones to the         *)
(* listeners.                                                              *)
(*                                                                         *)
(* The peer sends items: messages, keep-alives (CRLF), junk.  An item is a *)
(* sequence of cells, each standing for some bytes: the two halves of a    *)
(* start line, CR, LF, header lines, the size of a chunk, a piece of body. *)
(* A stream may be cut between any two cells.                              *)
(***************************************************************************)
EXTENDS Integers, Sequences, FiniteSets, SequencesExt

CONSTANTS
    Streams,     \* the sequences of items a peer may send
    BUFF_SIZE    \* size of the buffer, in cells

\* An item.  declared: its Content-Length, Absent when there is none; typed: it has a
\* Content-Type; chunks: the sizes of its chunks when it has Transfer-Encoding: chunked, a
\* negative one does not parse; body: how many cells of body follow the headers.
Absent == -1
Item(kind, declared, typed, chunks, body) ==
    [kind |-> kind, declared |-> declared, typed |-> typed, chunks |-> chunks, body |-> body]

Sip(kind, n) == Item(kind, n, n > 0, <<>>, n)

IsMessage(item) == item.kind \in {"request", "response", "http"}
IsChunked(item) == item.chunks # <<>>

\* The cells of item number m of a stream.
Cell(kind, m, n) == [kind |-> kind, of |-> m, n |-> n]
CRLF(m) == <<Cell("cr", m, 0), Cell("lf", m, 0)>>
Body(m, first, n) == [i \in 1..n |-> Cell("body", m, first + i - 1)]
BodyOf(item, m) == Body(m, 1, IF IsChunked(item) THEN FoldLeft(+, 0, item.chunks) ELSE item.body)

StartAndHeaders(m) ==
    <<Cell("start1", m, 0), Cell("start2", m, 0)>> \o CRLF(m)
      \o <<Cell("headers", m, 0)>> \o CRLF(m) \o CRLF(m)

Chunk(m, first, n) == <<Cell("size", m, n)>> \o CRLF(m) \o Body(m, first, n) \o CRLF(m)

Chunks(item, m) ==
    LET first(i) == 1 + FoldLeft(+, 0, SubSeq(item.chunks, 1, i - 1))
    IN  FoldLeft(\o, <<>>, [i \in DOMAIN item.chunks |-> Chunk(m, first(i), item.chunks[i])])
          \o <<Cell("size", m, 0)>> \o CRLF(m) \o CRLF(m)

Cells(item, m) ==
    CASE item.kind = "crlf" -> CRLF(m)
      [] item.kind = "junk" -> <<Cell("junk", m, 0)>> \o CRLF(m)
      [] item.kind = "unparsable" -> StartAndHeaders(m)
      [] IsChunked(item) -> StartAndHeaders(m) \o Chunks(item, m)
      [] OTHER -> StartAndHeaders(m) \o Body(m, 1, item.body)
-----------------------------------------------------------------------------
\* The buffer.  st.off is read_ptr - buff, st.data what lies between read_ptr and write_ptr.
Is(data, i, kind) == i \in DOMAIN data /\ data[i].kind = kind
CrLfAt(data, i) == Is(data, i, "cr") /\ Is(data, i + 1, "lf")

\* strstr(): the first place of CRLF, or of CRLF CRLF; 0 for NULL.
Earliest(places) == IF places = {} THEN 0 ELSE CHOOSE i \in places : \A j \in places : i <= j
FindCrLf(data) == Earliest({i \in DOMAIN data : CrLfAt(data, i)})
FindEmptyLine(data) == Earliest({i \in DOMAIN data : CrLfAt(data, i) /\ CrLfAt(data, i + 2)})

get_buff_length(st) == BUFF_SIZE - (st.off + Len(st.data))

Rewind(st) == [st EXCEPT !.off = 0]

\* read_ptr moves n cells on.
Skip(st, n) == [st EXCEPT !.off = @ + n, !.data = SubSeq(@, n + 1, Len(@))]

Reset(st) ==
    [Rewind(st) EXCEPT !.state = "WAITING_MESSAGE_START", !.msg = 0, !.chuncked_mode = FALSE,
                       !.content_length = -1]

\* get_message_start_pos(): where the first start line is, 0 when there is none.  The last
\* character of the buffer is hidden while it looks, so the version at the end of a request
\* line must be followed by something; of a response it reads the version and the code.
get_message_start_pos(data, all) ==
    Earliest({i \in DOMAIN data :
             /\ Is(data, i, "start1") /\ Is(data, i + 1, "start2")
             /\ all[data[i].of].kind \in {"response", "http"} \/ i + 2 <= Len(data)})
-----------------------------------------------------------------------------
\* belle_sip_channel_message_ready(): the message joins incoming_messages.
message_ready(st) ==
    Reset([st EXCEPT !.incoming = Append(@, [of |-> st.msg, body |-> st.body])])

\* The body handler puts what it is given behind the bytes it already has: that of memory,
\* which check_body() sets up when no listener has chosen one, and that of a file alike.
memory_recv_chunk(body, chunk) == body \o chunk

\* belle_sip_body_handler_recv_chunk(); st.read is transfered_size.
recv_chunk(st, n) ==
    [st EXCEPT !.body = memory_recv_chunk(@, SubSeq(st.data, 1, n)), !.read = @ + n]

\* feed_body(): the body handler takes n cells.
feed_body(st, n) == Rewind(Skip(recv_chunk(st, n), n))

\* check_body(): whether a body is expected, with what that takes initialized.
ExpectsBody(item) ==
    IF item.kind = "http" THEN item.typed ELSE item.declared > 0

check_body(st, item) ==
    LET chunked == item.kind = "http" /\ item.typed /\ IsChunked(item)
    IN  [st EXCEPT !.content_length = IF chunked \/ item.declared = Absent THEN 0
                                      ELSE item.declared,
                   !.chuncked_mode = @ \/ chunked,
                   !.chunk_size = IF chunked THEN -1 ELSE @,
                   !.chunk_read_size = IF chunked THEN 0 ELSE @,
                   !.body = <<>>, !.read = 0]

Smaller(a, b) == IF a < b THEN a ELSE b

\* Mistake to detect: what is in the buffer is taken as body whatever the Content-Length.
acquire_body_simple_All(st, end_of_stream) ==
    LET fed == feed_body(st, Len(st.data))
    IN  IF end_of_stream \/ fed.read >= fed.content_length
        THEN [go |-> TRUE, st |-> message_ready(fed)]
        ELSE [go |-> FALSE, st |-> fed]

acquire_body_simple(st, end_of_stream) ==
    LET fed == IF st.read = 0 /\ st.data = <<>> THEN st
               ELSE feed_body(st, Smaller(st.content_length - st.read, Len(st.data)))
    IN  IF end_of_stream \/ fed.read >= fed.content_length
        THEN [go |-> TRUE, st |-> message_ready(fed)]
        ELSE [go |-> FALSE, st |-> fed]

\* while (strstr(read_ptr, CRLF) == read_ptr) read_ptr += 2
RECURSIVE SkipCrLf(_)
SkipCrLf(st) == IF CrLfAt(st.data, 1) THEN SkipCrLf(Skip(st, 2)) ELSE st

RECURSIVE acquire_chuncked_body(_)

\* What is in the buffer of the chunk that is read, then the next one.
ReadChunk(st) ==
    LET n == Smaller(Len(st.data), st.chunk_size - st.chunk_read_size)
        fed == IF n > 0 THEN [feed_body(st, n) EXCEPT !.chunk_read_size = @ + n] ELSE st
        over == [fed EXCEPT !.content_length = @ + fed.chunk_size, !.chunk_size = -1]
    IN  IF fed.chunk_size # fed.chunk_read_size THEN [go |-> FALSE, st |-> fed]
        ELSE IF over.data = <<>> THEN [go |-> FALSE, st |-> over]
        ELSE acquire_chuncked_body(over)

\* A line that does not begin with a number reads as 0, a last chunk.
acquire_chuncked_body(st) ==
    IF st.chunk_size # -1 THEN ReadChunk(st)
    ELSE LET at == SkipCrLf(st)
             line == FindCrLf(at.data)
             n == IF line > 1 /\ at.data[1].kind = "size" THEN at.data[1].n ELSE 0
         IN  CASE line = 0 -> [go |-> FALSE, st |-> at]
               [] line # 0 /\ n = 0 ->
                    [go |-> TRUE,
                     st |-> message_ready(Skip(at, Smaller(line + 3, Len(at.data))))]
               [] line # 0 /\ n < 0 -> [go |-> TRUE, st |-> Reset(at)]
               [] line # 0 /\ n > 0 ->
                    ReadChunk(Skip([at EXCEPT !.chunk_size = n, !.chunk_read_size = 0],
                                   line + 1))

acquire_body(st, end_of_stream) ==
    IF st.chuncked_mode THEN acquire_chuncked_body(st)
    ELSE acquire_body_simple(st, end_of_stream)
-----------------------------------------------------------------------------
\* WAITING_MESSAGE_START: nothing is done before there is a CRLF somewhere in the buffer or
\* the buffer is full; then all of it is thrown away if it holds no start of a message.
FindStart(st, all) ==
    LET n == Len(st.data)
        start == get_message_start_pos(st.data, all)
        look == n > 1 /\ (FindCrLf(st.data) # 0 \/ get_buff_length(st) <= 1)
    IN  CASE ~ look -> [go |-> FALSE, st |-> st]
          [] look /\ start = 0 -> [go |-> TRUE, st |-> Reset(Skip(st, n))]
          [] look /\ start # 0 ->
               [go |-> TRUE,
                st |-> [Skip(st, start - 1) EXCEPT !.state = "MESSAGE_AQUISITION"]]

\* MESSAGE_AQUISITION: once the empty line is there the headers are parsed.
ReadHeaders(st, all, end_of_stream) ==
    LET end == FindEmptyLine(st.data)
        rest == Skip(st, end + 3)
        item == all[st.data[1].of]
        checked == check_body([rest EXCEPT !.msg = st.data[1].of], item)
    IN  CASE end = 0 -> [go |-> FALSE, st |-> st]
          [] end # 0 /\ ~ IsMessage(item) ->
               [go |-> TRUE, st |-> [rest EXCEPT !.state = "WAITING_MESSAGE_START"]]
          [] end # 0 /\ IsMessage(item) /\ ~ ExpectsBody(item) ->
               [go |-> TRUE, st |-> message_ready(checked)]
          [] end # 0 /\ IsMessage(item) /\ ExpectsBody(item) ->
               acquire_body([checked EXCEPT !.state = "BODY_AQUISITION"], end_of_stream)

\* belle_sip_channel_parse_stream()
RECURSIVE parse_stream(_, _, _)
parse_stream(st, all, end_of_stream) ==
    IF st.data = <<>> THEN st
    ELSE LET turn == CASE st.state = "WAITING_MESSAGE_START" -> FindStart(st, all)
                       [] st.state = "MESSAGE_AQUISITION" -> ReadHeaders(st, all, end_of_stream)
                       [] st.state = "BODY_AQUISITION" -> acquire_body(st, end_of_stream)
         IN  IF turn.go THEN parse_stream(turn.st, all, end_of_stream) ELSE turn.st
-----------------------------------------------------------------------------
VARIABLES
    items,       \* what the peer sends
    datagram,    \* the channel is an UDP one: recv() gives one item
    coming,      \* the cells that are on their way
    arrived,     \* the items that were received to their last cell
    cut,         \* the items whose start line was received in two pieces
    input,       \* the input stream
    delivered,   \* what on_message() was given: [of, body] in order
    up           \* the channel is READY, and no more ERROR or DISCONNECTED

inputVars == <<items, datagram, coming, arrived, cut, input, delivered, up>>

InputInit(streams) ==
    /\ items \in streams
    /\ datagram \in IF \E m \in DOMAIN items : items[m].kind = "http" THEN {FALSE} ELSE BOOLEAN
    /\ coming = FoldLeft(\o, <<>>, [m \in DOMAIN items |-> Cells(items[m], m)])
    /\ arrived = {} /\ cut = {} /\ delivered = <<>> /\ up = TRUE
    /\ input = [off |-> 0, data |-> <<>>, state |-> "WAITING_MESSAGE_START", msg |-> 0,
                content_length |-> -1, chuncked_mode |-> FALSE, chunk_size |-> -1,
                chunk_read_size |-> 0, body |-> <<>>, read |-> 0, incoming |-> <<>>]

\* belle_sip_channel_process_stream(): notify_incoming_messages() gives the listeners what
\* was cut out of the buffer and forgets it.
process_stream(st, eos) ==
    LET parsed == parse_stream(st, items, eos)
    IN  /\ delivered' = delivered \o parsed.incoming
        /\ input' = [parsed EXCEPT !.incoming = <<>>]

\* belle_sip_channel_process_read_data() when recv() returns n cells.
ReceiveCells(n) ==
    LET got == SubSeq(coming, 1, n)
        Complete(m) == ~ \E i \in n + 1 .. Len(coming) : coming[i].of = m
    IN  /\ coming' = SubSeq(coming, n + 1, Len(coming))
        /\ arrived' = arrived \cup {m \in {got[i].of : i \in 1..n} : Complete(m)}
        /\ cut' = IF n = Len(coming) \/ coming[n].of # coming[n + 1].of THEN cut
                  ELSE LET rest == SelectSeq(coming', LAMBDA c : c.of = coming[n].of)
                       IN  IF Len(Cells(items[coming[n].of], coming[n].of)) - Len(rest) < 4
                           THEN cut \cup {coming[n].of} ELSE cut
        /\ process_stream([input EXCEPT !.data = @ \o got], FALSE)
        /\ UNCHANGED <<items, datagram, up>>

\* The room recv() is offered: one byte is kept for the terminating null.
Room == get_buff_length(input) - 1

ReceiveSome ==
    /\ up /\ ~ datagram
    /\ \E n \in 1 .. Smaller(Room, Len(coming)) : ReceiveCells(n)

\* A datagram is received whole (longer ones than the buffer are not modelled).
Datagram == SelectSeq(coming, LAMBDA c : c.of = coming[1].of)

ReceiveDatagram ==
    /\ up /\ datagram /\ coming # <<>>
    /\ Len(Datagram) <= Room
    /\ ReceiveCells(Len(Datagram))

LoseDatagram ==
    /\ up /\ datagram /\ coming # <<>>
    /\ coming' = SubSeq(coming, Len(Datagram) + 1, Len(coming))
    /\ UNCHANGED <<items, datagram, arrived, cut, input, delivered, up>>

\* recv() returns 0: the peer has closed the connection, or there was no room left.
EndOfStream ==
    /\ up /\ ~ datagram
    /\ coming = <<>> \/ Room <= 0
    /\ process_stream(input, TRUE)
    /\ up' = FALSE
    /\ UNCHANGED <<items, datagram, coming, arrived, cut>>

\* recv() fails: BELLE_SIP_CHANNEL_ERROR.
ReceiveError ==
    /\ up /\ up' = FALSE
    /\ UNCHANGED <<items, datagram, coming, arrived, cut, input, delivered>>

InputNext == ReceiveSome \/ ReceiveDatagram \/ LoseDatagram \/ EndOfStream \/ ReceiveError
-----------------------------------------------------------------------------
\* What the headers say of the body is what follows them.
WellFramed(item) ==
    CASE item.kind \in {"request", "response"} ->
           item.body = IF item.declared = Absent THEN 0 ELSE item.declared
      [] item.kind = "http" ->
           CASE IsChunked(item) -> item.typed /\ \A i \in DOMAIN item.chunks : item.chunks[i] > 0
             [] ~ IsChunked(item) /\ item.typed -> item.body = item.declared
             [] OTHER -> item.body = 0
      [] OTHER -> TRUE

\* What came before item m, back to the last message that was delivered, was well framed.
RECURSIVE Undisturbed(_)
Undisturbed(m) ==
    \/ m = 1
    \/ /\ WellFramed(items[m - 1]) /\ Undisturbed(m - 1)
       /\ \/ datagram \/ m \notin cut
          \/ IsMessage(items[m - 1]) /\ ~ IsChunked(items[m - 1])

\* A message that has arrived whole is given to the listeners, once, in the order of arrival
\* and with all of its own body and nothing else, however recv() cut the stream; unless the
\* stream lies about the length of a body, or a keep-alive, junk or the end of a chunked body
\* comes before a start line that is received in two pieces
\* (belle_sip_channel_parse_stream(), acquire_body_simple(), acquire_chuncked_body()).
ReceivedWhole ==
    /\ \A m \in arrived :
         IsMessage(items[m]) /\ WellFramed(items[m]) /\ Undisturbed(m) =>
           [of |-> m, body |-> BodyOf(items[m], m)] \in Range(delivered)
    /\ \A i, j \in DOMAIN delivered : i < j => delivered[i].of < delivered[j].of
=============================================================================
