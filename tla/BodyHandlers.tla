---------------------------- MODULE BodyHandlers ----------------------------
(***************************************************************************)
(* A body that a handler gives piece by piece to the channel that sends it *)
(* (bodyhandler.c): from memory, from a file, from a callback of the       *)
(* application, or the parts of a multipart body with their separators and *)
(* headers.                                                                *)
(***************************************************************************)
EXTENDS Integers, Sequences, SequencesExt

CONSTANTS
    Bodies,      \* what is sent: [kind, parts], each part [bytes, headers]
    Buffers,     \* the room a channel may offer
    SEPARATOR,   \* length of MULTIPART_SEPARATOR
    END,         \* length of MULTIPART_END
    MaxTransfers \* bound on how often a body is sent

\* Every buffer holds a separator, the headers of a part, one byte of it and the end
\* (16 kB in the code); no part is empty.
ASSUME BodyAssumption ==
    /\ SEPARATOR \in Nat \ {0} /\ END \in Nat \ {0} /\ MaxTransfers \in Nat \ {0}
    /\ \A b \in Bodies :
         /\ b.kind \in {"memory", "file", "user", "multipart"}
         /\ b.kind # "multipart" => Len(b.parts) = 1 /\ b.parts[1].headers = 0
         /\ \A i \in DOMAIN b.parts : b.parts[i].bytes > 0
         /\ \A room \in Buffers, i \in DOMAIN b.parts :
              room >= SEPARATOR + b.parts[i].headers + 1 + END

\* Bytes first..first + n - 1 of something: a part, the headers of one, a separator, the end.
Bytes(what, of, first, n) ==
    [i \in 1..n |-> [what |-> what, of |-> of, at |-> first + i - 1]]

Separator(i) == Bytes("separator", i, 1, SEPARATOR)
PartHeaders(b, i) == Bytes("headers", i, 1, b.parts[i].headers)
Terminator == Bytes("end", 0, 1, END)

\* The text of a body, as Content-Length and the receiver understand it.
TextOf(b) ==
    IF b.kind # "multipart" THEN Bytes("part", 1, 1, b.parts[1].bytes)
    ELSE FoldLeft(\o, <<>>,
                  [i \in DOMAIN b.parts |-> Separator(i) \o PartHeaders(b, i)
                                              \o Bytes("part", i, 1, b.parts[i].bytes)])
           \o Terminator

\* expected_size, as belle_sip_multipart_body_handler_new() and _add_part() add it up.
expected_size(b) ==
    IF b.kind # "multipart" THEN b.parts[1].bytes
    ELSE FoldLeft(LAMBDA n, p : n + p.bytes + SEPARATOR + p.headers, END, b.parts)

Least(a, b) == IF a < b THEN a ELSE b

VARIABLES
    sending,      \* the body
    transfers,    \* how often its transfer began
    transfered,   \* its transfered_size
    current,      \* the first part of the list that is left, which is being sent
    given,        \* transfered_size of each part; a body that is not multipart is its own part
    outgoing,     \* the bytes the channel was given in this transfer
    overrun,      \* a chunk was longer than the room it was asked for
    ended         \* belle_sip_body_handler_send_chunk() answered BELLE_SIP_STOP

bodyVars == <<sending, transfers, transfered, current, given, outgoing, overrun, ended>>

\* A new body, whose first transfer begins.
BodyInit(bodies) ==
    /\ sending \in bodies
    /\ transfers = 1 /\ transfered = 0 /\ current = 1 /\ outgoing = <<>>
    /\ overrun = FALSE /\ ended = FALSE
    /\ given = [i \in DOMAIN sending.parts |-> 0]

\* The message is sent again: after a challenge, as a retransmission, or as the socket broke.
\* Neither the list of parts nor their sizes begin anew.
belle_sip_body_handler_begin_transfer ==
    /\ transfered > 0 /\ transfers < MaxTransfers
    /\ transfers' = transfers + 1 /\ transfered' = 0 /\ outgoing' = <<>> /\ ended' = FALSE
    /\ given' = IF sending.kind = "multipart" THEN given ELSE <<0>>
    /\ UNCHANGED <<sending, current, overrun>>

\* belle_sip_body_handler_send_chunk() of the whole body or of part i: the sub-handler gives
\* n bytes of those it is asked for, all of them but for the callback of the application.
AskedOf(i, room) == Least(room, sending.parts[i].bytes - given[i])
PartOver(i, n) == given[i] + n = sending.parts[i].bytes
PartBytes(i, n) == Bytes("part", i, given[i] + 1, n)

SendPlain(room) ==
    /\ sending.kind # "multipart"
    /\ \E n \in 1 .. AskedOf(1, room) :
         /\ sending.kind \in {"memory", "file"} => n = AskedOf(1, room)
         /\ outgoing' = outgoing \o PartBytes(1, n)
         /\ given' = [given EXCEPT ![1] = @ + n]
         /\ transfered' = transfered + n
         /\ ended' = PartOver(1, n)
    /\ UNCHANGED <<sending, transfers, current, overrun>>

\* What is left of the room for the current part once the end of the message has its place,
\* before the separator and the headers that open a part.
RoomForPart(room) == Least(room, expected_size(sending) - transfered) - END

\* belle_sip_multipart_body_handler_send_chunk()
SendMultipart(room) ==
    /\ sending.kind = "multipart"
    /\ LET opening == IF given[current] # 0 THEN <<>>
                      ELSE Separator(current) \o PartHeaders(sending, current)
           n == AskedOf(current, RoomForPart(room) - Len(opening))
           over == PartOver(current, n)
           last == current = Len(sending.parts)
           chunk == opening \o PartBytes(current, n) \o (IF over /\ last THEN Terminator ELSE <<>>)
       IN  /\ overrun' = (overrun \/ Len(chunk) > room)
           /\ outgoing' = outgoing \o chunk
           /\ given' = [given EXCEPT ![current] = @ + n]
           /\ current' = IF over /\ ~ last THEN current + 1 ELSE current
           /\ transfered' = transfered + Len(chunk)
           /\ ended' = (over /\ last)
    /\ UNCHANGED <<sending, transfers>>

\* _send_message() asks for chunks until the handler stops.
SendChunk == ~ ended /\ \E room \in Buffers : SendPlain(room) \/ SendMultipart(room)

BodyNext == SendChunk \/ belle_sip_body_handler_begin_transfer

\* A body goes out whole, in order and once, in as many bytes as Content-Length says, however
\* much room the channel has for each piece, and no piece is longer than its room
\* (belle_sip_multipart_body_handler_send_chunk(), belle_sip_multipart_body_handler_add_part()):
\* in every transfer, also after one that was broken off, but for a multipart body, which is
\* whole in its first transfer only (bodyhandler.c 94-96 and 416: the parts do not begin anew).
BodySentWhole ==
    /\ Len(TextOf(sending)) = expected_size(sending)
    /\ ~ overrun
    /\ transfers = 1 \/ sending.kind # "multipart" =>
         /\ IsPrefix(outgoing, TextOf(sending))
         /\ ended => outgoing = TextOf(sending) /\ transfered = expected_size(sending)
=============================================================================
