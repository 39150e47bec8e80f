-------------------------------- MODULE Wire --------------------------------
(***************************************************************************)
(* What goes on the wire: headers and SDP copied and printed               *)
(* (Marshalling), the payloads of a media description (Sdp), requests and  *)
(* responses made of headers (Messages), bodies sent piece by piece        *)
(* (BodyHandlers), messages cut out of what a channel receives             *)
(* (ChannelInput), the text of URIs (UriText), and the channels of         *)
(* listening points (ListeningPoints).  They share no state; a behaviour   *)
(* is about one of them.                                                   *)
(***************************************************************************)
EXTENDS Marshalling, Messages, BodyHandlers, ChannelInput, UriText, ListeningPoints

CONSTANTS Payloads, VideoPayloads   \* payloads a description is given, by media

VARIABLE part

codecVars == <<objectVars, sdpVars, messageVars>>
otherVars == <<bodyVars, inputVars, textVars, listeningVars>>
wireVars == <<part, codecVars, otherVars>>

Init ==
    /\ part \in {"object", "audio", "video", "message", "body", "input", "text", "channels"}
    /\ class \in IF part = "object" THEN DOMAIN Classes ELSE {"header"}
    /\ SdpInit(IF part = "video" THEN "video" ELSE "audio")
    /\ ObjectInit /\ MessageInit
    /\ part \notin {"object"} => has = {}
    /\ part # "message" =>
         /\ chan.transport = "udp" /\ seenAs = chan.local /\ chan.local.port = 5060
         /\ ~ opts.askRport /\ ~ opts.natHelper
    /\ BodyInit(IF part = "body" THEN Bodies ELSE {CHOOSE b \in Bodies : TRUE})
    /\ InputInit(IF part = "input" THEN Streams ELSE {<<>>})
    /\ part # "input" => ~ datagram
    /\ TextInit(IF part = "text" THEN UriParts \cup {"display name", "comparison"}
                ELSE {"comparison"})
    /\ ListeningInit

Next ==
    \/ /\ part = "object" /\ ObjectNext
       /\ UNCHANGED <<part, sdpVars, messageVars, otherVars>>
    \/ /\ part = "audio" /\ \E p \in Payloads : AppendMime(p)
       /\ UNCHANGED <<part, objectVars, messageVars, otherVars>>
    \/ /\ part = "video" /\ \E p \in VideoPayloads : AppendMime(p)
       /\ UNCHANGED <<part, objectVars, messageVars, otherVars>>
    \/ /\ part = "message" /\ MessageNext
       /\ UNCHANGED <<part, objectVars, sdpVars, otherVars>>
    \/ /\ part = "body" /\ BodyNext
       /\ UNCHANGED <<part, codecVars, inputVars, textVars, listeningVars>>
    \/ /\ part = "input" /\ InputNext
       /\ UNCHANGED <<part, codecVars, bodyVars, textVars, listeningVars>>
    \/ /\ part = "text" /\ TextNext
       /\ UNCHANGED <<part, codecVars, bodyVars, inputVars, listeningVars>>
    \/ /\ part = "channels" /\ ListeningNext
       /\ UNCHANGED <<part, codecVars, bodyVars, inputVars, textVars>>

Spec == Init /\ [][Next]_wireVars
-----------------------------------------------------------------------------
\* What is to be sent is sent whole: the text of an object whatever the size that was guessed
\* for it (belle_sip_object_to_string()), and a body whatever the size of its pieces
\* (belle_sip_multipart_body_handler_send_chunk()); a multipart body only the first time it is
\* sent (belle_sip_body_handler_begin_transfer()).
SentWhole == PrintedWhole /\ BodySentWhole

\* What was printed is read back as what was meant: addresses with the parameters of their URI
\* and their own (belle_sip_header_address_marshal()), media descriptions with their payloads
\* (belle_sdp_media_description_append_values_from_mime_parameter()), the texts in a URI
\* (belle_sip_escape()); and a URI that was written in another way is equal to what it was
\* (belle_sip_uri_equals()).
ReadsBack == AddressReadsBack /\ MimeReadsBack /\ TextReadsBack /\ EqualityFollowsRules
=============================================================================
