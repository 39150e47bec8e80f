--------------------------------- MODULE Sdp ---------------------------------
(***************************************************************************)
(* The classes of SDP, in the terms of module Headers, and the conversion  *)
(* between a media description and the list of its MIME parameters.        *)
(*                                                                         *)
(* An object that others own by a pointer or a list is one field of its    *)
(* owner: belle_sip_list_copy_with_data() clones a list in its order.      *)
(***************************************************************************)
EXTENDS Headers, Integers, SequencesExt

(***************************************************************************)
(* The lines of a description.                                             *)
(***************************************************************************)
Line(label, fields) == Class(object, fields, Show(label, fields))

attribute == Line("a=", {"name"})

\* The value is cloned from the printed attribute; see belle_sdp_attribute_get_value().
raw_attribute == Class(attribute, {"value"}, attribute.says \o If("value"))

rtcp_fb_attribute ==
    Class(attribute, {"id", "type", "param", "trr_int", "smaxpr"},
          attribute.says \o Show("id", {"id"}) \o Show("type", {"type"})
            \o Piece("trr-int", {"trr_int"}, {}, {"type"}, {"trr_int"})
            \o IfAll("param", {"type", "param"})
            \o IfAll("smaxpr", {"type", "param", "smaxpr"}))

rtcp_xr_attribute ==
    Class(attribute,
          {"rcvr_rtt_mode", "rcvr_rtt_max_size", "stat_summary", "stat_summary_flags",
           "voip_metrics"},
          attribute.says \o If("rcvr_rtt_mode")
            \o IfAll("rcvr_rtt_max_size", {"rcvr_rtt_mode", "rcvr_rtt_max_size"})
            \o If("stat_summary") \o IfAll("flags", {"stat_summary", "stat_summary_flags"})
            \o If("voip_metrics"))

bandwidth == Line("b=", {"type", "value"})

connection ==
    Class(object, {"network_type", "address_type", "address", "ttl", "range"},
          Show("c=", {"network_type", "address_type", "address"}) \o If("ttl") \o If("range"))

email == Line("e=", {"value"})
info == Line("i=", {"value"})

\* raw_fmt is neither copied nor printed, and nothing sets it.
media ==
    Class(object, {"media_type", "media_port", "media_formats", "port_count", "protocol"},
          Show("m=", {"media_type", "media_port"}) \o If("port_count")
            \o Show("protocol", {"protocol"}) \o If("media_formats"))

origin ==
    Line("o=", {"username", "session_id", "session_version", "network_type", "address_type",
                "address"})

session_name == Line("s=", {"value"})
time == Line("time", {"start", "stop"})
time_description == Line("t=", {"time"})
version == Line("v=", {"version"})

\* The attributes of a base description are printed by the classes derived from it.
base_description ==
    Class(object, {"info", "connection", "bandwidths", "attributes"},
          If("info") \o If("connection") \o If("bandwidths"))

media_description ==
    Class(base_description, {"media"},
          Show("media", {"media"}) \o base_description.says \o If("attributes"))

\* Cloned, but not printed: emails, phones, uri and zone_adjustments.
session_description ==
    Class(base_description,
          {"version", "emails", "origin", "session_name", "phones", "times", "uri",
           "zone_adjustments", "media_descriptions"},
          Show("version", {"version"}) \o Show("origin", {"origin"})
            \o Show("session_name", {"session_name"}) \o base_description.says
            \o Show("t=", {}) \o If("times") \o If("attributes") \o If("media_descriptions"))

SdpClasses ==
    [attribute |-> attribute, raw_attribute |-> raw_attribute,
     rtcp_fb_attribute |-> rtcp_fb_attribute, rtcp_xr_attribute |-> rtcp_xr_attribute,
     bandwidth |-> bandwidth, connection |-> connection, email |-> email, info |-> info,
     media |-> media, origin |-> origin, session_name |-> session_name, time |-> time,
     time_description |-> time_description, version |-> version,
     base_description |-> base_description, media_description |-> media_description,
     session_description |-> session_description]

(***************************************************************************)
(* MIME parameters.  A payload is [format, type, rate, channels, fmtp,     *)
(* ptime, maxptime]; a media description here is its kind, its formats and *)
(* its attributes, a sequence of [name, format, value] ("format" is the    *)
(* payload number that starts the value of an rtpmap or of an fmtp).       *)
(***************************************************************************)
static_payload_list ==
    LET Static(t) == [format |-> t[1], type |-> t[2], rate |-> t[3], channels |-> t[4]]
        table == {
          <<0, "PCMU", 8000, 1>>, <<3, "GSM", 8000, 1>>, <<4, "G723", 8000, 1>>,
          <<5, "DVI4", 8000, 1>>, <<6, "DVI4", 16000, 1>>, <<7, "LPC", 8000, 1>>,
          <<8, "PCMA", 8000, 1>>, <<9, "G722", 8000, 1>>, <<10, "L16", 44100, 2>>,
          <<11, "L16", 44100, 1>>, <<12, "QCELP", 8000, 1>>, <<13, "CN", 8000, 1>>,
          <<14, "MPA", 90000, 1>>, <<15, "G728", 8000, 1>>, <<16, "DVI4", 11025, 1>>,
          <<17, "DVI4", 22050, 1>>, <<18, "G729", 8000, 1>>, <<25, "CelB", 90000, 0>>,
          <<26, "JPEG", 90000, 0>>, <<28, "nv", 90000, 0>>, <<31, "H261", 90000, 0>>,
          <<32, "MPV", 90000, 0>>, <<33, "MP2T", 90000, 0>>, <<34, "H263", 90000, 0>>}
    IN  {Static(t) : t \in table}

Description(kind) == [audio |-> kind = "audio", formats |-> <<>>, attributes |-> <<>>]

Attributes(d, name) == SelectSeq(d.attributes, LAMBDA a : a.name = name)
get_attribute(d, name) ==
    IF Attributes(d, name) = <<>> THEN 0 ELSE Head(Attributes(d, name)).value
remove_attribute(d, name) ==
    IF Attributes(d, name) = <<>> THEN d
    ELSE [d EXCEPT !.attributes =
             RemoveAt(@, CHOOSE i \in DOMAIN @ :
                            @[i].name = name /\ \A j \in 1 .. i - 1 : @[j].name # name)]
set_attribute_value(d, name, format, value) ==
    [d EXCEPT !.attributes = Append(@, [name |-> name, format |-> format, value |-> value])]

\* Mutant: a static number is enough.
mime_parameter_is_static_ByNumber(p) == \E s \in static_payload_list : s.format = p.format

mime_parameter_is_static(p) ==
    [format |-> p.format, type |-> p.type, rate |-> p.rate, channels |-> p.channels]
        \in static_payload_list

\* The larger of the value the description has and the one of the payload is kept.
Keep(d, name, value) ==
    LET current == IF value > get_attribute(d, name) THEN value ELSE get_attribute(d, name)
        without == remove_attribute(d, name)
    IN  IF current > 0 THEN set_attribute_value(without, name, -1, current) ELSE without

\* The code removes ptime and maxptime first and appends them last.
append_values_from_mime_parameter(d, p) ==
    LET d1 == [d EXCEPT !.formats = Append(@, p.format)]
        d2 == IF mime_parameter_is_static(p) THEN d1
              ELSE set_attribute_value(d1, "rtpmap", p.format,
                     [type |-> p.type, rate |-> p.rate,
                      channels |-> IF p.channels > 1 THEN p.channels ELSE 0])
        d3 == IF p.fmtp = "" THEN d2 ELSE set_attribute_value(d2, "fmtp", p.format, p.fmtp)
    IN  Keep(Keep(d3, "ptime", p.ptime), "maxptime", p.maxptime)

\* The first attribute of that name whose value starts with the payload number.
a_attr_value_get_with_pt(d, format, name) ==
    SelectSeq(d.attributes, LAMBDA a : a.name = name /\ a.format = format)

mime_parameter_fill_from_static(format) ==
    IF \E s \in static_payload_list : s.format = format
    THEN CHOOSE s \in static_payload_list : s.format = format
    ELSE [format |-> format, type |-> "", rate |-> 0, channels |-> 0]

mime_parameter_fill_from_rtpmap(d, format, map) ==
    [format |-> format, type |-> map.type, rate |-> map.rate,
     channels |-> IF map.channels = 0 /\ d.audio THEN 1 ELSE map.channels]

build_mime_parameters(d) ==
    [i \in DOMAIN d.formats |->
       LET f == d.formats[i]
           rtpmap == a_attr_value_get_with_pt(d, f, "rtpmap")
           fmtp == a_attr_value_get_with_pt(d, f, "fmtp")
           known == IF rtpmap = <<>> THEN mime_parameter_fill_from_static(f)
                    ELSE mime_parameter_fill_from_rtpmap(d, f, Head(rtpmap).value)
           Time(name) == IF Attributes(d, name) = <<>> THEN -1 ELSE get_attribute(d, name)
       IN  [format |-> f, type |-> known.type, rate |-> known.rate, channels |-> known.channels,
            fmtp |-> IF fmtp = <<>> THEN "" ELSE Head(fmtp).value,
            ptime |-> Time("ptime"), maxptime |-> Time("maxptime")]]
VARIABLES
    description,   \* the media description
    payloads       \* the payloads it was given

sdpVars == <<description, payloads>>

SdpInit(kind) == description = Description(kind) /\ payloads = <<>>

\* belle_sdp_media_description_append_values_from_mime_parameter()
AppendMime(p) ==
    /\ \A i \in DOMAIN payloads : payloads[i].format # p.format
    /\ payloads' = Append(payloads, p)
    /\ description' = append_values_from_mime_parameter(description, p)

\* The packet times are those of the media, not of a payload: the largest given.
Largest(name) ==
    LET given == {payloads[i][name] : i \in DOMAIN payloads}
    IN  CHOOSE x \in given : \A y \in given : x >= y

\* The payloads a description is made of are read back from it: the same ones
\* in the same order, whether they are of the static table or come with an
\* rtpmap, whatever attributes the others have added, and with the largest
\* packet times that were given.
MimeReadsBack ==
    build_mime_parameters(description) =
        [i \in DOMAIN payloads |->
           [payloads[i] EXCEPT !.ptime = Largest("ptime"), !.maxptime = Largest("maxptime")]]
=============================================================================
