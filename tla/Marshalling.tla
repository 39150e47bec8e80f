----------------------------- MODULE Marshalling -----------------------------
(***************************************************************************)
(* Objects copied and turned into text (belle_sip_object.c): clone() along *)
(* the inheritance, marshal() of the most derived class into a buffer of a *)
(* given size, and to_string(), which picks that size from a hint shared   *)
(* by all the objects of a class and tries again when it was too small.    *)
(***************************************************************************)
EXTENDS Sdp

CONSTANTS
    MAX_TO_STRING_SIZE,   \* the buffer of a class that has no hint yet
    MinHint,              \* the least hint (128)
    ParamNames,           \* names of parameters
    MaxObjects,           \* objects of the class that are printed
    MaxEdits              \* calls that set or remove a parameter of one object

ASSUME MarshallingAssumption == MinHint \in Nat \ {0, 1} /\ MAX_TO_STRING_SIZE \in Nat \ {0}

VARIABLES
    class,      \* the name of a class
    def,        \* what Classes says of it
    hint,       \* its tostring_bufsize_hint
    has,        \* the fields of the object, without its parameters
    params,     \* its param_list: a sequence of <<name, value>>
    names,      \* its paramnames_list
    meant,      \* what the text of the object it was copied from should be
    size,       \* the buffer that is tried, 0 for none
    text,       \* what to_string() returned
    objects,    \* objects made so far
    edits       \* calls on the parameters of this one

objectVars == <<class, def, hint, has, params, names, meant, size, text, objects, edits>>

Classes == HeaderClasses @@ SdpClasses

(***************************************************************************)
(* Parameters.                                                             *)
(***************************************************************************)
Without(list, n) == SelectSeq(list, LAMBDA p : p[1] # n)

set_parameter(ps, n, v) == Append(Without(ps, n), <<n, v>>)

\* Nothing is removed unless the name is in the list of names.
remove_parameter(ps, ns, n) == IF n \in Range(ns) THEN Without(ps, n) ELSE ps

copy_parameters_from(ps) == FoldLeft(LAMBDA l, p : set_parameter(l, p[1], p[2]), <<>>, ps)

(***************************************************************************)
(* Copying and printing.                                                   *)
(***************************************************************************)
\* clone() of the class and of each class above it.  belle_sdp_attribute_get_value()
\* of an attribute without a value is an empty string, which the copy is given.
object_copy(fields) ==
    (fields \cap def.copies) \cup (IF class = "raw_attribute" THEN {"value"} ELSE {})

\* The snprintf() calls marshal() makes for an object; those for its parameters
\* are taken together.
Calls(d, fields, ps, ns) ==
    LET set == fields \cup (IF ns = <<>> THEN {} ELSE {"names"})
        made == SelectSeq(d.says,
                          LAMBDA p : /\ p.all \subseteq set /\ p.none \cap set = {}
                                     /\ p.any = {} \/ p.any \cap set # {}
                                     /\ p.text = "params" => ps # <<>>)
    IN  [i \in DOMAIN made |->
           IF made[i].text = "params" THEN <<"params", ps>>
           ELSE <<made[i].text, made[i].shows \cap set>>]

\* Sizes count calls: each prints one unit, and snprintf() needs room for the
\* final zero.  belle_sip_snprintf() reports an overflow and leaves the offset at
\* the end of the buffer, so that every call after it overflows as well.
snprintf_valist(calls, room) ==
    IF Len(calls) < room
    THEN [overflow |-> FALSE, text |-> calls, offset |-> Len(calls)]
    ELSE [overflow |-> TRUE, text |-> SubSeq(calls, 1, room - 1), offset |-> room]

\* belle_http_header_authorization_marshal() drops the error of the part it
\* shares with belle_sip_header_authorization_marshal().
DropsError == class = "http_header_authorization" /\ "abs" \notin has

object_marshal(room) ==
    LET r == snprintf_valist(Calls(def, has, params, names), room)
    IN  [r EXCEPT !.overflow = @ /\ ~ DropsError]

get_hint_size(n) == IF n < MinHint THEN MinHint ELSE n
-----------------------------------------------------------------------------
\* Printing HTTP credentials fails when a SIP URI is set: these have none.
Objects ==
    {fields \in def.objects : class = "http_header_authorization" => "uri" \notin fields}

ObjectInit ==
    /\ hint = 0 /\ params = <<>> /\ names = <<>> /\ size = 0 /\ text = <<>> /\ edits = 0
    /\ objects = 1
    /\ def = Classes[class]
    /\ has \in Objects
    /\ meant = Calls(def, has, <<>>, <<>>)

Idle == size = 0 /\ text = <<>>

\* belle_sip_parameters_set_parameter(): taken out of both lists, put at their end.
SetParameter(n, v) ==
    /\ Idle /\ edits < MaxEdits /\ "params" \in def.copies
    /\ params' = set_parameter(params, n, v)
    /\ names' = Append(SelectSeq(names, LAMBDA m : m # n), n)
    /\ meant' = Calls(def, has, params', names')
    /\ edits' = edits + 1
    /\ UNCHANGED <<class, def, hint, has, size, text, objects>>

\* belle_sip_parameters_remove_parameter()
RemoveParameter(n) ==
    /\ Idle /\ edits < MaxEdits /\ "params" \in def.copies
    /\ params' = remove_parameter(params, names, n)
    /\ names' = SelectSeq(names, LAMBDA m : m # n)
    /\ meant' = Calls(def, has, params', names')
    /\ edits' = edits + 1
    /\ UNCHANGED <<class, def, hint, has, size, text, objects>>

\* belle_sip_object_clone(): the copy is what is printed.
Clone ==
    /\ Idle /\ edits <= MaxEdits
    /\ has' = object_copy(has)
    /\ params' = copy_parameters_from(params)
    /\ names' = [i \in DOMAIN params' |-> params'[i][1]]
    /\ edits' = MaxEdits + 1
    /\ UNCHANGED <<class, def, hint, meant, size, text, objects>>

\* belle_sip_header_*_create() of an address: the copy of another class.
CreateFromAddress(c) ==
    LET created == CASE c = "header_from"    -> from_create(has)
                     [] c = "header_to"      -> to_create(has)
                     [] c = "header_contact" -> contact_create(has)
                     [] c = "header_route"   -> route_create(has)
    IN  /\ Idle /\ edits <= MaxEdits /\ class = "header_address" /\ "uri" \in has
        /\ class' = c /\ def' = Classes[c] /\ has' = created /\ hint' = 0
        /\ params' = copy_parameters_from(params)
        /\ names' = [i \in DOMAIN params' |-> params'[i][1]]
        /\ meant' = Calls(def', created, params, names)
        /\ edits' = MaxEdits + 1
        /\ UNCHANGED <<size, text, objects>>

\* belle_sip_object_to_string(): with the hint of the class or, the first time,
\* in a buffer of its own.
ObjectToString ==
    \E r \in {object_marshal(MAX_TO_STRING_SIZE)} :
        /\ Idle
        /\ IF hint # 0 THEN size' = hint /\ UNCHANGED <<hint, text>>
           ELSE IF r.overflow THEN size' = get_hint_size(2 * r.offset) /\ UNCHANGED <<hint, text>>
           ELSE text' = r.text /\ hint' = get_hint_size(2 * r.offset) /\ UNCHANGED size
        /\ UNCHANGED <<class, def, has, params, names, meant, objects, edits>>

\* Mutant: what fits in the hint of the class is taken for the whole text.
ToAllocString_NoRetry ==
    /\ size # 0
    /\ hint' = size /\ size' = 0 /\ text' = object_marshal(size - 1).text
    /\ UNCHANGED <<class, def, has, params, names, meant, objects, edits>>

\* belle_sip_object_to_alloc_string(): one byte is kept, and the size becomes
\* the hint of the class even when it turns out to be too small.
ToAllocString ==
    \E r \in {object_marshal(size - 1)} :
        /\ size # 0
        /\ hint' = size
        /\ IF r.overflow THEN size' = 2 * size /\ UNCHANGED text
           ELSE size' = 0 /\ text' = r.text
        /\ UNCHANGED <<class, def, has, params, names, meant, objects, edits>>

\* Another object of the class is made, with the hint the first one left, and perhaps copied.
Another(fields) ==
    /\ size = 0 /\ text # <<>> /\ objects < MaxObjects
    /\ objects' = objects + 1
    /\ has' = fields /\ params' = <<>> /\ names' = <<>> /\ text' = <<>> /\ edits' = MaxEdits
    /\ meant' = Calls(def, fields, <<>>, <<>>)
    /\ UNCHANGED <<class, def, hint, size>>

ObjectNext ==
    \/ \E n \in ParamNames, v \in {"", "v"} : SetParameter(n, v)
    \/ \E n \in ParamNames : RemoveParameter(n)
    \/ Clone
    \/ \E c \in {"header_from", "header_to", "header_contact", "header_route"} :
         CreateFromAddress(c)
    \/ ObjectToString
    \/ ToAllocString
    \/ \E fields \in Objects : Another(fields)
-----------------------------------------------------------------------------
(***************************************************************************)
(* Properties                                                              *)
(***************************************************************************)
\* The text of an object is the whole text of the object it is a copy of,
\* whatever was printed before and left as the hint of the class: no field is
\* lost by clone() and no end by a buffer that was too small.  Two classes
\* fail it and are left out: HTTP credentials without a URI, whose marshal()
\* drops the error, and a copied SDP attribute without a value.
PrintedWhole ==
    /\ ~ DropsError
    /\ class = "raw_attribute" => \E i \in DOMAIN meant : meant[i][1] = "value"
    => text \in {<<>>, meant}

\* The headers whose grammar is an address followed by header parameters, and
\* those that only take the address between < and >.
NameAddrOnly == {"header_route", "header_record_route", "header_service_route"}
AddressHeaders ==
    NameAddrOnly \cup {"header_from", "header_to", "header_contact", "header_refer_to",
                       "header_referred_by"}

\* What the grammar takes a parameter for: without < and > every parameter
\* belongs to the header, and a display name or a route is no match at all.
ReadAs(part, quoted) ==
    IF part \in {"uri.params", "uri.transport"} /\ ~ quoted THEN "params"
    ELSE IF ~ quoted /\ (part = "displayname" \/ class \in NameAddrOnly) THEN "error"
    ELSE part

\* An address that was printed is read back with the parameters of its URI in
\* the URI and its own in the header, however it was made and its parameters
\* were edited.
AddressReadsBack ==
    class \in AddressHeaders /\ {"uri", "uri.host"} \subseteq has /\ text # <<>> =>
        LET quoted == \E i \in DOMAIN text : text[i][1] = "<"
        IN  \A i \in DOMAIN text : ReadAs(text[i][1], quoted) = text[i][1]
=============================================================================
