------------------------------- MODULE Headers -------------------------------
(***************************************************************************)
(* The classes of URIs and of SIP headers: what each one's clone() copies  *)
(* and what its marshal() prints.                                          *)
(*                                                                         *)
(* An object is the set of its fields that are set.  A class is the class  *)
(* it derives from, the fields its own clone() copies (the clone() of the  *)
(* parent classes run too) and the sequence of the snprintf() calls of its *)
(* marshal().  The fields of the URI an object owns are fields of the      *)
(* object, "uri.<field>" for a SIP URI and "abs.<field>" for an absolute   *)
(* one, since clone() of the owner clones it and marshal() prints it in    *)
(* place.  The parameters are printed one by one from a list and stand for *)
(* themselves ("params"); "names" is set when the list of their names is    *)
(* not empty.                                                              *)
(***************************************************************************)
EXTENDS Sequences, FiniteSets

\* One snprintf() call: it is made when all of "all", one of "any" (if any is
\* given) and none of "none" are set, and prints the values of "shows".
Piece(label, all, any, none, shows) ==
    <<[text |-> label, all |-> all, any |-> any, none |-> none, shows |-> shows]>>

Show(label, fields) == Piece(label, {}, {}, {}, fields)
If(f) == Piece(f, {f}, {}, {}, {f})
IfAll(label, fields) == Piece(label, fields, {}, {}, fields)

\* A sequence of calls that is only reached when f is set (resp. not set).
Within(f, says) == [i \in DOMAIN says |-> [says[i] EXCEPT !.all = @ \cup {f}]]
Unless(f, says) == [i \in DOMAIN says |-> [says[i] EXCEPT !.none = @ \cup {f}]]

\* The fields of the two kinds of URIs.
SipUri ==
    {"uri", "uri.secure", "uri.user", "uri.user_password", "uri.host", "uri.port", "uri.headers",
     "uri.transport", "uri.params"}
AbsoluteUri ==
    {"abs", "abs.scheme", "abs.user", "abs.user_password", "abs.host", "abs.port", "abs.path",
     "abs.query", "abs.opaque_part"}

\* The objects that are looked at have all the fields their class prints, all
\* but one, one or none.  A URI has its parts, an address one URI.
Consistent(fields) ==
    /\ "uri" \in fields \/ \A f \in fields : f \notin SipUri
    /\ "abs" \in fields \/ \A f \in fields : f \notin AbsoluteUri
    /\ ~ {"uri", "abs"} \subseteq fields

SomeObjects(says) ==
    LET all == UNION {says[i].shows \cup says[i].all : i \in DOMAIN says} \ {"params"}
        few == {{f} : f \in all} \cup {{}}
        most == UNION {{s \ lacks : lacks \in few} : s \in {all \ SipUri, all \ AbsoluteUri}}
    IN  {fields \in few \cup most : Consistent(fields)}

\* What the classes above it copy a class copies too: belle_sip_object_clone()
\* calls the clone() of each.
Class(parent, copies, says) ==
    [copies |-> parent.copies \cup copies, says |-> says, objects |-> SomeObjects(says)]

object == [copies |-> {}, says |-> <<>>, objects |-> {}]

(***************************************************************************)
(* URIs.                                                                   *)
(***************************************************************************)
uri_says ==
    Show("sip:", {"uri.secure"}) \o If("uri.user")
      \o IfAll("uri.password", {"uri.user", "uri.user_password"})
      \o IfAll("@", {"uri.user"}) \o If("uri.host") \o If("uri.port")
      \o If("uri.transport") \o If("uri.params") \o If("uri.headers")

\* The fields uri_clone() copies and, the parameters, those of the class it
\* derives from.
uri_copies ==
    {"uri", "uri.secure", "uri.user", "uri.user_password", "uri.host", "uri.port", "uri.headers",
     "uri.transport", "uri.params"}

uri == Class(object, uri_copies, Within("uri", uri_says))

generic_uri_says ==
    If("abs.scheme") \o If("abs.opaque_part")
      \o Unless("abs.opaque_part",
           IfAll("//", {"abs.host"}) \o If("abs.user")
             \o IfAll("abs.password", {"abs.user", "abs.user_password"})
             \o IfAll("@", {"abs.user"}) \o If("abs.host") \o If("abs.port")
             \o If("abs.path") \o If("abs.query"))

generic_uri ==
    Class(object,
          {"abs", "abs.scheme", "abs.user", "abs.user_password", "abs.host", "abs.port",
           "abs.path", "abs.query", "abs.opaque_part"},
          Within("abs", generic_uri_says))

(***************************************************************************)
(* The base classes.                                                       *)
(***************************************************************************)
header_says == If("name")
header == Class(object, {"name", "next"}, header_says)

params_says == Show("params", {"params"})
parameters == Class(header, {"params"}, params_says)

\* Mutant: the parameters of the URI do not ask for < and >.
Quoted_Few(bracket, force) ==
    Within("uri", Piece(bracket, {}, IF force THEN {} ELSE {"displayname", "names"}, {}, {})) \o
    Piece(bracket, {"abs"}, {}, {"uri"}, {})

\* The URI of an address is put between < and > when something could be taken
\* for a part of it, or a part of it for something else.
Quoted(bracket, force) ==
    LET why == IF force THEN {} ELSE
               {"displayname", "abs", "uri.transport", "uri.params", "uri.headers", "names"}
    IN  Within("uri", Piece(bracket, {}, why, {}, {})) \o
        Piece(bracket, {"abs"}, {}, {"uri"}, {})

address_says(force) ==
    If("displayname") \o Quoted("<", force) \o Within("uri", uri_says)
      \o Unless("uri", Within("abs", generic_uri_says)) \o Quoted(">", force) \o params_says

header_address ==
    Class(parameters, {"displayname"} \cup uri_copies \cup generic_uri.copies,
          address_says(FALSE))

\* BELLE_SIP_FROM_LIKE_MARSHAL
FromLike(force) == Class(header_address, {}, header_says \o address_says(force))

(***************************************************************************)
(* The headers that are addresses.                                         *)
(***************************************************************************)
header_contact ==
    Class(header_address, {"wildcard", "automatic"},
          header_says \o If("wildcard") \o Unless("wildcard", address_says(FALSE)))

header_from == FromLike(FALSE)
header_to == FromLike(FALSE)
header_route == FromLike(TRUE)
header_record_route == FromLike(TRUE)
header_service_route == FromLike(TRUE)
header_refer_to == FromLike(FALSE)
header_referred_by == FromLike(FALSE)
header_p_preferred_identity == FromLike(FALSE)

(***************************************************************************)
(* The headers with values of their own.                                   *)
(***************************************************************************)
Valued(parent, f, rest) == Class(parent, {f}, header_says \o Show(f, {f}) \o rest)

header_allow == Valued(header, "method", <<>>)
header_user_agent == Valued(header, "products", <<>>)
header_call_id == Valued(header, "call_id", <<>>)
header_content_length == Valued(header, "content_length", <<>>)
header_expires == Valued(header, "expires", <<>>)
header_max_forwards == Valued(header, "max_forwards", <<>>)
header_date == Valued(header, "date", <<>>)
header_privacy == Valued(header, "privacy", <<>>)
header_subscription_state == Valued(parameters, "state", params_says)
header_replaces == Valued(parameters, "call_id", params_says)
header_event == Valued(parameters, "package_name", params_says)

header_extension == Class(header, {"value"}, header_says \o If("value"))

header_cseq ==
    Class(header, {"method", "seq_number"}, header_says \o Show("cseq", {"seq_number", "method"}))

header_content_type ==
    Class(parameters, {"type", "subtype"},
          header_says \o Show("type", {"type", "subtype"}) \o params_says)

header_via ==
    Class(parameters, {"protocol", "transport", "host", "received", "port"},
          header_says \o Show("transport", {"protocol", "transport"})
            \o If("host") \o If("port") \o If("received") \o params_says)

(***************************************************************************)
(* Credentials and challenges.                                             *)
(***************************************************************************)
AUTH_BASE_CLONE == {"scheme", "realm", "nonce", "algorithm", "opaque"}

AUTH_BASE_MARSHAL ==
    header_says \o If("scheme") \o params_says
      \o If("realm") \o If("nonce") \o If("algorithm") \o If("opaque")

authorization_says ==
    AUTH_BASE_MARSHAL \o If("username")
      \o Within("uri", Show("uri=", {}) \o uri_says \o Show("quote", {}))
      \o If("response") \o If("cnonce") \o If("nonce_count") \o If("qop")

header_authorization ==
    Class(parameters,
          AUTH_BASE_CLONE \cup uri_copies \cup
            {"username", "response", "cnonce", "nonce_count", "qop"},
          authorization_says)

header_proxy_authorization == Class(header_authorization, {}, authorization_says)

\* Printing fails when a SIP URI is set: such an object has none.
http_header_authorization ==
    Class(header_authorization, generic_uri.copies,
          authorization_says
            \o Within("abs", Show("uri=", {}) \o generic_uri_says \o Show("quote", {})))

www_authenticate_says ==
    AUTH_BASE_MARSHAL \o If("domain") \o If("stale")
      \o Within("qop", Show("qop=", {}) \o If("qop") \o Show("quote", {}))

header_www_authenticate ==
    Class(parameters, AUTH_BASE_CLONE \cup {"domain", "stale", "qop"}, www_authenticate_says)

header_proxy_authenticate == Class(header_www_authenticate, {}, www_authenticate_says)

HeaderClasses ==
    [uri |-> uri, generic_uri |-> generic_uri, header |-> header, parameters |-> parameters,
     header_address |-> header_address, header_contact |-> header_contact,
     header_from |-> header_from, header_to |-> header_to, header_route |-> header_route,
     header_record_route |-> header_record_route, header_service_route |-> header_service_route,
     header_refer_to |-> header_refer_to, header_referred_by |-> header_referred_by,
     header_p_preferred_identity |-> header_p_preferred_identity, header_allow |-> header_allow,
     header_user_agent |-> header_user_agent, header_call_id |-> header_call_id,
     header_content_length |-> header_content_length, header_expires |-> header_expires,
     header_max_forwards |-> header_max_forwards, header_date |-> header_date,
     header_privacy |-> header_privacy, header_subscription_state |-> header_subscription_state,
     header_replaces |-> header_replaces, header_event |-> header_event,
     header_extension |-> header_extension, header_cseq |-> header_cseq,
     header_content_type |-> header_content_type, header_via |-> header_via,
     header_authorization |-> header_authorization,
     header_proxy_authorization |-> header_proxy_authorization,
     http_header_authorization |-> http_header_authorization,
     header_www_authenticate |-> header_www_authenticate,
     header_proxy_authenticate |-> header_proxy_authenticate]

(***************************************************************************)
(* Constructors that copy an address into a header of their own class.     *)
(***************************************************************************)
\* "uri.transport" stands for the parameters lr, ttl, method, maddr and transport.
from_create(fields) == (fields \ {"uri.transport", "uri.port", "uri.headers"}) \cup {"name"}
to_create(fields) == (fields \ {"uri.transport", "uri.port", "uri.headers"}) \cup {"name"}
contact_create(fields) == fields \cup {"name"}
route_create(fields) == fields \cup {"name"}
=============================================================================
