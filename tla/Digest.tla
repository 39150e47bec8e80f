-------------------------------- MODULE Digest --------------------------------
(***************************************************************************)
(* Digest credentials (auth_helper.c).  MD5 of some texts joined by colons *)
(* is the sequence of the texts: no two different sequences have the same  *)
(* digest.  A header field that is absent is Null.                         *)
(***************************************************************************)
EXTENDS Naturals, Sequences

Null == "NULL"

\* belle_sip_auth_helper_clone_authorization(): what a credential takes from the challenge.
create_authorization(challenge) ==
    [scheme |-> challenge.scheme, realm |-> challenge.realm, nonce |-> challenge.nonce,
     qop |-> Null, nonce_count |-> 0, cnonce |-> Null, username |-> Null, uri |-> Null,
     response |-> <<>>]

compute_ha1(userid, realm, password) == <<userid, realm, password>>
compute_ha2(method, uri) == <<method, uri>>
compute_response(ha1, nonce, ha2) == <<ha1, nonce, ha2>>
compute_response_qop_auth(ha1, nonce, nonce_count, cnonce, qop, ha2) ==
    <<ha1, nonce, nonce_count, cnonce, qop, ha2>>

\* belle_sip_auth_helper_fill_authorization(): the scheme is Digest, the qop is auth or none,
\* realm, nonce and uri are there, and the count too when there is a qop.
CanFill(a) ==
    /\ a.scheme \in {Null, "Digest"}
    /\ a.qop \in {Null, "auth"}
    /\ a.realm # Null /\ a.nonce # 0 /\ a.uri # Null
    /\ a.qop = "auth" => a.nonce_count > 0

fill_authorization(a, method, ha1) ==
    LET cnonce == IF a.qop = "auth" /\ a.cnonce = Null THEN "client" ELSE a.cnonce
        ha2 == compute_ha2(method, a.uri)
    IN  [a EXCEPT !.cnonce = cnonce,
                  !.response =
                     IF a.qop = "auth"
                     THEN compute_response_qop_auth(ha1, a.nonce, a.nonce_count, cnonce, a.qop, ha2)
                     ELSE compute_response(ha1, a.nonce, ha2)]

\* External: what a server compares, for the user and password it knows.
Verifies(a, method, uri, user, password) ==
    LET ha1 == <<user, a.realm, password>>
        ha2 == <<method, uri>>
    IN  /\ a.username = user /\ a.uri = uri
        /\ a.response = IF a.qop = Null THEN <<ha1, a.nonce, ha2>>
                        ELSE <<ha1, a.nonce, a.nonce_count, a.cnonce, a.qop, ha2>>
=============================================================================
