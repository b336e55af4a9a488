----------------------------- MODULE DigestAuth -----------------------------
(***************************************************************************)
(* DigestAuthenticator of sip-auth (digest.rs): the challenges of a 401 or *)
(* 407 are answered, realm by realm, and the answers are kept and used for *)
(* every later request.                                                    *)
(*                                                                         *)
(* An authenticator is a record and its methods are operators.  A hash is  *)
(* the record of what has been hashed; a nonce is a number of its server,  *)
(* and a client nonce, being random and made once for each nonce, need not *)
(* be told apart from it.                                                  *)
(***************************************************************************)
EXTENDS Naturals, Sequences, SequencesExt

CONSTANTS
    Credentials, \* realms for which credentials are known (or the default)
    EnforceQop,  \* enforce_qop
    RejectMd5    \* reject_md5

ASSUME AuthAssumption == {EnforceQop, RejectMd5} \subseteq BOOLEAN

NewAuthenticator == [qop |-> <<>>, responses |-> <<>>]

(* A challenge as read from a header, without what is passed on as it is   *)
(* (opaque, domain, userhash); without algorithm it is MD5.  Any algorithm *)
(* that is not one of these is AlgorithmValue::Other.                      *)
Algorithms == {"MD5", "MD5-sess", "SHA256", "SHA256-sess", "SHA512-256", "SHA512-256-sess"}
Challenge(realm, proxy, nonce, offer) ==
    [realm |-> realm, proxy |-> proxy, nonce |-> nonce, alg |-> offer.alg, qop |-> offer.qop]

(* H(ha1:nonce:nc:cnonce:qop:ha2), or without the middle if qop is "none". *)
Hash(ha1, nonce, nc, qop, ha2) == [ha1 |-> ha1, nonce |-> nonce, nc |-> nc, qop |-> qop, ha2 |-> ha2]
Ha1(realm, session) == [realm |-> realm, session |-> session]
Ha2(method, uri, qop) == [method |-> method, uri |-> uri, body |-> qop = "auth-int"]

(* The Authorization header as printed: nc only together with qop.         *)
DigestResponse(realm, nonce, uri, response, qop, nc) ==
    [realm |-> realm, nonce |-> nonce, uri |-> uri, response |-> response, qop |-> qop, nc |-> nc]

-----------------------------------------------------------------------------
(* Mutant: the count goes up, the hash stays.                              *)
ReuseHash(auth, r) ==
    IF r.uses = 0 \/ r.header.qop = "none" THEN r
    ELSE [r EXCEPT !.header.nc = @ + 1]

(* authorize_request: a response already used gets the next nonce count    *)
(* and is computed again from the halves kept for its realm; the hash says *)
(* auth, for auth-int as well.  Gives the authenticator and the headers.   *)
Reuse(auth, r) ==
    LET h == r.header
        kept == auth.qop[CHOOSE i \in DOMAIN auth.qop : auth.qop[i].realm = h.realm]
    IN  IF r.uses = 0 \/ h.qop = "none" THEN r
        ELSE [r EXCEPT !.header.nc = @ + 1,
                       !.header.response = Hash(kept.ha1, h.nonce, h.nc + 1, "auth", kept.ha2)]

AuthorizeRequest(auth) ==
    LET rs == [i \in DOMAIN auth.responses |-> Reuse(auth, auth.responses[i])]
    IN  [auth |-> [auth EXCEPT !.responses = [i \in DOMAIN rs |-> [rs[i] EXCEPT !.uses = @ + 1]]],
         headers |-> [i \in DOMAIN rs |-> [proxy |-> rs[i].proxy] @@ rs[i].header]]

-----------------------------------------------------------------------------
(* digest_respond and save_qop_response, for a challenge that handle_      *)
(* digest_challenge supports: auth-int if offered, else auth, else, if qop *)
(* is missing and not enforced, the old form.                              *)
Session(alg) == alg \in {"MD5-sess", "SHA256-sess", "SHA512-256-sess"}
Qop(c) ==
    CASE "auth-int" \in c.qop -> "auth-int"
      [] "auth-int" \notin c.qop /\ "auth" \in c.qop -> "auth"
      [] c.qop = {} -> IF EnforceQop THEN "auth" ELSE "none"
      [] OTHER -> "unsupported"
Supported(c) ==
    /\ c.alg \in Algorithms \ IF RejectMd5 THEN {"MD5", "MD5-sess"} ELSE {}
    /\ c.realm \in Credentials
    /\ Qop(c) # "unsupported"

DigestRespond(auth, request, c) ==
    LET qop == Qop(c)
        ha1 == Ha1(c.realm, IF Session(c.alg) THEN "unhashed" ELSE "none")
        ha2 == Ha2(request.method, request.uri, qop)
        nc == IF qop = "none" THEN 0 ELSE 1
        others == SelectSeq(auth.qop, LAMBDA e : e.realm # c.realm)
    IN  [header |-> DigestResponse(c.realm, c.nonce, request.uri,
                                   Hash(ha1, c.nonce, nc, qop, ha2), qop, nc),
         qop |-> IF qop = "none" THEN auth.qop
                 ELSE Append(others, [realm |-> c.realm, ha1 |-> ha1, ha2 |-> ha2])]

(* handle_challenge: a nonce already answered is not answered again,       *)
(* whatever the server says about it being stale.                          *)
Answerable(auth, c) ==
    /\ \A i \in DOMAIN auth.responses :
         auth.responses[i].realm = c.realm => auth.responses[i].header.nonce # c.nonce
    /\ Supported(c)

(* handle_rejection: the challenges by realm, those of the server before   *)
(* those of a proxy; the first that can be answered replaces the answer    *)
(* there was for the realm.  Realms that stay without an answer fail.      *)
AnswerRealm(auth, request, cs) ==
    LET c == cs[CHOOSE i \in DOMAIN cs : Answerable(auth, cs[i]) /\ \A j \in 1 .. i - 1 : ~Answerable(auth, cs[j])]
        r == DigestRespond(auth, request, c)
    IN  [qop |-> r.qop,
         responses |-> Append(SelectSeq(auth.responses, LAMBDA e : e.realm # c.realm),
                              [realm |-> c.realm, header |-> r.header, uses |-> 0, proxy |-> c.proxy])]

HandleRejection(auth, request, challenges) ==
    LET ordered == SelectSeq(challenges, LAMBDA c : ~c.proxy) \o SelectSeq(challenges, LAMBDA c : c.proxy)
        Of(realm) == SelectSeq(ordered, LAMBDA c : c.realm = realm)
        Can(a, realm) == \E i \in DOMAIN Of(realm) : Answerable(a, Of(realm)[i])
        realms == {ordered[i].realm : i \in DOMAIN ordered}
        order == SetToSortSeq(realms, LAMBDA x, y :
                   SelectInSeq(ordered, LAMBDA c : c.realm = x) < SelectInSeq(ordered, LAMBDA c : c.realm = y))
    IN  [auth |-> FoldLeft(LAMBDA a, r : IF Can(a, r) THEN AnswerRealm(a, request, Of(r)) ELSE a, auth, order),
         ok |-> \A r \in realms : Can(auth, r)]
=============================================================================
