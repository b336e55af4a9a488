---------------------------- MODULE Registration ----------------------------
(***************************************************************************)
(* A client that keeps itself registered: Registration of sip-ua           *)
(* (register/mod.rs), used by the loop of examples/register.rs together    *)
(* with the DigestAuthenticator, used as examples/send_invite.rs uses it.  *)
(* The registrar and a proxy before it, which each may ask for credentials *)
(* of their own realm and may forget a nonce at any time, are external.    *)
(*                                                                         *)
(* Times are counted down, in units of which ten seconds have Margin.      *)
(* Requests and their responses are never lost, as transactions retransmit *)
(* them (see NonInviteTsx), but they may be late.                          *)
(***************************************************************************)
EXTENDS DigestAuth, FiniteSets

CONSTANTS
    Margin,      \* ten seconds
    Expiry,      \* the expiry asked for at first
    Guards,      \* what the servers ask for: sets of offers, by realm
    Proxies,     \* realms of proxies
    MinExpires,  \* the registrar refuses less than this
    Grants,      \* the registrar shortens an expiry to one of these
    ByHeader,    \* does it say so in the Expires header?
    EchoesZero,  \* does it answer the removal of a binding with Expires: 0?
    MaxLate,     \* bound on the time an exchange takes
    MaxRegisters, MaxStale \* bounds on exchanges and on nonces forgotten

ASSUME RegistrationAssumption ==
    /\ {Margin, Expiry, MinExpires, MaxLate, MaxRegisters, MaxStale} \subseteq Nat /\ Grants \subseteq Nat
    /\ {ByHeader, EchoesZero} \subseteq BOOLEAN

Floor == 2 * Margin

VARIABLES
    guard,    \* the realms and their offers
    reg,      \* the Registration
    auth,     \* the DigestAuthenticator
    phase,    \* what the loop does, or how it ended
    msg,      \* the request or the response on its way
    servers,  \* by realm: the nonce in use, whether it is still good, the last count
    binding,  \* time left of the binding at the registrar, 0 if there is none
    late,     \* time this exchange has taken
    tries,    \* requests it has taken
    registers, stale \* counters for the bounds

vars == <<guard, reg, auth, phase, msg, servers, binding, late, tries, registers, stale>>

Nothing == [type |-> "none"]

(* create_reg_interval: the first tick is a period away.                   *)
(* Mutant: the binding is refreshed when it expires.                       *)
CreateRegIntervalLate(expires) == IF expires > Floor THEN expires ELSE Floor

CreateRegInterval(expires) == (IF expires > Floor THEN expires ELSE Floor) - Margin

Init ==
    /\ guard \in Guards
    /\ reg = [expires |-> Expiry, period |-> CreateRegInterval(Expiry), tick |-> CreateRegInterval(Expiry),
              cseq |-> 0, tag |-> FALSE]
    /\ auth = NewAuthenticator
    /\ phase = "idle" /\ msg = Nothing
    /\ servers = [r \in DOMAIN guard |-> [nonce |-> 0, good |-> FALSE, nc |-> 0]]
    /\ binding = 0 /\ late = 0 /\ tries = 0 /\ registers = 0 /\ stale = 0

-----------------------------------------------------------------------------
(* create_register, authorize_request and sending.                         *)
Sending == {"registering", "refreshing", "removing"}
CreateRegister(r, remove, headers) ==
    [type |-> "request", method |-> "REGISTER", uri |-> "registrar", cseq |-> r.cseq + 1,
     expires |-> IF remove THEN 0 ELSE r.expires, headers |-> headers]
SendRegister(r, a, why) ==
    /\ reg' = [r EXCEPT !.cseq = @ + 1]
    /\ \E authorized \in {AuthorizeRequest(a)} :
         /\ auth' = authorized.auth
         /\ msg' = CreateRegister(r, why = "removing", authorized.headers)
    /\ phase' = why
    /\ tries' = IF why = phase THEN tries + 1 ELSE 1

(* The first time and after a removal; then whenever wait_for_expiry       *)
(* returns, which sets the interval's next tick.                           *)
Register ==
    /\ phase \in {"idle", "removed"} /\ registers < MaxRegisters
    /\ SendRegister(reg, auth, "registering")
    /\ late' = 0 /\ registers' = registers + 1
    /\ UNCHANGED <<guard, servers, binding, stale>>

Refresh ==
    /\ phase = "registered" /\ reg.tick = 0 /\ registers < MaxRegisters
    /\ SendRegister([reg EXCEPT !.tick = reg.period], auth, "refreshing")
    /\ late' = 0 /\ registers' = registers + 1
    /\ UNCHANGED <<guard, servers, binding, stale>>

RemoveBinding ==
    /\ phase = "registered" /\ registers < MaxRegisters
    /\ SendRegister(reg, auth, "removing")
    /\ late' = 0 /\ registers' = registers + 1
    /\ UNCHANGED <<guard, servers, binding, stale>>

-----------------------------------------------------------------------------
(* The servers (external): a header is good if its nonce is, its count has *)
(* not been used and its hash is the one the server computes.              *)
Expected(h) ==
    Hash(Ha1(h.realm, "none"), h.nonce, h.nc, h.qop, Ha2("REGISTER", "registrar", h.qop))
Verifies(h) == h.response = Expected(h) /\ (h.qop = "none" \/ h.nc > servers[h.realm].nc)
Good(h) == servers[h.realm].good /\ h.nonce = servers[h.realm].nonce /\ Verifies(h)
Headers(r) == {i \in DOMAIN msg.headers : msg.headers[i].realm = r}
Passed(r) == \E i \in Headers(r) : Good(msg.headers[i])
Counted == [r \in DOMAIN servers |->
              IF Passed(r) THEN [servers[r] EXCEPT !.nc = msg.headers[CHOOSE i \in Headers(r) : TRUE].nc]
              ELSE servers[r]]

(* A new nonce for some of the realms that have not passed: one server     *)
(* after the other, or both in one response after forking.                 *)
ChallengeRequest(realms) ==
    /\ msg.type = "request" /\ realms # {} /\ \A r \in realms : ~Passed(r)
    /\ servers' = [r \in DOMAIN servers |->
                     IF r \in realms THEN [nonce |-> servers[r].nonce + 1, good |-> TRUE, nc |-> 0]
                     ELSE Counted[r]]
    /\ LET offers(r) == [i \in DOMAIN guard[r] |->
                           Challenge(r, r \in Proxies, servers[r].nonce + 1, guard[r][i])]
       IN  msg' = [type |-> "rejection", of |-> msg,
                   challenges |-> FlattenSeq([i \in 1 .. Cardinality(realms) |-> offers(SetToSeq(realms)[i])])]
    /\ UNCHANGED <<guard, reg, auth, phase, binding, late, tries, registers, stale>>

Brief ==
    /\ msg.type = "request" /\ \A r \in DOMAIN guard : Passed(r)
    /\ msg.expires \in 1 .. MinExpires - 1
    /\ servers' = Counted
    /\ msg' = [type |-> "too brief", minExpires |-> MinExpires]
    /\ UNCHANGED <<guard, reg, auth, phase, binding, late, tries, registers, stale>>

Grantable == IF msg.type # "request" THEN {} ELSE {msg.expires} \cup {g \in Grants : g < msg.expires}
Grant(expires) ==
    /\ msg.type = "request" /\ \A r \in DOMAIN guard : Passed(r)
    /\ msg.expires \notin 1 .. MinExpires - 1
    /\ servers' = Counted /\ binding' = expires
    /\ msg' = [type |-> "success",
               header |-> IF expires = 0 THEN EchoesZero ELSE ByHeader, expires |-> expires]
    /\ UNCHANGED <<guard, reg, auth, phase, late, tries, registers, stale>>

Break ==
    /\ msg.type = "request"
    /\ msg' = [type |-> "error"]
    /\ UNCHANGED <<guard, reg, auth, phase, servers, binding, late, tries, registers, stale>>

Forget(r) ==
    /\ msg.type = "request" /\ servers[r].good /\ stale < MaxStale
    /\ servers' = [servers EXCEPT ![r].good = FALSE]
    /\ stale' = stale + 1
    /\ UNCHANGED <<guard, reg, auth, phase, msg, binding, late, tries, registers>>

-----------------------------------------------------------------------------
(* receive_success_response: the interval starts over only if the expiry   *)
(* is another one.                                                         *)
ReceiveSuccessResponse ==
    /\ msg.type = "success"
    /\ reg' = IF msg.header /\ msg.expires # reg.expires
              THEN [reg EXCEPT !.expires = msg.expires, !.period = CreateRegInterval(msg.expires),
                               !.tick = CreateRegInterval(msg.expires), !.tag = TRUE]
              ELSE [reg EXCEPT !.tag = TRUE]
    /\ phase' = IF phase = "removing" THEN "removed" ELSE "registered"
    /\ msg' = Nothing
    /\ UNCHANGED <<guard, auth, servers, binding, late, tries, registers, stale>>

(* Mutant: Min-Expires moves the interval alone.                           *)
ReceiveErrorKeepsExpires ==
    /\ msg.type = "too brief"
    /\ SendRegister([reg EXCEPT !.period = CreateRegInterval(msg.minExpires),
                                !.tick = CreateRegInterval(msg.minExpires)], auth, phase)
    /\ UNCHANGED <<guard, servers, binding, late, registers, stale>>

(* receive_error_response: a retry if there is a Min-Expires, else the     *)
(* loop ends.                                                              *)
ReceiveErrorResponse ==
    /\ msg.type = "too brief"
    /\ SendRegister([reg EXCEPT !.expires = msg.minExpires, !.period = CreateRegInterval(msg.minExpires),
                                !.tick = CreateRegInterval(msg.minExpires)], auth, phase)
    /\ UNCHANGED <<guard, servers, binding, late, registers, stale>>

ReceiveOtherError ==
    /\ msg.type = "error"
    /\ phase' = "refused" /\ msg' = Nothing
    /\ UNCHANGED <<guard, reg, auth, servers, binding, late, tries, registers, stale>>

(* handle_rejection, and another request unless it returns an error.       *)
ReceiveRejection ==
    /\ msg.type = "rejection"
    /\ \E r \in {HandleRejection(auth, msg.of, msg.challenges)} :
           \/ r.ok /\ SendRegister(reg, r.auth, phase)
           \/ ~r.ok /\ auth' = r.auth /\ phase' = "failed" /\ msg' = Nothing /\ UNCHANGED <<reg, tries>>
    /\ UNCHANGED <<guard, servers, binding, late, registers, stale>>

(* Time passes: no exchange takes longer than it may, and a tick that is   *)
(* due is not waited for.                                                  *)
Pass ==
    /\ IF phase \in Sending THEN late < MaxLate ELSE phase = "registered" /\ reg.tick > 0
    /\ reg' = [reg EXCEPT !.tick = IF @ = 0 THEN 0 ELSE @ - 1]
    /\ binding' = IF binding = 0 THEN 0 ELSE binding - 1
    /\ late' = IF phase \in Sending THEN late + 1 ELSE late
    /\ UNCHANGED <<guard, auth, phase, msg, servers, tries, registers, stale>>

Exchange ==
    \/ ReceiveSuccessResponse \/ ReceiveErrorResponse \/ ReceiveOtherError \/ ReceiveRejection
    \/ \E realms \in SUBSET DOMAIN guard : ChallengeRequest(realms)
    \/ Brief \/ Break \/ \E expires \in Grantable : Grant(expires)
Next == \/ Register \/ Refresh \/ RemoveBinding \/ Exchange \/ Pass
        \/ \E r \in DOMAIN guard : Forget(r)

Spec == Init /\ [][Next]_vars

-----------------------------------------------------------------------------
(* A request has one header for a realm, of the right kind, and a server   *)
(* that still knows the nonce finds the hash right and the count unused,   *)
(* however often the kept response has been used since (authorize_request, *)
(* save_qop_response).  After its first use a response with auth-int is    *)
(* none that a server can verify.                                          *)
CredentialsVerify ==
    msg.type = "request" => \A i \in DOMAIN msg.headers :
        LET h == msg.headers[i]
            s == servers[h.realm]
        IN  /\ Headers(h.realm) = {i} /\ (h.proxy <=> h.realm \in Proxies)
            /\ s.good /\ h.nonce = s.nonce => Verifies(h) \/ (h.qop = "auth-int" /\ h.nc > 1)

(* Once registered, the client stays so until it removes its binding: the  *)
(* interval has the next request at the registrar before the binding       *)
(* expires, though it is restarted by some responses and not by others, if *)
(* the exchange that restarts it and the next one take less than the ten   *)
(* seconds together.                                                       *)
BindingKept == phase \in {"registered", "refreshing"} => binding > 0

(* An exchange does not go on without end and does not fail where it need  *)
(* not: each server may challenge the request, and again the one with the  *)
(* expiry the registrar demands, a forgotten nonce costs one request more, *)
(* and only what no supported challenge asks for is a reason to give up    *)
(* (handle_rejection ignores stale; receive_error_response).               *)
Satisfiable == \A r \in DOMAIN guard : \E i \in DOMAIN guard[r] :
                  Supported(Challenge(r, FALSE, 0, guard[r][i]))
ExchangeEnds ==
    /\ phase = "failed" => ~Satisfiable
    /\ tries <= 2 * (1 + Cardinality(DOMAIN guard)) + MaxStale
=============================================================================
