------------------------------ MODULE InviteTsx ------------------------------
(***************************************************************************)
(* One INVITE transaction between two endpoints.  The calling side is      *)
(* ClientInvTsx (transaction/client_inv.rs) driven by its user, who        *)
(* acknowledges every 2xx; the called side is ServerInvTsx                 *)
(* (transaction/server_inv.rs) driven by an acceptor, which waits for the  *)
(* acknowledgement of a 2xx in receive_ack (sip-ua/src/invite/mod.rs).     *)
(* The network is the one of the non-INVITE transaction.                   *)
(***************************************************************************)
EXTENDS Naturals, Sequences

CONSTANTS
    T1, T2,        \* first and largest retransmission interval
    Timeout,       \* T1 * 64, also the 32s a completed client absorbs
    ProvTimeout,   \* T1 * 240, granted by a provisional response
    AckTries,      \* the 9 waits of receive_ack
    MaxDelay, Think, MaxLoss, MaxDup, MaxProv

ASSUME TimerAssumption ==
    /\ {T1, T2, Timeout, ProvTimeout, AckTries} \subseteq Nat \ {0}
    /\ {MaxDelay, Think, MaxLoss, MaxDup, MaxProv} \subseteq Nat

VARIABLES
    reliable,  \* transport.reliable()
    cstate,    \* ClientInvTsx.state, or how the user's receive ended
    cLeft,     \* ticks until ClientInvTsx.timeout, or of the absorbing task
    cRetx, cN, \* ticks until the next retransmission, its interval
    told,      \* kinds of response the calling user has received
    sstate,    \* None, User, or the loop of respond_failure / receive_ack
    sLeft,     \* ticks the user has left, then until abandon_retransmit
    sRetx, sN, \* ticks until the next retransmission, its interval
    sQueue,    \* what waits in the server's registration
    sTries,    \* retransmission rounds of the final response
    outcome,   \* how responding ended for the called side
    provs, served,
    net, lost, dups

clientVars == <<reliable, cstate, cLeft, cRetx, cN, told>>
serverVars == <<sstate, sLeft, sRetx, sN, sQueue, sTries, outcome, provs, served>>
netVars == <<net, lost, dups>>
vars == <<clientVars, serverVars, netVars>>

(* "ack" is the transaction's own ACK of a failure: it carries the branch  *)
(* of the INVITE.  "ack2" is the user's ACK of a 2xx, on a branch of its   *)
(* own and matched by its dialog.                                          *)
Responses == {"prov", "ok", "fail"}
Kinds == Responses \cup {"invite", "ack", "ack2"}
Network == INSTANCE LossyNetwork

ClientRegistered == cstate \in {"Init", "Proceeding", "Accepted", "Completed"}

(* ClientInvTsx::send has registered the transaction and sent the INVITE.  *)
Init ==
    /\ reliable \in BOOLEAN
    /\ cstate = "Init" /\ cLeft = Timeout /\ cRetx = T1 /\ cN = T1 /\ told = {}
    /\ sstate = "None" /\ sLeft = 0 /\ sRetx = 0 /\ sN = T1 /\ sQueue = <<>>
    /\ sTries = 0 /\ outcome = "none" /\ provs = 0 /\ served = 0
    /\ net = Network!Send(Network!Empty, "invite")
    /\ lost = 0 /\ dups = 0

(* The network after m was delivered, perhaps not for the last time.       *)
After(m) ==
    {[net |-> Network!Take(net, m), dups |-> dups]}
      \cup (IF ~reliable /\ dups < MaxDup THEN {[net |-> net, dups |-> dups + 1]} ELSE {})

Delivered(m) ==
    /\ \E a \in After(m) : net' = a.net /\ dups' = a.dups
    /\ UNCHANGED lost

DeliveredThenSent(m, kind) ==
    /\ \E a \in After(m) : net' = Network!Send(a.net, kind) /\ dups' = a.dups
    /\ UNCHANGED lost

Transmit(kind) == net' = Network!Send(net, kind) /\ UNCHANGED <<lost, dups>>

Lose(m) ==
    /\ ~reliable /\ lost < MaxLoss
    /\ net' = Network!Take(net, m)
    /\ lost' = lost + 1
    /\ UNCHANGED <<clientVars, serverVars, dups>>

-----------------------------------------------------------------------------
(* ClientInvTsx::receive in State::Init over an unreliable transport: the  *)
(* INVITE is sent again at doubling intervals; a send error is returned.   *)
ClientRetransmit ==
    /\ ~reliable /\ cstate = "Init" /\ cRetx = 0
    /\ \/ Transmit("invite") /\ cN' = cN * 2 /\ cRetx' = cN' /\ UNCHANGED cstate
       \/ cstate' = "Failed" /\ UNCHANGED <<cN, cRetx, netVars>>
    /\ UNCHANGED <<reliable, cLeft, told, serverVars>>

(* receive runs into its timeout: Err(RequestTimedOut), or Ok(None) once a *)
(* 2xx was accepted.                                                       *)
ClientTimeout ==
    /\ cstate \in {"Init", "Proceeding", "Accepted"} /\ cLeft = 0
    /\ cstate' = IF cstate = "Accepted" THEN "Terminated" ELSE "TimedOut"
    /\ UNCHANGED <<reliable, cLeft, cRetx, cN, told, serverVars, netVars>>

(* ClientInvTsx::handle_msg.  A 2xx is acknowledged by the user, a failure *)
(* by the transaction; when that ACK cannot be sent the registration is    *)
(* gone with the error.                                                    *)
HandleProvisional(m) ==
    /\ cstate \in {"Init", "Proceeding"} /\ m.kind = "prov"
    /\ Delivered(m)
    /\ cLeft' = ProvTimeout /\ cstate' = "Proceeding"
    /\ told' = told \cup {"prov"}
    /\ UNCHANGED <<reliable, cRetx, cN, serverVars>>

HandleSuccess(m) ==
    /\ cstate \in {"Init", "Proceeding"} /\ m.kind = "ok"
    /\ DeliveredThenSent(m, "ack2")
    /\ cLeft' = Timeout /\ cstate' = "Accepted"
    /\ told' = told \cup {"ok"}
    /\ UNCHANGED <<reliable, cRetx, cN, serverVars>>

HandleFailure(m) ==
    /\ cstate \in {"Init", "Proceeding"} /\ m.kind = "fail"
    /\ \/ /\ DeliveredThenSent(m, "ack")
          /\ cstate' = IF reliable THEN "Terminated" ELSE "Completed"
          /\ told' = told \cup {"fail"}
       \/ /\ Delivered(m)
          /\ cstate' = "Failed"
          /\ UNCHANGED told
    /\ cLeft' = Timeout
    /\ UNCHANGED <<reliable, cRetx, cN, serverVars>>
(* Mutant: a repeated 2xx is not acknowledged.                             *)
ReceiveAcceptedSilent(m) ==
    /\ cstate = "Accepted" /\ m.kind \in Responses
    /\ Delivered(m)
    /\ told' = told \cup {m.kind}
    /\ UNCHANGED <<reliable, cstate, cLeft, cRetx, cN, serverVars>>

(* State::Accepted: whatever comes is handed to the user, who acknowledges *)
(* a 2xx again.                                                            *)
ReceiveAccepted(m) ==
    /\ cstate = "Accepted" /\ m.kind \in Responses
    /\ IF m.kind = "ok" THEN DeliveredThenSent(m, "ack2") ELSE Delivered(m)
    /\ told' = told \cup {m.kind}
    /\ UNCHANGED <<reliable, cstate, cLeft, cRetx, cN, serverVars>>

(* State::Completed: the spawned task answers whatever comes with the ACK. *)
AcknowledgeAgain(m) ==
    /\ cstate = "Completed" /\ m.kind \in Responses
    /\ DeliveredThenSent(m, "ack")
    /\ UNCHANGED <<clientVars, serverVars>>

ClientAbsorbed ==
    /\ cstate = "Completed" /\ cLeft = 0
    /\ cstate' = "Terminated"
    /\ UNCHANGED <<reliable, cLeft, cRetx, cN, told, serverVars, netVars>>

(* Without registration a response is an orphan of the endpoint.           *)
ClientOrphan(m) ==
    /\ ~ClientRegistered /\ m.kind \in Responses
    /\ Delivered(m)
    /\ UNCHANGED <<clientVars, serverVars>>

-----------------------------------------------------------------------------
(* The INVITE finds no registration: it is a new one for the layers, and   *)
(* the acceptor makes a ServerInvTsx of it.                                *)
ServerNew(m) ==
    /\ sstate = "None" /\ m.kind = "invite"
    /\ Delivered(m)
    /\ sstate' = "User" /\ sLeft' = Think /\ sQueue' = <<>> /\ sTries' = 0
    /\ outcome' = "none" /\ provs' = 0 /\ served' = served + 1
    /\ UNCHANGED <<clientVars, sRetx, sN>>

(* What carries the INVITE's branch goes to the registration, save the ACK *)
(* that add_filter keeps out after a 2xx.                                  *)
ServerQueue(m) ==
    /\ \/ sstate # "None" /\ m.kind = "invite"
       \/ sstate \in {"User", "Failing"} /\ m.kind = "ack"
    /\ Delivered(m)
    /\ sQueue' = Append(sQueue, m.kind)
    /\ UNCHANGED <<clientVars, sstate, sLeft, sRetx, sN, sTries, outcome, provs, served>>

(* An ACK that neither a transaction nor an awaited_ack wants is ignored.  *)
ServerStrayAck(m) ==
    /\ \/ sstate \in {"None", "Accepting"} /\ m.kind = "ack"
       \/ sstate # "Accepting" /\ m.kind = "ack2"
    /\ Delivered(m)
    /\ UNCHANGED <<clientVars, serverVars>>

(* The user keeps the transaction when the response cannot be sent.        *)
RespondProvisional ==
    /\ sstate = "User" /\ provs < MaxProv
    /\ provs' = provs + 1
    /\ Transmit("prov") \/ UNCHANGED netVars
    /\ UNCHANGED <<clientVars, sstate, sLeft, sRetx, sN, sQueue, sTries, outcome, served>>

(* ServerInvTsx::respond_success, then receive_ack.                        *)
RespondSuccess ==
    /\ sstate = "User"
    /\ Transmit("ok")
    /\ sstate' = "Accepting" /\ sTries' = 1 /\ sRetx' = T1
    /\ UNCHANGED <<clientVars, sLeft, sN, sQueue, outcome, provs, served>>

ReceiveAck(m) ==
    /\ sstate = "Accepting" /\ m.kind = "ack2"
    /\ Delivered(m)
    /\ sstate' = "None" /\ outcome' = "established"
    /\ UNCHANGED <<clientVars, sLeft, sRetx, sN, sQueue, sTries, provs, served>>

(* A wait of receive_ack ends: the 2xx is sent again, and the last time    *)
(* Err(RequestTimedOut) is returned with it.                               *)
AcceptingTimeout ==
    /\ sstate = "Accepting" /\ sRetx = 0
    /\ Transmit("ok")
    /\ IF sTries = AckTries
       THEN sstate' = "None" /\ outcome' = "unacknowledged" /\ UNCHANGED <<sTries, sRetx>>
       ELSE /\ sTries' = sTries + 1
            /\ sRetx' = IF T1 * 2 < T2 THEN T1 * 2 ELSE T2
            /\ UNCHANGED <<sstate, outcome>>
    /\ UNCHANGED <<clientVars, sLeft, sN, sQueue, provs, served>>

(* ServerInvTsx::respond_failure up to its loop; abandoning takes an       *)
(* instant strictly after Timeout.                                         *)
RespondFailure ==
    /\ sstate = "User"
    /\ Transmit("fail")
    /\ sstate' = "Failing" /\ sTries' = 1
    /\ sLeft' = Timeout + 1 /\ sN' = T1 /\ sRetx' = T1
    /\ UNCHANGED <<clientVars, sQueue, outcome, provs, served>>
(* Mutant: whatever comes is taken for the ACK.                            *)
FailingReceiveAny ==
    /\ sstate = "Failing" /\ sQueue # <<>>
    /\ sQueue' = Tail(sQueue)
    /\ sstate' = "None" /\ outcome' = "acknowledged"
    /\ UNCHANGED <<clientVars, sLeft, sRetx, sN, sTries, provs, served, netVars>>

(* The loop receives: an INVITE has the response sent again, an ACK ends   *)
(* the transaction and drops its registration.                             *)
FailingReceive ==
    /\ sstate = "Failing" /\ sQueue # <<>>
    /\ sQueue' = Tail(sQueue)
    /\ IF Head(sQueue) = "ack"
       THEN sstate' = "None" /\ outcome' = "acknowledged" /\ UNCHANGED netVars
       ELSE Transmit("fail") /\ UNCHANGED <<sstate, outcome>>
    /\ UNCHANGED <<clientVars, sLeft, sRetx, sN, sTries, provs, served>>
(* Mutant: the retransmission is never abandoned.                          *)
FailingForever ==
    /\ sstate = "Failing" /\ sQueue = <<>> /\ sRetx = 0
    /\ sRetx' = T2
    /\ UNCHANGED <<clientVars, sstate, sLeft, sN, sQueue, sTries, outcome, provs, served,
                   netVars>>

(* The loop's retransmission timer fires.                                  *)
FailingTimeout ==
    /\ sstate = "Failing" /\ sQueue = <<>> /\ sRetx = 0
    /\ IF sLeft = 0
       THEN /\ sstate' = "None" /\ outcome' = "timedout"
            /\ UNCHANGED <<sTries, sN, sRetx, netVars>>
       ELSE /\ Transmit("fail")
            /\ sTries' = sTries + 1
            /\ sN' = (IF sN * 2 < T2 THEN sN * 2 ELSE T2) /\ sRetx' = sN'
            /\ UNCHANGED <<sstate, outcome>>
    /\ UNCHANGED <<clientVars, sLeft, sQueue, provs, served>>

(* A final response cannot be sent, or not be sent again: the error is     *)
(* returned and the transaction dropped with its registration.             *)
SendFails ==
    /\ \/ sstate = "User"
       \/ sstate = "Failing" /\ sQueue # <<>> /\ Head(sQueue) = "invite"
       \/ sstate = "Failing" /\ sQueue = <<>> /\ sRetx = 0 /\ sLeft > 0
       \/ sstate = "Accepting" /\ sRetx = 0
    /\ sstate' = "None" /\ outcome' = "error"
    /\ UNCHANGED <<clientVars, sLeft, sRetx, sN, sQueue, sTries, provs, served, netVars>>

-----------------------------------------------------------------------------
Due ==
    \/ ClientRegistered /\ cLeft = 0
    \/ cstate = "Init" /\ ~reliable /\ cRetx = 0
    \/ sstate = "User" /\ sLeft = 0
    \/ sstate = "Failing" /\ (sRetx = 0 \/ sQueue # <<>>)
    \/ sstate = "Accepting" /\ sRetx = 0
    \/ Network!Overdue(net)

Dec(n) == IF n = 0 THEN 0 ELSE n - 1

Tick ==
    /\ ~Due
    /\ cLeft' = Dec(cLeft) /\ cRetx' = Dec(cRetx)
    /\ sLeft' = Dec(sLeft) /\ sRetx' = Dec(sRetx)
    /\ net' = Network!Age(net)
    /\ UNCHANGED <<reliable, cstate, cN, told, sstate, sN, sQueue, sTries, outcome, provs,
                   served, lost, dups>>

ClientReceive(m) == HandleProvisional(m) \/ HandleSuccess(m) \/ HandleFailure(m)
                      \/ ReceiveAccepted(m) \/ AcknowledgeAgain(m) \/ ClientOrphan(m)
Client == ClientRetransmit \/ ClientTimeout \/ ClientAbsorbed
ServerReceive(m) == ServerNew(m) \/ ServerQueue(m) \/ ServerStrayAck(m) \/ ReceiveAck(m)
Server == RespondProvisional \/ RespondSuccess \/ RespondFailure
            \/ AcceptingTimeout \/ FailingReceive \/ FailingTimeout \/ SendFails

Next == \/ Client
        \/ Server
        \/ \E m \in Network!InFlight(net) : ClientReceive(m) \/ ServerReceive(m) \/ Lose(m)
        \/ Tick

(* tokio runs every task that is ready and its timers fire.                *)
Spec == Init /\ [][Next]_vars /\ WF_vars(Next)

-----------------------------------------------------------------------------
(* The called side draws no wrong conclusion: respond_failure returns      *)
(* Ok(()) only if the calling user was told of the failure, respond_success*)
(* hands out a session only if the calling user was told of the success,   *)
(* even when a stale ACK meets a later transaction of the same branch.     *)
OutcomeIsTrue ==
    /\ outcome = "acknowledged" => "fail" \in told
    /\ outcome = "established" => "ok" \in told

(* respond_failure and respond_success give up only if each of their       *)
(* rounds lost the response or the ACK, or if the caller is no longer      *)
(* there: ClientInvTsx answers every copy of a failure also after the user *)
(* has had it, and nine waits for the ACK of a 2xx bear any eight losses.  *)
RoundsSuffice ==
    outcome \in {"timedout", "unacknowledged"} /\ served = 1 =>
        lost >= sTries \/ cstate \in {"TimedOut", "Failed"}

(* Both sides let go of the transaction in the end, whatever was lost and  *)
(* whatever the called user answered.                                      *)
EventuallyUnregistered == <>[](~ClientRegistered /\ sstate = "None")
=============================================================================
