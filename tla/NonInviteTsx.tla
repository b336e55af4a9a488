---------------------------- MODULE NonInviteTsx ----------------------------
(***************************************************************************)
(* One non-INVITE transaction between two endpoints: ClientTsx             *)
(* (transaction/client.rs) on one side, ServerTsx (transaction/server.rs)  *)
(* on the other, and between them a transport that is either reliable or   *)
(* may lose, duplicate, delay and reorder.  Time advances in ticks; every  *)
(* timer of the code is a count of the ticks it has left.                  *)
(***************************************************************************)
EXTENDS Naturals

CONSTANTS
    T2,         \* interval between retransmissions of the request
    T4,         \* how long a completed client absorbs further responses
    Timeout,    \* T1 * 64
    MaxDelay,   \* ticks a message may spend in the network
    Think,      \* ticks the server's user takes for its final response
    MaxLoss,    \* bound on messages lost
    MaxDup,     \* bound on messages duplicated
    MaxProv     \* bound on provisional responses

ASSUME TimerAssumption ==
    /\ {T2, T4, Timeout} \subseteq Nat \ {0}
    /\ {MaxDelay, Think, MaxLoss, MaxDup, MaxProv} \subseteq Nat

VARIABLES
    reliable, \* transport.reliable(), fixed once the transport is chosen
    cstate,   \* ClientTsx.state, or how the user's receive ended
    cLeft,    \* ticks until ClientTsx.timeout, or until the absorbing task ends
    cRetx,    \* ticks until the request is retransmitted
    sstate,   \* the server's registration: none, with the user, responded
    sLeft,    \* ticks the user, then the retransmitting task, has left
    sQueue,   \* retransmissions waiting in the server's registration
    provs,    \* provisional responses sent
    served,   \* how often the request reached the server's layers
    broken,   \* a send of the final response failed
    net,      \* messages under way, with the ticks they have left
    lost, dups

vars == <<reliable, cstate, cLeft, cRetx, sstate, sLeft, sQueue, provs, served, broken,
          net, lost, dups>>
clientVars == <<reliable, cstate, cLeft, cRetx>>
serverVars == <<sstate, sLeft, sQueue, provs, served, broken>>

Network == INSTANCE LossyNetwork WITH Kinds <- {"request", "prov", "final"}

(* The states in which a registration of the client's key is in the map.   *)
ClientRegistered == cstate \in {"Init", "Proceeding", "Completed"}

(* ClientTsx::send has registered the transaction and sent the request.    *)
Init ==
    /\ reliable \in BOOLEAN
    /\ cstate = "Init" /\ cLeft = Timeout /\ cRetx = T2
    /\ sstate = "None" /\ sLeft = 0 /\ sQueue = 0 /\ provs = 0 /\ served = 0
    /\ broken = FALSE
    /\ net = Network!Send(Network!Empty, "request")
    /\ lost = 0 /\ dups = 0

-----------------------------------------------------------------------------
(* What a delivery leaves of the network: an unreliable one may deliver a  *)
(* message again.                                                          *)
Delivered(m) ==
    /\ m \in Network!InFlight(net)
    /\ \/ net' = Network!Take(net, m) /\ UNCHANGED dups
       \/ ~reliable /\ dups < MaxDup /\ dups' = dups + 1 /\ net' = net

Transmit(kind) == net' = Network!Send(net, kind) /\ UNCHANGED <<lost, dups>>

Lose(m) ==
    /\ ~reliable /\ lost < MaxLoss
    /\ net' = Network!Take(net, m)
    /\ lost' = lost + 1
    /\ UNCHANGED <<clientVars, serverVars, dups>>

-----------------------------------------------------------------------------
(* ClientTsx::receive in State::Init over an unreliable transport: nothing *)
(* came for T2, the request is sent again; a send error is returned.       *)
ClientRetransmit ==
    /\ ~reliable /\ cstate = "Init" /\ cRetx = 0
    /\ \/ Transmit("request") /\ cRetx' = T2 /\ UNCHANGED cstate
       \/ cstate' = "Failed" /\ UNCHANGED <<net, lost, dups, cRetx>>
    /\ UNCHANGED <<reliable, cLeft, serverVars>>
(* Mutant: in State::Proceeding the timeout starts over.                   *)
ClientTimeoutRestarts ==
    /\ cstate \in {"Init", "Proceeding"}
    /\ cLeft = 0
    /\ cLeft' = Timeout
    /\ cstate' = IF cstate = "Init" THEN "TimedOut" ELSE cstate
    /\ UNCHANGED <<reliable, cRetx, serverVars, net, lost, dups>>

(* ClientTsx::receive: the timeout has passed, Err(RequestTimedOut).       *)
ClientTimeout ==
    /\ cstate \in {"Init", "Proceeding"}
    /\ cLeft = 0
    /\ cstate' = "TimedOut"
    /\ UNCHANGED <<reliable, cLeft, cRetx, serverVars, net, lost, dups>>

(* ClientTsx::handle_msg: a provisional response stops the retransmission; *)
(* a final one ends the transaction, and over an unreliable transport its  *)
(* registration is kept for T4.                                            *)
HandleMsg(m) ==
    /\ cstate \in {"Init", "Proceeding"}
    /\ m.kind \in {"prov", "final"}
    /\ Delivered(m)
    /\ IF m.kind = "prov"
       THEN cstate' = "Proceeding" /\ UNCHANGED cLeft
       ELSE /\ cstate' = IF reliable THEN "Terminated" ELSE "Completed"
            /\ cLeft' = T4
    /\ UNCHANGED <<reliable, cRetx, serverVars, lost>>

(* A response after the final one is tossed by the spawned task, or finds  *)
(* no registration and is an orphan of the endpoint.                       *)
ClientDiscard(m) ==
    /\ cstate \notin {"Init", "Proceeding"}
    /\ m.kind \in {"prov", "final"}
    /\ Delivered(m)
    /\ UNCHANGED <<clientVars, serverVars, lost>>

(* The spawned task ends and drops the registration.                       *)
ClientAbsorbed ==
    /\ cstate = "Completed" /\ cLeft = 0
    /\ cstate' = "Terminated"
    /\ UNCHANGED <<reliable, cLeft, cRetx, serverVars, net, lost, dups>>

-----------------------------------------------------------------------------
(* A request without registration: the endpoint registers it and gives it  *)
(* to the layers, whose user makes a ServerTsx of it.                      *)
ServerNew(m) ==
    /\ sstate = "None" /\ m.kind = "request"
    /\ Delivered(m)
    /\ sstate' = "User" /\ sLeft' = Think /\ sQueue' = 0 /\ provs' = 0
    /\ served' = served + 1
    /\ UNCHANGED <<clientVars, broken, lost>>

(* A retransmission waits in the registration until somebody receives.     *)
ServerQueue(m) ==
    /\ sstate # "None" /\ m.kind = "request"
    /\ Delivered(m)
    /\ sQueue' = sQueue + 1
    /\ UNCHANGED <<clientVars, sstate, sLeft, provs, served, broken, lost>>

(* ServerTsx::respond_provisional; the user keeps the transaction when the *)
(* response cannot be sent.                                                *)
RespondProvisional ==
    /\ sstate = "User" /\ provs < MaxProv
    /\ provs' = provs + 1
    /\ Transmit("prov") \/ UNCHANGED <<net, lost, dups>>
    /\ UNCHANGED <<clientVars, sstate, sLeft, sQueue, served, broken>>
(* Mutant: the transaction ends with the response on every transport.      *)
RespondForgets ==
    /\ sstate = "User"
    /\ Transmit("final")
    /\ sstate' = "None"
    /\ UNCHANGED <<clientVars, sLeft, sQueue, provs, served, broken>>

(* ServerTsx::respond: over a reliable transport the transaction ends with *)
(* the response sent, else a task retransmits it for T1 * 64.              *)
Respond ==
    /\ sstate = "User"
    /\ Transmit("final")
    /\ IF reliable
       THEN sstate' = "None" /\ UNCHANGED sLeft
       ELSE sstate' = "Responded" /\ sLeft' = Timeout
    /\ UNCHANGED <<clientVars, sQueue, provs, served, broken>>

(* The response cannot be sent: the error is returned and the transaction  *)
(* is dropped with its registration.                                       *)
RespondFails ==
    /\ sstate = "User"
    /\ sstate' = "None"
    /\ broken' = TRUE
    /\ UNCHANGED <<clientVars, sLeft, sQueue, provs, served, net, lost, dups>>

(* Mutant: the task swallows the request.                                  *)
ServerSwallow ==
    /\ sstate = "Responded" /\ sQueue > 0
    /\ sQueue' = sQueue - 1
    /\ UNCHANGED <<clientVars, sstate, sLeft, provs, served, broken, net, lost, dups>>

(* The spawned task: every request received has the response sent again; a *)
(* failed send is only logged, so it is a loss.                            *)
ServerRetransmit ==
    /\ sstate = "Responded" /\ sQueue > 0
    /\ sQueue' = sQueue - 1
    /\ Transmit("final")
    /\ UNCHANGED <<clientVars, sstate, sLeft, provs, served, broken>>

(* The task abandons, and with it the registration goes.                   *)
ServerAbandon ==
    /\ sstate = "Responded" /\ sLeft = 0 /\ sQueue = 0
    /\ sstate' = "None"
    /\ UNCHANGED <<clientVars, sLeft, sQueue, provs, served, broken, net, lost, dups>>

-----------------------------------------------------------------------------
(* Time passes when no timer is due and nothing waits to be done at once.  *)
Due ==
    \/ cstate \in {"Init", "Proceeding", "Completed"} /\ cLeft = 0
    \/ cstate = "Init" /\ ~reliable /\ cRetx = 0
    \/ sstate \in {"User", "Responded"} /\ sLeft = 0
    \/ sstate = "Responded" /\ sQueue > 0
    \/ Network!Overdue(net)

Dec(n) == IF n = 0 THEN 0 ELSE n - 1

Tick ==
    /\ ~Due
    /\ cLeft' = Dec(cLeft) /\ cRetx' = Dec(cRetx) /\ sLeft' = Dec(sLeft)
    /\ net' = Network!Age(net)
    /\ UNCHANGED <<reliable, cstate, sstate, sQueue, provs, served, broken, lost, dups>>

Client == ClientRetransmit \/ ClientTimeout \/ ClientAbsorbed
            \/ \E m \in Network!InFlight(net) : HandleMsg(m) \/ ClientDiscard(m)
Server == RespondProvisional \/ Respond \/ RespondFails \/ ServerRetransmit \/ ServerAbandon
            \/ \E m \in Network!InFlight(net) : ServerNew(m) \/ ServerQueue(m)

Next == Client \/ Server \/ (\E m \in Network!InFlight(net) : Lose(m)) \/ Tick

(* tokio runs every task that is ready and its timers fire, so something   *)
(* happens whenever something can.                                         *)
Spec == Init /\ [][Next]_vars /\ WF_vars(Next)

-----------------------------------------------------------------------------
(* Types: the states and timers of the two transactions.                   *)
TypeOK ==
    /\ reliable \in BOOLEAN
    /\ cstate \in {"Init", "Proceeding", "Completed", "Terminated", "TimedOut", "Failed"}
    /\ sstate \in {"None", "User", "Responded"}
    /\ {cLeft, cRetx, sLeft, sQueue, provs, served, lost, dups} \subseteq Nat
    /\ broken \in BOOLEAN
    /\ net \in Network!Networks

(* The answers to every copy of the request sent in a whole Timeout were   *)
(* lost (one per T2; a lost request is a lost answer too).                 *)
AllLost == lost * T2 >= Timeout

(* The request reaches the server's user once although it is retransmitted *)
(* and duplicated: the server's registration outlives the copies of it.    *)
(* The one way to a second time is a copy sent as the client's timeout     *)
(* expires, and then no answer came through at all, or an answer that      *)
(* could not be sent.                                                      *)
AtMostOnce == served > 1 => AllLost \/ broken

(* A final response gets through unless every copy is lost, or unless a    *)
(* provisional one was sent: ClientTsx stops to retransmit in Proceeding,  *)
(* so that a single lost final response makes receive time out.            *)
LossTolerance == cstate = "TimedOut" => AllLost \/ (provs > 0 /\ lost > 0) \/ broken

(* Both registrations are gone in the end, whatever was lost.              *)
EventuallyUnregistered == <>[](~ClientRegistered /\ sstate = "None")
=============================================================================
