----------------------------- MODULE TsxProofs -----------------------------
(***************************************************************************)
(* Proofs about the INVITE and the non-INVITE transaction, for any timers, *)
(* any delay and any number of lost, repeated and overtaken messages.      *)
(*                                                                         *)
(* Of the INVITE transaction: what the called side concludes about the     *)
(* calling one is true; and, when the timers fit the network, it gives up  *)
(* only after every one of its rounds was lost.  Of the non-INVITE one,    *)
(* when its timers fit: the client gives up only after every copy of the   *)
(* request was lost, and the request is served once.                       *)
(***************************************************************************)
EXTENDS InviteTsx, SequenceTheorems, TLAPS

(* The kinds of what is under way in n.                                    *)
KindsIn(n) == {m.kind : m \in Network!InFlight(n)}

-----------------------------------------------------------------------------
(* What may be under way after a message was sent, was taken, or has aged. *)
LEMMA NetworkEmpty == Network!Empty \in Network!Networks /\ KindsIn(Network!Empty) = {}
BY DEF Network!Empty, Network!Networks, KindsIn, Network!InFlight

LEMMA NetworkSend ==
    ASSUME NEW n \in Network!Networks, NEW k \in Kinds
    PROVE  /\ Network!Send(n, k) \in Network!Networks
           /\ KindsIn(Network!Send(n, k)) \subseteq KindsIn(n) \cup {k}
<1> DEFINE x == [kind |-> k, left |-> MaxDelay]
<1>1. x \in Network!Message /\ x.kind = k
  BY TimerAssumption DEF Network!Message
<1>2. n \in [Network!Message -> Nat]
  BY DEF Network!Networks
<1>3. Network!Send(n, k) = [n EXCEPT ![x] = n[x] + 1]
  BY DEF Network!Send
<1> HIDE DEF x
<1>4. Network!Send(n, k) \in Network!Networks
  BY <1>1, <1>2, <1>3 DEF Network!Networks
<1>5. ASSUME NEW m \in Network!Message, Network!Send(n, k)[m] > 0
      PROVE  m.kind \in KindsIn(n) \cup {k}
  <2>1. CASE m = x
    BY <1>1, <2>1
  <2>2. CASE m # x
    BY <1>2, <1>3, <1>5, <2>2 DEF KindsIn, Network!InFlight
  <2> QED BY <2>1, <2>2
<1> QED BY <1>4, <1>5 DEF KindsIn, Network!InFlight

LEMMA NetworkTake ==
    ASSUME NEW n \in Network!Networks, NEW m \in Network!InFlight(n)
    PROVE  /\ Network!Take(n, m) \in Network!Networks
           /\ KindsIn(Network!Take(n, m)) \subseteq KindsIn(n)
           /\ m.kind \in KindsIn(n) /\ m.kind \in Kinds
<1>1. n \in [Network!Message -> Nat] /\ m \in Network!Message /\ n[m] > 0
  BY DEF Network!Networks, Network!InFlight
<1>2. Network!Take(n, m) = [n EXCEPT ![m] = n[m] - 1]
  BY DEF Network!Take
<1>3. Network!Take(n, m) \in Network!Networks
  BY <1>1, <1>2 DEF Network!Networks
<1>4. \A x \in Network!Message : Network!Take(n, m)[x] > 0 => n[x] > 0
  BY <1>1, <1>2
<1>5. m.kind \in KindsIn(n) /\ m.kind \in Kinds
  BY <1>1 DEF KindsIn, Network!Message
<1> QED BY <1>3, <1>4, <1>5 DEF KindsIn, Network!InFlight

LEMMA NetworkAge ==
    ASSUME NEW n \in Network!Networks
    PROVE  /\ Network!Age(n) \in Network!Networks
           /\ KindsIn(Network!Age(n)) \subseteq KindsIn(n)
<1>1. n \in [Network!Message -> Nat] /\ MaxDelay \in Nat
  BY TimerAssumption DEF Network!Networks
<1>2. ASSUME NEW m \in Network!Message, m.left # MaxDelay
      PROVE  [m EXCEPT !.left = m.left + 1] \in Network!Message
             /\ [m EXCEPT !.left = m.left + 1].kind = m.kind
  BY <1>1, <1>2 DEF Network!Message
<1>3. \A m \in Network!Message :
         Network!Age(n)[m] = IF m.left = MaxDelay THEN 0 ELSE n[[m EXCEPT !.left = m.left + 1]]
  BY DEF Network!Age
<1>4. Network!Age(n) \in Network!Networks
  BY <1>1, <1>2 DEF Network!Networks, Network!Age
<1>5. ASSUME NEW m \in Network!Message, Network!Age(n)[m] > 0 PROVE m.kind \in KindsIn(n)
  <2>1. m.left # MaxDelay
    <3> SUFFICES ASSUME m.left = MaxDelay PROVE FALSE
      OBVIOUS
    <3>1. Network!Age(n)[m] = 0
      BY <1>3
    <3> QED BY <1>5, <3>1
  <2> DEFINE x == [m EXCEPT !.left = m.left + 1]
  <2>2. x \in Network!Message /\ x.kind = m.kind /\ n[x] > 0
    BY <1>2, <1>3, <1>5, <2>1
  <2> HIDE DEF x
  <2> QED BY <2>2 DEF KindsIn, Network!InFlight
<1> QED BY <1>4, <1>5 DEF KindsIn, Network!InFlight

-----------------------------------------------------------------------------
(* An ACK exists, in the network or the server's registration, only of     *)
(* what the calling user was told: the ACK of a failure is sent by the     *)
(* transaction that reports it, the ACK of a 2xx by the user.              *)
AckInv ==
    /\ net \in Network!Networks
    /\ sQueue \in Seq(Kinds)
    /\ "ack" \in KindsIn(net) \/ cstate = "Completed" => "fail" \in told
    /\ "ack2" \in KindsIn(net) => "ok" \in told
    /\ \A i \in DOMAIN sQueue : sQueue[i] = "ack" => "fail" \in told
    /\ OutcomeIsTrue

(* The network after a delivery, and after one that is answered.           *)
LEMMA DeliveryKinds ==
    ASSUME net \in Network!Networks, NEW m \in Network!InFlight(net), Delivered(m)
    PROVE  net' \in Network!Networks /\ KindsIn(net') \subseteq KindsIn(net)
           /\ m.kind \in KindsIn(net) /\ m.kind \in Kinds
BY NetworkTake DEF Delivered, After

LEMMA AnsweredKinds ==
    ASSUME net \in Network!Networks, NEW m \in Network!InFlight(net), NEW k \in Kinds,
           DeliveredThenSent(m, k)
    PROVE  net' \in Network!Networks /\ KindsIn(net') \subseteq KindsIn(net) \cup {k}
<1>1. PICK a \in After(m) : net' = Network!Send(a.net, k)
  BY DEF DeliveredThenSent
<1>2. a.net \in Network!Networks /\ KindsIn(a.net) \subseteq KindsIn(net)
  BY NetworkTake DEF After
<1> QED BY <1>1, <1>2, NetworkSend

LEMMA AckInit == Init => AckInv
<1> SUFFICES ASSUME Init PROVE AckInv
  OBVIOUS
<1>1. "invite" \in Kinds
  BY DEF Kinds
<1>2. net \in Network!Networks /\ KindsIn(net) \subseteq {"invite"}
  BY <1>1, NetworkEmpty, NetworkSend DEF Init
<1>3. sQueue \in Seq(Kinds) /\ DOMAIN sQueue = {} /\ outcome = "none" /\ cstate = "Init"
  BY DEF Init
<1> QED BY <1>2, <1>3 DEF AckInv, OutcomeIsTrue

LEMMA AckNext == AckInv /\ [Next]_vars => AckInv'
<1> SUFFICES ASSUME AckInv, [Next]_vars PROVE AckInv'
  OBVIOUS
<1>0. Responses \subseteq Kinds /\ {"invite", "ack", "ack2"} \subseteq Kinds
      /\ "ack" \notin Responses /\ "ack2" \notin Responses /\ "prov" \in Kinds /\ "ok" \in Kinds
      /\ "fail" \in Kinds
  BY DEF Kinds, Responses
<1>t. /\ net \in Network!Networks /\ sQueue \in Seq(Kinds) /\ OutcomeIsTrue
      /\ "ack" \in KindsIn(net) => "fail" \in told
      /\ cstate = "Completed" => "fail" \in told
      /\ "ack2" \in KindsIn(net) => "ok" \in told
      /\ \A i \in DOMAIN sQueue : sQueue[i] = "ack" => "fail" \in told
  BY DEF AckInv
(* A step that sends at most k, which is no ACK, and changes no more.      *)
<1>s. ASSUME net' \in Network!Networks, NEW k \in Kinds \ {"ack", "ack2"},
             KindsIn(net') \subseteq KindsIn(net) \cup {k}, UNCHANGED sQueue, told \subseteq told',
             cstate' = "Completed" => cstate = "Completed",
             outcome' \in {outcome, "none", "timedout", "unacknowledged", "error"}
      PROVE  AckInv'
  BY <1>s, <1>t DEF AckInv, OutcomeIsTrue
<1>1. CASE Client
  <2>1. CASE ClientRetransmit
    <3>1. /\ UNCHANGED <<sQueue, told, outcome>> /\ cstate' \in {cstate, "Failed"}
          /\ net' = net \/ net' = Network!Send(net, "invite")
      BY <2>1 DEF ClientRetransmit, Transmit, serverVars, netVars
    <3>2. net' \in Network!Networks /\ KindsIn(net') \subseteq KindsIn(net) \cup {"invite"}
      BY <1>0, <1>t, <3>1, NetworkSend
    <3> QED BY <1>0, <1>s, <3>1, <3>2
  <2>2. CASE ClientTimeout \/ ClientAbsorbed
    BY <1>0, <1>s, <1>t, <2>2 DEF ClientTimeout, ClientAbsorbed, serverVars, netVars
  <2> QED BY <1>1, <2>1, <2>2 DEF Client
<1>2. CASE Server
  <2>1. CASE RespondProvisional
    <3>1. /\ UNCHANGED <<sQueue, told, outcome, cstate>>
          /\ net' = net \/ net' = Network!Send(net, "prov")
      BY <2>1 DEF RespondProvisional, Transmit, clientVars, netVars
    <3>2. net' \in Network!Networks /\ KindsIn(net') \subseteq KindsIn(net) \cup {"prov"}
      BY <1>0, <1>t, <3>1, NetworkSend
    <3> QED BY <1>0, <1>s, <3>1, <3>2
  <2>2. CASE RespondSuccess
    BY <1>0, <1>s, <1>t, <2>2, NetworkSend DEF RespondSuccess, Transmit, clientVars
  <2>3. CASE RespondFailure
    <3>1. UNCHANGED <<sQueue, told, outcome, cstate>> /\ net' = Network!Send(net, "fail")
      BY <2>3 DEF RespondFailure, Transmit, clientVars
    <3>2. net' \in Network!Networks /\ KindsIn(net') \subseteq KindsIn(net) \cup {"fail"}
      BY <1>0, <1>t, <3>1, NetworkSend
    <3> QED BY <1>0, <1>s, <3>1, <3>2
  <2>4. CASE AcceptingTimeout
    BY <1>0, <1>s, <1>t, <2>4, NetworkSend DEF AcceptingTimeout, Transmit, clientVars
  <2>5. CASE FailingTimeout
    BY <1>0, <1>s, <1>t, <2>5, NetworkSend DEF FailingTimeout, Transmit, clientVars, netVars
  <2>6. CASE SendFails
    BY <1>0, <1>s, <1>t, <2>6 DEF SendFails, clientVars, netVars
  <2>7. CASE FailingReceive
    <3>1. sQueue # <<>> /\ sQueue' = Tail(sQueue) /\ UNCHANGED <<told, cstate>>
      BY <2>7 DEF FailingReceive, clientVars
    <3>2. /\ sQueue' \in Seq(Kinds) /\ Head(sQueue) = sQueue[1] /\ 1 \in DOMAIN sQueue
          /\ \A i \in DOMAIN sQueue' : sQueue'[i] = sQueue[i + 1] /\ i + 1 \in DOMAIN sQueue
      BY <1>t, <3>1
    <3>3. /\ net' \in Network!Networks /\ KindsIn(net') \subseteq KindsIn(net) \cup {"fail"}
          /\ outcome' = outcome \/ (outcome' = "acknowledged" /\ Head(sQueue) = "ack")
      <4>1. /\ net' = net \/ net' = Network!Send(net, "fail")
            /\ outcome' = outcome \/ (outcome' = "acknowledged" /\ Head(sQueue) = "ack")
        BY <2>7 DEF FailingReceive, Transmit, netVars
      <4> QED BY <1>0, <1>t, <4>1, NetworkSend
    <3> QED BY <1>t, <3>1, <3>2, <3>3 DEF AckInv, OutcomeIsTrue
  <2> QED BY <1>2, <2>1, <2>2, <2>3, <2>4, <2>5, <2>6, <2>7 DEF Server
<1>3. ASSUME NEW m \in Network!InFlight(net), ClientReceive(m) PROVE AckInv'
  <2>1. CASE HandleProvisional(m)
    BY <1>0, <1>s, <1>t, <2>1, DeliveryKinds DEF HandleProvisional, serverVars
  <2>2. CASE HandleSuccess(m)
    <3>1. net' \in Network!Networks /\ KindsIn(net') \subseteq KindsIn(net) \cup {"ack2"}
      BY <1>0, <1>t, <2>2, AnsweredKinds DEF HandleSuccess
    <3> QED BY <1>t, <2>2, <3>1 DEF HandleSuccess, serverVars, AckInv, OutcomeIsTrue
  <2>3. CASE HandleFailure(m)
    <3>1. CASE DeliveredThenSent(m, "ack") /\ told' = told \cup {"fail"}
      <4>1. net' \in Network!Networks /\ KindsIn(net') \subseteq KindsIn(net) \cup {"ack"}
        BY <1>0, <1>t, <3>1, AnsweredKinds
      <4> QED BY <1>t, <2>3, <3>1, <4>1 DEF HandleFailure, serverVars, AckInv, OutcomeIsTrue
    <3>2. CASE Delivered(m) /\ cstate' = "Failed" /\ UNCHANGED told
      BY <1>0, <1>s, <1>t, <2>3, <3>2, DeliveryKinds DEF HandleFailure, serverVars
    <3> QED BY <2>3, <3>1, <3>2 DEF HandleFailure
  <2>4. CASE ReceiveAccepted(m)
    <3>1. CASE m.kind = "ok"
      <4>1. net' \in Network!Networks /\ KindsIn(net') \subseteq KindsIn(net) \cup {"ack2"}
        BY <1>0, <1>t, <2>4, <3>1, AnsweredKinds DEF ReceiveAccepted
      <4> QED BY <1>t, <2>4, <3>1, <4>1 DEF ReceiveAccepted, serverVars, AckInv, OutcomeIsTrue
    <3>2. CASE m.kind # "ok"
      BY <1>0, <1>s, <1>t, <2>4, <3>2, DeliveryKinds DEF ReceiveAccepted, serverVars
    <3> QED BY <3>1, <3>2
  <2>5. CASE AcknowledgeAgain(m)
    <3>1. net' \in Network!Networks /\ KindsIn(net') \subseteq KindsIn(net) \cup {"ack"}
      BY <1>0, <1>t, <2>5, AnsweredKinds DEF AcknowledgeAgain
    <3> QED BY <1>t, <2>5, <3>1 DEF AcknowledgeAgain, clientVars, serverVars, AckInv, OutcomeIsTrue
  <2>6. CASE ClientOrphan(m)
    BY <1>0, <1>s, <1>t, <2>6, DeliveryKinds DEF ClientOrphan, clientVars, serverVars
  <2> QED BY <1>3, <2>1, <2>2, <2>3, <2>4, <2>5, <2>6 DEF ClientReceive
<1>4. ASSUME NEW m \in Network!InFlight(net), ServerReceive(m) PROVE AckInv'
  <2>0. Delivered(m) /\ UNCHANGED <<told, cstate>>
    BY <1>4 DEF ServerReceive, ServerNew, ServerQueue, ServerStrayAck, ReceiveAck, clientVars
  <2>k. /\ net' \in Network!Networks /\ KindsIn(net') \subseteq KindsIn(net)
        /\ m.kind \in KindsIn(net) /\ m.kind \in Kinds
    BY <1>t, <2>0, DeliveryKinds
  <2>1. CASE ServerNew(m)
    <3>1. sQueue' = <<>> /\ outcome' = "none"
      BY <2>1 DEF ServerNew
    <3>2. sQueue' \in Seq(Kinds) /\ DOMAIN sQueue' = {}
      BY <3>1
    <3> QED BY <1>t, <2>0, <2>k, <3>1, <3>2 DEF AckInv, OutcomeIsTrue
  <2>2. CASE ServerQueue(m)
    <3>1. sQueue' = Append(sQueue, m.kind) /\ outcome' = outcome
      BY <2>2 DEF ServerQueue
    <3>2. /\ sQueue' \in Seq(Kinds)
          /\ \A i \in DOMAIN sQueue' : (i \in DOMAIN sQueue /\ sQueue'[i] = sQueue[i])
                                       \/ sQueue'[i] = m.kind
      BY <1>t, <2>k, <3>1
    <3> QED BY <1>t, <2>0, <2>k, <3>1, <3>2 DEF AckInv, OutcomeIsTrue
  <2>3. CASE ServerStrayAck(m)
    BY <1>t, <2>0, <2>3, <2>k DEF ServerStrayAck, serverVars, AckInv, OutcomeIsTrue
  <2>4. CASE ReceiveAck(m)
    BY <1>t, <2>0, <2>4, <2>k DEF ReceiveAck, AckInv, OutcomeIsTrue
  <2> QED BY <1>4, <2>1, <2>2, <2>3, <2>4 DEF ServerReceive
<1>5. ASSUME NEW m \in Network!InFlight(net), Lose(m) PROVE AckInv'
  BY <1>0, <1>s, <1>t, <1>5, NetworkTake DEF Lose, clientVars, serverVars
<1>6. CASE Tick
  BY <1>0, <1>s, <1>t, <1>6, NetworkAge DEF Tick
<1>7. CASE UNCHANGED vars
  BY <1>t, <1>7 DEF vars, clientVars, serverVars, netVars, AckInv, OutcomeIsTrue
<1> QED BY <1>1, <1>2, <1>3, <1>4, <1>5, <1>6, <1>7 DEF Next

(* The books about acknowledgements are right in every state.              *)
THEOREM AckInvariant == Spec => []AckInv
BY AckInit, AckNext, PTL DEF Spec

(* Hence the called side draws no wrong conclusion, whatever the timers,   *)
(* the delay and the losses are: neither a repeated nor an overtaken ACK,  *)
(* nor one that meets a later transaction, makes respond_failure or        *)
(* respond_success report what the calling user was not told.              *)
THEOREM OutcomesAreTrue == Spec => []OutcomeIsTrue
<1>1. AckInv => OutcomeIsTrue
  BY DEF AckInv
<1> QED BY <1>1, AckInvariant, PTL

-----------------------------------------------------------------------------
(* How many losses respond_failure and respond_success bear.               *)

(* The interval of receive_ack after the first one.                        *)
AckWait == IF T1 * 2 < T2 THEN T1 * 2 ELSE T2

(* When respond_failure sends, counted from its first response, each with  *)
(* the interval that follows: the least set closed under the timer's step. *)
Closed(S) ==
    /\ <<0, T1>> \in S
    /\ \A p \in S : <<p[1] + p[2], IF p[2] * 2 < T2 THEN p[2] * 2 ELSE T2>> \in S
Schedule == {p \in Nat \X Nat : \A S \in SUBSET (Nat \X Nat) : Closed(S) => p \in S}

(* T1 is an estimate of the round trip, and the second interval is longer; *)
(* receive_ack gives up before a client that has accepted does; and a      *)
(* failure that is sent again arrives while a client that had the first at *)
(* once still absorbs.  In the code: T1 is 500ms, T2 4s and Timeout 32s,   *)
(* receive_ack takes 8.5s, and the last failure is sent after 31.5s.       *)
RoundsFit ==
    /\ 0 < MaxDelay /\ 2 * MaxDelay <= T1 /\ 2 * MaxDelay < T2
    /\ AckTries > 1 /\ T1 + (AckTries - 1) * AckWait < Timeout
    /\ \A p \in Schedule : p[1] <= Timeout => p[1] + MaxDelay < Timeout

(* Among the messages F under way: the response of this round (R are the   *)
(* kinds the client answers, wait is the round's interval, of which retx   *)
(* is left); an ACK that arrives before the next round or, in the first    *)
(* one, with its end; one that is due, and one that is due later.          *)
Fresh(F, R, wait, retx) == \E m \in F : m.kind \in R /\ m.left + wait = MaxDelay + retx
Timely(F, ack, tries, retx) ==
    \E m \in F : m.kind = ack /\ (m.left < retx \/ (tries = 1 /\ m.left = retx))
DueAck(F, ack) == \E m \in F : m.kind = ack /\ m.left = 0
LaterAck(F, ack, retx) == \E m \in F : m.kind = ack /\ 0 < m.left /\ m.left < retx

(* Every round was lost; or all but one, whose response or ACK is on its   *)
(* way; or the ACK of the first round is due when the second one begins.   *)
Progress(F, tries, gone, retx, rel, R, ack, wait) ==
    \/ tries <= gone
    \/ tries <= gone + 1 /\ (Fresh(F, R, wait, retx) \/ Timely(F, ack, tries, retx))
    \/ /\ tries = 2 /\ retx = wait /\ DueAck(F, ack)
       /\ rel \/ Fresh(F, R, wait, retx) \/ LaterAck(F, ack, retx)

RoundWait == IF sTries = 1 THEN T1 ELSE AckWait
Waiting == cstate \in {"Init", "Proceeding"}

(* In receive_ack: a client that has accepted outlasts it.                 *)
AcceptingInv ==
    /\ outcome = "none" /\ "fail" \notin KindsIn(net) /\ sTries \in 1 .. AckTries /\ sRetx <= RoundWait
    /\ Waiting \/ cstate = "Accepted"
    /\ cstate = "Accepted" => cLeft > sRetx + (AckTries - sTries) * AckWait
    /\ Progress(Network!InFlight(net), sTries, lost, sRetx, reliable, {"ok"}, "ack2", RoundWait)

Answered == IF Waiting \/ cstate = "Completed" THEN {"fail"} ELSE {}

(* In the loop of respond_failure: the round has begun as scheduled; a     *)
(* client that has stopped to answer did so when all had been sent; and an *)
(* ACK waits in the registration unless progress is made.                  *)
ScheduleInv ==
    /\ outcome = "none" /\ sTries > 0 /\ sRetx <= sN
    /\ sTries = 1 => sN = T1 /\ sLeft + T1 >= Timeout + 1 + sRetx
    /\ sTries > 1 => 2 * MaxDelay < sN
    /\ sLeft <= Timeout + 1
    /\ \E t \in 0 .. Timeout :
          /\ <<t, sN>> \in Schedule
          /\ sLeft + t + sN >= Timeout + 1 + sRetx
          /\ sLeft > 0 => sLeft + t + sN = Timeout + 1 + sRetx
PeerInv ==
    \/ Waiting
    \/ cstate = "Completed" /\ ~reliable /\ cLeft + 1 >= sLeft
    \/ cstate = "Terminated" /\ (reliable \/ sLeft <= 1)
AckQueued == \E i \in DOMAIN sQueue : sQueue[i] = "ack"
FailingProgress == Progress(Network!InFlight(net), sTries, lost, sRetx, reliable, Answered, "ack", sN)
FailingInv == ScheduleInv /\ PeerInv /\ "ok" \notin KindsIn(net) /\ (AckQueued \/ FailingProgress)

CountersInv ==
    /\ {cLeft, sLeft, sRetx, sN, sTries, lost, served} \subseteq Nat
    /\ reliable \in BOOLEAN /\ (reliable => lost = 0)

(* The first transaction, until the client is gone.                        *)
FirstInv ==
    /\ served = 0 => sstate = "None" /\ outcome = "none" /\ KindsIn(net) \subseteq {"invite"} /\ Waiting
    /\ served = 1 =>
          /\ sstate \in {"None", "User", "Accepting", "Failing"}
          /\ sstate = "None" => RoundsSuffice
          /\ sstate = "User" => outcome = "none" /\ KindsIn(net) \subseteq {"invite", "prov"} /\ Waiting
          /\ sstate = "Accepting" => AcceptingInv
          /\ sstate = "Failing" => FailingInv

RoundsInv == AckInv /\ CountersInv /\ (cstate \notin {"TimedOut", "Failed"} => FirstInv)

-----------------------------------------------------------------------------
LEMMA SendAdds ==
    ASSUME NEW n \in Network!Networks, NEW k \in Kinds
    PROVE  Network!InFlight(n) \cup {[kind |-> k, left |-> MaxDelay]} \subseteq Network!InFlight(Network!Send(n, k))
<1> DEFINE x == [kind |-> k, left |-> MaxDelay]
<1>1. x \in Network!Message
  BY TimerAssumption DEF Network!Message
<1>2. n \in [Network!Message -> Nat]
  BY DEF Network!Networks
<1>3. Network!Send(n, k) = [n EXCEPT ![x] = n[x] + 1]
  BY DEF Network!Send
<1> HIDE DEF x
<1>4. \A m \in Network!Message : m # x => Network!Send(n, k)[m] = n[m]
  BY <1>1, <1>2, <1>3
<1>5. Network!Send(n, k)[x] > 0
  BY <1>1, <1>2, <1>3
<1>6. Network!InFlight(n) \cup {x} \subseteq Network!InFlight(Network!Send(n, k))
  BY <1>1, <1>4, <1>5 DEF Network!InFlight
<1> QED
  BY <1>6 DEF x

LEMMA TakeLeaves ==
    ASSUME NEW n \in Network!Networks, NEW m \in Network!InFlight(n)
    PROVE  Network!InFlight(n) \ {m} \subseteq Network!InFlight(Network!Take(n, m))
<1>1. n \in [Network!Message -> Nat] /\ m \in Network!Message
  BY DEF Network!Networks, Network!InFlight
<1>2. Network!Take(n, m) = [n EXCEPT ![m] = n[m] - 1]
  BY DEF Network!Take
<1>3. \A x \in Network!Message : x # m => Network!Take(n, m)[x] = n[x]
  BY <1>1, <1>2
<1> QED
  BY <1>3 DEF Network!InFlight

LEMMA AgeKeeps ==
    ASSUME NEW n \in Network!Networks, NEW m \in Network!InFlight(n), m.left > 0
    PROVE  [kind |-> m.kind, left |-> m.left - 1] \in Network!InFlight(Network!Age(n))
<1> DEFINE x == [kind |-> m.kind, left |-> m.left - 1]
<1>1. m \in Network!Message /\ n[m] > 0 /\ MaxDelay \in Nat
  BY TimerAssumption DEF Network!InFlight
<1>2. m.kind \in Kinds /\ m.left \in 0 .. MaxDelay /\ m = [kind |-> m.kind, left |-> m.left]
  BY <1>1 DEF Network!Message
<1>3. x \in Network!Message /\ x.left # MaxDelay
  BY <1>1, <1>2 DEF Network!Message
<1>4. [x EXCEPT !.left = x.left + 1] = m
  BY <1>1, <1>2
<1> HIDE DEF x
<1>5. Network!Age(n)[x] = IF x.left = MaxDelay THEN 0 ELSE n[[x EXCEPT !.left = x.left + 1]]
  BY <1>3 DEF Network!Age
<1>6. Network!Age(n)[x] > 0
  BY <1>1, <1>3, <1>4, <1>5
<1>7. x \in Network!InFlight(Network!Age(n))
  BY <1>3, <1>6 DEF Network!InFlight
<1> QED
  BY <1>7 DEF x

LEMMA MessageFields ==
    ASSUME NEW n, NEW m \in Network!InFlight(n)
    PROVE  m \in Network!Message /\ m.kind \in Kinds /\ m.left \in 0 .. MaxDelay /\ m.left \in Nat /\ MaxDelay \in Nat
BY TimerAssumption DEF Network!InFlight, Network!Message

LEMMA DeliveryLeaves ==
    ASSUME net \in Network!Networks, NEW m \in Network!InFlight(net), Delivered(m)
    PROVE  Network!InFlight(net) \ {m} \subseteq Network!InFlight(net') /\ UNCHANGED lost
<1>1. PICK a \in After(m) : net' = a.net /\ UNCHANGED lost
  BY DEF Delivered
<1>2. a.net = Network!Take(net, m) \/ a.net = net
  BY DEF After
<1> QED
  BY <1>1, <1>2, TakeLeaves

LEMMA AnswerLeaves ==
    ASSUME net \in Network!Networks, NEW m \in Network!InFlight(net), NEW k \in Kinds, DeliveredThenSent(m, k)
    PROVE  /\ (Network!InFlight(net) \ {m}) \cup {[kind |-> k, left |-> MaxDelay]} \subseteq Network!InFlight(net')
           /\ UNCHANGED lost
<1>1. PICK a \in After(m) : net' = Network!Send(a.net, k) /\ UNCHANGED lost
  BY DEF DeliveredThenSent
<1>2. a.net = Network!Take(net, m) \/ a.net = net
  BY DEF After
<1>3. a.net \in Network!Networks /\ Network!InFlight(net) \ {m} \subseteq Network!InFlight(a.net)
  BY <1>2, TakeLeaves, NetworkTake
<1> QED
  BY <1>1, <1>3, SendAdds

-----------------------------------------------------------------------------
(* Progress is made, for plain values: the messages under way become G.    *)
Long(tries, wait) == wait \in Nat /\ 2 * MaxDelay <= wait /\ (tries > 1 => 2 * MaxDelay < wait)
Numbers(tries, gone, retx) == tries \in Nat /\ gone \in Nat /\ retx \in Nat
Delay == MaxDelay \in Nat /\ 0 < MaxDelay
JustSent(k) == [kind |-> k, left |-> MaxDelay]

LEMMA ProgressBegins ==
    ASSUME Delay, NEW G, NEW gone \in Nat, NEW k, NEW R, k \in R, JustSent(k) \in G, NEW rel, NEW ack, NEW wait \in Nat
    PROVE  Progress(G, 1, gone, wait, rel, R, ack, wait)
<1>1. Fresh(G, R, wait, wait)
  BY DEF Fresh, JustSent
<1> QED
  BY <1>1 DEF Progress

LEMMA ProgressGrows ==
    ASSUME NEW F, NEW G, F \subseteq G, NEW R, NEW S, R \subseteq S, NEW tries, NEW gone, NEW retx, NEW rel, NEW ack,
           NEW wait, Progress(F, tries, gone, retx, rel, R, ack, wait)
    PROVE  Progress(G, tries, gone, retx, rel, S, ack, wait)
<1>1. Fresh(F, R, wait, retx) => Fresh(G, S, wait, retx)
  BY DEF Fresh
<1>2. Timely(F, ack, tries, retx) => Timely(G, ack, tries, retx)
  BY DEF Timely
<1>3. DueAck(F, ack) => DueAck(G, ack)
  BY DEF DueAck
<1>4. LaterAck(F, ack, retx) => LaterAck(G, ack, retx)
  BY DEF LaterAck
<1> QED
  BY <1>1, <1>2, <1>3, <1>4 DEF Progress

LEMMA ProgressPasses ==
    ASSUME NEW F, NEW G, NEW m, F \ {m} \subseteq G, NEW R, NEW S, R \subseteq S, NEW tries, NEW gone, NEW retx, NEW rel,
           NEW ack, NEW wait, m.kind \notin R, m.kind # ack, Progress(F, tries, gone, retx, rel, R, ack, wait)
    PROVE  Progress(G, tries, gone, retx, rel, S, ack, wait)
<1>1. Fresh(F, R, wait, retx) => Fresh(G, S, wait, retx)
  BY DEF Fresh
<1>2. Timely(F, ack, tries, retx) => Timely(G, ack, tries, retx)
  BY DEF Timely
<1>3. DueAck(F, ack) => DueAck(G, ack)
  BY DEF DueAck
<1>4. LaterAck(F, ack, retx) => LaterAck(G, ack, retx)
  BY DEF LaterAck
<1> QED
  BY <1>1, <1>2, <1>3, <1>4 DEF Progress

(* A response is answered: the ACK is timely while this round's response   *)
(* was under way, whichever copy it answers.                               *)
LEMMA ProgressAnswers ==
    ASSUME Delay, NEW F \in SUBSET Network!Message, NEW G, NEW m, NEW ack, (F \ {m}) \cup {JustSent(ack)} \subseteq G,
           NEW R, NEW S, NEW tries, NEW gone, NEW retx, NEW rel, NEW wait, Numbers(tries, gone, retx), Long(tries, wait),
           m.kind # ack, Progress(F, tries, gone, retx, rel, R, ack, wait)
    PROVE  Progress(G, tries, gone, retx, rel, S, ack, wait)
<1>1. /\ Timely(F, ack, tries, retx) => Timely(G, ack, tries, retx)
      /\ DueAck(F, ack) => DueAck(G, ack)
      /\ LaterAck(F, ack, retx) => LaterAck(G, ack, retx)
  BY DEF Timely, DueAck, LaterAck
<1>2. ASSUME Fresh(F, R, wait, retx) PROVE MaxDelay < retx \/ (tries <= 1 /\ MaxDelay <= retx)
  <2>1. PICK f \in F : f.left + wait = MaxDelay + retx
    BY <1>2 DEF Fresh
  <2>2. f.left \in Nat
    BY TimerAssumption DEF Network!Message
  <2> QED
    BY <2>1, <2>2 DEF Numbers, Long, Delay
<1>3. JustSent(ack) \in G /\ JustSent(ack).kind = ack /\ JustSent(ack).left = MaxDelay
  BY DEF JustSent
<1>4. CASE tries <= gone
  BY <1>4 DEF Progress
<1>5. CASE tries <= gone + 1 /\ tries > gone /\ Fresh(F, R, wait, retx)
  <2>1. tries > 1 \/ tries = 1
    BY <1>5 DEF Numbers
  <2>2. MaxDelay < retx \/ (tries = 1 /\ MaxDelay = retx)
    BY <1>2, <1>5, <2>1 DEF Numbers, Delay
  <2>3. Timely(G, ack, tries, retx)
    BY <1>3, <2>2 DEF Timely
  <2> QED
    BY <1>5, <2>3 DEF Progress
<1>6. CASE tries <= gone + 1 /\ Timely(F, ack, tries, retx)
  BY <1>1, <1>6 DEF Progress
<1>7. CASE tries = 2 /\ retx = wait /\ DueAck(F, ack) /\ Fresh(F, R, wait, retx)
  <2>1. MaxDelay < retx /\ 0 < MaxDelay
    BY <1>2, <1>7 DEF Delay
  <2>2. LaterAck(G, ack, retx)
    BY <1>3, <2>1 DEF LaterAck
  <2> QED
    BY <1>1, <1>7, <2>2 DEF Progress
<1>8. CASE tries = 2 /\ retx = wait /\ DueAck(F, ack) /\ (rel \/ LaterAck(F, ack, retx))
  BY <1>1, <1>8 DEF Progress
<1>9. tries > gone \/ tries <= gone
  BY DEF Numbers
<1> QED
  BY <1>4, <1>5, <1>6, <1>7, <1>8, <1>9 DEF Progress

(* A message is lost.                                                      *)
LEMMA ProgressLoses ==
    ASSUME Delay, NEW F, NEW G, NEW m, F \ {m} \subseteq G, NEW R, NEW tries, NEW gone, NEW retx, NEW rel, ~rel,
           NEW ack, ack \notin R, NEW wait, Numbers(tries, gone, retx), Long(tries, wait),
           Progress(F, tries, gone, retx, rel, R, ack, wait)
    PROVE  Progress(G, tries, gone + 1, retx, rel, R, ack, wait)
<1>1. CASE tries <= gone + 1
  BY <1>1 DEF Progress
<1>2. CASE tries = 2 /\ retx = wait /\ DueAck(F, ack) /\ (Fresh(F, R, wait, retx) \/ LaterAck(F, ack, retx))
  <2>0. tries <= (gone + 1) + 1 /\ 0 < retx
    BY <1>2 DEF Numbers, Long, Delay
  <2>1. CASE m.kind = ack /\ m.left = 0
    <3>1. Fresh(F, R, wait, retx) => Fresh(G, R, wait, retx)
      BY <2>1 DEF Fresh
    <3>2. LaterAck(F, ack, retx) => Timely(G, ack, tries, retx)
      BY <2>1 DEF LaterAck, Timely
    <3> QED
      BY <1>2, <2>0, <3>1, <3>2 DEF Progress
  <2>2. CASE ~(m.kind = ack /\ m.left = 0)
    <3>1. Timely(G, ack, tries, retx)
      BY <1>2, <2>0, <2>2 DEF DueAck, Timely
    <3> QED
      BY <2>0, <3>1 DEF Progress
  <2> QED
    BY <2>1, <2>2
<1>3. tries <= gone => tries <= gone + 1
  BY DEF Numbers
<1> QED
  BY <1>1, <1>2, <1>3 DEF Progress

(* Time passes: nothing is due.                                            *)
LEMMA ProgressAges ==
    ASSUME Delay, NEW F \in SUBSET Network!Message, NEW G, \A m \in F : m.left > 0,
           \A m \in F : [kind |-> m.kind, left |-> m.left - 1] \in G,
           NEW R, NEW tries, NEW gone, NEW retx, NEW rel, NEW ack, NEW wait, Numbers(tries, gone, retx), retx > 0,
           wait \in Nat, Progress(F, tries, gone, retx, rel, R, ack, wait)
    PROVE  Progress(G, tries, gone, retx - 1, rel, R, ack, wait)
<1>0. \A m \in F : m.left \in Nat
  BY TimerAssumption DEF Network!Message
<1>1. ASSUME Fresh(F, R, wait, retx) PROVE Fresh(G, R, wait, retx - 1)
  <2>1. PICK m \in F : m.kind \in R /\ m.left + wait = MaxDelay + retx
    BY <1>1 DEF Fresh
  <2>2. PICK x \in G : x.kind = m.kind /\ x.left = m.left - 1
    <3>1. [kind |-> m.kind, left |-> m.left - 1] \in G
      OBVIOUS
    <3> QED
      BY <3>1
  <2>3. x.left + wait = MaxDelay + (retx - 1)
    BY <1>0, <2>1, <2>2 DEF Numbers, Delay
  <2> QED
    BY <2>1, <2>2, <2>3 DEF Fresh
<1>2. ASSUME Timely(F, ack, tries, retx) PROVE Timely(G, ack, tries, retx - 1)
  <2>1. PICK m \in F : m.kind = ack /\ (m.left < retx \/ (tries = 1 /\ m.left = retx))
    BY <1>2 DEF Timely
  <2>2. PICK x \in G : x.kind = m.kind /\ x.left = m.left - 1
    <3>1. [kind |-> m.kind, left |-> m.left - 1] \in G
      OBVIOUS
    <3> QED
      BY <3>1
  <2>3. x.left < retx - 1 \/ (tries = 1 /\ x.left = retx - 1)
    BY <1>0, <2>1, <2>2 DEF Numbers
  <2> QED
    BY <2>1, <2>2, <2>3 DEF Timely
<1>3. ~DueAck(F, ack)
  BY <1>0 DEF DueAck
<1> QED
  BY <1>1, <1>2, <1>3 DEF Progress

(* The next round begins.                                                  *)
LEMMA ProgressRenews ==
    ASSUME Delay, NEW F \in SUBSET Network!Message, NEW G, NEW k, F \cup {JustSent(k)} \subseteq G, NEW R, NEW S,
           NEW tries, NEW gone, NEW rel, NEW ack, NEW wait, NEW next \in Nat, Numbers(tries, gone, 0), tries > 0,
           Long(tries, wait), rel => gone = 0, rel \/ k \in S, Progress(F, tries, gone, 0, rel, R, ack, wait)
    PROVE  Progress(G, tries + 1, gone, next, rel, S, ack, next)
<1>0. \A m \in F : m.left \in Nat
  BY TimerAssumption DEF Network!Message
<1>1. k \in S => Fresh(G, S, next, next)
  BY DEF Fresh, JustSent, Delay
<1>2. ~Fresh(F, R, wait, 0)
  BY <1>0 DEF Fresh, Long, Delay
<1>3. CASE tries <= gone
  <2>1. tries + 1 <= gone + 1 /\ ~rel
    BY <1>3 DEF Numbers
  <2> QED
    BY <1>1, <2>1 DEF Progress
<1>4. CASE Timely(F, ack, tries, 0)
  <2>1. PICK m \in F : m.kind = ack /\ (m.left < 0 \/ (tries = 1 /\ m.left = 0))
    BY <1>4 DEF Timely
  <2>2. tries = 1 /\ m.left = 0
    BY <1>0, <2>1
  <2>3. tries + 1 = 2 /\ DueAck(G, ack)
    BY <2>1, <2>2 DEF DueAck
  <2> QED
    BY <1>1, <2>3 DEF Progress
<1>5. wait # 0
  BY DEF Long, Delay
<1> QED
  BY <1>2, <1>3, <1>4, <1>5 DEF Progress

(* The last round is over.                                                 *)
LEMMA ProgressEnds ==
    ASSUME Delay, NEW F \in SUBSET Network!Message, NEW R, NEW tries, NEW gone, NEW rel, NEW ack, NEW wait,
           Numbers(tries, gone, 0), tries > 1, Long(tries, wait), Progress(F, tries, gone, 0, rel, R, ack, wait)
    PROVE  tries <= gone
<1>0. \A m \in F : m.left \in Nat
  BY TimerAssumption DEF Network!Message
<1>1. ~Fresh(F, R, wait, 0)
  BY <1>0 DEF Fresh, Long, Delay
<1>2. ~Timely(F, ack, tries, 0)
  BY <1>0 DEF Timely, Numbers
<1>3. wait # 0
  BY DEF Long, Delay
<1> QED
  BY <1>1, <1>2, <1>3 DEF Progress

-----------------------------------------------------------------------------
LEMMA RoundsConstants ==
    ASSUME RoundsFit
    PROVE  /\ Delay /\ {T1, T2, Timeout, ProvTimeout, AckTries, AckWait, Think} \subseteq Nat
           /\ 2 * MaxDelay <= T1 /\ 2 * MaxDelay < T2 /\ 2 * MaxDelay < AckWait /\ T1 < Timeout /\ AckTries > 1
           /\ Long(1, T1) /\ \A tries \in Nat : Long(tries, AckWait)
<1>1. /\ T1 \in Nat /\ T2 \in Nat /\ Timeout \in Nat /\ ProvTimeout \in Nat /\ AckTries \in Nat /\ Think \in Nat
      /\ MaxDelay \in Nat
  BY TimerAssumption
<1>2. AckWait \in Nat /\ 2 * MaxDelay < AckWait
  BY <1>1 DEF AckWait, RoundsFit
<1>3. (AckTries - 1) * AckWait \in Nat
  <2>1. PICK x \in Nat : x = AckTries - 1
    BY <1>1 DEF RoundsFit
  <2>2. x * AckWait \in Nat
    BY <1>2, <2>1
  <2> QED
    BY <2>1, <2>2
<1>4. T1 < Timeout
  BY <1>1, <1>3 DEF RoundsFit
<1> QED
  BY <1>1, <1>2, <1>4 DEF RoundsFit, Delay, Long

LEMMA ScheduleIsClosed ==
    /\ <<0, T1>> \in Schedule
    /\ \A t, n \in Nat : <<t, n>> \in Schedule => <<t + n, IF n * 2 < T2 THEN n * 2 ELSE T2>> \in Schedule
<1>1. <<0, T1>> \in Schedule
  BY TimerAssumption DEF Schedule, Closed
<1>2. ASSUME NEW t \in Nat, NEW n \in Nat, <<t, n>> \in Schedule
      PROVE  <<t + n, IF n * 2 < T2 THEN n * 2 ELSE T2>> \in Schedule
  <2> DEFINE p == <<t, n>>
             q == <<t + n, IF n * 2 < T2 THEN n * 2 ELSE T2>>
  <2>1. p[1] = t /\ p[2] = n
    OBVIOUS
  <2>2. q \in Nat \X Nat
    BY TimerAssumption
  <2>3. ASSUME NEW S \in SUBSET (Nat \X Nat), Closed(S) PROVE q \in S
    <3>1. p \in S
      BY <1>2, <2>3 DEF Schedule
    <3>2. <<p[1] + p[2], IF p[2] * 2 < T2 THEN p[2] * 2 ELSE T2>> \in S
      BY <2>3, <3>1 DEF Closed
    <3> QED
      BY <2>1, <3>2
  <2> QED
    BY <2>2, <2>3 DEF Schedule
<1> QED
  BY <1>1, <1>2

LEMMA CountersNext == ASSUME CountersInv, [Next]_vars PROVE CountersInv'
<1>0. /\ cLeft \in Nat /\ sLeft \in Nat /\ sRetx \in Nat /\ sN \in Nat /\ sTries \in Nat /\ lost \in Nat /\ served \in Nat
      /\ reliable \in BOOLEAN /\ (reliable => lost = 0)
  BY DEF CountersInv
<1>1. {T1, T2, Timeout, ProvTimeout, Think} \subseteq Nat
  BY TimerAssumption
<1>2. CASE Client
  BY <1>0, <1>2 DEF Client, ClientRetransmit, ClientTimeout, ClientAbsorbed, Transmit, serverVars, netVars, CountersInv
<1>3. CASE Server
  <2>1. CASE RespondProvisional
    BY <1>0, <2>1 DEF RespondProvisional, Transmit, clientVars, netVars, CountersInv
  <2>2. CASE RespondSuccess \/ RespondFailure
    BY <1>0, <1>1, <2>2 DEF RespondSuccess, RespondFailure, Transmit, clientVars, CountersInv
  <2>3. CASE AcceptingTimeout
    BY <1>0, <1>1, <2>3 DEF AcceptingTimeout, Transmit, clientVars, CountersInv
  <2>4. CASE FailingReceive
    BY <1>0, <2>4 DEF FailingReceive, Transmit, clientVars, netVars, CountersInv
  <2>5. CASE FailingTimeout
    BY <1>0, <1>1, <2>5 DEF FailingTimeout, Transmit, clientVars, netVars, CountersInv
  <2>6. CASE SendFails
    BY <1>0, <2>6 DEF SendFails, clientVars, netVars, CountersInv
  <2> QED
    BY <1>3, <2>1, <2>2, <2>3, <2>4, <2>5, <2>6 DEF Server
<1>4. ASSUME NEW m \in Network!InFlight(net), ClientReceive(m) PROVE CountersInv'
  <2>1. UNCHANGED <<lost, reliable, sLeft, sRetx, sN, sTries, served>> /\ cLeft' \in {cLeft, Timeout, ProvTimeout}
    BY <1>4 DEF ClientReceive, HandleProvisional, HandleSuccess, HandleFailure, ReceiveAccepted, AcknowledgeAgain,
                ClientOrphan, Delivered, DeliveredThenSent, serverVars, clientVars
  <2> QED
    BY <1>0, <1>1, <2>1 DEF CountersInv
<1>5. ASSUME NEW m \in Network!InFlight(net), ServerReceive(m) PROVE CountersInv'
  <2>1. /\ UNCHANGED <<lost, reliable, cLeft, sRetx, sN>>
        /\ sLeft' \in {sLeft, Think} /\ sTries' \in {sTries, 0} /\ served' \in {served, served + 1}
    BY <1>5 DEF ServerReceive, ServerNew, ServerQueue, ServerStrayAck, ReceiveAck, Delivered, clientVars, serverVars
  <2> QED
    BY <1>0, <1>1, <2>1 DEF CountersInv
<1>6. ASSUME NEW m \in Network!InFlight(net), Lose(m) PROVE CountersInv'
  BY <1>0, <1>6 DEF Lose, clientVars, serverVars, CountersInv
<1>7. CASE Tick
  BY <1>0, <1>7 DEF Tick, Dec, CountersInv
<1>8. CASE UNCHANGED vars
  BY <1>0, <1>8 DEF vars, clientVars, serverVars, netVars, CountersInv
<1> QED
  BY <1>2, <1>3, <1>4, <1>5, <1>6, <1>7, <1>8 DEF Next

LEMMA Counters ==
    ASSUME CountersInv
    PROVE  /\ cLeft \in Nat /\ sLeft \in Nat /\ sRetx \in Nat /\ sN \in Nat /\ sTries \in Nat /\ lost \in Nat
           /\ served \in Nat /\ reliable \in BOOLEAN /\ (reliable => lost = 0) /\ Numbers(sTries, lost, sRetx)
BY DEF CountersInv, Numbers

-----------------------------------------------------------------------------
(* In receive_ack.                                                         *)
LEMMA AckBudget ==
    ASSUME NEW a \in Nat, NEW s \in Nat, 1 < s, s <= a, NEW w \in Nat
    PROVE  w + (a - s) * w <= (a - 1) * w
<1>1. PICK x \in Nat, y \in Nat : x = a - s /\ y = s - 2
  OBVIOUS
<1>2. a - 1 = x + y + 1
  BY <1>1
<1>3. (x + y + 1) * w = x * w + y * w + w /\ y * w \in Nat /\ x * w \in Nat
  OBVIOUS
<1> QED
  BY <1>1, <1>2, <1>3

LEMMA AckStep ==
    ASSUME NEW a \in Nat, NEW s \in Nat, s < a, NEW w \in Nat
    PROVE  w + (a - (s + 1)) * w = (a - s) * w
<1>1. PICK x \in Nat : x = a - (s + 1)
  OBVIOUS
<1>2. a - s = x + 1 /\ (x + 1) * w = x * w + w /\ x * w \in Nat
  BY <1>1
<1> QED
  BY <1>1, <1>2

LEMMA AcceptingFacts ==
    ASSUME RoundsFit, CountersInv, AcceptingInv
    PROVE  /\ RoundWait \in Nat /\ Long(sTries, RoundWait) /\ (AckTries - sTries) * AckWait \in Nat
           /\ sTries > 0 /\ sTries <= AckTries /\ sRetx + (AckTries - sTries) * AckWait < Timeout
<1>1. sTries \in Nat /\ sTries > 0 /\ sTries <= AckTries /\ sRetx <= RoundWait /\ sRetx \in Nat
  BY Counters DEF AcceptingInv
<1>2. /\ AckTries \in Nat /\ AckWait \in Nat /\ T1 \in Nat /\ Timeout \in Nat
      /\ Long(1, T1) /\ Long(sTries, AckWait) /\ T1 + (AckTries - 1) * AckWait < Timeout
  BY <1>1, RoundsConstants DEF RoundsFit
<1>3. RoundWait \in Nat /\ Long(sTries, RoundWait)
  BY <1>2 DEF RoundWait
<1>4. (AckTries - sTries) * AckWait \in Nat /\ (AckTries - 1) * AckWait \in Nat
  <2>1. PICK x \in Nat, y \in Nat : x = AckTries - sTries /\ y = AckTries - 1
    BY <1>1, <1>2
  <2>2. x * AckWait \in Nat /\ y * AckWait \in Nat
    BY <1>2
  <2> QED
    BY <2>1, <2>2
<1>5. CASE sTries = 1
  <2>1. RoundWait = T1
    BY <1>5 DEF RoundWait
  <2>2. sRetx + (AckTries - 1) * AckWait < Timeout
    BY <1>1, <1>2, <1>4, <2>1
  <2> QED
    BY <1>1, <1>3, <1>4, <1>5, <2>2
<1>6. CASE sTries # 1
  <2>1. RoundWait = AckWait /\ 1 < sTries
    BY <1>1, <1>6 DEF RoundWait
  <2>2. AckWait + (AckTries - sTries) * AckWait <= (AckTries - 1) * AckWait
    BY <1>1, <1>2, <2>1, AckBudget
  <2>3. PICK x \in Nat, y \in Nat : x = (AckTries - sTries) * AckWait /\ y = (AckTries - 1) * AckWait
    BY <1>4
  <2>4. AckWait + x <= y /\ T1 + y < Timeout /\ sRetx <= AckWait
    BY <1>1, <1>2, <2>1, <2>2, <2>3
  <2>5. sRetx + x < Timeout
    BY <1>1, <1>2, <2>4
  <2> QED
    BY <1>1, <1>3, <1>4, <2>3, <2>5
<1> QED
  BY <1>5, <1>6

(* A step of the client or the network.                                    *)
LEMMA AcceptingStays ==
    ASSUME AcceptingInv, UNCHANGED <<outcome, sTries, sRetx, reliable>>, "fail" \notin KindsIn(net'),
           cstate' \in {"Init", "Proceeding", "Accepted"},
           cstate' = "Accepted" => cLeft' > sRetx + (AckTries - sTries) * AckWait,
           Progress(Network!InFlight(net'), sTries, lost', sRetx, reliable, {"ok"}, "ack2", RoundWait)
    PROVE  AcceptingInv'
BY DEF AcceptingInv, RoundWait, Waiting

LEMMA InFlightMessages == ASSUME NEW n PROVE Network!InFlight(n) \in SUBSET Network!Message
BY DEF Network!InFlight

LEMMA AcceptingClient ==
    ASSUME RoundsFit, RoundsInv, AcceptingInv, Client, cstate' \notin {"TimedOut", "Failed"}
    PROVE  AcceptingInv'
<1>0. net \in Network!Networks /\ CountersInv
  BY DEF RoundsInv, AckInv
<1>a. /\ cstate \in {"Init", "Proceeding", "Accepted"} /\ "fail" \notin KindsIn(net)
      /\ cstate = "Accepted" => cLeft > sRetx + (AckTries - sTries) * AckWait
      /\ Progress(Network!InFlight(net), sTries, lost, sRetx, reliable, {"ok"}, "ack2", RoundWait)
  BY DEF AcceptingInv, Waiting
<1>1. CASE ClientRetransmit
  <2>1. /\ net' = Network!Send(net, "invite") /\ UNCHANGED <<cstate, cLeft, lost>>
        /\ UNCHANGED <<outcome, sTries, sRetx, reliable>>
    BY <1>1 DEF ClientRetransmit, Transmit, serverVars
  <2>2. "invite" \in Kinds
    BY DEF Kinds
  <2>3. Network!InFlight(net) \subseteq Network!InFlight(net')
    BY <1>0, <2>1, <2>2, SendAdds
  <2>4. "fail" \notin KindsIn(net')
    BY <1>0, <1>a, <2>1, <2>2, NetworkSend
  <2>5. Progress(Network!InFlight(net'), sTries, lost', sRetx, reliable, {"ok"}, "ack2", RoundWait)
    BY <1>a, <2>1, <2>3, ProgressGrows
  <2> QED
    BY <1>a, <2>1, <2>4, <2>5, AcceptingStays
<1>2. CASE ClientTimeout
  <2>1. cLeft = 0 /\ cstate = "Accepted"
    BY <1>2, <1>a DEF ClientTimeout
  <2> QED
    BY <1>0, <1>a, <2>1, AcceptingFacts, Counters
<1>3. CASE ClientAbsorbed
  BY <1>3, <1>a DEF ClientAbsorbed
<1> QED
  BY <1>1, <1>2, <1>3 DEF Client

LEMMA AcceptingReceives ==
    ASSUME RoundsFit, RoundsInv, AcceptingInv, NEW m \in Network!InFlight(net), ClientReceive(m),
           cstate' \notin {"TimedOut", "Failed"}
    PROVE  AcceptingInv'
<1>0. net \in Network!Networks /\ CountersInv
  BY DEF RoundsInv, AckInv
<1>a. /\ cstate \in {"Init", "Proceeding", "Accepted"} /\ "fail" \notin KindsIn(net) /\ m.kind \in KindsIn(net)
      /\ cstate = "Accepted" => cLeft > sRetx + (AckTries - sTries) * AckWait
      /\ Progress(Network!InFlight(net), sTries, lost, sRetx, reliable, {"ok"}, "ack2", RoundWait)
  BY DEF AcceptingInv, Waiting, KindsIn
<1>b. UNCHANGED <<outcome, sTries, sRetx, reliable>>
  BY DEF ClientReceive, HandleProvisional, HandleSuccess, HandleFailure, ReceiveAccepted, AcknowledgeAgain,
         ClientOrphan, serverVars, clientVars
<1>c. "ack2" \in Kinds /\ m.kind # "fail"
  BY <1>a DEF Kinds
(* Anything but a 2xx is taken, or a 2xx is acknowledged.                  *)
<1>1. ASSUME Delivered(m), m.kind \notin {"ok", "ack2"}
      PROVE  /\ Progress(Network!InFlight(net'), sTries, lost', sRetx, reliable, {"ok"}, "ack2", RoundWait)
             /\ "fail" \notin KindsIn(net')
  <2>1. Network!InFlight(net) \ {m} \subseteq Network!InFlight(net') /\ lost' = lost
    BY <1>0, <1>1, DeliveryLeaves
  <2>2. Progress(Network!InFlight(net'), sTries, lost, sRetx, reliable, {"ok"}, "ack2", RoundWait)
    BY <1>1, <1>a, <2>1, ProgressPasses
  <2> QED
    BY <1>0, <1>1, <1>a, <2>1, <2>2, DeliveryKinds
<1>2. ASSUME DeliveredThenSent(m, "ack2"), m.kind = "ok"
      PROVE  /\ Progress(Network!InFlight(net'), sTries, lost', sRetx, reliable, {"ok"}, "ack2", RoundWait)
             /\ "fail" \notin KindsIn(net')
  <2>1. (Network!InFlight(net) \ {m}) \cup {JustSent("ack2")} \subseteq Network!InFlight(net') /\ lost' = lost
    BY <1>0, <1>2, <1>c, AnswerLeaves DEF JustSent
  <2>2. Delay /\ Numbers(sTries, lost, sRetx) /\ Long(sTries, RoundWait) /\ m.kind # "ack2"
    BY <1>0, <1>2, RoundsConstants, Counters, AcceptingFacts
  <2>3. Progress(Network!InFlight(net'), sTries, lost, sRetx, reliable, {"ok"}, "ack2", RoundWait)
    BY <1>a, <2>1, <2>2, InFlightMessages, ProgressAnswers
  <2> QED
    BY <1>0, <1>2, <1>a, <1>c, <2>1, <2>3, AnsweredKinds
<1>3. CASE HandleProvisional(m)
  <2>1. Delivered(m) /\ m.kind = "prov" /\ cstate' = "Proceeding"
    BY <1>3 DEF HandleProvisional
  <2> QED
    BY <1>1, <1>b, <2>1, AcceptingStays
<1>4. CASE HandleSuccess(m)
  <2>1. DeliveredThenSent(m, "ack2") /\ m.kind = "ok" /\ cstate' = "Accepted" /\ cLeft' = Timeout
    BY <1>4 DEF HandleSuccess
  <2>2. cLeft' > sRetx + (AckTries - sTries) * AckWait
    <3>1. PICK x \in Nat : x = (AckTries - sTries) * AckWait
      BY <1>0, AcceptingFacts
    <3>2. sRetx + x < Timeout /\ sRetx \in Nat /\ Timeout \in Nat
      BY <1>0, <3>1, AcceptingFacts, Counters, RoundsConstants
    <3>3. Timeout > sRetx + x
      BY <3>2
    <3> QED
      BY <2>1, <3>1, <3>3
  <2> QED
    BY <1>2, <1>b, <2>1, <2>2, AcceptingStays
<1>5. CASE HandleFailure(m)
  BY <1>5, <1>c DEF HandleFailure
<1>6. CASE ReceiveAccepted(m)
  <2>1. /\ cstate = "Accepted" /\ UNCHANGED <<cstate, cLeft>> /\ m.kind \in Responses
        /\ IF m.kind = "ok" THEN DeliveredThenSent(m, "ack2") ELSE Delivered(m)
    BY <1>6 DEF ReceiveAccepted
  <2>2. CASE m.kind = "ok"
    BY <1>2, <1>a, <1>b, <2>1, <2>2, AcceptingStays
  <2>3. CASE m.kind # "ok"
    <3>1. m.kind \notin {"ok", "ack2"}
      BY <2>1, <2>3 DEF Responses
    <3> QED
      BY <1>1, <1>a, <1>b, <2>1, <2>3, <3>1, AcceptingStays
  <2> QED
    BY <2>2, <2>3
<1>7. CASE AcknowledgeAgain(m)
  BY <1>7, <1>a DEF AcknowledgeAgain
<1>8. CASE ClientOrphan(m)
  BY <1>8, <1>a DEF ClientOrphan, ClientRegistered
<1> QED
  BY <1>3, <1>4, <1>5, <1>6, <1>7, <1>8 DEF ClientReceive

LEMMA AcceptingLoses ==
    ASSUME RoundsFit, RoundsInv, AcceptingInv, NEW m \in Network!InFlight(net), Lose(m)
    PROVE  AcceptingInv'
<1>0. net \in Network!Networks /\ CountersInv
  BY DEF RoundsInv, AckInv
<1>a. /\ cstate \in {"Init", "Proceeding", "Accepted"} /\ "fail" \notin KindsIn(net)
      /\ cstate = "Accepted" => cLeft > sRetx + (AckTries - sTries) * AckWait
      /\ Progress(Network!InFlight(net), sTries, lost, sRetx, reliable, {"ok"}, "ack2", RoundWait)
  BY DEF AcceptingInv, Waiting
<1>1. /\ ~reliable /\ net' = Network!Take(net, m) /\ lost' = lost + 1
      /\ UNCHANGED <<outcome, sTries, sRetx, reliable, cstate, cLeft>>
  BY DEF Lose, clientVars, serverVars
<1>2. Network!InFlight(net) \ {m} \subseteq Network!InFlight(net') /\ "fail" \notin KindsIn(net')
  BY <1>0, <1>1, <1>a, TakeLeaves, NetworkTake
<1>3. Delay /\ Numbers(sTries, lost, sRetx) /\ Long(sTries, RoundWait) /\ "ack2" \notin {"ok"}
  BY <1>0, RoundsConstants, Counters, AcceptingFacts
<1>4. Progress(Network!InFlight(net'), sTries, lost + 1, sRetx, reliable, {"ok"}, "ack2", RoundWait)
  BY <1>1, <1>2, <1>3, <1>a, ProgressLoses
<1> QED
  BY <1>1, <1>2, <1>4, <1>a, AcceptingStays

LEMMA AcceptingTick ==
    ASSUME RoundsFit, RoundsInv, AcceptingInv, sstate = "Accepting", Tick
    PROVE  AcceptingInv'
<1>0. net \in Network!Networks /\ CountersInv
  BY DEF RoundsInv, AckInv
<1>a. /\ cstate \in {"Init", "Proceeding", "Accepted"} /\ "fail" \notin KindsIn(net) /\ outcome = "none"
      /\ cstate = "Accepted" => cLeft > sRetx + (AckTries - sTries) * AckWait
      /\ Progress(Network!InFlight(net), sTries, lost, sRetx, reliable, {"ok"}, "ack2", RoundWait)
  BY DEF AcceptingInv, Waiting
<1>1. /\ net' = Network!Age(net) /\ cLeft' = Dec(cLeft) /\ sRetx' = Dec(sRetx)
      /\ UNCHANGED <<outcome, sTries, reliable, cstate, lost>>
  BY DEF Tick
<1>2. sRetx > 0 /\ cLeft > 0 /\ \A x \in Network!InFlight(net) : x.left > 0
  <2>1. sRetx # 0 /\ cLeft # 0 /\ ~Network!Overdue(net)
    BY <1>a DEF Tick, Due, ClientRegistered
  <2>2. \A x \in Network!InFlight(net) : x.left # 0 /\ x.left \in Nat
    BY <2>1, MessageFields DEF Network!Overdue
  <2> QED
    BY <1>0, <2>1, <2>2, Counters
<1>3. sRetx' = sRetx - 1 /\ cLeft' = cLeft - 1
  BY <1>0, <1>1, <1>2, Counters DEF Dec
<1>4. \A x \in Network!InFlight(net) : [kind |-> x.kind, left |-> x.left - 1] \in Network!InFlight(net')
  BY <1>0, <1>1, <1>2, AgeKeeps
<1>5. Progress(Network!InFlight(net'), sTries, lost, sRetx - 1, reliable, {"ok"}, "ack2", RoundWait)
  <2>1. Delay /\ Numbers(sTries, lost, sRetx) /\ RoundWait \in Nat
    BY <1>0, RoundsConstants, Counters, AcceptingFacts
  <2> QED
    BY <1>2, <1>4, <1>a, <2>1, InFlightMessages, ProgressAges
<1>6. "fail" \notin KindsIn(net')
  BY <1>0, <1>1, <1>a, NetworkAge
<1>7. cstate = "Accepted" => cLeft' > sRetx' + (AckTries - sTries) * AckWait
  <2>1. PICK x \in Nat : x = (AckTries - sTries) * AckWait
    BY <1>0, AcceptingFacts
  <2>2. cLeft > sRetx + x => cLeft - 1 > (sRetx - 1) + x
    BY <1>0, Counters
  <2> QED
    BY <1>3, <1>a, <2>1, <2>2
<1>8. sTries \in 1 .. AckTries /\ sRetx' <= RoundWait
  <2>1. sRetx \in Nat /\ RoundWait \in Nat /\ sRetx <= RoundWait /\ sTries \in 1 .. AckTries
    BY <1>0, AcceptingFacts, Counters DEF AcceptingInv
  <2> QED
    BY <1>3, <2>1
<1> QED
  BY <1>1, <1>3, <1>5, <1>6, <1>7, <1>8, <1>a DEF AcceptingInv, Waiting, RoundWait

LEMMA AcceptingBegins ==
    ASSUME RoundsFit, RoundsInv, RespondSuccess, Waiting, outcome = "none", KindsIn(net) \subseteq {"invite", "prov"}
    PROVE  AcceptingInv'
<1>0. net \in Network!Networks /\ CountersInv
  BY DEF RoundsInv, AckInv
<1>1. /\ net' = Network!Send(net, "ok") /\ sTries' = 1 /\ sRetx' = T1 /\ UNCHANGED <<outcome, reliable, cstate, cLeft, lost>>
  BY DEF RespondSuccess, Transmit, clientVars
<1>2. "ok" \in Kinds
  BY DEF Kinds, Responses
<1>3. JustSent("ok") \in Network!InFlight(net')
  BY <1>0, <1>1, <1>2, SendAdds DEF JustSent
<1>4. "fail" \notin KindsIn(net')
  BY <1>0, <1>1, <1>2, NetworkSend
<1>5. Progress(Network!InFlight(net'), 1, lost, T1, reliable, {"ok"}, "ack2", T1)
  BY <1>0, <1>3, RoundsConstants, Counters, ProgressBegins
<1>6. RoundWait' = T1 /\ sRetx' <= RoundWait' /\ sTries' \in 1 .. AckTries
  BY <1>1, RoundsConstants DEF RoundWait
<1> QED
  BY <1>1, <1>4, <1>5, <1>6 DEF AcceptingInv, Waiting

(* The 2xx is sent again, or the wait is over and every round was lost.    *)
LEMMA AcceptingAgain ==
    ASSUME RoundsFit, RoundsInv, AcceptingInv, AcceptingTimeout
    PROVE  /\ sstate' = "Accepting" => AcceptingInv'
           /\ sstate' = "None" => lost' >= sTries'
           /\ sstate' \in {"None", "Accepting"}
<1>0. net \in Network!Networks /\ CountersInv
  BY DEF RoundsInv, AckInv
<1>a. /\ cstate \in {"Init", "Proceeding", "Accepted"} /\ "fail" \notin KindsIn(net) /\ outcome = "none"
      /\ cstate = "Accepted" => cLeft > sRetx + (AckTries - sTries) * AckWait
      /\ Progress(Network!InFlight(net), sTries, lost, sRetx, reliable, {"ok"}, "ack2", RoundWait)
  BY DEF AcceptingInv, Waiting
<1>b. /\ Delay /\ Numbers(sTries, lost, 0) /\ Long(sTries, RoundWait) /\ sTries \in Nat /\ sTries > 0
      /\ sTries <= AckTries /\ AckTries \in Nat /\ AckTries > 1 /\ AckWait \in Nat /\ lost \in Nat
      /\ (reliable => lost = 0)
  BY <1>0, RoundsConstants, Counters, AcceptingFacts DEF Numbers
<1>1. /\ sRetx = 0 /\ sstate = "Accepting" /\ net' = Network!Send(net, "ok")
      /\ UNCHANGED <<reliable, cstate, cLeft, lost>>
  BY DEF AcceptingTimeout, Transmit, clientVars
<1>2. CASE sTries = AckTries
  <2>1. sTries' = sTries /\ sstate' = "None"
    BY <1>2 DEF AcceptingTimeout
  <2>2. sTries <= lost
    BY <1>1, <1>2, <1>a, <1>b, InFlightMessages, ProgressEnds
  <2> QED
    BY <1>1, <1>b, <2>1, <2>2
<1>3. CASE sTries # AckTries
  <2>1. sTries' = sTries + 1 /\ sRetx' = AckWait /\ UNCHANGED <<outcome, sstate>> /\ sTries < AckTries
    BY <1>3, <1>b DEF AcceptingTimeout, AckWait
  <2>2. "ok" \in Kinds
    BY DEF Kinds, Responses
  <2>3. Network!InFlight(net) \cup {JustSent("ok")} \subseteq Network!InFlight(net')
    BY <1>0, <1>1, <2>2, SendAdds DEF JustSent
  <2>4. "fail" \notin KindsIn(net')
    BY <1>0, <1>1, <1>a, <2>2, NetworkSend
  <2>5. Progress(Network!InFlight(net'), sTries + 1, lost, AckWait, reliable, {"ok"}, "ack2", AckWait)
    <3>1. "ok" \in {"ok"} /\ Progress(Network!InFlight(net), sTries, lost, 0, reliable, {"ok"}, "ack2", RoundWait)
      BY <1>1, <1>a
    <3> QED
      BY <1>b, <2>3, <3>1, InFlightMessages, ProgressRenews
  <2>6. RoundWait' = AckWait /\ sRetx' <= RoundWait' /\ sTries' \in 1 .. AckTries
    BY <1>b, <2>1 DEF RoundWait
  <2>7. cstate = "Accepted" => cLeft > AckWait + (AckTries - (sTries + 1)) * AckWait
    <3>1. AckWait + (AckTries - (sTries + 1)) * AckWait = (AckTries - sTries) * AckWait
      BY <1>b, <2>1, AckStep
    <3>2. PICK x \in Nat : x = (AckTries - sTries) * AckWait
      BY <1>0, AcceptingFacts
    <3>3. 0 + x = x
      OBVIOUS
    <3> QED
      BY <1>1, <1>a, <3>1, <3>2, <3>3
  <2> QED
    BY <1>1, <1>a, <2>1, <2>4, <2>5, <2>6, <2>7 DEF AcceptingInv, Waiting
<1> QED
  BY <1>2, <1>3

(* A request that no one waits for: nothing changes for the loop.          *)
LEMMA AcceptingDelivers ==
    ASSUME RoundsInv, AcceptingInv, NEW m \in Network!InFlight(net), Delivered(m), m.kind \in {"invite", "ack"},
           UNCHANGED <<outcome, sTries, sRetx, clientVars>>
    PROVE  AcceptingInv'
<1>0. net \in Network!Networks /\ UNCHANGED <<reliable, cstate, cLeft>>
  BY DEF RoundsInv, AckInv, clientVars
<1>a. /\ cstate \in {"Init", "Proceeding", "Accepted"} /\ "fail" \notin KindsIn(net)
      /\ cstate = "Accepted" => cLeft > sRetx + (AckTries - sTries) * AckWait
      /\ Progress(Network!InFlight(net), sTries, lost, sRetx, reliable, {"ok"}, "ack2", RoundWait)
  BY DEF AcceptingInv, Waiting
<1>1. /\ Network!InFlight(net) \ {m} \subseteq Network!InFlight(net') /\ lost' = lost
      /\ "fail" \notin KindsIn(net') /\ m.kind \notin {"ok"} /\ m.kind # "ack2"
  BY <1>0, <1>a, DeliveryLeaves, DeliveryKinds
<1>2. Progress(Network!InFlight(net'), sTries, lost, sRetx, reliable, {"ok"}, "ack2", RoundWait)
  BY <1>1, <1>a, ProgressPasses
<1> QED
  BY <1>0, <1>1, <1>2, <1>a, AcceptingStays

-----------------------------------------------------------------------------
(* In the loop of respond_failure.                                         *)
LEMMA FailingFacts ==
    ASSUME RoundsFit, CountersInv, FailingInv
    PROVE  /\ Delay /\ Numbers(sTries, lost, sRetx) /\ Long(sTries, sN) /\ sTries > 0 /\ sN \in Nat
           /\ cstate \in {"Init", "Proceeding", "Completed", "Terminated"} /\ sLeft <= Timeout + 1
<1>1. /\ sTries > 0 /\ sLeft <= Timeout + 1 /\ (sTries = 1 => sN = T1) /\ (sTries > 1 => 2 * MaxDelay < sN)
      /\ cstate \in {"Init", "Proceeding", "Completed", "Terminated"}
  BY DEF FailingInv, ScheduleInv, PeerInv, Waiting
<1>2. Delay /\ Numbers(sTries, lost, sRetx) /\ 2 * MaxDelay <= T1 /\ sTries \in Nat /\ sN \in Nat
  BY RoundsConstants, Counters
<1>3. Long(sTries, sN)
  <2>1. sTries = 1 \/ sTries > 1
    BY <1>1, <1>2
  <2> QED
    BY <1>1, <1>2, <2>1 DEF Long, Delay
<1> QED
  BY <1>1, <1>2, <1>3

(* While the response of a round is under way, the client has not stopped  *)
(* to absorb.                                                              *)
LEMMA StillAbsorbing ==
    ASSUME RoundsFit, CountersInv, ScheduleInv, sLeft <= 1, NEW R
    PROVE  ~Fresh(Network!InFlight(net), R, sN, sRetx)
<1> SUFFICES ASSUME Fresh(Network!InFlight(net), R, sN, sRetx) PROVE FALSE
  OBVIOUS
<1>1. PICK m \in Network!InFlight(net) : m.left + sN = MaxDelay + sRetx
  BY DEF Fresh
<1>2. m.left \in Nat /\ MaxDelay \in Nat
  BY MessageFields
<1>3. PICK t \in 0 .. Timeout : <<t, sN>> \in Schedule /\ sLeft + t + sN >= Timeout + 1 + sRetx
  BY DEF ScheduleInv
<1>4. t + MaxDelay < Timeout /\ t \in Nat /\ Timeout \in Nat
  <2>1. <<t, sN>>[1] = t /\ t <= Timeout /\ t \in Nat /\ Timeout \in Nat
    BY RoundsConstants
  <2> QED
    BY <1>3, <2>1 DEF RoundsFit
<1>5. sLeft \in Nat /\ sN \in Nat /\ sRetx \in Nat
  BY Counters
<1> QED
  BY <1>1, <1>2, <1>3, <1>4, <1>5

LEMMA FailingStays ==
    ASSUME ScheduleInv, UNCHANGED <<outcome, sTries, sRetx, sN, sLeft, sQueue>>, PeerInv', "ok" \notin KindsIn(net'),
           AckQueued \/ FailingProgress'
    PROVE  FailingInv'
<1>1. ScheduleInv'
  BY DEF ScheduleInv
<1>2. AckQueued => AckQueued'
  BY DEF AckQueued
<1> QED
  BY <1>1, <1>2 DEF FailingInv

LEMMA FailingClient ==
    ASSUME RoundsFit, RoundsInv, FailingInv, Client, cstate' \notin {"TimedOut", "Failed"}
    PROVE  FailingInv'
<1>0. net \in Network!Networks /\ CountersInv
  BY DEF RoundsInv, AckInv
<1>a. ScheduleInv /\ PeerInv /\ "ok" \notin KindsIn(net) /\ (AckQueued \/ FailingProgress)
  BY DEF FailingInv
<1>b. UNCHANGED <<outcome, sTries, sRetx, sN, sLeft, sQueue, reliable, lost>>
  BY DEF Client, ClientRetransmit, ClientTimeout, ClientAbsorbed, Transmit, serverVars, netVars
<1>c. cstate \in {"Init", "Proceeding", "Completed", "Terminated"}
  BY <1>0, FailingFacts
<1>1. CASE ClientRetransmit
  <2>1. net' = Network!Send(net, "invite") /\ UNCHANGED <<cstate, cLeft>>
    BY <1>1 DEF ClientRetransmit, Transmit
  <2>2. "invite" \in Kinds
    BY DEF Kinds
  <2>3. Network!InFlight(net) \subseteq Network!InFlight(net')
    BY <1>0, <2>1, <2>2, SendAdds
  <2>4. "ok" \notin KindsIn(net')
    BY <1>0, <1>a, <2>1, <2>2, NetworkSend
  <2>5. Answered' = Answered /\ PeerInv'
    BY <1>a, <1>b, <2>1 DEF Answered, PeerInv, Waiting
  <2>6. FailingProgress => Progress(Network!InFlight(net'), sTries, lost, sRetx, reliable, Answered, "ack", sN)
    BY <2>3, ProgressGrows DEF FailingProgress
  <2>7. FailingProgress => FailingProgress'
    BY <1>b, <2>5, <2>6 DEF FailingProgress
  <2> QED
    BY <1>a, <1>b, <2>4, <2>5, <2>7, FailingStays
<1>2. CASE ClientTimeout
  BY <1>2, <1>c DEF ClientTimeout
<1>3. CASE ClientAbsorbed
  <2>1. cstate = "Completed" /\ cLeft = 0 /\ cstate' = "Terminated" /\ net' = net
    BY <1>3 DEF ClientAbsorbed, netVars
  <2>2. ~reliable /\ sLeft <= 1
    BY <1>0, <1>a, <2>1, Counters DEF PeerInv, Waiting
  <2>3. PeerInv' /\ "ok" \notin KindsIn(net')
    BY <1>a, <1>b, <2>1, <2>2 DEF PeerInv
  <2>4. ~Fresh(Network!InFlight(net), Answered, sN, sRetx)
    BY <1>0, <1>a, <2>2, StillAbsorbing
  <2>5. FailingProgress => Progress(Network!InFlight(net), sTries, lost, sRetx, reliable, {}, "ack", sN)
    BY <2>2, <2>4 DEF FailingProgress, Progress
  <2>6. Answered' = {}
    BY <2>1 DEF Answered, Waiting
  <2>7. FailingProgress => FailingProgress'
    BY <1>b, <2>1, <2>5, <2>6 DEF FailingProgress
  <2> QED
    BY <1>a, <1>b, <2>3, <2>7, FailingStays
<1> QED
  BY <1>1, <1>2, <1>3 DEF Client

LEMMA FailingReceives ==
    ASSUME RoundsFit, RoundsInv, FailingInv, NEW m \in Network!InFlight(net), ClientReceive(m),
           cstate' \notin {"TimedOut", "Failed"}
    PROVE  FailingInv'
<1>0. net \in Network!Networks /\ CountersInv
  BY DEF RoundsInv, AckInv
<1>a. ScheduleInv /\ PeerInv /\ "ok" \notin KindsIn(net) /\ (AckQueued \/ FailingProgress) /\ m.kind \in KindsIn(net)
  BY DEF FailingInv, KindsIn
<1>b. UNCHANGED <<outcome, sTries, sRetx, sN, sLeft, sQueue, reliable>>
  BY DEF ClientReceive, HandleProvisional, HandleSuccess, HandleFailure, ReceiveAccepted, AcknowledgeAgain,
         ClientOrphan, serverVars, clientVars
<1>c. /\ "ack" \in Kinds /\ m.kind # "ok" /\ cstate \in {"Init", "Proceeding", "Completed", "Terminated"}
      /\ sLeft <= Timeout + 1
  BY <1>0, <1>a, FailingFacts DEF Kinds
(* What comes is taken, or answered with the ACK.                          *)
<1>1. ASSUME Delivered(m), m.kind \notin Answered, m.kind # "ack", Answered' = Answered
      PROVE  (FailingProgress => FailingProgress') /\ "ok" \notin KindsIn(net')
  <2>1. Network!InFlight(net) \ {m} \subseteq Network!InFlight(net') /\ lost' = lost
    BY <1>0, <1>1, DeliveryLeaves
  <2>2. FailingProgress => Progress(Network!InFlight(net'), sTries, lost, sRetx, reliable, Answered, "ack", sN)
    BY <1>1, <2>1, ProgressPasses DEF FailingProgress
  <2>3. FailingProgress => FailingProgress'
    BY <1>1, <1>b, <2>1, <2>2 DEF FailingProgress
  <2> QED
    BY <1>0, <1>1, <1>a, <2>3, DeliveryKinds
<1>2. ASSUME DeliveredThenSent(m, "ack"), m.kind # "ack"
      PROVE  (FailingProgress => FailingProgress') /\ "ok" \notin KindsIn(net')
  <2>1. (Network!InFlight(net) \ {m}) \cup {JustSent("ack")} \subseteq Network!InFlight(net') /\ lost' = lost
    BY <1>0, <1>2, <1>c, AnswerLeaves DEF JustSent
  <2>2. Delay /\ Numbers(sTries, lost, sRetx) /\ Long(sTries, sN)
    BY <1>0, FailingFacts
  <2>3. FailingProgress => Progress(Network!InFlight(net'), sTries, lost, sRetx, reliable, Answered', "ack", sN)
    BY <1>2, <2>1, <2>2, InFlightMessages, ProgressAnswers DEF FailingProgress
  <2>4. FailingProgress => FailingProgress'
    BY <1>b, <2>1, <2>3 DEF FailingProgress
  <2> QED
    BY <1>0, <1>2, <1>a, <1>c, <2>4, AnsweredKinds
<1>3. CASE HandleProvisional(m)
  <2>1. Delivered(m) /\ m.kind = "prov" /\ cstate' = "Proceeding" /\ Waiting
    BY <1>3 DEF HandleProvisional, Waiting
  <2>2. Answered = {"fail"} /\ Answered' = {"fail"} /\ PeerInv'
    BY <2>1 DEF Answered, Waiting, PeerInv
  <2> QED
    BY <1>1, <1>a, <1>b, <2>1, <2>2, FailingStays
<1>4. CASE HandleSuccess(m)
  BY <1>4, <1>c DEF HandleSuccess
<1>5. CASE HandleFailure(m)
  <2>1. /\ DeliveredThenSent(m, "ack") /\ m.kind = "fail" /\ cLeft' = Timeout
        /\ cstate' = IF reliable THEN "Terminated" ELSE "Completed"
    BY <1>5 DEF HandleFailure
  <2>2. PeerInv'
    <3>1. cLeft' + 1 >= sLeft
      BY <1>0, <1>c, <2>1, Counters, RoundsConstants
    <3> QED
      BY <1>b, <2>1, <3>1 DEF PeerInv
  <2> QED
    BY <1>2, <1>a, <1>b, <2>1, <2>2, FailingStays
<1>6. CASE ReceiveAccepted(m)
  BY <1>6, <1>c DEF ReceiveAccepted
<1>7. CASE AcknowledgeAgain(m)
  <2>1. DeliveredThenSent(m, "ack") /\ m.kind # "ack" /\ UNCHANGED <<cstate, cLeft>>
    BY <1>7 DEF AcknowledgeAgain, clientVars, Responses
  <2>2. PeerInv'
    BY <1>a, <1>b, <2>1 DEF PeerInv, Waiting
  <2> QED
    BY <1>2, <1>a, <1>b, <2>1, <2>2, FailingStays
<1>8. CASE ClientOrphan(m)
  <2>1. Delivered(m) /\ m.kind # "ack" /\ cstate = "Terminated" /\ UNCHANGED <<cstate, cLeft>>
    BY <1>8, <1>c DEF ClientOrphan, ClientRegistered, clientVars, Responses
  <2>2. Answered = {} /\ Answered' = {} /\ PeerInv'
    BY <1>a, <1>b, <2>1 DEF PeerInv, Waiting, Answered
  <2> QED
    BY <1>1, <1>a, <1>b, <2>1, <2>2, FailingStays
<1> QED
  BY <1>3, <1>4, <1>5, <1>6, <1>7, <1>8 DEF ClientReceive

LEMMA FailingLoses ==
    ASSUME RoundsFit, RoundsInv, FailingInv, NEW m \in Network!InFlight(net), Lose(m)
    PROVE  FailingInv'
<1>0. net \in Network!Networks /\ CountersInv
  BY DEF RoundsInv, AckInv
<1>a. ScheduleInv /\ PeerInv /\ "ok" \notin KindsIn(net) /\ (AckQueued \/ FailingProgress)
  BY DEF FailingInv
<1>1. /\ ~reliable /\ net' = Network!Take(net, m) /\ lost' = lost + 1
      /\ UNCHANGED <<outcome, sTries, sRetx, sN, sLeft, sQueue, reliable, cstate, cLeft>>
  BY DEF Lose, clientVars, serverVars
<1>2. Network!InFlight(net) \ {m} \subseteq Network!InFlight(net') /\ "ok" \notin KindsIn(net')
  BY <1>0, <1>1, <1>a, TakeLeaves, NetworkTake
<1>3. Delay /\ Numbers(sTries, lost, sRetx) /\ Long(sTries, sN)
  BY <1>0, FailingFacts
<1>4. "ack" \notin Answered /\ Answered' = Answered /\ PeerInv'
  BY <1>1, <1>a DEF Answered, Waiting, PeerInv
<1>5. FailingProgress => Progress(Network!InFlight(net'), sTries, lost + 1, sRetx, reliable, Answered, "ack", sN)
  BY <1>1, <1>2, <1>3, <1>4, ProgressLoses DEF FailingProgress
<1>6. FailingProgress => FailingProgress'
  BY <1>1, <1>4, <1>5 DEF FailingProgress
<1> QED
  BY <1>1, <1>2, <1>4, <1>6, <1>a, FailingStays

LEMMA FailingTick ==
    ASSUME RoundsFit, RoundsInv, FailingInv, sstate = "Failing", Tick
    PROVE  FailingInv'
<1>0. net \in Network!Networks /\ CountersInv
  BY DEF RoundsInv, AckInv
<1>1. /\ net' = Network!Age(net) /\ cLeft' = Dec(cLeft) /\ sRetx' = Dec(sRetx) /\ sLeft' = Dec(sLeft)
      /\ UNCHANGED <<outcome, sTries, sN, sQueue, reliable, cstate, lost>>
  BY DEF Tick
<1>2. sRetx # 0 /\ sQueue = <<>> /\ ~Network!Overdue(net) /\ (cstate = "Completed" => cLeft # 0)
  BY DEF Tick, Due, ClientRegistered
<1>a. ScheduleInv /\ PeerInv /\ "ok" \notin KindsIn(net) /\ FailingProgress
  BY <1>2 DEF FailingInv, AckQueued
<1>b. /\ cLeft \in Nat /\ sLeft \in Nat /\ sRetx \in Nat /\ sN \in Nat /\ sTries \in Nat
      /\ T1 \in Nat /\ Timeout \in Nat /\ Delay /\ Numbers(sTries, lost, sRetx)
  BY <1>0, Counters, RoundsConstants
<1>3. \A x \in Network!InFlight(net) : x.left > 0
  <2>1. \A x \in Network!InFlight(net) : x.left # 0 /\ x.left \in Nat
    BY <1>2, MessageFields DEF Network!Overdue
  <2> QED
    BY <2>1
<1>4. /\ sRetx' = sRetx - 1 /\ sRetx > 0 /\ sLeft' \in Nat
      /\ sLeft' = IF sLeft = 0 THEN 0 ELSE sLeft - 1
  BY <1>1, <1>2, <1>b DEF Dec
<1>5. \A x \in Network!InFlight(net) : [kind |-> x.kind, left |-> x.left - 1] \in Network!InFlight(net')
  BY <1>0, <1>1, <1>3, AgeKeeps
<1>6. Progress(Network!InFlight(net'), sTries, lost, sRetx - 1, reliable, Answered, "ack", sN)
  BY <1>3, <1>4, <1>5, <1>a, <1>b, InFlightMessages, ProgressAges DEF FailingProgress
<1>7. FailingProgress'
  <2>1. Answered' = Answered
    BY <1>1 DEF Answered, Waiting
  <2> QED
    BY <1>1, <1>4, <1>6, <2>1 DEF FailingProgress
<1>8. "ok" \notin KindsIn(net')
  BY <1>0, <1>1, <1>a, NetworkAge
<1>9. PeerInv'
  <2>1. CASE cstate = "Completed"
    <3>1. cLeft' = cLeft - 1 /\ cLeft > 0 /\ cLeft + 1 >= sLeft /\ ~reliable
      BY <1>1, <1>2, <1>a, <1>b, <2>1 DEF Dec, PeerInv, Waiting
    <3>2. cLeft' + 1 >= sLeft'
      BY <1>4, <1>b, <3>1
    <3> QED
      BY <1>1, <2>1, <3>1, <3>2 DEF PeerInv
  <2>2. CASE cstate = "Terminated"
    <3>1. sLeft <= 1 => sLeft' <= 1
      BY <1>4, <1>b
    <3> QED
      BY <1>1, <1>a, <2>2, <3>1 DEF PeerInv, Waiting
  <2>3. CASE Waiting
    BY <1>1, <2>3 DEF PeerInv, Waiting
  <2> QED
    BY <1>a, <2>1, <2>2, <2>3 DEF PeerInv
<1>10. ScheduleInv'
  <2>1. PICK t \in 0 .. Timeout :
          /\ <<t, sN>> \in Schedule
          /\ sLeft + t + sN >= Timeout + 1 + sRetx
          /\ sLeft > 0 => sLeft + t + sN = Timeout + 1 + sRetx
    BY <1>a DEF ScheduleInv
  <2>2. /\ sLeft' + t + sN >= Timeout + 1 + sRetx'
        /\ sLeft' > 0 => sLeft' + t + sN = Timeout + 1 + sRetx'
    BY <1>4, <1>b, <2>1
  <2>3. sLeft + T1 >= Timeout + 1 + sRetx => sLeft' + T1 >= Timeout + 1 + sRetx'
    BY <1>4, <1>b
  <2>4. (sRetx <= sN => sRetx' <= sN) /\ (sLeft <= Timeout + 1 => sLeft' <= Timeout + 1)
    BY <1>4, <1>b
  <2> QED
    BY <1>1, <1>a, <2>1, <2>2, <2>3, <2>4 DEF ScheduleInv
<1> QED
  BY <1>7, <1>8, <1>9, <1>10 DEF FailingInv

LEMMA FailingBegins ==
    ASSUME RoundsFit, RoundsInv, RespondFailure, Waiting, outcome = "none", KindsIn(net) \subseteq {"invite", "prov"}
    PROVE  FailingInv'
<1>0. net \in Network!Networks /\ CountersInv
  BY DEF RoundsInv, AckInv
<1>1. /\ net' = Network!Send(net, "fail") /\ sTries' = 1 /\ sRetx' = T1 /\ sN' = T1 /\ sLeft' = Timeout + 1
      /\ UNCHANGED <<outcome, reliable, cstate, cLeft, lost>>
  BY DEF RespondFailure, Transmit, clientVars
<1>2. "fail" \in Kinds
  BY DEF Kinds, Responses
<1>3. JustSent("fail") \in Network!InFlight(net')
  BY <1>0, <1>1, <1>2, SendAdds DEF JustSent
<1>4. "ok" \notin KindsIn(net')
  BY <1>0, <1>1, <1>2, NetworkSend
<1>5. Progress(Network!InFlight(net'), 1, lost, T1, reliable, {"fail"}, "ack", T1)
  BY <1>0, <1>3, RoundsConstants, Counters, ProgressBegins
<1>6. Answered' = {"fail"} /\ PeerInv'
  BY <1>1 DEF Answered, PeerInv, Waiting
<1>7. FailingProgress'
  BY <1>1, <1>5, <1>6 DEF FailingProgress
<1>8. T1 \in Nat /\ Timeout \in Nat /\ 0 \in 0 .. Timeout /\ <<0, T1>> \in Schedule
  BY RoundsConstants, ScheduleIsClosed
<1>9. /\ sTries' > 0 /\ sRetx' <= sN' /\ sLeft' + T1 >= Timeout + 1 + sRetx' /\ ~(sTries' > 1) /\ sLeft' <= Timeout + 1
      /\ sLeft' + 0 + sN' = Timeout + 1 + sRetx' /\ sLeft' + 0 + sN' >= Timeout + 1 + sRetx'
  BY <1>1, <1>8
<1>10. ScheduleInv'
  BY <1>1, <1>8, <1>9 DEF ScheduleInv
<1> QED
  BY <1>4, <1>6, <1>7, <1>10 DEF FailingInv

(* The failure is sent again, or the time is over and every round was lost.*)
LEMMA FailingAgain ==
    ASSUME RoundsFit, RoundsInv, FailingInv, FailingTimeout, cstate \notin {"TimedOut", "Failed"}
    PROVE  /\ sstate' = "Failing" => FailingInv'
           /\ sstate' = "None" => lost' >= sTries'
           /\ sstate' \in {"None", "Failing"}
<1>0. net \in Network!Networks /\ CountersInv
  BY DEF RoundsInv, AckInv
<1>1. sRetx = 0 /\ sQueue = <<>> /\ sstate = "Failing" /\ UNCHANGED <<reliable, cstate, cLeft, sLeft, sQueue>>
  BY DEF FailingTimeout, clientVars
<1>a. ScheduleInv /\ PeerInv /\ "ok" \notin KindsIn(net) /\ FailingProgress
  BY <1>1 DEF FailingInv, AckQueued
<1>b. /\ Delay /\ Numbers(sTries, lost, 0) /\ Long(sTries, sN) /\ sTries \in Nat /\ sTries > 0 /\ lost \in Nat
      /\ (reliable => lost = 0) /\ sN \in Nat /\ sLeft \in Nat /\ T1 \in Nat /\ T2 \in Nat /\ Timeout \in Nat
      /\ T1 < Timeout /\ 2 * MaxDelay < T2 /\ 2 * MaxDelay <= T1
  BY <1>0, <1>1, RoundsConstants, Counters, FailingFacts DEF Numbers
<1>c. Progress(Network!InFlight(net), sTries, lost, 0, reliable, Answered, "ack", sN)
  BY <1>1, <1>a DEF FailingProgress
<1>2. CASE sLeft = 0
  <2>1. sTries' = sTries /\ lost' = lost /\ sstate' = "None"
    BY <1>2 DEF FailingTimeout, netVars
  <2>2. sTries > 1
    <3>1. sTries # 1
      BY <1>1, <1>2, <1>a, <1>b DEF ScheduleInv
    <3> QED
      BY <1>b, <3>1
  <2>3. sTries <= lost
    BY <1>b, <1>c, <2>2, InFlightMessages, ProgressEnds
  <2> QED
    BY <1>b, <2>1, <2>3
<1>3. CASE sLeft # 0
  <2> DEFINE next == IF sN * 2 < T2 THEN sN * 2 ELSE T2
  <2>1. /\ net' = Network!Send(net, "fail") /\ sTries' = sTries + 1 /\ sN' = next /\ sRetx' = next
        /\ UNCHANGED <<sstate, outcome, lost>>
    BY <1>3 DEF FailingTimeout, Transmit
  <2>2. next \in Nat /\ 2 * MaxDelay < next
    BY <1>b DEF Long, Delay
  <2>3. PICK t \in 0 .. Timeout : <<t, sN>> \in Schedule /\ sLeft + t + sN = Timeout + 1 + sRetx
    BY <1>3, <1>a, <1>b DEF ScheduleInv
  <2>4. t \in Nat /\ t + sN = Timeout + 1 - sLeft /\ t + sN \in 0 .. Timeout /\ t + sN <= Timeout
    BY <1>1, <1>3, <1>b, <2>3
  <2>5. <<t + sN, next>> \in Schedule
    BY <1>b, <2>3, <2>4, ScheduleIsClosed
  <2>6. sLeft > 1
    <3>1. <<t + sN, next>>[1] = t + sN
      OBVIOUS
    <3>2. t + sN + MaxDelay < Timeout
      BY <2>4, <2>5, <3>1 DEF RoundsFit
    <3> QED
      BY <1>b, <2>4, <3>2 DEF Delay
  <2>7. PICK n \in Nat : n = next
    BY <2>2
  <2> HIDE DEF next
  <2>8. /\ sTries' > 0 /\ sRetx' <= sN' /\ sTries' # 1 /\ sLeft' <= Timeout + 1
        /\ sLeft' + (t + sN) + sN' = Timeout + 1 + sRetx' /\ sLeft' + (t + sN) + sN' >= Timeout + 1 + sRetx'
    <3>1. sLeft <= Timeout + 1
      BY <1>a DEF ScheduleInv
    <3>2. sRetx' = n /\ sN' = n /\ sLeft' = sLeft /\ sTries' = sTries + 1
      BY <1>1, <2>1, <2>7
    <3> QED
      BY <1>b, <2>4, <3>1, <3>2
  <2>9. ScheduleInv'
    <3>1. outcome' = "none" /\ 2 * MaxDelay < sN' /\ <<t + sN, sN'>> \in Schedule
      BY <1>a, <2>1, <2>2, <2>5 DEF ScheduleInv
    <3> QED
      BY <2>4, <2>8, <3>1 DEF ScheduleInv
  <2>10. PeerInv'
    BY <1>1, <1>a DEF PeerInv, Waiting
  <2>11. "fail" \in Kinds
    BY DEF Kinds, Responses
  <2>12. Network!InFlight(net) \cup {JustSent("fail")} \subseteq Network!InFlight(net') /\ "ok" \notin KindsIn(net')
    BY <1>0, <1>a, <2>1, <2>11, SendAdds, NetworkSend DEF JustSent
  <2>13. reliable \/ "fail" \in Answered'
    <3>1. ~(sLeft <= 1)
      BY <1>b, <2>6
    <3> QED
      BY <1>1, <1>a, <3>1 DEF PeerInv, Answered, Waiting
  <2>14. Progress(Network!InFlight(net'), sTries + 1, lost, next, reliable, Answered', "ack", next)
    BY <1>b, <1>c, <2>2, <2>12, <2>13, InFlightMessages, ProgressRenews
  <2>15. FailingProgress'
    BY <1>1, <2>1, <2>14 DEF FailingProgress
  <2> QED
    BY <1>1, <2>1, <2>9, <2>10, <2>12, <2>15 DEF FailingInv
<1> QED
  BY <1>2, <1>3

(* The loop takes a repeated INVITE from its registration.                 *)
LEMMA FailingRepeats ==
    ASSUME RoundsFit, RoundsInv, FailingInv, FailingReceive, sstate' = "Failing"
    PROVE  FailingInv'
<1>0. net \in Network!Networks /\ CountersInv /\ sQueue \in Seq(Kinds)
  BY DEF RoundsInv, AckInv
<1>a. ScheduleInv /\ PeerInv /\ "ok" \notin KindsIn(net) /\ (AckQueued \/ FailingProgress)
  BY DEF FailingInv
<1>1. /\ sQueue # <<>> /\ sQueue' = Tail(sQueue) /\ Head(sQueue) # "ack" /\ net' = Network!Send(net, "fail")
      /\ UNCHANGED <<outcome, sTries, sRetx, sN, sLeft, reliable, cstate, cLeft, lost>>
  BY DEF FailingReceive, Transmit, clientVars
<1>2. AckQueued => AckQueued'
  <2> SUFFICES ASSUME AckQueued PROVE AckQueued'
    OBVIOUS
  <2>1. PICK i \in DOMAIN sQueue : sQueue[i] = "ack"
    BY DEF AckQueued
  <2>2. Head(sQueue) = sQueue[1] /\ i \in Nat /\ i > 0
    BY <1>0, <1>1, <2>1
  <2>3. i # 1
    BY <1>1, <2>1, <2>2
  <2>4. i - 1 \in DOMAIN sQueue' /\ sQueue'[i - 1] = sQueue[i]
    BY <1>0, <1>1, <2>1, <2>2, <2>3
  <2> QED
    BY <2>1, <2>4 DEF AckQueued
<1>3. "fail" \in Kinds
  BY DEF Kinds, Responses
<1>4. Network!InFlight(net) \subseteq Network!InFlight(net') /\ "ok" \notin KindsIn(net')
  BY <1>0, <1>1, <1>3, <1>a, SendAdds, NetworkSend
<1>5. Answered' = Answered /\ PeerInv' /\ ScheduleInv'
  BY <1>1, <1>a DEF Answered, Waiting, PeerInv, ScheduleInv
<1>6. FailingProgress => Progress(Network!InFlight(net'), sTries, lost, sRetx, reliable, Answered, "ack", sN)
  BY <1>4, ProgressGrows DEF FailingProgress
<1>7. FailingProgress => FailingProgress'
  BY <1>1, <1>5, <1>6 DEF FailingProgress
<1> QED
  BY <1>2, <1>4, <1>5, <1>7, <1>a DEF FailingInv

(* A request reaches the registration, or no one.                          *)
LEMMA FailingDelivers ==
    ASSUME RoundsInv, FailingInv, NEW m \in Network!InFlight(net), Delivered(m),
           UNCHANGED <<outcome, sTries, sRetx, sN, sLeft, clientVars>>,
           \/ m.kind = "ack2" /\ UNCHANGED sQueue
           \/ m.kind \in {"invite", "ack"} /\ sQueue' = Append(sQueue, m.kind)
    PROVE  FailingInv'
<1>0. net \in Network!Networks /\ UNCHANGED <<reliable, cstate, cLeft>> /\ sQueue \in Seq(Kinds)
  BY DEF RoundsInv, AckInv, clientVars
<1>a. ScheduleInv /\ PeerInv /\ "ok" \notin KindsIn(net) /\ (AckQueued \/ FailingProgress)
  BY DEF FailingInv
<1>1. /\ Network!InFlight(net) \ {m} \subseteq Network!InFlight(net') /\ lost' = lost
      /\ "ok" \notin KindsIn(net') /\ m.kind \in Kinds
  BY <1>0, <1>a, DeliveryLeaves, DeliveryKinds
<1>2. AckQueued \/ m.kind = "ack" => AckQueued'
  <2>1. CASE UNCHANGED sQueue /\ m.kind # "ack"
    BY <2>1 DEF AckQueued
  <2>2. CASE sQueue' = Append(sQueue, m.kind)
    <3>1. /\ Len(sQueue) + 1 \in DOMAIN sQueue' /\ sQueue'[Len(sQueue) + 1] = m.kind
          /\ \A i \in DOMAIN sQueue : i \in DOMAIN sQueue' /\ sQueue'[i] = sQueue[i]
      BY <1>0, <1>1, <2>2, AppendProperties
    <3> QED
      BY <3>1 DEF AckQueued
  <2> QED
    BY <2>1, <2>2
<1>3. Answered' = Answered /\ PeerInv' /\ ScheduleInv' /\ Answered \subseteq {"fail"}
  BY <1>0, <1>a DEF Answered, Waiting, PeerInv, ScheduleInv
<1>4. m.kind # "ack" /\ FailingProgress =>
          Progress(Network!InFlight(net'), sTries, lost, sRetx, reliable, Answered, "ack", sN)
  <2>1. m.kind \notin Answered
    BY <1>3
  <2> QED
    BY <1>1, <2>1, ProgressPasses DEF FailingProgress
<1>5. m.kind # "ack" /\ FailingProgress => FailingProgress'
  BY <1>0, <1>1, <1>3, <1>4 DEF FailingProgress
<1> QED
  BY <1>1, <1>2, <1>3, <1>5, <1>a DEF FailingInv

-----------------------------------------------------------------------------
LEMMA RoundsInit == ASSUME RoundsFit, Init PROVE RoundsInv
<1>1. AckInv
  BY AckInit
<1>2. CountersInv
  BY RoundsConstants DEF Init, CountersInv
<1>3. "invite" \in Kinds /\ KindsIn(Network!Empty) = {} /\ Network!Empty \in Network!Networks
  BY NetworkEmpty DEF Kinds
<1>4. KindsIn(net) \subseteq {"invite"}
  BY <1>3, NetworkSend DEF Init
<1>5. FirstInv
  BY <1>4 DEF Init, FirstInv, Waiting
<1> QED
  BY <1>1, <1>2, <1>5 DEF RoundsInv

(* A step of the client or a loss, when the server is not in a loop.       *)
LEMMA FirstClient ==
    ASSUME RoundsFit, RoundsInv, FirstInv, Client, cstate' \notin {"TimedOut", "Failed"}
    PROVE  FirstInv'
<1>0. net \in Network!Networks /\ CountersInv
  BY DEF RoundsInv, AckInv
<1>1. UNCHANGED <<served, sstate, outcome, sTries, lost>>
  BY DEF Client, ClientRetransmit, ClientTimeout, ClientAbsorbed, Transmit, serverVars, netVars
<1>2. Waiting => Waiting' /\ KindsIn(net') \subseteq KindsIn(net) \cup {"invite"}
  <2>1. "invite" \in Kinds
    BY DEF Kinds
  <2>2. Waiting => cstate' = cstate /\ net' = Network!Send(net, "invite")
    BY DEF Waiting, Client, ClientRetransmit, ClientTimeout, ClientAbsorbed, Transmit
  <2> QED
    BY <1>0, <2>1, <2>2, NetworkSend DEF Waiting
<1>3. served = 1 /\ sstate = "None" /\ RoundsSuffice => RoundsSuffice'
  BY <1>1 DEF RoundsSuffice, Client, ClientRetransmit, ClientTimeout, ClientAbsorbed
<1>4. (AcceptingInv => AcceptingInv') /\ (FailingInv => FailingInv')
  BY AcceptingClient, FailingClient
<1> QED
  BY <1>1, <1>2, <1>3, <1>4 DEF FirstInv

LEMMA FirstReceives ==
    ASSUME RoundsFit, RoundsInv, FirstInv, NEW m \in Network!InFlight(net), ClientReceive(m),
           cstate \notin {"TimedOut", "Failed"}, cstate' \notin {"TimedOut", "Failed"}
    PROVE  FirstInv'
<1>0. net \in Network!Networks /\ CountersInv
  BY DEF RoundsInv, AckInv
<1>1. UNCHANGED <<served, sstate, outcome, sTries, lost>>
  BY DEF ClientReceive, HandleProvisional, HandleSuccess, HandleFailure, ReceiveAccepted, AcknowledgeAgain,
         ClientOrphan, Delivered, DeliveredThenSent, serverVars, clientVars
<1>2. m.kind \in KindsIn(net) /\ m.kind \in Responses
  BY DEF KindsIn, ClientReceive, HandleProvisional, HandleSuccess, HandleFailure, ReceiveAccepted, AcknowledgeAgain,
         ClientOrphan, Responses
<1>3. Waiting /\ m.kind = "prov" => Waiting' /\ KindsIn(net') \subseteq KindsIn(net)
  <2> SUFFICES ASSUME Waiting, m.kind = "prov" PROVE Waiting' /\ KindsIn(net') \subseteq KindsIn(net)
    OBVIOUS
  <2>1. HandleProvisional(m)
    BY DEF ClientReceive, HandleSuccess, HandleFailure, ReceiveAccepted, AcknowledgeAgain, ClientOrphan,
           ClientRegistered, Waiting
  <2>2. Delivered(m) /\ cstate' = "Proceeding"
    BY <2>1 DEF HandleProvisional
  <2> QED
    BY <1>0, <2>2, DeliveryKinds DEF Waiting
<1>4. served = 1 /\ sstate = "None" /\ RoundsSuffice => RoundsSuffice'
  BY <1>1 DEF RoundsSuffice
<1>5. (AcceptingInv => AcceptingInv') /\ (FailingInv => FailingInv')
  BY AcceptingReceives, FailingReceives
<1>6. served # 0
  BY <1>2 DEF FirstInv, Responses
<1>7. served = 1 /\ sstate = "User" => m.kind = "prov"
  BY <1>2 DEF FirstInv, Responses
<1> QED
  BY <1>1, <1>3, <1>4, <1>5, <1>6, <1>7 DEF FirstInv

LEMMA FirstLoses ==
    ASSUME RoundsFit, RoundsInv, FirstInv, NEW m \in Network!InFlight(net), Lose(m)
    PROVE  FirstInv'
<1>0. net \in Network!Networks /\ CountersInv
  BY DEF RoundsInv, AckInv
<1>1. UNCHANGED <<served, sstate, outcome, sTries, cstate>> /\ lost' = lost + 1 /\ net' = Network!Take(net, m)
  BY DEF Lose, clientVars, serverVars
<1>2. KindsIn(net') \subseteq KindsIn(net) /\ (Waiting => Waiting')
  BY <1>0, <1>1, NetworkTake DEF Waiting
<1>3. RoundsSuffice => RoundsSuffice'
  <2>1. lost >= sTries => lost' >= sTries'
    BY <1>0, <1>1, Counters
  <2> QED
    BY <1>1, <2>1 DEF RoundsSuffice
<1>4. (AcceptingInv => AcceptingInv') /\ (FailingInv => FailingInv')
  BY AcceptingLoses, FailingLoses
<1> QED
  BY <1>1, <1>2, <1>3, <1>4 DEF FirstInv

LEMMA FirstTick ==
    ASSUME RoundsFit, RoundsInv, FirstInv, Tick
    PROVE  FirstInv'
<1>0. net \in Network!Networks
  BY DEF RoundsInv, AckInv
<1>1. UNCHANGED <<served, sstate, outcome, sTries, cstate, lost>> /\ net' = Network!Age(net)
  BY DEF Tick
<1>2. KindsIn(net') \subseteq KindsIn(net) /\ (Waiting => Waiting')
  BY <1>0, <1>1, NetworkAge DEF Waiting
<1>3. RoundsSuffice => RoundsSuffice'
  BY <1>1 DEF RoundsSuffice
<1>4. /\ sstate = "Accepting" /\ AcceptingInv => AcceptingInv'
      /\ sstate = "Failing" /\ FailingInv => FailingInv'
  BY AcceptingTick, FailingTick
<1> QED
  BY <1>1, <1>2, <1>3, <1>4 DEF FirstInv

LEMMA FirstArrives ==
    ASSUME RoundsFit, RoundsInv, FirstInv, NEW m \in Network!InFlight(net), ServerReceive(m),
           cstate \notin {"TimedOut", "Failed"}
    PROVE  FirstInv'
<1>0. net \in Network!Networks /\ CountersInv /\ served \in Nat
  BY Counters DEF RoundsInv, AckInv
<1>1. Delivered(m) /\ UNCHANGED clientVars
  BY DEF ServerReceive, ServerNew, ServerQueue, ServerStrayAck, ReceiveAck
<1>2. KindsIn(net') \subseteq KindsIn(net) /\ (Waiting => Waiting') /\ lost' = lost /\ cstate' = cstate
  BY <1>0, <1>1, DeliveryKinds DEF Waiting, clientVars, Delivered
<1>3. CASE ServerNew(m)
  <2>1. sstate' = "User" /\ outcome' = "none" /\ served' = served + 1
    BY <1>3 DEF ServerNew
  <2>2. served' # 0 /\ (served' = 1 => served = 0)
    BY <1>0, <2>1
  <2> QED
    BY <1>2, <2>1, <2>2 DEF FirstInv
<1>4. CASE ServerQueue(m)
  <2>1. /\ UNCHANGED <<sstate, sLeft, sRetx, sN, sTries, outcome, served>> /\ sQueue' = Append(sQueue, m.kind)
        /\ sstate # "None" /\ m.kind \in {"invite", "ack"}
    BY <1>4 DEF ServerQueue
  <2>2. AcceptingInv => AcceptingInv'
    BY <1>1, <2>1, AcceptingDelivers
  <2>3. FailingInv => FailingInv'
    BY <1>1, <2>1, FailingDelivers
  <2> QED
    BY <1>2, <2>1, <2>2, <2>3 DEF FirstInv
<1>5. CASE ServerStrayAck(m)
  <2>1. /\ UNCHANGED <<sstate, sLeft, sRetx, sN, sTries, outcome, served, sQueue>>
        /\ m.kind \in {"ack", "ack2"} /\ (sstate = "Accepting" => m.kind = "ack") /\ (sstate = "Failing" => m.kind = "ack2")
    BY <1>5 DEF ServerStrayAck, serverVars
  <2>2. sstate = "Accepting" /\ AcceptingInv => AcceptingInv'
    BY <1>1, <2>1, AcceptingDelivers
  <2>3. sstate = "Failing" /\ FailingInv => FailingInv'
    BY <1>1, <2>1, FailingDelivers
  <2>4. RoundsSuffice => RoundsSuffice'
    BY <1>2, <2>1 DEF RoundsSuffice
  <2> QED
    BY <1>2, <2>1, <2>2, <2>3, <2>4 DEF FirstInv
<1>6. CASE ReceiveAck(m)
  <2>1. sstate = "Accepting" /\ sstate' = "None" /\ outcome' = "established" /\ served' = served
    BY <1>6 DEF ReceiveAck
  <2> QED
    BY <2>1 DEF FirstInv, RoundsSuffice
<1> QED
  BY <1>3, <1>4, <1>5, <1>6 DEF ServerReceive

LEMMA FirstServer ==
    ASSUME RoundsFit, RoundsInv, FirstInv, Server, cstate \notin {"TimedOut", "Failed"}
    PROVE  FirstInv'
<1>0. net \in Network!Networks /\ CountersInv
  BY DEF RoundsInv, AckInv
<1>1. UNCHANGED <<served, cstate, lost>> /\ sstate # "None" /\ served # 0
  BY DEF Server, RespondProvisional, RespondSuccess, RespondFailure, AcceptingTimeout, FailingReceive, FailingTimeout,
         SendFails, Transmit, clientVars, netVars, FirstInv
<1>2. CASE RespondProvisional
  <2>1. "prov" \in Kinds
    BY DEF Kinds, Responses
  <2>2. /\ sstate = "User" /\ UNCHANGED <<sstate, outcome>> /\ (net' = net \/ net' = Network!Send(net, "prov"))
    BY <1>2 DEF RespondProvisional, Transmit, netVars
  <2>3. KindsIn(net') \subseteq KindsIn(net) \cup {"prov"} /\ (Waiting => Waiting')
    BY <1>0, <1>1, <2>1, <2>2, NetworkSend DEF Waiting
  <2> QED
    BY <1>1, <2>2, <2>3 DEF FirstInv
<1>3. CASE RespondSuccess
  <2>1. sstate = "User" /\ sstate' = "Accepting"
    BY <1>3 DEF RespondSuccess
  <2>2. served = 1 => AcceptingInv'
    BY <1>3, <2>1, AcceptingBegins DEF FirstInv
  <2> QED
    BY <1>1, <2>1, <2>2 DEF FirstInv
<1>4. CASE RespondFailure
  <2>1. sstate = "User" /\ sstate' = "Failing"
    BY <1>4 DEF RespondFailure
  <2>2. served = 1 => FailingInv'
    BY <1>4, <2>1, FailingBegins DEF FirstInv
  <2> QED
    BY <1>1, <2>1, <2>2 DEF FirstInv
<1>5. CASE AcceptingTimeout
  <2>1. sstate = "Accepting"
    BY <1>5 DEF AcceptingTimeout
  <2>2. served = 1 => /\ sstate' = "Accepting" => AcceptingInv'
                      /\ sstate' = "None" => lost' >= sTries'
                      /\ sstate' \in {"None", "Accepting"}
    BY <1>5, <2>1, AcceptingAgain DEF FirstInv
  <2> QED
    BY <1>1, <2>2 DEF FirstInv, RoundsSuffice
<1>6. CASE FailingTimeout
  <2>1. sstate = "Failing"
    BY <1>6 DEF FailingTimeout
  <2>2. served = 1 => /\ sstate' = "Failing" => FailingInv'
                      /\ sstate' = "None" => lost' >= sTries'
                      /\ sstate' \in {"None", "Failing"}
    BY <1>6, <2>1, FailingAgain DEF FirstInv
  <2> QED
    BY <1>1, <2>2 DEF FirstInv, RoundsSuffice
<1>7. CASE FailingReceive
  <2>1. /\ sstate = "Failing"
        /\ sstate' = "Failing" \/ (sstate' = "None" /\ outcome' = "acknowledged")
    BY <1>7 DEF FailingReceive
  <2>2. served = 1 /\ sstate' = "Failing" => FailingInv'
    BY <1>7, <2>1, FailingRepeats DEF FirstInv
  <2> QED
    BY <1>1, <2>1, <2>2 DEF FirstInv, RoundsSuffice
<1>8. CASE SendFails
  BY <1>1, <1>8 DEF SendFails, FirstInv, RoundsSuffice
<1> QED
  BY <1>2, <1>3, <1>4, <1>5, <1>6, <1>7, <1>8 DEF Server

LEMMA RoundsNext == ASSUME RoundsFit, RoundsInv, [Next]_vars PROVE RoundsInv'
<1>1. AckInv' /\ CountersInv'
  BY AckNext, CountersNext DEF RoundsInv
<1>2. ASSUME cstate' \notin {"TimedOut", "Failed"} PROVE FirstInv'
  <2>1. cstate \notin {"TimedOut", "Failed"}
    <3> SUFFICES ASSUME cstate \in {"TimedOut", "Failed"} PROVE cstate' = cstate
      BY <1>2
    <3>1. CASE Client
      BY <3>1 DEF Client, ClientRetransmit, ClientTimeout, ClientAbsorbed
    <3>2. CASE Server
      BY <3>2 DEF Server, RespondProvisional, RespondSuccess, RespondFailure, AcceptingTimeout, FailingReceive,
                  FailingTimeout, SendFails, clientVars
    <3>3. ASSUME NEW m, ClientReceive(m) \/ ServerReceive(m) \/ Lose(m) PROVE cstate' = cstate
      BY <3>3 DEF ClientReceive, HandleProvisional, HandleSuccess, HandleFailure, ReceiveAccepted, AcknowledgeAgain,
                  ClientOrphan, ServerReceive, ServerNew, ServerQueue, ServerStrayAck, ReceiveAck, Lose, clientVars
    <3>4. CASE Tick \/ UNCHANGED vars
      BY <3>4 DEF Tick, vars, clientVars
    <3> QED
      BY <3>1, <3>2, <3>3, <3>4 DEF Next
  <2>2. FirstInv
    BY <2>1 DEF RoundsInv
  <2>3. CASE UNCHANGED vars
    <3>1. UNCHANGED <<reliable, cstate, cLeft, sstate, sLeft, sRetx, sN, sQueue, sTries, outcome, served, net, lost>>
      BY <2>3 DEF vars, clientVars, serverVars, netVars
    <3>2. AcceptingInv => AcceptingInv'
      BY <3>1 DEF AcceptingInv, Waiting, RoundWait
    <3>3. FailingInv => FailingInv'
      BY <3>1 DEF FailingInv, ScheduleInv, PeerInv, AckQueued, FailingProgress, Answered, Waiting
    <3> QED
      BY <2>2, <3>1, <3>2, <3>3 DEF FirstInv, Waiting, RoundsSuffice
  <2> QED
    BY <1>2, <2>1, <2>2, <2>3, FirstClient, FirstServer, FirstReceives, FirstArrives, FirstLoses, FirstTick DEF Next
<1> QED
  BY <1>1, <1>2 DEF RoundsInv

(* In every state each round of the called side's loop was lost, but for   *)
(* one whose response or ACK is on its way in time.                        *)
THEOREM RoundsInvariant == ASSUME RoundsFit PROVE Spec => []RoundsInv
<1>1. Init => RoundsInv
  BY RoundsInit
<1>2. RoundsInv /\ [Next]_vars => RoundsInv'
  BY RoundsNext
<1> QED
  BY <1>1, <1>2, PTL DEF Spec

(* Hence respond_failure and receive_ack give up only if every one of      *)
(* their rounds lost the response or its ACK, or the caller is gone, over  *)
(* reliable and unreliable transports, for any number of losses,           *)
(* duplicates and repeated INVITEs.                                        *)
THEOREM RoundsDoSuffice == ASSUME RoundsFit PROVE Spec => []RoundsSuffice
<1>1. RoundsInv => RoundsSuffice
  BY DEF RoundsInv, FirstInv, AcceptingInv, FailingInv, ScheduleInv, RoundsSuffice
<1> QED
  BY <1>1, RoundsInvariant, PTL

-----------------------------------------------------------------------------
(* The non-INVITE transaction, whose two ends have the same clocks, queues *)
(* and network.  Its request is sent again every T2 until there is any     *)
(* response.                                                               *)
CONSTANT T4
VARIABLE broken
NonInvite == INSTANCE NonInviteTsx
nonInviteVars == <<reliable, cstate, cLeft, cRetx, sstate, sLeft, sQueue, provs, served, broken, net, lost, dups>>

Underway == NonInvite!Network!InFlight(net)

(* The request, the user's answer and its way back fit into an interval,   *)
(* and the timeout falls on the end of one.  In the code T2 is 4s and the  *)
(* timeout 32s.                                                            *)
TripFits == T4 \in Nat /\ 2 * MaxDelay + Think < T2 /\ \E k \in Nat : Timeout = k * T2

(* What either property excuses has not happened.                          *)
Orderly == broken = FALSE /\ lost * T2 < Timeout

(* A response will be there in less than c ticks unless something is lost: *)
(* of a request under way, of the user, of the task that responds again,   *)
(* or already under way.                                                   *)
Coming(F, state, left, queue, c) ==
    \/ \E m \in F : m.kind = "request" /\ m.left + Think + MaxDelay < c
    \/ state = "User" /\ left + MaxDelay < c
    \/ state = "Responded" /\ queue > 0 /\ MaxDelay < c
    \/ \E m \in F : m.kind = "final" /\ m.left < c
Answer(c) == Coming(Underway, sstate, sLeft, sQueue, c)

(* A request is due when a whole number of intervals is left.              *)
Aligned == (\E i \in Nat : cLeft = cRetx + i * T2) \/ (cLeft = 0 /\ cRetx = T2)

(* One message was lost for each interval that is over, and for the        *)
(* present one too unless its response comes before it ends.               *)
TryingInv ==
    /\ reliable => Answer(cLeft)
    /\ ~reliable => Aligned /\ \/ lost > 0 /\ lost * T2 + cLeft >= Timeout + cRetx
                               \/ lost * T2 + cLeft + T2 >= Timeout + cRetx /\ Answer(cRetx)
RequesterInv ==
    /\ reliable => lost = 0
    /\ cstate \in {"Init", "Proceeding"} => cLeft <= Timeout
    /\ cstate = "Init" => TryingInv
    /\ cstate = "Proceeding" => provs > 0 /\ (lost > 0 \/ Answer(cLeft))
    /\ cstate = "TimedOut" => provs > 0 /\ lost > 0

(* The registration of the first copy outlives every other one, and a      *)
(* client that still sends them.                                           *)
CopiesInv ==
    /\ served = 0 => /\ sstate = "None" /\ provs = 0 /\ \A m \in Underway : m.kind = "request"
                     /\ reliable => \A m \in Underway : net[m] = 1 /\ Underway = {m}
    /\ served = 1 => \A m \in Underway : m.kind = "request" =>
                        ~reliable /\ (sstate = "User" \/ (sstate = "Responded" /\ m.left < sLeft))
ResponderInv ==
    /\ \A m \in Underway : m.kind = "prov" => provs > 0
    /\ sstate = "User" => sLeft <= Think
    /\ sstate = "Responded" => ~reliable /\ (cstate \in {"Init", "Proceeding"} => cLeft <= sLeft)
    /\ sstate = "None" => served = 0 \/ reliable \/ cstate # "Init"

TripInv == NonInvite!TypeOK /\ (Orderly => served <= 1 /\ RequesterInv /\ CopiesInv /\ ResponderInv)

-----------------------------------------------------------------------------
LEMMA UnderwayFields ==
    ASSUME NEW n, NEW m \in NonInvite!Network!InFlight(n)
    PROVE  m \in NonInvite!Network!Message /\ m.left \in 0 .. MaxDelay /\ m.left \in Nat /\ MaxDelay \in Nat
BY TimerAssumption DEF NonInvite!Network!InFlight, NonInvite!Network!Message

LEMMA SendIsUnderway ==
    ASSUME NEW n \in NonInvite!Network!Networks, NEW k \in {"request", "prov", "final"}
    PROVE  /\ NonInvite!Network!Send(n, k) \in NonInvite!Network!Networks
           /\ NonInvite!Network!InFlight(NonInvite!Network!Send(n, k)) = NonInvite!Network!InFlight(n) \cup {JustSent(k)}
           /\ NonInvite!Network!Send(n, k)[JustSent(k)] = n[JustSent(k)] + 1
<1> DEFINE x == JustSent(k)
<1>1. x \in NonInvite!Network!Message
  BY TimerAssumption DEF NonInvite!Network!Message, JustSent
<1>2. n \in [NonInvite!Network!Message -> Nat]
  BY DEF NonInvite!Network!Networks
<1>3. NonInvite!Network!Send(n, k) = [n EXCEPT ![x] = n[x] + 1]
  BY DEF NonInvite!Network!Send, JustSent
<1> HIDE DEF x
<1>4. NonInvite!Network!Send(n, k) \in NonInvite!Network!Networks
  BY <1>1, <1>2, <1>3 DEF NonInvite!Network!Networks
<1>5. \A m \in NonInvite!Network!Message : m # x => NonInvite!Network!Send(n, k)[m] = n[m]
  BY <1>1, <1>2, <1>3
<1>6. NonInvite!Network!Send(n, k)[x] = n[x] + 1 /\ NonInvite!Network!Send(n, k)[x] > 0
  BY <1>1, <1>2, <1>3
<1>7. NonInvite!Network!InFlight(NonInvite!Network!Send(n, k)) = NonInvite!Network!InFlight(n) \cup {x}
  BY <1>1, <1>5, <1>6 DEF NonInvite!Network!InFlight
<1> QED
  BY <1>4, <1>6, <1>7 DEF x

LEMMA TakenFromUnderway ==
    ASSUME NEW n \in NonInvite!Network!Networks, NEW m \in NonInvite!Network!InFlight(n)
    PROVE  /\ NonInvite!Network!Take(n, m) \in NonInvite!Network!Networks
           /\ NonInvite!Network!InFlight(n) \ {m} \subseteq NonInvite!Network!InFlight(NonInvite!Network!Take(n, m))
           /\ NonInvite!Network!InFlight(NonInvite!Network!Take(n, m)) \subseteq NonInvite!Network!InFlight(n)
           /\ n[m] = 1 => m \notin NonInvite!Network!InFlight(NonInvite!Network!Take(n, m))
<1>1. n \in [NonInvite!Network!Message -> Nat] /\ m \in NonInvite!Network!Message /\ n[m] > 0
  BY DEF NonInvite!Network!Networks, NonInvite!Network!InFlight
<1>2. NonInvite!Network!Take(n, m) = [n EXCEPT ![m] = n[m] - 1]
  BY DEF NonInvite!Network!Take
<1>3. \A x \in NonInvite!Network!Message : x # m => NonInvite!Network!Take(n, m)[x] = n[x]
  BY <1>1, <1>2
<1>4. NonInvite!Network!Take(n, m)[m] = n[m] - 1 /\ n[m] - 1 \in Nat
  BY <1>1, <1>2
<1>5. NonInvite!Network!Take(n, m) \in NonInvite!Network!Networks
  BY <1>1, <1>2, <1>4 DEF NonInvite!Network!Networks
<1> QED
  BY <1>1, <1>3, <1>4, <1>5 DEF NonInvite!Network!InFlight

LEMMA DeliveryUnderway ==
    ASSUME net \in NonInvite!Network!Networks, NEW m, NonInvite!Delivered(m)
    PROVE  /\ m \in Underway /\ net' \in NonInvite!Network!Networks
           /\ Underway \ {m} \subseteq Underway' /\ Underway' \subseteq Underway
           /\ reliable /\ net[m] = 1 => m \notin Underway'
<1>1. m \in NonInvite!Network!InFlight(net)
  BY DEF NonInvite!Delivered
<1>2. net' = NonInvite!Network!Take(net, m) \/ (~reliable /\ net' = net)
  BY DEF NonInvite!Delivered
<1> QED
  BY <1>1, <1>2, TakenFromUnderway DEF Underway

Younger(m) == [kind |-> m.kind, left |-> m.left + 1]
Older(m) == [kind |-> m.kind, left |-> m.left - 1]

LEMMA AgedUnderway ==
    ASSUME NEW n \in NonInvite!Network!Networks
    PROVE  /\ NonInvite!Network!Age(n) \in NonInvite!Network!Networks
           /\ \A m \in NonInvite!Network!InFlight(NonInvite!Network!Age(n)) :
                  Younger(m) \in NonInvite!Network!InFlight(n) /\ NonInvite!Network!Age(n)[m] = n[Younger(m)]
           /\ \A m \in NonInvite!Network!InFlight(n) :
                  m.left > 0 => Older(m) \in NonInvite!Network!InFlight(NonInvite!Network!Age(n))
<1>0. n \in [NonInvite!Network!Message -> Nat] /\ MaxDelay \in Nat
  BY TimerAssumption DEF NonInvite!Network!Networks
<1>1. ASSUME NEW m \in NonInvite!Network!Message
      PROVE  /\ m.left = MaxDelay => NonInvite!Network!Age(n)[m] = 0
             /\ m.left # MaxDelay => Younger(m) \in NonInvite!Network!Message /\ NonInvite!Network!Age(n)[m] = n[Younger(m)]
  <2>1. NonInvite!Network!Age(n)[m] = IF m.left = MaxDelay THEN 0 ELSE n[[m EXCEPT !.left = m.left + 1]]
    BY <1>1 DEF NonInvite!Network!Age
  <2>2. m.left \in 0 .. MaxDelay /\ m = [kind |-> m.kind, left |-> m.left] /\ m.kind \in {"request", "prov", "final"}
    BY <1>1 DEF NonInvite!Network!Message
  <2>3. [m EXCEPT !.left = m.left + 1] = Younger(m)
    BY <2>2 DEF Younger
  <2>4. m.left # MaxDelay => Younger(m) \in NonInvite!Network!Message
    BY <1>0, <2>2 DEF Younger, NonInvite!Network!Message
  <2> QED
    BY <2>1, <2>3, <2>4
<1>2. NonInvite!Network!Age(n) \in NonInvite!Network!Networks
  <2>1. \A m \in NonInvite!Network!Message : NonInvite!Network!Age(n)[m] \in Nat
    BY <1>0, <1>1
  <2>2. NonInvite!Network!Age(n) = [m \in NonInvite!Network!Message |-> NonInvite!Network!Age(n)[m]]
    BY DEF NonInvite!Network!Age
  <2> QED
    BY <2>1, <2>2 DEF NonInvite!Network!Networks
<1>3. ASSUME NEW m \in NonInvite!Network!InFlight(NonInvite!Network!Age(n))
      PROVE  Younger(m) \in NonInvite!Network!InFlight(n) /\ NonInvite!Network!Age(n)[m] = n[Younger(m)]
  BY <1>1, <1>3 DEF NonInvite!Network!InFlight
<1>4. ASSUME NEW m \in NonInvite!Network!InFlight(n), m.left > 0
      PROVE  Older(m) \in NonInvite!Network!InFlight(NonInvite!Network!Age(n))
  <2>1. m \in NonInvite!Network!Message /\ n[m] > 0
    BY <1>4 DEF NonInvite!Network!InFlight
  <2>2. m.left \in 0 .. MaxDelay /\ m = [kind |-> m.kind, left |-> m.left] /\ m.kind \in {"request", "prov", "final"}
    BY <2>1 DEF NonInvite!Network!Message
  <2>3. Older(m) \in NonInvite!Network!Message /\ Older(m).left # MaxDelay /\ Younger(Older(m)) = m
    BY <1>0, <1>4, <2>2 DEF NonInvite!Network!Message, Older, Younger
  <2>4. NonInvite!Network!Age(n)[Older(m)] = n[m]
    BY <1>1, <2>3
  <2> QED
    BY <2>1, <2>3, <2>4 DEF NonInvite!Network!InFlight
<1> QED
  BY <1>2, <1>3, <1>4

-----------------------------------------------------------------------------
LEMMA TripTypes ==
    ASSUME NonInvite!TypeOK
    PROVE  /\ reliable \in BOOLEAN /\ broken \in BOOLEAN
           /\ cLeft \in Nat /\ cRetx \in Nat /\ sLeft \in Nat /\ sQueue \in Nat /\ provs \in Nat
           /\ served \in Nat /\ lost \in Nat /\ dups \in Nat
           /\ T2 \in Nat /\ T2 > 0 /\ Timeout \in Nat /\ Timeout > 0 /\ MaxDelay \in Nat /\ Think \in Nat
           /\ net \in NonInvite!Network!Networks /\ sstate \in {"None", "User", "Responded"}
           /\ cstate \in {"Init", "Proceeding", "Completed", "Terminated", "TimedOut", "Failed"}
BY TimerAssumption DEF NonInvite!TypeOK

LEMMA TripTypesInit == ASSUME NonInvite!Init PROVE NonInvite!TypeOK
<1>1. NonInvite!Network!Empty \in NonInvite!Network!Networks
  BY DEF NonInvite!Network!Empty, NonInvite!Network!Networks
<1>2. net \in NonInvite!Network!Networks
  BY <1>1, SendIsUnderway DEF NonInvite!Init
<1>3. {cLeft, cRetx, sLeft, sQueue, provs, served, lost, dups} \subseteq Nat
  BY TimerAssumption DEF NonInvite!Init
<1>4. reliable \in BOOLEAN /\ broken \in BOOLEAN /\ sstate = "None" /\ cstate = "Init"
  BY Zenon DEF NonInvite!Init
<1> QED
  BY <1>2, <1>3, <1>4 DEF NonInvite!TypeOK

LEMMA TripTypesNext ==
    ASSUME T4 \in Nat, NonInvite!TypeOK, [NonInvite!Next]_nonInviteVars
    PROVE  NonInvite!TypeOK'
<1> USE TripTypes
<1>1. \A k \in {"request", "prov", "final"} :
         NonInvite!Transmit(k) => net' \in NonInvite!Network!Networks /\ UNCHANGED <<lost, dups>>
  BY SendIsUnderway DEF NonInvite!Transmit
<1>2. \A m : NonInvite!Delivered(m) => net' \in NonInvite!Network!Networks /\ dups' \in Nat
  BY DeliveryUnderway DEF NonInvite!Delivered
<1>3. CASE UNCHANGED nonInviteVars
  BY <1>3 DEF nonInviteVars, NonInvite!TypeOK
<1>4. CASE NonInvite!ClientRetransmit
  BY <1>1, <1>4 DEF NonInvite!ClientRetransmit, NonInvite!serverVars, NonInvite!TypeOK
<1>5. CASE NonInvite!ClientTimeout \/ NonInvite!ClientAbsorbed
  BY <1>5 DEF NonInvite!ClientTimeout, NonInvite!ClientAbsorbed, NonInvite!serverVars, NonInvite!TypeOK
<1>6. ASSUME NEW m, NonInvite!HandleMsg(m)
      PROVE  NonInvite!TypeOK'
  BY <1>2, <1>6 DEF NonInvite!HandleMsg, NonInvite!serverVars, NonInvite!TypeOK
<1>7. ASSUME NEW m, NonInvite!ClientDiscard(m)
      PROVE  NonInvite!TypeOK'
  BY <1>2, <1>7 DEF NonInvite!ClientDiscard, NonInvite!clientVars, NonInvite!serverVars, NonInvite!TypeOK
<1>8. ASSUME NEW m, NonInvite!ServerNew(m) \/ NonInvite!ServerQueue(m)
      PROVE  NonInvite!TypeOK'
  BY <1>2, <1>8 DEF NonInvite!ServerNew, NonInvite!ServerQueue, NonInvite!clientVars, NonInvite!TypeOK
<1>9. CASE NonInvite!RespondProvisional
  BY <1>1, <1>9 DEF NonInvite!RespondProvisional, NonInvite!clientVars, NonInvite!TypeOK
<1>10. CASE NonInvite!Respond
  BY <1>1, <1>10 DEF NonInvite!Respond, NonInvite!clientVars, NonInvite!TypeOK
<1>11. CASE NonInvite!RespondFails \/ NonInvite!ServerAbandon
  BY <1>11 DEF NonInvite!RespondFails, NonInvite!ServerAbandon, NonInvite!clientVars, NonInvite!TypeOK
<1>12. CASE NonInvite!ServerRetransmit
  BY <1>1, <1>12 DEF NonInvite!ServerRetransmit, NonInvite!clientVars, NonInvite!TypeOK
<1>13. ASSUME NEW m \in NonInvite!Network!InFlight(net), NonInvite!Lose(m)
       PROVE  NonInvite!TypeOK'
  <2>1. net' \in NonInvite!Network!Networks
    BY <1>13, TakenFromUnderway DEF NonInvite!Lose
  <2> QED
    BY <1>13, <2>1 DEF NonInvite!Lose, NonInvite!clientVars, NonInvite!serverVars, NonInvite!TypeOK
<1>14. CASE NonInvite!Tick
  <2>1. net' \in NonInvite!Network!Networks
    BY <1>14, AgedUnderway DEF NonInvite!Tick
  <2> QED
    BY <1>14, <2>1 DEF NonInvite!Tick, NonInvite!Dec, NonInvite!TypeOK
<1> QED
  BY <1>3, <1>4, <1>5, <1>6, <1>7, <1>8, <1>9, <1>10, <1>11, <1>12, <1>13, <1>14
  DEF NonInvite!Next, NonInvite!Client, NonInvite!Server

-----------------------------------------------------------------------------
(* A response comes, for plain values: the messages under way become G.    *)
LEMMA ComingGrows ==
    ASSUME NEW F, NEW G, NEW x, F \ {x} \subseteq G, x \in F => x \in G \/ x.kind \notin {"request", "final"},
           NEW s, NEW left, NEW queue, NEW c, Coming(F, s, left, queue, c)
    PROVE  Coming(G, s, left, queue, c)
BY DEF Coming

LEMMA ComingLater ==
    ASSUME NEW F, \A m \in F : m.left \in Nat, NEW s, NEW left \in Nat, NEW queue, NEW c \in Nat, NEW d \in Nat,
           c <= d, Coming(F, s, left, queue, c), MaxDelay \in Nat, Think \in Nat
    PROVE  Coming(F, s, left, queue, d)
BY DEF Coming

LEMMA ComingAges ==
    ASSUME NEW F, NEW G, \A m \in F : m.left \in Nat /\ m.left > 0 /\ Older(m) \in G,
           NEW s, NEW left \in Nat, s = "User" => left > 0, NEW queue \in Nat, s = "Responded" => queue = 0,
           NEW c \in Nat, Coming(F, s, left, queue, c), MaxDelay \in Nat, Think \in Nat
    PROVE  c > 0 /\ Coming(G, s, left - 1, queue, c - 1)
<1>1. \A m \in F : Older(m).kind = m.kind /\ Older(m).left = m.left - 1
  BY DEF Older
<1>2. CASE \E m \in F : m.kind = "request" /\ m.left + Think + MaxDelay < c
  BY <1>1, <1>2 DEF Coming
<1>3. CASE \E m \in F : m.kind = "final" /\ m.left < c
  BY <1>1, <1>3 DEF Coming
<1>4. CASE s = "User" /\ left + MaxDelay < c
  BY <1>4 DEF Coming
<1> QED
  BY <1>2, <1>3, <1>4 DEF Coming

-----------------------------------------------------------------------------
(* What a step that leads to an orderly state starts from.                 *)
OrderlyInv == NonInvite!TypeOK /\ Orderly /\ served <= 1 /\ RequesterInv /\ CopiesInv /\ ResponderInv

LEMMA LossWeighs ==
    ASSUME NEW n \in Nat, NEW t \in Nat
    PROVE  n * t \in Nat /\ (n + 1) * t = n * t + t
OBVIOUS

(* In an orderly state the client over an unreliable transport still has   *)
(* time, and a whole interval when it sends again.                         *)
LEMMA TryingHasTime ==
    ASSUME TripFits, NonInvite!TypeOK, Orderly, TryingInv, ~reliable
    PROVE  cLeft > 0 /\ cRetx <= cLeft /\ (cRetx = 0 => cLeft >= T2 /\ lost > 0)
<1>1. cLeft \in Nat /\ cRetx \in Nat /\ T2 \in Nat /\ T2 > 0 /\ Timeout \in Nat /\ lost * T2 \in Nat /\ sLeft \in Nat
      /\ MaxDelay \in Nat /\ Think \in Nat
  BY TripTypes, LossWeighs
<1>2. Answer(cRetx) => cRetx > 0
  <2>1. \A m \in Underway : m.left \in Nat
    BY UnderwayFields DEF Underway
  <2> QED
    BY <1>1, <2>1 DEF Answer, Coming
<1>3. lost * T2 < Timeout
  BY DEF Orderly
<1>4. lost * T2 + cLeft >= Timeout + cRetx \/ (lost * T2 + cLeft + T2 >= Timeout + cRetx /\ cRetx > 0)
  BY <1>2 DEF TryingInv
<1>5. CASE \E i \in Nat : cLeft = cRetx + i * T2
  <2>1. PICK i \in Nat : cLeft = cRetx + i * T2
    BY <1>5
  <2>2. i * T2 \in Nat /\ (i > 0 => i * T2 >= T2)
    <3>1. i > 0 => i * T2 = (i - 1) * T2 + T2 /\ (i - 1) * T2 \in Nat
      BY <1>1, LossWeighs
    <3> QED
      BY <1>1, <3>1, LossWeighs
  <2>3. cLeft >= cRetx /\ (cLeft = 0 => cRetx = 0) /\ (cRetx = 0 => cLeft = 0 \/ cLeft >= T2)
    <3>1. i = 0 => i * T2 = 0
      BY <1>1
    <3> QED
      BY <1>1, <2>1, <2>2, <3>1
  <2> QED
    BY <1>1, <1>2, <1>3, <1>4, <2>3 DEF TryingInv
<1>6. CASE cLeft = 0 /\ cRetx = T2
  BY <1>1, <1>3, <1>4, <1>6
<1> QED
  BY <1>5, <1>6 DEF TryingInv, Aligned

LEMMA NeverTooLate ==
    ASSUME NonInvite!TypeOK, NEW c \in Nat, Answer(c)
    PROVE  c > 0
<1>1. \A m \in Underway : m.left \in Nat
  BY UnderwayFields DEF Underway
<1> QED
  BY <1>1, TripTypes DEF Answer, Coming

LEMMA TripRetransmits ==
    ASSUME TripFits, OrderlyInv, NonInvite!ClientRetransmit
    PROVE  Orderly' => served' <= 1 /\ RequesterInv' /\ CopiesInv' /\ ResponderInv'
<1> USE TripTypes DEF OrderlyInv
<1>1. cLeft >= T2 /\ lost > 0 /\ cLeft <= Timeout /\ TryingInv
  BY TryingHasTime DEF NonInvite!ClientRetransmit, RequesterInv
<1>2. /\ ~reliable /\ cstate = "Init" /\ cRetx = 0
      /\ UNCHANGED <<reliable, cLeft, lost, sstate, sLeft, sQueue, provs, served, broken>>
  BY DEF NonInvite!ClientRetransmit, NonInvite!Transmit, NonInvite!serverVars
<1>3. CASE cstate' = "Failed" /\ UNCHANGED <<net, lost, dups, cRetx>>
  <2>1. RequesterInv'
    BY <1>2, <1>3 DEF RequesterInv
  <2>2. CopiesInv' /\ ResponderInv'
    BY <1>2, <1>3 DEF CopiesInv, ResponderInv, Underway
  <2> QED
    BY <1>2, <2>1, <2>2
<1>4. CASE NonInvite!Transmit("request") /\ cRetx' = T2 /\ UNCHANGED cstate
  <2>1. Underway' = Underway \cup {JustSent("request")}
    BY <1>4, SendIsUnderway DEF NonInvite!Transmit, Underway
  <2>2. JustSent("request").kind = "request" /\ JustSent("request").left = MaxDelay
    BY DEF JustSent
  <2>3. Answer(T2)'
    BY <2>1, <2>2 DEF Answer, Coming, TripFits
  <2>4. Aligned'
    <3>1. PICK i \in Nat : cLeft = cRetx + i * T2
      BY <1>1, <1>2 DEF TryingInv, Aligned
    <3>2. i > 0
      BY <1>1, <1>2, <3>1
    <3>3. i * T2 = (i - 1) * T2 + T2 /\ (i - 1) * T2 \in Nat
      BY <3>2, LossWeighs
    <3>4. cLeft' = cRetx' + (i - 1) * T2
      BY <1>2, <1>4, <3>1, <3>3
    <3> QED
      BY <3>2, <3>4, <1>2 DEF Aligned
  <2>5. lost * T2 + cLeft >= Timeout
    <3>1. ~Answer(cRetx)
      BY <1>2, NeverTooLate
    <3> QED
      BY <1>1, <1>2, <3>1, LossWeighs DEF TryingInv
  <2>6. TryingInv'
    BY <1>2, <1>4, <2>3, <2>4, <2>5, LossWeighs DEF TryingInv, Answer
  <2>7. RequesterInv'
    BY <1>1, <1>2, <1>4, <2>6 DEF RequesterInv
  <2>8. CopiesInv'
    <3>1. served = 1 => sstate = "User" \/ (sstate = "Responded" /\ MaxDelay < sLeft)
      BY <1>1, <1>2 DEF ResponderInv, TripFits
    <3> QED
      BY <1>2, <2>1, <2>2, <3>1 DEF CopiesInv
  <2>9. ResponderInv'
    BY <1>2, <1>4, <2>1, <2>2 DEF ResponderInv
  <2> QED
    BY <1>2, <2>7, <2>8, <2>9
<1> QED
  BY <1>3, <1>4 DEF NonInvite!ClientRetransmit

LEMMA TripTimesOut ==
    ASSUME TripFits, OrderlyInv, NonInvite!ClientTimeout
    PROVE  Orderly' => served' <= 1 /\ RequesterInv' /\ CopiesInv' /\ ResponderInv'
<1> USE TripTypes DEF OrderlyInv
<1>1. cstate \in {"Init", "Proceeding"} /\ cLeft = 0 /\ cstate' = "TimedOut"
      /\ UNCHANGED <<reliable, lost, net, sstate, sLeft, sQueue, provs, served, broken>>
  BY DEF NonInvite!ClientTimeout, NonInvite!serverVars
<1>2. ~Answer(cLeft)
  BY <1>1, NeverTooLate
<1>3. cstate # "Init"
  BY <1>1, <1>2, TryingHasTime DEF RequesterInv, TryingInv
<1>4. provs > 0 /\ lost > 0
  BY <1>1, <1>2, <1>3 DEF RequesterInv
<1>5. RequesterInv'
  BY <1>1, <1>4 DEF RequesterInv
<1>6. CopiesInv' /\ ResponderInv'
  BY <1>1 DEF CopiesInv, ResponderInv, Underway
<1> QED
  BY <1>1, <1>5, <1>6

LEMMA TripAbsorbs ==
    ASSUME OrderlyInv, NonInvite!ClientAbsorbed
    PROVE  Orderly' => served' <= 1 /\ RequesterInv' /\ CopiesInv' /\ ResponderInv'
<1> USE TripTypes DEF OrderlyInv
<1>1. cstate' = "Terminated" /\ UNCHANGED <<reliable, lost, net, sstate, sLeft, sQueue, provs, served, broken>>
  BY DEF NonInvite!ClientAbsorbed, NonInvite!serverVars
<1>2. RequesterInv'
  BY <1>1 DEF RequesterInv
<1>3. CopiesInv' /\ ResponderInv'
  BY <1>1 DEF CopiesInv, ResponderInv, Underway
<1> QED
  BY <1>1, <1>2, <1>3

(* A response arrives: a provisional one leaves what the client waits for. *)
LEMMA TripHandles ==
    ASSUME TripFits, OrderlyInv, NEW m, NonInvite!HandleMsg(m)
    PROVE  Orderly' => served' <= 1 /\ RequesterInv' /\ CopiesInv' /\ ResponderInv'
<1> USE TripTypes DEF OrderlyInv
<1>1. cstate \in {"Init", "Proceeding"} /\ m.kind \in {"prov", "final"}
      /\ UNCHANGED <<reliable, lost, sstate, sLeft, sQueue, provs, served, broken>>
  BY DEF NonInvite!HandleMsg, NonInvite!serverVars
<1>2. m \in Underway /\ Underway \ {m} \subseteq Underway' /\ Underway' \subseteq Underway
  BY DeliveryUnderway DEF NonInvite!HandleMsg
<1>3. served # 0
  BY <1>1, <1>2 DEF CopiesInv
<1>4. CopiesInv'
  BY <1>1, <1>2, <1>3 DEF CopiesInv
<1>5. CASE m.kind = "prov"
  <2>1. cstate' = "Proceeding" /\ cLeft' = cLeft
    BY <1>5 DEF NonInvite!HandleMsg
  <2>2. provs > 0
    BY <1>2, <1>5 DEF ResponderInv
  <2>3. lost > 0 \/ Answer(cLeft)
    <3>1. CASE cstate = "Init" /\ ~reliable
      <4>1. TryingInv /\ cRetx <= cLeft
        BY <3>1, TryingHasTime DEF RequesterInv
      <4>2. \A x \in Underway : x.left \in Nat
        BY UnderwayFields DEF Underway
      <4>3. Answer(cRetx) => Answer(cLeft)
        BY <4>1, <4>2, ComingLater DEF Answer
      <4> QED
        BY <3>1, <4>1, <4>3 DEF TryingInv
    <3> QED
      BY <1>1, <3>1 DEF RequesterInv, TryingInv
  <2>4. Answer(cLeft) => Answer(cLeft)'
    <3>1. Answer(cLeft) => Coming(Underway', sstate, sLeft, sQueue, cLeft)
      BY <1>2, <1>5, ComingGrows DEF Answer
    <3> QED
      BY <1>1, <2>1, <3>1 DEF Answer
  <2>5. RequesterInv'
    BY <1>1, <2>1, <2>2, <2>3, <2>4 DEF RequesterInv
  <2>6. ResponderInv'
    BY <1>1, <1>2, <2>1 DEF ResponderInv
  <2> QED
    BY <1>1, <1>4, <2>5, <2>6
<1>6. CASE m.kind = "final"
  <2>1. cstate' \in {"Terminated", "Completed"}
    BY <1>6 DEF NonInvite!HandleMsg
  <2>2. RequesterInv'
    BY <1>1, <2>1 DEF RequesterInv
  <2>3. ResponderInv'
    BY <1>1, <1>2, <2>1 DEF ResponderInv
  <2> QED
    BY <1>1, <1>4, <2>2, <2>3
<1> QED
  BY <1>1, <1>5, <1>6

LEMMA TripDiscards ==
    ASSUME OrderlyInv, NEW m, NonInvite!ClientDiscard(m)
    PROVE  Orderly' => served' <= 1 /\ RequesterInv' /\ CopiesInv' /\ ResponderInv'
<1> USE TripTypes DEF OrderlyInv
<1>1. cstate \notin {"Init", "Proceeding"} /\ m.kind \in {"prov", "final"}
      /\ UNCHANGED <<reliable, cstate, lost, sstate, sLeft, sQueue, provs, served, broken>>
  BY DEF NonInvite!ClientDiscard, NonInvite!clientVars, NonInvite!serverVars
<1>2. m \in Underway /\ Underway' \subseteq Underway
  BY DeliveryUnderway DEF NonInvite!ClientDiscard
<1>3. served # 0
  BY <1>1, <1>2 DEF CopiesInv
<1>4. RequesterInv'
  BY <1>1 DEF RequesterInv
<1>5. CopiesInv'
  BY <1>1, <1>2, <1>3 DEF CopiesInv
<1>6. ResponderInv'
  BY <1>1, <1>2 DEF ResponderInv
<1> QED
  BY <1>1, <1>4, <1>5, <1>6

(* What the requester knows stays true while its response keeps coming.    *)
LEMMA RequesterStays ==
    ASSUME NonInvite!TypeOK, RequesterInv, UNCHANGED <<reliable, cstate, cLeft, cRetx, lost, provs>>,
           \A c \in Nat : cstate \in {"Init", "Proceeding"} /\ Answer(c) => Coming(Underway', sstate', sLeft', sQueue', c)
    PROVE  RequesterInv'
<1>1. cLeft \in Nat /\ cRetx \in Nat
  BY TripTypes
<1>2. cstate \in {"Init", "Proceeding"} => (Answer(cLeft) => Answer(cLeft)') /\ (Answer(cRetx) => Answer(cRetx)')
  BY <1>1 DEF Answer
<1>3. Aligned => Aligned'
  BY DEF Aligned
<1>4. cstate = "Init" => TryingInv'
  BY <1>2, <1>3 DEF RequesterInv, TryingInv
<1> QED
  BY <1>2, <1>4 DEF RequesterInv

(* The first copy of the request arrives, and only the first.              *)
LEMMA TripServes ==
    ASSUME TripFits, OrderlyInv, NEW m, NonInvite!ServerNew(m)
    PROVE  Orderly' => served' <= 1 /\ RequesterInv' /\ CopiesInv' /\ ResponderInv'
<1> USE TripTypes DEF OrderlyInv
<1>1. sstate = "None" /\ m.kind = "request" /\ sstate' = "User" /\ sLeft' = Think /\ provs' = 0 /\ served' = served + 1
      /\ UNCHANGED <<reliable, cstate, cLeft, cRetx, lost, broken>> /\ sQueue' = 0
  BY DEF NonInvite!ServerNew, NonInvite!clientVars
<1>2. m \in Underway /\ Underway \ {m} \subseteq Underway' /\ Underway' \subseteq Underway
      /\ (reliable /\ net[m] = 1 => m \notin Underway')
  BY DeliveryUnderway DEF NonInvite!ServerNew
<1>3. served = 0 /\ provs = 0
  BY <1>1, <1>2 DEF CopiesInv
<1>4. m.left \in Nat
  BY <1>2, UnderwayFields DEF Underway
<1>5. RequesterInv'
  <2>1. ASSUME NEW c \in Nat, Answer(c)
        PROVE  Coming(Underway', sstate', sLeft', sQueue', c)
    <3>1. CASE m.left + Think + MaxDelay < c
      BY <1>1, <1>4, <3>1 DEF Coming
    <3>2. CASE ~(m.left + Think + MaxDelay < c)
      BY <1>1, <1>2, <2>1, <3>2 DEF Answer, Coming
    <3> QED
      BY <3>1, <3>2
  <2> QED
    BY <1>1, <1>3, <2>1, RequesterStays
<1>6. CopiesInv'
  <2>1. reliable => Underway' = {}
    BY <1>2, <1>3 DEF CopiesInv
  <2> QED
    BY <1>1, <1>3, <2>1 DEF CopiesInv
<1>7. ResponderInv'
  BY <1>1, <1>2, <1>3 DEF ResponderInv, CopiesInv
<1> QED
  BY <1>1, <1>3, <1>5, <1>6, <1>7

LEMMA TripQueues ==
    ASSUME TripFits, OrderlyInv, NEW m, NonInvite!ServerQueue(m)
    PROVE  Orderly' => served' <= 1 /\ RequesterInv' /\ CopiesInv' /\ ResponderInv'
<1> USE TripTypes DEF OrderlyInv
<1>1. sstate # "None" /\ m.kind = "request" /\ sQueue' = sQueue + 1
      /\ UNCHANGED <<reliable, cstate, cLeft, cRetx, lost, broken, sstate, sLeft, provs, served>>
  BY DEF NonInvite!ServerQueue, NonInvite!clientVars
<1>2. m \in Underway /\ Underway \ {m} \subseteq Underway' /\ Underway' \subseteq Underway
  BY DeliveryUnderway DEF NonInvite!ServerQueue
<1>3. m.left \in Nat /\ served # 0
  BY <1>1, <1>2, UnderwayFields DEF Underway, CopiesInv
<1>4. RequesterInv'
  <2>1. ASSUME NEW c \in Nat, Answer(c)
        PROVE  Coming(Underway', sstate', sLeft', sQueue', c)
    <3>1. CASE m.left + Think + MaxDelay < c
      <4>1. sstate = "User" => sLeft <= Think
        BY DEF ResponderInv
      <4> QED
        BY <1>1, <1>3, <3>1, <4>1 DEF Coming
    <3>2. CASE ~(m.left + Think + MaxDelay < c)
      BY <1>1, <1>2, <2>1, <3>2 DEF Answer, Coming
    <3> QED
      BY <3>1, <3>2
  <2> QED
    BY <1>1, <2>1, RequesterStays
<1>5. CopiesInv'
  BY <1>1, <1>2, <1>3 DEF CopiesInv
<1>6. ResponderInv'
  BY <1>1, <1>2 DEF ResponderInv
<1> QED
  BY <1>1, <1>4, <1>5, <1>6

LEMMA TripProvisional ==
    ASSUME OrderlyInv, NonInvite!RespondProvisional
    PROVE  Orderly' => served' <= 1 /\ RequesterInv' /\ CopiesInv' /\ ResponderInv'
<1> USE TripTypes DEF OrderlyInv
<1>1. sstate = "User" /\ provs' = provs + 1
      /\ UNCHANGED <<reliable, cstate, cLeft, cRetx, lost, broken, sstate, sLeft, sQueue, served>>
  BY DEF NonInvite!RespondProvisional, NonInvite!clientVars, NonInvite!Transmit
<1>2. Underway' = Underway \/ Underway' = Underway \cup {JustSent("prov")}
  BY SendIsUnderway DEF NonInvite!RespondProvisional, NonInvite!Transmit, Underway
<1>3. JustSent("prov").kind = "prov" /\ served # 0
  BY <1>1 DEF JustSent, CopiesInv
<1>4. RequesterInv'
  <2>1. (Answer(cLeft) => Answer(cLeft)') /\ (Answer(cRetx) => Answer(cRetx)')
    BY <1>1, <1>2 DEF Answer, Coming
  <2>2. Aligned => Aligned'
    BY <1>1 DEF Aligned
  <2>3. cstate = "Init" => TryingInv'
    BY <1>1, <2>1, <2>2 DEF RequesterInv, TryingInv
  <2> QED
    BY <1>1, <2>1, <2>3 DEF RequesterInv
<1>5. CopiesInv'
  BY <1>1, <1>2, <1>3 DEF CopiesInv
<1>6. ResponderInv'
  BY <1>1, <1>2, <1>3 DEF ResponderInv
<1> QED
  BY <1>1, <1>4, <1>5, <1>6

LEMMA TripResponds ==
    ASSUME TripFits, OrderlyInv, NonInvite!Respond
    PROVE  Orderly' => served' <= 1 /\ RequesterInv' /\ CopiesInv' /\ ResponderInv'
<1> USE TripTypes DEF OrderlyInv
<1>1. sstate = "User" /\ UNCHANGED <<reliable, cstate, cLeft, cRetx, lost, broken, sQueue, provs, served>>
      /\ (reliable => sstate' = "None") /\ (~reliable => sstate' = "Responded" /\ sLeft' = Timeout)
  BY DEF NonInvite!Respond, NonInvite!clientVars, NonInvite!Transmit
<1>2. Underway' = Underway \cup {JustSent("final")} /\ JustSent("final").kind = "final" /\ JustSent("final").left = MaxDelay
  BY SendIsUnderway DEF NonInvite!Respond, NonInvite!Transmit, Underway, JustSent
<1>3. served # 0 /\ MaxDelay < Timeout
  <2>1. PICK k \in Nat : Timeout = k * T2
    BY DEF TripFits
  <2>2. k > 0
    BY <2>1
  <2>3. k * T2 = (k - 1) * T2 + T2 /\ (k - 1) * T2 \in Nat
    BY <2>2, LossWeighs
  <2> QED
    BY <1>1, <2>1, <2>3 DEF CopiesInv, TripFits
<1>4. RequesterInv'
  <2>1. ASSUME NEW c \in Nat, Answer(c)
        PROVE  Coming(Underway', sstate', sLeft', sQueue', c)
    BY <1>1, <1>2, <2>1 DEF Answer, Coming
  <2> QED
    BY <1>1, <2>1, RequesterStays
<1>5. CopiesInv'
  <2>1. \A m \in Underway : m.left \in 0 .. MaxDelay
    BY UnderwayFields DEF Underway
  <2> QED
    BY <1>1, <1>2, <1>3, <2>1 DEF CopiesInv
<1>6. ResponderInv'
  BY <1>1, <1>2 DEF ResponderInv, RequesterInv
<1> QED
  BY <1>1, <1>4, <1>5, <1>6

LEMMA TripRespondsAgain ==
    ASSUME OrderlyInv, NonInvite!ServerRetransmit
    PROVE  Orderly' => served' <= 1 /\ RequesterInv' /\ CopiesInv' /\ ResponderInv'
<1> USE TripTypes DEF OrderlyInv
<1>1. sstate = "Responded" /\ UNCHANGED <<reliable, cstate, cLeft, cRetx, lost, broken, sstate, sLeft, provs, served>>
  BY DEF NonInvite!ServerRetransmit, NonInvite!clientVars, NonInvite!Transmit
<1>2. Underway' = Underway \cup {JustSent("final")} /\ JustSent("final").kind = "final" /\ JustSent("final").left = MaxDelay
  BY SendIsUnderway DEF NonInvite!ServerRetransmit, NonInvite!Transmit, Underway, JustSent
<1>3. served # 0
  BY <1>1 DEF CopiesInv
<1>4. RequesterInv'
  <2>1. ASSUME NEW c \in Nat, Answer(c)
        PROVE  Coming(Underway', sstate', sLeft', sQueue', c)
    BY <1>1, <1>2, <2>1 DEF Answer, Coming
  <2> QED
    BY <1>1, <2>1, RequesterStays
<1>5. CopiesInv'
  BY <1>1, <1>2, <1>3 DEF CopiesInv
<1>6. ResponderInv'
  BY <1>1, <1>2 DEF ResponderInv
<1> QED
  BY <1>1, <1>4, <1>5, <1>6

(* The registration goes when no copy is left and nobody sends another.    *)
LEMMA TripAbandons ==
    ASSUME TripFits, OrderlyInv, NonInvite!ServerAbandon
    PROVE  Orderly' => served' <= 1 /\ RequesterInv' /\ CopiesInv' /\ ResponderInv'
<1> USE TripTypes DEF OrderlyInv
<1>1. sstate = "Responded" /\ sLeft = 0 /\ sQueue = 0 /\ sstate' = "None"
      /\ UNCHANGED <<reliable, cstate, cLeft, cRetx, lost, broken, sLeft, sQueue, provs, served, net>>
  BY DEF NonInvite!ServerAbandon, NonInvite!clientVars
<1>2. Underway' = Underway
  BY <1>1 DEF Underway
<1>3. cstate # "Init" /\ served # 0
  <2>1. cstate = "Init" => cLeft > 0
    BY <1>1, TryingHasTime DEF RequesterInv, ResponderInv
  <2> QED
    BY <1>1, <2>1 DEF ResponderInv, CopiesInv
<1>4. RequesterInv'
  <2>1. ASSUME NEW c \in Nat, Answer(c)
        PROVE  Coming(Underway', sstate', sLeft', sQueue', c)
    BY <1>1, <1>2, <2>1 DEF Answer, Coming
  <2> QED
    BY <1>1, <2>1, RequesterStays
<1>5. CopiesInv'
  <2>1. \A m \in Underway : m.kind # "request"
    <3>1. \A m \in Underway : m.left \in Nat
      BY UnderwayFields DEF Underway
    <3> QED
      BY <1>1, <1>3, <3>1 DEF CopiesInv
  <2> QED
    BY <1>1, <1>2, <1>3, <2>1 DEF CopiesInv
<1>6. ResponderInv'
  BY <1>1, <1>2, <1>3 DEF ResponderInv
<1> QED
  BY <1>1, <1>4, <1>5, <1>6

LEMMA TripLoses ==
    ASSUME OrderlyInv, NEW m \in NonInvite!Network!InFlight(net), NonInvite!Lose(m)
    PROVE  Orderly' => served' <= 1 /\ RequesterInv' /\ CopiesInv' /\ ResponderInv'
<1> USE TripTypes DEF OrderlyInv
<1>1. ~reliable /\ lost' = lost + 1
      /\ UNCHANGED <<reliable, cstate, cLeft, cRetx, broken, sstate, sLeft, sQueue, provs, served>>
  BY DEF NonInvite!Lose, NonInvite!clientVars, NonInvite!serverVars
<1>2. Underway' \subseteq Underway
  BY TakenFromUnderway DEF NonInvite!Lose, Underway
<1>3. lost * T2 \in Nat /\ lost' * T2 = lost * T2 + T2
  BY <1>1, LossWeighs
<1>4. cstate = "Init" => TryingInv'
  <2>1. Aligned => Aligned'
    BY <1>1 DEF Aligned
  <2>2. cstate = "Init" => lost * T2 + cLeft + T2 >= Timeout + cRetx
    BY <1>1, <1>3 DEF RequesterInv, TryingInv
  <2> QED
    BY <1>1, <1>3, <2>1, <2>2 DEF RequesterInv, TryingInv
<1>5. RequesterInv'
  BY <1>1, <1>4 DEF RequesterInv
<1>6. CopiesInv'
  BY <1>1, <1>2 DEF CopiesInv
<1>7. ResponderInv'
  BY <1>1, <1>2 DEF ResponderInv
<1> QED
  BY <1>1, <1>5, <1>6, <1>7

LEMMA TripTicks ==
    ASSUME TripFits, OrderlyInv, NonInvite!Tick
    PROVE  Orderly' => served' <= 1 /\ RequesterInv' /\ CopiesInv' /\ ResponderInv'
<1> USE TripTypes DEF OrderlyInv
<1>1. UNCHANGED <<reliable, cstate, sstate, sQueue, provs, served, broken, lost>>
  BY DEF NonInvite!Tick
<1>2. /\ cLeft' = (IF cLeft = 0 THEN 0 ELSE cLeft - 1) /\ cRetx' = (IF cRetx = 0 THEN 0 ELSE cRetx - 1)
      /\ sLeft' = (IF sLeft = 0 THEN 0 ELSE sLeft - 1)
  BY DEF NonInvite!Tick, NonInvite!Dec
<1>3. /\ cstate \in {"Init", "Proceeding"} => cLeft > 0
      /\ cstate = "Init" /\ ~reliable => cRetx > 0
      /\ sstate \in {"User", "Responded"} => sLeft > 0
      /\ sstate = "Responded" => sQueue = 0
      /\ \A m \in Underway : m.left # 0
  BY DEF NonInvite!Tick, NonInvite!Due, NonInvite!Network!Overdue, Underway
<1>4. /\ \A m \in Underway' : Younger(m) \in Underway /\ net'[m] = net[Younger(m)]
      /\ \A m \in Underway : m.left > 0 => Older(m) \in Underway'
  BY AgedUnderway DEF NonInvite!Tick, Underway
<1>5. \A m \in Underway : m.left \in Nat /\ m.left > 0 /\ Older(m) \in Underway'
  BY <1>3, <1>4, UnderwayFields DEF Underway
<1>6. \A m \in Underway' : Younger(m).kind = m.kind /\ Younger(m).left = m.left + 1 /\ m.left \in Nat
                           /\ m = [kind |-> m.kind, left |-> m.left]
  BY UnderwayFields DEF Underway, Younger, NonInvite!Network!Message
<1>7. ASSUME NEW c \in Nat, Answer(c)
      PROVE  c > 0 /\ Coming(Underway', sstate', sLeft', sQueue', c - 1)
  <2>1. c > 0 /\ Coming(Underway', sstate, sLeft - 1, sQueue, c - 1)
    BY <1>3, <1>5, <1>7, ComingAges DEF Answer
  <2> QED
    BY <1>1, <1>2, <1>3, <2>1 DEF Coming
<1>8. /\ cstate \in {"Init", "Proceeding"} /\ Answer(cLeft) => Answer(cLeft)'
      /\ cstate = "Init" /\ ~reliable /\ Answer(cRetx) => Answer(cRetx)'
  BY <1>2, <1>3, <1>7 DEF Answer
<1>9. cstate = "Init" => TryingInv'
  <2>1. CASE cstate = "Init" /\ reliable
    BY <1>1, <1>8, <2>1 DEF RequesterInv, TryingInv
  <2>2. CASE cstate = "Init" /\ ~reliable
    <3>1. cLeft' = cLeft - 1 /\ cRetx' = cRetx - 1 /\ TryingInv /\ lost * T2 \in Nat
      BY <1>2, <1>3, <2>2, LossWeighs DEF RequesterInv
    <3>2. Aligned'
      <4>1. PICK i \in Nat : cLeft = cRetx + i * T2
        BY <1>3, <2>2, <3>1 DEF TryingInv, Aligned
      <4>2. i * T2 \in Nat
        BY LossWeighs
      <4>3. cLeft' = cRetx' + i * T2
        BY <3>1, <4>1, <4>2
      <4> QED
        BY <4>3 DEF Aligned
    <3> QED
      BY <1>1, <1>8, <2>2, <3>1, <3>2 DEF TryingInv
  <2> QED
    BY <2>1, <2>2
<1>10. RequesterInv'
  BY <1>1, <1>2, <1>8, <1>9 DEF RequesterInv
<1>11. CopiesInv'
  <2>1. served = 0 /\ reliable => \A m \in Underway' : net'[m] = 1 /\ Underway' = {m}
    <3>1. ASSUME served = 0, reliable, NEW m \in Underway', NEW n \in Underway'
          PROVE  net'[m] = 1 /\ m = n
      <4>1. Younger(m) = Younger(n) /\ net[Younger(m)] = 1
        BY <1>4, <3>1 DEF CopiesInv
      <4>2. m.kind = n.kind /\ m.left = n.left
        BY <1>6, <4>1
      <4> QED
        BY <1>4, <1>6, <4>1, <4>2
    <3> QED
      BY <3>1
  <2>2. served = 0 => \A m \in Underway' : m.kind = "request"
    BY <1>4, <1>6 DEF CopiesInv
  <2>3. served = 1 => \A m \in Underway' : m.kind = "request" =>
                         ~reliable /\ (sstate = "User" \/ (sstate = "Responded" /\ m.left < sLeft'))
    <3>1. ASSUME served = 1, NEW m \in Underway', m.kind = "request"
          PROVE  ~reliable /\ (sstate = "User" \/ (sstate = "Responded" /\ m.left + 1 < sLeft))
      BY <1>4, <1>6, <3>1 DEF CopiesInv
    <3> QED
      BY <1>2, <1>6, <3>1
  <2> QED
    BY <1>1, <2>1, <2>2, <2>3 DEF CopiesInv
<1>12. ResponderInv'
  <2>1. \A m \in Underway' : m.kind = "prov" => provs > 0
    BY <1>4, <1>6 DEF ResponderInv
  <2> QED
    BY <1>1, <1>2, <2>1 DEF ResponderInv
<1> QED
  BY <1>1, <1>10, <1>11, <1>12

LEMMA TripStarts == ASSUME TripFits, NonInvite!Init PROVE TripInv
<1>1. NonInvite!TypeOK
  BY TripTypesInit
<1> USE <1>1, TripTypes
<1>2. /\ cstate = "Init" /\ cLeft = Timeout /\ cRetx = T2 /\ sstate = "None" /\ provs = 0 /\ served = 0 /\ lost = 0
      /\ net = NonInvite!Network!Send(NonInvite!Network!Empty, "request")
  BY DEF NonInvite!Init
<1>3. /\ NonInvite!Network!Empty \in NonInvite!Network!Networks
      /\ NonInvite!Network!InFlight(NonInvite!Network!Empty) = {}
      /\ NonInvite!Network!Empty[JustSent("request")] = 0
  BY TimerAssumption
  DEF NonInvite!Network!Empty, NonInvite!Network!Networks, NonInvite!Network!InFlight, NonInvite!Network!Message, JustSent
<1>4. Underway = {JustSent("request")} /\ net[JustSent("request")] = 1
  BY <1>2, <1>3, SendIsUnderway DEF Underway
<1>5. JustSent("request").kind = "request" /\ JustSent("request").left = MaxDelay
  BY DEF JustSent
<1>6. PICK k \in Nat : Timeout = k * T2
  BY DEF TripFits
<1>7. k > 0 /\ k * T2 = T2 + (k - 1) * T2 /\ (k - 1) * T2 \in Nat
  <2>1. k > 0
    BY <1>6
  <2> QED
    BY <2>1, LossWeighs
<1>8. Answer(T2) /\ Answer(Timeout)
  BY <1>4, <1>5, <1>6, <1>7 DEF Answer, Coming, TripFits
<1>9. Aligned
  BY <1>2, <1>6, <1>7 DEF Aligned
<1>10. RequesterInv
  BY <1>2, <1>8, <1>9 DEF RequesterInv, TryingInv
<1>11. CopiesInv
  BY <1>2, <1>4, <1>5 DEF CopiesInv
<1>12. ResponderInv
  BY <1>2, <1>4, <1>5 DEF ResponderInv
<1> QED
  BY <1>1, <1>2, <1>10, <1>11, <1>12 DEF TripInv

(* A state that is not orderly stays so.                                   *)
LEMMA OrderlyBefore ==
    ASSUME NonInvite!TypeOK, [NonInvite!Next]_nonInviteVars, Orderly'
    PROVE  Orderly
<1> USE TripTypes
<1>1. (broken' = broken \/ broken' = TRUE) /\ (lost' = lost \/ lost' = lost + 1)
  BY DEF NonInvite!Next, nonInviteVars, NonInvite!Client, NonInvite!Server, NonInvite!ClientRetransmit,
         NonInvite!ClientTimeout, NonInvite!ClientAbsorbed, NonInvite!HandleMsg, NonInvite!ClientDiscard,
         NonInvite!RespondProvisional, NonInvite!Respond, NonInvite!RespondFails, NonInvite!ServerRetransmit,
         NonInvite!ServerAbandon, NonInvite!ServerNew, NonInvite!ServerQueue, NonInvite!Lose, NonInvite!Tick,
         NonInvite!serverVars, NonInvite!Transmit
<1>2. broken = FALSE
  BY <1>1, Zenon DEF Orderly
<1>3. lost' * T2 >= lost * T2
  BY <1>1, LossWeighs
<1> QED
  BY <1>1, <1>2, <1>3, LossWeighs DEF Orderly

LEMMA TripNext == ASSUME TripFits, TripInv, [NonInvite!Next]_nonInviteVars PROVE TripInv'
<1>1. NonInvite!TypeOK'
  BY TripTypesNext DEF TripInv, TripFits
<1>2. ASSUME Orderly'
      PROVE  served' <= 1 /\ RequesterInv' /\ CopiesInv' /\ ResponderInv'
  <2>1. OrderlyInv
    BY <1>2, OrderlyBefore DEF TripInv, OrderlyInv
  <2>2. CASE UNCHANGED nonInviteVars
    BY <2>1, <2>2
    DEF nonInviteVars, OrderlyInv, RequesterInv, TryingInv, Answer, Aligned, CopiesInv, ResponderInv, Underway
  <2>3. ~NonInvite!RespondFails
    BY <1>2, Zenon DEF NonInvite!RespondFails, Orderly
  <2> QED
    BY <1>2, <2>1, <2>2, <2>3, TripRetransmits, TripTimesOut, TripAbsorbs, TripHandles, TripDiscards, TripServes,
       TripQueues, TripProvisional, TripResponds, TripRespondsAgain, TripAbandons, TripLoses, TripTicks
    DEF NonInvite!Next, NonInvite!Client, NonInvite!Server
<1> QED
  BY <1>1, <1>2 DEF TripInv

LEMMA TripSteps == NonInvite!Spec => NonInvite!Init /\ [][NonInvite!Next]_nonInviteVars
BY PTL DEF NonInvite!Spec, NonInvite!vars, nonInviteVars

(* In every state a message was lost for each interval that is over, but   *)
(* for the present one while its response comes, or some answer could not  *)
(* be sent; and the server knows the request as long as it is repeated.    *)
THEOREM TripInvariant == ASSUME TripFits PROVE NonInvite!Spec => []TripInv
<1>1. NonInvite!Init => TripInv
  BY TripStarts
<1>2. TripInv /\ [NonInvite!Next]_nonInviteVars => TripInv'
  BY TripNext
<1>3. NonInvite!Init /\ [][NonInvite!Next]_nonInviteVars => []TripInv
  BY <1>1, <1>2, PTL
<1> QED
  BY <1>3, TripSteps, PTL

(* Hence ClientTsx::receive times out only if all copies or answers were   *)
(* lost, or a provisional response had stopped the retransmissions and     *)
(* something was lost, or ServerTsx::respond could not send.               *)
THEOREM LossIsTolerated == ASSUME TripFits PROVE NonInvite!Spec => []NonInvite!LossTolerance
<1>1. TripInv => NonInvite!LossTolerance
  <2>1. ASSUME TripInv, cstate = "TimedOut", broken # TRUE, ~NonInvite!AllLost
        PROVE  provs > 0 /\ lost > 0
    <3>1. NonInvite!TypeOK
      BY <2>1 DEF TripInv
    <3>2. broken = FALSE
      BY <2>1, <3>1, TripTypes
    <3>3. lost * T2 < Timeout
      BY <2>1, <3>1, TripTypes, LossWeighs DEF NonInvite!AllLost
    <3> QED
      BY <2>1, <3>2, <3>3 DEF TripInv, Orderly, RequesterInv
  <2> QED
    BY <2>1 DEF NonInvite!LossTolerance
<1> QED
  BY <1>1, TripInvariant, PTL

(* And the request reaches the server's user once, however often it is     *)
(* sent again, duplicated or overtaken by its answers.                     *)
THEOREM RequestServedOnce == ASSUME TripFits PROVE NonInvite!Spec => []NonInvite!AtMostOnce
<1>1. TripInv => NonInvite!AtMostOnce
  <2>1. ASSUME TripInv, served > 1, broken # TRUE, ~NonInvite!AllLost
        PROVE  FALSE
    <3>1. NonInvite!TypeOK
      BY <2>1 DEF TripInv
    <3>2. broken = FALSE
      BY <2>1, <3>1, TripTypes
    <3>3. lost * T2 < Timeout
      BY <2>1, <3>1, TripTypes, LossWeighs DEF NonInvite!AllLost
    <3> QED
      BY <2>1, <3>1, <3>2, <3>3, TripTypes DEF TripInv, Orderly
  <2> QED
    BY <2>1 DEF NonInvite!AtMostOnce
<1> QED
  BY <1>1, TripInvariant, PTL
=============================================================================
