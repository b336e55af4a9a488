-------------------------- MODULE InviteCallProofs --------------------------
(***************************************************************************)
(* Proofs about a call from the INVITE on: for any number of forks, early  *)
(* channels of any capacity and fewer lost ACKs than a peer repeats its    *)
(* answer, both ends agree on every fork once the INVITE is over; and, for *)
(* any interval long enough for it, a session whose ends are alive is      *)
(* refreshed in time.                                                      *)
(***************************************************************************)
EXTENDS InviteCall, SequenceTheorems, TLAPS

(* The application drops its Earlies when it cancels (a task that keeps    *)
(* one panics), and a peer repeats its 2xx often enough: once for each ACK *)
(* that is lost, and once more for the copy that is dropped when it comes  *)
(* before the application has registered the ACK of an Early's session.    *)
EnoughAnswers == ~KeepsEarly /\ MaxLost + 1 < MaxSends

Replies == [tag : Forks, code : {"ring", "bare", "2xx"}]
Failed == Response(None, "failure")

CallTypes ==
    /\ peer \in [Forks -> {"idle", "ringing", "answered", "confirmed", "ended"}]
    /\ sends \in [Forks -> Nat] /\ lost \in 0 .. MaxLost
    /\ responses \in Seq(Replies \cup {Failed})
    /\ tsx \in {"Proceeding", "Accepted", "Completed", "Terminated"} /\ first \in Forks \cup {None}
    /\ initiator \in {"receive", "cancel", "earlyCancel", "done"}
    /\ taken \in Replies \cup {Failed, Nothing}
    /\ early_list \in Seq(Forks) /\ created \subseteq Forks /\ acks \subseteq Forks
    /\ chan \in [Forks -> Seq({"ring", "bare", "2xx", "terminate"})]
    /\ early \in [Forks -> {"unborn", "held", "gone", "panicked"}]
    /\ session \in [Forks -> {None, "up", "ended"}]

Up(f) == session[f] = "up"

Has(s, e) == \E i \in DOMAIN s : s[i] = e

Ends(s) == s # <<>> /\ s[Len(s)] = "terminate"

(* A copy of the peer's 2xx on its way to its session, and how many copies *)
(* have been used up.                                                      *)
Forwarded(f) == early[f] = "held" /\ Has(chan[f], "2xx")
Copy(f) == Has(responses, Response(f, "2xx")) \/ taken = Response(f, "2xx") \/ Forwarded(f)
Spent(f) == IF Copy(f) THEN sends[f] - 1 ELSE sends[f]

Failing == taken = Failed \/ Has(responses, Failed)

(* A dropped initiator has nothing, but there may be an answer in the      *)
(* channel of an Early; a cancelled call has no session.                   *)
ShutInv ==
    /\ initiator = "done" =>
          /\ responses = <<>> /\ taken = Nothing /\ created = {} /\ acks = {}
          /\ early_list = <<>>
          /\ \A f \in Forks : Copy(f) => f # first /\ peer[f] = "answered"
    /\ initiator \in {"cancel", "earlyCancel"} =>
          \A f \in Forks : ~Up(f) /\ early[f] # "held"

(* An Early is in the list until it was told of a failure, or receive has  *)
(* ended otherwise.                                                        *)
Deserted == initiator = "done" /\ tsx = "Terminated"
EarlyInv ==
    \A f \in Forks :
        /\ early[f] = "held" =>
              /\ ~Up(f)
              /\ ~Has(early_list, f) => Ends(chan[f]) \/ Deserted
              /\ Has(chan[f], "terminate") => tsx = "Completed"
        /\ early[f] = "panicked" => ~Up(f) /\ Deserted

(* After a failure there are no answers.                                   *)
RefusedInv ==
    Failing \/ tsx = "Completed" => \A f \in Forks : sends[f] = 0 /\ peer[f] = "ended"

(* Every session's ACK is registered, or is made by an Early in the list.  *)
RegisteredInv ==
    /\ \A f \in created \cup acks : Up(f)
    /\ initiator = "receive" => \A f \in Forks :
          /\ Up(f) => f \in created \cup acks
          /\ f \in acks => Has(early_list, f)
          /\ Has(early_list, f) /\ ~Failing => early[f] = "held" \/ Up(f)

(* A copy used up made the session, and cost an ACK then and later, but    *)
(* for the one that came before the ACK was registered.                    *)
CountInv ==
    initiator = "receive" => \A f \in Forks :
        /\ Up(f) => peer[f] \in {"answered", "confirmed"}
        /\ Up(f) /\ peer[f] = "answered" => Spent(f) <= lost + IF f \in created THEN 1 ELSE 0
        /\ ~Up(f) => Spent(f) = 0
        /\ Copy(f) => peer[f] \in {"answered", "confirmed"}

PeerInv ==
    \A f \in Forks :
        /\ peer[f] \in {"idle", "ringing"} => sends[f] = 0
        /\ Up(f) \/ Copy(f) => sends[f] > 0
        /\ peer[f] = "confirmed" => Up(f)
        /\ Up(f) => peer[f] = "confirmed" \/ lost > 0
        /\ initiator = "done" /\ Up(f) /\ f = first => peer[f] = "confirmed"

TsxInv ==
    /\ tsx = "Proceeding" => first = None
    /\ taken = Failed => tsx = "Completed"
    /\ tsx = "Completed" => taken = Failed \/ initiator = "done"
    /\ tsx = "Terminated" => initiator = "done"

ForksInv ==
    /\ CallTypes /\ ShutInv /\ EarlyInv /\ RefusedInv /\ RegisteredInv /\ CountInv /\ PeerInv
    /\ TsxInv

-----------------------------------------------------------------------------
LEMMA HasEmpty == \A e : ~Has(<<>>, e)
  BY DEF Has

LEMMA HasAppend ==
    ASSUME NEW S, NEW s \in Seq(S), NEW x \in S
    PROVE  /\ Append(s, x) \in Seq(S) /\ Append(s, x) # <<>>
           /\ Append(s, x)[Len(Append(s, x))] = x
           /\ \A e : Has(Append(s, x), e) <=> Has(s, e) \/ e = x
<1>1. /\ Append(s, x) \in Seq(S) /\ Len(Append(s, x)) = Len(s) + 1
      /\ \A i \in 1 .. Len(s) : Append(s, x)[i] = s[i]
      /\ Append(s, x)[Len(s) + 1] = x
  BY AppendProperties
<1>2. DOMAIN s = 1 .. Len(s) /\ Len(s) \in Nat /\ DOMAIN Append(s, x) = 1 .. (Len(s) + 1)
  BY <1>1, LenProperties
<1>3. \A i \in 1 .. (Len(s) + 1) : i \in 1 .. Len(s) \/ i = Len(s) + 1
  BY <1>2
<1>4. Len(s) + 1 \in 1 .. (Len(s) + 1) /\ \A i \in 1 .. Len(s) : i \in 1 .. (Len(s) + 1)
  BY <1>2
<1>5. ASSUME NEW e PROVE Has(Append(s, x), e) <=> Has(s, e) \/ e = x
  <2>1. ASSUME Has(Append(s, x), e) PROVE Has(s, e) \/ e = x
    <3>1. PICK i \in 1 .. (Len(s) + 1) : Append(s, x)[i] = e
      BY <1>2, <2>1 DEF Has
    <3> QED
      BY <1>1, <1>2, <1>3, <3>1 DEF Has
  <2>2. ASSUME Has(s, e) \/ e = x PROVE Has(Append(s, x), e)
    BY <1>1, <1>2, <1>4, <2>2, Zenon DEF Has
  <2> QED
    BY <2>1, <2>2
<1>6. Append(s, x) # <<>>
  <2>1. Len(Append(s, x)) # 0
    BY <1>1, <1>2
  <2> QED
    BY <2>1, EmptySeq, Zenon
<1> QED
  BY <1>1, <1>5, <1>6

LEMMA HasTail ==
    ASSUME NEW S, NEW s \in Seq(S), s # <<>>
    PROVE  /\ Head(s) \in S /\ Tail(s) \in Seq(S)
           /\ \A e : Has(s, e) <=> Head(s) = e \/ Has(Tail(s), e)
           /\ Ends(s) /\ Head(s) # "terminate" => Ends(Tail(s))
<1>1. /\ Head(s) \in S /\ Tail(s) \in Seq(S) /\ Head(s) = s[1] /\ Len(Tail(s)) = Len(s) - 1
      /\ \A i \in 1 .. Len(Tail(s)) : Tail(s)[i] = s[i + 1]
  BY HeadTailProperties
<1>2. Len(s) \in Nat /\ Len(s) # 0 /\ DOMAIN s = 1 .. Len(s) /\ DOMAIN Tail(s) = 1 .. (Len(s) - 1)
  BY <1>1, LenProperties, EmptySeq
<1>3. /\ 1 \in 1 .. Len(s) /\ \A i \in 1 .. Len(s) : i = 1 \/ (i - 1 \in 1 .. (Len(s) - 1) /\ i = (i - 1) + 1)
      /\ \A i \in 1 .. (Len(s) - 1) : i + 1 \in 1 .. Len(s)
  BY <1>2
<1>4. ASSUME NEW e PROVE Has(s, e) <=> Head(s) = e \/ Has(Tail(s), e)
  <2>1. ASSUME Has(s, e) PROVE Head(s) = e \/ Has(Tail(s), e)
    <3>1. PICK i \in 1 .. Len(s) : s[i] = e
      BY <1>2, <2>1 DEF Has
    <3>2. CASE i = 1
      BY <1>1, <3>1, <3>2
    <3>3. CASE i # 1
      <4>1. i - 1 \in 1 .. (Len(s) - 1) /\ i = (i - 1) + 1
        BY <1>3, <3>3
      <4>2. Tail(s)[i - 1] = e
        BY <1>1, <3>1, <4>1
      <4> QED
        BY <1>2, <4>1, <4>2 DEF Has
    <3> QED
      BY <3>2, <3>3
  <2>2. ASSUME Head(s) = e \/ Has(Tail(s), e) PROVE Has(s, e)
    BY <1>1, <1>2, <1>3, <2>2, Zenon DEF Has
  <2> QED
    BY <2>1, <2>2
<1>5. ASSUME Ends(s), Head(s) # "terminate" PROVE Ends(Tail(s))
  <2>1. Len(s) # 1
    BY <1>1, <1>5 DEF Ends
  <2>2. Len(s) - 1 \in 1 .. (Len(s) - 1) /\ (Len(s) - 1) + 1 = Len(s)
    BY <1>2, <2>1
  <2>3. Tail(s)[Len(s) - 1] = s[Len(s)]
    BY <1>1, <2>2
  <2>4. Tail(s) # <<>>
    <3>1. Len(Tail(s)) # 0
      BY <1>1, <1>2, <2>1
    <3> QED
      BY <3>1, EmptySeq, Zenon
  <2> QED
    BY <1>1, <1>5, <2>3, <2>4 DEF Ends
<1> QED
  BY <1>1, <1>4, <1>5

-----------------------------------------------------------------------------
(* What the tags and codes tell apart.                                     *)
LEMMA Codes ==
    /\ Failed.code = "failure" /\ Failed.tag = None /\ Nothing.code = None /\ Failed # Nothing
    /\ \A r \in Replies : /\ r.tag \in Forks /\ r.code \in {"ring", "bare", "2xx"}
                          /\ r # Failed /\ r # Nothing /\ r = Response(r.tag, r.code)
    /\ \A f, c : Response(f, c).tag = f /\ Response(f, c).code = c
    /\ \A f : Response(f, "2xx") # Failed /\ Response(f, "2xx") # Nothing
    /\ None \notin Forks
  BY InitiatorAssumption DEF Failed, Nothing, Response, Replies, None

LEMMA TsxReceiveStep == ForksInv /\ TsxReceive => ForksInv'
<1> SUFFICES ASSUME ForksInv, TsxReceive PROVE ForksInv'
  OBVIOUS
<1> USE DEF ForksInv
<1>1. PICK r : r = Head(responses)
  OBVIOUS
<1>2. /\ r \in Replies \cup {Failed} /\ responses' \in Seq(Replies \cup {Failed})
      /\ \A e : Has(responses, e) <=> r = e \/ Has(responses', e)
  BY <1>1, HasTail DEF TsxReceive, CallTypes
<1>3. /\ initiator \in {"receive", "cancel"} /\ taken = Nothing /\ taken' = r
      /\ UNCHANGED <<peer, sends, lost, initiator, early_list, created, chan, early, acks, session>>
      /\ tsx' = IF r.code = "2xx" THEN "Accepted" ELSE IF r.code = "failure" THEN "Completed" ELSE tsx
      /\ first' = IF first = None /\ r.code = "2xx" THEN r.tag ELSE first
  BY <1>1 DEF TsxReceive, peerVars, earlyVars
<1>4. (\A f : Copy(f)' <=> Copy(f)) /\ (\A f : Up(f)' <=> Up(f)) /\ (\A f : Spent(f)' = Spent(f))
  BY <1>2, <1>3, Codes DEF Copy, Forwarded, Up, Spent
<1>5. Failing' <=> Failing
  BY <1>2, <1>3, Codes DEF Failing
<1>6. CallTypes'
  BY <1>2, <1>3, Codes DEF CallTypes
<1>7. ShutInv' /\ EarlyInv' /\ RefusedInv'
  <2>1. tsx # "Completed" /\ initiator # "done" /\ (tsx' = "Completed" => Failing)
    BY <1>2, <1>3, Codes DEF TsxInv, Failing
  <2>2. ShutInv' /\ RefusedInv'
    BY <1>3, <1>4, <1>5, <2>1 DEF ShutInv, RefusedInv
  <2>3. EarlyInv'
    BY <1>3, <1>4, <2>1 DEF EarlyInv, Deserted
  <2> QED
    BY <2>2, <2>3
<1>8. RegisteredInv' /\ CountInv' /\ PeerInv' /\ TsxInv'
  BY <1>2, <1>3, <1>4, <1>5, Codes DEF RegisteredInv, CountInv, PeerInv, TsxInv
<1> QED
  BY <1>6, <1>7, <1>8

(* An ACK is lost or confirms the session it is for, once it is up.        *)
LEMMA AcknowledgeStep ==
    ASSUME ForksInv, NEW g \in Forks, Acknowledge(g)
    PROVE  /\ peer' \in [Forks -> {"idle", "ringing", "answered", "confirmed", "ended"}]
           /\ lost' \in 0 .. MaxLost /\ \A f \in Forks : f # g => peer'[f] = peer[f]
           /\ \/ lost' = lost /\ peer'[g] = IF peer[g] = "answered" THEN "confirmed" ELSE peer[g]
              \/ lost' = lost + 1 /\ peer' = peer
<1>1. /\ peer \in [Forks -> {"idle", "ringing", "answered", "confirmed", "ended"}]
      /\ lost \in 0 .. MaxLost /\ MaxLost \in Nat
  BY InitiatorAssumption DEF ForksInv, CallTypes
<1>2. CASE lost < MaxLost /\ lost' = lost + 1 /\ UNCHANGED peer
  BY <1>1, <1>2
<1>3. CASE /\ peer' = [peer EXCEPT ![g] = IF @ = "answered" THEN "confirmed" ELSE @]
           /\ UNCHANGED lost
  BY <1>1, <1>3
<1> QED
  BY <1>2, <1>3 DEF Acknowledge

LEMMA RetransmitAckStep == ForksInv /\ RetransmitAck => ForksInv'
<1> SUFFICES ASSUME ForksInv, RetransmitAck PROVE ForksInv'
  OBVIOUS
<1> USE DEF ForksInv
<1>1. PICK g : g = taken.tag
  OBVIOUS
<1>2. /\ taken # Nothing /\ g \in created /\ taken' = Nothing /\ Acknowledge(g)
      /\ UNCHANGED <<sends, responses, tsx, first, initiator, early_list, created, chan,
                     early, acks, session>>
  BY <1>1 DEF RetransmitAck, tsxVars, earlyVars
<1>3. g \in Forks /\ taken \in Replies /\ Up(g) /\ initiator = "receive"
  BY <1>1, <1>2, Codes DEF CallTypes, RegisteredInv, ShutInv
<1>4. /\ peer' \in [Forks -> {"idle", "ringing", "answered", "confirmed", "ended"}]
      /\ lost' \in 0 .. MaxLost /\ \A f \in Forks : f # g => peer'[f] = peer[f]
      /\ \/ lost' = lost /\ peer'[g] = IF peer[g] = "answered" THEN "confirmed" ELSE peer[g]
         \/ lost' = lost + 1 /\ peer' = peer
  BY <1>2, <1>3, AcknowledgeStep
<1>5. /\ \A f : f # g => (Copy(f)' <=> Copy(f))
      /\ (Copy(g)' => Copy(g)) /\ \A f : Up(f)' <=> Up(f)
  BY <1>1, <1>2, <1>3, Codes DEF Copy, Forwarded, Up
<1>6. Failing' <=> Failing
  BY <1>2, <1>3, Codes DEF Failing
<1>7. /\ \A f \in Forks : f # g => Spent(f)' = Spent(f)
      /\ Spent(g)' \in Int /\ Spent(g) \in Int /\ Spent(g)' <= Spent(g) + 1
  BY <1>2, <1>3, <1>5 DEF Spent, CallTypes
<1>8. CallTypes'
  BY <1>2, <1>3, <1>4, Codes DEF CallTypes
<1>9. ShutInv' /\ EarlyInv' /\ RefusedInv'
  BY <1>2, <1>3, <1>4, <1>5, <1>6, Codes DEF ShutInv, EarlyInv, Deserted, RefusedInv
<1>10. RegisteredInv' /\ TsxInv'
  BY <1>2, <1>3, <1>5, <1>6, Codes DEF RegisteredInv, TsxInv
<1>11. CountInv'
  <2>1. lost \in Nat /\ lost' \in Nat /\ lost <= lost'
    BY <1>4 DEF CallTypes
  <2>2. \A f \in Forks : Spent(f) \in Int
    BY DEF CallTypes, Spent
  <2>3. ASSUME NEW f \in Forks, Up(f), peer'[f] = "answered"
        PROVE  Spent(f)' <= lost' + IF f \in created THEN 1 ELSE 0
    <3>1. CASE f # g
      BY <1>2, <1>3, <1>4, <1>7, <2>1, <2>2, <2>3, <3>1 DEF CountInv
    <3>2. CASE f = g
      BY <1>2, <1>3, <1>4, <1>7, <2>1, <2>2, <2>3, <3>2 DEF CountInv
    <3> QED
      BY <3>1, <3>2
  <2> QED
    BY <1>2, <1>3, <1>4, <1>5, <1>7, <2>3 DEF CountInv
<1>12. PeerInv'
  BY <1>2, <1>3, <1>4, <1>5, Codes DEF PeerInv, CallTypes
<1> QED
  BY <1>8, <1>9, <1>10, <1>11, <1>12

(* What receive leaves behind when it returns.                             *)
LEMMA ReturnedStep ==
    ASSUME ForksInv, Returned
    PROVE  /\ created' \cup acks' = created \cup acks /\ created \subseteq created'
           /\ created' \subseteq Forks /\ acks' \subseteq Forks /\ acks' \subseteq acks
           /\ initiator = "receive" => acks' = {}
           /\ taken' = Nothing
  BY DEF ForksInv, CallTypes, Returned

LEMMA ForwardStep == ForksInv /\ Forward => ForksInv'
<1> SUFFICES ASSUME ForksInv, Forward PROVE ForksInv'
  OBVIOUS
<1> USE DEF ForksInv
<1>1. PICK g, c : g = taken.tag /\ c = taken.code
  OBVIOUS
<1>2. /\ taken # Nothing /\ g \notin created /\ Has(early_list, g) /\ ForwardTo(g)
      /\ UNCHANGED <<peer, sends, lost, responses, tsx, first, initiator, early_list,
                     early, session>>
  BY <1>1 DEF Forward, InEarlyList, Has, tsxVars, peerVars
<1>3. /\ created' \cup acks' = created \cup acks /\ created \subseteq created'
      /\ created' \subseteq Forks /\ acks' \subseteq Forks /\ acks' \subseteq acks
      /\ initiator = "receive" => acks' = {}
      /\ taken' = Nothing
  BY ReturnedStep DEF Forward
<1>4. /\ g \in Forks /\ taken \in Replies /\ taken = Response(g, c) /\ c \in {"ring", "bare", "2xx"}
      /\ initiator # "done"
  BY <1>1, <1>2, Codes DEF CallTypes, ShutInv, Has
<1>5. /\ chan' \in [Forks -> Seq({"ring", "bare", "2xx", "terminate"})]
      /\ \A f \in Forks : f # g => chan'[f] = chan[f]
      /\ IF early[g] = "held" THEN \A e : Has(chan'[g], e) <=> Has(chan[g], e) \/ e = c
                              ELSE chan' = chan
  <2>1. PICK codes : codes = {"ring", "bare", "2xx", "terminate"}
    OBVIOUS
  <2>2. chan[g] \in Seq(codes) /\ c \in codes
    BY <1>4, <2>1 DEF CallTypes
  <2>3. Append(chan[g], c) \in Seq(codes) /\ \A e : Has(Append(chan[g], c), e) <=> Has(chan[g], e) \/ e = c
    BY <2>2, HasAppend
  <2> QED
    BY <1>1, <1>2, <1>4, <2>1, <2>3 DEF ForwardTo, CallTypes
<1>6. \A f \in Forks : /\ f # g \/ early[g] = "held" \/ c # "2xx" => (Copy(f)' <=> Copy(f))
                       /\ (Copy(f)' => Copy(f)) /\ (Up(f)' <=> Up(f))
  <2> TAKE f \in Forks
  <2>1. taken' # Response(f, "2xx") /\ (taken = Response(f, "2xx") <=> f = g /\ c = "2xx")
    BY <1>3, <1>4 DEF Response, Nothing, None
  <2>2. CASE f # g
    BY <1>2, <1>5, <2>1, <2>2 DEF Copy, Forwarded, Up
  <2>3. CASE f = g
    BY <1>2, <1>4, <1>5, <2>1, <2>3 DEF Copy, Forwarded, Up
  <2> QED
    BY <2>2, <2>3
<1>7. Failing' <=> Failing
  BY <1>2, <1>3, <1>4, Codes DEF Failing
<1>8. CallTypes'
  BY <1>2, <1>3, <1>5 DEF CallTypes
<1>9. ShutInv' /\ RefusedInv' /\ TsxInv' /\ PeerInv'
  BY <1>2, <1>3, <1>4, <1>6, <1>7, Codes DEF ShutInv, RefusedInv, TsxInv, PeerInv
<1>10. EarlyInv'
  BY <1>2, <1>3, <1>4, <1>5, <1>6, Codes DEF EarlyInv, Deserted
<1>11. RegisteredInv'
  BY <1>2, <1>3, <1>6, <1>7 DEF RegisteredInv
<1>12. CountInv'
  <2> SUFFICES ASSUME initiator = "receive" PROVE CountInv'
    BY <1>2 DEF CountInv
  <2>1. \A f \in Forks : Spent(f) \in Int /\ Spent(f)' \in Int /\ lost \in Nat
    <3>1. sends \in [Forks -> Nat] /\ sends' = sends /\ lost \in Nat
      BY <1>2 DEF CallTypes
    <3> QED
      BY <3>1 DEF Spent
  <2>2. \A f \in Forks : f # g \/ early[g] = "held" \/ c # "2xx" => Spent(f)' = Spent(f)
    BY <1>2, <1>6 DEF Spent
  <2>3. ASSUME early[g] # "held", c = "2xx"
        PROVE  Up(g) /\ g \in acks /\ Spent(g)' <= Spent(g) + 1
    <3>1. Copy(g) /\ ~Failing
      BY <1>4, <2>3 DEF Copy, PeerInv, RefusedInv, CallTypes
    <3>2. Up(g) /\ g \in acks
      BY <1>2, <1>4, <2>3, <3>1 DEF RegisteredInv
    <3> QED
      BY <1>2, <1>4, <3>1, <3>2 DEF Spent, CallTypes
  <2>4. ASSUME NEW f \in Forks, Up(f), peer[f] = "answered"
        PROVE  Spent(f)' <= lost + IF f \in created' THEN 1 ELSE 0
    <3>1. CASE f # g \/ early[g] = "held" \/ c # "2xx"
      BY <1>3, <2>1, <2>2, <2>4, <3>1 DEF CountInv
    <3>2. CASE f = g /\ early[g] # "held" /\ c = "2xx"
      BY <1>2, <1>3, <2>1, <2>3, <2>4, <3>2 DEF CountInv
    <3> QED
      BY <3>1, <3>2
  <2>5. ASSUME NEW f \in Forks, ~Up(f) PROVE Spent(f)' = 0
    BY <2>2, <2>3, <2>5 DEF CountInv
  <2> QED
    BY <1>2, <1>6, <2>4, <2>5 DEF CountInv
<1> QED
  BY <1>8, <1>9, <1>10, <1>11, <1>12

(* An unknown peer has no session, and no Early, while receive is called.  *)
LEMMA UnknownPeer ==
    ASSUME ForksInv, Unknown, taken.code # "failure"
    PROVE  /\ taken \in Replies /\ taken.tag \in Forks /\ initiator # "done"
           /\ ~Has(early_list, taken.tag) /\ early[taken.tag] # "held"
           /\ initiator = "receive" =>
                 ~Up(taken.tag) /\ taken.tag \notin acks /\ taken.tag \notin created
<1> USE DEF ForksInv
<1>1. PICK g : g = taken.tag
  OBVIOUS
<1>2. taken \in Replies /\ g \in Forks /\ initiator # "done" /\ taken # Failed
  BY <1>1, Codes DEF Unknown, CallTypes, ShutInv
<1>3. ~Has(early_list, g) /\ g \notin created
  BY <1>1 DEF Unknown, InEarlyList, Has
<1>4. early[g] # "held"
  <2> SUFFICES ASSUME early[g] = "held" PROVE FALSE
    OBVIOUS
  <2>1. Ends(chan[g]) /\ ~Has(chan[g], "terminate")
    BY <1>2, <1>3 DEF EarlyInv, Deserted, TsxInv
  <2>2. chan[g] \in Seq({"ring", "bare", "2xx", "terminate"})
    BY <1>2 DEF CallTypes
  <2>3. Len(chan[g]) \in DOMAIN chan[g]
    BY <2>1, <2>2 DEF Ends
  <2> QED
    BY <2>1, <2>3 DEF Ends, Has
<1>5. initiator = "receive" => ~Up(g) /\ g \notin acks
  BY <1>2, <1>3 DEF RegisteredInv
<1> QED
  BY <1>1, <1>2, <1>3, <1>4, <1>5

LEMMA ProvisionalStep == ForksInv /\ Provisional => ForksInv'
<1> SUFFICES ASSUME ForksInv, Provisional PROVE ForksInv'
  OBVIOUS
<1> USE DEF ForksInv
<1>1. /\ taken \in Replies /\ taken.code = "bare" /\ initiator # "done"
      /\ UNCHANGED <<peer, sends, lost, responses, tsx, first, initiator, early_list, chan,
                     early, session>>
  BY UnknownPeer DEF Provisional, tsxVars, peerVars
<1>2. /\ created' \cup acks' = created \cup acks /\ created \subseteq created'
      /\ created' \subseteq Forks /\ acks' \subseteq Forks /\ acks' \subseteq acks
      /\ initiator = "receive" => acks' = {}
      /\ taken' = Nothing
  BY ReturnedStep DEF Provisional
<1>3. /\ \A f : Copy(f)' <=> Copy(f)
      /\ \A f : Up(f)' <=> Up(f)
      /\ \A f : Spent(f)' = Spent(f)
      /\ Failing' <=> Failing
  BY <1>1, <1>2, Codes DEF Copy, Forwarded, Up, Spent, Failing
<1>4. CallTypes'
  BY <1>1, <1>2 DEF CallTypes
<1>5. ShutInv' /\ EarlyInv' /\ RefusedInv' /\ RegisteredInv'
  BY <1>1, <1>2, <1>3, Codes DEF ShutInv, EarlyInv, Deserted, RefusedInv, RegisteredInv
<1>6. PeerInv' /\ TsxInv'
  BY <1>1, <1>2, <1>3, Codes DEF PeerInv, TsxInv
<1>7. CountInv'
  <2>1. \A f \in Forks : Spent(f) \in Int /\ lost \in Nat
    BY DEF CallTypes, Spent
  <2> QED
    BY <1>1, <1>2, <1>3, <2>1 DEF CountInv
<1> QED
  BY <1>4, <1>5, <1>6, <1>7

LEMMA CreateEarlyDialogStep == ForksInv /\ CreateEarlyDialog => ForksInv'
<1> SUFFICES ASSUME ForksInv, CreateEarlyDialog PROVE ForksInv'
  OBVIOUS
<1> USE DEF ForksInv
<1>1. PICK g : g = taken.tag
  OBVIOUS
<1>2. /\ taken \in Replies /\ taken.code = "ring" /\ initiator = "receive"
      /\ g \in Forks /\ early[g] # "held" /\ ~Up(g) /\ g \notin acks /\ g \notin created
      /\ early_list' = Append(early_list, g)
      /\ chan' = [chan EXCEPT ![g] = <<>>] /\ early' = [early EXCEPT ![g] = "held"]
      /\ UNCHANGED <<peer, sends, lost, responses, tsx, first, initiator, session>>
  BY <1>1, UnknownPeer DEF CreateEarlyDialog, tsxVars, peerVars
<1>3. /\ created' \cup acks' = created \cup acks /\ created \subseteq created'
      /\ created' \subseteq Forks /\ acks' \subseteq Forks /\ acks' \subseteq acks
      /\ initiator = "receive" => acks' = {}
      /\ taken' = Nothing
  BY ReturnedStep DEF CreateEarlyDialog
<1>4. early_list' \in Seq(Forks) /\ \A e : Has(early_list', e) <=> Has(early_list, e) \/ e = g
  BY <1>2, HasAppend DEF CallTypes
<1>5. /\ \A f \in Forks : f # g => chan'[f] = chan[f] /\ early'[f] = early[f]
      /\ chan'[g] = <<>> /\ early'[g] = "held"
      /\ chan' \in [Forks -> Seq({"ring", "bare", "2xx", "terminate"})]
      /\ early' \in [Forks -> {"unborn", "held", "gone", "panicked"}]
  BY <1>2, EmptySeq DEF CallTypes
<1>6. \A f \in Forks : Copy(f)' <=> Copy(f)
  <2> TAKE f \in Forks
  <2>1. taken' # Response(f, "2xx") /\ taken # Response(f, "2xx")
    BY <1>2, <1>3, Codes
  <2> QED
    BY <1>2, <1>5, <2>1, HasEmpty DEF Copy, Forwarded
<1>7. /\ \A f \in Forks : (Up(f)' <=> Up(f)) /\ Spent(f)' = Spent(f)
      /\ Failing' <=> Failing
  BY <1>2, <1>3, <1>6, Codes DEF Up, Spent, Failing
<1>8. CallTypes'
  BY <1>2, <1>3, <1>4, <1>5 DEF CallTypes
<1>9. ShutInv' /\ RefusedInv' /\ RegisteredInv'
  BY <1>2, <1>3, <1>4, <1>5, <1>6, <1>7, Codes DEF ShutInv, RefusedInv, RegisteredInv
<1>10. EarlyInv'
  BY <1>2, <1>3, <1>4, <1>5, <1>6, <1>7, Codes, HasEmpty DEF EarlyInv, Deserted
<1>11. PeerInv' /\ TsxInv'
  BY <1>2, <1>3, <1>6, <1>7, Codes DEF PeerInv, TsxInv
<1>12. CountInv'
  <2>1. \A f \in Forks : Spent(f) \in Int /\ lost \in Nat
    BY DEF CallTypes, Spent
  <2> QED
    BY <1>2, <1>3, <1>6, <1>7, <2>1 DEF CountInv
<1> QED
  BY <1>8, <1>9, <1>10, <1>11, <1>12

LEMMA CancelEarlyStep == ForksInv /\ CancelEarly => ForksInv'
<1> SUFFICES ASSUME ForksInv, CancelEarly PROVE ForksInv'
  OBVIOUS
<1> USE DEF ForksInv
<1>1. /\ taken \in Replies /\ taken.code = "ring" /\ taken.tag \in Forks
      /\ initiator = "cancel" /\ initiator' = "earlyCancel" /\ taken' = Nothing
      /\ early_list' = Append(early_list, taken.tag)
      /\ UNCHANGED <<peer, sends, lost, responses, tsx, first, created, chan, early, acks, session>>
  BY UnknownPeer DEF CancelEarly, tsxVars, peerVars, earlyVars
<1>2. early_list' \in Seq(Forks)
  BY <1>1, HasAppend DEF CallTypes
<1>3. /\ \A f : Copy(f)' <=> Copy(f)
      /\ \A f : Up(f)' <=> Up(f)
      /\ Failing' <=> Failing
  BY <1>1, Codes DEF Copy, Forwarded, Up, Failing
<1>4. CallTypes'
  BY <1>1, <1>2 DEF CallTypes
<1>5. ShutInv' /\ EarlyInv' /\ RefusedInv' /\ RegisteredInv'
  BY <1>1, <1>3, Codes DEF ShutInv, EarlyInv, Deserted, RefusedInv, RegisteredInv
<1>6. PeerInv' /\ TsxInv' /\ CountInv'
  BY <1>1, <1>3, Codes DEF PeerInv, TsxInv, CountInv
<1> QED
  BY <1>4, <1>5, <1>6

LEMMA CreateSessionStep == ForksInv /\ CreateSession => ForksInv'
<1> SUFFICES ASSUME ForksInv, CreateSession PROVE ForksInv'
  OBVIOUS
<1> USE DEF ForksInv
<1>1. PICK g : g = taken.tag
  OBVIOUS
<1>2. /\ taken \in Replies /\ taken.code = "2xx" /\ initiator = "receive" /\ Acknowledge(g)
      /\ g \in Forks /\ early[g] # "held" /\ ~Up(g) /\ g \notin acks /\ g \notin created
      /\ session' = [session EXCEPT ![g] = "up"]
      /\ created' = created \cup acks \cup {g} /\ acks' = {} /\ taken' = Nothing
      /\ UNCHANGED <<sends, responses, tsx, first, initiator, early_list, chan, early>>
  BY <1>1, UnknownPeer DEF CreateSession, tsxVars
<1>3. /\ peer' \in [Forks -> {"idle", "ringing", "answered", "confirmed", "ended"}]
      /\ lost' \in 0 .. MaxLost /\ \A f \in Forks : f # g => peer'[f] = peer[f]
      /\ \/ lost' = lost /\ peer'[g] = IF peer[g] = "answered" THEN "confirmed" ELSE peer[g]
         \/ lost' = lost + 1 /\ peer' = peer
  BY <1>2, AcknowledgeStep
<1>4. taken = Response(g, "2xx")
  BY <1>1, <1>2, Codes
<1>5. \A f \in Forks : (f # g => (Copy(f)' <=> Copy(f))) /\ (Copy(f)' => Copy(f))
  <2> TAKE f \in Forks
  <2>1. taken' # Response(f, "2xx") /\ (taken = Response(f, "2xx") <=> f = g)
    BY <1>2, <1>4, Codes
  <2> QED
    BY <1>2, <2>1 DEF Copy, Forwarded
<1>6. \A f \in Forks : (f # g => (Up(f)' <=> Up(f))) /\ (f = g => Up(f)')
  BY <1>2 DEF Up, CallTypes
<1>7. Copy(g) /\ sends[g] > 0 /\ ~Failing /\ ~Failing' /\ peer[g] = "answered" /\ Spent(g) = 0
  <2>1. Copy(g) /\ sends[g] > 0
    BY <1>2, <1>4 DEF Copy, PeerInv
  <2>2. ~Failing
    BY <1>2, <2>1 DEF RefusedInv
  <2>3. ~Failing'
    BY <1>2, <2>2, Codes DEF Failing
  <2> QED
    BY <1>2, <2>1, <2>2, <2>3 DEF CountInv, PeerInv
<1>8. CallTypes'
  BY <1>2, <1>3 DEF CallTypes
<1>9. ShutInv' /\ RefusedInv' /\ TsxInv'
  BY <1>2, <1>7, Codes DEF ShutInv, RefusedInv, TsxInv
<1>10. EarlyInv' /\ RegisteredInv'
  BY <1>2, <1>6, <1>7, Codes DEF EarlyInv, Deserted, RegisteredInv, CallTypes
<1>11. CountInv'
  <2>1. lost \in Nat /\ lost' \in Nat /\ lost <= lost'
    BY <1>3 DEF CallTypes
  <2>2. \A f \in Forks : Spent(f) \in Int /\ Spent(f)' \in Int
    BY <1>2 DEF CallTypes, Spent
  <2>3. \A f \in Forks : f # g => Spent(f)' = Spent(f)
    BY <1>2, <1>5 DEF Spent
  <2>4. Spent(g)' <= 1
    BY <1>2, <1>7 DEF Spent, CallTypes
  <2>5. ASSUME NEW f \in Forks, Up(f)', peer'[f] = "answered"
        PROVE  Spent(f)' <= lost' + IF f \in created' THEN 1 ELSE 0
    <3>1. CASE f # g
      <4>1. Spent(f) <= lost + IF f \in created THEN 1 ELSE 0
        BY <1>2, <1>3, <1>6, <2>5, <3>1 DEF CountInv
      <4> QED
        BY <1>2, <2>1, <2>2, <2>3, <3>1, <4>1
    <3>2. CASE f = g
      BY <1>2, <2>1, <2>2, <2>4, <3>2
    <3> QED
      BY <3>1, <3>2
  <2>6. ASSUME NEW f \in Forks
        PROVE  /\ Up(f)' => peer'[f] \in {"answered", "confirmed"}
               /\ ~Up(f)' => Spent(f)' = 0
               /\ Copy(f)' => peer'[f] \in {"answered", "confirmed"}
    BY <1>2, <1>3, <1>5, <1>6, <1>7, <2>3 DEF CountInv
  <2> QED
    BY <2>5, <2>6 DEF CountInv
<1>12. PeerInv'
  <2>1. lost \in Nat
    BY DEF CallTypes
  <2>2. /\ \A f \in Forks : f # g => peer'[f] = peer[f]
        /\ peer'[g] = "confirmed" \/ (peer'[g] = "answered" /\ lost' = lost + 1)
        /\ lost > 0 => lost' > 0
    BY <1>3, <1>7, <2>1
  <2> QED
    BY <1>2, <1>5, <1>6, <1>7, <2>1, <2>2 DEF PeerInv
<1> QED
  BY <1>8, <1>9, <1>10, <1>11, <1>12

LEMMA CancelSessionStep == ForksInv /\ CancelSession => ForksInv'
<1> SUFFICES ASSUME ForksInv, CancelSession PROVE ForksInv'
  OBVIOUS
<1> USE DEF ForksInv
<1>1. PICK g : g = taken.tag
  OBVIOUS
<1>2. /\ taken \in Replies /\ taken.code = "2xx" /\ initiator = "cancel" /\ g \in Forks
      /\ session' = [session EXCEPT ![g] = "ended"] /\ peer' = [peer EXCEPT ![g] = "ended"]
      /\ taken' = Nothing
      /\ UNCHANGED <<sends, lost, responses, tsx, first, initiator, early_list, created,
                     chan, early, acks>>
  BY <1>1, UnknownPeer DEF CancelSession, Bye, tsxVars, earlyVars
<1>3. \A f \in Forks : ~Up(f) /\ ~Up(f)' /\ early[f] # "held"
  BY <1>2 DEF ShutInv, Up, CallTypes
<1>4. created = {} /\ acks = {}
  BY <1>3 DEF RegisteredInv, CallTypes
<1>5. (\A f : Copy(f)' => Copy(f)) /\ (Failing' <=> Failing)
  BY <1>2, Codes DEF Copy, Forwarded, Failing
<1>6. CallTypes'
  BY <1>2 DEF CallTypes
<1>7. ShutInv' /\ EarlyInv' /\ RefusedInv' /\ RegisteredInv' /\ CountInv'
  BY <1>2, <1>3, <1>4, <1>5, Codes DEF ShutInv, EarlyInv, Deserted, RefusedInv, RegisteredInv, CountInv, CallTypes
<1>8. PeerInv' /\ TsxInv'
  BY <1>2, <1>3, <1>5, Codes DEF PeerInv, TsxInv, CallTypes
<1> QED
  BY <1>6, <1>7, <1>8

(* After a failure there is neither a session nor an answer on its way.    *)
LEMMA FailingCall ==
    ASSUME ForksInv, Failing
    PROVE  \A f \in Forks : ~Copy(f) /\ ~Up(f) /\ f \notin created /\ f \notin acks
  BY DEF ForksInv, RefusedInv, PeerInv, RegisteredInv

LEMMA TerminateEarlyStep == ForksInv /\ TerminateEarly => ForksInv'
<1> SUFFICES ASSUME ForksInv, TerminateEarly PROVE ForksInv'
  OBVIOUS
<1> USE DEF ForksInv
<1>1. PICK g : g = Head(early_list)
  OBVIOUS
<1>2. /\ taken # Nothing /\ taken.code = "failure" /\ early_list # <<>> /\ early_list' = Tail(early_list)
      /\ IF early[g] = "held" THEN chan' = [chan EXCEPT ![g] = Append(@, "terminate")]
                              ELSE UNCHANGED chan
      /\ UNCHANGED <<peer, sends, lost, responses, tsx, first, initiator, taken, created,
                     early, acks, session>>
  BY <1>1 DEF TerminateEarly, tsxVars, peerVars
<1>3. taken = Failed /\ Failing
  BY <1>2, Codes DEF CallTypes, Failing
<1>4. /\ g \in Forks /\ early_list' \in Seq(Forks)
      /\ \A e : Has(early_list, e) <=> g = e \/ Has(early_list', e)
  BY <1>1, <1>2, HasTail DEF CallTypes
<1>5. /\ chan' \in [Forks -> Seq({"ring", "bare", "2xx", "terminate"})]
      /\ \A f \in Forks : f # g => chan'[f] = chan[f]
      /\ IF early[g] = "held" THEN Ends(chan'[g]) /\ \A e : Has(chan'[g], e) <=> Has(chan[g], e) \/ e = "terminate"
                              ELSE chan' = chan
  <2>1. PICK codes : codes = {"ring", "bare", "2xx", "terminate"}
    OBVIOUS
  <2>2. chan[g] \in Seq(codes) /\ "terminate" \in codes
    BY <1>4, <2>1 DEF CallTypes
  <2>3. PICK s : s = Append(chan[g], "terminate")
    OBVIOUS
  <2>4. s \in Seq(codes) /\ Ends(s) /\ \A e : Has(s, e) <=> Has(chan[g], e) \/ e = "terminate"
    BY <2>2, <2>3, HasAppend DEF Ends
  <2> QED
    BY <1>2, <1>4, <2>1, <2>3, <2>4 DEF CallTypes
<1>6. \A f \in Forks : ~Up(f) /\ ~Copy(f) /\ f \notin acks /\ f \notin created
  BY <1>3, FailingCall
<1>7. /\ \A f \in Forks : ~Up(f)' /\ ~Copy(f)'
      /\ Failing' /\ initiator # "done"
  <2>1. \A f \in Forks : ~Forwarded(f)'
    BY <1>2, <1>4, <1>5, <1>6 DEF Copy, Forwarded
  <2> QED
    BY <1>2, <1>3, <1>6, <2>1, Codes DEF Copy, Up, Failing, ShutInv
<1>8. CallTypes'
  BY <1>2, <1>4, <1>5 DEF CallTypes
<1>9. ShutInv' /\ RefusedInv' /\ RegisteredInv' /\ TsxInv' /\ PeerInv'
  BY <1>2, <1>3, <1>6, <1>7, <1>8, Codes DEF ShutInv, RefusedInv, RegisteredInv, TsxInv, PeerInv, CallTypes
<1>10. EarlyInv'
  BY <1>2, <1>3, <1>4, <1>5, <1>7 DEF EarlyInv, Deserted, TsxInv
<1>11. CountInv'
  BY <1>2, <1>3, <1>6, <1>7 DEF CountInv, Spent
<1> QED
  BY <1>8, <1>9, <1>10, <1>11

LEMMA FailureStep == ForksInv /\ Failure => ForksInv'
<1> SUFFICES ASSUME ForksInv, Failure PROVE ForksInv'
  OBVIOUS
<1> USE DEF ForksInv
<1>1. /\ taken # Nothing /\ taken.code = "failure" /\ early_list = <<>>
      /\ initiator' = "done" /\ taken' = Nothing /\ early_list' = <<>> /\ created' = {} /\ acks' = {}
      /\ responses' = <<>>
      /\ UNCHANGED <<peer, sends, lost, tsx, first, chan, early, session>>
  BY DEF Failure, DropInitiator, peerVars
<1>2. Failing
  BY <1>1, Codes DEF CallTypes, Failing
<1>3. \A f \in Forks : ~Copy(f) /\ ~Copy(f)' /\ ~Up(f) /\ ~Up(f)'
  <2>1. \A f \in Forks : ~Copy(f) /\ ~Up(f)
    BY <1>2, FailingCall
  <2> QED
    BY <1>1, <2>1, HasEmpty, Codes DEF Copy, Forwarded, Up
<1>4. ~Failing'
  BY <1>1, HasEmpty, Codes DEF Failing
<1>5. CallTypes'
  BY <1>1, EmptySeq DEF CallTypes
<1>6. ShutInv' /\ RefusedInv' /\ RegisteredInv' /\ TsxInv' /\ CountInv'
  BY <1>1, <1>2, <1>3, <1>4, Codes DEF ShutInv, RefusedInv, RegisteredInv, TsxInv, CountInv
<1>7. EarlyInv' /\ PeerInv'
  BY <1>1, <1>3 DEF EarlyInv, Deserted, PeerInv
<1> QED
  BY <1>5, <1>6, <1>7

(* Nothing is left of the calls of a peer that has repeated its answer as  *)
(* often as it does: each copy cost an ACK.                                *)
LEMMA AllSpent ==
    ASSUME EnoughAnswers, ForksInv, initiator = "receive", NEW f \in Forks,
           peer[f] = "answered", sends[f] = MaxSends, ~Copy(f)
    PROVE  FALSE
<1>1. /\ lost \in Nat /\ lost <= MaxLost /\ MaxLost \in Nat /\ MaxSends \in Nat
      /\ MaxLost + 1 < MaxSends /\ Spent(f) = MaxSends
  BY InitiatorAssumption DEF ForksInv, CallTypes, EnoughAnswers, Spent
<1>2. CASE Up(f)
  <2>1. Spent(f) <= lost + IF f \in created THEN 1 ELSE 0
    BY <1>2 DEF ForksInv, CountInv
  <2> QED
    BY <1>1, <2>1
<1>3. CASE ~Up(f)
  <2>1. Spent(f) = 0
    BY <1>3 DEF ForksInv, CountInv
  <2> QED
    BY <1>1, <2>1
<1> QED
  BY <1>2, <1>3

LEMMA ReceiveEndsStep == ASSUME EnoughAnswers PROVE ForksInv /\ ReceiveEnds => ForksInv'
<1> SUFFICES ASSUME ForksInv, ReceiveEnds PROVE ForksInv'
  OBVIOUS
<1> USE DEF ForksInv
<1>1. /\ initiator \in {"receive", "cancel"} /\ taken = Nothing /\ responses = <<>>
      /\ \/ /\ tsx = "Accepted" /\ ~Underway(first)
            /\ peer[first] = "answered" => sends[first] = MaxSends
         \/ tsx = "Proceeding"
      /\ initiator' = "done" /\ taken' = Nothing /\ early_list' = <<>> /\ created' = {} /\ acks' = {}
      /\ responses' = <<>> /\ tsx' = "Terminated"
      /\ UNCHANGED <<peer, sends, lost, first, chan, early, session>>
  BY DEF ReceiveEnds, DropInitiator, peerVars
<1>2. \A f \in Forks : /\ Copy(f) <=> Forwarded(f)
                       /\ (Copy(f)' <=> Copy(f)) /\ (Up(f)' <=> Up(f))
  BY <1>1, HasEmpty, Codes DEF Copy, Forwarded, Up
<1>3. ~Failing' /\ Nothing # Failed
  BY <1>1, HasEmpty, Codes DEF Failing
<1>4. CallTypes'
  BY <1>1, EmptySeq DEF CallTypes
<1>5. RefusedInv' /\ RegisteredInv' /\ TsxInv' /\ CountInv'
  BY <1>1, <1>2, <1>3 DEF RefusedInv, RegisteredInv, TsxInv, CountInv
<1>6. \A f \in Forks : early[f] = "held" => ~Has(chan[f], "terminate")
  BY <1>1 DEF EarlyInv, Deserted
<1>7. EarlyInv'
  BY <1>1, <1>2, <1>6 DEF EarlyInv, Deserted
<1>8. ASSUME NEW f \in Forks, Copy(f) PROVE f # first /\ peer[f] = "answered"
  <2>1. Forwarded(f) /\ initiator = "receive" /\ ~Up(f)
    BY <1>1, <1>2, <1>8 DEF Forwarded, ShutInv, EarlyInv, Deserted
  <2>2. peer[f] = "answered" /\ sends[f] > 0
    BY <1>8, <2>1 DEF CountInv, PeerInv
  <2>3. chan[f] # <<>>
    BY <2>1, HasEmpty DEF Forwarded
  <2>4. CASE f = first
    <3>1. tsx = "Accepted"
      BY <1>1, <2>4, Codes DEF TsxInv
    <3> QED
      BY <1>1, <2>1, <2>3, <2>4, <3>1 DEF Underway, Forwarded
  <2> QED
    BY <2>2, <2>4
<1>9. ShutInv'
  BY <1>1, <1>2, <1>8 DEF ShutInv
<1>10. ASSUME NEW f \in Forks, Up(f), f = first PROVE peer[f] = "confirmed"
  <2>1. initiator = "receive" /\ peer[f] \in {"answered", "confirmed"}
    BY <1>1, <1>10 DEF ShutInv, CountInv
  <2>2. ~Copy(f)
    BY <1>8, <1>10
  <2>3. tsx = "Accepted"
    BY <1>1, <1>10, Codes DEF TsxInv
  <2> QED
    BY <1>1, <1>10, <2>1, <2>2, <2>3, AllSpent
<1>11. PeerInv'
  BY <1>1, <1>2, <1>10 DEF PeerInv
<1> QED
  BY <1>4, <1>5, <1>7, <1>9, <1>11

-----------------------------------------------------------------------------
(* What arrives, if anybody takes it.                                      *)
LEMMA ArriveStep ==
    ASSUME ForksInv, NEW r \in Replies \cup {Failed}, Arrive(r)
    PROVE  /\ responses' \in Seq(Replies \cup {Failed})
           /\ IF Gone THEN responses' = responses
                      ELSE \A e : Has(responses', e) <=> Has(responses, e) \/ e = r
           /\ initiator = "done" => responses' = responses
  BY HasAppend DEF ForksInv, CallTypes, Arrive, Gone

LEMMA RingStep ==
    ASSUME NEW g \in Forks, NEW c \in {"ring", "bare"} PROVE ForksInv /\ Ring(g, c) => ForksInv'
<1> SUFFICES ASSUME ForksInv, Ring(g, c) PROVE ForksInv'
  OBVIOUS
<1> USE DEF ForksInv
<1>1. /\ peer[g] \in {"idle", "ringing"} /\ peer' = [peer EXCEPT ![g] = "ringing"]
      /\ UNCHANGED <<sends, lost, tsx, first, initiator, taken, early_list, created, chan,
                     early, acks, session>>
  BY DEF Ring, callVars, earlyVars
<1>2. /\ responses' \in Seq(Replies \cup {Failed})
      /\ \A e : e # Response(g, c) => (Has(responses', e) <=> Has(responses, e))
      /\ initiator = "done" => responses' = responses
  <2>1. Response(g, c) \in Replies
    BY DEF Response, Replies
  <2> QED
    BY <2>1, ArriveStep DEF Ring
<1>3. /\ \A f : Response(f, "2xx") # Response(g, c)
      /\ Failed # Response(g, c)
  BY DEF Response, Failed
<1>4. /\ \A f : Copy(f)' <=> Copy(f)
      /\ \A f : Up(f)' <=> Up(f)
      /\ \A f : Spent(f)' = Spent(f)
      /\ Failing' <=> Failing
  BY <1>1, <1>2, <1>3 DEF Copy, Forwarded, Up, Spent, Failing
<1>5. ~Failing /\ sends[g] = 0 /\ ~Up(g) /\ ~Copy(g)
  BY <1>1 DEF RefusedInv, PeerInv, CallTypes
<1>6. CallTypes'
  BY <1>1, <1>2 DEF CallTypes
<1>7. ShutInv' /\ EarlyInv' /\ RefusedInv' /\ RegisteredInv' /\ TsxInv'
  BY <1>1, <1>2, <1>4, <1>5 DEF ShutInv, EarlyInv, Deserted, RefusedInv, RegisteredInv, TsxInv
<1>8. CountInv' /\ PeerInv'
  BY <1>1, <1>4, <1>5 DEF CountInv, PeerInv, CallTypes
<1> QED
  BY <1>6, <1>7, <1>8

LEMMA NotUnderway ==
    ASSUME ForksInv, NEW g \in Forks, ~Underway(g) PROVE ~Copy(g)
<1>1. ~Has(responses, Response(g, "2xx")) /\ taken # Response(g, "2xx")
  BY DEF Underway, Has
<1>2. ~Forwarded(g)
  BY HasEmpty DEF Underway, Forwarded
<1> QED
  BY <1>1, <1>2 DEF Copy

LEMMA AnswerStep == ASSUME NEW g \in Forks PROVE ForksInv /\ Answer(g) => ForksInv'
<1> SUFFICES ASSUME ForksInv, Answer(g) PROVE ForksInv'
  OBVIOUS
<1> USE DEF ForksInv
<1>1. /\ peer[g] \in {"idle", "ringing", "answered"} /\ ~Underway(g)
      /\ peer' = [peer EXCEPT ![g] = "answered"] /\ sends' = [sends EXCEPT ![g] = @ + 1]
      /\ UNCHANGED <<lost, tsx, first, initiator, taken, early_list, created, chan, early,
                     acks, session>>
  BY DEF Answer, callVars, earlyVars
<1>2. /\ responses' \in Seq(Replies \cup {Failed})
      /\ IF Gone THEN responses' = responses
                 ELSE \A e : Has(responses', e) <=> Has(responses, e) \/ e = Response(g, "2xx")
      /\ initiator = "done" => responses' = responses
  <2>1. Response(g, "2xx") \in Replies
    BY DEF Response, Replies
  <2> QED
    BY <2>1, ArriveStep DEF Answer
<1>3. /\ \A f : f # g => Response(f, "2xx") # Response(g, "2xx")
      /\ Failed # Response(g, "2xx")
  BY DEF Response, Failed
<1>4. ~Failing /\ ~Copy(g)
  BY <1>1, NotUnderway DEF RefusedInv, CallTypes
<1>5. /\ \A f : f # g => (Copy(f)' <=> Copy(f))
      /\ \A f : Up(f)' <=> Up(f)
      /\ ~Failing' /\ (initiator = "done" => ~Copy(g)')
  BY <1>1, <1>2, <1>3, <1>4 DEF Copy, Forwarded, Up, Failing
<1>6. initiator = "receive" => Copy(g)'
  <2>1. ASSUME initiator = "receive" PROVE ~Gone
    BY <1>4, <2>1 DEF TsxInv, Failing, Gone
  <2> QED
    BY <1>2, <2>1 DEF Copy
<1>7. /\ sends' \in [Forks -> Nat] /\ sends'[g] = sends[g] + 1 /\ sends[g] \in Nat /\ sends'[g] > 0
      /\ \A f \in Forks : f # g => sends'[f] = sends[f] /\ peer'[f] = peer[f]
      /\ peer'[g] = "answered"
  BY <1>1 DEF CallTypes
<1>8. CallTypes'
  BY <1>1, <1>2, <1>7 DEF CallTypes
<1>9. ShutInv' /\ EarlyInv' /\ RefusedInv' /\ RegisteredInv' /\ TsxInv'
  BY <1>1, <1>2, <1>4, <1>5 DEF ShutInv, EarlyInv, Deserted, RefusedInv, RegisteredInv, TsxInv
<1>10. CountInv'
  <2> SUFFICES ASSUME initiator = "receive" PROVE CountInv'
    BY <1>1 DEF CountInv
  <2>1. \A f \in Forks : f # g => Spent(f)' = Spent(f)
    BY <1>5, <1>7 DEF Spent
  <2>2. Spent(g)' = Spent(g) /\ Spent(g) = sends[g]
    BY <1>4, <1>6, <1>7 DEF Spent
  <2>3. \A f \in Forks : Up(f) => peer[f] \in {"answered", "confirmed"}
    BY DEF CountInv
  <2>4. Up(g) => peer[g] = "answered"
    BY <1>1, <2>3
  <2>5. ASSUME NEW f \in Forks
        PROVE  /\ Up(f)' => peer'[f] \in {"answered", "confirmed"}
               /\ Up(f)' /\ peer'[f] = "answered" => Spent(f)' <= lost' + IF f \in created' THEN 1 ELSE 0
               /\ ~Up(f)' => Spent(f)' = 0
               /\ Copy(f)' => peer'[f] \in {"answered", "confirmed"}
    <3>1. CASE f # g
      BY <1>1, <1>5, <1>7, <2>1, <3>1 DEF CountInv
    <3>2. CASE f = g
      BY <1>1, <1>5, <1>7, <2>2, <2>4, <3>2 DEF CountInv
    <3> QED
      BY <3>1, <3>2
  <2> QED
    BY <2>5 DEF CountInv
<1>11. PeerInv'
  <2>1. ASSUME NEW f \in Forks
        PROVE  /\ peer'[f] \in {"idle", "ringing"} => sends'[f] = 0
               /\ Up(f)' \/ Copy(f)' => sends'[f] > 0
               /\ peer'[f] = "confirmed" => Up(f)'
               /\ Up(f)' => peer'[f] = "confirmed" \/ lost' > 0
               /\ initiator' = "done" /\ Up(f)' /\ f = first' => peer'[f] = "confirmed"
    <3>1. CASE f # g
      BY <1>1, <1>5, <1>7, <3>1 DEF PeerInv
    <3>2. CASE f = g
      BY <1>1, <1>5, <1>7, <3>2 DEF PeerInv
    <3> QED
      BY <3>1, <3>2
  <2> QED
    BY <2>1 DEF PeerInv
<1> QED
  BY <1>8, <1>9, <1>10, <1>11

LEMMA GiveUpStep == ASSUME EnoughAnswers, NEW g \in Forks PROVE ForksInv /\ GiveUp(g) => ForksInv'
<1> SUFFICES ASSUME ForksInv, GiveUp(g) PROVE ForksInv'
  OBVIOUS
<1> USE DEF ForksInv
<1>1. /\ peer[g] = "answered" /\ sends[g] = MaxSends /\ peer' = [peer EXCEPT ![g] = "ended"]
      /\ UNCHANGED <<sends, lost, responses, tsx, first, initiator, taken, early_list,
                     created, chan, early, acks, session>>
      /\ ~Copy(g)
  BY NotUnderway DEF GiveUp, tsxVars, callVars, earlyVars
<1>2. initiator # "receive"
  BY <1>1, AllSpent
<1>3. /\ \A f : (Copy(f)' <=> Copy(f)) /\ (Up(f)' <=> Up(f))
      /\ Failing' <=> Failing
  BY <1>1 DEF Copy, Forwarded, Up, Failing
<1>4. CallTypes'
  BY <1>1 DEF CallTypes
<1>5. ShutInv' /\ EarlyInv' /\ RefusedInv' /\ RegisteredInv' /\ TsxInv' /\ CountInv'
  BY <1>1, <1>2, <1>3 DEF ShutInv, EarlyInv, Deserted, RefusedInv, RegisteredInv, TsxInv, CountInv, CallTypes
<1>6. PeerInv'
  BY <1>1, <1>3 DEF PeerInv, CallTypes
<1> QED
  BY <1>4, <1>5, <1>6

LEMMA RefuseStep == ForksInv /\ Refuse => ForksInv'
<1> SUFFICES ASSUME ForksInv, Refuse PROVE ForksInv'
  OBVIOUS
<1> USE DEF ForksInv
<1>1. /\ \A f \in Forks : peer[f] \in {"idle", "ringing"}
      /\ peer' = [f \in Forks |-> "ended"]
      /\ UNCHANGED <<sends, lost, tsx, first, initiator, taken, early_list, created, chan,
                     early, acks, session>>
  BY DEF Refuse, callVars, earlyVars
<1>2. /\ responses' \in Seq(Replies \cup {Failed})
      /\ \A e : e # Failed => (Has(responses', e) <=> Has(responses, e))
      /\ \A e : Has(responses, e) => Has(responses', e)
      /\ initiator = "done" => responses' = responses
  BY ArriveStep DEF Refuse, Failed
<1>3. /\ \A f \in Forks : sends[f] = 0 /\ ~Up(f) /\ ~Copy(f) /\ ~Up(f)' /\ ~Copy(f)'
      /\ Failing => Failing'
  <2>1. \A f \in Forks : sends[f] = 0 /\ ~Up(f) /\ ~Copy(f)
    BY <1>1 DEF PeerInv
  <2> QED
    BY <1>1, <1>2, <2>1, Codes DEF Copy, Forwarded, Up, Failing
<1>4. CallTypes'
  BY <1>1, <1>2 DEF CallTypes
<1>5. ShutInv' /\ EarlyInv' /\ RefusedInv' /\ RegisteredInv' /\ TsxInv'
  BY <1>1, <1>2, <1>3 DEF ShutInv, EarlyInv, Deserted, RefusedInv, RegisteredInv, TsxInv, CallTypes
<1>6. PeerInv' /\ CountInv'
  BY <1>1, <1>3 DEF PeerInv, CountInv, Spent
<1> QED
  BY <1>4, <1>5, <1>6

LEMMA ProxyCancelsStep == ASSUME NEW g \in Forks PROVE ForksInv /\ ProxyCancels(g) => ForksInv'
<1> SUFFICES ASSUME ForksInv, ProxyCancels(g) PROVE ForksInv'
  OBVIOUS
<1> USE DEF ForksInv
<1>1. /\ peer[g] \in {"idle", "ringing"} /\ peer' = [peer EXCEPT ![g] = "ended"]
      /\ UNCHANGED <<sends, lost, responses, tsx, first, initiator, taken, early_list,
                     created, chan, early, acks, session>>
  BY DEF ProxyCancels, tsxVars, callVars, earlyVars
<1>2. /\ \A f : (Copy(f)' <=> Copy(f)) /\ (Up(f)' <=> Up(f)) /\ Spent(f)' = Spent(f)
      /\ Failing' <=> Failing
  BY <1>1 DEF Copy, Forwarded, Up, Failing, Spent
<1>3. sends[g] = 0 /\ ~Up(g) /\ ~Copy(g)
  BY <1>1 DEF PeerInv
<1>4. CallTypes'
  BY <1>1 DEF CallTypes
<1>5. ShutInv' /\ EarlyInv' /\ RefusedInv' /\ RegisteredInv' /\ TsxInv'
  BY <1>1, <1>2 DEF ShutInv, EarlyInv, Deserted, RefusedInv, RegisteredInv, TsxInv, CallTypes
<1>6. \A f \in Forks : f # g => peer'[f] = peer[f]
  BY <1>1
<1>7. CountInv'
  BY <1>1, <1>2, <1>3, <1>6 DEF CountInv
<1>8. PeerInv'
  BY <1>1, <1>2, <1>3, <1>6 DEF PeerInv, CallTypes
<1> QED
  BY <1>4, <1>5, <1>7, <1>8

LEMMA CancelStep == ASSUME EnoughAnswers PROVE ForksInv /\ Cancel => ForksInv'
<1> SUFFICES ASSUME ForksInv, Cancel PROVE ForksInv'
  OBVIOUS
<1> USE DEF ForksInv
<1>1. /\ initiator = "receive" /\ initiator' = "cancel" /\ \A f \in Forks : session[f] = None
      /\ UNCHANGED <<peer, sends, lost, responses, tsx, first, taken, early_list, created,
                     chan, acks, session>>
  BY DEF Cancel, tsxVars, peerVars
<1>2. /\ early' \in [Forks -> {"unborn", "held", "gone", "panicked"}]
      /\ \A f \in Forks : early'[f] # "held" /\ (early'[f] = "panicked" => early[f] = "panicked")
  BY DEF EnoughAnswers, Cancel, CallTypes
<1>3. /\ \A f \in Forks : ~Up(f) /\ ~Up(f)' /\ (Copy(f)' => Copy(f))
      /\ Failing' <=> Failing
  BY <1>1, <1>2 DEF Up, Copy, Forwarded, Failing, None
<1>4. created = {} /\ acks = {}
  BY <1>3 DEF RegisteredInv, CallTypes
<1>5. CallTypes'
  BY <1>1, <1>2 DEF CallTypes
<1>6. ShutInv' /\ EarlyInv' /\ RefusedInv' /\ RegisteredInv' /\ TsxInv' /\ CountInv'
  BY <1>1, <1>2, <1>3, <1>4 DEF ShutInv, EarlyInv, Deserted, RefusedInv, RegisteredInv, TsxInv, CountInv
<1>7. PeerInv'
  BY <1>1, <1>3 DEF PeerInv
<1> QED
  BY <1>5, <1>6, <1>7

-----------------------------------------------------------------------------
LEMMA EarlyProvisionalStep ==
    ASSUME NEW g \in Forks PROVE ForksInv /\ EarlyProvisional(g) => ForksInv'
<1> SUFFICES ASSUME ForksInv, EarlyProvisional(g) PROVE ForksInv'
  OBVIOUS
<1> USE DEF ForksInv
<1>1. /\ early[g] = "held" /\ chan[g] # <<>> /\ Head(chan[g]) \in {"ring", "bare"}
      /\ chan' = [chan EXCEPT ![g] = Tail(@)]
      /\ UNCHANGED <<peer, sends, lost, responses, tsx, first, initiator, taken,
                     early_list, created, early, acks, session>>
  BY DEF EarlyProvisional, tsxVars, peerVars, callVars
<1>2. PICK codes : codes = {"ring", "bare", "2xx", "terminate"}
  OBVIOUS
<1>3. chan[g] \in Seq(codes)
  BY <1>2 DEF CallTypes
<1>4. /\ Tail(chan[g]) \in Seq(codes)
      /\ \A e \in {"2xx", "terminate"} : Has(chan[g], e) <=> Has(Tail(chan[g]), e)
      /\ Ends(chan[g]) => Ends(Tail(chan[g]))
  BY <1>1, <1>3, HasTail
<1>5. /\ chan' \in [Forks -> Seq({"ring", "bare", "2xx", "terminate"})]
      /\ \A f \in Forks : f # g => chan'[f] = chan[f]
      /\ Has(chan'[g], "2xx") <=> Has(chan[g], "2xx")
      /\ Has(chan'[g], "terminate") <=> Has(chan[g], "terminate")
      /\ Ends(chan[g]) => Ends(chan'[g])
  BY <1>1, <1>2, <1>4 DEF CallTypes
<1>6. \A f \in Forks : Copy(f)' <=> Copy(f)
  <2> TAKE f \in Forks
  <2>1. Has(chan'[f], "2xx") <=> Has(chan[f], "2xx")
    BY <1>5
  <2> QED
    BY <1>1, <2>1 DEF Copy, Forwarded
<1>7. /\ \A f \in Forks : (Up(f)' <=> Up(f)) /\ Spent(f)' = Spent(f)
      /\ Failing' <=> Failing
  BY <1>1, <1>6 DEF Up, Spent, Failing
<1>8. CallTypes'
  BY <1>1, <1>5 DEF CallTypes
<1>9. ShutInv' /\ RefusedInv' /\ RegisteredInv' /\ TsxInv' /\ CountInv'
  BY <1>1, <1>6, <1>7 DEF ShutInv, RefusedInv, RegisteredInv, TsxInv, CountInv, CallTypes
<1>10. EarlyInv'
  BY <1>1, <1>5, <1>7 DEF EarlyInv, Deserted
<1>11. PeerInv'
  BY <1>1, <1>6, <1>7 DEF PeerInv
<1> QED
  BY <1>8, <1>9, <1>10, <1>11

LEMMA EarlySuccessStep ==
    ASSUME NEW g \in Forks PROVE ForksInv /\ EarlySuccess(g) => ForksInv'
<1> SUFFICES ASSUME ForksInv, EarlySuccess(g) PROVE ForksInv'
  OBVIOUS
<1> USE DEF ForksInv
<1>1. /\ early[g] = "held" /\ chan[g] # <<>> /\ Head(chan[g]) = "2xx" /\ Acknowledge(g)
      /\ session' = [session EXCEPT ![g] = "up"]
      /\ chan' = [chan EXCEPT ![g] = <<>>] /\ early' = [early EXCEPT ![g] = "gone"]
      /\ UNCHANGED <<sends, responses, tsx, first, initiator, taken, early_list, created>>
  BY DEF EarlySuccess, tsxVars, callVars
<1>2. /\ peer' \in [Forks -> {"idle", "ringing", "answered", "confirmed", "ended"}]
      /\ lost' \in 0 .. MaxLost /\ \A f \in Forks : f # g => peer'[f] = peer[f]
      /\ \/ lost' = lost /\ peer'[g] = IF peer[g] = "answered" THEN "confirmed" ELSE peer[g]
         \/ lost' = lost + 1 /\ peer' = peer
  BY <1>1, AcknowledgeStep
<1>3. /\ Copy(g) /\ ~Up(g) /\ ~Failing /\ tsx # "Completed"
      /\ peer[g] = "answered" /\ sends[g] > 0
      /\ \/ initiator = "receive" /\ Has(early_list, g) /\ Spent(g) = 0
         \/ initiator = "done" /\ g # first
  <2>1. PICK codes : codes = {"ring", "bare", "2xx", "terminate"}
    OBVIOUS
  <2>2. chan[g] \in Seq(codes)
    BY <2>1 DEF CallTypes
  <2>3. Has(chan[g], "2xx")
    BY <1>1, <2>2, HasTail
  <2>4. Copy(g)
    BY <1>1, <2>3 DEF Copy, Forwarded
  <2>5. ~Up(g) /\ initiator \in {"receive", "done"} /\ sends[g] > 0
    BY <1>1, <2>4 DEF EarlyInv, ShutInv, CallTypes, PeerInv
  <2>6. ~Failing /\ tsx # "Completed"
    BY <2>5 DEF RefusedInv
  <2>7. Ends(chan[g]) => Has(chan[g], "terminate")
    BY <2>2 DEF Ends, Has
  <2>8. CASE initiator = "receive"
    <3>1. Has(early_list, g)
      BY <1>1, <2>6, <2>7, <2>8 DEF EarlyInv, Deserted
    <3>2. peer[g] = "answered" /\ Spent(g) = 0
      BY <2>4, <2>5, <2>8 DEF CountInv, PeerInv
    <3> QED
      BY <2>4, <2>5, <2>6, <2>8, <3>1, <3>2
  <2>9. CASE initiator = "done"
    BY <2>4, <2>5, <2>6, <2>9 DEF ShutInv
  <2> QED
    BY <2>5, <2>8, <2>9
<1>4. acks' = IF initiator = "done" THEN acks ELSE acks \cup {g}
  BY DEF EarlySuccess
<1>5. /\ chan' \in [Forks -> Seq({"ring", "bare", "2xx", "terminate"})]
      /\ early' \in [Forks -> {"unborn", "held", "gone", "panicked"}]
      /\ \A f \in Forks : f # g => chan'[f] = chan[f] /\ early'[f] = early[f] /\ (Up(f)' <=> Up(f))
      /\ early'[g] = "gone" /\ Up(g)'
  BY <1>1, EmptySeq DEF CallTypes, Up
<1>6. /\ \A f \in Forks : (f # g => (Copy(f)' <=> Copy(f))) /\ (Copy(f)' => Copy(f))
      /\ initiator = "done" => ~Copy(g)'
      /\ ~Failing'
  <2>1. initiator = "done" => ~Copy(g)'
    BY <1>1, <1>5, HasEmpty, Codes DEF ShutInv, Copy, Forwarded
  <2> QED
    BY <1>1, <1>3, <1>5, <2>1 DEF Copy, Forwarded, Failing
<1>7. CallTypes'
  BY <1>1, <1>2, <1>4, <1>5 DEF CallTypes
<1>8. ShutInv' /\ RefusedInv' /\ TsxInv'
  <2>1. ShutInv'
    BY <1>1, <1>2, <1>3, <1>4, <1>6 DEF ShutInv
  <2> QED
    BY <1>1, <1>3, <1>6, <2>1 DEF RefusedInv, TsxInv
<1>9. EarlyInv'
  <2> SUFFICES ASSUME NEW f \in Forks, f # g
               PROVE  /\ early'[f] = "held" =>
                            /\ ~Up(f)'
                            /\ ~Has(early_list, f)' => Ends(chan[f])' \/ Deserted'
                            /\ Has(chan[f], "terminate")' => tsx' = "Completed"
                      /\ early'[f] = "panicked" => ~Up(f)' /\ Deserted'
    BY <1>5 DEF EarlyInv
  <2> QED
    BY <1>1, <1>5 DEF EarlyInv, Deserted
<1>10. RegisteredInv'
  BY <1>1, <1>3, <1>4, <1>5, <1>6 DEF RegisteredInv, CallTypes
<1>11. CountInv'
  <2> SUFFICES ASSUME initiator = "receive" PROVE CountInv'
    BY <1>1 DEF CountInv
  <2>1. lost \in Nat /\ lost' \in Nat /\ lost <= lost'
    BY <1>2 DEF CallTypes
  <2>2. \A f \in Forks : Spent(f) \in Int /\ Spent(f)' \in Int
    BY <1>1 DEF CallTypes, Spent
  <2>3. \A f \in Forks : f # g => Spent(f)' = Spent(f)
    BY <1>1, <1>6 DEF Spent
  <2>4. Spent(g)' <= 1
    BY <1>1, <1>3 DEF Spent, CallTypes
  <2>5. ASSUME NEW f \in Forks, Up(f)', peer'[f] = "answered"
        PROVE  Spent(f)' <= lost' + IF f \in created' THEN 1 ELSE 0
    <3>1. CASE f # g
      <4>1. Spent(f) <= lost + IF f \in created THEN 1 ELSE 0
        BY <1>2, <1>5, <2>5, <3>1 DEF CountInv
      <4> QED
        BY <1>1, <2>1, <2>2, <2>3, <3>1, <4>1
    <3>2. CASE f = g
      <4>1. lost' = lost + 1
        BY <1>2, <1>3, <2>5, <3>2
      <4> QED
        BY <2>1, <2>2, <2>4, <3>2, <4>1
    <3> QED
      BY <3>1, <3>2
  <2>6. ASSUME NEW f \in Forks
        PROVE  /\ Up(f)' => peer'[f] \in {"answered", "confirmed"}
               /\ ~Up(f)' => Spent(f)' = 0
               /\ Copy(f)' => peer'[f] \in {"answered", "confirmed"}
    BY <1>2, <1>3, <1>5, <1>6, <2>3 DEF CountInv
  <2> QED
    BY <2>5, <2>6 DEF CountInv
<1>12. PeerInv'
  <2>1. lost \in Nat
    BY DEF CallTypes
  <2>2. /\ \A f \in Forks : f # g => peer'[f] = peer[f]
        /\ peer'[g] = "confirmed" \/ (peer'[g] = "answered" /\ lost' = lost + 1)
        /\ lost > 0 => lost' > 0
    BY <1>2, <1>3, <2>1
  <2> QED
    BY <1>1, <1>3, <1>5, <1>6, <2>1, <2>2 DEF PeerInv
<1> QED
  BY <1>7, <1>8, <1>9, <1>10, <1>11, <1>12

LEMMA EarlyTerminatedStep ==
    ASSUME NEW g \in Forks PROVE ForksInv /\ EarlyTerminated(g) => ForksInv'
<1> SUFFICES ASSUME ForksInv, EarlyTerminated(g) PROVE ForksInv'
  OBVIOUS
<1> USE DEF ForksInv
<1>1. /\ early[g] = "held" /\ chan[g] # <<>> /\ Head(chan[g]) = "terminate"
      /\ chan' = [chan EXCEPT ![g] = <<>>] /\ early' = [early EXCEPT ![g] = "gone"]
      /\ UNCHANGED <<peer, sends, lost, responses, tsx, first, initiator, taken,
                     early_list, created, acks, session>>
  BY DEF EarlyTerminated, tsxVars, peerVars, callVars
<1>2. /\ chan' \in [Forks -> Seq({"ring", "bare", "2xx", "terminate"})]
      /\ early' \in [Forks -> {"unborn", "held", "gone", "panicked"}]
      /\ \A f \in Forks : f # g => chan'[f] = chan[f] /\ early'[f] = early[f]
      /\ early'[g] = "gone"
  BY <1>1, EmptySeq DEF CallTypes
<1>3. tsx = "Completed"
  <2>1. PICK codes : codes = {"ring", "bare", "2xx", "terminate"}
    OBVIOUS
  <2>2. chan[g] \in Seq(codes)
    BY <2>1 DEF CallTypes
  <2>3. Has(chan[g], "terminate")
    BY <1>1, <2>2, HasTail
  <2> QED
    BY <1>1, <2>3 DEF EarlyInv
<1>4. \A f \in Forks : ~Copy(f)
  BY <1>3 DEF RefusedInv, PeerInv
<1>5. /\ \A f \in Forks : ~Copy(f)' /\ (Up(f)' <=> Up(f)) /\ Spent(f)' = Spent(f)
      /\ Failing' <=> Failing
  BY <1>1, <1>2, <1>4 DEF Copy, Forwarded, Up, Failing, Spent
<1>6. CallTypes'
  BY <1>1, <1>2 DEF CallTypes
<1>7. ShutInv' /\ EarlyInv' /\ RefusedInv' /\ RegisteredInv' /\ TsxInv'
  <2>1. ShutInv'
    BY <1>1, <1>2, <1>5 DEF ShutInv
  <2>2. EarlyInv'
    BY <1>1, <1>2, <1>5 DEF EarlyInv, Deserted
  <2>3. RefusedInv' /\ TsxInv'
    BY <1>1, <1>5 DEF RefusedInv, TsxInv
  <2>4. RegisteredInv'
    <3>1. ~(initiator = "receive" /\ ~Failing)
      BY <1>3 DEF TsxInv, Failing
    <3>2. created' = created /\ acks' = acks /\ early_list' = early_list /\ initiator' = initiator
      BY <1>1
    <3>3. \A f \in created \cup acks : f \in Forks /\ Up(f)
      BY DEF RegisteredInv, CallTypes
    <3>4. initiator = "receive" => \A f \in Forks :
             (Up(f) => f \in created \cup acks) /\ (f \in acks => Has(early_list, f))
      BY DEF RegisteredInv
    <3>5. \A f \in Forks : Has(early_list, f)' <=> Has(early_list, f)
      BY <3>2 DEF Has
    <3> QED
      BY <1>5, <3>1, <3>2, <3>3, <3>4, <3>5 DEF RegisteredInv
  <2> QED
    BY <2>1, <2>2, <2>3, <2>4
<1>8. CountInv' /\ PeerInv'
  BY <1>1, <1>4, <1>5 DEF CountInv, PeerInv
<1> QED
  BY <1>6, <1>7, <1>8

(* A panic of an Early's task changes nothing for anybody else.            *)
LEMMA EarlyPanicsStep ==
    ASSUME NEW g \in Forks PROVE ForksInv /\ EarlyPanics(g) => ForksInv'
<1> SUFFICES ASSUME ForksInv, EarlyPanics(g) PROVE ForksInv'
  OBVIOUS
<1> USE DEF ForksInv
<1>1. /\ early[g] = "held" /\ chan[g] = <<>> /\ ~Has(early_list, g)
      /\ early' = [early EXCEPT ![g] = "panicked"]
      /\ UNCHANGED <<peer, sends, lost, responses, tsx, first, initiator, taken, early_list,
                     created, chan, acks, session>>
  BY DEF EarlyPanics, Orphaned, InEarlyList, Has, tsxVars, peerVars, callVars
<1>2. /\ early' \in [Forks -> {"unborn", "held", "gone", "panicked"}] /\ early'[g] = "panicked"
      /\ \A f \in Forks : f # g => early'[f] = early[f]
  BY <1>1 DEF CallTypes
<1>3. ~Up(g) /\ Deserted
  BY <1>1 DEF EarlyInv, Deserted, Ends
<1>4. ~Has(chan[g], "2xx")
  BY <1>1, HasEmpty
<1>5. /\ \A f \in Forks : (Copy(f)' <=> Copy(f)) /\ (Up(f)' <=> Up(f)) /\ Spent(f)' = Spent(f)
      /\ (Failing' <=> Failing) /\ (Deserted' <=> Deserted)
  BY <1>1, <1>2, <1>4 DEF Copy, Forwarded, Up, Spent, Failing, Deserted
<1>6. CallTypes'
  BY <1>1, <1>2 DEF CallTypes
<1>7. ShutInv' /\ RefusedInv' /\ TsxInv' /\ CountInv' /\ PeerInv'
  BY <1>1, <1>2, <1>5 DEF ShutInv, RefusedInv, TsxInv, CountInv, PeerInv
<1>8. EarlyInv'
  <2> SUFFICES ASSUME NEW f \in Forks
               PROVE  /\ early'[f] = "held" =>
                            /\ ~Up(f)'
                            /\ ~Has(early_list, f)' => Ends(chan[f])' \/ Deserted'
                            /\ Has(chan[f], "terminate")' => tsx' = "Completed"
                      /\ early'[f] = "panicked" => ~Up(f)' /\ Deserted'
    BY DEF EarlyInv
  <2>1. CASE f = g
    BY <1>2, <1>3, <1>5, <2>1
  <2>2. CASE f # g
    BY <1>1, <1>2, <1>5, <2>2 DEF EarlyInv
  <2> QED
    BY <2>1, <2>2
<1>9. RegisteredInv'
  BY <1>1, <1>3, <1>5 DEF RegisteredInv, Deserted, CallTypes
<1> QED
  BY <1>6, <1>7, <1>8, <1>9

-----------------------------------------------------------------------------
LEMMA TalkStep == ForksInv /\ Talk => ForksInv'
<1> SUFFICES ASSUME ForksInv, Talk PROVE ForksInv'
  OBVIOUS
<1> USE DEF ForksInv
<1>1. PICK g \in Forks : initiator = "done"
  BY DEF Talk, Over
<1>2. /\ peer' = [f \in Forks |-> "ended"] /\ session' = [f \in Forks |-> None]
      /\ sends' = [f \in Forks |-> 0] /\ lost' = 0 /\ tsx' = "Terminated" /\ first' = None
      /\ chan' = [f \in Forks |-> <<>>] /\ early' = [f \in Forks |-> "gone"]
      /\ UNCHANGED <<responses, initiator, taken, early_list, created, acks>>
  BY DEF Talk, callVars
<1>3. responses = <<>> /\ taken = Nothing /\ created = {} /\ acks = {} /\ early_list = <<>>
  BY <1>1 DEF ShutInv
<1>4. /\ \A f \in Forks : ~Copy(f)' /\ ~Up(f)' /\ early'[f] = "gone"
      /\ ~Failing'
  BY <1>2, <1>3, HasEmpty, Codes DEF Copy, Forwarded, Up, Failing, None
<1>5. CallTypes'
  BY <1>2, EmptySeq, InitiatorAssumption DEF CallTypes
<1>6. ShutInv' /\ EarlyInv' /\ RefusedInv' /\ RegisteredInv' /\ TsxInv' /\ CountInv'
  BY <1>1, <1>2, <1>3, <1>4, Codes
  DEF ShutInv, EarlyInv, Deserted, RefusedInv, RegisteredInv, TsxInv, CountInv
<1>7. PeerInv'
  BY <1>2, <1>4 DEF PeerInv
<1> QED
  BY <1>5, <1>6, <1>7

LEMMA SameInitiator == ForksInv /\ UNCHANGED initiatorVars => ForksInv'
<1> SUFFICES ASSUME ForksInv, UNCHANGED initiatorVars PROVE ForksInv'
  OBVIOUS
<1>1. UNCHANGED <<peer, sends, lost, responses, tsx, first, initiator, taken, early_list, created,
                  chan, early, acks, session>>
  BY DEF initiatorVars, peerVars, tsxVars, callVars, earlyVars
<1>2. /\ \A f : (Copy(f)' <=> Copy(f)) /\ (Up(f)' <=> Up(f)) /\ Spent(f)' = Spent(f)
      /\ Failing' <=> Failing
  BY <1>1 DEF Copy, Forwarded, Up, Spent, Failing
<1>3. CallTypes' /\ ShutInv' /\ EarlyInv' /\ RefusedInv'
  BY <1>1, <1>2 DEF ForksInv, CallTypes, ShutInv, EarlyInv, Deserted, RefusedInv
<1>4. RegisteredInv' /\ CountInv' /\ PeerInv' /\ TsxInv'
  BY <1>1, <1>2 DEF ForksInv, RegisteredInv, CountInv, PeerInv, TsxInv
<1> QED
  BY <1>3, <1>4 DEF ForksInv

LEMMA ForksInit == Init => ForksInv
<1> SUFFICES ASSUME InitiatorInit PROVE ForksInv
  BY DEF Init
<1>1. /\ \A f \in Forks : /\ ~Copy(f) /\ ~Up(f) /\ Spent(f) = 0 /\ early[f] = "unborn"
                          /\ peer[f] = "idle" /\ sends[f] = 0
      /\ ~Failing
  <2>1. \A f \in Forks : early[f] = "unborn" /\ peer[f] = "idle" /\ sends[f] = 0 /\ session[f] = "none"
    BY DEF InitiatorInit, None
  <2>2. responses = <<>> /\ taken = Nothing
    BY DEF InitiatorInit
  <2>3. \A f \in Forks : ~Copy(f)
    BY <2>1, <2>2, HasEmpty, Codes DEF Copy, Forwarded
  <2>4. ~Failing
    BY <2>2, HasEmpty, Codes DEF Failing
  <2> QED
    BY <2>1, <2>3, <2>4 DEF Spent, Up
<1>2. CallTypes
  BY EmptySeq, InitiatorAssumption DEF InitiatorInit, CallTypes
<1>3. /\ initiator = "receive" /\ created = {} /\ acks = {} /\ tsx = "Proceeding" /\ first = None
      /\ taken = Nothing /\ \A f \in Forks : ~Has(early_list, f)
  BY HasEmpty DEF InitiatorInit
<1>4. ShutInv /\ EarlyInv /\ RefusedInv /\ RegisteredInv /\ TsxInv
  BY <1>1, <1>3, Codes DEF ShutInv, EarlyInv, Deserted, RefusedInv, RegisteredInv, TsxInv
<1>5. CountInv /\ PeerInv
  BY <1>1, <1>3 DEF CountInv, PeerInv
<1> QED
  BY <1>2, <1>4, <1>5 DEF ForksInv

LEMMA ForksStep == ASSUME EnoughAnswers PROVE ForksInv /\ [Next]_vars => ForksInv'
<1> SUFFICES ASSUME ForksInv, [Next]_vars PROVE ForksInv'
  OBVIOUS
<1>1. CASE Receive
  BY <1>1, TsxReceiveStep, RetransmitAckStep, ForwardStep, ProvisionalStep, CreateEarlyDialogStep,
     CancelEarlyStep, CreateSessionStep, CancelSessionStep, TerminateEarlyStep, FailureStep,
     ReceiveEndsStep DEF Receive
<1>2. CASE Network
  BY <1>2, RefuseStep, RingStep, AnswerStep, GiveUpStep, ProxyCancelsStep DEF Network
<1>3. CASE Cancel
  BY <1>3, CancelStep
<1>4. CASE \E f \in Forks : EarlyReceive(f)
  BY <1>4, EarlyProvisionalStep, EarlySuccessStep, EarlyTerminatedStep, EarlyPanicsStep
  DEF EarlyReceive
<1>5. CASE Talk
  BY <1>5, TalkStep
<1>6. CASE UNCHANGED initiatorVars
  BY <1>6, SameInitiator
<1> QED
  BY <1>1, <1>2, <1>3, <1>4, <1>5, <1>6 DEF Next, Calling, Talking, InitiatorNext, vars

(* The bookkeeping of the calling side: an acknowledged session is         *)
(* registered or will be before the next copy of its answer is looked at,  *)
(* and every copy a peer has sent was either of use or cost an ACK.        *)
THEOREM ForksInvariant == ASSUME EnoughAnswers PROVE Spec => []ForksInv
<1>1. Init => ForksInv
  BY ForksInit
<1>2. ForksInv /\ [Next]_vars => ForksInv'
  BY ForksStep
<1> QED
  BY <1>1, <1>2, PTL DEF Spec

(* Both ends agree on every fork once InviteInitiator::receive is done,    *)
(* whichever ACKs are lost and however Early::receive, set_acknowledge and *)
(* cancel interleave, for any number of peers and any channel capacity.    *)
(* It takes peers that are ready to send their answer two times more than  *)
(* ACKs are lost (with one time more it is false), and an application that *)
(* drops its Earlies with the call it cancels.                             *)
THEOREM ForksDoAgree == ASSUME EnoughAnswers PROVE Spec => []ForksAgree
<1>1. ForksInv => ForksAgree
  <2> SUFFICES ASSUME ForksInv, NEW f \in Forks
               PROVE  /\ Orphaned(f) \/ early[f] = "panicked" => tsx = "Terminated" /\ session[f] # "up"
                      /\ Over(f) /\ peer[f] = "confirmed" => session[f] = "up"
                      /\ Over(f) /\ session[f] = "up" => peer[f] = "confirmed" \/ (f # first /\ lost > 0)
    BY DEF ForksAgree
  <2>1. Orphaned(f) \/ early[f] = "panicked" => tsx = "Terminated" /\ session[f] # "up"
    BY DEF Orphaned, InEarlyList, ForksInv, EarlyInv, Deserted, Ends, Has, Up
  <2>2. Over(f) /\ peer[f] = "confirmed" => session[f] = "up"
    BY DEF ForksInv, PeerInv, Up
  <2>3. Over(f) /\ session[f] = "up" => peer[f] = "confirmed" \/ (f # first /\ lost > 0)
    BY DEF Over, ForksInv, PeerInv, Up
  <2> QED
    BY <2>1, <2>2, <2>3
<1> QED
  BY <1>1, ForksInvariant, PTL

-----------------------------------------------------------------------------
(* The session timer.  The peer's dialog layer accepts a gap in the CSeqs, *)
(* an exchange of request, answer and ACK fits into a transaction's time,  *)
(* and what is left of the interval after the refresher's share, or after  *)
(* the time its refresh keeps it busy, is enough for the next refresh and  *)
(* its answer to arrive.                                                   *)
TimersFit ==
    /\ ~Strict /\ Patience > 2 * MaxTransit
    /\ \A i \in Intervals, m \in MinSes :
          /\ Max({i, m}) > (Max({i, m}) \div 2) + 2 * MaxTransit
          /\ Max({i, m}) > Patience + 2 * MaxTransit

Left(s) == doing[s] \in {"dead", "ended", "terminate"}

Doings == {"setup", "drive", "refresh", "linger", "answer", "terminate", "ended", "dead"}

TimersOf(r, p) ==
    /\ timer \in [Sides -> [refresher : Sides, real : Nat, left : Nat]] /\ wait \in [Sides -> Nat]
    /\ \A s \in Sides : timer[s].refresher = r
    /\ timer[r].left <= timer[r].real
    /\ timer[p].real > timer[r].real + 2 * MaxTransit /\ timer[p].real > Patience + 2 * MaxTransit

OnWire(kind, to, g) == wire = {[kind |-> kind, to |-> to, age |-> g]}

(* The other end's timer outlasts the refresher's wait and the transit of  *)
(* its request.                                                            *)
Outlasts(p, n) == timer[p].left > n + MaxTransit

(* Where a refresh stands: none is under way, the re-INVITE is, has been   *)
(* received, has been answered, has been acknowledged.                     *)
Calm(r, p) ==
    /\ doing[r] \in {"drive", "linger"} /\ doing[p] = "drive" /\ wire = {} /\ events[p] = <<>>
    /\ Outlasts(p, timer[r].left) /\ (doing[r] = "linger" => Outlasts(p, wait[r]))
Asked(r, p, g) ==
    /\ doing[r] = "refresh" /\ doing[p] = "drive" /\ OnWire("invite", p, g) /\ events[p] = <<>>
    /\ timer[p].left + g > MaxTransit /\ wait[r] + g >= Patience
Heard(r, p) ==
    /\ doing[r] = "refresh" /\ doing[p] = "drive" /\ wire = {} /\ events[p] = <<"invite">>
    /\ timer[p].left > 0 /\ wait[r] + MaxTransit >= Patience
Replied(r, p, g) ==
    /\ doing[r] = "refresh" /\ doing[p] = "answer" /\ OnWire("ok", r, g) /\ events[p] = <<>>
    /\ timer[p].left + g >= timer[p].real
    /\ wait[r] + g + MaxTransit >= Patience /\ wait[p] + g >= Patience
Acked(r, p, g) ==
    /\ doing[r] = "linger" /\ doing[p] = "answer" /\ OnWire("ack", p, g) /\ events[p] = <<>>
    /\ Outlasts(p, timer[r].left) /\ Outlasts(p, wait[r])
    /\ wait[r] + g >= Patience /\ wait[p] + g + MaxTransit >= Patience

Refreshing(r, p) ==
    /\ TimersOf(r, p) /\ events \in [Sides -> Seq({"invite", "bye"})] /\ events[r] = <<>>
    /\ Calm(r, p) \/ Heard(r, p)
         \/ \E g \in 0 .. MaxTransit : Asked(r, p, g) \/ Replied(r, p, g) \/ Acked(r, p, g)

SetUp ==
    /\ \A s \in Sides : doing[s] = "setup"
    /\ wire = {} /\ wait = [s \in Sides |-> 0] /\ events = [s \in Sides |-> <<>>] /\ expired = {}

RefreshInv ==
    /\ doing \in [Sides -> Doings] /\ expired \subseteq Sides
    /\ \A s \in expired : Left(Peer(s))
    /\ \/ SetUp
       \/ \E s \in Sides : Left(s)
       \/ \E r \in Sides : Refreshing(r, Peer(r))

LEMMA Peers ==
    /\ Peer("uac") = "uas" /\ Peer("uas") = "uac"
    /\ \A s \in Sides : Peer(s) \in Sides /\ Peer(s) # s /\ Peer(Peer(s)) = s
    /\ \A s, t \in Sides : t = s \/ t = Peer(s)
<1>1. Peer("uac") = "uas"
  BY DEF Peer, Sides
<1>2. Peer("uas") = "uac"
  BY DEF Peer, Sides
<1> QED
  BY <1>1, <1>2 DEF Sides

LEMMA TransitNat == MaxTransit \in Nat /\ Patience \in Nat
  BY TimerAssumption

(* Whoever has left the session does not come back.                        *)
LEMMA LeftStays ==
    ASSUME doing \in [Sides -> Doings], TimerNext
    PROVE  doing' \in [Sides -> Doings] /\ \A s \in Sides : Left(s) => Left(s)'
<1>1. CASE \E s \in Sides : RefreshNeeded(s) \/ Expire(s) \/ ReInviteReceived(s) \/ ByeReceived(s)
  BY <1>1 DEF RefreshNeeded, Expire, ReInviteReceived, ByeReceived, Driven, Fires, Does, Left, Doings
<1>2. CASE \E s \in Sides : WaitEnds(s) \/ Terminate(s) \/ Crash(s)
  BY <1>2 DEF WaitEnds, Terminate, Crash, Does, Left, Doings
<1>3. CASE Deliver
  BY <1>3 DEF Deliver, ReceiveRequest, ReceiveOk, ReceiveAck, ReceiveOver, Ignore, Does, Left, Doings
<1>4. CASE Tick
  BY <1>4 DEF Tick, Left
<1> QED
  BY <1>1, <1>2, <1>3, <1>4 DEF TimerNext, Drive

LEMMA ResetTimer ==
    ASSUME NEW r \in Sides, NEW p \in Sides, TimersOf(r, p), NEW s \in Sides, Reset(s)
    PROVE  /\ timer' \in [Sides -> [refresher : Sides, real : Nat, left : Nat]]
           /\ \A t \in Sides : timer'[t].refresher = r /\ timer'[t].real = timer[t].real
           /\ \A t \in Sides : timer'[t].left = IF t = s THEN timer[t].real ELSE timer[t].left
  BY DEF Reset, TimersOf

LEMMA TickTimers ==
    ASSUME NEW r \in Sides, NEW p \in Sides, TimersOf(r, p), Tick
    PROVE  /\ timer' \in [Sides -> [refresher : Sides, real : Nat, left : Nat]]
           /\ \A t \in Sides : timer'[t].refresher = r /\ timer'[t].real = timer[t].real
           /\ \A t \in Sides : timer'[t].left = Less(timer[t].left)
           /\ wait' \in [Sides -> Nat] /\ \A t \in Sides : wait'[t] = Less(wait[t])
           /\ TimersOf(r, p)'
<1>1. /\ timer' = [s \in Sides |-> [timer[s] EXCEPT !.left = Less(@)]]
      /\ wait' = [s \in Sides |-> Less(wait[s])]
  BY DEF Tick
<1>2. \A n \in Nat : Less(n) \in Nat /\ Less(n) <= n
  BY DEF Less
<1>3. /\ timer \in [Sides -> [refresher : Sides, real : Nat, left : Nat]] /\ wait \in [Sides -> Nat]
      /\ \A s \in Sides : timer[s].refresher = r
  BY DEF TimersOf
<1>4. /\ timer' \in [Sides -> [refresher : Sides, real : Nat, left : Nat]]
      /\ \A t \in Sides : timer'[t].refresher = r /\ timer'[t].real = timer[t].real
      /\ \A t \in Sides : timer'[t].left = Less(timer[t].left)
      /\ wait' \in [Sides -> Nat] /\ \A t \in Sides : wait'[t] = Less(wait[t])
  BY <1>1, <1>2, <1>3
<1>5. timer'[r].left <= timer'[r].real
  <2>1. timer[r].left \in Nat /\ timer[r].real \in Nat /\ timer[r].left <= timer[r].real
    BY <1>3 DEF TimersOf
  <2>2. \A x \in Nat, y \in Nat : x <= y => Less(x) <= y
    BY DEF Less
  <2> QED
    BY <1>4, <2>1, <2>2
<1>6. TimersOf(r, p)'
  BY <1>4, <1>5 DEF TimersOf
<1> QED
  BY <1>4, <1>6

(* Either end may end or lose the session at any time.                     *)
LEMMA LeaveStep ==
    ASSUME doing \in [Sides -> Doings], NEW s \in Sides, Terminate(s) \/ Crash(s)
    PROVE  Left(s)' /\ expired' = expired
  BY DEF Terminate, Crash, Does, Left

(* One tick of the numbers that a phase compares.                          *)
LEMMA LessFacts ==
    /\ \A n \in Nat : Less(n) \in Nat /\ (n > 0 => Less(n) = n - 1) /\ Less(n) <= n /\ Less(n) + 1 >= n
    /\ \A a \in Nat, b \in Nat, k \in Nat : a > 0 /\ b > a + k => Less(b) > Less(a) + k
    /\ \A a \in Nat, b \in Nat, k \in Nat, w \in Nat :
          w > 0 /\ b > w + k /\ b > a + k => Less(b) > Less(a) + k
    /\ \A w \in Nat, g \in Nat, k \in Nat : w + g >= k => Less(w) + (g + 1) >= k
    /\ \A w \in Nat, g \in Nat, k \in Nat : w + g > k => Less(w) + (g + 1) > k
  BY DEF Less

(* An exchange takes at most two transits.                                 *)
LEMMA TransitFacts ==
    /\ \A w \in Nat, g \in Nat, t \in Nat, k \in Nat :
          g <= t /\ k > 2 * t /\ (w + g >= k \/ w + g + t >= k) => w > 0
    /\ \A w \in Nat, g \in Nat, t \in Nat, k \in Nat : w + g + t >= k => Less(w) + (g + 1) + t >= k
    /\ \A w \in Nat, g \in Nat, t \in Nat, k \in Nat : g <= t /\ w + g >= k => w + 0 + t >= k
    /\ \A a \in Nat, b \in Nat, n \in Nat, i \in Nat, g \in Nat, t \in Nat :
          a + g >= b /\ b > n + 2 * t /\ i <= n /\ g <= t => a > i + t /\ a > 0
  BY DEF Less

LEMMA OneAges ==
    ASSUME NEW k, NEW to, NEW g \in Nat, g < MaxTransit, NEW m,
           m = [kind |-> k, to |-> to, age |-> g], wire = {m},
           wire' = {[x EXCEPT !.age = IF @ < MaxTransit THEN @ + 1 ELSE @] : x \in wire}
    PROVE  wire' = {[kind |-> k, to |-> to, age |-> g + 1]}
<1>1. [m EXCEPT !.age = IF @ < MaxTransit THEN @ + 1 ELSE @] = [kind |-> k, to |-> to, age |-> g + 1]
  OBVIOUS
<1> QED
  BY <1>1, Zenon

LEMMA CalmStep ==
    ASSUME TimersFit, NEW r \in Sides, NEW p \in Sides, p = Peer(r), p # r,
           doing \in [Sides -> Doings], TimersOf(r, p),
           events \in [Sides -> Seq({"invite", "bye"})], events[r] = <<>>,
           Calm(r, p), Drive \/ Deliver \/ Tick
    PROVE  expired' = expired /\ Refreshing(r, p)'
<1>1. /\ timer \in [Sides -> [refresher : Sides, real : Nat, left : Nat]] /\ wait \in [Sides -> Nat]
      /\ timer[r].left \in Nat /\ timer[p].left \in Nat /\ wait[r] \in Nat
      /\ timer[r].real \in Nat /\ timer[p].real \in Nat
  BY DEF TimersOf
<1>2. timer[p].left > timer[r].left + MaxTransit /\ timer[p].left > 0
  BY <1>1, TransitNat DEF Calm, Outlasts
<1>3. \A s \in Sides : s = r \/ s = p
  BY Peers
<1>4. CASE Deliver
  BY <1>4 DEF Deliver, Calm
<1>5. CASE Tick
  <2>1. timer[r].left > 0 \/ doing[r] # "drive"
    BY <1>1, <1>5 DEF Tick, Fires
  <2>2. doing[r] = "linger" => wait[r] > 0
    BY <1>5 DEF Tick
  <2>3. UNCHANGED <<doing, events, expired>> /\ wire' = {}
    BY <1>5 DEF Tick, Calm
  <2>4. /\ timer'[r].left = Less(timer[r].left) /\ timer'[p].left = Less(timer[p].left)
        /\ wait'[r] = Less(wait[r]) /\ TimersOf(r, p)'
    BY <1>5, TickTimers
  <2>5. doing[r] = "linger" => timer[p].left > wait[r] + MaxTransit
    BY DEF Calm, Outlasts
  <2>6. doing[r] \in {"drive", "linger"} /\ doing[p] = "drive" /\ events[p] = <<>>
    BY DEF Calm
  <2>7. Less(timer[p].left) > Less(timer[r].left) + MaxTransit
    BY <1>1, <1>2, <2>1, <2>2, <2>5, <2>6, LessFacts, TransitNat
  <2>8. doing[r] = "linger" => Less(timer[p].left) > Less(wait[r]) + MaxTransit
    BY <1>1, <2>2, <2>5, LessFacts, TransitNat
  <2> QED
    BY <2>3, <2>4, <2>6, <2>7, <2>8 DEF Refreshing, Calm, Outlasts
<1>6. ASSUME NEW s \in Sides,
             RefreshNeeded(s) \/ Expire(s) \/ ReInviteReceived(s) \/ ByeReceived(s) \/ WaitEnds(s)
      PROVE  expired' = expired /\ Refreshing(r, p)'
  <2>1. ~ReInviteReceived(s) /\ ~ByeReceived(s)
    BY <1>3 DEF ReInviteReceived, ByeReceived, Driven, Calm
  <2>2. ~Expire(s)
    BY <1>1, <1>2, <1>3 DEF Expire, Fires, TimersOf
  <2>3. CASE RefreshNeeded(s)
    <3>1. s = r /\ doing[r] = "drive" /\ timer[r].left = 0
      BY <1>1, <1>2, <1>3, <2>3 DEF RefreshNeeded, Fires
    <3>2. /\ wait' = [wait EXCEPT ![r] = Patience] /\ doing' = [doing EXCEPT ![r] = "refresh"]
          /\ UNCHANGED <<events, expired>> /\ Reset(r)
          /\ wire' = {[kind |-> "invite", to |-> p, age |-> 0]}
      BY <2>3, <3>1 DEF RefreshNeeded, Waits, Does, Send, Post, Message, TimersFit, Calm
    <3>3. /\ timer' \in [Sides -> [refresher : Sides, real : Nat, left : Nat]]
          /\ \A t \in Sides : timer'[t].refresher = r /\ timer'[t].real = timer[t].real
          /\ \A t \in Sides : timer'[t].left = IF t = r THEN timer[t].real ELSE timer[t].left
      BY <3>2, ResetTimer
    <3>4. TimersOf(r, p)'
      <4>1. wait' \in [Sides -> Nat]
        BY <1>1, <3>2, TransitNat
      <4>2. timer'[r].left <= timer'[r].real
        BY <1>1, <3>3
      <4> QED
        BY <3>3, <4>1, <4>2 DEF TimersOf
    <3>5. doing'[r] = "refresh" /\ doing'[p] = "drive" /\ wait'[r] = Patience /\ timer'[p].left = timer[p].left
      BY <1>1, <3>2, <3>3 DEF Calm
    <3>6. timer'[p].left + 0 > MaxTransit /\ wait'[r] + 0 >= Patience
      BY <1>1, <1>2, <3>5, TransitNat
    <3>7. Asked(r, p, 0)'
      BY <3>2, <3>5, <3>6 DEF Asked, OnWire, Calm
    <3>8. 0 \in 0 .. MaxTransit
      BY TransitNat
    <3> QED
      BY <3>2, <3>4, <3>7, <3>8 DEF Refreshing
  <2>4. CASE WaitEnds(s)
    <3>1. s = r /\ doing[r] = "linger"
      BY <1>3, <2>4 DEF WaitEnds, Calm
    <3>2. /\ doing' = [doing EXCEPT ![r] = "drive"]
          /\ UNCHANGED <<timer, wait, events, wire, expired>>
      BY <2>4, <3>1 DEF WaitEnds, Does
    <3>3. doing'[r] = "drive" /\ doing'[p] = "drive"
      BY <3>2 DEF Calm
    <3>4. Calm(r, p)'
      BY <3>2, <3>3 DEF Calm, Outlasts
    <3> QED
      BY <3>2, <3>4 DEF Refreshing, TimersOf
  <2> QED
    BY <1>6, <2>1, <2>2, <2>3, <2>4
<1> QED
  BY <1>4, <1>5, <1>6 DEF Drive

LEMMA AskedStep ==
    ASSUME TimersFit, NEW r \in Sides, NEW p \in Sides, p = Peer(r), p # r,
           doing \in [Sides -> Doings], TimersOf(r, p),
           events \in [Sides -> Seq({"invite", "bye"})], events[r] = <<>>,
           NEW g \in 0 .. MaxTransit, Asked(r, p, g), Drive \/ Deliver \/ Tick
    PROVE  expired' = expired /\ Refreshing(r, p)'
<1>1. /\ timer \in [Sides -> [refresher : Sides, real : Nat, left : Nat]] /\ wait \in [Sides -> Nat]
      /\ timer[r].left \in Nat /\ timer[p].left \in Nat /\ wait[r] \in Nat /\ g \in Nat /\ g <= MaxTransit
  BY TransitNat DEF TimersOf
<1>2. timer[p].left > 0 /\ wait[r] > 0 /\ wait[r] + MaxTransit >= Patience
  <2>1. timer[p].left + g > MaxTransit /\ wait[r] + g >= Patience /\ Patience > 2 * MaxTransit
    BY DEF Asked, TimersFit
  <2> QED
    BY <1>1, <2>1, TransitNat
<1>3. \A s \in Sides : s = r \/ s = p
  BY Peers
<1>4. CASE Deliver
  <2>1. PICK m : m = [kind |-> "invite", to |-> p, age |-> g]
    OBVIOUS
  <2>2. wire = {m} /\ m.kind = "invite" /\ m.to = p
    BY <2>1 DEF Asked, OnWire
  <2>3. ReceiveRequest(m)
    BY <1>4, <2>2 DEF Deliver, ReceiveOk, ReceiveAck, ReceiveOver, Ignore, Asked
  <2>4. ~Closed(p)
    BY DEF Closed, Asked
  <2>5. /\ wire' = {} /\ events' = [events EXCEPT ![p] = Append(@, "invite")]
        /\ UNCHANGED <<timer, doing, wait, expired>>
    BY <2>2, <2>3, <2>4 DEF ReceiveRequest, Taken
  <2>6. events' \in [Sides -> Seq({"invite", "bye"})] /\ events'[p] = <<"invite">> /\ events'[r] = <<>>
    BY <2>5 DEF Asked
  <2>7. Heard(r, p)'
    BY <1>2, <2>5, <2>6 DEF Heard, Asked
  <2> QED
    BY <2>5, <2>6, <2>7 DEF Refreshing, TimersOf
<1>5. CASE Tick
  <2>1. PICK m : m = [kind |-> "invite", to |-> p, age |-> g]
    OBVIOUS
  <2>2. wire = {m} /\ m.kind = "invite" /\ m.to = p /\ m.age = g /\ doing[p] # "terminate"
    BY <2>1 DEF Asked, OnWire
  <2>3. g < MaxTransit
    BY <1>5, <2>2 DEF Tick, Locked
  <2>4. /\ UNCHANGED <<doing, events, expired>>
        /\ wire' = {[kind |-> "invite", to |-> p, age |-> g + 1]}
    BY <1>1, <1>5, <2>1, <2>2, <2>3, OneAges DEF Tick
  <2>5. /\ timer'[p].left = Less(timer[p].left) /\ wait'[r] = Less(wait[r]) /\ TimersOf(r, p)'
    BY <1>5, TickTimers
  <2>6. timer'[p].left + (g + 1) > MaxTransit /\ wait'[r] + (g + 1) >= Patience /\ g + 1 \in 0 .. MaxTransit
    <3>1. timer[p].left + g > MaxTransit /\ wait[r] + g >= Patience
      BY DEF Asked
    <3>2. Less(timer[p].left) + (g + 1) > MaxTransit /\ Less(wait[r]) + (g + 1) >= Patience
      BY <1>1, <1>2, <3>1, LessFacts, TransitNat
    <3>3. g + 1 \in 0 .. MaxTransit
      BY <1>1, <2>3, TransitNat
    <3> QED
      BY <2>5, <3>2, <3>3
  <2>7. Asked(r, p, g + 1)'
    BY <2>4, <2>6 DEF Asked, OnWire
  <2> QED
    BY <2>4, <2>5, <2>6, <2>7 DEF Refreshing
<1>6. ASSUME NEW s \in Sides,
             RefreshNeeded(s) \/ Expire(s) \/ ReInviteReceived(s) \/ ByeReceived(s) \/ WaitEnds(s)
      PROVE  FALSE
  <2>1. ~Fires(s)
    <3>1. CASE s = r
      BY <3>1 DEF Fires, Asked
    <3>2. CASE s = p
      BY <1>1, <1>2, <3>2 DEF Fires
    <3> QED
      BY <1>3, <3>1, <3>2
  <2>2. events[s] = <<>>
    BY <1>3 DEF Asked
  <2>3. ~ReInviteReceived(s) /\ ~ByeReceived(s)
    BY <2>2 DEF ReInviteReceived, ByeReceived, Driven
  <2>4. ~WaitEnds(s)
    BY <1>2, <1>3 DEF WaitEnds, Asked
  <2> QED
    BY <1>6, <2>1, <2>3, <2>4 DEF RefreshNeeded, Expire
<1> QED
  BY <1>4, <1>5, <1>6 DEF Drive

LEMMA HeardStep ==
    ASSUME TimersFit, NEW r \in Sides, NEW p \in Sides, p = Peer(r), p # r,
           doing \in [Sides -> Doings], TimersOf(r, p),
           events \in [Sides -> Seq({"invite", "bye"})], events[r] = <<>>,
           Heard(r, p), Drive \/ Deliver \/ Tick
    PROVE  expired' = expired /\ Refreshing(r, p)'
<1>1. /\ timer \in [Sides -> [refresher : Sides, real : Nat, left : Nat]] /\ wait \in [Sides -> Nat]
      /\ timer[p].left \in Nat /\ timer[p].real \in Nat /\ wait[r] \in Nat
  BY DEF TimersOf
<1>2. timer[p].left > 0 /\ wait[r] > 0
  <2>1. timer[p].left > 0 /\ wait[r] + MaxTransit >= Patience /\ Patience > 2 * MaxTransit
    BY DEF Heard, TimersFit
  <2> QED
    BY <1>1, <2>1, TransitNat
<1>3. \A s \in Sides : s = r \/ s = p
  BY Peers
<1>4. ~Deliver /\ ~Tick
  <2>1. ~Deliver
    BY DEF Deliver, Heard
  <2>2. events[p] # <<>>
    BY EmptySeq DEF Heard
  <2>3. ~Tick
    BY <2>2 DEF Tick, Heard
  <2> QED
    BY <2>1, <2>3
<1>5. ASSUME NEW s \in Sides,
             RefreshNeeded(s) \/ Expire(s) \/ ReInviteReceived(s) \/ ByeReceived(s) \/ WaitEnds(s)
      PROVE  expired' = expired /\ Refreshing(r, p)'
  <2>1. ~Fires(s)
    <3>1. CASE s = r
      BY <3>1 DEF Fires, Heard
    <3>2. CASE s = p
      BY <1>1, <1>2, <3>2 DEF Fires
    <3> QED
      BY <1>3, <3>1, <3>2
  <2>2. ~ByeReceived(s) /\ (ReInviteReceived(s) => s = p)
    <3>1. CASE s = r
      BY <3>1 DEF ByeReceived, ReInviteReceived, Driven
    <3>2. CASE s = p
      BY <3>2 DEF ByeReceived, Driven, Heard
    <3> QED
      BY <1>3, <3>1, <3>2
  <2>3. ~WaitEnds(s)
    BY <1>2, <1>3 DEF WaitEnds, Heard
  <2>4. ReInviteReceived(p) /\ s = p
    BY <1>5, <2>1, <2>2, <2>3 DEF RefreshNeeded, Expire
  <2>5. /\ wait' = [wait EXCEPT ![p] = Patience] /\ doing' = [doing EXCEPT ![p] = "answer"]
        /\ events' = [events EXCEPT ![p] = Tail(@)] /\ expired' = expired /\ Reset(p)
        /\ wire' = {[kind |-> "ok", to |-> r, age |-> 0]}
    BY <2>4, Peers DEF ReInviteReceived, Driven, Waits, Does, Post, Message, Heard
  <2>6. events' \in [Sides -> Seq({"invite", "bye"})] /\ events'[p] = <<>> /\ events'[r] = <<>>
    BY <2>5 DEF Heard
  <2>7. /\ timer' \in [Sides -> [refresher : Sides, real : Nat, left : Nat]]
        /\ \A t \in Sides : timer'[t].refresher = r /\ timer'[t].real = timer[t].real
        /\ \A t \in Sides : timer'[t].left = IF t = p THEN timer[t].real ELSE timer[t].left
    BY <2>5, ResetTimer
  <2>8. TimersOf(r, p)'
    <3>1. wait' \in [Sides -> Nat]
      BY <1>1, <2>5, TransitNat
    <3>2. timer'[r].left <= timer'[r].real
      BY <2>7 DEF TimersOf
    <3> QED
      BY <2>7, <3>1, <3>2 DEF TimersOf
  <2>9. /\ doing'[r] = "refresh" /\ doing'[p] = "answer" /\ wait'[p] = Patience /\ wait'[r] = wait[r]
        /\ timer'[p].left = timer'[p].real
    BY <1>1, <2>5, <2>7 DEF Heard
  <2>10. /\ timer'[p].left + 0 >= timer'[p].real
         /\ wait'[r] + 0 + MaxTransit >= Patience /\ wait'[p] + 0 >= Patience
    <3>1. wait[r] + MaxTransit >= Patience
      BY DEF Heard
    <3>2. \A x \in Nat, y \in Nat : x + 0 = x /\ x + 0 + y = x + y /\ x >= x
      OBVIOUS
    <3> QED
      BY <1>1, <2>7, <2>9, <3>1, <3>2, TransitNat
  <2>11. Replied(r, p, 0)'
    BY <2>5, <2>6, <2>9, <2>10 DEF Replied, OnWire
  <2>12. 0 \in 0 .. MaxTransit
    BY TransitNat
  <2> QED
    BY <2>5, <2>6, <2>8, <2>11, <2>12 DEF Refreshing
<1> QED
  BY <1>4, <1>5 DEF Drive

LEMMA RepliedStep ==
    ASSUME TimersFit, NEW r \in Sides, NEW p \in Sides, p = Peer(r), p # r,
           doing \in [Sides -> Doings], TimersOf(r, p),
           events \in [Sides -> Seq({"invite", "bye"})], events[r] = <<>>,
           NEW g \in 0 .. MaxTransit, Replied(r, p, g), Drive \/ Deliver \/ Tick
    PROVE  expired' = expired /\ Refreshing(r, p)'
<1>1. /\ timer \in [Sides -> [refresher : Sides, real : Nat, left : Nat]] /\ wait \in [Sides -> Nat]
      /\ timer[r].left \in Nat /\ timer[p].left \in Nat /\ timer[p].real \in Nat /\ timer[r].real \in Nat
      /\ wait[r] \in Nat /\ wait[p] \in Nat /\ g \in Nat /\ g <= MaxTransit
  BY TransitNat DEF TimersOf
<1>2. /\ timer[p].left + g >= timer[p].real
      /\ wait[r] + g + MaxTransit >= Patience /\ wait[p] + g >= Patience /\ Patience > 2 * MaxTransit
      /\ timer[r].left <= timer[r].real
      /\ timer[p].real > timer[r].real + 2 * MaxTransit /\ timer[p].real > Patience + 2 * MaxTransit
  BY DEF Replied, TimersFit, TimersOf
<1>3. wait[r] > 0 /\ wait[p] > 0 /\ timer[p].left > 0
  <2>1. MaxTransit \in Nat /\ Patience \in Nat
    BY TransitNat
  <2>2. wait[r] > 0
    BY <1>1, <1>2, <2>1
  <2>3. wait[p] > 0
    BY <1>1, <1>2, <2>1
  <2>4. timer[p].left > 0
    BY <1>1, <1>2, <2>1
  <2> QED
    BY <2>2, <2>3, <2>4
<1>4. \A s \in Sides : s = r \/ s = p
  BY Peers
<1>5. PICK m : m = [kind |-> "ok", to |-> r, age |-> g]
  OBVIOUS
<1>6. wire = {m} /\ m.kind = "ok" /\ m.to = r /\ m.age = g
  BY <1>5 DEF Replied, OnWire
<1>7. CASE Deliver
  <2>1. ReceiveOk(m)
    BY <1>6, <1>7 DEF Deliver, ReceiveRequest, ReceiveAck, ReceiveOver, Ignore, Replied
  <2>2. /\ wait' = [wait EXCEPT ![r] = Patience] /\ doing' = [doing EXCEPT ![r] = "linger"]
        /\ UNCHANGED <<timer, events, expired>>
        /\ wire' = {[kind |-> "ack", to |-> p, age |-> 0]}
    BY <1>6, <2>1 DEF ReceiveOk, Waits, Does, Answered, Message
  <2>3. /\ doing'[r] = "linger" /\ doing'[p] = "answer" /\ wait'[r] = Patience /\ wait'[p] = wait[p]
        /\ wait' \in [Sides -> Nat]
    BY <1>1, <2>2, TransitNat DEF Replied
  <2>4. /\ timer[p].left > timer[r].left + MaxTransit /\ timer[p].left > Patience + MaxTransit
        /\ Patience + 0 >= Patience /\ wait[p] + 0 + MaxTransit >= Patience
    <3>1. timer[p].left > timer[r].left + MaxTransit
      BY <1>1, <1>2, TransitFacts, TransitNat
    <3>2. timer[p].left > Patience + MaxTransit
      <4>1. Patience <= Patience
        BY TransitNat
      <4> QED
        BY <1>1, <1>2, <4>1, TransitFacts, TransitNat
    <3>3. wait[p] + 0 + MaxTransit >= Patience
      BY <1>1, <1>2, TransitFacts, TransitNat
    <3> QED
      BY <3>1, <3>2, <3>3, TransitNat
  <2>5. Acked(r, p, 0)'
    BY <2>2, <2>3, <2>4 DEF Acked, OnWire, Outlasts, Replied
  <2>6. 0 \in 0 .. MaxTransit
    BY TransitNat
  <2>7. TimersOf(r, p)'
    BY <2>2, <2>3 DEF TimersOf
  <2> QED
    BY <2>2, <2>5, <2>6, <2>7 DEF Refreshing
<1>8. CASE Tick
  <2>1. g < MaxTransit
    BY <1>6, <1>8 DEF Tick
  <2>2. /\ UNCHANGED <<doing, events, expired>>
        /\ wire' = {[kind |-> "ok", to |-> r, age |-> g + 1]}
    BY <1>1, <1>5, <1>6, <1>8, <2>1, OneAges DEF Tick
  <2>3. /\ timer'[p].left = Less(timer[p].left) /\ timer'[p].real = timer[p].real
        /\ wait'[r] = Less(wait[r]) /\ wait'[p] = Less(wait[p]) /\ TimersOf(r, p)'
    BY <1>8, TickTimers
  <2>4. g + 1 \in 0 .. MaxTransit
    BY <1>1, <2>1, TransitNat
  <2>5. /\ Less(timer[p].left) + (g + 1) >= timer[p].real
        /\ Less(wait[p]) + (g + 1) >= Patience
    BY <1>1, <1>2, LessFacts, TransitNat
  <2>6. Less(wait[r]) + (g + 1) + MaxTransit >= Patience
    BY <1>1, <1>2, TransitFacts, TransitNat
  <2>7. Replied(r, p, g + 1)'
    BY <2>2, <2>3, <2>5, <2>6 DEF Replied, OnWire
  <2> QED
    BY <2>2, <2>3, <2>4, <2>7 DEF Refreshing
<1>9. ASSUME NEW s \in Sides,
             RefreshNeeded(s) \/ Expire(s) \/ ReInviteReceived(s) \/ ByeReceived(s) \/ WaitEnds(s)
      PROVE  FALSE
  <2>1. doing[s] \in {"refresh", "answer"} /\ wait[s] > 0
    BY <1>3, <1>4 DEF Replied
  <2> QED
    BY <1>9, <2>1 DEF RefreshNeeded, Expire, Fires, ReInviteReceived, ByeReceived, Driven, WaitEnds
<1> QED
  BY <1>7, <1>8, <1>9 DEF Drive

LEMMA AckedStep ==
    ASSUME TimersFit, NEW r \in Sides, NEW p \in Sides, p = Peer(r), p # r,
           doing \in [Sides -> Doings], TimersOf(r, p),
           events \in [Sides -> Seq({"invite", "bye"})], events[r] = <<>>,
           NEW g \in 0 .. MaxTransit, Acked(r, p, g), Drive \/ Deliver \/ Tick
    PROVE  expired' = expired /\ Refreshing(r, p)'
<1>1. /\ timer \in [Sides -> [refresher : Sides, real : Nat, left : Nat]] /\ wait \in [Sides -> Nat]
      /\ timer[r].left \in Nat /\ timer[p].left \in Nat
      /\ wait[r] \in Nat /\ wait[p] \in Nat /\ g \in Nat /\ g <= MaxTransit
  BY TransitNat DEF TimersOf
<1>2. /\ timer[p].left > timer[r].left + MaxTransit /\ timer[p].left > wait[r] + MaxTransit
      /\ wait[r] + g >= Patience /\ wait[p] + g + MaxTransit >= Patience /\ Patience > 2 * MaxTransit
  BY DEF Acked, Outlasts, TimersFit
<1>3. wait[r] > 0 /\ wait[p] > 0
  BY <1>1, <1>2, TransitNat
<1>4. \A s \in Sides : s = r \/ s = p
  BY Peers
<1>5. PICK m : m = [kind |-> "ack", to |-> p, age |-> g]
  OBVIOUS
<1>6. wire = {m} /\ m.kind = "ack" /\ m.to = p /\ m.age = g
  BY <1>5 DEF Acked, OnWire
<1>7. CASE Deliver
  <2>1. ReceiveAck(m)
    BY <1>6, <1>7 DEF Deliver, ReceiveRequest, ReceiveOk, ReceiveOver, Ignore, Acked
  <2>2. /\ doing' = [doing EXCEPT ![p] = "drive"] /\ wire' = {}
        /\ UNCHANGED <<timer, wait, events, expired>>
    BY <1>6, <2>1 DEF ReceiveAck, Does, Taken
  <2>3. doing'[r] = "linger" /\ doing'[p] = "drive"
    BY <2>2 DEF Acked
  <2>4. Calm(r, p)'
    BY <1>2, <2>2, <2>3 DEF Calm, Outlasts, Acked
  <2> QED
    BY <2>2, <2>4 DEF Refreshing, TimersOf
<1>8. CASE Tick
  <2>1. g < MaxTransit
    BY <1>6, <1>8 DEF Tick
  <2>2. /\ UNCHANGED <<doing, events, expired>>
        /\ wire' = {[kind |-> "ack", to |-> p, age |-> g + 1]}
    BY <1>1, <1>5, <1>6, <1>8, <2>1, OneAges DEF Tick
  <2>3. /\ timer'[p].left = Less(timer[p].left) /\ timer'[r].left = Less(timer[r].left)
        /\ wait'[r] = Less(wait[r]) /\ wait'[p] = Less(wait[p]) /\ TimersOf(r, p)'
    BY <1>8, TickTimers
  <2>4. g + 1 \in 0 .. MaxTransit
    BY <1>1, <2>1, TransitNat
  <2>5. /\ Less(timer[p].left) > Less(timer[r].left) + MaxTransit
        /\ Less(timer[p].left) > Less(wait[r]) + MaxTransit
    BY <1>1, <1>2, <1>3, LessFacts, TransitNat
  <2>6. Less(wait[r]) + (g + 1) >= Patience /\ Less(wait[p]) + (g + 1) + MaxTransit >= Patience
    <3>1. Less(wait[r]) + (g + 1) >= Patience
      BY <1>1, <1>2, LessFacts, TransitNat
    <3>2. Less(wait[p]) + (g + 1) + MaxTransit >= Patience
      BY <1>1, <1>2, TransitFacts, TransitNat
    <3> QED
      BY <3>1, <3>2
  <2>7. Acked(r, p, g + 1)'
    BY <2>2, <2>3, <2>5, <2>6 DEF Acked, OnWire, Outlasts
  <2> QED
    BY <2>2, <2>3, <2>4, <2>7 DEF Refreshing
<1>9. ASSUME NEW s \in Sides,
             RefreshNeeded(s) \/ Expire(s) \/ ReInviteReceived(s) \/ ByeReceived(s) \/ WaitEnds(s)
      PROVE  FALSE
  <2>1. doing[s] \in {"linger", "answer"} /\ wait[s] > 0
    BY <1>3, <1>4 DEF Acked
  <2> QED
    BY <1>9, <2>1 DEF RefreshNeeded, Expire, Fires, ReInviteReceived, ByeReceived, Driven, WaitEnds
<1> QED
  BY <1>7, <1>8, <1>9 DEF Drive

LEMMA RefreshingStep ==
    ASSUME TimersFit, NEW r \in Sides, NEW p \in Sides, p = Peer(r), p # r,
           doing \in [Sides -> Doings], Refreshing(r, p), Drive \/ Deliver \/ Tick
    PROVE  expired' = expired /\ Refreshing(r, p)'
<1>1. TimersOf(r, p) /\ events \in [Sides -> Seq({"invite", "bye"})] /\ events[r] = <<>>
  BY DEF Refreshing
<1>2. CASE Calm(r, p)
  BY <1>1, <1>2, CalmStep
<1>3. CASE Heard(r, p)
  BY <1>1, <1>3, HeardStep
<1>4. ASSUME NEW g \in 0 .. MaxTransit, Asked(r, p, g) \/ Replied(r, p, g) \/ Acked(r, p, g)
      PROVE  expired' = expired /\ Refreshing(r, p)'
  BY <1>1, <1>4, AskedStep, RepliedStep, AckedStep
<1> QED
  BY <1>2, <1>3, <1>4 DEF Refreshing

(* What the two ends agree on is long enough for the refresher.            *)
LEMMA Agreement ==
    ASSUME TimersFit, NEW i \in Intervals, NEW m \in MinSes
    PROVE  /\ Max({i, m}) \in Nat /\ Max({i, m}) \div 2 \in Nat
           /\ Max({i, m}) > (Max({i, m}) \div 2) + 2 * MaxTransit
           /\ Max({i, m}) > Patience + 2 * MaxTransit
           /\ Max({i, m}) \div 2 >= MaxTransit
<1>1. i \in Nat /\ m \in Nat
  BY TimerAssumption
<1>2. \E x \in {i, m} : \A y \in {i, m} : x >= y
  BY <1>1
<1>3. PICK n : n = Max({i, m})
  OBVIOUS
<1>4. n \in Nat
  BY <1>1, <1>2, <1>3 DEF Max
<1>5. /\ n > (n \div 2) + 2 * MaxTransit
      /\ n > Patience + 2 * MaxTransit
  BY <1>3 DEF TimersFit
<1>6. \A x \in Nat, t \in Nat : x \div 2 \in Nat /\ (x > (x \div 2) + 2 * t => x \div 2 >= t)
  OBVIOUS
<1> QED
  BY <1>3, <1>4, <1>5, <1>6, TransitNat

LEMMA EstablishStep ==
    ASSUME TimersFit, SetUp, NEW w \in Refreshers, NEW i \in Intervals, NEW m \in MinSes,
           NEW d \in 0 .. MaxTransit, Establish(w, i, m, d)
    PROVE  /\ doing' \in [Sides -> Doings] /\ expired' = expired
           /\ \E r \in Sides : Refreshing(r, Peer(r))'
<1>1. PICK n : n = Max({i, m})
  OBVIOUS
<1>2. PICK h : h = n \div 2
  OBVIOUS
<1>3. /\ n \in Nat /\ h \in Nat /\ h >= MaxTransit
      /\ n > h + 2 * MaxTransit /\ n > Patience + 2 * MaxTransit
  BY <1>1, <1>2, Agreement
<1>4. d \in Nat /\ d <= MaxTransit
  BY TransitNat
<1>5. h - d \in Nat /\ h - d <= h /\ n - d \in Nat /\ n - d > h + MaxTransit /\ n > (h - d) + MaxTransit /\ h <= h
  BY <1>3, <1>4, TransitNat
<1>6. /\ doing' = [s \in Sides |-> "drive"] /\ wait' = wait /\ events' = events /\ wire' = {}
      /\ expired' = expired /\ wait = [s \in Sides |-> 0] /\ events = [s \in Sides |-> <<>>]
  BY DEF Establish, SetUp
<1>7. doing' \in [Sides -> Doings] /\ \A s \in Sides : doing'[s] = "drive"
  BY <1>6 DEF Doings
<1>8. /\ wait' \in [Sides -> Nat] /\ events' \in [Sides -> Seq({"invite", "bye"})]
      /\ \A s \in Sides : events'[s] = <<>>
  BY <1>6
<1>9. CASE w = "uas"
  <2>1. timer' = [s \in Sides |->
                    IF s = "uac" THEN [refresher |-> "uas", real |-> n, left |-> n]
                    ELSE [refresher |-> "uas", real |-> h, left |-> h - d]]
    <3>1. PICK se : se = SessionExpires(w, i, m)
      OBVIOUS
    <3>2. se.delta = n /\ se.refresher = "uas"
      BY <1>1, <3>1, <1>9 DEF SessionExpires
    <3>3. CreateTimerFromResponse(se) = [refresher |-> "uas", real |-> n, left |-> n]
      BY <1>2, <3>2 DEF CreateTimerFromResponse, Timer
    <3>4. OnRespondingSuccess(se) = [refresher |-> "uas", real |-> h, left |-> h]
      BY <1>2, <3>2 DEF OnRespondingSuccess, Timer
    <3>5. [OnRespondingSuccess(se) EXCEPT !.left = @ - d] = [refresher |-> "uas", real |-> h, left |-> h - d]
      BY <3>4
    <3>6. timer' = [s \in Sides |-> IF s = "uac" THEN CreateTimerFromResponse(se)
                                   ELSE [OnRespondingSuccess(se) EXCEPT !.left = @ - d]]
      BY <3>1 DEF Establish
    <3> QED
      BY <3>3, <3>5, <3>6, Zenon
  <2>2. /\ timer' \in [Sides -> [refresher : Sides, real : Nat, left : Nat]]
        /\ \A s \in Sides : timer'[s].refresher = "uas"
        /\ timer'["uac"].real = n /\ timer'["uac"].left = n
        /\ timer'["uas"].real = h /\ timer'["uas"].left = h - d
    BY <1>3, <1>5, <2>1 DEF Sides
  <2>3. TimersOf("uas", "uac")'
    BY <1>3, <1>5, <1>8, <2>2 DEF TimersOf
  <2>4. Calm("uas", "uac")'
    <3>1. doing'["uas"] = "drive" /\ doing'["uac"] = "drive" /\ events'["uac"] = <<>>
      BY <1>7, <1>8 DEF Sides
    <3> QED
      BY <1>5, <1>6, <2>2, <3>1 DEF Calm, Outlasts
  <2>5. Refreshing("uas", "uac")'
    BY <1>8, <2>3, <2>4 DEF Refreshing, Sides
  <2> QED
    BY <1>6, <1>7, <2>5, Peers DEF Sides
<1>10. CASE w # "uas"
  <2>1. timer' = [s \in Sides |->
                    IF s = "uac" THEN [refresher |-> "uac", real |-> h, left |-> h]
                    ELSE [refresher |-> "uac", real |-> n, left |-> n - d]]
    <3>1. PICK se : se = SessionExpires(w, i, m)
      OBVIOUS
    <3>2. se.delta = n /\ se.refresher = "uac"
      BY <1>1, <3>1, <1>10 DEF SessionExpires
    <3>3. CreateTimerFromResponse(se) = [refresher |-> "uac", real |-> h, left |-> h]
      BY <1>2, <3>2 DEF CreateTimerFromResponse, Timer
    <3>4. OnRespondingSuccess(se) = [refresher |-> "uac", real |-> n, left |-> n]
      BY <1>2, <3>2 DEF OnRespondingSuccess, Timer
    <3>5. [OnRespondingSuccess(se) EXCEPT !.left = @ - d] = [refresher |-> "uac", real |-> n, left |-> n - d]
      BY <3>4
    <3>6. timer' = [s \in Sides |-> IF s = "uac" THEN CreateTimerFromResponse(se)
                                   ELSE [OnRespondingSuccess(se) EXCEPT !.left = @ - d]]
      BY <3>1 DEF Establish
    <3> QED
      BY <3>3, <3>5, <3>6, Zenon
  <2>2. /\ timer' \in [Sides -> [refresher : Sides, real : Nat, left : Nat]]
        /\ \A s \in Sides : timer'[s].refresher = "uac"
        /\ timer'["uac"].real = h /\ timer'["uac"].left = h
        /\ timer'["uas"].real = n /\ timer'["uas"].left = n - d
    BY <1>3, <1>5, <2>1 DEF Sides
  <2>3. TimersOf("uac", "uas")'
    BY <1>3, <1>5, <1>8, <2>2 DEF TimersOf
  <2>4. Calm("uac", "uas")'
    <3>1. doing'["uac"] = "drive" /\ doing'["uas"] = "drive" /\ events'["uas"] = <<>>
      BY <1>7, <1>8 DEF Sides
    <3> QED
      BY <1>5, <1>6, <2>2, <3>1 DEF Calm, Outlasts
  <2>5. Refreshing("uac", "uas")'
    BY <1>8, <2>3, <2>4 DEF Refreshing, Sides
  <2> QED
    BY <1>6, <1>7, <2>5, Peers DEF Sides
<1> QED
  BY <1>9, <1>10

(* Before the session is up its timers do nothing.                         *)
LEMMA SetUpStep == ASSUME SetUp, TimerNext PROVE FALSE
<1>1. ~Deliver
  BY DEF Deliver, SetUp
<1>2. ~Tick
  BY DEF Tick, SetUp
<1>3. ASSUME NEW s \in Sides PROVE doing[s] = "setup"
  BY DEF SetUp
<1>4. ~Drive
  BY <1>3 DEF Drive, RefreshNeeded, Expire, Fires, ReInviteReceived, ByeReceived, Driven, WaitEnds
<1> QED
  BY <1>1, <1>2, <1>3, <1>4 DEF TimerNext, Terminate, Crash

(* Once an end has left, only the other gives the session up.              *)
LEMMA LeftStep ==
    ASSUME doing \in [Sides -> Doings], expired \subseteq Sides, NEW t \in Sides, Left(t), TimerNext
    PROVE  expired' \subseteq Sides /\ expired' \subseteq expired \cup {Peer(t)}
<1>1. ASSUME NEW s \in Sides, RefreshNeeded(s) \/ Expire(s) \/ ReInviteReceived(s) \/ ByeReceived(s) \/ WaitEnds(s)
      PROVE  expired' \subseteq expired \cup {Peer(t)}
  <2>1. CASE s = t
    BY <1>1, <2>1 DEF RefreshNeeded, Expire, ReInviteReceived, ByeReceived, WaitEnds, Fires, Driven, Left
  <2>2. CASE s = Peer(t)
    BY <1>1, <2>2 DEF RefreshNeeded, Expire, ReInviteReceived, ByeReceived, WaitEnds
  <2> QED
    BY <2>1, <2>2, Peers
<1>2. CASE Deliver
  BY <1>2 DEF Deliver, ReceiveRequest, ReceiveOk, ReceiveAck, ReceiveOver, Ignore
<1>3. CASE Tick
  BY <1>3 DEF Tick
<1>4. CASE \E s \in Sides : Terminate(s) \/ Crash(s)
  BY <1>4 DEF Terminate, Crash
<1>5. expired' \subseteq expired \cup {Peer(t)}
  BY <1>1, <1>2, <1>3, <1>4 DEF TimerNext, Drive
<1> QED
  BY <1>5, Peers

LEMMA RefreshStep == ASSUME TimersFit PROVE RefreshInv /\ [Next]_vars => RefreshInv'
<1> SUFFICES ASSUME RefreshInv, [Next]_vars PROVE RefreshInv'
  OBVIOUS
<1>1. doing \in [Sides -> Doings] /\ expired \subseteq Sides /\ \A s \in expired : Left(Peer(s))
  BY DEF RefreshInv
<1>2. CASE UNCHANGED timerVars
  BY <1>2 DEF timerVars, RefreshInv, SetUp, Left, Refreshing, TimersOf, Calm, Heard, Asked, Replied, Acked,
     OnWire, Outlasts
<1>3. CASE Talk
  <2>1. PICK w \in Refreshers, i \in Intervals, m \in MinSes, d \in 0 .. MaxTransit : Establish(w, i, m, d)
    BY <1>3 DEF Talk
  <2>2. \A s \in Sides : doing[s] = "setup"
    BY <2>1 DEF Establish
  <2>3. SetUp
    BY <1>1, <2>2, Peers DEF RefreshInv, Left, Refreshing, Calm, Heard, Asked, Replied, Acked
  <2>4. expired = {}
    BY <2>3 DEF SetUp
  <2> QED
    BY <2>1, <2>3, <2>4, EstablishStep DEF RefreshInv
<1>4. CASE TimerNext
  <2>1. doing' \in [Sides -> Doings] /\ \A s \in Sides : Left(s) => Left(s)'
    BY <1>1, <1>4, LeftStays
  <2>2. CASE \E t \in Sides : Left(t)
    <3>1. PICK t \in Sides : Left(t)
      BY <2>2
    <3>2. expired' \subseteq Sides /\ expired' \subseteq expired \cup {Peer(t)}
      BY <1>1, <1>4, <3>1, LeftStep
    <3>3. \A s \in expired' : Left(Peer(s))
      BY <1>1, <3>1, <3>2, Peers
    <3>4. \A s \in expired' : Left(Peer(s))'
      BY <2>1, <3>2, <3>3, Peers DEF Left
    <3> QED
      BY <2>1, <3>1, <3>2, <3>4 DEF RefreshInv
  <2>3. CASE SetUp
    BY <1>4, <2>3, SetUpStep
  <2>4. ASSUME NEW r \in Sides, Refreshing(r, Peer(r)) PROVE RefreshInv'
    <3>1. PICK p : p = Peer(r)
      OBVIOUS
    <3>2. p \in Sides /\ p # r
      BY <3>1, Peers
    <3>3. CASE \E s \in Sides : Terminate(s) \/ Crash(s)
      <4>1. PICK s \in Sides : Terminate(s) \/ Crash(s)
        BY <3>3
      <4>2. Left(s)' /\ expired' = expired
        BY <1>1, <4>1, LeaveStep
      <4>3. \A t \in expired' : Left(Peer(t))'
        BY <1>1, <2>1, <4>2, Peers DEF Left
      <4> QED
        BY <1>1, <2>1, <4>2, <4>3 DEF RefreshInv
    <3>4. CASE Drive \/ Deliver \/ Tick
      <4>1. expired' = expired /\ Refreshing(r, p)'
        BY <1>1, <2>4, <3>1, <3>2, <3>4, RefreshingStep
      <4>2. Refreshing(r, Peer(r))'
        BY <3>1, <4>1
      <4>3. \A t \in expired' : Left(Peer(t))'
        BY <1>1, <2>1, <4>1, Peers DEF Left
      <4> QED
        BY <1>1, <2>1, <4>1, <4>2, <4>3 DEF RefreshInv
    <3> QED
      BY <1>4, <3>3, <3>4 DEF TimerNext
  <2> QED
    BY <2>2, <2>3, <2>4 DEF RefreshInv
<1> QED
  BY <1>2, <1>3, <1>4 DEF Next, Calling, Talking, vars

(* Where the refresh of an established session stands: while both ends are *)
(* in the session, one of them refreshes, one message at most is under way *)
(* and the other's timer has more left than the refresh still needs.       *)
THEOREM RefreshInvariant == ASSUME TimersFit PROVE Spec => []RefreshInv
<1>1. Init => RefreshInv
  BY DEF Init, TimerInit, RefreshInv, SetUp, Doings
<1>2. RefreshInv /\ [Next]_vars => RefreshInv'
  BY RefreshStep
<1> QED
  BY <1>1, <1>2, PTL DEF Spec

(* A session whose two ends are alive is never given up for want of a      *)
(* refresh or an answer, for every agreed interval that is long enough     *)
(* against the transit of messages and the transaction timeout.            *)
THEOREM SessionIsRefreshed == ASSUME TimersFit PROVE Spec => []Refreshed
<1>1. RefreshInv => Refreshed
  BY DEF RefreshInv, Refreshed, Left
<1> QED
  BY <1>1, RefreshInvariant, PTL
=============================================================================
