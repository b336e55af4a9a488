--------------------------- MODULE InviteInitiator ---------------------------
(***************************************************************************)
(* The calling side of an INVITE in sip-ua: InviteInitiator and the Early  *)
(* dialogs it hands out (invite/initiator.rs), with the dialogs they make  *)
(* (dialog/client_builder.rs).  One INVITE is forked to several peers,     *)
(* told apart by their To-tag, each of which may ring and answer.  Early   *)
(* dialogs are fed over a bounded channel by InviteInitiator::receive.     *)
(*                                                                         *)
(* The application (not part of the repository) calls receive in a loop,   *)
(* gives every Early to a task that calls its receive, acknowledges every  *)
(* session and registers the ACK with set_acknowledge between two calls of *)
(* receive.                                                                *)
(***************************************************************************)
EXTENDS Naturals, Sequences, FiniteSets

CONSTANTS
    Forks,       \* the peers the INVITE reaches
    Capacity,    \* of the channel of an Early (4 in the code)
    MaxRings,    \* provisional responses of a peer
    MaxSends,    \* times a peer sends its 2xx until it gives up
    MaxLost,     \* ACKs the network loses
    KeepsEarly   \* does the application keep its Earlies when it cancels?

ASSUME InitiatorAssumption ==
    /\ IsFiniteSet(Forks) /\ {Capacity, MaxRings, MaxSends} \subseteq Nat \ {0}
    /\ MaxLost \in Nat /\ KeepsEarly \in BOOLEAN /\ "none" \notin Forks

None == "none"

Response(f, code) == [tag |-> f, code |-> code]
Nothing == Response(None, None)

VARIABLES
    peer,        \* what each peer makes of the INVITE
    rings,       \* provisional responses it has sent
    sends,       \* copies of its 2xx it has sent
    lost,        \* ACKs lost so far
    responses,   \* received by the client transaction, in this order
    tsx,         \* the state of the ClientInvTsx
    first,       \* the peer whose 2xx came first (history), or None
    initiator,   \* where the owner of the InviteInitiator stands
    taken,       \* the response receive has in hand, or Nothing
    early_list,  \* peers with a sender in InviteInitiator.early_list, in order
    chan,        \* the channel of each Early
    early,       \* is the Early "unborn", "held" by a task, "gone", or has its
                 \* task "panicked"?
    created,     \* peers in InviteInitiator.created_sessions
    acks,        \* ACKs made by an Early's task, to be registered
    session      \* the InviteSession made for each peer

peerVars == <<peer, rings, sends>>
tsxVars == <<responses, tsx, first>>
callVars == <<initiator, taken, early_list, created>>
earlyVars == <<chan, early, acks>>
initiatorVars == <<peerVars, lost, tsxVars, callVars, earlyVars, session>>

(* InviteInitiator::new and send_invite.                                   *)
InitiatorInit ==
    /\ peer = [f \in Forks |-> "idle"]
    /\ rings = [f \in Forks |-> 0] /\ sends = [f \in Forks |-> 0] /\ lost = 0
    /\ responses = <<>> /\ tsx = "Proceeding" /\ first = None
    /\ initiator = "receive" /\ taken = Nothing /\ early_list = <<>> /\ created = {}
    /\ chan = [f \in Forks |-> <<>>] /\ early = [f \in Forks |-> "unborn"] /\ acks = {}
    /\ session = [f \in Forks |-> None]

-----------------------------------------------------------------------------
(* The peers, and the proxy that forked the INVITE.  Nobody takes what is  *)
(* received after the transaction's end.                                   *)
Gone == tsx \in {"Completed", "Terminated"} \/ initiator = "done"
Arrive(r) == responses' = IF Gone THEN responses ELSE Append(responses, r)

(* A peer rings, with a Contact or without ("bare").                       *)
Ring(f, code) ==
    /\ peer[f] = "idle" \/ peer[f] = "ringing"
    /\ rings[f] < MaxRings
    /\ peer' = [peer EXCEPT ![f] = "ringing"] /\ rings' = [rings EXCEPT ![f] = @ + 1]
    /\ Arrive(Response(f, code))
    /\ UNCHANGED <<sends, lost, tsx, first, callVars, earlyVars, session>>

(* Answers still on their way through the calling side.                    *)
Underway(f) == \/ \E i \in DOMAIN responses : responses[i] = Response(f, "2xx")
               \/ taken = Response(f, "2xx")
               \/ early[f] = "held" /\ chan[f] # <<>>

(* It answers, and repeats its answer until the ACK, at intervals long     *)
(* enough for the calling side to handle the copy before.                  *)
Answer(f) ==
    /\ peer[f] \in {"idle", "ringing", "answered"} /\ sends[f] < MaxSends /\ ~Underway(f)
    /\ peer' = [peer EXCEPT ![f] = "answered"] /\ sends' = [sends EXCEPT ![f] = @ + 1]
    /\ Arrive(Response(f, "2xx"))
    /\ UNCHANGED <<rings, lost, tsx, first, callVars, earlyVars, session>>

Repeat(f) == peer[f] = "answered" /\ Answer(f)

GiveUp(f) ==
    /\ peer[f] = "answered" /\ sends[f] = MaxSends /\ ~Underway(f)
    /\ peer' = [peer EXCEPT ![f] = "ended"]
    /\ UNCHANGED <<rings, sends, lost, tsxVars, callVars, earlyVars, session>>

(* All have refused, or once one has answered the others are cancelled by  *)
(* the proxy, which keeps their 487 to itself.                             *)
Refuse ==
    /\ \A f \in Forks : peer[f] \in {"idle", "ringing"}
    /\ peer' = [f \in Forks |-> "ended"]
    /\ Arrive(Response(None, "failure"))
    /\ UNCHANGED <<rings, sends, lost, tsx, first, callVars, earlyVars, session>>

ProxyCancels(f) ==
    /\ peer[f] \in {"idle", "ringing"} /\ \E g \in Forks : sends[g] > 0
    /\ peer' = [peer EXCEPT ![f] = "ended"]
    /\ UNCHANGED <<rings, sends, lost, tsxVars, callVars, earlyVars, session>>

(* An ACK reaches a peer that awaits it, or is lost; a BYE is repeated     *)
(* until it is answered.                                                   *)
Acknowledge(f) ==
    \/ /\ peer' = [peer EXCEPT ![f] = IF @ = "answered" THEN "confirmed" ELSE @]
       /\ UNCHANGED lost
    \/ lost < MaxLost /\ lost' = lost + 1 /\ UNCHANGED peer
Bye(f) == peer' = [peer EXCEPT ![f] = "ended"]

-----------------------------------------------------------------------------
(* ClientInvTsx::receive in receive: the next response, which moves the    *)
(* transaction.                                                            *)
TsxReceive ==
    /\ initiator \in {"receive", "cancel"} /\ taken = Nothing /\ responses # <<>>
    /\ taken' = Head(responses) /\ responses' = Tail(responses)
    /\ tsx' = CASE Head(responses).code = "2xx"     -> "Accepted"
                [] Head(responses).code = "failure" -> "Completed"
                [] OTHER                            -> tsx
    /\ first' = IF first = None /\ Head(responses).code = "2xx"
                THEN Head(responses).tag ELSE first
    /\ UNCHANGED <<peerVars, lost, initiator, early_list, created, earlyVars, session>>

(* receive returns to the application, which registers the ACKs it was     *)
(* given meanwhile and calls again.                                        *)
Returned ==
    /\ taken' = Nothing
    /\ IF initiator = "receive" THEN created' = created \cup acks /\ acks' = {}
                                ELSE UNCHANGED <<created, acks>>

(* Mutant: a repeated 2xx is ignored.                                      *)
RetransmitAckNot ==
    /\ taken # Nothing /\ taken.tag \in created
    /\ taken' = Nothing
    /\ UNCHANGED <<peerVars, lost, tsxVars, initiator, early_list, created, earlyVars, session>>

(* The 2xx of a session that was acknowledged before: the ACK is repeated. *)
RetransmitAck ==
    /\ taken # Nothing /\ taken.tag \in created
    /\ Acknowledge(taken.tag)
    /\ taken' = Nothing
    /\ UNCHANGED <<rings, sends, tsxVars, initiator, early_list, created, earlyVars, session>>

InEarlyList(f) == \E i \in DOMAIN early_list : early_list[i] = f

(* A response of an early dialog is sent down its channel, waiting for     *)
(* room; the receiving half may be gone.                                   *)
ForwardTo(f) ==
    IF early[f] = "held"
    THEN Len(chan[f]) < Capacity /\ chan' = [chan EXCEPT ![f] = Append(@, taken.code)]
    ELSE UNCHANGED chan

Forward ==
    /\ taken # Nothing /\ taken.tag \notin created /\ InEarlyList(taken.tag)
    /\ ForwardTo(taken.tag)
    /\ Returned
    /\ UNCHANGED <<peerVars, lost, tsxVars, initiator, early_list, early, session>>

(* Neither: a response that says no more than it rings, ...                *)
Unknown == taken # Nothing /\ taken.tag \notin created /\ ~InEarlyList(taken.tag)

Provisional ==
    /\ Unknown /\ taken.code = "bare"
    /\ Returned
    /\ UNCHANGED <<peerVars, lost, tsxVars, initiator, early_list, chan, early, session>>

(* ... a new early dialog, ...                                             *)
CreateEarlyDialog ==
    /\ Unknown /\ taken.code = "ring" /\ initiator = "receive"
    /\ early_list' = Append(early_list, taken.tag)
    /\ chan' = [chan EXCEPT ![taken.tag] = <<>>]
    /\ early' = [early EXCEPT ![taken.tag] = "held"]
    /\ Returned
    /\ UNCHANGED <<peerVars, lost, tsxVars, initiator, session>>

(* ... which cancel cancels in turn: Early::cancel, once its own CANCEL is *)
(* answered, waits for an event that only the initiator's receive could    *)
(* send, and the initiator waits for it: neither returns.                  *)
CancelEarly ==
    /\ Unknown /\ taken.code = "ring" /\ initiator = "cancel"
    /\ early_list' = Append(early_list, taken.tag)
    /\ initiator' = "earlyCancel" /\ taken' = Nothing
    /\ UNCHANGED <<peerVars, lost, tsxVars, created, earlyVars, session>>

(* ... a session: acknowledged by the application, ended by cancel.        *)
CreateSession ==
    /\ Unknown /\ taken.code = "2xx" /\ initiator = "receive"
    /\ session' = [session EXCEPT ![taken.tag] = "up"]
    /\ Acknowledge(taken.tag)
    /\ created' = created \cup acks \cup {taken.tag} /\ acks' = {} /\ taken' = Nothing
    /\ UNCHANGED <<rings, sends, tsxVars, initiator, early_list, chan, early>>

CancelSession ==
    /\ Unknown /\ taken.code = "2xx" /\ initiator = "cancel"
    /\ session' = [session EXCEPT ![taken.tag] = "ended"]
    /\ Bye(taken.tag)
    /\ taken' = Nothing
    /\ UNCHANGED <<rings, sends, lost, tsxVars, initiator, early_list, created, earlyVars>>
(* Mutant: the early dialogs are not told of the failure.                  *)
TerminateNone ==
    /\ taken # Nothing /\ taken.code = "failure" /\ early_list # <<>>
    /\ early_list' = <<>>
    /\ UNCHANGED <<peerVars, lost, tsxVars, initiator, taken, created, earlyVars, session>>

(* A failure drains the early dialogs, telling each, ...                   *)
TerminateEarly ==
    /\ taken # Nothing /\ taken.code = "failure" /\ early_list # <<>>
    /\ LET f == Head(early_list) IN
       IF early[f] = "held"
       THEN Len(chan[f]) < Capacity /\ chan' = [chan EXCEPT ![f] = Append(@, "terminate")]
       ELSE UNCHANGED chan
    /\ early_list' = Tail(early_list)
    /\ UNCHANGED <<peerVars, lost, tsxVars, initiator, taken, created, early, acks, session>>

(* The initiator is dropped, with what it holds.                           *)
DropInitiator ==
    /\ initiator' = "done" /\ taken' = Nothing
    /\ early_list' = <<>> /\ created' = {} /\ acks' = {} /\ responses' = <<>>

(* ... and is then returned, which ends both the application's loop and    *)
(* the loop of cancel.                                                     *)
Failure ==
    /\ taken # Nothing /\ taken.code = "failure" /\ early_list = <<>>
    /\ DropInitiator
    /\ UNCHANGED <<peerVars, lost, tsx, first, chan, early, session>>

(* Finished, 64 * T1 after the first 2xx: its sender has repeated it as    *)
(* often as it does, and its Early has had time to take it.  Or            *)
(* RequestTimedOut.  The early dialogs are told nothing, the senders of    *)
(* their channels are dropped.                                             *)
ReceiveEnds ==
    /\ initiator \in {"receive", "cancel"} /\ taken = Nothing /\ responses = <<>>
    /\ \/ /\ tsx = "Accepted" /\ ~Underway(first)
          /\ peer[first] = "answered" => sends[first] = MaxSends
       \/ tsx = "Proceeding"
    /\ tsx' = "Terminated"
    /\ DropInitiator
    /\ UNCHANGED <<peerVars, lost, first, chan, early, session>>

-----------------------------------------------------------------------------
(* Early::receive in its task, with the initiator alive or all it sent.    *)
EarlyProvisional(f) ==
    /\ early[f] = "held" /\ chan[f] # <<>> /\ Head(chan[f]) \in {"ring", "bare"}
    /\ chan' = [chan EXCEPT ![f] = Tail(@)]
    /\ UNCHANGED <<peerVars, lost, tsxVars, callVars, early, acks, session>>

(* The dialog becomes a session's, the Early is of no more use.            *)
EarlySuccess(f) ==
    /\ early[f] = "held" /\ chan[f] # <<>> /\ Head(chan[f]) = "2xx"
    /\ session' = [session EXCEPT ![f] = "up"]
    /\ Acknowledge(f)
    /\ acks' = IF initiator = "done" THEN acks ELSE acks \cup {f}
    /\ chan' = [chan EXCEPT ![f] = <<>>] /\ early' = [early EXCEPT ![f] = "gone"]
    /\ UNCHANGED <<rings, sends, tsxVars, callVars>>

EarlyTerminated(f) ==
    /\ early[f] = "held" /\ chan[f] # <<>> /\ Head(chan[f]) = "terminate"
    /\ chan' = [chan EXCEPT ![f] = <<>>] /\ early' = [early EXCEPT ![f] = "gone"]
    /\ UNCHANGED <<peerVars, lost, tsxVars, callVars, acks, session>>

(* expect("dropped initiator"): the initiator's half of the channel is     *)
(* gone and nothing is left in it.                                         *)
Orphaned(f) == early[f] = "held" /\ chan[f] = <<>> /\ ~InEarlyList(f)

EarlyPanics(f) ==
    /\ Orphaned(f)
    /\ early' = [early EXCEPT ![f] = "panicked"]
    /\ UNCHANGED <<peerVars, lost, tsxVars, callVars, chan, acks, session>>

(* InviteInitiator::cancel, called while there is no session.  Its CANCEL  *)
(* has a branch of its own: no peer knows which INVITE it means, each goes *)
(* on as it was.  The application may drop its Earlies with the call.      *)
Cancel ==
    /\ initiator = "receive" /\ taken = Nothing /\ \A f \in Forks : session[f] = None
    /\ initiator' = "cancel"
    /\ early' = [f \in Forks |-> IF early[f] = "held" /\ ~KeepsEarly THEN "gone" ELSE early[f]]
    /\ UNCHANGED <<peerVars, lost, tsxVars, taken, early_list, created, chan, acks, session>>

Receive == \/ TsxReceive \/ RetransmitAck \/ Forward \/ Provisional \/ CreateEarlyDialog
           \/ CancelEarly \/ CreateSession \/ CancelSession \/ TerminateEarly \/ Failure \/ ReceiveEnds
EarlyReceive(f) ==
    EarlyProvisional(f) \/ EarlySuccess(f) \/ EarlyTerminated(f) \/ EarlyPanics(f)
Network == \/ Refuse
           \/ \E f \in Forks : \/ Ring(f, "ring") \/ Ring(f, "bare") \/ Answer(f) \/ GiveUp(f)
                               \/ ProxyCancels(f)

InitiatorNext ==
    \/ Receive \/ Network \/ Cancel
    \/ \E f \in Forks : EarlyReceive(f)

-----------------------------------------------------------------------------
(* Nothing is on its way for the peer any more.                            *)
Over(f) == initiator = "done" /\ early[f] # "held" /\ peer[f] \in {"confirmed", "ended"}

(* Both ends agree on every fork once the INVITE is over, although ACKs    *)
(* get lost and answers cross a CANCEL: a peer with an acknowledged answer *)
(* has its session here, and a session here has a peer, which for any but  *)
(* the first to answer holds as long as its ACK arrives.  The task of an   *)
(* Early panics only when receive ended with Finished or RequestTimedOut,  *)
(* never after a failure, and never when its own peer's answer came.       *)
ForksAgree ==
    \A f \in Forks :
        /\ Orphaned(f) \/ early[f] = "panicked" => tsx = "Terminated" /\ session[f] # "up"
        /\ Over(f) /\ peer[f] = "confirmed" => session[f] = "up"
        /\ Over(f) /\ session[f] = "up" => peer[f] = "confirmed" \/ (f # first /\ lost > 0)
=============================================================================
