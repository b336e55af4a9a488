---------------------------- MODULE InviteSession ----------------------------
(***************************************************************************)
(* The called side of an INVITE session in sip-ua: InviteAcceptor          *)
(* (invite/acceptor.rs), the Inner it shares with the InviteUsage of its   *)
(* dialog and with the cancellables of InviteLayer (invite/mod.rs,         *)
(* invite/prack.rs), and the InviteSession it becomes (invite/session.rs). *)
(*                                                                         *)
(* Inner.state is guarded by a tokio Mutex, which is fair: waiters get it  *)
(* in the order they asked.  It is held across awaits: by the application  *)
(* while it waits for an ACK, a PRACK or the response to its BYE, by a     *)
(* receive task while it responds or while the event channel is full.      *)
(***************************************************************************)
EXTENDS Naturals, Sequences, FiniteSets

CONSTANTS
    ReInvites,     \* INVITEs the peer may send inside the dialog
    PrackKinds,    \* PRACKs it may send: "match", "other", or "bad" (no RAck)
    EvtBound,      \* capacity of the event channel (4 in the code)
    EarlyTag       \* do provisional responses carry the dialog's tag?

ASSUME SessionAssumption ==
    /\ IsFiniteSet(ReInvites) /\ ReInvites \cap {"INVITE", "CANCEL", "BYE", "app"} = {}
    /\ PrackKinds \subseteq {"match", "other", "bad"}
    /\ EvtBound \in Nat \ {0} /\ EarlyTag \in BOOLEAN

Tasks == {"CANCEL", "BYE"} \cup ReInvites
Requests == Tasks \cup {"INVITE"}
None == "none"

VARIABLES
    state,         \* Inner.state
    lock,          \* its Mutex: the holder and those who wait, in order
    pc,            \* where the application and the receive tasks stand
    dialog,        \* who owns the Dialog: "inner", "app", a task or None
    cancellable,   \* is Inner in InviteLayer.cancellables?
    usage,         \* is the InviteUsage registered in the dialog?
    awaited_ack,   \* the INVITE an ACK is awaited for, or None
    acked,         \* has the awaited ACK been sent down its channel?
    awaited_prack, \* is there an AwaitedPrack?
    prack,         \* its channel: "open", "sent" or "dropped"
    events,        \* the event channel
    receiver,      \* does somebody own its receiving half?
    notified,      \* has cancelled_notify been notified?
    answers,       \* final responses sent: the transaction used, the request
                   \* the headers were taken from, the code
    failed         \* some response could not be sent

waitVars == <<awaited_ack, acked, awaited_prack, prack>>
vars == <<state, lock, pc, dialog, cancellable, usage, waitVars, events, receiver, notified,
          answers, failed>>

Answer(tsx, request, code) == [tsx |-> tsx, request |-> request, code |-> code]
Own(tsx, code) == Answer(tsx, tsx, code)
Answered(request) == \E a \in answers : a.request = request

(* InviteAcceptor::new.                                                    *)
Init ==
    /\ state = "Provisional" /\ lock = <<>>
    /\ pc = [p \in Tasks \cup {"app"} |-> IF p = "app" THEN "acceptor" ELSE "absent"]
    /\ dialog = "inner" /\ cancellable = TRUE /\ usage = TRUE
    /\ awaited_ack = None /\ acked = FALSE /\ awaited_prack = FALSE /\ prack = "open"
    /\ events = <<>> /\ receiver = FALSE
    /\ notified = FALSE /\ answers = {} /\ failed = FALSE

-----------------------------------------------------------------------------
Goto(p, where) == pc' = [pc EXCEPT ![p] = where]
Holds(p) == lock # <<>> /\ Head(lock) = p
Ask(p) == lock' = Append(lock, p)
Release == lock' = Tail(lock)

(* Inner lives as long as somebody has a reference to it, and with it the  *)
(* dialog of a provisional state.                                          *)
InnerAlive == \/ usage \/ cancellable \/ pc["app"] # "done"
              \/ \E t \in Tasks : pc[t] \notin {"absent", "finished"}

(* Is the DialogEntry in the map?  Dialog::drop removes it.                *)
Listed == dialog # None /\ (dialog = "inner" => InnerAlive)

(* The peer can address the dialog once it knows the local tag.            *)
Addressed == Listed /\ (EarlyTag \/ Own("INVITE", 200) \in answers)

-----------------------------------------------------------------------------
(* The application calls a method of the acceptor, which asks for the lock. *)
Call(method) ==
    /\ pc["app"] = "acceptor"
    /\ Ask("app") /\ Goto("app", method)
    /\ UNCHANGED <<state, dialog, cancellable, usage, waitVars, events, receiver, notified,
                   answers, failed>>

(* create_response, and respond_provisional: nothing is changed, whether   *)
(* the response is sent or Err(RequestTerminated) returned.                *)
RespondProvisional ==
    /\ Holds("app") /\ pc["app"] = "provisional"
    /\ Release /\ Goto("app", "acceptor")
    /\ UNCHANGED <<state, dialog, cancellable, usage, waitVars, events, receiver, notified,
                   answers, failed>>

(* respond_provisional_reliable keeps the lock while it waits.  When the   *)
(* first send fails the AwaitedPrack stays behind.                         *)
RespondReliable ==
    /\ Holds("app") /\ pc["app"] = "reliable"
    /\ IF state = "Provisional"
       THEN /\ awaited_prack' = TRUE /\ prack' = "open"
            /\ \/ Goto("app", "waitPrack") /\ UNCHANGED lock
               \/ Goto("app", "acceptor") /\ Release
       ELSE Goto("app", "acceptor") /\ Release /\ UNCHANGED <<awaited_prack, prack>>
    /\ UNCHANGED <<state, dialog, cancellable, usage, awaited_ack, acked, events, receiver,
                   notified, answers, failed>>

(* The end of a method that consumes the acceptor without a session: it is *)
(* dropped, with the dialog it has taken out of the state.                 *)
AcceptorDropped ==
    /\ Goto("app", "done")
    /\ cancellable' = FALSE /\ usage' = FALSE
    /\ dialog' = IF dialog = "app" THEN None ELSE dialog

(* The wait ends: with the PRACK, with the last timeout, with a            *)
(* retransmission that fails, or, when the sender is gone, with a panic    *)
(* that takes the acceptor along.                                          *)
PrackWaitEnds ==
    /\ pc["app"] = "waitPrack"
    /\ Release
    /\ IF prack = "dropped" THEN AcceptorDropped
       ELSE Goto("app", "acceptor") /\ UNCHANGED <<dialog, cancellable, usage>>
    /\ UNCHANGED <<state, waitVars, events, receiver, notified, answers, failed>>

DropAcceptor ==
    /\ pc["app"] = "acceptor"
    /\ AcceptorDropped
    /\ UNCHANGED <<state, lock, waitVars, events, receiver, notified, answers, failed>>
(* Mutant: the state is not looked at.                                     *)
TakeAlways(p, new) == state' = new /\ dialog' = p

(* InviteSessionState::set_cancelled, set_established: the transaction,    *)
(* the dialog and the INVITE leave the provisional state to be answered by *)
(* whoever called.                                                         *)
Take(p, new) == state = "Provisional" /\ state' = new /\ dialog' = p

(* respond_success up to the wait for the ACK, ...                         *)
RespondSuccess ==
    /\ Holds("app") /\ pc["app"] = "success"
    /\ Take("app", "Established")
    /\ awaited_ack' = "INVITE" /\ acked' = FALSE /\ receiver' = TRUE
    /\ Goto("app", "waitAck")
    /\ answers' = answers \cup {Own("INVITE", 200)}
    /\ UNCHANGED <<lock, cancellable, usage, awaited_prack, prack, events, notified, failed>>

(* ... or its end when the response cannot be sent: the state remains      *)
(* Established, the dialog and the event channel's receiver are dropped.   *)
RespondSuccessFails ==
    /\ Holds("app") /\ pc["app"] = "success"
    /\ state = "Provisional" /\ state' = "Established"
    /\ awaited_ack' = "INVITE" /\ failed' = TRUE
    /\ Goto("app", "done") /\ Release
    /\ cancellable' = FALSE /\ usage' = FALSE /\ dialog' = None
    /\ UNCHANGED <<acked, awaited_prack, prack, events, receiver, notified, answers>>

(* respond_failure up to the wait for the ACK of its transaction.  The     *)
(* guard of the lock lives until the end of the if let.                    *)
RespondFailure ==
    /\ Holds("app") /\ pc["app"] = "failure"
    /\ Take("app", "Cancelled")
    /\ notified' = TRUE
    /\ \/ answers' = answers \cup {Own("INVITE", 400)} /\ UNCHANGED failed
       \/ failed' = TRUE /\ UNCHANGED answers
    /\ Goto("app", "failing")
    /\ UNCHANGED <<lock, cancellable, usage, waitVars, events, receiver>>

(* Err(RequestTerminated): somebody else has taken the transaction.        *)
RespondTooLate ==
    /\ Holds("app") /\ pc["app"] \in {"success", "failure"} /\ state # "Provisional"
    /\ Release /\ AcceptorDropped
    /\ UNCHANGED <<state, waitVars, events, receiver, notified, answers, failed>>

RespondFailureEnds ==
    /\ pc["app"] = "failing"
    /\ Release /\ AcceptorDropped
    /\ UNCHANGED <<state, waitVars, events, receiver, notified, answers, failed>>
(* Mutant: the usage guard stays with the acceptor and is dropped with it. *)
ReceiveAckDropsUsage ==
    /\ pc["app"] = "waitAck" /\ acked
    /\ Goto("app", "session") /\ Release
    /\ cancellable' = FALSE /\ usage' = FALSE
    /\ UNCHANGED <<state, dialog, waitVars, events, receiver, notified, answers, failed>>

(* The ACK makes the acceptor a session; a last timeout, or a failing      *)
(* retransmission, ends the call.                                          *)
ReceiveAck ==
    /\ pc["app"] = "waitAck" /\ acked
    /\ Goto("app", "session") /\ Release
    /\ cancellable' = FALSE
    /\ UNCHANGED <<state, dialog, usage, waitVars, events, receiver, notified, answers, failed>>

AckWaitFails ==
    /\ pc["app"] = "waitAck"
    /\ Release /\ AcceptorDropped
    /\ receiver' = FALSE
    /\ UNCHANGED <<state, waitVars, events, notified, answers, failed>>

-----------------------------------------------------------------------------
(* InviteSession::drive hands out the next event.  A BYE is answered by    *)
(* ByeEvent::process_default.                                              *)
DriveBye ==
    /\ pc["app"] = "session" /\ events # <<>> /\ Head(events) = "BYE"
    /\ events' = Tail(events)
    /\ answers' = answers \cup {Own("BYE", 200)}
    /\ UNCHANGED <<state, lock, pc, dialog, cancellable, usage, waitVars, receiver, notified,
                   failed>>

(* A re-INVITE is answered by ReInviteReceived::respond_success, which     *)
(* waits for its ACK without the lock, or refused by its transaction.      *)
DriveReInvite ==
    /\ pc["app"] = "session" /\ events # <<>> /\ Head(events) \in ReInvites
    /\ events' = Tail(events)
    /\ \/ /\ answers' = answers \cup {Own(Head(events), 200)}
          /\ awaited_ack' = Head(events) /\ acked' = FALSE
          /\ Goto("app", "reWaitAck")
       \/ /\ answers' = answers \cup {Own(Head(events), 400)}
          /\ UNCHANGED <<pc, awaited_ack, acked>>
    /\ UNCHANGED <<state, lock, dialog, cancellable, usage, awaited_prack, prack, receiver,
                   notified, failed>>

ReAckWaitEnds ==
    /\ pc["app"] = "reWaitAck"
    /\ Goto("app", "session")
    /\ UNCHANGED <<state, lock, dialog, cancellable, usage, waitVars, events, receiver, notified,
                   answers, failed>>

(* terminate, called by the application or, when the peer has not          *)
(* refreshed the session in time, by handle_session_timer.                 *)
Terminate ==
    /\ pc["app"] = "session"
    /\ Ask("app") /\ Goto("app", "terminate")
    /\ UNCHANGED <<state, dialog, cancellable, usage, waitVars, events, receiver, notified,
                   answers, failed>>

SendBye ==
    /\ Holds("app") /\ pc["app"] = "terminate"
    /\ state' = "Terminated"
    /\ Goto("app", "waitBye")
    /\ UNCHANGED <<lock, dialog, cancellable, usage, waitVars, events, receiver, notified,
                   answers, failed>>

(* receive_final returns a response, or RequestTimedOut.                   *)
ByeWaitEnds ==
    /\ pc["app"] = "waitBye"
    /\ Release /\ Goto("app", "session")
    /\ UNCHANGED <<state, dialog, cancellable, usage, waitVars, events, receiver, notified,
                   answers, failed>>

(* The session is dropped: the channel with what is in it, the usage, the  *)
(* dialog.                                                                 *)
DropSession ==
    /\ pc["app"] = "session"
    /\ Goto("app", "done")
    /\ receiver' = FALSE /\ events' = <<>> /\ usage' = FALSE /\ dialog' = None
    /\ UNCHANGED <<state, lock, cancellable, waitVars, notified, answers, failed>>

-----------------------------------------------------------------------------
(* InviteLayer::receive takes the CANCEL of a running INVITE; any other    *)
(* is answered 481 by the endpoint.                                        *)
ArriveCancel ==
    /\ pc["CANCEL"] = "absent"
    /\ IF cancellable
       THEN cancellable' = FALSE /\ Goto("CANCEL", "arrived") /\ UNCHANGED answers
       ELSE /\ answers' = answers \cup {Own("CANCEL", 481)}
            /\ Goto("CANCEL", "finished") /\ UNCHANGED cancellable
    /\ UNCHANGED <<state, lock, dialog, usage, waitVars, events, receiver, notified, failed>>

(* A request inside the dialog: the task has a clone of the usage, or the  *)
(* dialog layer answers 404, or without entry the endpoint 481.            *)
ArriveInDialog(t) ==
    /\ t # "CANCEL" /\ pc[t] = "absent"
    /\ IF Addressed /\ usage
       THEN Goto(t, "arrived") /\ UNCHANGED answers
       ELSE /\ answers' = answers \cup {Own(t, IF Addressed THEN 404 ELSE 481)}
            /\ Goto(t, "finished")
    /\ UNCHANGED <<state, lock, dialog, cancellable, usage, waitVars, events, receiver, notified,
                   failed>>

Enqueue(t) ==
    /\ pc[t] = "arrived"
    /\ Ask(t) /\ Goto(t, "waiting")
    /\ UNCHANGED <<state, dialog, cancellable, usage, waitVars, events, receiver, notified,
                   answers, failed>>

(* The usage or the layer leaves the request alone, the answer is code.    *)
Finish(t, code) ==
    /\ answers' = answers \cup {Own(t, code)}
    /\ Goto(t, "finished") /\ Release

(* Two responses are sent side by side, and each may fail.                 *)
SendBoth(a, b) ==
    \E sent \in SUBSET {a, b} :
        answers' = answers \cup sent /\ failed' = (failed \/ sent # {a, b})

(* InviteLayer::handle_cancel with the lock: a provisional INVITE is       *)
(* answered 487, whose ACK is awaited with the lock held.                  *)
HandleCancel ==
    /\ Holds("CANCEL") /\ pc["CANCEL"] = "waiting"
    /\ Take("CANCEL", "Cancelled")
    /\ notified' = TRUE
    /\ SendBoth(Own("CANCEL", 200), Own("INVITE", 487))
    /\ Goto("CANCEL", "failing")
    /\ UNCHANGED <<lock, cancellable, usage, waitVars, events, receiver>>

HandleLateCancel ==
    /\ Holds("CANCEL") /\ pc["CANCEL"] = "waiting" /\ state # "Provisional"
    /\ Finish("CANCEL", 200)
    /\ UNCHANGED <<state, dialog, cancellable, usage, waitVars, events, receiver, notified,
                   failed>>
(* Mutant: a BYE does not notify the application.                          *)
HandleEarlyByeSilent ==
    /\ Holds("BYE") /\ pc["BYE"] = "waiting"
    /\ Take("BYE", "Terminated")
    /\ SendBoth(Answer("BYE", "INVITE", 200), Own("INVITE", 487))
    /\ Goto("BYE", "failing")
    /\ UNCHANGED <<lock, cancellable, usage, waitVars, events, receiver, notified>>

(* InviteUsage::receive of a BYE with the lock.  In the provisional state  *)
(* both responses are made from the INVITE.                                *)
HandleEarlyBye ==
    /\ Holds("BYE") /\ pc["BYE"] = "waiting"
    /\ Take("BYE", "Terminated")
    /\ notified' = TRUE
    /\ SendBoth(Answer("BYE", "INVITE", 200), Own("INVITE", 487))
    /\ Goto("BYE", "failing")
    /\ UNCHANGED <<lock, cancellable, usage, waitVars, events, receiver>>

(* respond_failure of the task has its ACK or gave up; the dialog goes.    *)
TaskResponded(t) ==
    /\ pc[t] = "failing"
    /\ Goto(t, "finished") /\ Release
    /\ dialog' = None
    /\ UNCHANGED <<state, cancellable, usage, waitVars, events, receiver, notified, answers,
                   failed>>

(* An established session is sent the request; a BYE ends it before.       *)
HandleEstablished(t) ==
    /\ t # "CANCEL" /\ Holds(t) /\ pc[t] = "waiting" /\ state = "Established"
    /\ state' = IF t = "BYE" THEN "Terminated" ELSE state
    /\ Goto(t, "sending")
    /\ UNCHANGED <<lock, dialog, cancellable, usage, waitVars, events, receiver, notified,
                   answers, failed>>
(* Mutant: a channel without receiver is waited for.                       *)
SendEventBlocks(t) ==
    /\ pc[t] = "sending" /\ receiver /\ Len(events) < EvtBound
    /\ events' = Append(events, t)
    /\ Goto(t, "finished") /\ Release
    /\ UNCHANGED <<state, dialog, cancellable, usage, waitVars, receiver, notified, answers,
                   failed>>

(* evt_sink.send waits, with the lock, for room or for the receiver's end. *)
SendEvent(t) ==
    /\ pc[t] = "sending"
    /\ \/ /\ receiver /\ Len(events) < EvtBound
          /\ events' = Append(events, t)
          /\ Goto(t, "finished") /\ Release /\ UNCHANGED answers
       \/ /\ ~receiver
          /\ Finish(t, 404) /\ UNCHANGED events
    /\ UNCHANGED <<state, dialog, cancellable, usage, waitVars, receiver, notified, failed>>

HandleUnwanted(t) ==
    /\ t # "CANCEL" /\ Holds(t) /\ pc[t] = "waiting"
    /\ state \in {"Cancelled", "Terminated"} \/ (t \in ReInvites /\ state = "Provisional")
    /\ state' = IF t = "BYE" THEN "Terminated" ELSE state
    /\ Finish(t, 404)
    /\ UNCHANGED <<dialog, cancellable, usage, waitVars, events, receiver, notified, failed>>

(* InviteUsage::receive of an ACK, without the state's lock.               *)
ArriveAck(i) ==
    /\ Addressed /\ usage /\ awaited_ack = i /\ Own(i, 200) \in answers
    /\ awaited_ack' = None /\ acked' = TRUE
    /\ UNCHANGED <<state, lock, pc, dialog, cancellable, usage, awaited_prack, prack, events,
                   receiver, notified, answers, failed>>

(* InviteUsage::handle_prack, likewise: the AwaitedPrack is taken out      *)
(* before the RAck is read, and not put back when that fails.              *)
ArrivePrack(kind) ==
    /\ Addressed /\ usage /\ awaited_prack /\ kind # "other"
    /\ awaited_prack' = FALSE
    /\ prack' = IF kind = "match" THEN "sent" ELSE "dropped"
    /\ UNCHANGED <<state, lock, pc, dialog, cancellable, usage, awaited_ack, acked, events,
                   receiver, notified, answers, failed>>

-----------------------------------------------------------------------------
Acceptor == \/ RespondProvisional \/ RespondReliable \/ PrackWaitEnds
            \/ RespondSuccess \/ RespondSuccessFails \/ ReceiveAck \/ AckWaitFails
            \/ RespondFailure \/ RespondFailureEnds \/ RespondTooLate
Session == ReAckWaitEnds \/ SendBye \/ ByeWaitEnds
Handlers == \/ HandleCancel \/ HandleLateCancel \/ HandleEarlyBye
            \/ \E t \in Tasks : \/ Enqueue(t) \/ TaskResponded(t) \/ HandleEstablished(t)
                                \/ SendEvent(t) \/ HandleUnwanted(t)
Choices == \/ \E m \in {"provisional", "reliable", "success", "failure"} : Call(m)
           \/ DropAcceptor \/ DriveBye \/ DriveReInvite \/ Terminate \/ DropSession
Peer == \/ ArriveCancel
        \/ \E t \in Tasks : ArriveInDialog(t)
        \/ \E i \in ReInvites \cup {"INVITE"} : ArriveAck(i)
        \/ \E k \in PrackKinds : ArrivePrack(k)

Next == Acceptor \/ Session \/ Handlers \/ Choices \/ Peer

(* A called method and a spawned task run on, and every wait has a         *)
(* timeout.  An application that has a session takes its events, as long   *)
(* as it keeps it and is not terminating it; what else it calls, and what  *)
(* the peer sends, is free.                                                *)
Spec == /\ Init /\ [][Next]_vars
        /\ WF_vars(Acceptor \/ Session) /\ WF_vars(Handlers)
        /\ WF_vars(DriveBye \/ DriveReInvite)

-----------------------------------------------------------------------------
(* Types: the phases of the call, its actors and its channels.             *)
TypeOK ==
    /\ state \in {"Provisional", "Cancelled", "Established", "Terminated"}
    /\ lock \in Seq(Tasks \cup {"app"})
    /\ pc["app"] \in {"acceptor", "provisional", "reliable", "success", "failure", "waitPrack",
                      "waitAck", "failing", "session", "reWaitAck", "terminate", "waitBye",
                      "done"}
    /\ \A t \in Tasks : pc[t] \in {"absent", "arrived", "waiting", "failing", "sending",
                                   "finished"}
    /\ dialog \in Tasks \cup {"inner", "app", None}
    /\ awaited_ack \in ReInvites \cup {"INVITE", None} /\ prack \in {"open", "sent", "dropped"}
    /\ events \in Seq(Tasks) /\ Len(events) <= EvtBound
    /\ {cancellable, usage, acked, awaited_prack, receiver, notified, failed}
          \subseteq BOOLEAN
    /\ answers \subseteq [tsx : Requests, request : Requests, code : {200, 400, 404, 481, 487}]

(* The INVITE's transaction sends one final response, however the          *)
(* application's answer, a CANCEL and a BYE race.                          *)
FinalOnce == Cardinality({a \in answers : a.tsx = "INVITE"}) <= 1

(* A confirmed CANCEL never leaves the INVITE open: it has been answered,  *)
(* by whoever came first, unless that answer could not be sent.            *)
CancelSettles == Own("CANCEL", 200) \in answers => failed \/ Answered("INVITE")

(* The application that still holds the acceptor of an INVITE the peer has *)
(* withdrawn has been notified, and is not before that.                    *)
CancelNotified ==
    /\ pc["app"] = "acceptor" /\ state # "Provisional" => notified
    /\ notified => state \in {"Cancelled", "Terminated"}

(* Whoever withdraws the INVITE, its transaction is answered and its       *)
(* application learns of it.                                               *)
WithdrawalSettled == CancelSettles /\ CancelNotified

(* A session is handed out for an INVITE answered 200 only, with its       *)
(* dialog reachable and its events received.                               *)
SessionUsable ==
    pc["app"] \in {"session", "reWaitAck", "terminate", "waitBye"} =>
        /\ Own("INVITE", 200) \in answers
        /\ Listed /\ usage /\ receiver /\ ~cancellable

(* The event channel is full, a task waits for room in it with the lock,   *)
(* and the one call that could make room, terminate (also that of          *)
(* handle_session_timer), waits for the lock.                              *)
Deadlocked ==
    /\ pc["app"] = "terminate" /\ Len(events) = EvtBound
    /\ \E t \in Tasks : Holds(t) /\ pc[t] = "sending"

(* No receive task hangs on the state's lock or on the event channel,      *)
(* though requests come faster than the application takes them, and it     *)
(* answers, waits, ends or drops the session in between: a task ends,      *)
(* unless evt_sink.send and terminate wait for each other.                 *)
TasksFinish ==
    \A t \in Tasks : (pc[t] = "arrived") ~> (pc[t] = "finished" \/ Deadlocked)
=============================================================================
