------------------------ MODULE InviteSessionProofs ------------------------
(***************************************************************************)
(* Proofs about the called side of an INVITE session, for any number of    *)
(* INVITEs inside the dialog, any PRACKs, any capacity of the event        *)
(* channel and either kind of provisional response.                        *)
(***************************************************************************)
EXTENDS InviteSession, TLAPS, FiniteSetTheorems

Procs == Tasks \cup {"app"}

(* Where a process has asked for the lock of Inner.state and not released  *)
(* it, where it cannot be without having it, and where it can be at all.   *)
Holding == {"waitPrack", "waitAck", "waitBye", "failing", "sending"}
Asking == Holding \cup {"provisional", "reliable", "success", "failure", "terminate", "waiting"}
Places == Asking \cup {"acceptor", "session", "reWaitAck", "done", "absent", "arrived",
                       "finished"}

AppPlaces == {"acceptor", "provisional", "reliable", "success", "failure", "waitPrack",
              "waitAck", "failing", "session", "reWaitAck", "terminate", "waitBye", "done"}
TaskPlaces == {"absent", "arrived", "waiting", "failing", "sending", "finished"}

(* The Mutex is a queue of exactly those who asked, each once, and whoever *)
(* is in a critical section is at its head.                                *)
LockInv ==
    /\ lock \in Seq(Procs) /\ pc \in [Procs -> Places]
    /\ \A i, j \in 1 .. Len(lock) : lock[i] = lock[j] => i = j
    /\ \A i \in 1 .. Len(lock) : pc[lock[i]] \in Asking
    /\ \A p \in Procs : pc[p] \in Asking => \E i \in 1 .. Len(lock) : lock[i] = p
    /\ \A p \in Procs : pc[p] \in Holding => Holds(p)

(* The application has an acceptor, of which nothing has been taken by it; *)
(* it has a session.                                                       *)
Accepting == pc["app"] \in {"acceptor", "provisional", "reliable", "success", "failure",
                            "waitPrack"}
InSession == pc["app"] \in {"session", "reWaitAck", "terminate", "waitBye"}

(* Leaving the provisional state and answering the INVITE are one: nobody  *)
(* has answered before, somebody has or has failed to after it.            *)
AnswerInv ==
    /\ state = "Provisional" => /\ dialog = "inner" /\ ~notified
                                /\ \A a \in answers : a.tsx # "INVITE"
    /\ state # "Provisional" => failed \/ Answered("INVITE")
    /\ \A a, b \in answers : a.tsx = "INVITE" /\ b.tsx = "INVITE" => a = b
    /\ Own("CANCEL", 200) \in answers => state # "Provisional"

(* The dialog has one owner at a time, and the guards of the acceptor and  *)
(* of the session are theirs as long as they exist.                        *)
OwnerInv ==
    /\ Accepting /\ state # "Provisional" => notified
    /\ notified => state \in {"Cancelled", "Terminated"}
    /\ Accepting => usage
    /\ pc["app"] = "waitAck" \/ InSession =>
            dialog = "app" /\ usage /\ receiver /\ Own("INVITE", 200) \in answers
    /\ InSession => ~cancellable
    /\ pc["app"] = "failing" => dialog = "app"
    /\ \A t \in Tasks : pc[t] = "failing" => dialog = t /\ state # "Provisional"

SessionInv == TypeOK /\ LockInv /\ AnswerInv /\ OwnerInv

-----------------------------------------------------------------------------
(* The names of the requests and of the application are different.         *)
LEMMA Names ==
    /\ "app" \notin Tasks /\ "INVITE" \notin Tasks /\ ReInvites \subseteq Tasks
    /\ "CANCEL" \in Tasks /\ "BYE" \in Tasks /\ "CANCEL" \notin ReInvites
    /\ "BYE" \notin ReInvites /\ "app" \in Procs /\ Tasks \subseteq Procs
BY SessionAssumption DEF Tasks, Procs

(* A process outside joins the end of the queue.                           *)
LEMMA AskKeeps ==
    ASSUME LockInv, NEW p \in Procs, pc[p] \notin Asking, Ask(p),
           NEW w \in Asking \ Holding, Goto(p, w)
    PROVE  LockInv'
<1> DEFINE n == Len(lock)
<1>1. /\ lock' \in Seq(Procs) /\ Len(lock') = n + 1 /\ n \in Nat
      /\ \A i \in 1 .. n : lock'[i] = lock[i]
      /\ lock'[n + 1] = p
  BY DEF LockInv, Ask
<1>2. /\ pc' \in [Procs -> Places] /\ pc'[p] = w
      /\ \A q \in Procs : q # p => pc'[q] = pc[q]
  BY DEF LockInv, Goto, Places
<1>3. \A i \in 1 .. n : lock[i] \in Procs /\ lock[i] # p
  BY DEF LockInv
<1>4. \A i, j \in 1 .. Len(lock') : lock'[i] = lock'[j] => i = j
  <2> SUFFICES ASSUME NEW i \in 1 .. Len(lock'), NEW j \in 1 .. Len(lock'), lock'[i] = lock'[j]
               PROVE  i = j
    OBVIOUS
  <2>1. CASE i \in 1 .. n /\ j \in 1 .. n
    BY <1>1, <2>1 DEF LockInv
  <2>2. CASE ~(i \in 1 .. n /\ j \in 1 .. n)
    BY <1>1, <1>3, <2>2
  <2> QED BY <2>1, <2>2
<1>5. \A i \in 1 .. Len(lock') : pc'[lock'[i]] \in Asking
  <2> SUFFICES ASSUME NEW i \in 1 .. Len(lock') PROVE pc'[lock'[i]] \in Asking
    OBVIOUS
  <2>1. CASE i \in 1 .. n
    <3>1. lock'[i] = lock[i] /\ pc'[lock[i]] = pc[lock[i]]
      BY <1>1, <1>2, <1>3, <2>1
    <3> QED BY <2>1, <3>1 DEF LockInv
  <2>2. CASE i = n + 1
    BY <1>1, <1>2, <2>2
  <2> QED BY <1>1, <2>1, <2>2
<1>6. \A q \in Procs : pc'[q] \in Asking => \E i \in 1 .. Len(lock') : lock'[i] = q
  <2> SUFFICES ASSUME NEW q \in Procs, pc'[q] \in Asking
               PROVE  \E i \in 1 .. Len(lock') : lock'[i] = q
    OBVIOUS
  <2>1. CASE q = p
    BY <1>1, <2>1
  <2>2. CASE q # p
    <3>1. PICK i \in 1 .. n : lock[i] = q
      BY <1>2, <2>2 DEF LockInv
    <3> QED BY <1>1, <3>1
  <2> QED BY <2>1, <2>2
<1>7. ASSUME NEW q \in Procs, pc'[q] \in Holding
      PROVE  Holds(q)'
  <2>1. q # p /\ Holds(q)
    BY <1>2, <1>7 DEF LockInv
  <2> QED BY <1>1, <2>1 DEF Holds, LockInv
<1> QED BY <1>1, <1>2, <1>4, <1>5, <1>6, <1>7 DEF LockInv

(* The holder leaves the queue.                                            *)
LEMMA ReleaseKeeps ==
    ASSUME LockInv, NEW p \in Procs, Holds(p), Release,
           NEW w \in Places \ Asking, Goto(p, w)
    PROVE  LockInv'
<1> DEFINE n == Len(lock)
<1>1. /\ lock' \in Seq(Procs) /\ Len(lock') = n - 1 /\ n \in Nat \ {0}
      /\ \A i \in 1 .. n - 1 : lock'[i] = lock[i + 1]
      /\ lock[1] = p
  BY DEF LockInv, Release, Holds
<1>2. /\ pc' \in [Procs -> Places] /\ pc'[p] = w
      /\ \A q \in Procs : q # p => pc'[q] = pc[q]
  BY DEF LockInv, Goto
<1>3. \A i \in 2 .. n : lock[i] \in Procs /\ lock[i] # p
  BY <1>1 DEF LockInv
<1>4. \A i, j \in 1 .. Len(lock') : lock'[i] = lock'[j] => i = j
  <2> SUFFICES ASSUME NEW i \in 1 .. n - 1, NEW j \in 1 .. n - 1, lock'[i] = lock'[j]
               PROVE  i = j
    BY <1>1
  <2>1. i + 1 \in 1 .. n /\ j + 1 \in 1 .. n /\ lock[i + 1] = lock[j + 1]
    BY <1>1
  <2>2. i + 1 = j + 1
    BY <2>1 DEF LockInv
  <2> QED BY <2>2
<1>5. \A i \in 1 .. Len(lock') : pc'[lock'[i]] \in Asking
  <2> SUFFICES ASSUME NEW i \in 1 .. n - 1 PROVE pc'[lock'[i]] \in Asking
    BY <1>1
  <2>1. i + 1 \in 2 .. n /\ i + 1 \in 1 .. n /\ lock'[i] = lock[i + 1]
    BY <1>1
  <2> QED BY <1>2, <1>3, <2>1 DEF LockInv
<1>6. \A q \in Procs : pc'[q] \in Asking => \E i \in 1 .. Len(lock') : lock'[i] = q
  <2> SUFFICES ASSUME NEW q \in Procs, pc'[q] \in Asking
               PROVE  \E i \in 1 .. n - 1 : lock'[i] = q
    BY <1>1
  <2>1. q # p
    BY <1>2
  <2>2. PICK i \in 1 .. n : lock[i] = q
    BY <1>2, <2>1 DEF LockInv
  <2>3. i - 1 \in 1 .. n - 1 /\ lock'[i - 1] = q
    BY <1>1, <2>1, <2>2
  <2> QED BY <2>3
<1>7. ASSUME NEW q \in Procs
      PROVE  pc'[q] \notin Holding
  <2>1. CASE q = p
    BY <1>2, <2>1 DEF Asking
  <2>2. CASE q # p
    BY <1>2, <2>2 DEF LockInv, Holds
  <2> QED BY <2>1, <2>2
<1> QED BY <1>1, <1>2, <1>4, <1>5, <1>6, <1>7 DEF LockInv

(* The holder goes on with the lock.                                       *)
LEMMA HoldKeeps ==
    ASSUME LockInv, NEW p \in Procs, Holds(p), UNCHANGED lock,
           NEW w \in Holding, Goto(p, w)
    PROVE  LockInv'
<1>1. /\ pc' \in [Procs -> Places] /\ pc'[p] = w
      /\ \A q \in Procs : q # p => pc'[q] = pc[q]
  BY DEF LockInv, Goto, Places, Asking
<1>2. pc[p] \in Asking /\ pc'[p] \in Asking
  BY <1>1 DEF LockInv, Holds, Asking
<1> QED BY <1>1, <1>2 DEF LockInv, Holds

(* A process outside the lock moves on without it.                         *)
LEMMA OutsideKeeps ==
    ASSUME LockInv, NEW p \in Procs, pc[p] \notin Asking, UNCHANGED lock,
           NEW w \in Places \ Asking, Goto(p, w)
    PROVE  LockInv'
<1>1. /\ pc' \in [Procs -> Places] /\ pc'[p] = w
      /\ \A q \in Procs : q # p => pc'[q] = pc[q]
  BY DEF LockInv, Goto
<1>2. w \notin Holding /\ \A i \in 1 .. Len(lock) : lock[i] \in Procs /\ lock[i] # p
  BY DEF LockInv, Asking
<1> QED BY <1>1, <1>2 DEF LockInv, Holds

(* Every step keeps the queue of the lock in order.                        *)
LEMMA NextLock == TypeOK /\ LockInv /\ [Next]_vars => LockInv'
<1> SUFFICES ASSUME TypeOK, LockInv, [Next]_vars PROVE LockInv'
  OBVIOUS
<1> USE Names DEF Asking, Holding, Places
<1>1. ASSUME NEW p \in Procs, pc[p] \in Holding PROVE Holds(p)
  BY <1>1 DEF LockInv
<1>2. CASE Acceptor
  <2>1. CASE RespondProvisional \/ RespondTooLate
    BY <2>1, ReleaseKeeps DEF RespondProvisional, RespondTooLate, AcceptorDropped
  <2>2. CASE RespondReliable
    BY <2>2, ReleaseKeeps, HoldKeeps DEF RespondReliable
  <2>3. CASE PrackWaitEnds \/ ReceiveAck \/ AckWaitFails \/ RespondFailureEnds
    <3>1. Holds("app") /\ Release
      BY <1>1, <2>3 DEF PrackWaitEnds, ReceiveAck, AckWaitFails, RespondFailureEnds
    <3>2. Goto("app", "acceptor") \/ Goto("app", "session") \/ Goto("app", "done")
      BY <2>3 DEF PrackWaitEnds, ReceiveAck, AckWaitFails, RespondFailureEnds, AcceptorDropped
    <3> QED BY <3>1, <3>2, ReleaseKeeps
  <2>4. CASE RespondSuccess \/ RespondFailure
    BY <2>4, HoldKeeps DEF RespondSuccess, RespondFailure
  <2>5. CASE RespondSuccessFails
    BY <2>5, ReleaseKeeps DEF RespondSuccessFails
  <2> QED BY <1>2, <2>1, <2>2, <2>3, <2>4, <2>5 DEF Acceptor
<1>3. CASE Session
  <2>1. CASE ReAckWaitEnds
    BY <2>1, OutsideKeeps DEF ReAckWaitEnds
  <2>2. CASE SendBye
    BY <2>2, HoldKeeps DEF SendBye
  <2>3. CASE ByeWaitEnds
    BY <1>1, <2>3, ReleaseKeeps DEF ByeWaitEnds
  <2> QED BY <1>3, <2>1, <2>2, <2>3 DEF Session
<1>4. CASE Handlers
  <2>1. CASE HandleCancel \/ HandleEarlyBye
    BY <2>1, HoldKeeps DEF HandleCancel, HandleEarlyBye
  <2>2. CASE HandleLateCancel
    BY <2>2, ReleaseKeeps DEF HandleLateCancel, Finish
  <2>3. ASSUME NEW t \in Tasks, Enqueue(t) PROVE LockInv'
    BY <2>3, AskKeeps DEF Enqueue
  <2>4. ASSUME NEW t \in Tasks, TaskResponded(t) \/ SendEvent(t) PROVE LockInv'
    <3>1. Holds(t) /\ Release /\ Goto(t, "finished")
      BY <1>1, <2>4 DEF TaskResponded, SendEvent, Finish
    <3> QED BY <3>1, ReleaseKeeps
  <2>5. ASSUME NEW t \in Tasks, HandleEstablished(t) PROVE LockInv'
    BY <2>5, HoldKeeps DEF HandleEstablished
  <2>6. ASSUME NEW t \in Tasks, HandleUnwanted(t) PROVE LockInv'
    BY <2>6, ReleaseKeeps DEF HandleUnwanted, Finish
  <2> QED BY <1>4, <2>1, <2>2, <2>3, <2>4, <2>5, <2>6 DEF Handlers
<1>5. CASE Choices
  <2>1. ASSUME NEW m \in {"provisional", "reliable", "success", "failure"}, Call(m)
        PROVE  LockInv'
    BY <2>1, AskKeeps DEF Call
  <2>2. CASE Terminate
    BY <2>2, AskKeeps DEF Terminate
  <2>3. CASE DropAcceptor \/ DropSession
    BY <2>3, OutsideKeeps DEF DropAcceptor, DropSession, AcceptorDropped
  <2>4. CASE DriveBye
    BY <2>4 DEF DriveBye, LockInv, Holds
  <2>5. CASE DriveReInvite
    <3>1. CASE UNCHANGED pc
      BY <2>5, <3>1 DEF DriveReInvite, LockInv, Holds
    <3>2. CASE Goto("app", "reWaitAck")
      BY <2>5, <3>2, OutsideKeeps DEF DriveReInvite
    <3> QED BY <2>5, <3>1, <3>2 DEF DriveReInvite
  <2> QED BY <1>5, <2>1, <2>2, <2>3, <2>4, <2>5 DEF Choices
<1>6. CASE Peer
  <2>1. CASE ArriveCancel
    BY <2>1, OutsideKeeps DEF ArriveCancel
  <2>2. ASSUME NEW t \in Tasks, ArriveInDialog(t) PROVE LockInv'
    BY <2>2, OutsideKeeps DEF ArriveInDialog
  <2>3. CASE \/ \E i \in ReInvites \cup {"INVITE"} : ArriveAck(i)
             \/ \E k \in PrackKinds : ArrivePrack(k)
    BY <2>3 DEF ArriveAck, ArrivePrack, LockInv, Holds
  <2> QED BY <1>6, <2>1, <2>2, <2>3 DEF Peer
<1>7. CASE UNCHANGED vars
  BY <1>7 DEF vars, LockInv, Holds
<1> QED BY <1>2, <1>3, <1>4, <1>5, <1>6, <1>7 DEF Next

-----------------------------------------------------------------------------
(* A final response to any request, made from itself, has its type.        *)
LEMMA AnswerType ==
    ASSUME NEW a \in Requests, NEW b \in Requests, NEW code \in {200, 400, 404, 481, 487}
    PROVE  Answer(a, b, code) \in [tsx : Requests, request : Requests,
                                  code : {200, 400, 404, 481, 487}]
BY DEF Answer

(* A step moves one process, if any, and to a place of its own.            *)
LEMMA Moves ==
    ASSUME TypeOK, [Next]_vars
    PROVE  \/ UNCHANGED pc
           \/ \E w \in AppPlaces : Goto("app", w)
           \/ \E t \in Tasks, w \in TaskPlaces : Goto(t, w)
<1> USE Names DEF AppPlaces, TaskPlaces
<1>1. CASE Acceptor
  BY <1>1 DEF Acceptor, RespondProvisional, RespondReliable, PrackWaitEnds, RespondSuccess,
     RespondSuccessFails, ReceiveAck, AckWaitFails, RespondFailure, RespondFailureEnds,
     RespondTooLate, AcceptorDropped, Take
<1>2. CASE Session
  BY <1>2 DEF Session, ReAckWaitEnds, SendBye, ByeWaitEnds
<1>3. CASE Handlers
  BY <1>3 DEF Handlers, HandleCancel, HandleLateCancel, HandleEarlyBye, Enqueue, TaskResponded,
     HandleEstablished, SendEvent, HandleUnwanted, Finish, SendBoth, Take
<1>4. CASE Choices
  BY <1>4 DEF Choices, Call, DropAcceptor, DriveBye, DriveReInvite, Terminate, DropSession,
     AcceptorDropped
<1>5. CASE Peer
  BY <1>5 DEF Peer, ArriveCancel, ArriveInDialog, ArriveAck, ArrivePrack
<1>6. CASE UNCHANGED vars
  BY <1>6 DEF vars
<1> QED BY <1>1, <1>2, <1>3, <1>4, <1>5, <1>6 DEF Next

(* The flags stay flags.                                                   *)
LEMMA Flags ==
    ASSUME TypeOK, [Next]_vars
    PROVE  /\ cancellable' \in BOOLEAN /\ usage' \in BOOLEAN /\ acked' \in BOOLEAN
           /\ awaited_prack' \in BOOLEAN /\ receiver' \in BOOLEAN
           /\ notified' \in BOOLEAN /\ failed' \in BOOLEAN
<1>0. /\ cancellable \in BOOLEAN /\ usage \in BOOLEAN /\ acked \in BOOLEAN
      /\ awaited_prack \in BOOLEAN /\ receiver \in BOOLEAN
      /\ notified \in BOOLEAN /\ failed \in BOOLEAN
  BY DEF TypeOK
<1>1. CASE Acceptor
  <2>1. CASE RespondProvisional
    BY <1>0, <2>1 DEF RespondProvisional, waitVars
  <2>2. CASE RespondReliable
    BY <1>0, <2>2 DEF RespondReliable, waitVars
  <2>3. CASE PrackWaitEnds
    BY <1>0, <2>3 DEF PrackWaitEnds, waitVars, AcceptorDropped
  <2>4. CASE RespondSuccess
    BY <1>0, <2>4 DEF RespondSuccess, waitVars
  <2>5. CASE RespondSuccessFails
    BY <1>0, <2>5 DEF RespondSuccessFails, waitVars
  <2>6. CASE ReceiveAck
    BY <1>0, <2>6 DEF ReceiveAck, waitVars
  <2>7. CASE AckWaitFails
    BY <1>0, <2>7 DEF AckWaitFails, waitVars, AcceptorDropped
  <2>8. CASE RespondFailure
    BY <1>0, <2>8 DEF RespondFailure, waitVars
  <2>9. CASE RespondFailureEnds
    BY <1>0, <2>9 DEF RespondFailureEnds, waitVars, AcceptorDropped
  <2>10. CASE RespondTooLate
    BY <1>0, <2>10 DEF RespondTooLate, waitVars, AcceptorDropped
  <2> QED BY <1>1, <2>1, <2>2, <2>3, <2>4, <2>5, <2>6, <2>7, <2>8, <2>9, <2>10 DEF Acceptor
<1>2. CASE Session
  BY <1>0, <1>2 DEF Session, waitVars, ReAckWaitEnds, SendBye, ByeWaitEnds
<1>3. CASE Handlers
  <2>1. CASE HandleCancel
    BY <1>0, <2>1 DEF HandleCancel, waitVars, SendBoth
  <2>2. CASE HandleLateCancel
    BY <1>0, <2>2 DEF HandleLateCancel, waitVars
  <2>3. CASE HandleEarlyBye
    BY <1>0, <2>3 DEF HandleEarlyBye, waitVars, SendBoth
  <2>4. CASE \E t \in Tasks : Enqueue(t)
    BY <1>0, <2>4 DEF Enqueue, waitVars
  <2>5. CASE \E t \in Tasks : TaskResponded(t)
    BY <1>0, <2>5 DEF TaskResponded, waitVars
  <2>6. CASE \E t \in Tasks : HandleEstablished(t)
    BY <1>0, <2>6 DEF HandleEstablished, waitVars
  <2>7. CASE \E t \in Tasks : SendEvent(t)
    BY <1>0, <2>7 DEF SendEvent, waitVars
  <2>8. CASE \E t \in Tasks : HandleUnwanted(t)
    BY <1>0, <2>8 DEF HandleUnwanted, waitVars
  <2> QED BY <1>3, <2>1, <2>2, <2>3, <2>4, <2>5, <2>6, <2>7, <2>8 DEF Handlers
<1>4. CASE Choices
  <2>1. CASE \E m \in {"provisional", "reliable", "success", "failure"} : Call(m)
    BY <1>0, <2>1 DEF Call, waitVars
  <2>2. CASE DropAcceptor
    BY <1>0, <2>2 DEF DropAcceptor, waitVars, AcceptorDropped
  <2>3. CASE DriveBye
    BY <1>0, <2>3 DEF DriveBye, waitVars
  <2>4. CASE DriveReInvite
    BY <1>0, <2>4 DEF DriveReInvite, waitVars
  <2>5. CASE Terminate
    BY <1>0, <2>5 DEF Terminate, waitVars
  <2>6. CASE DropSession
    BY <1>0, <2>6 DEF DropSession, waitVars
  <2> QED BY <1>4, <2>1, <2>2, <2>3, <2>4, <2>5, <2>6 DEF Choices
<1>5. CASE Peer
  <2>1. CASE ArriveCancel
    BY <1>0, <2>1 DEF ArriveCancel, waitVars
  <2>2. CASE \E t \in Tasks : ArriveInDialog(t)
    BY <1>0, <2>2 DEF ArriveInDialog, waitVars
  <2>3. CASE \E i \in ReInvites \cup {"INVITE"} : ArriveAck(i)
    BY <1>0, <2>3 DEF ArriveAck, waitVars
  <2>4. CASE \E k \in PrackKinds : ArrivePrack(k)
    BY <1>0, <2>4 DEF ArrivePrack, waitVars
  <2> QED BY <1>5, <2>1, <2>2, <2>3, <2>4 DEF Peer
<1>6. CASE UNCHANGED vars
  BY <1>0, <1>6 DEF waitVars, vars
<1> QED BY <1>1, <1>2, <1>3, <1>4, <1>5, <1>6 DEF Next

(* The channels keep their types, and the event channel its capacity.      *)
LEMMA Channels ==
    ASSUME TypeOK, [Next]_vars
    PROVE  /\ state' \in {"Provisional", "Cancelled", "Established", "Terminated"}
           /\ dialog' \in Tasks \cup {"inner", "app", None}
           /\ awaited_ack' \in ReInvites \cup {"INVITE", None}
           /\ prack' \in {"open", "sent", "dropped"}
           /\ events' \in Seq(Tasks) /\ Len(events') <= EvtBound
<1> USE Names, SessionAssumption
<1>1. CASE Acceptor
  BY <1>1 DEF Acceptor, TypeOK, waitVars, RespondProvisional, RespondReliable, PrackWaitEnds, RespondSuccess,
     RespondSuccessFails, ReceiveAck, AckWaitFails, RespondFailure, RespondFailureEnds,
     RespondTooLate, AcceptorDropped, Take
<1>2. CASE Session
  BY <1>2 DEF Session, TypeOK, waitVars, ReAckWaitEnds, SendBye, ByeWaitEnds
<1>3. CASE Handlers
  BY <1>3 DEF Handlers, TypeOK, waitVars, HandleCancel, HandleLateCancel, HandleEarlyBye, Enqueue, TaskResponded,
     HandleEstablished, SendEvent, HandleUnwanted, Finish, SendBoth, Take
<1>4. CASE Choices
  <2>1. CASE \/ \E m \in {"provisional", "reliable", "success", "failure"} : Call(m)
             \/ DropAcceptor \/ Terminate \/ DropSession
    <3>1. <<>> \in Seq(Tasks) /\ Len(<<>>) <= EvtBound
      OBVIOUS
    <3>2. CASE DropSession
      BY <3>1, <3>2 DEF TypeOK, waitVars, DropSession
    <3>3. CASE DropAcceptor
      BY <3>3 DEF TypeOK, waitVars, DropAcceptor, AcceptorDropped
    <3> QED BY <2>1, <3>2, <3>3 DEF TypeOK, waitVars, Call, Terminate
  <2>2. CASE DriveBye \/ DriveReInvite
    <3>1. events # <<>> /\ events' = Tail(events)
      BY <2>2 DEF DriveBye, DriveReInvite
    <3>2. events' \in Seq(Tasks) /\ Len(events') <= EvtBound
      BY <3>1 DEF TypeOK
    <3> QED BY <2>2, <3>2 DEF TypeOK, waitVars, DriveBye, DriveReInvite
  <2> QED BY <1>4, <2>1, <2>2 DEF Choices
<1>5. CASE Peer
  BY <1>5 DEF Peer, TypeOK, waitVars, ArriveCancel, ArriveInDialog, ArriveAck, ArrivePrack
<1>6. CASE UNCHANGED vars
  BY <1>6 DEF TypeOK, waitVars, vars
<1> QED BY <1>1, <1>2, <1>3, <1>4, <1>5, <1>6 DEF Next

(* What a step may answer: a request out of itself, or a BYE out of the    *)
(* INVITE.                                                                 *)
LEMMA NewAnswers ==
    ASSUME TypeOK, [Next]_vars
    PROVE  \A a \in answers' \ answers :
              \/ \E r \in Requests, c \in {200, 400, 404, 481, 487} : a = Own(r, c)
              \/ a = Answer("BYE", "INVITE", 200)
<1> USE Names DEF Requests
<1>1. CASE Acceptor
  BY <1>1 DEF Acceptor, TypeOK, RespondProvisional, RespondReliable, PrackWaitEnds, RespondSuccess,
     RespondSuccessFails, ReceiveAck, AckWaitFails, RespondFailure, RespondFailureEnds,
     RespondTooLate, AcceptorDropped, Take
<1>2. CASE Session
  BY <1>2 DEF Session, TypeOK, ReAckWaitEnds, SendBye, ByeWaitEnds
<1>3. CASE Handlers
  BY <1>3 DEF Handlers, TypeOK, HandleCancel, HandleLateCancel, HandleEarlyBye, Enqueue, TaskResponded,
     HandleEstablished, SendEvent, HandleUnwanted, Finish, SendBoth, Take
<1>4. CASE Choices
  BY <1>4 DEF Choices, TypeOK, Call, DropAcceptor, DriveBye, DriveReInvite, Terminate, DropSession,
     AcceptorDropped
<1>5. CASE Peer
  BY <1>5 DEF Peer, TypeOK, ArriveCancel, ArriveInDialog, ArriveAck, ArrivePrack
<1>6. CASE UNCHANGED vars
  BY <1>6 DEF TypeOK, vars
<1> QED BY <1>1, <1>2, <1>3, <1>4, <1>5, <1>6 DEF Next

(* Every step keeps the types.                                             *)
LEMMA NextType == TypeOK /\ LockInv /\ [Next]_vars => TypeOK'
<1> SUFFICES ASSUME TypeOK, LockInv, [Next]_vars PROVE TypeOK'
  OBVIOUS
<1>1. lock' \in Seq(Tasks \cup {"app"})
  BY NextLock DEF LockInv, Procs
<1>2. /\ pc'["app"] \in AppPlaces
      /\ \A t \in Tasks : pc'[t] \in TaskPlaces
  <2>1. pc \in [Tasks \cup {"app"} -> Places]
    BY DEF LockInv, Procs
  <2>2. pc["app"] \in AppPlaces /\ \A t \in Tasks : pc[t] \in TaskPlaces
    BY DEF TypeOK, AppPlaces, TaskPlaces
  <2> QED BY <2>1, <2>2, Moves, Names DEF Goto
<1>3. answers' \subseteq [tsx : Requests, request : Requests, code : {200, 400, 404, 481, 487}]
  <2> SUFFICES ASSUME NEW a \in answers'
               PROVE  a \in [tsx : Requests, request : Requests,
                              code : {200, 400, 404, 481, 487}]
    OBVIOUS
  <2>1. CASE a \in answers
    BY <2>1 DEF TypeOK
  <2>2. CASE a \notin answers
    BY <2>2, NewAnswers, AnswerType, Names DEF Own, Requests
  <2> QED BY <2>1, <2>2
<1> QED BY <1>1, <1>2, <1>3, Flags, Channels DEF TypeOK, AppPlaces, TaskPlaces

-----------------------------------------------------------------------------
(* The five steps that take the INVITE's transaction out of the state.     *)
Taken == \/ RespondSuccess \/ RespondSuccessFails \/ RespondFailure
         \/ HandleCancel \/ HandleEarlyBye

(* No other step enters or leaves the provisional state, takes the dialog  *)
(* out of it, answers the INVITE, or confirms a CANCEL that is still to be *)
(* acted upon.                                                             *)
LEMMA OthersLeaveInvite ==
    ASSUME SessionInv, [Next]_vars, ~Taken
    PROVE  /\ state = "Provisional" => state' = state /\ dialog' = dialog
           /\ state # "Provisional" => state' # "Provisional"
           /\ notified' = notified /\ failed' = failed /\ answers \subseteq answers'
           /\ \A a \in answers' \ answers :
                 a.tsx # "INVITE" /\ (a = Own("CANCEL", 200) => state # "Provisional")
<1> USE Names DEF Taken
<1>1. \A t \in Tasks, c \in {200, 400, 404, 481, 487} :
         /\ Own(t, c).tsx = t
         /\ Own(t, c) = Own("CANCEL", 200) => t = "CANCEL" /\ c = 200
  BY DEF Own, Answer
<1>2. /\ InSession => state # "Provisional"
      /\ \A t \in Tasks : pc[t] = "failing" => state # "Provisional"
      /\ state = "Provisional" => dialog = "inner"
  <2>1. Own("INVITE", 200).tsx = "INVITE"
    BY DEF Own, Answer
  <2> QED BY <2>1 DEF SessionInv, AnswerInv, OwnerInv
<1>3. CASE Acceptor
  BY <1>2, <1>3 DEF Acceptor, RespondProvisional, RespondReliable, PrackWaitEnds, ReceiveAck,
     AckWaitFails, RespondFailureEnds, RespondTooLate, AcceptorDropped
<1>4. CASE Session
  BY <1>2, <1>4 DEF Session, ReAckWaitEnds, SendBye, ByeWaitEnds, InSession
<1>5. CASE Handlers
  <2>1. CASE HandleLateCancel
    BY <1>1, <2>1 DEF HandleLateCancel, Finish
  <2>2. ASSUME NEW t \in Tasks, Enqueue(t) \/ TaskResponded(t) \/ HandleEstablished(t)
        PROVE  /\ state = "Provisional" => state' = state /\ dialog' = dialog
               /\ state # "Provisional" => state' # "Provisional"
               /\ notified' = notified /\ failed' = failed /\ answers' = answers
    BY <1>2, <2>2 DEF Enqueue, TaskResponded, HandleEstablished
  <2>3. ASSUME NEW t \in Tasks, SendEvent(t) \/ HandleUnwanted(t)
        PROVE  /\ state = "Provisional" => state' = state /\ dialog' = dialog
               /\ state # "Provisional" => state' # "Provisional"
               /\ notified' = notified /\ failed' = failed
               /\ answers' = answers \/ answers' = answers \cup {Own(t, 404)}
    BY <2>3 DEF SendEvent, HandleUnwanted, Finish
  <2> QED BY <1>1, <1>5, <2>1, <2>2, <2>3 DEF Handlers
<1>6. CASE Choices
  <2>1. CASE \/ \E m \in {"provisional", "reliable", "success", "failure"} : Call(m)
             \/ DropAcceptor \/ Terminate \/ DropSession
    BY <1>2, <2>1 DEF Call, DropAcceptor, Terminate, DropSession, AcceptorDropped, InSession
  <2>2. CASE DriveBye \/ DriveReInvite
    <3>1. Head(events) \in Tasks \ {"CANCEL"}
      BY <2>2 DEF DriveBye, DriveReInvite
    <3> QED BY <1>1, <2>2, <3>1 DEF DriveBye, DriveReInvite
  <2> QED BY <1>6, <2>1, <2>2 DEF Choices
<1>7. CASE Peer
  <2>1. CASE ArriveCancel
    BY <1>1, <2>1 DEF ArriveCancel
  <2>2. ASSUME NEW t \in Tasks, ArriveInDialog(t)
        PROVE  /\ UNCHANGED <<state, dialog, notified, failed>>
               /\ \/ answers' = answers
                  \/ \E c \in {404, 481} : answers' = answers \cup {Own(t, c)}
    BY <2>2 DEF ArriveInDialog
  <2>3. CASE \/ \E i \in ReInvites \cup {"INVITE"} : ArriveAck(i)
             \/ \E k \in PrackKinds : ArrivePrack(k)
    BY <2>3 DEF ArriveAck, ArrivePrack
  <2> QED BY <1>1, <1>7, <2>1, <2>2, <2>3 DEF Peer
<1>8. CASE UNCHANGED vars
  BY <1>8 DEF vars
<1> QED BY <1>3, <1>4, <1>5, <1>6, <1>7, <1>8 DEF Next, Acceptor, Handlers

(* Of two responses sent side by side both are sent, or it is recorded.    *)
LEMMA BothOrFailed ==
    ASSUME NEW a, NEW b, SendBoth(a, b)
    PROVE  failed' \/ (a \in answers' /\ b \in answers')
<1>1. PICK sent \in SUBSET {a, b} :
         answers' = answers \cup sent /\ failed' = (failed \/ sent # {a, b})
  BY DEF SendBoth
<1>2. CASE sent = {a, b}
  BY <1>1, <1>2
<1>3. CASE sent # {a, b}
  BY <1>1, <1>3
<1> QED BY <1>2, <1>3

(* The taking of the INVITE and its answer go together.                    *)
LEMMA NextAnswer == SessionInv /\ [Next]_vars => AnswerInv'
<1> SUFFICES ASSUME SessionInv, [Next]_vars PROVE AnswerInv'
  OBVIOUS
<1>1. CASE ~Taken
  <2>1. AnswerInv
    BY DEF SessionInv
  <2>2. state' # "Provisional" => failed' \/ Answered("INVITE")'
    BY <1>1, <2>1, OthersLeaveInvite DEF AnswerInv, Answered
  <2> QED BY <1>1, <2>1, <2>2, OthersLeaveInvite DEF AnswerInv
<1>2. CASE Taken
  <2>1. /\ state = "Provisional" /\ state' # "Provisional"
        /\ \A a \in answers : a.tsx # "INVITE"
    BY <1>2 DEF Taken, RespondSuccess, RespondSuccessFails, RespondFailure, HandleCancel,
       HandleEarlyBye, Take, SessionInv, AnswerInv
  <2>2. failed' \/ Answered("INVITE")'
    <3>1. /\ \A c : Own("INVITE", c).request = "INVITE"
          /\ Answer("BYE", "INVITE", 200).request = "INVITE"
      BY DEF Own, Answer
    <3>2. CASE RespondSuccess \/ RespondSuccessFails \/ RespondFailure
      BY <3>1, <3>2 DEF RespondSuccess, RespondSuccessFails, RespondFailure, Answered
    <3>3. CASE HandleCancel \/ HandleEarlyBye
      <4>1. failed' \/ Own("INVITE", 487) \in answers'
        BY <3>3, BothOrFailed DEF HandleCancel, HandleEarlyBye
      <4> QED BY <3>1, <4>1 DEF Answered
    <3> QED BY <1>2, <3>2, <3>3 DEF Taken
  <2>3. \E a : \A b \in answers' : b \in answers \/ b = a \/ b.tsx # "INVITE"
    <3>1. CASE RespondSuccess \/ RespondSuccessFails \/ RespondFailure
      BY <3>1 DEF RespondSuccess, RespondSuccessFails, RespondFailure
    <3>2. CASE HandleCancel \/ HandleEarlyBye
      <4>1. answers' \subseteq answers \cup {Own("CANCEL", 200), Answer("BYE", "INVITE", 200),
                                            Own("INVITE", 487)}
        BY <3>2 DEF HandleCancel, HandleEarlyBye, SendBoth
      <4>2. Own("CANCEL", 200).tsx # "INVITE" /\ Answer("BYE", "INVITE", 200).tsx # "INVITE"
        BY DEF Own, Answer
      <4> QED BY <4>1, <4>2
    <3> QED BY <1>2, <3>1, <3>2 DEF Taken
  <2> QED BY <2>1, <2>2, <2>3 DEF AnswerInv
<1> QED BY <1>1, <1>2

(* The dialog and the guards stay with their owner.                        *)
LEMMA NextOwner == SessionInv /\ [Next]_vars => OwnerInv'
<1> SUFFICES ASSUME SessionInv, [Next]_vars PROVE OwnerInv'
  OBVIOUS
<1> USE Names DEF Accepting, InSession, Goto
<1>1. pc \in [Tasks \cup {"app"} -> Places] /\ OwnerInv
  BY DEF SessionInv, LockInv, Procs
<1>2. /\ state = "Provisional" => dialog = "inner" /\ ~notified
      /\ pc["app"] = "waitAck" \/ InSession => state # "Provisional"
  <2>1. Own("INVITE", 200).tsx = "INVITE"
    BY DEF Own, Answer
  <2> QED BY <2>1 DEF SessionInv, AnswerInv, OwnerInv
<1>3. CASE Acceptor
  <2>1. CASE RespondProvisional \/ RespondReliable
    BY <1>1, <2>1 DEF RespondProvisional, RespondReliable, OwnerInv
  <2>2. CASE PrackWaitEnds \/ AckWaitFails \/ RespondFailureEnds \/ RespondTooLate
    BY <1>1, <1>2, <2>2 DEF PrackWaitEnds, AckWaitFails, RespondFailureEnds, RespondTooLate,
       AcceptorDropped, OwnerInv
  <2>3. CASE RespondSuccess
    BY <1>1, <1>2, <2>3 DEF RespondSuccess, Take, OwnerInv
  <2>4. CASE RespondSuccessFails
    BY <1>1, <1>2, <2>4 DEF RespondSuccessFails, OwnerInv
  <2>5. CASE RespondFailure
    BY <1>1, <1>2, <2>5 DEF RespondFailure, Take, OwnerInv
  <2>6. CASE ReceiveAck
    BY <1>1, <1>2, <2>6 DEF ReceiveAck, OwnerInv
  <2> QED BY <1>3, <2>1, <2>2, <2>3, <2>4, <2>5, <2>6 DEF Acceptor
<1>4. CASE Session
  BY <1>1, <1>2, <1>4 DEF Session, ReAckWaitEnds, SendBye, ByeWaitEnds, OwnerInv
<1>5. CASE Handlers
  <2>1. CASE HandleCancel
    BY <1>1, <1>2, <2>1 DEF HandleCancel, Take, SendBoth, OwnerInv
  <2>2. CASE HandleEarlyBye
    BY <1>1, <1>2, <2>2 DEF HandleEarlyBye, Take, SendBoth, OwnerInv
  <2>3. CASE HandleLateCancel
    BY <1>1, <2>3 DEF HandleLateCancel, Finish, OwnerInv
  <2>4. ASSUME NEW t \in Tasks, Enqueue(t) PROVE OwnerInv'
    BY <1>1, <2>4 DEF Enqueue, OwnerInv
  <2>5. ASSUME NEW t \in Tasks, TaskResponded(t) PROVE OwnerInv'
    BY <1>1, <2>5 DEF TaskResponded, OwnerInv
  <2>6. ASSUME NEW t \in Tasks, HandleEstablished(t) PROVE OwnerInv'
    BY <1>1, <2>6 DEF HandleEstablished, OwnerInv
  <2>7. ASSUME NEW t \in Tasks, SendEvent(t) PROVE OwnerInv'
    BY <1>1, <2>7 DEF SendEvent, Finish, OwnerInv
  <2>8. ASSUME NEW t \in Tasks, HandleUnwanted(t) PROVE OwnerInv'
    BY <1>1, <2>8 DEF HandleUnwanted, Finish, OwnerInv
  <2> QED BY <1>5, <2>1, <2>2, <2>3, <2>4, <2>5, <2>6, <2>7, <2>8 DEF Handlers
<1>6. CASE Choices
  <2>1. CASE \E m \in {"provisional", "reliable", "success", "failure"} : Call(m)
    BY <1>1, <2>1 DEF Call, OwnerInv
  <2>2. CASE DropAcceptor \/ DropSession
    BY <1>1, <1>2, <2>2 DEF DropAcceptor, DropSession, AcceptorDropped, OwnerInv
  <2>3. CASE Terminate \/ DriveBye \/ DriveReInvite
    BY <1>1, <2>3 DEF Terminate, DriveBye, DriveReInvite, OwnerInv
  <2> QED BY <1>6, <2>1, <2>2, <2>3 DEF Choices
<1>7. CASE Peer
  <2>1. CASE ArriveCancel
    BY <1>1, <2>1 DEF ArriveCancel, OwnerInv
  <2>2. ASSUME NEW t \in Tasks, ArriveInDialog(t) PROVE OwnerInv'
    BY <1>1, <2>2 DEF ArriveInDialog, OwnerInv
  <2>3. CASE \/ \E i \in ReInvites \cup {"INVITE"} : ArriveAck(i)
             \/ \E k \in PrackKinds : ArrivePrack(k)
    BY <1>1, <2>3 DEF ArriveAck, ArrivePrack, OwnerInv
  <2> QED BY <1>7, <2>1, <2>2, <2>3 DEF Peer
<1>8. CASE UNCHANGED vars
  BY <1>1, <1>8 DEF vars, OwnerInv
<1> QED BY <1>3, <1>4, <1>5, <1>6, <1>7, <1>8 DEF Next

-----------------------------------------------------------------------------
LEMMA InitSession == Init => SessionInv
<1> SUFFICES ASSUME Init PROVE SessionInv
  OBVIOUS
<1> USE Names, SessionAssumption DEF Init
<1>1. LockInv
  BY DEF LockInv, Procs, Places, Asking, Holding
<1>2. TypeOK
  <2>1. <<>> \in Seq(Tasks) /\ <<>> \in Seq(Tasks \cup {"app"}) /\ Len(<<>>) <= EvtBound
    OBVIOUS
  <2>2. pc["app"] = "acceptor" /\ \A t \in Tasks : pc[t] = "absent"
    OBVIOUS
  <2> QED BY <2>1, <2>2 DEF TypeOK
<1>3. AnswerInv
  BY DEF AnswerInv
<1>4. OwnerInv
  BY DEF OwnerInv, Accepting, InSession
<1> QED BY <1>1, <1>2, <1>3, <1>4 DEF SessionInv

(* The called side keeps its types, the queue of its lock, the tie between *)
(* its state and what has been answered, and the owners of its dialog.     *)
THEOREM SessionInvariant == Spec => []SessionInv
<1>1. SessionInv /\ [Next]_vars => SessionInv'
  BY NextType, NextLock, NextAnswer, NextOwner DEF SessionInv
<1> QED BY <1>1, InitSession, PTL DEF Spec

(* Type correctness.  It needs the lock: MutexGuard::drop takes the head   *)
(* of a queue that must not be empty.                                      *)
THEOREM SessionTypes == Spec => []TypeOK
<1>1. SessionInv => TypeOK
  BY DEF SessionInv
<1> QED BY <1>1, SessionInvariant, PTL

(* Inner.state is in one hand: of the application waiting for an ACK, a    *)
(* PRACK or the response to its BYE, of the tasks that respond to a CANCEL *)
(* or a BYE and of those that send an event, at most one is there.         *)
MutualExclusion ==
    \A p, q \in Procs : pc[p] \in Holding /\ pc[q] \in Holding => p = q

THEOREM StateInOneHand == Spec => []MutualExclusion
<1>1. SessionInv => MutualExclusion
  BY DEF SessionInv, LockInv, Holds, MutualExclusion
<1> QED BY <1>1, SessionInvariant, PTL

(* The INVITE's transaction sends at most one final response, however the  *)
(* application's answer, a CANCEL and a BYE race.                          *)
THEOREM InviteAnsweredOnce == Spec => []FinalOnce
<1>1. SessionInv => FinalOnce
  <2> SUFFICES ASSUME SessionInv PROVE FinalOnce
    OBVIOUS
  <2> DEFINE S == {a \in answers : a.tsx = "INVITE"}
  <2>1. CASE S = {}
    BY <2>1, FS_EmptySet DEF FinalOnce
  <2>2. CASE S # {}
    <3>1. PICK a : S = {a}
      BY <2>2 DEF SessionInv, AnswerInv
    <3>2. Cardinality(S) = 1
      BY <3>1, FS_Singleton
    <3> QED BY <3>2 DEF FinalOnce
  <2> QED BY <2>1, <2>2
<1> QED BY <1>1, SessionInvariant, PTL

(* A confirmed CANCEL has an answered INVITE, or one whose answer failed,  *)
(* and the application that still has the acceptor has been notified.      *)
THEOREM WithdrawalIsSettled == Spec => []WithdrawalSettled
<1>1. SessionInv => WithdrawalSettled
  BY DEF SessionInv, AnswerInv, OwnerInv, Accepting, WithdrawalSettled, CancelSettles,
     CancelNotified
<1> QED BY <1>1, SessionInvariant, PTL

(* The application has a session only of an INVITE answered 200, and as    *)
(* long as it has it the dialog is listed, its usage registered, its       *)
(* events received and the INVITE no longer to be cancelled.               *)
THEOREM SessionIsUsable == Spec => []SessionUsable
<1>1. SessionInv => SessionUsable
  BY DEF SessionInv, OwnerInv, InSession, SessionUsable, Listed, None
<1> QED BY <1>1, SessionInvariant, PTL
=============================================================================
