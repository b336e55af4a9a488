-------------------------- MODULE ManagedTransport --------------------------
(***************************************************************************)
(* One connection of sip-core: its entry in Transports.transports          *)
(* (transport/mod.rs, transport/managed.rs), the TpHandles the stack has   *)
(* of it, and the receive_task that reads it (transport/streaming/mod.rs). *)
(*                                                                         *)
(* A handle owns a share of a reference count whose end resolves the       *)
(* task's DropNotifier.  The entry has a weak reference to the count while *)
(* the connection is used; unused, it has the sender by which a new        *)
(* notifier reaches the task.  Handles are cloned and dropped by any       *)
(* thread, while select! picks any of the task's branches that are ready.  *)
(***************************************************************************)
EXTENDS Naturals, Sequences

CONSTANTS
    Idle,      \* ticks an unused connection is kept; a tick is 10s
    Pongs,     \* does the peer answer keep-alive requests, if it likes?
    MaxRefs,   \* bound on handles
    MaxFrames  \* bound on what waits to be read

ASSUME TransportAssumption ==
    /\ Idle \in Nat \ {0} /\ MaxRefs \in Nat \ {0} /\ MaxFrames \in Nat \ {0}
    /\ Pongs \in BOOLEAN

Items == {"message", "keepalive", "closed"}
NoItem == "none"

VARIABLES
    outgoing, \* Direction::Outgoing or Incoming, fixed
    entry,    \* state of the MangedTransport: "Used", "Unused", or "None"
    refs,     \* live handles of the newest reference count
    task,     \* ReceiveTaskState, or how the task ended
    idle,     \* ticks left of the sleep of ReceiveTaskState::Unused
    offered,  \* is a notifier in the channel of ReceiveTaskState::Unused?
    frames,   \* what framed.next() will yield
    item,     \* what it has yielded, before set_used
    open      \* is the peer's end of the connection open?

vars == <<outgoing, entry, refs, task, idle, offered, frames, item, open>>

Running == task \in {"InUse", "Unused"}

(* Factory::create makes a used connection with a handle, task_accept an   *)
(* unused one.                                                             *)
Created == outgoing = TRUE /\ entry = "Used" /\ refs = 1 /\ task = "InUse" /\ idle = 0
Accepted == outgoing = FALSE /\ entry = "Unused" /\ refs = 0 /\ task = "Unused" /\ idle = Idle

Init ==
    /\ Created \/ Accepted
    /\ offered = FALSE /\ frames = <<>> /\ item = NoItem /\ open = TRUE

-----------------------------------------------------------------------------
(* MangedTransport::try_get gives a handle unless the count has died.  An  *)
(* unused entry starts a new count and sends its notifier.                 *)
Gettable == entry = "Unused" \/ (entry = "Used" /\ refs > 0)
(* Mutant: the notifier of a new count is not sent.                        *)
TryGetUnseen(kept) ==
    /\ Gettable
    /\ entry' = "Used"
    /\ refs' = refs + kept
    /\ UNCHANGED offered

TryGet(kept) ==
    /\ Gettable
    /\ entry' = "Used"
    /\ refs' = refs + kept
    /\ offered' = (offered \/ entry = "Unused")
(* Mutant: nothing removes the entry.                                      *)
EndUnguarded(how) ==
    /\ task' = how /\ frames' = <<>> /\ item' = NoItem /\ offered' = FALSE
    /\ UNCHANGED <<outgoing, entry, refs, idle, open>>

(* UnclaimedGuard::drop, whichever way the task ends.                      *)
End(how) ==
    /\ task' = how /\ entry' = "None" /\ frames' = <<>> /\ item' = NoItem /\ offered' = FALSE
    /\ UNCHANGED <<outgoing, refs, idle, open>>

-----------------------------------------------------------------------------
(* receive_task: the branches of the two select!s.                         *)
SelectItem ==
    /\ Running /\ item = NoItem /\ frames # <<>>
    /\ item' = Head(frames) /\ frames' = Tail(frames)
    /\ UNCHANGED <<outgoing, entry, refs, task, idle, offered, open>>

SelectDropped ==
    /\ task = "InUse" /\ item = NoItem /\ refs = 0
    /\ task' = "Unused" /\ idle' = Idle
    /\ entry' = "Unused" /\ offered' = FALSE
    /\ UNCHANGED <<outgoing, refs, frames, item, open>>

SelectNotifier ==
    /\ task = "Unused" /\ item = NoItem /\ offered
    /\ task' = "InUse" /\ offered' = FALSE
    /\ UNCHANGED <<outgoing, entry, refs, idle, frames, item, open>>
(* Mutant: the sleep starts over instead of ending the task.               *)
SelectTimeoutRestarts ==
    /\ task = "Unused" /\ item = NoItem /\ idle = 0
    /\ idle' = Idle
    /\ UNCHANGED <<outgoing, entry, refs, task, offered, frames, item, open>>

SelectTimeout ==
    /\ task = "Unused" /\ item = NoItem /\ idle = 0
    /\ End("Returned")

(* After an item: set_used, whose expect panics without a handle.  The     *)
(* message takes the handle along; a keep-alive drops it at once.          *)
UseForMessage ==
    /\ Running /\ item = "message" /\ refs < MaxRefs
    /\ TryGet(1)
    /\ item' = NoItem
    /\ UNCHANGED <<outgoing, task, idle, frames, open>>

UseForKeepAlive ==
    /\ Running /\ item = "keepalive"
    /\ TryGet(0)
    /\ item' = NoItem
    /\ UNCHANGED <<outgoing, task, idle, frames, open>>

UseForClosed ==
    /\ Running /\ item = "closed" /\ Gettable
    /\ End("Returned")

SetUsedFails ==
    /\ Running /\ item # NoItem /\ ~Gettable
    /\ End("Panicked")

-----------------------------------------------------------------------------
(* The stack: find_matching_idling_transport picks a connection the        *)
(* endpoint has made; handles are cloned and dropped.                      *)
FindIdling ==
    /\ outgoing /\ refs < MaxRefs
    /\ TryGet(1)
    /\ UNCHANGED <<outgoing, task, idle, frames, item, open>>

Clone ==
    /\ refs > 0 /\ refs < MaxRefs
    /\ refs' = refs + 1
    /\ UNCHANGED <<outgoing, entry, task, idle, offered, frames, item, open>>

DropHandle ==
    /\ refs > 0
    /\ refs' = refs - 1
    /\ UNCHANGED <<outgoing, entry, task, idle, offered, frames, item, open>>

(* The peer sends, or closes; an error while reading counts as closing.    *)
Arrive(i) ==
    /\ Running /\ open /\ Len(frames) < MaxFrames
    /\ frames' = Append(frames, i)
    /\ open' = (i # "closed")
    /\ UNCHANGED <<outgoing, entry, refs, task, idle, offered, item>>

(* Ten seconds pass when the task has nothing left to do; it has sent its  *)
(* keep-alive request, and the peer may have answered.                     *)
Ready == \/ item # NoItem \/ frames # <<>>
         \/ task = "InUse" /\ refs = 0
         \/ task = "Unused" /\ (offered \/ idle = 0)

Tick ==
    /\ Running /\ ~Ready
    /\ idle' = IF task = "Unused" THEN idle - 1 ELSE idle
    /\ \/ UNCHANGED frames
       \/ Pongs /\ open /\ frames' = <<"keepalive">>
    /\ UNCHANGED <<outgoing, entry, refs, task, offered, item, open>>

Task == \/ SelectItem \/ SelectDropped \/ SelectNotifier \/ SelectTimeout
        \/ UseForMessage \/ UseForKeepAlive \/ UseForClosed \/ SetUsedFails
Stack == FindIdling \/ Clone \/ DropHandle
Peer == \E i \in Items : Arrive(i)

Next == Task \/ Stack \/ Peer \/ Tick

(* The task runs when a branch is ready, and time passes.                  *)
Spec == Init /\ [][Next]_vars /\ WF_vars(Task) /\ WF_vars(Tick)

-----------------------------------------------------------------------------
(* Types: the entry, the task and the handles of one connection.           *)
TypeOK ==
    /\ entry \in {"Used", "Unused", "None"}
    /\ task \in {"InUse", "Unused", "Returned", "Panicked"}
    /\ refs \in 0 .. MaxRefs /\ idle \in 0 .. Idle
    /\ frames \in Seq(Items) /\ Len(frames) <= MaxFrames
    /\ item \in Items \cup {NoItem}
    /\ outgoing \in BOOLEAN /\ offered \in BOOLEAN /\ open \in BOOLEAN

(* The end of the last handle is always noticed: while there are handles,  *)
(* and whenever the entry says so, the notifier of their count is with the *)
(* running task or on its way to it, and never is there a second one.      *)
NotifierKept ==
    Running => /\ refs > 0 => entry = "Used"
               /\ entry = "Used" <=> task = "InUse" \/ offered
               /\ ~(task = "InUse" /\ offered)

(* No entry outlives its task, however the task ends, and none is missing  *)
(* while it runs, where set_used and set_unused expect it.                 *)
EntryWhileRunning == Running <=> entry # "None"

(* A connection nobody references and nothing arrives on is closed.        *)
QuietCloses == <>[](refs = 0 /\ frames = <<>>) => <>~Running

=============================================================================
