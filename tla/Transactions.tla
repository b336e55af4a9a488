---------------------------- MODULE Transactions ----------------------------
(***************************************************************************)
(* The transaction registry of sip-core (transaction/mod.rs,               *)
(* transaction/registration.rs, transaction/key.rs) together with the part *)
(* of Endpoint::do_receive that dispatches a received message to it.       *)
(*                                                                         *)
(* Transactions.map is a mutex-protected map from transaction keys to      *)
(* handlers; a handler owns the sending half of an unbounded channel whose *)
(* receiving half is owned by one TsxRegistration.  Every received message *)
(* runs in a task of its own, so the dispatch of one message interleaves   *)
(* with that of any other and with the dropping of registrations.          *)
(***************************************************************************)
EXTENDS Naturals, Sequences

CONSTANTS
    ClientKeys,   \* TsxKeys with Role::Client (random branches)
    InviteKeys,   \* TsxKeys with Role::Server and no method: INVITE and its ACK
    OtherKeys,    \* TsxKeys with Role::Server and a method
    Regs,         \* identities of TsxRegistration objects (reused once dropped)
    Tasks,        \* identities of the tasks spawned by Endpoint::receive
    NoReg,        \* no registration
    QueueBound    \* bound on the messages waiting in one unbounded channel

ASSUME NoRegAssumption == NoReg \notin Regs
ASSUME QueueAssumption == QueueBound \in Nat
ASSUME KeyAssumption == /\ ClientKeys \cap (InviteKeys \cup OtherKeys) = {}
                        /\ InviteKeys \cap OtherKeys = {}

VARIABLES
    map,        \* Transactions.map: key -> registration fed by its handler
    filtered,   \* keys whose handler was wrapped by add_filter (rejects ACK)
    regState,   \* life of each TsxRegistration
    regKey,     \* TsxRegistration.tsx_key
    queue,      \* the channel between handler and registration
    used,       \* client keys handed out by TsxKey::client so far
    pc,         \* where each do_receive task stands
    msg,        \* the message each task was spawned for
    tsx,        \* IncomingRequest.tsx of each task: a registration or NoReg
    panicked    \* some expect/panic! of the registry was hit

regVars == <<map, filtered, regState, regKey, queue>>
taskVars == <<pc, msg, tsx>>
vars == <<map, filtered, regState, regKey, queue, used, pc, msg, tsx, panicked>>

ServerKeys == InviteKeys \cup OtherKeys
Keys == ClientKeys \cup ServerKeys

(* TsxKey::from_message_parts: a request yields a server key, a response a *)
(* client key; an ACK has the key of the INVITE it answers.                *)
Messages == [key : ServerKeys, kind : {"request"}]
              \cup [key : InviteKeys, kind : {"ack"}]
              \cup [key : ClientKeys, kind : {"response"}]

Init ==
    /\ map = [k \in Keys |-> NoReg]
    /\ filtered = {}
    /\ regState = [r \in Regs |-> "free"]
    /\ regKey \in [Regs -> Keys]
    /\ queue = [r \in Regs |-> <<>>]
    /\ used = {}
    /\ pc = [t \in Tasks |-> "idle"]
    /\ msg \in [Tasks -> Messages]
    /\ tsx = [t \in Tasks |-> NoReg]
    /\ panicked = FALSE

-----------------------------------------------------------------------------
(* A handler and a registration with a fresh channel for key k; the caller *)
(* holds the map's lock.                                                   *)
Insert(k, r) ==
    /\ regState[r] = "free"
    /\ map' = [map EXCEPT ![k] = r]
    /\ filtered' = filtered \ {k}
    /\ regState' = [regState EXCEPT ![r] = "live"]
    /\ regKey' = [regKey EXCEPT ![r] = k]
    /\ queue' = [queue EXCEPT ![r] = <<>>]
(* Mutant: a branch may be handed out again.                               *)
CreateReused(k, r) ==
    /\ k \in ClientKeys
    /\ used' = used \cup {k}
    /\ IF map[k] = NoReg
       THEN Insert(k, r) /\ UNCHANGED panicked
       ELSE panicked' = TRUE /\ UNCHANGED regVars
    /\ UNCHANGED taskVars

(* TsxRegistration::create for a key of TsxKey::client.  The branch is     *)
(* random, so the key was never used; an occupied entry panics.            *)
Create(k, r) ==
    /\ k \in ClientKeys \ used
    /\ used' = used \cup {k}
    /\ IF map[k] = NoReg
       THEN Insert(k, r) /\ UNCHANGED panicked
       ELSE panicked' = TRUE /\ UNCHANGED regVars
    /\ UNCHANGED taskVars

(* Endpoint::receive: a task is spawned for a message.  Responses answer   *)
(* requests that were sent, so their branch is one of ours.                *)
Receive(t, m) ==
    /\ pc[t] = "idle"
    /\ m.kind = "response" => m.key \in used
    /\ pc' = [pc EXCEPT ![t] = "received"]
    /\ msg' = [msg EXCEPT ![t] = m]
    /\ tsx' = [tsx EXCEPT ![t] = NoReg]
    /\ UNCHANGED <<map, filtered, regState, regKey, queue, used, panicked>>
(* Mutant: the lock is released between the lookup and the insertion.      *)
DispatchNewUnchecked(t, r) ==
    /\ pc[t] = "received"
    /\ Insert(msg[t].key, r)
    /\ tsx' = [tsx EXCEPT ![t] = r]
    /\ pc' = [pc EXCEPT ![t] = IF msg[t].kind = "response" THEN "dropping" ELSE "layers"]
    /\ UNCHANGED <<msg, used, panicked>>

(* get_handler finds no entry: a registration is created on the spot.  A   *)
(* request goes to the layers with it, an orphaned response drops it.      *)
DispatchNew(t, r) ==
    /\ pc[t] = "received"
    /\ map[msg[t].key] = NoReg
    /\ Insert(msg[t].key, r)
    /\ tsx' = [tsx EXCEPT ![t] = r]
    /\ pc' = [pc EXCEPT ![t] = IF msg[t].kind = "response" THEN "dropping" ELSE "layers"]
    /\ UNCHANGED <<msg, used, panicked>>

(* The handler refuses a message when its filter does (an ACK after a 2xx) *)
(* or when the receiving half of the channel is gone.                      *)
Rejects(m) ==
    \/ m.key \in filtered /\ m.kind = "ack"
    \/ regState[map[m.key]] = "free"

(* get_handler finds an entry and the handler takes the message.           *)
DispatchDelivered(t) ==
    LET m == msg[t] IN
    /\ pc[t] = "received"
    /\ map[m.key] # NoReg
    /\ ~Rejects(m)
    /\ Len(queue[map[m.key]]) < QueueBound
    /\ queue' = [queue EXCEPT ![map[m.key]] = Append(@, m)]
    /\ pc' = [pc EXCEPT ![t] = "idle"]
    /\ UNCHANGED <<map, filtered, regState, regKey, used, msg, tsx, panicked>>

(* The handler rejects: a request goes to the layers without registration, *)
(* a response is orphaned.                                                 *)
DispatchRejected(t) ==
    /\ pc[t] = "received"
    /\ map[msg[t].key] # NoReg
    /\ Rejects(msg[t])
    /\ pc' = [pc EXCEPT ![t] = IF msg[t].kind = "response" THEN "idle" ELSE "layers"]
    /\ UNCHANGED <<map, filtered, regState, regKey, queue, used, msg, tsx, panicked>>

(* A layer takes a request, or handle_unwanted_request answers it: the     *)
(* server transaction is made from IncomingRequest.take_tsx_registration,  *)
(* which panics without one.  The registration leaves the task.            *)
TakeTsx(t) ==
    /\ pc[t] = "layers"
    /\ msg[t].kind = "request"
    /\ panicked' = (panicked \/ tsx[t] = NoReg)
    /\ pc' = [pc EXCEPT ![t] = "idle"]
    /\ tsx' = [tsx EXCEPT ![t] = NoReg]
    /\ UNCHANGED <<map, filtered, regState, regKey, queue, used, msg>>

(* A layer takes the request and lets go of it, or the request is an ACK   *)
(* nobody wants: the IncomingRequest is dropped with what it owns.         *)
LetGo(t) ==
    /\ pc[t] = "layers"
    /\ pc' = [pc EXCEPT ![t] = IF tsx[t] = NoReg THEN "idle" ELSE "dropping"]
    /\ UNCHANGED <<map, filtered, regState, regKey, queue, used, msg, tsx, panicked>>

-----------------------------------------------------------------------------
(* Registrations held by a transaction object rather than by a task.       *)
Owned(r) == regState[r] = "live" /\ \A t \in Tasks : tsx[t] # r

(* ServerInvTsx::respond_success: add_filter wraps the handler, which it   *)
(* expects to find.                                                        *)
AddFilter(r) ==
    /\ Owned(r)
    /\ regKey[r] \in InviteKeys
    /\ regKey[r] \notin filtered
    /\ panicked' = (panicked \/ map[regKey[r]] = NoReg)
    /\ filtered' = filtered \cup {regKey[r]}
    /\ UNCHANGED <<map, regState, regKey, queue, used, pc, msg, tsx>>

(* TsxRegistration::receive.  With the handler gone the channel is closed  *)
(* and the expect panics once the queue is empty.                          *)
RegReceive(r) ==
    /\ Owned(r)
    /\ IF queue[r] # <<>>
       THEN queue' = [queue EXCEPT ![r] = Tail(@)] /\ UNCHANGED panicked
       ELSE /\ map[regKey[r]] # r
            /\ panicked' = TRUE
            /\ UNCHANGED queue
    /\ UNCHANGED <<map, filtered, regState, regKey, used, pc, msg, tsx>>
(* Mutant: the registration goes and leaves its entry behind.              *)
RemoveNothing(r) ==
    /\ regState' = [regState EXCEPT ![r] = "removed"]
    /\ UNCHANGED <<map, filtered>>

(* TsxRegistration::drop first removes the entry of its key ...            *)
Remove(r) ==
    /\ map' = [map EXCEPT ![regKey[r]] = NoReg]
    /\ filtered' = filtered \ {regKey[r]}
    /\ regState' = [regState EXCEPT ![r] = "removed"]

DropOwned(r) ==
    /\ Owned(r)
    /\ Remove(r)
    /\ UNCHANGED <<regKey, queue, used, pc, msg, tsx, panicked>>

DropTask(t) ==
    /\ pc[t] = "dropping"
    /\ Remove(tsx[t])
    /\ pc' = [pc EXCEPT ![t] = "idle"]
    /\ tsx' = [tsx EXCEPT ![t] = NoReg]
    /\ UNCHANGED <<regKey, queue, used, msg, panicked>>

(* ... and then its fields, closing the channel with what is queued in it. *)
DropReceiver(r) ==
    /\ regState[r] = "removed"
    /\ regState' = [regState EXCEPT ![r] = "free"]
    /\ queue' = [queue EXCEPT ![r] = <<>>]
    /\ UNCHANGED <<map, filtered, regKey, used, pc, msg, tsx, panicked>>

TaskStep(t) ==
    \/ \E m \in Messages : Receive(t, m)
    \/ \E r \in Regs : DispatchNew(t, r)
    \/ DispatchDelivered(t)
    \/ DispatchRejected(t)
    \/ TakeTsx(t)
    \/ LetGo(t)
    \/ DropTask(t)

RegStep(r) ==
    \/ \E k \in ClientKeys : Create(k, r)
    \/ AddFilter(r)
    \/ RegReceive(r)
    \/ DropOwned(r)
    \/ DropReceiver(r)

Next == (\E t \in Tasks : TaskStep(t)) \/ (\E r \in Regs : RegStep(r))

Spec == Init /\ [][Next]_vars

-----------------------------------------------------------------------------
(* Types: the map, the registrations and the tasks of the endpoint.        *)
TypeOK ==
    /\ map \in [Keys -> Regs \cup {NoReg}]
    /\ filtered \in SUBSET Keys
    /\ regState \in [Regs -> {"free", "live", "removed"}]
    /\ regKey \in [Regs -> Keys]
    /\ queue \in [Regs -> Seq(Messages)]
    /\ used \in SUBSET ClientKeys
    /\ pc \in [Tasks -> {"idle", "received", "layers", "dropping"}]
    /\ msg \in [Tasks -> Messages]
    /\ tsx \in [Tasks -> Regs \cup {NoReg}]
    /\ panicked \in BOOLEAN

(* An entry of the map always feeds a live registration of its own key, so *)
(* a handler never sends into a closed channel, ...                        *)
EntriesLive ==
    \A k \in Keys : map[k] # NoReg => /\ regState[map[k]] = "live"
                                      /\ regKey[map[k]] = k

(* ... and a live registration always has the entry of its key: it is      *)
(* neither shadowed by a second registration nor removed by the drop of    *)
(* an older registration of the same key that is still under way.          *)
RegistrationsListed ==
    \A r \in Regs : regState[r] = "live" => map[regKey[r]] = r

(* Map and registrations agree in both directions.                         *)
RegistryConsistent == EntriesLive /\ RegistrationsListed

(* A registration belongs to one IncomingRequest at most and is live for   *)
(* as long as the request is.                                              *)
TasksHold ==
    /\ \A t \in Tasks : tsx[t] # NoReg =>
          /\ regState[tsx[t]] = "live"
          /\ regKey[tsx[t]] = msg[t].key
          /\ pc[t] \in {"layers", "dropping"}
    /\ \A t, u \in Tasks : tsx[t] # NoReg /\ tsx[t] = tsx[u] => t = u
    /\ \A t \in Tasks : pc[t] = "dropping" => tsx[t] # NoReg

(* A request that is not an ACK always reaches the layers with a           *)
(* registration, even when it arrives while an earlier transaction of the  *)
(* same key is being dropped.                                              *)
RequestsRegistered ==
    \A t \in Tasks : pc[t] = "layers" /\ msg[t].kind = "request" => tsx[t] # NoReg

(* A client key that was never handed out has no entry: register_          *)
(* transaction does not find an occupied one.                              *)
UnusedUnlisted == /\ \A k \in ClientKeys \ used : map[k] = NoReg
                  /\ \A t \in Tasks : pc[t] # "idle" /\ msg[t].kind = "response"
                                        => msg[t].key \in used

(* None of the registry's expects and panics is ever reached: "Tried to    *)
(* create a second transaction" in register_transaction, the two           *)
(* "registration is responsible of handler lifetime inside endpoint" in    *)
(* add_filter and receive, and take_tsx_registration without one.          *)
NoPanic == ~panicked

(* Retransmissions of a request never reach the layers beside the original *)
(* while its transaction lives: two requests of one key are never handled  *)
(* at the same time, nor one beside a transaction made from the other.     *)
NoTwinRequests ==
    \A t, u \in Tasks :
        /\ pc[t] = "layers" /\ msg[t].kind = "request"
        => /\ ~\E r \in Regs : Owned(r) /\ regKey[r] = msg[t].key
           /\ (pc[u] = "layers" /\ msg[u] = msg[t]) => t = u

(* The inductive invariant.                                                *)
RegistryInv == /\ TypeOK
               /\ RegistryConsistent
               /\ TasksHold
               /\ RequestsRegistered
               /\ UnusedUnlisted
               /\ NoPanic
=============================================================================
