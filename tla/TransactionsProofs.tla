------------------------- MODULE TransactionsProofs -------------------------
(***************************************************************************)
(* The registry's invariant holds for any number of keys, registrations    *)
(* and concurrent receive tasks.  RegistryInv is inductive; it is needed   *)
(* because NoPanic and RequestsRegistered alone say nothing of the map: an *)
(* entry that outlived its registration would only surface when the next   *)
(* message of that key is dispatched.                                      *)
(***************************************************************************)
EXTENDS Transactions, TLAPS

USE NoRegAssumption, QueueAssumption, KeyAssumption

(* A message's key is a key of the map.                                    *)
LEMMA MessageKey == \A m \in Messages : /\ m.key \in Keys
                                        /\ m.kind \in {"request", "ack", "response"}
                                        /\ m.kind = "response" <=> m.key \in ClientKeys
  BY DEF Messages, Keys, ServerKeys

(* The registry starts consistent: empty map, no registration in use.      *)
LEMMA InitInv == Init => RegistryInv
  <1> SUFFICES ASSUME Init PROVE RegistryInv
    OBVIOUS
  <1>1. TypeOK
    <2>1. queue \in [Regs -> Seq(Messages)]
      <3>1. <<>> \in Seq(Messages)
        OBVIOUS
      <3> QED BY <3>1 DEF Init
    <2> QED BY <2>1 DEF Init, TypeOK
  <1>2. RegistryConsistent
    BY DEF Init, RegistryConsistent, EntriesLive, RegistrationsListed
  <1>3. TasksHold /\ RequestsRegistered /\ UnusedUnlisted /\ NoPanic
    BY DEF Init, TasksHold, RequestsRegistered, UnusedUnlisted, NoPanic, Keys
  <1> QED
    BY <1>1, <1>2, <1>3 DEF RegistryInv

(* Inserting a handler for a key without entry, with an unused             *)
(* registration, keeps the map and the registrations in step.              *)
LEMMA InsertConsistent ==
  ASSUME TypeOK, RegistryConsistent, NEW k \in Keys, NEW r \in Regs,
         map[k] = NoReg, Insert(k, r)
  PROVE  RegistryConsistent'
  BY DEF TypeOK, RegistryConsistent, EntriesLive, RegistrationsListed, Insert

(* Dropping a live registration removes its own entry and no other.        *)
LEMMA RemoveConsistent ==
  ASSUME TypeOK, RegistryConsistent, NEW r \in Regs, regState[r] = "live",
         Remove(r), UNCHANGED regKey
  PROVE  RegistryConsistent'
  BY DEF TypeOK, RegistryConsistent, EntriesLive, RegistrationsListed, Remove

(* Every step of a receive task preserves the invariant.                   *)
LEMMA TaskStepInv ==
  ASSUME RegistryInv, NEW t \in Tasks, TaskStep(t)
  PROVE  RegistryInv'
  <1> USE MessageKey DEF RegistryInv
  <1>1. CASE \E m \in Messages : Receive(t, m)
    <2> PICK m \in Messages : Receive(t, m)
      BY <1>1
    <2>1. TypeOK'
      BY DEF TypeOK, Receive
    <2>2. RegistryConsistent'
      BY DEF RegistryConsistent, EntriesLive, RegistrationsListed, Receive
    <2>3. TasksHold'
      BY DEF TypeOK, TasksHold, Receive
    <2>4. (RequestsRegistered /\ UnusedUnlisted /\ NoPanic)'
      BY DEF TypeOK, RequestsRegistered, UnusedUnlisted, NoPanic, Receive
    <2> QED BY <2>1, <2>2, <2>3, <2>4
  <1>2. CASE \E r \in Regs : DispatchNew(t, r)
    <2> PICK r \in Regs : DispatchNew(t, r)
      BY <1>2
    <2>0. msg[t] \in Messages /\ msg[t].key \in Keys
      BY DEF TypeOK
    <2>1. TypeOK'
      BY <2>0 DEF TypeOK, DispatchNew, Insert
    <2>2. RegistryConsistent'
      BY <2>0, InsertConsistent DEF DispatchNew
    <2>3. TasksHold'
      BY <2>0 DEF TypeOK, TasksHold, DispatchNew, Insert
    <2>4. RequestsRegistered'
      BY <2>0 DEF TypeOK, RequestsRegistered, DispatchNew, Insert
    <2>5. UnusedUnlisted'
      BY <2>0 DEF TypeOK, UnusedUnlisted, DispatchNew, Insert, Keys
    <2>6. NoPanic'
      BY DEF NoPanic, DispatchNew
    <2> QED BY <2>1, <2>2, <2>3, <2>4, <2>5, <2>6
  <1>3. CASE DispatchDelivered(t)
    <2>1. TypeOK'
      <3>1. msg[t] \in Messages /\ map[msg[t].key] \in Regs
        BY <1>3 DEF TypeOK, DispatchDelivered
      <3>2. Append(queue[map[msg[t].key]], msg[t]) \in Seq(Messages)
        BY <3>1 DEF TypeOK
      <3>3. queue' \in [Regs -> Seq(Messages)]
        BY <1>3, <3>1, <3>2 DEF TypeOK, DispatchDelivered
      <3> QED BY <1>3, <3>3 DEF TypeOK, DispatchDelivered
    <2>2. RegistryConsistent'
      BY <1>3 DEF RegistryConsistent, EntriesLive, RegistrationsListed, DispatchDelivered
    <2>3. TasksHold'
      BY <1>3 DEF TypeOK, TasksHold, DispatchDelivered
    <2>4. (RequestsRegistered /\ UnusedUnlisted /\ NoPanic)'
      BY <1>3 DEF TypeOK, RequestsRegistered, UnusedUnlisted, NoPanic, DispatchDelivered
    <2> QED BY <2>1, <2>2, <2>3, <2>4
  <1>4. CASE DispatchRejected(t)
    <2>0. msg[t] \in Messages /\ msg[t].kind # "request"
      <3>1. msg[t] \in Messages /\ msg[t].key \in Keys
        BY DEF TypeOK
      <3>2. regState[map[msg[t].key]] = "live"
        BY <1>4, <3>1 DEF RegistryConsistent, EntriesLive, DispatchRejected
      <3> QED BY <1>4, <3>1, <3>2 DEF DispatchRejected, Rejects
    <2>1. TypeOK'
      BY <1>4 DEF TypeOK, DispatchRejected
    <2>2. RegistryConsistent'
      BY <1>4 DEF RegistryConsistent, EntriesLive, RegistrationsListed, DispatchRejected
    <2>3. TasksHold'
      BY <1>4, <2>0 DEF TypeOK, TasksHold, DispatchRejected
    <2>4. (RequestsRegistered /\ UnusedUnlisted /\ NoPanic)'
      BY <1>4, <2>0 DEF TypeOK, RequestsRegistered, UnusedUnlisted, NoPanic, DispatchRejected
    <2> QED BY <2>1, <2>2, <2>3, <2>4
  <1>5. CASE TakeTsx(t)
    <2>1. TypeOK'
      BY <1>5 DEF TypeOK, TakeTsx
    <2>2. RegistryConsistent'
      BY <1>5 DEF RegistryConsistent, EntriesLive, RegistrationsListed, TakeTsx
    <2>3. TasksHold'
      BY <1>5 DEF TypeOK, TasksHold, TakeTsx
    <2>4. (RequestsRegistered /\ UnusedUnlisted)'
      BY <1>5 DEF TypeOK, RequestsRegistered, UnusedUnlisted, TakeTsx
    <2>5. NoPanic'
      BY <1>5 DEF RequestsRegistered, NoPanic, TakeTsx
    <2> QED BY <2>1, <2>2, <2>3, <2>4, <2>5
  <1>6. CASE LetGo(t)
    <2>1. TypeOK'
      BY <1>6 DEF TypeOK, LetGo
    <2>2. RegistryConsistent'
      BY <1>6 DEF RegistryConsistent, EntriesLive, RegistrationsListed, LetGo
    <2>3. TasksHold'
      BY <1>6 DEF TypeOK, TasksHold, LetGo
    <2>4. (RequestsRegistered /\ UnusedUnlisted /\ NoPanic)'
      BY <1>6 DEF TypeOK, RequestsRegistered, UnusedUnlisted, NoPanic, LetGo
    <2> QED BY <2>1, <2>2, <2>3, <2>4
  <1>7. CASE DropTask(t)
    <2>0. tsx[t] \in Regs /\ regState[tsx[t]] = "live"
      BY <1>7 DEF TypeOK, TasksHold, DropTask
    <2>1. TypeOK'
      BY <1>7, <2>0 DEF TypeOK, DropTask, Remove
    <2>2. RegistryConsistent'
      BY <1>7, <2>0, RemoveConsistent DEF DropTask
    <2>3. TasksHold'
      BY <1>7, <2>0 DEF TypeOK, TasksHold, DropTask, Remove
    <2>4. (RequestsRegistered /\ UnusedUnlisted /\ NoPanic)'
      BY <1>7, <2>0 DEF TypeOK, RequestsRegistered, UnusedUnlisted, NoPanic, DropTask, Remove, Keys
    <2> QED BY <2>1, <2>2, <2>3, <2>4
  <1> QED
    BY <1>1, <1>2, <1>3, <1>4, <1>5, <1>6, <1>7 DEF TaskStep

(* Every step of a registration preserves the invariant.                   *)
LEMMA RegStepInv ==
  ASSUME RegistryInv, NEW r \in Regs, RegStep(r)
  PROVE  RegistryInv'
  <1> USE MessageKey DEF RegistryInv
  <1>1. CASE \E k \in ClientKeys : Create(k, r)
    <2> PICK k \in ClientKeys : Create(k, r)
      BY <1>1
    <2>0. k \in Keys /\ k \notin used /\ map[k] = NoReg /\ Insert(k, r) /\ UNCHANGED panicked
      BY DEF Create, UnusedUnlisted, Keys
    <2>1. TypeOK'
      BY <2>0 DEF TypeOK, Create, Insert, taskVars
    <2>2. RegistryConsistent'
      BY <2>0, InsertConsistent
    <2>3. TasksHold'
      BY <2>0 DEF TypeOK, TasksHold, Create, Insert, taskVars
    <2>4. (RequestsRegistered /\ UnusedUnlisted /\ NoPanic)'
      BY <2>0 DEF TypeOK, RequestsRegistered, UnusedUnlisted, NoPanic, Create, Insert, taskVars, Keys
    <2> QED BY <2>1, <2>2, <2>3, <2>4
  <1>2. CASE AddFilter(r)
    <2>1. TypeOK'
      BY <1>2 DEF TypeOK, AddFilter
    <2>2. RegistryConsistent'
      BY <1>2 DEF RegistryConsistent, EntriesLive, RegistrationsListed, AddFilter
    <2>3. TasksHold'
      BY <1>2 DEF TasksHold, AddFilter
    <2>4. (RequestsRegistered /\ UnusedUnlisted)'
      BY <1>2 DEF RequestsRegistered, UnusedUnlisted, AddFilter
    <2>5. NoPanic'
      BY <1>2 DEF RegistryConsistent, RegistrationsListed, NoPanic, AddFilter, Owned
    <2> QED BY <2>1, <2>2, <2>3, <2>4, <2>5
  <1>3. CASE RegReceive(r)
    <2>0. queue[r] # <<>> /\ queue' = [queue EXCEPT ![r] = Tail(@)] /\ UNCHANGED panicked
      BY <1>3 DEF RegReceive, Owned, RegistryConsistent, RegistrationsListed
    <2>1. TypeOK'
      <3>1. Tail(queue[r]) \in Seq(Messages)
        BY <2>0 DEF TypeOK
      <3>2. queue' \in [Regs -> Seq(Messages)]
        BY <2>0, <3>1 DEF TypeOK
      <3> QED BY <1>3, <2>0, <3>2 DEF TypeOK, RegReceive
    <2>2. RegistryConsistent'
      BY <1>3 DEF RegistryConsistent, EntriesLive, RegistrationsListed, RegReceive
    <2>3. TasksHold'
      BY <1>3 DEF TasksHold, RegReceive
    <2>4. (RequestsRegistered /\ UnusedUnlisted /\ NoPanic)'
      BY <1>3, <2>0 DEF RequestsRegistered, UnusedUnlisted, NoPanic, RegReceive
    <2> QED BY <2>1, <2>2, <2>3, <2>4
  <1>4. CASE DropOwned(r)
    <2>1. TypeOK'
      BY <1>4 DEF TypeOK, DropOwned, Remove
    <2>2. RegistryConsistent'
      BY <1>4, RemoveConsistent DEF DropOwned, Owned
    <2>3. TasksHold'
      BY <1>4 DEF TypeOK, TasksHold, DropOwned, Owned, Remove
    <2>4. (RequestsRegistered /\ UnusedUnlisted /\ NoPanic)'
      BY <1>4 DEF TypeOK, RequestsRegistered, UnusedUnlisted, NoPanic, DropOwned, Remove, Keys
    <2> QED BY <2>1, <2>2, <2>3, <2>4
  <1>5. CASE DropReceiver(r)
    <2>1. TypeOK'
      BY <1>5 DEF TypeOK, DropReceiver
    <2>2. RegistryConsistent'
      BY <1>5 DEF TypeOK, RegistryConsistent, EntriesLive, RegistrationsListed, DropReceiver
    <2>3. TasksHold'
      BY <1>5 DEF TypeOK, TasksHold, DropReceiver
    <2>4. (RequestsRegistered /\ UnusedUnlisted /\ NoPanic)'
      BY <1>5 DEF RequestsRegistered, UnusedUnlisted, NoPanic, DropReceiver
    <2> QED BY <2>1, <2>2, <2>3, <2>4
  <1> QED
    BY <1>1, <1>2, <1>3, <1>4, <1>5 DEF RegStep

(* RegistryInv is an invariant of the registry.                            *)
THEOREM RegistryInvariant == Spec => []RegistryInv
  <1>1. RegistryInv /\ UNCHANGED vars => RegistryInv'
    BY DEF vars, RegistryInv, TypeOK, RegistryConsistent, EntriesLive,
           RegistrationsListed, TasksHold, RequestsRegistered, UnusedUnlisted, NoPanic
  <1>2. RegistryInv /\ [Next]_vars => RegistryInv'
    BY <1>1, TaskStepInv, RegStepInv DEF Next
  <1> QED
    BY InitInv, <1>2, PTL DEF Spec

(* Map entries and live registrations are in one-to-one correspondence:    *)
(* Transactions.map never holds a handler whose receiver is gone and a     *)
(* registration's entry is never taken away by somebody else's drop.       *)
THEOREM RegistryIsConsistent == Spec => []RegistryConsistent
  <1>1. RegistryInv => RegistryConsistent
    BY DEF RegistryInv
  <1> QED
    BY RegistryInvariant, <1>1, PTL

(* No expect or panic! of the registry is reachable, whatever the order in *)
(* which messages are dispatched and registrations are dropped.            *)
THEOREM RegistryNeverPanics == Spec => []NoPanic
  <1>1. RegistryInv => NoPanic
    BY DEF RegistryInv
  <1> QED
    BY RegistryInvariant, <1>1, PTL

(* While a request is before the layers or has a server transaction, no    *)
(* retransmission of it reaches the layers as a request of its own.        *)
THEOREM RequestsHaveNoTwin == Spec => []NoTwinRequests
  <1>1. RegistryInv => NoTwinRequests
    <2> SUFFICES ASSUME RegistryInv, NEW t \in Tasks, NEW u \in Tasks,
                        pc[t] = "layers", msg[t].kind = "request"
                 PROVE  /\ ~\E r \in Regs : Owned(r) /\ regKey[r] = msg[t].key
                        /\ (pc[u] = "layers" /\ msg[u] = msg[t]) => t = u
      BY DEF NoTwinRequests
    <2>1. /\ tsx[t] \in Regs
          /\ regState[tsx[t]] = "live"
          /\ map[msg[t].key] = tsx[t]
      BY DEF RegistryInv, TypeOK, RequestsRegistered, TasksHold, RegistryConsistent,
             RegistrationsListed
    <2>2. ASSUME NEW r \in Regs, Owned(r), regKey[r] = msg[t].key PROVE FALSE
      BY <2>1, <2>2 DEF Owned, RegistryInv, RegistryConsistent, RegistrationsListed
    <2>3. ASSUME pc[u] = "layers", msg[u] = msg[t] PROVE t = u
      <3>1. tsx[u] \in Regs /\ map[msg[u].key] = tsx[u]
        BY <2>3 DEF RegistryInv, TypeOK, RequestsRegistered, TasksHold, RegistryConsistent,
                    RegistrationsListed
      <3>2. tsx[t] # NoReg /\ tsx[t] = tsx[u]
        BY <2>1, <2>3, <3>1
      <3>3. \A v, w \in Tasks : tsx[v] # NoReg /\ tsx[v] = tsx[w] => v = w
        BY DEF RegistryInv, TasksHold
      <3> QED BY <3>2, <3>3
    <2> QED BY <2>2, <2>3
  <1> QED
    BY RegistryInvariant, <1>1, PTL
=============================================================================
