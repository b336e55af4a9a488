---------------------------- MODULE LossyNetwork ----------------------------
(***************************************************************************)
(* The network between two endpoints, as sip-core's transports use it: a   *)
(* bag of messages, each with the ticks it may still be under way.         *)
(***************************************************************************)
LOCAL INSTANCE Naturals

CONSTANTS Kinds,      \* what the properties tell apart about a message
          MaxDelay    \* ticks a message may spend in the network

Message == [kind : Kinds, left : 0 .. MaxDelay]

Networks == [Message -> Nat]

Empty == [m \in Message |-> 0]

Send(net, kind) == [net EXCEPT ![[kind |-> kind, left |-> MaxDelay]] = @ + 1]

Take(net, m) == [net EXCEPT ![m] = @ - 1]

InFlight(net) == {m \in Message : net[m] > 0}

(* A tick later every message has one tick less.                           *)
Age(net) == [m \in Message |-> IF m.left = MaxDelay
                               THEN 0
                               ELSE net[[m EXCEPT !.left = @ + 1]]]

(* Some message has to arrive, or be lost, before time may pass.           *)
Overdue(net) == \E m \in InFlight(net) : m.left = 0
=============================================================================
