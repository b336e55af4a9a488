--------------------------- MODULE MCTransactions ---------------------------
(* A small instance of the transaction registry: one key of each kind, two *)
(* receive tasks racing over three registrations.                            *)
EXTENDS Transactions, TLC

CONSTANTS c1, i1, o1, r1, r2, r3, t1, t2

MCClientKeys == {c1}
MCInviteKeys == {i1}
MCOtherKeys == {o1}
MCRegs == {r1, r2, r3}
MCTasks == {t1, t2}

(* regKey and msg of an unused registration or task do not matter, so the  *)
(* run starts from one choice of them.                                     *)
MCInit == /\ Init
          /\ regKey = [r \in Regs |-> c1]
          /\ msg = [t \in Tasks |-> [key |-> i1, kind |-> "ack"]]

MCSpec == MCInit /\ [][Next]_vars

MCSymmetry == Permutations(MCRegs) \cup Permutations(MCTasks)
=============================================================================
