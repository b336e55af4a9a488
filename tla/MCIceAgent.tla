----------------------------- MODULE MCIceAgent -----------------------------
(***************************************************************************)
(* Instances of IceAgent: the agents see each other directly, or the one   *)
(* that makes the offer is behind an address translator; the other one has *)
(* one address or two, and keeps all pairs or one.                         *)
(***************************************************************************)
EXTENDS IceAgent

CompRtp == [a \in {"a1", "b1", "b2"} |-> "rtp"]
TieA == [x \in {"A", "B"} |-> IF x = "A" THEN 1 ELSE 0]

Place(b, nat, limit, prompt, losses) ==
    [hosts |-> [x \in {"A", "B"} |-> IF x = "A" THEN <<"a1">> ELSE b],
     seen |-> [a \in {"a1", "b1", "b2"} |-> IF nat /\ a = "a1" THEN "x1" ELSE a],
     max_pairs |-> [x \in {"A", "B"} |-> IF x = "A" THEN 100 ELSE limit],
     prompt |-> prompt, losses |-> losses]

Checked ==
    {Place(<<"b1">>, TRUE, 100, FALSE, 0), Place(<<"b1">>, TRUE, 100, TRUE, 1),
     Place(<<"b1">>, FALSE, 100, TRUE, 1), Place(<<"b1", "b2">>, FALSE, 100, TRUE, 0),
     Place(<<"b1", "b2">>, TRUE, 100, TRUE, 0), Place(<<"b1", "b2">>, FALSE, 1, TRUE, 0)}
=============================================================================
