------------------------- MODULE MCStreamTransport -------------------------
(* A peer that ends the head of a message with Content-Length, or not.     *)
EXTENDS StreamTransport

Layout(head, body) == [head |-> head, body |-> body]
LengthLast == {Layout(<<"line", "len">>, 1), Layout(<<"line", "line", "line">>, 0),
               Layout(<<"line", "len">>, 3), Layout(<<"bad", "len">>, 1)}
LengthFirst == {Layout(<<"line", "len", "line">>, 1)}
=============================================================================
