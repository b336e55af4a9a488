--------------------------- MODULE MCRegistration ---------------------------
(* A registrar and a proxy, and the credentials they ask for.              *)
EXTENDS Registration

Offer(alg, qop) == [alg |-> alg, qop |-> qop]
MCGuards ==
    {[home |-> <<Offer("other", {}), Offer("SHA256", {"auth"})>>, proxy |-> <<Offer("MD5", {})>>],
     [home |-> <<Offer("SHA512-256", {"auth", "auth-int"})>>],
     [home |-> <<Offer("MD5", {"auth"})>>, proxy |-> <<Offer("SHA256", {"auth"}), Offer("MD5", {})>>],
     [home |-> <<Offer("SHA256", {"other"})>>]}
=============================================================================
