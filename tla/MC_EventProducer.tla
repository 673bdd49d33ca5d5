--------------------------- MODULE MC_EventProducer ---------------------------
(***************************************************************************)
(* A small instance of EventProducer: two clients that share a partition     *)
(* with nobody, and with each other.                                        *)
(***************************************************************************)
EXTENDS EventProducer, TLC

CONSTANTS c1, c2, c3, p1, p2

Hashed == c1 :> p1 @@ c2 :> p1 @@ c3 :> p2

=============================================================================
