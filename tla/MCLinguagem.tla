------------------------------ MODULE MCLinguagem ------------------------------
(* A small instance of Linguagem: two packages with a test each. *)
EXTENDS Linguagem, TLC

PacoteDeMC == ("TestA" :> "p1") @@ ("TestB" :> "p2")
==============================================================================
