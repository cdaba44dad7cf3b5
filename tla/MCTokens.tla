------------------------------- MODULE MCTokens -------------------------------
(* A small instance of Tokens: two calls for one installation and one for
   another. *)
EXTENDS Tokens

InstalacaoDeMC == [c \in Chamadas |-> IF c = "c3" THEN 2 ELSE 1]
==============================================================================
