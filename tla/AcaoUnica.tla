------------------------------ MODULE AcaoUnica ------------------------------
(***************************************************************************)
(* What the remote-action channel promises about one id_acao, with the     *)
(* queries, the network and the HTTP answers left out: in each life of the *)
(* API process one request at most takes an id; only that request          *)
(* publishes a review for it, once; and success is reported, to that       *)
(* request alone, only after its review is public.  A restart opens a new  *)
(* life, in which every id may be taken again; reviews of an earlier life  *)
(* may still become public after the restart.                              *)
(***************************************************************************)
EXTENDS Naturals

CONSTANTS
  IdsDeAcao,     \* the id_acao values
  Requisicoes,   \* who asks
  MaxReinicios   \* bound on the number of restarts

VARIABLES
  vida,          \* how many times the process has restarted
  tomadas,       \* <<id, life, request>>: the request took the id in that life
  publicadas,    \* those whose review is public
  confirmadas    \* those whose success was answered

absVars == <<vida, tomadas, publicadas, confirmadas>>

Usos == IdsDeAcao \X (0 .. MaxReinicios) \X Requisicoes

AbsInit ==
  /\ vida = 0
  /\ tomadas = {} /\ publicadas = {} /\ confirmadas = {}

Tomar(id, quem) ==
  /\ \A uso \in tomadas : ~(uso[1] = id /\ uso[2] = vida)
  /\ tomadas' = tomadas \union {<<id, vida, quem>>}
  /\ UNCHANGED <<vida, publicadas, confirmadas>>

PublicarUso(uso) ==
  /\ uso \in tomadas \ publicadas
  /\ publicadas' = publicadas \union {uso}
  /\ UNCHANGED <<vida, tomadas, confirmadas>>

ConfirmarUso(uso) ==
  /\ uso \in publicadas \ confirmadas
  /\ uso[2] = vida
  /\ confirmadas' = confirmadas \union {uso}
  /\ UNCHANGED <<vida, tomadas, publicadas>>

AbrirVida ==
  /\ vida < MaxReinicios
  /\ vida' = vida + 1
  /\ UNCHANGED <<tomadas, publicadas, confirmadas>>

AbsNext ==
  \/ \E id \in IdsDeAcao, quem \in Requisicoes : Tomar(id, quem)
  \/ \E uso \in Usos : PublicarUso(uso) \/ ConfirmarUso(uso)
  \/ AbrirVida

AbsSpec == AbsInit /\ [][AbsNext]_absVars
==============================================================================
