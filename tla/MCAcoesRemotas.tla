--------------------------- MODULE MCAcoesRemotas ----------------------------
(* Small instances of AcoesRemotas.  One repository with one pull request,
   opened by ana; "Ana" is the spelling of her login in the configuration, bia
   is a reviewer, and caio has no link. *)
EXTENDS AcoesRemotas, TLC

CONSTANTS p1, p2, p3, i1, pr1, repo1

ContaDe == [l \in Logins |-> IF l = "Ana" THEN "ana" ELSE l]
VinculoDe == [u \in Usuarios |-> CASE u = "U_ana" -> "Ana" [] u = "U_bia" -> "bia" [] OTHER -> SemLogin]
Autores == [pr \in Prs |-> "ana"]
Repositorios == [pr \in Prs |-> repo1]

Corpo(i, t, u) == [id |-> i, tipo |-> t, usuario |-> u, pr |-> pr1]

(* All types and users on one id. *)
PedidosDeUmId ==
  {Corpo(i1, "aprovar", "U_ana"), Corpo(i1, "aprovar", "U_bia"), Corpo(i1, "aprovar", "U_caio"),
   Corpo(i1, "solicitar_alteracao", "U_ana"), Corpo(i1, "reexecutar_analise", "U_bia")}

(* The same click delivered several times. *)
MesmoClique == {Corpo(i1, "aprovar", "U_bia")}

(* Requests are interchangeable. *)
Simetria == Permutations(Requisicoes)
==============================================================================
