----------------------------- MODULE MCWebhooks ------------------------------
(* Small instances of Webhooks: one pull request that two installations know,
   its opening, a new push, and reviews of it. *)
EXTENDS Webhooks, TLC

CONSTANTS p1, p2, p3, t1, t2, pr1

Evento(ev, g, t, d) == [evento |-> ev, gatilho |-> g, tenant |-> t, pr |-> pr1, defeito |-> d]

(* Every branch of the triage and of the validation, for two requests. *)
CargaVariada ==
  [e \in Entregas |->
    CASE e = "abertura" -> Evento("pull_request", "opened", t1, "nenhum")
      [] e = "novo_push" -> Evento("pull_request", "synchronize", t2, "nenhum")
      [] e = "segundo_push" -> Evento("pull_request", "synchronize", t1, "nenhum")
      [] e = "push_invalido" -> Evento("pull_request", "synchronize", t1, "campo")
      [] e = "sem_instalacao" -> Evento("pull_request", "opened", SemInstalacao, "nenhum")
      [] e = "revisao" -> Evento("pull_request_review", "approved", t1, "nenhum")
      [] e = "revisao_numero" -> Evento("pull_request_review", "approved", t1, "numero")
      [] e = "revisao_campo" -> Evento("pull_request_review", "changes_requested", t1, "campo")
      [] e = "comentario" -> Evento("pull_request_review", "commented", t1, "nenhum")
      [] OTHER -> Evento("outro", "closed", t1, "nenhum")]

(* Two pushes and two reviews of one pull request. *)
CargaDeRevisoes ==
  [e \in Entregas |->
    CASE e = "abertura" -> Evento("pull_request", "opened", t1, "nenhum")
      [] e = "novo_push" -> Evento("pull_request", "synchronize", t1, "nenhum")
      [] e = "revisao" -> Evento("pull_request_review", "approved", t1, "nenhum")
      [] OTHER -> Evento("pull_request_review", "changes_requested", t1, "nenhum")]

Simetria == Permutations(Requisicoes)
==============================================================================
