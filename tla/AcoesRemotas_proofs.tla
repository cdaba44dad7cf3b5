------------------------- MODULE AcoesRemotas_proofs -------------------------
(* Proofs of the safety properties of AcoesRemotas for every value of its
   constants. *)
EXTENDS AcoesRemotas, TLAPS

------------------------------------------------------------------------------
(* The inductive invariant of the safety properties, in named parts. *)

AntesDaReserva == {"livre", "identidade", "permissao", "autoria", "reserva"}
Decidida(p, ds) == pc[p] \in {"registro", "resposta"} /\ desfecho[p].decisao \in ds
Dono(p, id, v) == reservou[p] = v /\ pedido[p].id = id
Impressa(p) ==
  [origem |-> p, vida |-> reservou[p], id |-> pedido[p].id, pr |-> pedido[p].pr,
   evento |-> EventoDe(pedido[p].tipo), login |-> situacao[p].login]

(* A request past the handler carries a body; a request not yet received has
   left no trace. *)
CorpoInv ==
  \A p \in Requisicoes :
    /\ pc[p] \in (EmConsulta \union {"aguardando"}) => pedido[p] \in Pedidos
    /\ pc[p] \in (EmCurso \union {"livre"}) => status[p] = 0
    /\ pc[p] \in AntesDaReserva => reservou[p] = Nunca
    /\ reservou[p] # Nunca => pedido[p] \in Pedidos /\ reservou[p] <= vida
    /\ pc[p] \in {"execucao", "aguardando"} => reservou[p] = vida
    /\ pc[p] \in EmCurso /\ reservou[p] # Nunca => reservou[p] = vida

(* The reserved ids of this life are those of the requests that reserved in it,
   and no two requests reserved the same id in the same life. *)
ReservaInv ==
  /\ \A p \in Requisicoes : reservou[p] = vida => pedido[p].id \in reservados
  /\ \A id \in reservados : \E p \in Requisicoes : Dono(p, id, vida)
  /\ \A p, q \in Requisicoes :
       reservou[p] # Nunca /\ reservou[q] = reservou[p] /\ pedido[q].id = pedido[p].id => p = q

(* What the authorization established so far. *)
AutorizacaoInv ==
  \A p \in Requisicoes :
    /\ pc[p] \in EmConsulta => Escritores(pedido[p].pr) \subseteq escritaVista[p]
    /\ pc[p] \in {"permissao", "autoria", "reserva", "execucao"} =>
         situacao[p].login \in Logins /\ situacao[p].login = Vinculo[pedido[p].usuario]
    /\ pc[p] = "autoria" /\ situacao[p].papel \in PermissoesDeEscrita =>
         Conta[situacao[p].login] \in escritaVista[p]
    /\ pc[p] \in {"reserva", "execucao"} =>
         /\ desfecho[p].decisao = "aceita"
         /\ Conta[situacao[p].login] \in escritaVista[p]
         /\ pedido[p].tipo = "aprovar" => Conta[situacao[p].login] # Conta[AutorDe[pedido[p].pr]]

(* A review in the network or on GitHub is the one its request sent, after
   reserving the id. *)
EfeitoInv ==
  \A r \in rede \union reviews :
    /\ r = Impressa(r.origem)
    /\ pc[r.origem] \notin (AntesDaReserva \union {"execucao"})

(* What the decision of a request says about its effect. *)
DecisaoInv ==
  \A p \in Requisicoes :
    /\ pc[p] = "aguardando" => desfecho[p].decisao = "aceita"
    /\ retorno[p] = "ok" => \E r \in reviews : r.origem = p
    /\ Decidida(p, {"aceita"}) \/ status[p] = 202 => \E r \in reviews : r.origem = p
    /\ Decidida(p, {"recusada", "invalida", "repetida"}) \/ status[p] \in {400, 401, 403, 409} =>
         reservou[p] = Nunca
    /\ Decidida(p, {"repetida"}) \/ status[p] = 409 =>
         \E q \in Requisicoes \ {p} : reservou[q] # Nunca /\ pedido[q].id = pedido[p].id
    /\ pc[p] \in {"registro", "resposta"} => desfecho[p].decisao \in Decisoes

(* A row of the register is the attempt of a request that is past its write,
   and says what that request answered and did. *)
Assentados == {"resposta", "fim", "perdida"}
AtestaInv ==
  \A t \in tentativas :
    /\ t.origem \in Requisicoes /\ pc[t.origem] \in Assentados
    /\ t = TentativaDe(t.origem)
    /\ status[t.origem] \in {0, StatusDe(t.desfecho.decisao)}
    /\ RegistroDuravel => t.desfecho.decisao # "repetida"
    /\ LinhaFiel(t)

(* A request past its write with an effect has a row of its id, its own or of
   a request that did not reserve the id in the same life, unless it failed. *)
LinhaSegura(r, t) ==
  /\ t.pedido.id = r.id
  /\ t.origem # r.origem => reservou[t.origem] # reservou[r.origem]
LinhaInv ==
  RegistroDuravel => \A r \in rede \union reviews :
    (pc[r.origem] = "resposta" \/ status[r.origem] # 0) /\ r.origem \notin semRegistro =>
      \E t \in tentativas : LinhaSegura(r, t)

(* The inductive invariant. *)
IndInv == TypeOK /\ CorpoInv /\ ReservaInv /\ AutorizacaoInv /\ EfeitoInv /\ EfeitoAutorizado /\ DecisaoInv

------------------------------------------------------------------------------
(* The sets of stages, as the flat sets they are. *)
LEMMA EtapasEnumeradas ==
  /\ EmCurso = {"identidade", "permissao", "autoria", "reserva", "execucao",
                "aguardando", "registro", "resposta"}
  /\ Etapas = EmCurso \union {"livre", "fim", "perdida"}
  BY DEF EmCurso, Etapas, EmConsulta

LEMMA RespostaValida ==
  \A d \in Decisoes \union {"nenhuma"} : StatusDe(d) \in {202, 400, 403, 409, 500}
  BY DEF Decisoes, StatusDe

(* SeguirVeredito sends the request to the reservation or ends it as refused. *)
LEMMA VereditoSegue ==
  ASSUME NEW p, NEW de, NEW papel, NEW autor, SeguirVeredito(p, de, papel, autor)
  PROVE  /\ pc[p] = de
         /\ \/ /\ pc' = [pc EXCEPT ![p] = "reserva"]
               /\ desfecho' = [desfecho EXCEPT ![p] = [decisao |-> "aceita", motivo |-> "autorizada"]]
               /\ papel \in PermissoesDeEscrita
               /\ pedido[p].tipo = "aprovar" => Conta[situacao[p].login] # Conta[autor]
            \/ /\ pc' = [pc EXCEPT ![p] = "registro"]
               /\ \E m \in Motivos :
                    desfecho' = [desfecho EXCEPT ![p] = [decisao |-> "recusada", motivo |-> m]]
  BY DEF SeguirVeredito, Veredito, MesmoLogin, Ir, Decidir, Motivos

(* The review a request is about to send has the type of a review. *)
LEMMA ReviewBemFormada ==
  ASSUME TypeOK, NEW p \in Requisicoes, pedido[p] \in Pedidos, situacao[p].login \in Logins
  PROVE  ReviewDe(p) \in Reviews
  BY AcoesAssumption DEF TypeOK, ReviewDe, Reviews, EventoDe, Eventos, CorposValidos

LEMMA CamposDoPedido ==
  \A x \in Pedidos :
    /\ x.id \in IdsDeAcao /\ x.tipo \in Tipos /\ x.usuario \in Usuarios /\ x.pr \in Prs
    /\ RepoDe[x.pr] \in Repos
    /\ Vinculo[x.usuario] \in Logins \union {SemLogin}
    /\ AutorDe[x.pr] \in Logins
  BY AcoesAssumption DEF CorposValidos

LEMMA DecisaoValida ==
  ASSUME desfecho \in [Requisicoes -> Desfechos], NEW p \in Requisicoes,
         NEW d \in Decisoes, NEW m \in Motivos,
         desfecho' = [desfecho EXCEPT ![p] = [decisao |-> d, motivo |-> m]]
  PROVE  desfecho' \in [Requisicoes -> Desfechos]
  BY DEF Desfechos

(* An outcome that stays, or that is decided, has its type. *)
LEMMA DesfechoTipado ==
  ASSUME desfecho \in [Requisicoes -> Desfechos], NEW p \in Requisicoes,
         desfecho' = desfecho \/ \E d \in Decisoes, m \in Motivos : Decidir(p, d, m)
  PROVE  desfecho' \in [Requisicoes -> Desfechos]
  BY DecisaoValida DEF Decidir

(* The outcomes the authorisation decides. *)
LEMMA DesfechosDaConsulta ==
  /\ {"aceita", "recusada"} \subseteq Decisoes
  /\ {"autorizada", "falha_na_identidade", "sem_vinculo"} \subseteq Motivos
  BY DEF Decisoes, Motivos

(* What SeguirVeredito does to the outcome and to the stage of a request. *)
LEMMA VereditoTipado ==
  ASSUME desfecho \in [Requisicoes -> Desfechos], pc \in [Requisicoes -> Etapas],
         NEW p \in Requisicoes, NEW de, NEW papel, NEW autor,
         SeguirVeredito(p, de, papel, autor)
  PROVE  desfecho' \in [Requisicoes -> Desfechos] /\ pc' \in [Requisicoes -> Etapas]
  <1>1. \/ desfecho' = [desfecho EXCEPT ![p] = [decisao |-> "aceita", motivo |-> "autorizada"]]
        \/ \E m \in Motivos :
             desfecho' = [desfecho EXCEPT ![p] = [decisao |-> "recusada", motivo |-> m]]
    BY VereditoSegue
  <1>2. pc' = [pc EXCEPT ![p] = "reserva"] \/ pc' = [pc EXCEPT ![p] = "registro"]
    BY VereditoSegue
  <1>3. \E d \in Decisoes, m \in Motivos : Decidir(p, d, m)
    BY <1>1, DesfechosDaConsulta DEF Decidir
  <1> QED
    BY <1>2, <1>3, DesfechoTipado, EtapasEnumeradas

LEMMA TentativaBemFormada ==
  ASSUME TypeOK, NEW p \in Requisicoes PROVE TentativaDe(p) \in Tentativas
  BY DEF TypeOK, TentativaDe, Tentativas, Situacoes

------------------------------------------------------------------------------
(* Type correctness *)

LEMMA TipoInicial == Init => TypeOK
  BY AcoesAssumption, EtapasEnumeradas DEF Init, TypeOK, Vidas, Nunca, Situacoes,
     SemSituacao, Desfechos, Indeciso

LEMMA TipoPreservado ==
  ASSUME TypeOK, CorpoInv, AutorizacaoInv, [Next]_vars
  PROVE  TypeOK'
  <1>1. ASSUME NEW p \in Requisicoes, Entrada(p) PROVE TypeOK'
    <2>1. CASE RejeitarNaPorta(p)
      BY <2>1, EtapasEnumeradas DEF TypeOK, RejeitarNaPorta, Ir, github, historia
    <2>2. CASE RejeitarCorpo(p)
      <3>1. desfecho' \in [Requisicoes -> Desfechos]
        BY <2>2, DecisaoValida DEF TypeOK, RejeitarCorpo, Decidir, Decisoes, Motivos
      <3> QED
        BY <2>2, <3>1, EtapasEnumeradas DEF TypeOK, RejeitarCorpo, Ir, github, historia
    <2>3. ASSUME NEW corpo \in Pedidos, Receber(p, corpo) PROVE TypeOK'
      <3>1. Escritores(corpo.pr) \in SUBSET Contas
        BY DEF Escritores
      <3> QED
        BY <2>3, <3>1, EtapasEnumeradas DEF TypeOK, Receber, Ir, github
    <2> QED
      BY <1>1, <2>1, <2>2, <2>3 DEF Entrada
  <1>2. ASSUME NEW p \in Requisicoes, Cancelar(p) PROVE TypeOK'
    BY <1>2, EtapasEnumeradas DEF TypeOK, Cancelar, github, historia
  <1>3. ASSUME NEW p \in Requisicoes, Identificar(p) PROVE TypeOK'
    <2>1. /\ pc' \in [Requisicoes -> Etapas]
          /\ UNCHANGED <<pedido, cancelado, status, reservados, tentativas, github, vida, historia>>
      BY <1>3, EtapasEnumeradas DEF TypeOK, Identificar, LoginGitHub, Ir
    <2>2. desfecho' \in [Requisicoes -> Desfechos]
      <3>1. \/ desfecho' = desfecho
            \/ Decidir(p, "recusada", "falha_na_identidade")
            \/ Decidir(p, "recusada", "sem_vinculo")
        BY <1>3 DEF Identificar
      <3>2. desfecho \in [Requisicoes -> Desfechos]
        BY DEF TypeOK
      <3> QED
        BY <3>1, <3>2, DesfechosDaConsulta, DesfechoTipado
    <2>3. situacao' \in [Requisicoes -> Situacoes]
      BY <1>3, CamposDoPedido DEF TypeOK, Identificar, LoginGitHub, Situacoes, CorpoInv, EmConsulta, Ir
    <2> QED
      BY <2>1, <2>2, <2>3 DEF TypeOK, github, historia
  <1>4. ASSUME NEW p \in Requisicoes, ConsultarPermissao(p) PROVE TypeOK'
    <2>1. UNCHANGED <<pedido, cancelado, status, reservados, tentativas, github, vida, historia>>
      BY <1>4 DEF ConsultarPermissao, PermissaoNoRepositorio
    <2>0. desfecho \in [Requisicoes -> Desfechos] /\ pc \in [Requisicoes -> Etapas]
      BY DEF TypeOK
    <2>a. \/ Ir(p, "permissao", "autoria") /\ UNCHANGED desfecho
          \/ \E papel : SeguirVeredito(p, "permissao", papel, SemLogin)
      BY <1>4 DEF ConsultarPermissao
    <2>2. pc' \in [Requisicoes -> Etapas]
      BY <2>0, <2>a, EtapasEnumeradas, VereditoTipado DEF Ir
    <2>3. desfecho' \in [Requisicoes -> Desfechos]
      BY <2>0, <2>a, VereditoTipado
    <2>4. situacao' \in [Requisicoes -> Situacoes]
      <3>1. pedido[p] \in Pedidos /\ situacao[p].login \in Logins
        BY <1>4 DEF ConsultarPermissao, PermissaoNoRepositorio, CorpoInv, AutorizacaoInv, EmConsulta
      <3>2. permissao[<<RepoDe[pedido[p].pr], Conta[situacao[p].login]>>] \in Permissoes
        BY <3>1, CamposDoPedido, AcoesAssumption DEF TypeOK
      <3> QED
        BY <1>4, <3>2 DEF TypeOK, ConsultarPermissao, PermissaoNoRepositorio, Situacoes
    <2> QED
      BY <2>1, <2>2, <2>3, <2>4 DEF TypeOK, github, historia
  <1>5. ASSUME NEW p \in Requisicoes, ConsultarAutor(p) PROVE TypeOK'
    <2>0. desfecho \in [Requisicoes -> Desfechos] /\ pc \in [Requisicoes -> Etapas]
      BY DEF TypeOK
    <2>a. \E papel, autor : SeguirVeredito(p, "autoria", papel, autor)
      BY <1>5 DEF ConsultarAutor
    <2>1. pc' \in [Requisicoes -> Etapas]
      BY <2>0, <2>a, VereditoTipado
    <2>2. desfecho' \in [Requisicoes -> Desfechos]
      BY <2>0, <2>a, VereditoTipado
    <2> QED
      BY <1>5, <2>1, <2>2 DEF TypeOK, ConsultarAutor, AutorDoPullRequest, github, historia
  <1>6. ASSUME NEW p \in Requisicoes, FalharVerificacao(p) PROVE TypeOK'
    <2>1. desfecho' \in [Requisicoes -> Desfechos]
      BY <1>6, DecisaoValida DEF TypeOK, FalharVerificacao, Decidir, Decisoes, Motivos
    <2> QED
      BY <1>6, <2>1, EtapasEnumeradas DEF TypeOK, FalharVerificacao, Ir, github, historia
  <1>7. ASSUME NEW p \in Requisicoes, Reservar(p) PROVE TypeOK'
    <2>1. desfecho' \in [Requisicoes -> Desfechos]
      BY <1>7, DecisaoValida DEF TypeOK, Reservar, ReservaLivre, Decidir, Decisoes, Motivos
    <2>2. pedido[p].id \in IdsDeAcao
      BY <1>7, CamposDoPedido DEF Reservar, ReservaLivre, CorpoInv, EmConsulta
    <2> QED
      BY <1>7, <2>1, <2>2, EtapasEnumeradas DEF TypeOK, Reservar, ReservaLivre, Ir, github
  <1>8. ASSUME NEW p \in Requisicoes, EnviarReview(p) PROVE TypeOK'
    BY <1>8, EtapasEnumeradas, ReviewBemFormada DEF TypeOK, EnviarReview, Ir, historia, CorpoInv, AutorizacaoInv, EmConsulta
  <1>9. ASSUME NEW p \in Requisicoes, FalharAntesDoEnvio(p) PROVE TypeOK'
    <2>1. desfecho' \in [Requisicoes -> Desfechos]
      BY <1>9, DecisaoValida DEF TypeOK, FalharAntesDoEnvio, Decidir, Decisoes, Motivos
    <2> QED
      BY <1>9, <2>1, EtapasEnumeradas DEF TypeOK, FalharAntesDoEnvio, Ir, github, historia
  <1>10. ASSUME NEW p \in Requisicoes, ReceberRetorno(p) PROVE TypeOK'
    <2>1. desfecho' \in [Requisicoes -> Desfechos]
      BY <1>10, DecisaoValida DEF TypeOK, ReceberRetorno, Decidir, Decisoes, Motivos
    <2> QED
      BY <1>10, <2>1, EtapasEnumeradas DEF TypeOK, ReceberRetorno, Ir, github, historia
  <1>11. ASSUME NEW p \in Requisicoes, DesistirDoEnvio(p) PROVE TypeOK'
    <2>1. desfecho' \in [Requisicoes -> Desfechos]
      BY <1>11, DecisaoValida DEF TypeOK, DesistirDoEnvio, Decidir, Decisoes, Motivos
    <2> QED
      BY <1>11, <2>1, EtapasEnumeradas DEF TypeOK, DesistirDoEnvio, Ir, github, historia
  <1>12. ASSUME NEW p \in Requisicoes, Registrar(p) PROVE TypeOK'
    <2>1. pc' \in [Requisicoes -> Etapas]
      BY <1>12, EtapasEnumeradas DEF TypeOK, Registrar, Ir
    <2>2. tentativas' \subseteq Tentativas
      BY <1>12, TentativaBemFormada DEF TypeOK, Registrar, Guardar
    <2>3. /\ semRegistro' \subseteq Requisicoes
          /\ UNCHANGED <<pedido, situacao, desfecho, cancelado, status, reservados,
                         github, vida, reservou, escritaVista>>
      BY <1>12 DEF TypeOK, Registrar
    <2> QED
      BY <2>1, <2>2, <2>3 DEF TypeOK, github
  <1>13. ASSUME NEW p \in Requisicoes, Responder(p) PROVE TypeOK'
    BY <1>13, EtapasEnumeradas, RespostaValida DEF TypeOK, Responder, Ir, Desfechos, github, historia
  <1>14. CASE Reiniciar
    BY <1>14, EtapasEnumeradas, AcoesAssumption DEF TypeOK, Reiniciar, Vidas, github, historia
  <1>15. ASSUME NEW r \in rede, Publicar(r) \/ RecusarReview(r) \/ PerderEnvio(r) PROVE TypeOK'
    BY <1>15 DEF TypeOK, Publicar, RecusarReview, PerderEnvio, Reviews, servico, historia
  <1>16. ASSUME NEW repo \in Repos, NEW conta \in Contas, NEW papel \in PapeisPossiveis,
                MudarPermissao(repo, conta, papel) PROVE TypeOK'
    BY <1>16 DEF TypeOK, MudarPermissao, servico
  <1>17. CASE UNCHANGED vars
    BY <1>17 DEF TypeOK, vars, servico, github, historia
  <1> QED
    BY <1>1, <1>2, <1>3, <1>4, <1>5, <1>6, <1>7, <1>8, <1>9, <1>10, <1>11, <1>12, <1>13,
       <1>14, <1>15, <1>16, <1>17 DEF Next, Servir, GitHub
------------------------------------------------------------------------------
(* The parts of the inductive invariant, one lemma each *)

LEMMA CorpoPreservado ==
  ASSUME TypeOK, CorpoInv, [Next]_vars
  PROVE  CorpoInv'
  <1>1. ASSUME NEW p \in Requisicoes, RejeitarNaPorta(p) PROVE CorpoInv'
    BY <1>1, AcoesAssumption
    DEF TypeOK, CorpoInv, AntesDaReserva, EmConsulta, EmCurso, Vidas, Nunca, Ir, Decidir, servico, github, historia, RejeitarNaPorta
  <1>2. ASSUME NEW p \in Requisicoes, RejeitarCorpo(p) PROVE CorpoInv'
    BY <1>2, AcoesAssumption
    DEF TypeOK, CorpoInv, AntesDaReserva, EmConsulta, EmCurso, Vidas, Nunca, Ir, Decidir, servico, github, historia, RejeitarCorpo
  <1>3. ASSUME NEW p \in Requisicoes, Cancelar(p) PROVE CorpoInv'
    BY <1>3, AcoesAssumption
    DEF TypeOK, CorpoInv, AntesDaReserva, EmConsulta, EmCurso, Vidas, Nunca, Ir, Decidir, servico, github, historia, Cancelar
  <1>4. ASSUME NEW p \in Requisicoes, Identificar(p) PROVE CorpoInv'
    BY <1>4, AcoesAssumption
    DEF TypeOK, CorpoInv, AntesDaReserva, EmConsulta, EmCurso, Vidas, Nunca, Ir, Decidir, servico, github, historia, Identificar, LoginGitHub
  <1>5. ASSUME NEW p \in Requisicoes, ConsultarPermissao(p) PROVE CorpoInv'
    BY <1>5, AcoesAssumption, VereditoSegue
    DEF TypeOK, CorpoInv, AntesDaReserva, EmConsulta, EmCurso, Vidas, Nunca, Ir, Decidir, servico, github, historia, ConsultarPermissao, PermissaoNoRepositorio
  <1>6. ASSUME NEW p \in Requisicoes, ConsultarAutor(p) PROVE CorpoInv'
    BY <1>6, AcoesAssumption, VereditoSegue
    DEF TypeOK, CorpoInv, AntesDaReserva, EmConsulta, EmCurso, Vidas, Nunca, Ir, Decidir, servico, github, historia, ConsultarAutor, AutorDoPullRequest
  <1>7. ASSUME NEW p \in Requisicoes, FalharVerificacao(p) PROVE CorpoInv'
    BY <1>7, AcoesAssumption
    DEF TypeOK, CorpoInv, AntesDaReserva, EmConsulta, EmCurso, Vidas, Nunca, Ir, Decidir, servico, github, historia, FalharVerificacao
  <1>8. ASSUME NEW p \in Requisicoes, Reservar(p) PROVE CorpoInv'
    BY <1>8, AcoesAssumption
    DEF TypeOK, CorpoInv, AntesDaReserva, EmConsulta, EmCurso, Vidas, Nunca, Ir, Decidir, servico, github, historia, Reservar, ReservaLivre
  <1>9. ASSUME NEW p \in Requisicoes, EnviarReview(p) PROVE CorpoInv'
    BY <1>9, AcoesAssumption
    DEF TypeOK, CorpoInv, AntesDaReserva, EmConsulta, EmCurso, Vidas, Nunca, Ir, Decidir, servico, github, historia, EnviarReview
  <1>10. ASSUME NEW p \in Requisicoes, FalharAntesDoEnvio(p) PROVE CorpoInv'
    BY <1>10, AcoesAssumption
    DEF TypeOK, CorpoInv, AntesDaReserva, EmConsulta, EmCurso, Vidas, Nunca, Ir, Decidir, servico, github, historia, FalharAntesDoEnvio
  <1>11. ASSUME NEW p \in Requisicoes, ReceberRetorno(p) PROVE CorpoInv'
    BY <1>11, AcoesAssumption
    DEF TypeOK, CorpoInv, AntesDaReserva, EmConsulta, EmCurso, Vidas, Nunca, Ir, Decidir, servico, github, historia, ReceberRetorno
  <1>12. ASSUME NEW p \in Requisicoes, DesistirDoEnvio(p) PROVE CorpoInv'
    BY <1>12, AcoesAssumption
    DEF TypeOK, CorpoInv, AntesDaReserva, EmConsulta, EmCurso, Vidas, Nunca, Ir, Decidir, servico, github, historia, DesistirDoEnvio
  <1>13. ASSUME NEW p \in Requisicoes, Registrar(p) PROVE CorpoInv'
    BY <1>13, AcoesAssumption
    DEF TypeOK, CorpoInv, AntesDaReserva, EmConsulta, EmCurso, Vidas, Nunca, Ir, Decidir, servico, github, historia, Registrar, Guardar
  <1>14. ASSUME NEW p \in Requisicoes, Responder(p) PROVE CorpoInv'
    BY <1>14, AcoesAssumption
    DEF TypeOK, CorpoInv, AntesDaReserva, EmConsulta, EmCurso, Vidas, Nunca, Ir, Decidir, servico, github, historia, Responder
  <1>15. ASSUME NEW p \in Requisicoes, NEW corpo \in Pedidos, Receber(p, corpo) PROVE CorpoInv'
    BY <1>15, AcoesAssumption
    DEF TypeOK, CorpoInv, AntesDaReserva, EmConsulta, EmCurso, Vidas, Nunca, Ir, Decidir, servico, github, historia, Receber
  <1>16. ASSUME NEW r \in rede, Publicar(r) PROVE CorpoInv'
    BY <1>16, AcoesAssumption
    DEF TypeOK, CorpoInv, AntesDaReserva, EmConsulta, EmCurso, Vidas, Nunca, Ir, Decidir, servico, github, historia, Publicar
  <1>17. ASSUME NEW r \in rede, RecusarReview(r) \/ PerderEnvio(r) PROVE CorpoInv'
    BY <1>17, AcoesAssumption
    DEF TypeOK, CorpoInv, AntesDaReserva, EmConsulta, EmCurso, Vidas, Nunca, Ir, Decidir, servico, github, historia, RecusarReview, PerderEnvio
  <1>18. ASSUME NEW repo \in Repos, NEW conta \in Contas, NEW papel \in PapeisPossiveis,
                MudarPermissao(repo, conta, papel)
         PROVE  CorpoInv'
    BY <1>18, AcoesAssumption
    DEF TypeOK, CorpoInv, AntesDaReserva, EmConsulta, EmCurso, Vidas, Nunca, Ir, Decidir, servico, github, historia, MudarPermissao
  <1>19. CASE Reiniciar
    BY <1>19, AcoesAssumption
    DEF TypeOK, CorpoInv, AntesDaReserva, EmConsulta, EmCurso, Vidas, Nunca, Ir, Decidir, servico, github, historia, Reiniciar
  <1>20. CASE UNCHANGED vars
    BY <1>20, AcoesAssumption
    DEF TypeOK, CorpoInv, AntesDaReserva, EmConsulta, EmCurso, Vidas, Nunca, Ir, Decidir, servico, github, historia, vars
  <1> QED
    BY <1>1, <1>2, <1>3, <1>4, <1>5, <1>6, <1>7, <1>8, <1>9, <1>10, <1>11, <1>12, <1>13, <1>14, <1>15, <1>16, <1>17, <1>18, <1>19, <1>20
    DEF Next, Entrada, Servir, GitHub

LEMMA ReservaPreservada ==
  ASSUME TypeOK, CorpoInv, ReservaInv, [Next]_vars
  PROVE  ReservaInv'
  <1>1. ASSUME NEW p \in Requisicoes, RejeitarNaPorta(p) PROVE ReservaInv'
    BY <1>1, AcoesAssumption
    DEF TypeOK, CorpoInv, ReservaInv, Dono, AntesDaReserva, EmConsulta, EmCurso, Vidas, Nunca, Ir, Decidir, servico, github, historia, RejeitarNaPorta
  <1>2. ASSUME NEW p \in Requisicoes, RejeitarCorpo(p) PROVE ReservaInv'
    BY <1>2, AcoesAssumption
    DEF TypeOK, CorpoInv, ReservaInv, Dono, AntesDaReserva, EmConsulta, EmCurso, Vidas, Nunca, Ir, Decidir, servico, github, historia, RejeitarCorpo
  <1>3. ASSUME NEW p \in Requisicoes, Cancelar(p) PROVE ReservaInv'
    BY <1>3, AcoesAssumption
    DEF TypeOK, CorpoInv, ReservaInv, Dono, AntesDaReserva, EmConsulta, EmCurso, Vidas, Nunca, Ir, Decidir, servico, github, historia, Cancelar
  <1>4. ASSUME NEW p \in Requisicoes, Identificar(p) PROVE ReservaInv'
    BY <1>4, AcoesAssumption
    DEF TypeOK, CorpoInv, ReservaInv, Dono, AntesDaReserva, EmConsulta, EmCurso, Vidas, Nunca, Ir, Decidir, servico, github, historia, Identificar, LoginGitHub
  <1>5. ASSUME NEW p \in Requisicoes, ConsultarPermissao(p) PROVE ReservaInv'
    BY <1>5, AcoesAssumption, VereditoSegue
    DEF TypeOK, CorpoInv, ReservaInv, Dono, AntesDaReserva, EmConsulta, EmCurso, Vidas, Nunca, Ir, Decidir, servico, github, historia, ConsultarPermissao, PermissaoNoRepositorio
  <1>6. ASSUME NEW p \in Requisicoes, ConsultarAutor(p) PROVE ReservaInv'
    BY <1>6, AcoesAssumption, VereditoSegue
    DEF TypeOK, CorpoInv, ReservaInv, Dono, AntesDaReserva, EmConsulta, EmCurso, Vidas, Nunca, Ir, Decidir, servico, github, historia, ConsultarAutor, AutorDoPullRequest
  <1>7. ASSUME NEW p \in Requisicoes, FalharVerificacao(p) PROVE ReservaInv'
    BY <1>7, AcoesAssumption
    DEF TypeOK, CorpoInv, ReservaInv, Dono, AntesDaReserva, EmConsulta, EmCurso, Vidas, Nunca, Ir, Decidir, servico, github, historia, FalharVerificacao
  <1>8. ASSUME NEW p \in Requisicoes, Reservar(p) PROVE ReservaInv'
    <2>1. /\ UNCHANGED <<pedido, vida>>
          /\ reservou[p] = Nunca
          /\ \/ UNCHANGED <<reservados, reservou>>
             \/ /\ pedido[p].id \notin reservados
                /\ reservados' = reservados \union {pedido[p].id}
                /\ reservou' = [reservou EXCEPT ![p] = vida]
      BY <1>8 DEF Reservar, ReservaLivre, CorpoInv, AntesDaReserva, github
    <2>2. vida # Nunca
      BY AcoesAssumption DEF TypeOK, Vidas, Nunca
    <2> QED
      BY <2>1, <2>2 DEF TypeOK, ReservaInv, Dono
  <1>9. ASSUME NEW p \in Requisicoes, EnviarReview(p) PROVE ReservaInv'
    BY <1>9, AcoesAssumption
    DEF TypeOK, CorpoInv, ReservaInv, Dono, AntesDaReserva, EmConsulta, EmCurso, Vidas, Nunca, Ir, Decidir, servico, github, historia, EnviarReview
  <1>10. ASSUME NEW p \in Requisicoes, FalharAntesDoEnvio(p) PROVE ReservaInv'
    BY <1>10, AcoesAssumption
    DEF TypeOK, CorpoInv, ReservaInv, Dono, AntesDaReserva, EmConsulta, EmCurso, Vidas, Nunca, Ir, Decidir, servico, github, historia, FalharAntesDoEnvio
  <1>11. ASSUME NEW p \in Requisicoes, ReceberRetorno(p) PROVE ReservaInv'
    BY <1>11, AcoesAssumption
    DEF TypeOK, CorpoInv, ReservaInv, Dono, AntesDaReserva, EmConsulta, EmCurso, Vidas, Nunca, Ir, Decidir, servico, github, historia, ReceberRetorno
  <1>12. ASSUME NEW p \in Requisicoes, DesistirDoEnvio(p) PROVE ReservaInv'
    BY <1>12, AcoesAssumption
    DEF TypeOK, CorpoInv, ReservaInv, Dono, AntesDaReserva, EmConsulta, EmCurso, Vidas, Nunca, Ir, Decidir, servico, github, historia, DesistirDoEnvio
  <1>13. ASSUME NEW p \in Requisicoes, Registrar(p) PROVE ReservaInv'
    BY <1>13, AcoesAssumption
    DEF TypeOK, CorpoInv, ReservaInv, Dono, AntesDaReserva, EmConsulta, EmCurso, Vidas, Nunca, Ir, Decidir, servico, github, historia, Registrar, Guardar
  <1>14. ASSUME NEW p \in Requisicoes, Responder(p) PROVE ReservaInv'
    BY <1>14, AcoesAssumption
    DEF TypeOK, CorpoInv, ReservaInv, Dono, AntesDaReserva, EmConsulta, EmCurso, Vidas, Nunca, Ir, Decidir, servico, github, historia, Responder
  <1>15. ASSUME NEW p \in Requisicoes, NEW corpo \in Pedidos, Receber(p, corpo) PROVE ReservaInv'
    BY <1>15, AcoesAssumption
    DEF TypeOK, CorpoInv, ReservaInv, Dono, AntesDaReserva, EmConsulta, EmCurso, Vidas, Nunca, Ir, Decidir, servico, github, historia, Receber
  <1>16. ASSUME NEW r \in rede, Publicar(r) PROVE ReservaInv'
    BY <1>16, AcoesAssumption
    DEF TypeOK, CorpoInv, ReservaInv, Dono, AntesDaReserva, EmConsulta, EmCurso, Vidas, Nunca, Ir, Decidir, servico, github, historia, Publicar
  <1>17. ASSUME NEW r \in rede, RecusarReview(r) \/ PerderEnvio(r) PROVE ReservaInv'
    BY <1>17, AcoesAssumption
    DEF TypeOK, CorpoInv, ReservaInv, Dono, AntesDaReserva, EmConsulta, EmCurso, Vidas, Nunca, Ir, Decidir, servico, github, historia, RecusarReview, PerderEnvio
  <1>18. ASSUME NEW repo \in Repos, NEW conta \in Contas, NEW papel \in PapeisPossiveis,
                MudarPermissao(repo, conta, papel)
         PROVE  ReservaInv'
    BY <1>18, AcoesAssumption
    DEF TypeOK, CorpoInv, ReservaInv, Dono, AntesDaReserva, EmConsulta, EmCurso, Vidas, Nunca, Ir, Decidir, servico, github, historia, MudarPermissao
  <1>19. CASE Reiniciar
    BY <1>19, AcoesAssumption
    DEF TypeOK, CorpoInv, ReservaInv, Dono, AntesDaReserva, EmConsulta, EmCurso, Vidas, Nunca, Ir, Decidir, servico, github, historia, Reiniciar
  <1>20. CASE UNCHANGED vars
    BY <1>20, AcoesAssumption
    DEF TypeOK, CorpoInv, ReservaInv, Dono, AntesDaReserva, EmConsulta, EmCurso, Vidas, Nunca, Ir, Decidir, servico, github, historia, vars
  <1> QED
    BY <1>1, <1>2, <1>3, <1>4, <1>5, <1>6, <1>7, <1>8, <1>9, <1>10, <1>11, <1>12, <1>13, <1>14, <1>15, <1>16, <1>17, <1>18, <1>19, <1>20
    DEF Next, Entrada, Servir, GitHub

LEMMA AutorizacaoPreservada ==
  ASSUME TypeOK, CorpoInv, AutorizacaoInv, [Next]_vars
  PROVE  AutorizacaoInv'
  <1>1. ASSUME NEW p \in Requisicoes, RejeitarNaPorta(p) PROVE AutorizacaoInv'
    BY <1>1, AcoesAssumption, CamposDoPedido
    DEF TypeOK, CorpoInv, AutorizacaoInv, Escritores, EmConsulta, EmCurso, Ir, Decidir, servico, github, historia, RejeitarNaPorta
  <1>2. ASSUME NEW p \in Requisicoes, RejeitarCorpo(p) PROVE AutorizacaoInv'
    BY <1>2, AcoesAssumption, CamposDoPedido
    DEF TypeOK, CorpoInv, AutorizacaoInv, Escritores, EmConsulta, EmCurso, Ir, Decidir, servico, github, historia, RejeitarCorpo
  <1>3. ASSUME NEW p \in Requisicoes, Cancelar(p) PROVE AutorizacaoInv'
    BY <1>3, AcoesAssumption, CamposDoPedido
    DEF TypeOK, CorpoInv, AutorizacaoInv, Escritores, EmConsulta, EmCurso, Ir, Decidir, servico, github, historia, Cancelar
  <1>4. ASSUME NEW p \in Requisicoes, Identificar(p) PROVE AutorizacaoInv'
    BY <1>4, AcoesAssumption, CamposDoPedido
    DEF TypeOK, CorpoInv, AutorizacaoInv, Escritores, EmConsulta, EmCurso, Ir, Decidir, servico, github, historia, Identificar, LoginGitHub
  <1>5. ASSUME NEW p \in Requisicoes, ConsultarPermissao(p) PROVE AutorizacaoInv'
    BY <1>5, AcoesAssumption, CamposDoPedido, VereditoSegue
    DEF TypeOK, CorpoInv, AutorizacaoInv, Escritores, EmConsulta, EmCurso, Ir, Decidir, servico, github, historia, ConsultarPermissao, PermissaoNoRepositorio
  <1>6. ASSUME NEW p \in Requisicoes, ConsultarAutor(p) PROVE AutorizacaoInv'
    BY <1>6, AcoesAssumption, CamposDoPedido, VereditoSegue
    DEF TypeOK, CorpoInv, AutorizacaoInv, Escritores, EmConsulta, EmCurso, Ir, Decidir, servico, github, historia, ConsultarAutor, AutorDoPullRequest
  <1>7. ASSUME NEW p \in Requisicoes, FalharVerificacao(p) PROVE AutorizacaoInv'
    BY <1>7, AcoesAssumption, CamposDoPedido
    DEF TypeOK, CorpoInv, AutorizacaoInv, Escritores, EmConsulta, EmCurso, Ir, Decidir, servico, github, historia, FalharVerificacao
  <1>8. ASSUME NEW p \in Requisicoes, Reservar(p) PROVE AutorizacaoInv'
    BY <1>8, AcoesAssumption, CamposDoPedido
    DEF TypeOK, CorpoInv, AutorizacaoInv, Escritores, EmConsulta, EmCurso, Ir, Decidir, servico, github, historia, Reservar, ReservaLivre
  <1>9. ASSUME NEW p \in Requisicoes, EnviarReview(p) PROVE AutorizacaoInv'
    BY <1>9, AcoesAssumption, CamposDoPedido
    DEF TypeOK, CorpoInv, AutorizacaoInv, Escritores, EmConsulta, EmCurso, Ir, Decidir, servico, github, historia, EnviarReview
  <1>10. ASSUME NEW p \in Requisicoes, FalharAntesDoEnvio(p) PROVE AutorizacaoInv'
    BY <1>10, AcoesAssumption, CamposDoPedido
    DEF TypeOK, CorpoInv, AutorizacaoInv, Escritores, EmConsulta, EmCurso, Ir, Decidir, servico, github, historia, FalharAntesDoEnvio
  <1>11. ASSUME NEW p \in Requisicoes, ReceberRetorno(p) PROVE AutorizacaoInv'
    BY <1>11, AcoesAssumption, CamposDoPedido
    DEF TypeOK, CorpoInv, AutorizacaoInv, Escritores, EmConsulta, EmCurso, Ir, Decidir, servico, github, historia, ReceberRetorno
  <1>12. ASSUME NEW p \in Requisicoes, DesistirDoEnvio(p) PROVE AutorizacaoInv'
    BY <1>12, AcoesAssumption, CamposDoPedido
    DEF TypeOK, CorpoInv, AutorizacaoInv, Escritores, EmConsulta, EmCurso, Ir, Decidir, servico, github, historia, DesistirDoEnvio
  <1>13. ASSUME NEW p \in Requisicoes, Registrar(p) PROVE AutorizacaoInv'
    BY <1>13, AcoesAssumption, CamposDoPedido
    DEF TypeOK, CorpoInv, AutorizacaoInv, Escritores, EmConsulta, EmCurso, Ir, Decidir, servico, github, historia, Registrar, Guardar
  <1>14. ASSUME NEW p \in Requisicoes, Responder(p) PROVE AutorizacaoInv'
    BY <1>14, AcoesAssumption, CamposDoPedido
    DEF TypeOK, CorpoInv, AutorizacaoInv, Escritores, EmConsulta, EmCurso, Ir, Decidir, servico, github, historia, Responder
  <1>15. ASSUME NEW p \in Requisicoes, NEW corpo \in Pedidos, Receber(p, corpo) PROVE AutorizacaoInv'
    BY <1>15, AcoesAssumption, CamposDoPedido
    DEF TypeOK, CorpoInv, AutorizacaoInv, Escritores, EmConsulta, EmCurso, Ir, Decidir, servico, github, historia, Receber
  <1>16. ASSUME NEW r \in rede, Publicar(r) PROVE AutorizacaoInv'
    BY <1>16, AcoesAssumption, CamposDoPedido
    DEF TypeOK, CorpoInv, AutorizacaoInv, Escritores, EmConsulta, EmCurso, Ir, Decidir, servico, github, historia, Publicar
  <1>17. ASSUME NEW r \in rede, RecusarReview(r) \/ PerderEnvio(r) PROVE AutorizacaoInv'
    BY <1>17, AcoesAssumption, CamposDoPedido
    DEF TypeOK, CorpoInv, AutorizacaoInv, Escritores, EmConsulta, EmCurso, Ir, Decidir, servico, github, historia, RecusarReview, PerderEnvio
  <1>18. ASSUME NEW repo \in Repos, NEW conta \in Contas, NEW papel \in PapeisPossiveis,
                MudarPermissao(repo, conta, papel)
         PROVE  AutorizacaoInv'
    BY <1>18, AcoesAssumption, CamposDoPedido
    DEF TypeOK, CorpoInv, AutorizacaoInv, Escritores, EmConsulta, EmCurso, Ir, Decidir, servico, github, historia, MudarPermissao
  <1>19. CASE Reiniciar
    BY <1>19, AcoesAssumption, CamposDoPedido
    DEF TypeOK, CorpoInv, AutorizacaoInv, Escritores, EmConsulta, EmCurso, Ir, Decidir, servico, github, historia, Reiniciar
  <1>20. CASE UNCHANGED vars
    BY <1>20, AcoesAssumption, CamposDoPedido
    DEF TypeOK, CorpoInv, AutorizacaoInv, Escritores, EmConsulta, EmCurso, Ir, Decidir, servico, github, historia, vars
  <1> QED
    BY <1>1, <1>2, <1>3, <1>4, <1>5, <1>6, <1>7, <1>8, <1>9, <1>10, <1>11, <1>12, <1>13, <1>14, <1>15, <1>16, <1>17, <1>18, <1>19, <1>20
    DEF Next, Entrada, Servir, GitHub

LEMMA EfeitoPreservado ==
  ASSUME TypeOK, CorpoInv, AutorizacaoInv, EfeitoInv, [Next]_vars
  PROVE  EfeitoInv'
  <1>1. ASSUME NEW p \in Requisicoes, RejeitarNaPorta(p) PROVE EfeitoInv'
    BY <1>1, AcoesAssumption
    DEF TypeOK, CorpoInv, EfeitoInv, Impressa, Reviews, AntesDaReserva, EmConsulta, EmCurso, Ir, Decidir, servico, github, historia, RejeitarNaPorta
  <1>2. ASSUME NEW p \in Requisicoes, RejeitarCorpo(p) PROVE EfeitoInv'
    BY <1>2, AcoesAssumption
    DEF TypeOK, CorpoInv, EfeitoInv, Impressa, Reviews, AntesDaReserva, EmConsulta, EmCurso, Ir, Decidir, servico, github, historia, RejeitarCorpo
  <1>3. ASSUME NEW p \in Requisicoes, Cancelar(p) PROVE EfeitoInv'
    BY <1>3, AcoesAssumption
    DEF TypeOK, CorpoInv, EfeitoInv, Impressa, Reviews, AntesDaReserva, EmConsulta, EmCurso, Ir, Decidir, servico, github, historia, Cancelar
  <1>4. ASSUME NEW p \in Requisicoes, Identificar(p) PROVE EfeitoInv'
    BY <1>4, AcoesAssumption
    DEF TypeOK, CorpoInv, EfeitoInv, Impressa, Reviews, AntesDaReserva, EmConsulta, EmCurso, Ir, Decidir, servico, github, historia, Identificar, LoginGitHub
  <1>5. ASSUME NEW p \in Requisicoes, ConsultarPermissao(p) PROVE EfeitoInv'
    BY <1>5, AcoesAssumption, VereditoSegue
    DEF TypeOK, CorpoInv, EfeitoInv, Impressa, Reviews, AntesDaReserva, EmConsulta, EmCurso, Ir, Decidir, servico, github, historia, ConsultarPermissao, PermissaoNoRepositorio
  <1>6. ASSUME NEW p \in Requisicoes, ConsultarAutor(p) PROVE EfeitoInv'
    BY <1>6, AcoesAssumption, VereditoSegue
    DEF TypeOK, CorpoInv, EfeitoInv, Impressa, Reviews, AntesDaReserva, EmConsulta, EmCurso, Ir, Decidir, servico, github, historia, ConsultarAutor, AutorDoPullRequest
  <1>7. ASSUME NEW p \in Requisicoes, FalharVerificacao(p) PROVE EfeitoInv'
    BY <1>7, AcoesAssumption
    DEF TypeOK, CorpoInv, EfeitoInv, Impressa, Reviews, AntesDaReserva, EmConsulta, EmCurso, Ir, Decidir, servico, github, historia, FalharVerificacao
  <1>8. ASSUME NEW p \in Requisicoes, Reservar(p) PROVE EfeitoInv'
    BY <1>8, AcoesAssumption
    DEF TypeOK, CorpoInv, EfeitoInv, Impressa, Reviews, AntesDaReserva, EmConsulta, EmCurso, Ir, Decidir, servico, github, historia, Reservar, ReservaLivre
  <1>9. ASSUME NEW p \in Requisicoes, EnviarReview(p) PROVE EfeitoInv'
    BY <1>9, AcoesAssumption
    DEF TypeOK, CorpoInv, EfeitoInv, Impressa, ReviewDe, Reviews, AntesDaReserva, EmConsulta, EmCurso, Ir, Decidir, servico, github, historia, EnviarReview
  <1>10. ASSUME NEW p \in Requisicoes, FalharAntesDoEnvio(p) PROVE EfeitoInv'
    BY <1>10, AcoesAssumption
    DEF TypeOK, CorpoInv, EfeitoInv, Impressa, Reviews, AntesDaReserva, EmConsulta, EmCurso, Ir, Decidir, servico, github, historia, FalharAntesDoEnvio
  <1>11. ASSUME NEW p \in Requisicoes, ReceberRetorno(p) PROVE EfeitoInv'
    BY <1>11, AcoesAssumption
    DEF TypeOK, CorpoInv, EfeitoInv, Impressa, Reviews, AntesDaReserva, EmConsulta, EmCurso, Ir, Decidir, servico, github, historia, ReceberRetorno
  <1>12. ASSUME NEW p \in Requisicoes, DesistirDoEnvio(p) PROVE EfeitoInv'
    BY <1>12, AcoesAssumption
    DEF TypeOK, CorpoInv, EfeitoInv, Impressa, Reviews, AntesDaReserva, EmConsulta, EmCurso, Ir, Decidir, servico, github, historia, DesistirDoEnvio
  <1>13. ASSUME NEW p \in Requisicoes, Registrar(p) PROVE EfeitoInv'
    BY <1>13, AcoesAssumption
    DEF TypeOK, CorpoInv, EfeitoInv, Impressa, Reviews, AntesDaReserva, EmConsulta, EmCurso, Ir, Decidir, servico, github, historia, Registrar, Guardar
  <1>14. ASSUME NEW p \in Requisicoes, Responder(p) PROVE EfeitoInv'
    BY <1>14, AcoesAssumption
    DEF TypeOK, CorpoInv, EfeitoInv, Impressa, Reviews, AntesDaReserva, EmConsulta, EmCurso, Ir, Decidir, servico, github, historia, Responder
  <1>15. ASSUME NEW p \in Requisicoes, NEW corpo \in Pedidos, Receber(p, corpo) PROVE EfeitoInv'
    BY <1>15, AcoesAssumption
    DEF TypeOK, CorpoInv, EfeitoInv, Impressa, Reviews, AntesDaReserva, EmConsulta, EmCurso, Ir, Decidir, servico, github, historia, Receber
  <1>16. ASSUME NEW r \in rede, Publicar(r) PROVE EfeitoInv'
    BY <1>16, AcoesAssumption
    DEF TypeOK, CorpoInv, EfeitoInv, Impressa, Reviews, AntesDaReserva, EmConsulta, EmCurso, Ir, Decidir, servico, github, historia, Publicar
  <1>17. ASSUME NEW r \in rede, RecusarReview(r) \/ PerderEnvio(r) PROVE EfeitoInv'
    BY <1>17, AcoesAssumption
    DEF TypeOK, CorpoInv, EfeitoInv, Impressa, Reviews, AntesDaReserva, EmConsulta, EmCurso, Ir, Decidir, servico, github, historia, RecusarReview, PerderEnvio
  <1>18. ASSUME NEW repo \in Repos, NEW conta \in Contas, NEW papel \in PapeisPossiveis,
                MudarPermissao(repo, conta, papel)
         PROVE  EfeitoInv'
    BY <1>18, AcoesAssumption
    DEF TypeOK, CorpoInv, EfeitoInv, Impressa, Reviews, AntesDaReserva, EmConsulta, EmCurso, Ir, Decidir, servico, github, historia, MudarPermissao
  <1>19. CASE Reiniciar
    BY <1>19, AcoesAssumption
    DEF TypeOK, CorpoInv, EfeitoInv, Impressa, Reviews, AntesDaReserva, EmConsulta, EmCurso, Ir, Decidir, servico, github, historia, Reiniciar
  <1>20. CASE UNCHANGED vars
    BY <1>20, AcoesAssumption
    DEF TypeOK, CorpoInv, EfeitoInv, Impressa, Reviews, AntesDaReserva, EmConsulta, EmCurso, Ir, Decidir, servico, github, historia, vars
  <1> QED
    BY <1>1, <1>2, <1>3, <1>4, <1>5, <1>6, <1>7, <1>8, <1>9, <1>10, <1>11, <1>12, <1>13, <1>14, <1>15, <1>16, <1>17, <1>18, <1>19, <1>20
    DEF Next, Entrada, Servir, GitHub

LEMMA EfeitoAutorizadoPreservado ==
  ASSUME TypeOK, CorpoInv, AutorizacaoInv, EfeitoInv, EfeitoAutorizado, [Next]_vars
  PROVE  EfeitoAutorizado'
  <1>1. ASSUME NEW p \in Requisicoes, RejeitarNaPorta(p) PROVE EfeitoAutorizado'
    BY <1>1, AcoesAssumption
    DEF TypeOK, CorpoInv, AutorizacaoInv, EfeitoInv, EfeitoAutorizado, Reviews, AntesDaReserva, EmConsulta, EmCurso, Ir, Decidir, servico, github, historia, RejeitarNaPorta
  <1>2. ASSUME NEW p \in Requisicoes, RejeitarCorpo(p) PROVE EfeitoAutorizado'
    BY <1>2, AcoesAssumption
    DEF TypeOK, CorpoInv, AutorizacaoInv, EfeitoInv, EfeitoAutorizado, Reviews, AntesDaReserva, EmConsulta, EmCurso, Ir, Decidir, servico, github, historia, RejeitarCorpo
  <1>3. ASSUME NEW p \in Requisicoes, Cancelar(p) PROVE EfeitoAutorizado'
    BY <1>3, AcoesAssumption
    DEF TypeOK, CorpoInv, AutorizacaoInv, EfeitoInv, EfeitoAutorizado, Reviews, AntesDaReserva, EmConsulta, EmCurso, Ir, Decidir, servico, github, historia, Cancelar
  <1>4. ASSUME NEW p \in Requisicoes, Identificar(p) PROVE EfeitoAutorizado'
    BY <1>4, AcoesAssumption
    DEF TypeOK, CorpoInv, AutorizacaoInv, EfeitoInv, EfeitoAutorizado, Reviews, AntesDaReserva, EmConsulta, EmCurso, Ir, Decidir, servico, github, historia, Identificar, LoginGitHub
  <1>5. ASSUME NEW p \in Requisicoes, ConsultarPermissao(p) PROVE EfeitoAutorizado'
    BY <1>5, AcoesAssumption, VereditoSegue
    DEF TypeOK, CorpoInv, AutorizacaoInv, EfeitoInv, EfeitoAutorizado, Reviews, AntesDaReserva, EmConsulta, EmCurso, Ir, Decidir, servico, github, historia, ConsultarPermissao, PermissaoNoRepositorio
  <1>6. ASSUME NEW p \in Requisicoes, ConsultarAutor(p) PROVE EfeitoAutorizado'
    BY <1>6, AcoesAssumption, VereditoSegue
    DEF TypeOK, CorpoInv, AutorizacaoInv, EfeitoInv, EfeitoAutorizado, Reviews, AntesDaReserva, EmConsulta, EmCurso, Ir, Decidir, servico, github, historia, ConsultarAutor, AutorDoPullRequest
  <1>7. ASSUME NEW p \in Requisicoes, FalharVerificacao(p) PROVE EfeitoAutorizado'
    BY <1>7, AcoesAssumption
    DEF TypeOK, CorpoInv, AutorizacaoInv, EfeitoInv, EfeitoAutorizado, Reviews, AntesDaReserva, EmConsulta, EmCurso, Ir, Decidir, servico, github, historia, FalharVerificacao
  <1>8. ASSUME NEW p \in Requisicoes, Reservar(p) PROVE EfeitoAutorizado'
    BY <1>8, AcoesAssumption
    DEF TypeOK, CorpoInv, AutorizacaoInv, EfeitoInv, EfeitoAutorizado, Reviews, AntesDaReserva, EmConsulta, EmCurso, Ir, Decidir, servico, github, historia, Reservar, ReservaLivre
  <1>9. ASSUME NEW p \in Requisicoes, EnviarReview(p) PROVE EfeitoAutorizado'
    BY <1>9, AcoesAssumption
    DEF TypeOK, CorpoInv, AutorizacaoInv, EfeitoInv, EfeitoAutorizado, Reviews, ReviewDe, EventoDe, AntesDaReserva, EmConsulta, EmCurso, Ir, Decidir, servico, github, historia, EnviarReview
  <1>10. ASSUME NEW p \in Requisicoes, FalharAntesDoEnvio(p) PROVE EfeitoAutorizado'
    BY <1>10, AcoesAssumption
    DEF TypeOK, CorpoInv, AutorizacaoInv, EfeitoInv, EfeitoAutorizado, Reviews, AntesDaReserva, EmConsulta, EmCurso, Ir, Decidir, servico, github, historia, FalharAntesDoEnvio
  <1>11. ASSUME NEW p \in Requisicoes, ReceberRetorno(p) PROVE EfeitoAutorizado'
    BY <1>11, AcoesAssumption
    DEF TypeOK, CorpoInv, AutorizacaoInv, EfeitoInv, EfeitoAutorizado, Reviews, AntesDaReserva, EmConsulta, EmCurso, Ir, Decidir, servico, github, historia, ReceberRetorno
  <1>12. ASSUME NEW p \in Requisicoes, DesistirDoEnvio(p) PROVE EfeitoAutorizado'
    BY <1>12, AcoesAssumption
    DEF TypeOK, CorpoInv, AutorizacaoInv, EfeitoInv, EfeitoAutorizado, Reviews, AntesDaReserva, EmConsulta, EmCurso, Ir, Decidir, servico, github, historia, DesistirDoEnvio
  <1>13. ASSUME NEW p \in Requisicoes, Registrar(p) PROVE EfeitoAutorizado'
    BY <1>13, AcoesAssumption
    DEF TypeOK, CorpoInv, AutorizacaoInv, EfeitoInv, EfeitoAutorizado, Reviews, AntesDaReserva, EmConsulta, EmCurso, Ir, Decidir, servico, github, historia, Registrar, Guardar
  <1>14. ASSUME NEW p \in Requisicoes, Responder(p) PROVE EfeitoAutorizado'
    BY <1>14, AcoesAssumption
    DEF TypeOK, CorpoInv, AutorizacaoInv, EfeitoInv, EfeitoAutorizado, Reviews, AntesDaReserva, EmConsulta, EmCurso, Ir, Decidir, servico, github, historia, Responder
  <1>15. ASSUME NEW p \in Requisicoes, NEW corpo \in Pedidos, Receber(p, corpo) PROVE EfeitoAutorizado'
    BY <1>15, AcoesAssumption
    DEF TypeOK, CorpoInv, AutorizacaoInv, EfeitoInv, EfeitoAutorizado, Reviews, AntesDaReserva, EmConsulta, EmCurso, Ir, Decidir, servico, github, historia, Receber
  <1>16. ASSUME NEW r \in rede, Publicar(r) PROVE EfeitoAutorizado'
    BY <1>16, AcoesAssumption
    DEF TypeOK, CorpoInv, AutorizacaoInv, EfeitoInv, EfeitoAutorizado, Reviews, AntesDaReserva, EmConsulta, EmCurso, Ir, Decidir, servico, github, historia, Publicar
  <1>17. ASSUME NEW r \in rede, RecusarReview(r) \/ PerderEnvio(r) PROVE EfeitoAutorizado'
    BY <1>17, AcoesAssumption
    DEF TypeOK, CorpoInv, AutorizacaoInv, EfeitoInv, EfeitoAutorizado, Reviews, AntesDaReserva, EmConsulta, EmCurso, Ir, Decidir, servico, github, historia, RecusarReview, PerderEnvio
  <1>18. ASSUME NEW repo \in Repos, NEW conta \in Contas, NEW papel \in PapeisPossiveis,
                MudarPermissao(repo, conta, papel)
         PROVE  EfeitoAutorizado'
    BY <1>18, AcoesAssumption
    DEF TypeOK, CorpoInv, AutorizacaoInv, EfeitoInv, EfeitoAutorizado, Reviews, AntesDaReserva, EmConsulta, EmCurso, Ir, Decidir, servico, github, historia, MudarPermissao
  <1>19. CASE Reiniciar
    BY <1>19, AcoesAssumption
    DEF TypeOK, CorpoInv, AutorizacaoInv, EfeitoInv, EfeitoAutorizado, Reviews, AntesDaReserva, EmConsulta, EmCurso, Ir, Decidir, servico, github, historia, Reiniciar
  <1>20. CASE UNCHANGED vars
    BY <1>20, AcoesAssumption
    DEF TypeOK, CorpoInv, AutorizacaoInv, EfeitoInv, EfeitoAutorizado, Reviews, AntesDaReserva, EmConsulta, EmCurso, Ir, Decidir, servico, github, historia, vars
  <1> QED
    BY <1>1, <1>2, <1>3, <1>4, <1>5, <1>6, <1>7, <1>8, <1>9, <1>10, <1>11, <1>12, <1>13, <1>14, <1>15, <1>16, <1>17, <1>18, <1>19, <1>20
    DEF Next, Entrada, Servir, GitHub

LEMMA DecisaoPreservada ==
  ASSUME TypeOK, CorpoInv, ReservaInv, AutorizacaoInv, EfeitoInv, DecisaoInv, [Next]_vars
  PROVE  DecisaoInv'
  <1>1. ASSUME NEW p \in Requisicoes, RejeitarNaPorta(p) PROVE DecisaoInv'
    BY <1>1, AcoesAssumption
    DEF TypeOK, CorpoInv, DecisaoInv, Decidida, Decisoes, Dono, Nunca, Vidas, AntesDaReserva, EmConsulta, EmCurso, Ir, Decidir, servico, github, historia, RejeitarNaPorta
  <1>2. ASSUME NEW p \in Requisicoes, RejeitarCorpo(p) PROVE DecisaoInv'
    BY <1>2, AcoesAssumption
    DEF TypeOK, CorpoInv, DecisaoInv, Decidida, Decisoes, Dono, Nunca, Vidas, AntesDaReserva, EmConsulta, EmCurso, Ir, Decidir, servico, github, historia, RejeitarCorpo
  <1>3. ASSUME NEW p \in Requisicoes, Cancelar(p) PROVE DecisaoInv'
    BY <1>3, AcoesAssumption
    DEF TypeOK, CorpoInv, DecisaoInv, Decidida, Decisoes, Dono, Nunca, Vidas, AntesDaReserva, EmConsulta, EmCurso, Ir, Decidir, servico, github, historia, Cancelar
  <1>4. ASSUME NEW p \in Requisicoes, Identificar(p) PROVE DecisaoInv'
    BY <1>4, AcoesAssumption
    DEF TypeOK, CorpoInv, DecisaoInv, Decidida, Decisoes, Dono, Nunca, Vidas, AntesDaReserva, EmConsulta, EmCurso, Ir, Decidir, servico, github, historia, Identificar, LoginGitHub
  <1>5. ASSUME NEW p \in Requisicoes, ConsultarPermissao(p) PROVE DecisaoInv'
    <2>1. /\ pc[p] = "permissao"
          /\ UNCHANGED <<pedido, cancelado, status, reviews, retorno, reservou>>
          /\ \/ pc' = [pc EXCEPT ![p] = "autoria"] /\ UNCHANGED desfecho
             \/ /\ pc' = [pc EXCEPT ![p] = "reserva"]
                /\ desfecho' = [desfecho EXCEPT ![p] = [decisao |-> "aceita", motivo |-> "autorizada"]]
             \/ /\ pc' = [pc EXCEPT ![p] = "registro"]
                /\ \E m \in Motivos :
                     desfecho' = [desfecho EXCEPT ![p] = [decisao |-> "recusada", motivo |-> m]]
      BY <1>5, VereditoSegue DEF ConsultarPermissao, PermissaoNoRepositorio, Ir, github, historia
    <2> QED
      BY <2>1 DEF TypeOK, CorpoInv, DecisaoInv, Decidida, Decisoes, AntesDaReserva, EmConsulta, EmCurso
  <1>6. ASSUME NEW p \in Requisicoes, ConsultarAutor(p) PROVE DecisaoInv'
    BY <1>6, AcoesAssumption, VereditoSegue
    DEF TypeOK, CorpoInv, DecisaoInv, Decidida, Decisoes, Dono, Nunca, Vidas, AntesDaReserva, EmConsulta, EmCurso, Ir, Decidir, servico, github, historia, ConsultarAutor, AutorDoPullRequest
  <1>7. ASSUME NEW p \in Requisicoes, FalharVerificacao(p) PROVE DecisaoInv'
    BY <1>7, AcoesAssumption
    DEF TypeOK, CorpoInv, DecisaoInv, Decidida, Decisoes, Dono, Nunca, Vidas, AntesDaReserva, EmConsulta, EmCurso, Ir, Decidir, servico, github, historia, FalharVerificacao
  <1>8. ASSUME NEW p \in Requisicoes, Reservar(p) PROVE DecisaoInv'
    <2>1. pc[p] = "reserva" /\ UNCHANGED <<pedido, status, reviews, retorno>>
      BY <1>8 DEF Reservar, ReservaLivre, github
    <2>2. CASE /\ pc' = [pc EXCEPT ![p] = "execucao"]
               /\ reservou' = [reservou EXCEPT ![p] = vida]
               /\ UNCHANGED desfecho
      <3>1. \A q \in Requisicoes : reservou[q] # Nunca => reservou'[q] = reservou[q]
        BY <2>1, <2>2 DEF TypeOK, CorpoInv, AntesDaReserva
      <3>2. reservou'[p] # Nunca
        BY <2>2, AcoesAssumption DEF TypeOK, Vidas, Nunca
      <3> QED
        BY <2>1, <2>2, <3>1, <3>2 DEF TypeOK, CorpoInv, DecisaoInv, Decidida, Decisoes, AntesDaReserva, EmCurso, EmConsulta
    <2>3. CASE /\ pedido[p].id \in reservados
               /\ pc' = [pc EXCEPT ![p] = "registro"]
               /\ desfecho' = [desfecho EXCEPT ![p] = [decisao |-> "repetida", motivo |-> "acao_repetida"]]
               /\ UNCHANGED reservou
      <3>1. PICK q \in Requisicoes : Dono(q, pedido[p].id, vida)
        BY <2>3 DEF ReservaInv
      <3>2. vida # Nunca
        BY AcoesAssumption DEF TypeOK, Vidas, Nunca
      <3>3. q \in Requisicoes \ {p} /\ reservou[q] # Nunca /\ pedido[q].id = pedido[p].id
        BY <2>1, <3>1, <3>2 DEF CorpoInv, Dono, AntesDaReserva
      <3> QED
        BY <2>1, <2>3, <3>3 DEF TypeOK, CorpoInv, DecisaoInv, Decidida, Decisoes, AntesDaReserva, EmCurso, EmConsulta
    <2>4. CASE /\ pc' = [pc EXCEPT ![p] = "registro"]
               /\ desfecho' = [desfecho EXCEPT ![p] = [decisao |-> "falha", motivo |-> "falha_na_reserva"]]
               /\ UNCHANGED reservou
      BY <2>1, <2>4 DEF TypeOK, CorpoInv, DecisaoInv, Decidida, Decisoes, AntesDaReserva, EmCurso, EmConsulta
    <2> QED
      BY <1>8, <2>2, <2>3, <2>4 DEF Reservar, ReservaLivre, Ir, Decidir
  <1>9. ASSUME NEW p \in Requisicoes, EnviarReview(p) PROVE DecisaoInv'
    <2>1. /\ pc[p] = "execucao"
          /\ pc' = [pc EXCEPT ![p] = "aguardando"]
          /\ UNCHANGED <<desfecho, pedido, status, reviews, retorno, reservou>>
      BY <1>9 DEF EnviarReview, Ir, historia
    <2>2. desfecho[p].decisao = "aceita"
      BY <2>1 DEF AutorizacaoInv
    <2> QED
      BY <2>1, <2>2 DEF TypeOK, CorpoInv, DecisaoInv, Decidida, Decisoes, EmConsulta, EmCurso
  <1>10. ASSUME NEW p \in Requisicoes, FalharAntesDoEnvio(p) PROVE DecisaoInv'
    <2>1. /\ pc[p] = "execucao"
          /\ pc' = [pc EXCEPT ![p] = "registro"]
          /\ desfecho' = [desfecho EXCEPT ![p] = [decisao |-> "falha", motivo |-> "falha_na_execucao"]]
          /\ UNCHANGED <<pedido, status, reviews, retorno, reservou>>
      BY <1>10 DEF FalharAntesDoEnvio, Ir, Decidir, github, historia
    <2> QED
      BY <2>1 DEF TypeOK, CorpoInv, DecisaoInv, Decidida, Decisoes, EmConsulta, EmCurso
  <1>11. ASSUME NEW p \in Requisicoes, ReceberRetorno(p) PROVE DecisaoInv'
    <2>1. /\ pc[p] = "aguardando"
          /\ pc' = [pc EXCEPT ![p] = "registro"]
          /\ UNCHANGED <<pedido, status, reviews, retorno, reservou>>
      BY <1>11 DEF ReceberRetorno, Ir, github, historia
    <2>2. CASE retorno[p] = "ok" /\ UNCHANGED desfecho
      BY <2>1, <2>2 DEF TypeOK, CorpoInv, DecisaoInv, Decidida, Decisoes, EmConsulta, EmCurso
    <2>3. CASE desfecho' = [desfecho EXCEPT ![p] = [decisao |-> "falha", motivo |-> "falha_na_execucao"]]
      BY <2>1, <2>3 DEF TypeOK, CorpoInv, DecisaoInv, Decidida, Decisoes, EmConsulta, EmCurso
    <2> QED
      BY <1>11, <2>2, <2>3 DEF ReceberRetorno, Decidir
  <1>12. ASSUME NEW p \in Requisicoes, DesistirDoEnvio(p) PROVE DecisaoInv'
    <2>1. /\ pc[p] = "aguardando"
          /\ pc' = [pc EXCEPT ![p] = "registro"]
          /\ desfecho' = [desfecho EXCEPT ![p] = [decisao |-> "falha", motivo |-> "falha_na_execucao"]]
          /\ UNCHANGED <<pedido, status, reviews, retorno, reservou>>
      BY <1>12 DEF DesistirDoEnvio, Ir, Decidir, github, historia
    <2> QED
      BY <2>1 DEF TypeOK, CorpoInv, DecisaoInv, Decidida, Decisoes, EmConsulta, EmCurso
  <1>13. ASSUME NEW p \in Requisicoes, Registrar(p) PROVE DecisaoInv'
    <2>1. /\ pc[p] = "registro"
          /\ pc' = [pc EXCEPT ![p] = "resposta"]
          /\ UNCHANGED <<pedido, desfecho, status, reviews, retorno, reservou>>
      BY <1>13 DEF Registrar, Ir, github, historia
    <2> QED
      BY <2>1 DEF TypeOK, DecisaoInv, Decidida
  <1>14. ASSUME NEW p \in Requisicoes, Responder(p) PROVE DecisaoInv'
    <2>1. /\ pc[p] = "resposta"
          /\ pc' = [pc EXCEPT ![p] = "fim"]
          /\ status' = [status EXCEPT ![p] = StatusDe(desfecho[p].decisao)]
          /\ UNCHANGED <<pedido, desfecho, reviews, retorno, reservou>>
      BY <1>14 DEF Responder, Ir, github, historia
    <2>2. /\ StatusDe(desfecho[p].decisao) = 202 => Decidida(p, {"aceita"})
          /\ StatusDe(desfecho[p].decisao) \in {400, 401, 403, 409} =>
               Decidida(p, {"recusada", "invalida", "repetida"})
          /\ StatusDe(desfecho[p].decisao) = 409 => Decidida(p, {"repetida"})
      BY <2>1 DEF StatusDe, Decidida, DecisaoInv, Decisoes
    <2> QED
      BY <2>1, <2>2 DEF TypeOK, DecisaoInv, Decidida
  <1>15. ASSUME NEW p \in Requisicoes, NEW corpo \in Pedidos, Receber(p, corpo) PROVE DecisaoInv'
    BY <1>15, AcoesAssumption
    DEF TypeOK, CorpoInv, DecisaoInv, Decidida, Decisoes, Dono, Nunca, Vidas, AntesDaReserva, EmConsulta, EmCurso, Ir, Decidir, servico, github, historia, Receber
  <1>16. ASSUME NEW r \in rede, Publicar(r) PROVE DecisaoInv'
    BY <1>16, AcoesAssumption
    DEF TypeOK, CorpoInv, DecisaoInv, Decidida, Decisoes, Dono, Nunca, Vidas, AntesDaReserva, EmConsulta, EmCurso, Ir, Decidir, servico, github, historia, Publicar
  <1>17. ASSUME NEW r \in rede, RecusarReview(r) \/ PerderEnvio(r) PROVE DecisaoInv'
    <2>1. /\ UNCHANGED <<pc, pedido, desfecho, status, reviews, reservou>>
          /\ \A p \in Requisicoes : retorno'[p] = "ok" => retorno[p] = "ok"
      BY <1>17 DEF RecusarReview, PerderEnvio, servico, historia, TypeOK
    <2> QED
      BY <2>1 DEF DecisaoInv, Decidida
  <1>18. ASSUME NEW repo \in Repos, NEW conta \in Contas, NEW papel \in PapeisPossiveis,
                MudarPermissao(repo, conta, papel)
         PROVE  DecisaoInv'
    BY <1>18, AcoesAssumption
    DEF TypeOK, CorpoInv, DecisaoInv, Decidida, Decisoes, Dono, Nunca, Vidas, AntesDaReserva, EmConsulta, EmCurso, Ir, Decidir, servico, github, historia, MudarPermissao
  <1>19. CASE Reiniciar
    BY <1>19, AcoesAssumption
    DEF TypeOK, CorpoInv, DecisaoInv, Decidida, Decisoes, Dono, Nunca, Vidas, AntesDaReserva, EmConsulta, EmCurso, Ir, Decidir, servico, github, historia, Reiniciar
  <1>20. CASE UNCHANGED vars
    BY <1>20, AcoesAssumption
    DEF TypeOK, CorpoInv, DecisaoInv, Decidida, Decisoes, Dono, Nunca, Vidas, AntesDaReserva, EmConsulta, EmCurso, Ir, Decidir, servico, github, historia, vars
  <1> QED
    BY <1>1, <1>2, <1>3, <1>4, <1>5, <1>6, <1>7, <1>8, <1>9, <1>10, <1>11, <1>12, <1>13, <1>14, <1>15, <1>16, <1>17, <1>18, <1>19, <1>20
    DEF Next, Entrada, Servir, GitHub

------------------------------------------------------------------------------
(* The inductive invariant and the theorems *)

LEMMA InvInicial == Init => IndInv
  <1> SUFFICES ASSUME Init PROVE IndInv
    OBVIOUS
  <1>1. TypeOK
    BY TipoInicial
  <1>2. CorpoInv
    BY AcoesAssumption DEF Init, CorpoInv, EmConsulta, EmCurso, AntesDaReserva
  <1>3. ReservaInv
    BY AcoesAssumption DEF Init, ReservaInv, Nunca
  <1>4. AutorizacaoInv
    BY DEF Init, AutorizacaoInv, EmConsulta
  <1>5. EfeitoInv /\ EfeitoAutorizado
    BY DEF Init, EfeitoInv, EfeitoAutorizado
  <1>6. DecisaoInv
    BY DEF Init, DecisaoInv, Decidida
  <1> QED
    BY <1>1, <1>2, <1>3, <1>4, <1>5, <1>6 DEF IndInv

(* Every reachable state satisfies the inductive invariant. *)
THEOREM Invariante == Spec => []IndInv
  <1>1. IndInv /\ [Next]_vars => IndInv'
    BY TipoPreservado, CorpoPreservado, ReservaPreservada, AutorizacaoPreservada,
       EfeitoPreservado, EfeitoAutorizadoPreservado, DecisaoPreservada DEF IndInv
  <1> QED
    BY InvInicial, <1>1, PTL DEF Spec

(* Type correctness of the remote-action channel. *)
THEOREM TipoCorreto == Spec => []TypeOK
  <1>1. IndInv => TypeOK
    BY DEF IndInv
  <1> QED
    BY Invariante, <1>1, PTL

(* One life of the process publishes at most one review per id_acao: two reviews
   with one id and one life come from requests that reserved the id in that life,
   hence from one request, which sends one review. *)
THEOREM NoMaximoUmEfeito == Spec => []EfeitoUnicoPorVida
  <1>1. IndInv => EfeitoUnicoPorVida
    <2> SUFFICES ASSUME IndInv, NEW r \in reviews, NEW s \in reviews,
                        r.id = s.id, r.vida = s.vida
                 PROVE  r = s
      BY DEF EfeitoUnicoPorVida
    <2>1. r = Impressa(r.origem) /\ s = Impressa(s.origem)
      BY DEF IndInv, EfeitoInv
    <2>2. r \in Reviews /\ s \in Reviews
      BY DEF IndInv, TypeOK
    <2>3. r.origem \in Requisicoes /\ s.origem \in Requisicoes /\ r.vida \in Vidas
      BY <2>2 DEF Reviews
    <2>4. /\ reservou[r.origem] = r.vida /\ reservou[s.origem] = s.vida
          /\ pedido[r.origem].id = r.id /\ pedido[s.origem].id = s.id
      BY <2>1 DEF Impressa
    <2>5. r.vida # Nunca
      BY <2>3, AcoesAssumption DEF Vidas, Nunca
    <2>6. r.origem = s.origem
      BY <2>3, <2>4, <2>5 DEF IndInv, ReservaInv
    <2> QED
      BY <2>1, <2>6
  <1> QED
    BY Invariante, <1>1, PTL

(* Every review acts for the linked login, with write access seen during the
   request, and never approves a pull request of the same account. *)
THEOREM SoEfeitoAutorizado == Spec => []EfeitoAutorizado
  <1>1. IndInv => EfeitoAutorizado
    BY DEF IndInv
  <1> QED
    BY Invariante, <1>1, PTL

(* The HTTP answer tells the truth about the effect, except in doubt (500). *)
THEOREM RespostaFiel == Spec => []RespostaFielAoEfeito
  <1>1. IndInv => RespostaFielAoEfeito
    <2> SUFFICES ASSUME IndInv, NEW p \in Requisicoes,
                        status[p] \in {400, 401, 403, 409}, NEW r \in rede \union reviews
                 PROVE  r.origem # p
      BY DEF IndInv, DecisaoInv, RespostaFielAoEfeito
    <2>1. r = Impressa(r.origem) /\ r \in Reviews
      BY DEF IndInv, EfeitoInv, TypeOK
    <2>2. reservou[r.origem] \in Vidas
      BY <2>1 DEF Impressa, Reviews
    <2> QED
      BY <2>2, AcoesAssumption DEF IndInv, DecisaoInv, Vidas, Nunca
  <1> QED
    BY Invariante, <1>1, PTL

(* A repeated answer names an id that another request really reserved. *)
THEOREM RepetidaComVencedor == Spec => []RepetidaTemVencedor
  <1>1. IndInv => RepetidaTemVencedor
    BY DEF IndInv, DecisaoInv, RepetidaTemVencedor
  <1> QED
    BY Invariante, <1>1, PTL

------------------------------------------------------------------------------
(* With PostgreSQL the register only grows, one row per id_acao. *)
LEMMA RegistroPreservado ==
  ASSUME RegistroDuravel, LinhaUnica, [Next]_vars
  PROVE  RegistroCresce
  <1>1. ASSUME NEW p \in Requisicoes, Registrar(p) PROVE RegistroCresce
    BY <1>1 DEF Registrar, Guardar, RegistroAceita, LinhaUnica, RegistroCresce
  <1>2. ASSUME UNCHANGED tentativas PROVE RegistroCresce
    BY <1>2 DEF RegistroCresce, LinhaUnica
  <1>3. ASSUME NEW p \in Requisicoes, Entrada(p) \/ Cancelar(p) \/ (Servir(p) /\ ~Registrar(p))
        PROVE  UNCHANGED tentativas
    BY <1>3 DEF Entrada, RejeitarNaPorta, RejeitarCorpo, Receber, Cancelar, Servir, Identificar, LoginGitHub,
       ConsultarPermissao, PermissaoNoRepositorio, ConsultarAutor, AutorDoPullRequest, FalharVerificacao, Reservar, ReservaLivre, EnviarReview,
       FalharAntesDoEnvio, ReceberRetorno, DesistirDoEnvio, Responder
  <1>4. ASSUME GitHub \/ Reiniciar \/ UNCHANGED vars PROVE UNCHANGED tentativas
    BY <1>4 DEF GitHub, Publicar, RecusarReview, PerderEnvio, MudarPermissao, Reiniciar, vars
  <1> QED
    BY <1>1, <1>2, <1>3, <1>4 DEF Next, Servir

(* The durable register is append-only and holds one attempt per id_acao. *)
THEOREM RegistroSoCresce ==
  ASSUME RegistroDuravel PROVE Spec => RegistroImutavel
  <1>1. Init => LinhaUnica
    BY DEF Init, LinhaUnica
  <1>2. LinhaUnica /\ [Next]_vars => LinhaUnica' /\ [RegistroCresce]_vars
    BY RegistroPreservado DEF RegistroCresce
  <1>3. Spec => [][RegistroCresce]_vars
    BY <1>1, <1>2, PTL DEF Spec
  <1> QED
    BY <1>3, PTL DEF RegistroImutavel

------------------------------------------------------------------------------
(* The channel implements AcaoUnica. *)

LEMMA UsosValidos ==
  ASSUME IndInv, NEW r \in rede \union reviews
  PROVE  /\ r.origem \in Requisicoes
         /\ reservou[r.origem] = r.vida /\ pedido[r.origem].id = r.id
         /\ <<r.id, r.vida, r.origem>> = UsoDe(r.origem)
         /\ UsoDe(r.origem) \in Tomadas
         /\ UsoDe(r.origem) \in Promessa!Usos
  <1>1. r = Impressa(r.origem) /\ r \in Reviews
    BY DEF IndInv, EfeitoInv, TypeOK
  <1>2. r.origem \in Requisicoes /\ r.id \in IdsDeAcao /\ r.vida \in Vidas
    BY <1>1 DEF Reviews
  <1>3. reservou[r.origem] = r.vida /\ pedido[r.origem].id = r.id
    BY <1>1 DEF Impressa
  <1>4. reservou[r.origem] # Nunca
    BY <1>2, <1>3, AcoesAssumption DEF Vidas, Nunca
  <1> QED
    BY <1>2, <1>3, <1>4 DEF Tomadas, UsoDe, Promessa!Usos, Vidas

LEMMA PassoImplementa ==
  ASSUME IndInv, IndInv', [Next]_vars
  PROVE  [Promessa!AbsNext]_(Promessa!absVars)
  <1> DEFINE Abs == [Promessa!AbsNext]_(Promessa!absVars)
  <1>1. ASSUME UNCHANGED <<vida, pedido, reservou, status, reviews>> PROVE Abs
    BY <1>1 DEF Promessa!absVars, Tomadas, Confirmadas, Usadas, UsoDe
  <1>2. ASSUME NEW p \in Requisicoes, RejeitarNaPorta(p) PROVE Abs
    <2>1. UNCHANGED <<vida, pedido, reservou, reviews>> /\ Confirmadas' = Confirmadas
      BY <1>2 DEF RejeitarNaPorta, github, historia, Confirmadas, UsoDe, IndInv, TypeOK, CorpoInv, Ir
    <2> QED
      BY <2>1 DEF Promessa!absVars, Tomadas, Usadas, UsoDe
  <1>3. ASSUME NEW p \in Requisicoes, NEW corpo \in Pedidos, Receber(p, corpo) PROVE Abs
    <2>1. /\ UNCHANGED <<vida, reservou, reviews, status>>
          /\ \A q \in Requisicoes : q # p => pedido'[q] = pedido[q]
          /\ reservou[p] = Nunca /\ status[p] = 0
      BY <1>3 DEF Receber, github, IndInv, TypeOK, CorpoInv, Ir, AntesDaReserva, EmCurso
    <2>2. Tomadas' = Tomadas /\ Confirmadas' = Confirmadas
      BY <2>1 DEF Tomadas, Confirmadas, UsoDe
    <2> QED
      BY <2>1, <2>2 DEF Promessa!absVars, Usadas
  <1>4. ASSUME NEW p \in Requisicoes, Reservar(p) PROVE Abs
    <2>1. CASE UNCHANGED reservou
      BY <1>1, <1>4, <2>1 DEF Reservar, ReservaLivre, github
    <2>2. CASE pedido[p].id \notin reservados /\ reservou' = [reservou EXCEPT ![p] = vida]
      <3>1. /\ UNCHANGED <<vida, pedido, reviews, status>>
            /\ reservou[p] = Nunca /\ pedido[p].id \in IdsDeAcao /\ vida # Nunca
            /\ status[p] = 0
        BY <1>4, CamposDoPedido, AcoesAssumption
        DEF Reservar, ReservaLivre, github, IndInv, TypeOK, CorpoInv, AntesDaReserva, EmConsulta, EmCurso, Vidas, Nunca
      <3>2. Tomadas' = Tomadas \union {<<pedido[p].id, vida, p>>}
        BY <2>2, <3>1 DEF Tomadas, UsoDe, IndInv, TypeOK
      <3>3. \A uso \in Tomadas : ~(uso[1] = pedido[p].id /\ uso[2] = vida)
        BY <2>2 DEF Tomadas, UsoDe, IndInv, ReservaInv
      <3>4. Confirmadas' = Confirmadas /\ Usadas(reviews)' = Usadas(reviews)
        BY <2>2, <3>1 DEF Confirmadas, Usadas, UsoDe, IndInv, TypeOK
      <3>5. Promessa!Tomar(pedido[p].id, p)
        BY <3>1, <3>2, <3>3, <3>4 DEF Promessa!Tomar
      <3> QED
        BY <3>1, <3>5 DEF Promessa!AbsNext
    <2> QED
      BY <1>4, <2>1, <2>2 DEF Reservar, ReservaLivre
  <1>5. ASSUME NEW p \in Requisicoes, Responder(p) PROVE Abs
    <2>1. /\ UNCHANGED <<vida, pedido, reviews, reservou>>
          /\ status' = [status EXCEPT ![p] = StatusDe(desfecho[p].decisao)]
          /\ status[p] = 0 /\ pc[p] = "resposta"
      BY <1>5 DEF Responder, github, historia, IndInv, CorpoInv, Ir, EmCurso
    <2>2. Tomadas' = Tomadas /\ Usadas(reviews)' = Usadas(reviews)
      BY <2>1 DEF Tomadas, Usadas, UsoDe
    <2>3. CASE desfecho[p].decisao # "aceita"
      <3>1. StatusDe(desfecho[p].decisao) # 202
        BY <2>1, <2>3 DEF StatusDe, IndInv, DecisaoInv, Decisoes
      <3>2. Confirmadas' = Confirmadas
        BY <2>1, <3>1 DEF Confirmadas, UsoDe, IndInv, TypeOK
      <3> QED
        BY <2>1, <2>2, <3>2 DEF Promessa!absVars
    <2>4. CASE desfecho[p].decisao = "aceita"
      <3>1. PICK r \in reviews : r.origem = p
        BY <2>1, <2>4 DEF IndInv, DecisaoInv, Decidida
      <3>2. /\ reservou[p] = r.vida /\ <<r.id, r.vida, p>> = UsoDe(p)
            /\ UsoDe(p) \in Promessa!Usos /\ r.vida \in Vidas
        BY <3>1, UsosValidos DEF IndInv, TypeOK, Reviews
      <3>3. reservou[p] = vida
        BY <2>1, <3>2, AcoesAssumption DEF IndInv, CorpoInv, EmCurso, Vidas, Nunca
      <3>4. UsoDe(p) \in Usadas(reviews) /\ UsoDe(p)[2] = vida
        BY <3>1, <3>2, <3>3 DEF Usadas, UsoDe
      <3>5. Confirmadas' = Confirmadas \union {UsoDe(p)}
        BY <2>1, <2>4 DEF Confirmadas, StatusDe, UsoDe, IndInv, TypeOK
      <3>6. UsoDe(p) \notin Confirmadas
        BY <2>1 DEF Confirmadas, UsoDe
      <3>7. Promessa!ConfirmarUso(UsoDe(p))
        BY <2>1, <2>2, <3>4, <3>5, <3>6 DEF Promessa!ConfirmarUso
      <3> QED
        BY <3>2, <3>7 DEF Promessa!AbsNext
    <2> QED
      BY <2>3, <2>4
  <1>6. ASSUME NEW r \in rede, Publicar(r) PROVE Abs
    <2> DEFINE uso == UsoDe(r.origem)
    <2>1. /\ UNCHANGED <<vida, pedido, reservou, status>>
          /\ reviews' = reviews \union {r}
      BY <1>6 DEF Publicar, servico, historia
    <2>2. uso = <<r.id, r.vida, r.origem>> /\ uso \in Tomadas /\ uso \in Promessa!Usos
      BY UsosValidos
    <2>3. Usadas(reviews)' = Usadas(reviews) \union {uso}
      BY <2>1, <2>2 DEF Usadas
    <2>4. Tomadas' = Tomadas /\ Confirmadas' = Confirmadas
      BY <2>1 DEF Tomadas, Confirmadas, UsoDe
    <2> HIDE DEF uso
    <2>5. CASE uso \in Usadas(reviews)
      BY <2>1, <2>3, <2>4, <2>5 DEF Promessa!absVars
    <2>6. CASE uso \notin Usadas(reviews)
      <3>1. Promessa!PublicarUso(uso)
        BY <2>1, <2>2, <2>3, <2>4, <2>6 DEF Promessa!PublicarUso
      <3> QED
        BY <2>2, <3>1 DEF Promessa!AbsNext
    <2> QED
      BY <2>5, <2>6
  <1>7. CASE Reiniciar
    <2>1. UNCHANGED <<pedido, reservou, status, reviews>>
      BY <1>7 DEF Reiniciar, github, historia
    <2>2. Tomadas' = Tomadas /\ Confirmadas' = Confirmadas /\ Usadas(reviews)' = Usadas(reviews)
      BY <2>1 DEF Tomadas, Confirmadas, Usadas, UsoDe
    <2>3. Promessa!AbrirVida
      BY <1>7, <2>2 DEF Promessa!AbrirVida, Reiniciar
    <2> QED
      BY <2>3 DEF Promessa!AbsNext
  <1>8. ASSUME NEW p \in Requisicoes,
               \/ RejeitarCorpo(p) \/ Cancelar(p) \/ Identificar(p) \/ ConsultarPermissao(p)
               \/ ConsultarAutor(p) \/ FalharVerificacao(p) \/ EnviarReview(p)
               \/ FalharAntesDoEnvio(p) \/ ReceberRetorno(p) \/ DesistirDoEnvio(p) \/ Registrar(p)
        PROVE  UNCHANGED <<vida, pedido, reservou, status, reviews>>
    BY <1>8 DEF RejeitarCorpo, Cancelar, Identificar, LoginGitHub, ConsultarPermissao, PermissaoNoRepositorio, ConsultarAutor, AutorDoPullRequest,
       FalharVerificacao, EnviarReview, FalharAntesDoEnvio, ReceberRetorno, DesistirDoEnvio,
       Registrar, Guardar, github, historia
  <1>9. ASSUME NEW r \in rede, RecusarReview(r) \/ PerderEnvio(r)
        PROVE  UNCHANGED <<vida, pedido, reservou, status, reviews>>
    BY <1>9 DEF RecusarReview, PerderEnvio, servico, historia
  <1>10. ASSUME NEW repo \in Repos, NEW conta \in Contas, NEW papel \in PapeisPossiveis,
                MudarPermissao(repo, conta, papel)
         PROVE  UNCHANGED <<vida, pedido, reservou, status, reviews>>
    BY <1>10 DEF MudarPermissao, servico
  <1>11. CASE UNCHANGED vars
    BY <1>1, <1>11 DEF vars, servico, github, historia
  <1>12. ASSUME Reiniciar PROVE Abs
    BY <1>7, <1>12
  <1>13. ASSUME UNCHANGED vars PROVE Abs
    BY <1>11, <1>13
  <1> HIDE DEF Abs
  <1>14. ASSUME NEW p \in Requisicoes, Entrada(p) \/ Cancelar(p) \/ Servir(p) PROVE Abs
    BY <1>1, <1>2, <1>3, <1>4, <1>5, <1>8, <1>14 DEF Entrada, Servir
  <1>15. ASSUME GitHub PROVE Abs
    <2>1. CASE \E r \in rede : Publicar(r) \/ RecusarReview(r) \/ PerderEnvio(r)
      <3>1. PICK r \in rede : Publicar(r) \/ RecusarReview(r) \/ PerderEnvio(r)
        BY <2>1
      <3> QED
        BY <1>1, <1>6, <1>9, <3>1
    <2>2. CASE \E repo \in Repos, conta \in Contas, papel \in PapeisPossiveis :
                 MudarPermissao(repo, conta, papel)
      <3>1. PICK repo \in Repos, conta \in Contas, papel \in PapeisPossiveis :
               MudarPermissao(repo, conta, papel)
        BY <2>2
      <3> QED
        BY <1>1, <1>10, <3>1
    <2> QED
      BY <1>15, <2>1, <2>2 DEF GitHub
  <1>16. Next => Abs
    BY <1>12, <1>14, <1>15 DEF Next
  <1>17. Abs
    BY <1>13, <1>16
  <1> QED
    BY <1>17 DEF Abs

(* The channel, with its interleavings, failures and restarts, implements the
   abstract promise about one id_acao. *)
THEOREM ImplementaPromessa == Spec => ImplementaAcaoUnica
  <1>1. Init => Promessa!AbsInit
    BY DEF Init, Promessa!AbsInit, Tomadas, Confirmadas, Usadas
  <1>2. IndInv /\ IndInv' /\ [Next]_vars => [Promessa!AbsNext]_(Promessa!absVars)
    BY PassoImplementa
  <1> QED
    BY <1>1, <1>2, Invariante, PTL DEF Spec, ImplementaAcaoUnica, Promessa!AbsSpec

(* What one step does to a request: past its write only the answer is left. *)
Avanca(q) ==
  /\ pc[q] \in Assentados =>
       pc'[q] \in Assentados /\ UNCHANGED <<pedido[q], situacao[q], desfecho[q]>>
  /\ \/ status'[q] = status[q]
     \/ pc[q] = "livre"
     \/ pc[q] = "resposta" /\ status'[q] = StatusDe(desfecho[q].decisao)
  /\ reservou'[q] = reservou[q] \/ pc[q] = "reserva"
  /\ pc'[q] = "resposta" => pc[q] = "resposta" \/ Registrar(q)

LEMMA PassoDeUm ==
  ASSUME TypeOK, [Next]_vars, NEW q \in Requisicoes
  PROVE  Avanca(q)
  <1>1. ASSUME UNCHANGED <<pc, pedido, situacao, desfecho, status, reservou>> PROVE Avanca(q)
    BY <1>1 DEF Avanca
  <1>2. ASSUME NEW p \in Requisicoes, pc[p] \notin Assentados, pc'[p] # "resposta",
               \A x \in Requisicoes \ {p} :
                 UNCHANGED <<pc[x], pedido[x], situacao[x], desfecho[x], status[x], reservou[x]>>,
               status'[p] = status[p] \/ pc[p] = "livre",
               reservou'[p] = reservou[p] \/ pc[p] = "reserva"
        PROVE  Avanca(q)
    BY <1>2 DEF Avanca, Assentados
  <1>3. ASSUME NEW p \in Requisicoes, RejeitarNaPorta(p) PROVE Avanca(q)
    BY <1>2, <1>3 DEF RejeitarNaPorta, Ir, TypeOK, Assentados, historia
  <1>4. ASSUME NEW p \in Requisicoes,
               \/ RejeitarCorpo(p) \/ (\E corpo \in Pedidos : Receber(p, corpo))
               \/ Identificar(p) \/ FalharVerificacao(p)
        PROVE  Avanca(q)
    BY <1>2, <1>4 DEF RejeitarCorpo, Receber, Identificar, FalharVerificacao, Decidir, Ir, TypeOK,
                      Assentados, historia
  <1>5. ASSUME NEW p \in Requisicoes, ConsultarPermissao(p) \/ ConsultarAutor(p) PROVE Avanca(q)
    BY <1>2, <1>5 DEF ConsultarPermissao, ConsultarAutor, SeguirVeredito, Decidir, Ir, TypeOK,
                      Assentados, historia
  <1>6. ASSUME NEW p \in Requisicoes, Reservar(p) PROVE Avanca(q)
    BY <1>2, <1>6 DEF Reservar, Decidir, Ir, TypeOK, Assentados
  <1>7. ASSUME NEW p \in Requisicoes,
               \/ EnviarReview(p) \/ FalharAntesDoEnvio(p) \/ ReceberRetorno(p) \/ DesistirDoEnvio(p)
        PROVE  Avanca(q)
    BY <1>2, <1>7 DEF EnviarReview, FalharAntesDoEnvio, ReceberRetorno, DesistirDoEnvio, Decidir, Ir,
                      TypeOK, Assentados, historia
  <1>8. ASSUME NEW p \in Requisicoes, Registrar(p) PROVE Avanca(q)
    <2>1. /\ pc[p] = "registro" /\ pc' = [pc EXCEPT ![p] = "resposta"]
          /\ UNCHANGED <<pedido, situacao, desfecho, status, reservou>>
      BY <1>8 DEF Registrar, Ir
    <2> QED
      BY <1>8, <2>1 DEF Avanca, TypeOK, Assentados
  <1>9. ASSUME NEW p \in Requisicoes, Responder(p) PROVE Avanca(q)
    <2>1. /\ pc[p] = "resposta" /\ pc' = [pc EXCEPT ![p] = "fim"]
          /\ status' = [status EXCEPT ![p] = StatusDe(desfecho[p].decisao)]
          /\ UNCHANGED <<pedido, situacao, desfecho, reservou>>
      BY <1>9 DEF Responder, Ir, historia
    <2> QED
      BY <2>1 DEF Avanca, TypeOK, Assentados
  <1>10. ASSUME \E p \in Requisicoes : Cancelar(p) PROVE Avanca(q)
    BY <1>1, <1>10 DEF Cancelar, historia
  <1>11. CASE GitHub
    BY <1>1, <1>11 DEF GitHub, Publicar, RecusarReview, PerderEnvio, MudarPermissao, servico, historia
  <1>12. CASE Reiniciar
    <2>1. /\ pc'[q] = IF pc[q] \in EmCurso THEN "perdida" ELSE pc[q]
          /\ UNCHANGED <<pedido, situacao, desfecho, status, reservou>>
      BY <1>12 DEF Reiniciar, historia
    <2> QED
      BY <2>1 DEF Avanca, Assentados, EmCurso
  <1>13. CASE UNCHANGED vars
    BY <1>1, <1>13 DEF vars, servico, historia
  <1> QED
    BY <1>3, <1>4, <1>5, <1>6, <1>7, <1>8, <1>9, <1>10, <1>11, <1>12, <1>13
    DEF Next, Entrada, Servir

(* What one step does to the effects: a review is only added by the request
   that sends it, and a public one stays. *)
LEMMA PassoDosEfeitos ==
  ASSUME TypeOK, CorpoInv, [Next]_vars
  PROVE  /\ reviews \subseteq reviews'
         /\ \A r \in rede' \union reviews' :
              \/ r \in rede \union reviews
              \/ /\ r.origem \in Requisicoes /\ pc[r.origem] = "execucao"
                 /\ pc'[r.origem] = "aguardando" /\ status'[r.origem] = 0
  <1>1. ASSUME NEW p \in Requisicoes, EnviarReview(p)
        PROVE  /\ UNCHANGED reviews /\ rede' = rede \union {ReviewDe(p)} /\ ReviewDe(p).origem = p
               /\ pc[p] = "execucao" /\ pc'[p] = "aguardando" /\ status'[p] = 0
    BY <1>1 DEF EnviarReview, ReviewDe, Ir, TypeOK, CorpoInv, EmCurso, EmConsulta
  <1>2. ASSUME NEW p \in Requisicoes, Entrada(p) \/ Cancelar(p) \/ (Servir(p) /\ ~EnviarReview(p))
        PROVE  UNCHANGED <<rede, reviews>>
    BY <1>2 DEF Entrada, RejeitarNaPorta, RejeitarCorpo, Receber, Cancelar, Servir, Identificar,
       ConsultarPermissao, ConsultarAutor, FalharVerificacao, Reservar, FalharAntesDoEnvio,
       ReceberRetorno, DesistirDoEnvio, Registrar, Responder, github
  <1>3. ASSUME GitHub \/ Reiniciar \/ UNCHANGED vars
        PROVE  reviews \subseteq reviews' /\ rede' \union reviews' \subseteq rede \union reviews
    BY <1>3 DEF GitHub, Publicar, RecusarReview, PerderEnvio, MudarPermissao, Reiniciar, vars, github
  <1> QED
    BY <1>1, <1>2, <1>3 DEF Next, Servir

(* What one step does to the register: a row is only added by the request that
   writes it, and only a restart of a register in memory takes one away. *)
LEMMA PassoDoRegistro ==
  ASSUME [Next]_vars
  PROVE  /\ RegistroDuravel => tentativas \subseteq tentativas'
         /\ semRegistro \subseteq semRegistro'
         /\ \A t \in tentativas' : t \in tentativas \/ \E p \in Requisicoes :
              Registrar(p) /\ RegistroAceita(TentativaDe(p)) /\ t = TentativaDe(p)
  <1>1. ASSUME NEW p \in Requisicoes, Registrar(p)
        PROVE  /\ semRegistro \subseteq semRegistro'
               /\ \/ UNCHANGED tentativas
                  \/ RegistroAceita(TentativaDe(p)) /\ tentativas' = tentativas \union {TentativaDe(p)}
    BY <1>1 DEF Registrar, Guardar
  <1>2. ASSUME NEW p \in Requisicoes, Entrada(p) \/ Cancelar(p) \/ (Servir(p) /\ ~Registrar(p))
        PROVE  UNCHANGED <<tentativas, semRegistro>>
    BY <1>2 DEF Entrada, RejeitarNaPorta, RejeitarCorpo, Receber, Cancelar, Servir, Identificar,
       ConsultarPermissao, ConsultarAutor, FalharVerificacao, Reservar, EnviarReview,
       FalharAntesDoEnvio, ReceberRetorno, DesistirDoEnvio, Responder, historia
  <1>3. ASSUME GitHub \/ UNCHANGED vars PROVE UNCHANGED <<tentativas, semRegistro>>
    BY <1>3 DEF GitHub, Publicar, RecusarReview, PerderEnvio, MudarPermissao, vars, historia
  <1>4. ASSUME Reiniciar
        PROVE  tentativas' = (IF RegistroDuravel THEN tentativas ELSE {}) /\ UNCHANGED semRegistro
    BY <1>4 DEF Reiniciar, historia
  <1> QED
    BY <1>1, <1>2, <1>3, <1>4 DEF Next, Servir

(* The effects of a request carry its mark, and a request that did not reserve
   has none. *)
LEMMA EfeitoDe ==
  ASSUME TypeOK, EfeitoInv, NEW r \in rede \union reviews
  PROVE  /\ r.origem \in Requisicoes /\ reservou[r.origem] # Nunca
         /\ r.id = pedido[r.origem].id /\ r.login = situacao[r.origem].login
         /\ pc[r.origem] \notin (AntesDaReserva \union {"execucao"})
  <1>1. r.origem \in Requisicoes /\ r.vida \in Vidas
    BY DEF TypeOK, Reviews
  <1>2. /\ r.id = pedido[r.origem].id /\ r.login = situacao[r.origem].login
        /\ r.vida = reservou[r.origem]
    BY DEF EfeitoInv, Impressa
  <1> QED
    BY <1>1, <1>2, AcoesAssumption DEF EfeitoInv, Vidas, Nunca

(* The row a request writes is faithful when it is written. *)
LEMMA LinhaNovaFiel ==
  ASSUME IndInv, NEW p \in Requisicoes, pc[p] = "registro"
  PROVE  LinhaFiel(TentativaDe(p))
  <1>0. TypeOK /\ EfeitoInv /\ DecisaoInv
    BY DEF IndInv
  <1>1. ASSUME desfecho[p].decisao = "aceita"
        PROVE  \E r \in reviews : r.origem = p /\ r.id = pedido[p].id /\ r.login = situacao[p].login
    BY <1>0, <1>1, EfeitoDe DEF DecisaoInv, Decidida
  <1>2. ASSUME desfecho[p].decisao = "recusada" PROVE \A r \in rede \union reviews : r.origem # p
    BY <1>0, <1>2, EfeitoDe DEF DecisaoInv, Decidida
  <1> QED
    BY <1>1, <1>2 DEF LinhaFiel, TentativaDe

(* A row stays faithful: reviews stay public, and nothing is sent any more. *)
LEMMA PassoDoAtestado ==
  ASSUME IndInv, AtestaInv, [Next]_vars
  PROVE  AtestaInv'
  <1>0. TypeOK /\ CorpoInv
    BY DEF IndInv
  <1>1. ASSUME NEW t \in tentativas
        PROVE  /\ t.origem \in Requisicoes /\ pc'[t.origem] \in Assentados
               /\ t = TentativaDe(t.origem)'
               /\ status'[t.origem] \in {0, StatusDe(t.desfecho.decisao)}
               /\ RegistroDuravel => t.desfecho.decisao # "repetida"
               /\ LinhaFiel(t)'
    <2>1. /\ t.origem \in Requisicoes /\ pc[t.origem] \in Assentados /\ t = TentativaDe(t.origem)
          /\ status[t.origem] \in {0, StatusDe(t.desfecho.decisao)} /\ LinhaFiel(t)
          /\ RegistroDuravel => t.desfecho.decisao # "repetida"
      BY DEF AtestaInv
    <2>2. Avanca(t.origem)
      BY <1>0, <2>1, PassoDeUm
    <2>3. pc'[t.origem] \in Assentados /\ t = TentativaDe(t.origem)'
      BY <2>1, <2>2 DEF Avanca, TentativaDe
    <2>4. t.desfecho = desfecho[t.origem]
      BY <2>1 DEF TentativaDe
    <2>5. status'[t.origem] \in {0, StatusDe(t.desfecho.decisao)}
      BY <2>1, <2>2, <2>4 DEF Avanca, Assentados
    <2>6. LinhaFiel(t)'
      BY <1>0, <2>1, PassoDosEfeitos DEF LinhaFiel, Assentados
    <2> QED
      BY <2>1, <2>3, <2>5, <2>6
  <1>2. ASSUME NEW p \in Requisicoes, Registrar(p), RegistroAceita(TentativaDe(p)), NEW t, t = TentativaDe(p)
        PROVE  /\ t.origem \in Requisicoes /\ pc'[t.origem] \in Assentados
               /\ t = TentativaDe(t.origem)'
               /\ status'[t.origem] \in {0, StatusDe(t.desfecho.decisao)}
               /\ RegistroDuravel => t.desfecho.decisao # "repetida"
               /\ LinhaFiel(t)'
    <2>1. /\ t.origem = p /\ pc[p] = "registro" /\ pc'[p] = "resposta"
          /\ UNCHANGED <<pedido, situacao, desfecho, status, rede, reviews>>
      BY <1>0, <1>2 DEF Registrar, TentativaDe, Ir, TypeOK, github
    <2>2. t = TentativaDe(p)'
      BY <1>2, <2>1 DEF TentativaDe
    <2>3. status'[p] = 0
      BY <1>0, <2>1 DEF CorpoInv, EmCurso
    <2>4. LinhaFiel(t)'
      BY <1>2, <2>1, LinhaNovaFiel DEF LinhaFiel
    <2>5. RegistroDuravel => t.desfecho.decisao # "repetida"
      BY <1>2 DEF RegistroAceita
    <2> QED
      BY <2>1, <2>2, <2>3, <2>4, <2>5 DEF Assentados
  <1> QED
    BY <1>1, <1>2, PassoDoRegistro DEF AtestaInv

(* The row that takes the place of one's own is of a request that did not
   reserve the id in the same life: nobody else did. *)
LEMMA PassoDaLinha ==
  ASSUME IndInv, AtestaInv, LinhaInv, [Next]_vars
  PROVE  LinhaInv'
  <1>0. TypeOK /\ CorpoInv /\ ReservaInv /\ EfeitoInv /\ DecisaoInv
    BY DEF IndInv
  <1> SUFFICES ASSUME RegistroDuravel, NEW r \in rede' \union reviews',
                      pc'[r.origem] = "resposta" \/ status'[r.origem] # 0,
                      r.origem \notin semRegistro'
               PROVE  \E t \in tentativas' : LinhaSegura(r, t)'
    BY DEF LinhaInv
  <1>1. r \in rede \union reviews
    BY <1>0, PassoDosEfeitos
  <1>2. /\ r.origem \in Requisicoes /\ reservou[r.origem] # Nunca /\ r.id = pedido[r.origem].id
        /\ pc[r.origem] \notin (AntesDaReserva \union {"execucao"})
    BY <1>0, <1>1, EfeitoDe
  <1>3. reservou'[r.origem] = reservou[r.origem]
    BY <1>0, <1>2, PassoDeUm DEF Avanca, AntesDaReserva
  <1>4. ASSUME NEW t \in tentativas, LinhaSegura(r, t) PROVE t \in tentativas' /\ LinhaSegura(r, t)'
    <2>1. t.origem \in Requisicoes /\ pc[t.origem] \in Assentados
      BY DEF AtestaInv
    <2>2. reservou'[t.origem] = reservou[t.origem]
      BY <1>0, <2>1, PassoDeUm DEF Avanca, Assentados
    <2> QED
      BY <1>3, <1>4, <2>2, PassoDoRegistro DEF LinhaSegura
  <1>5. CASE pc[r.origem] = "resposta" \/ status[r.origem] # 0
    <2>1. r.origem \notin semRegistro
      BY PassoDoRegistro
    <2> QED
      BY <1>1, <1>4, <1>5, <2>1 DEF LinhaInv
  <1>6. CASE ~(pc[r.origem] = "resposta" \/ status[r.origem] # 0)
    <2>1. Registrar(r.origem)
      BY <1>0, <1>2, <1>6, PassoDeUm DEF Avanca, AntesDaReserva
    <2>2. pc[r.origem] = "registro" /\ UNCHANGED reservou
      BY <2>1 DEF Registrar, Ir
    <2>3. desfecho[r.origem].decisao \notin {"invalida", "repetida"}
      BY <1>0, <1>2, <2>2 DEF DecisaoInv, Decidida
    <2>4. /\ TentativaDe(r.origem).origem = r.origem
          /\ TentativaDe(r.origem).pedido = pedido[r.origem]
          /\ TentativaDe(r.origem).desfecho = desfecho[r.origem]
      BY DEF TentativaDe
    <2>5. CASE Guardar(TentativaDe(r.origem))
      BY <1>2, <2>4, <2>5 DEF Guardar, LinhaSegura
    <2>6. CASE ~RegistroAceita(TentativaDe(r.origem))
      <3>1. PICK u \in tentativas : u.pedido.id = pedido[r.origem].id
        BY <2>3, <2>4, <2>6 DEF RegistroAceita
      <3>2. u.origem \in Requisicoes /\ u.pedido = pedido[u.origem] /\ u.origem # r.origem
        BY <2>2 DEF AtestaInv, TentativaDe, Assentados
      <3>3. reservou[u.origem] # reservou[r.origem]
        BY <1>0, <1>2, <3>1, <3>2 DEF ReservaInv
      <3> QED
        BY <1>2, <1>4, <3>1, <3>2, <3>3 DEF LinhaSegura
    <2> QED
      BY <2>1, <2>5, <2>6 DEF Registrar
  <1> QED
    BY <1>5, <1>6

(* RepositorioPostgres.Registrar and the memory one: whatever fails and whoever
   gives up, a row says what happened; in PostgreSQL an answered request with an
   effect has one, its own or of an earlier request of the id that did not
   reserve it in this life, unless its own write failed. *)
THEOREM EfeitoFicaRegistrado == Spec => []RegistroFielAoEfeito
  <1>1. Init => AtestaInv /\ LinhaInv
    BY DEF Init, AtestaInv, LinhaInv
  <1>2. IndInv /\ AtestaInv /\ LinhaInv /\ [Next]_vars => AtestaInv' /\ LinhaInv'
    BY PassoDoAtestado, PassoDaLinha
  <1>3. IndInv /\ AtestaInv /\ LinhaInv => RegistroFielAoEfeito
    <2> SUFFICES ASSUME IndInv, AtestaInv, LinhaInv, RegistroDuravel, NEW r \in rede \union reviews,
                        status[r.origem] # 0, r.origem \notin semRegistro
                 PROVE  \E t \in tentativas : LinhaDe(r, t)
      BY DEF RegistroFielAoEfeito, AtestaInv
    <2>1. PICK t \in tentativas : LinhaSegura(r, t)
      BY DEF LinhaInv
    <2>2. r.login = situacao[r.origem].login
      BY EfeitoDe DEF IndInv
    <2>3. /\ t.login = situacao[t.origem].login
          /\ status[t.origem] \in {0, StatusDe(t.desfecho.decisao)}
          /\ t.desfecho.decisao # "repetida"
      BY DEF AtestaInv, TentativaDe
    <2> QED
      BY <2>1, <2>2, <2>3 DEF LinhaDe, LinhaSegura
  <1> QED
    BY Invariante, <1>1, <1>2, <1>3, PTL DEF Spec
==============================================================================
