---------------------------- MODULE Webhooks_proofs ----------------------------
(* Proofs about Webhooks.  The inductive invariant IndInv says that the rows of
   the two tables are unique and come from their payload, that a request being
   served passed the triage, and that a review being recorded looks at a
   task_run of its pull request as recent as the ones accepted before it
   arrived. *)
EXTENDS Webhooks, TLAPS

------------------------------------------------------------------------------
(* The inductive invariant, in named parts. *)

(* The tables: ids and delivery ids are unique, rows come from their payload. *)
TabelasInv ==
  /\ \A r, s \in execucoes : r.id = s.id \/ r.entrega = s.entrega => r = s
  /\ \A a, b \in aprovacoes : a.entrega = b.entrega => a = b
  /\ \A r \in execucoes : Carga[r.entrega].tenant = r.tenant /\ Carga[r.entrega].pr = r.pr

(* A request being served carries a payload that passed the triage. *)
TriadaInv ==
  \A p \in Requisicoes :
    /\ pc[p] \in EmBanco \/ status[p] = 202 =>
         /\ entrega[p] \in Entregas /\ CargaDe(p).tenant \in Tenants
         /\ CargaDe(p).evento # "outro"
    /\ pc[p] \in {"criar", "reentrega"} => CargaDe(p).evento = "pull_request"
    /\ pc[p] \in {"buscar", "gravar", "conferir"} =>
         CargaDe(p).evento # "pull_request" /\ CargaDe(p).gatilho \in EstadosDeReviewQueDecidem
    /\ pc[p] \in EmBanco \union {"livre"} => status[p] = 0
    /\ pc[p] = "livre" => entrega[p] = SemEntrega
    /\ \A r \in conhecidas[p] : r \in execucoes
    /\ \A a \in aprovacoes : a.origem = p => pc[p] \notin {"livre", "buscar", "criar", "reentrega"}

(* The task_run a review will be recorded on is of its pull request, and not
   older than what was known when the review arrived. *)
AlvoDe(p, r) ==
  /\ r \in execucoes /\ r.tenant = CargaDe(p).tenant /\ r.pr = CargaDe(p).pr
  /\ \A s \in conhecidas[p] : s.tenant = r.tenant /\ s.pr = r.pr => ~Posterior(s, r)

AlvoInv ==
  /\ \A p \in Requisicoes : pc[p] \in {"gravar", "conferir"} => AlvoDe(p, alvo[p])
  /\ \A a \in aprovacoes :
       /\ entrega[a.origem] = a.entrega /\ a.decisao = DecisaoPorEstadoDeReview(Carga[a.entrega].gatilho)
       /\ \E r \in execucoes : r.id = a.execucao /\ a.tenant = r.tenant /\ AlvoDe(a.origem, r)
  /\ \A p \in Requisicoes :
       /\ pc[p] = "conferir" => DaEntrega(entrega[p], aprovacoes) # {}
       /\ pc[p] = "reentrega" => DaEntrega(entrega[p], execucoes) # {}

IndInv == TypeOK /\ TabelasInv /\ TriadaInv /\ AlvoInv /\ RespostaCumprida /\ RevisaoNaoPerdida

------------------------------------------------------------------------------
(* A payload that goes on after the triage is a pull_request event or a review
   that decides, and names an installation. *)
LEMMA TriagemSegue ==
  ASSUME NEW e \in Entregas
  PROVE  /\ Triagem(Carga[e]) \in {0, 204, 400}
         /\ Triagem(Carga[e]) = 0 =>
              /\ Carga[e].tenant \in Tenants
              /\ Carga[e].evento # "outro"
              /\ Carga[e].evento # "pull_request" => Carga[e].gatilho \in EstadosDeReviewQueDecidem
  <1>1. Carga[e] \in Cargas
    BY WebhooksAssumption
  <1> QED
    BY <1>1 DEF Triagem, Cargas

(* The disjuncts of Next, with the actions of a request named one by one. *)
LEMMA Passos ==
  ASSUME [Next]_vars
  PROVE  \/ \E p \in Requisicoes :
              \/ RejeitarNaPorta(p) \/ CriarTaskRun(p) \/ BuscarExistente(p)
              \/ BuscarMaisRecente(p) \/ GravarAprovacao(p) \/ ConferirTaskRun(p)
              \/ FalharNoBanco(p)
         \/ \E p \in Requisicoes, e \in Entregas : Receber(p, e)
         \/ Reiniciar \/ PassarTempo \/ UNCHANGED vars
  BY DEF Next, Servir

------------------------------------------------------------------------------
(* What a step does to the rows and to the other requests *)

(* The tables only grow, and by one row at a time. *)
LEMMA TabelasCrescem ==
  ASSUME [Next]_vars
  PROVE  /\ \/ execucoes' = execucoes
            \/ \E p \in Requisicoes : /\ pc[p] = "criar" /\ InserirTaskRun(p)
                                      /\ UNCHANGED aprovacoes
         /\ \/ aprovacoes' = aprovacoes
            \/ \E p \in Requisicoes : /\ pc[p] = "gravar" /\ InserirAprovacao(p)
                                      /\ UNCHANGED execucoes
         /\ execucoes \subseteq execucoes' /\ aprovacoes \subseteq aprovacoes'
  <1> DEFINE Cresce ==
        /\ \/ execucoes' = execucoes
           \/ \E p \in Requisicoes : pc[p] = "criar" /\ InserirTaskRun(p) /\ UNCHANGED aprovacoes
        /\ \/ aprovacoes' = aprovacoes
           \/ \E p \in Requisicoes : pc[p] = "gravar" /\ InserirAprovacao(p) /\ UNCHANGED execucoes
  <1>1. ASSUME NEW p \in Requisicoes, CriarTaskRun(p) \/ GravarAprovacao(p) \/ FalharNoBanco(p)
        PROVE  Cresce
    BY <1>1 DEF CriarTaskRun, GravarAprovacao, FalharNoBanco
  <1>2. ASSUME NEW p \in Requisicoes,
               RejeitarNaPorta(p) \/ BuscarExistente(p) \/ BuscarMaisRecente(p) \/ ConferirTaskRun(p)
        PROVE  Cresce
    BY <1>2 DEF RejeitarNaPorta, BuscarExistente, BuscarMaisRecente, ConferirTaskRun
  <1>3. ASSUME NEW p \in Requisicoes, NEW e \in Entregas, Receber(p, e) PROVE Cresce
    BY <1>3 DEF Receber
  <1>4. ASSUME Reiniciar \/ PassarTempo \/ UNCHANGED vars PROVE Cresce
    BY <1>4 DEF Reiniciar, PassarTempo, vars
  <1>5. Cresce
    BY <1>1, <1>2, <1>3, <1>4, Passos
  <1> QED
    BY <1>5 DEF InserirTaskRun, InserirAprovacao

(* Only its own arrival gives a request its delivery id and what was known. *)
LEMMA CorpoFixo ==
  ASSUME TypeOK, [Next]_vars, NEW q \in Requisicoes, pc[q] # "livre"
  PROVE  entrega'[q] = entrega[q] /\ conhecidas'[q] = conhecidas[q]
  <1>1. ASSUME NEW p \in Requisicoes, NEW e \in Entregas, Receber(p, e)
        PROVE  entrega'[q] = entrega[q] /\ conhecidas'[q] = conhecidas[q]
    BY <1>1 DEF Receber, Responder, Ir, TypeOK
  <1>2. ASSUME NEW p \in Requisicoes,
               \/ RejeitarNaPorta(p) \/ CriarTaskRun(p) \/ BuscarExistente(p)
               \/ BuscarMaisRecente(p) \/ GravarAprovacao(p) \/ ConferirTaskRun(p)
               \/ FalharNoBanco(p)
        PROVE  UNCHANGED <<entrega, conhecidas>>
    BY <1>2 DEF RejeitarNaPorta, CriarTaskRun, BuscarExistente, BuscarMaisRecente,
       GravarAprovacao, ConferirTaskRun, FalharNoBanco
  <1>3. ASSUME Reiniciar \/ PassarTempo \/ UNCHANGED vars PROVE UNCHANGED <<entrega, conhecidas>>
    BY <1>3 DEF Reiniciar, PassarTempo, vars
  <1> QED
    BY <1>1, <1>2, <1>3, Passos

------------------------------------------------------------------------------
(* Type correctness *)

LEMMA TipoInicial == Init => TypeOK
  BY WebhooksAssumption DEF Init, TypeOK, Etapas, Relogio

LEMMA LinhasBemFormadas ==
  ASSUME TypeOK, TriadaInv, AlvoInv, NEW p \in Requisicoes
  PROVE  /\ pc[p] = "criar" /\ InserirTaskRun(p) => execucoes' \subseteq TaskRuns
         /\ pc[p] = "gravar" /\ InserirAprovacao(p) => aprovacoes' \subseteq Aprovacoes
  <1>1. ASSUME pc[p] = "criar", InserirTaskRun(p) PROVE execucoes' \subseteq TaskRuns
    <2>1. /\ entrega[p] \in Entregas /\ CargaDe(p).tenant \in Tenants /\ CargaDe(p).pr \in Prs
      BY <1>1, WebhooksAssumption DEF TriadaInv, EmBanco, CargaDe, Cargas
    <2>2. PICK id \in IdsTaskRun, t \in chegada[p] .. relogio :
            execucoes' = execucoes \union {NovaTaskRun(p, id, t)}
      BY <1>1 DEF InserirTaskRun
    <2>3. t \in Relogio
      BY WebhooksAssumption DEF TypeOK, Relogio
    <2> QED
      BY <2>1, <2>2, <2>3 DEF NovaTaskRun, TaskRuns, TypeOK
  <1>2. ASSUME pc[p] = "gravar", InserirAprovacao(p) PROVE aprovacoes' \subseteq Aprovacoes
    <2>1. /\ entrega[p] \in Entregas /\ CargaDe(p).gatilho \in EstadosDeReviewQueDecidem
          /\ alvo[p] \in TaskRuns
      BY <1>2 DEF TriadaInv, AlvoInv, AlvoDe, EmBanco, TypeOK
    <2> QED
      BY <1>2, <2>1 DEF InserirAprovacao, NovaAprovacao, DecisaoPorEstadoDeReview, TaskRuns, Aprovacoes,
         TypeOK
  <1> QED
    BY <1>1, <1>2

LEMMA TipoPreservado ==
  ASSUME TypeOK, TriadaInv, AlvoInv, [Next]_vars
  PROVE  TypeOK'
  <1>1. execucoes' \subseteq TaskRuns /\ aprovacoes' \subseteq Aprovacoes
    BY TabelasCrescem, LinhasBemFormadas DEF TypeOK
  <1>2. ASSUME NEW p \in Requisicoes, RejeitarNaPorta(p) PROVE TypeOK'
    BY <1>1, <1>2 DEF TypeOK, RejeitarNaPorta, Responder, Ir, Etapas
  <1>3. ASSUME NEW p \in Requisicoes, NEW e \in Entregas, Receber(p, e) PROVE TypeOK'
    <2>1. pc' \in [Requisicoes -> Etapas] /\ status' \in [Requisicoes -> {0, 202, 204, 400, 401, 500}]
      BY <1>3, TriagemSegue DEF TypeOK, Receber, Responder, Ir, Etapas
    <2>2. conhecidas' \in [Requisicoes -> SUBSET TaskRuns]
      BY <1>3 DEF TypeOK, Receber, Confirmadas
    <2> QED
      BY <1>1, <1>3, <2>1, <2>2 DEF TypeOK, Receber
  <1>4. ASSUME NEW p \in Requisicoes, CriarTaskRun(p) PROVE TypeOK'
    BY <1>1, <1>4 DEF TypeOK, CriarTaskRun, Responder, Ir, Etapas
  <1>5. ASSUME NEW p \in Requisicoes, BuscarExistente(p) PROVE TypeOK'
    BY <1>1, <1>5 DEF TypeOK, BuscarExistente, Responder, Ir, Etapas
  <1>6. ASSUME NEW p \in Requisicoes, BuscarMaisRecente(p) PROVE TypeOK'
    BY <1>1, <1>6 DEF TypeOK, BuscarMaisRecente, Responder, Ir, Etapas, MaisRecente, DoPullRequest
  <1>7. ASSUME NEW p \in Requisicoes, GravarAprovacao(p) PROVE TypeOK'
    BY <1>1, <1>7 DEF TypeOK, GravarAprovacao, Responder, Ir, Etapas
  <1>8. ASSUME NEW p \in Requisicoes, ConferirTaskRun(p) PROVE TypeOK'
    BY <1>1, <1>8 DEF TypeOK, ConferirTaskRun, Responder, Ir, Etapas
  <1>9. ASSUME NEW p \in Requisicoes, FalharNoBanco(p) PROVE TypeOK'
    BY <1>1, <1>9 DEF TypeOK, FalharNoBanco, Responder, Ir, Etapas
  <1>10. ASSUME Reiniciar PROVE TypeOK'
    BY <1>10 DEF TypeOK, Reiniciar, Etapas
  <1>11. ASSUME PassarTempo PROVE TypeOK'
    BY <1>11, WebhooksAssumption DEF TypeOK, PassarTempo, Relogio
  <1>12. ASSUME UNCHANGED vars PROVE TypeOK'
    BY <1>12 DEF TypeOK, vars
  <1> QED
    BY <1>2, <1>3, <1>4, <1>5, <1>6, <1>7, <1>8, <1>9, <1>10, <1>11, <1>12, Passos

------------------------------------------------------------------------------
(* The rows are unique and come from their payload. *)
LEMMA TabelasPreservadas ==
  ASSUME TypeOK, TabelasInv, TriadaInv, AlvoInv, [Next]_vars
  PROVE  TabelasInv'
  <1>1. /\ \A r, s \in execucoes' : r.id = s.id \/ r.entrega = s.entrega => r = s
        /\ \A r \in execucoes' : Carga[r.entrega].tenant = r.tenant /\ Carga[r.entrega].pr = r.pr
    <2>1. CASE execucoes' = execucoes
      BY <2>1 DEF TabelasInv
    <2>2. ASSUME NEW p \in Requisicoes, pc[p] = "criar", InserirTaskRun(p) PROVE <1>1!:
      <3>1. PICK id \in IdsTaskRun, t \in chegada[p] .. relogio :
              /\ \A r \in execucoes : r.id # id
              /\ execucoes' = execucoes \union {NovaTaskRun(p, id, t)}
        BY <2>2 DEF InserirTaskRun
      <3>2. \A r \in execucoes : r.entrega # entrega[p]
        BY <2>2 DEF InserirTaskRun, DaEntrega
      <3> QED
        BY <3>1, <3>2 DEF TabelasInv, NovaTaskRun, CargaDe
    <2> QED
      BY <2>1, <2>2, TabelasCrescem
  <1>2. \A a, b \in aprovacoes' : a.entrega = b.entrega => a = b
    <2>1. ASSUME NEW p \in Requisicoes, InserirAprovacao(p) PROVE <1>2!:
      BY <2>1 DEF TabelasInv, InserirAprovacao, NovaAprovacao, DaEntrega
    <2> QED
      BY <2>1, TabelasCrescem DEF TabelasInv
  <1> QED
    BY <1>1, <1>2 DEF TabelasInv

------------------------------------------------------------------------------
(* A request being served carries a payload that passed the triage. *)

(* The part of TriadaInv about the stage and the payload of one request. *)
EtapaTriada(p) ==
  /\ pc[p] \in EmBanco \/ status[p] = 202 =>
       /\ entrega[p] \in Entregas /\ CargaDe(p).tenant \in Tenants
       /\ CargaDe(p).evento # "outro"
  /\ pc[p] \in {"criar", "reentrega"} => CargaDe(p).evento = "pull_request"
  /\ pc[p] \in {"buscar", "gravar", "conferir"} =>
       CargaDe(p).evento # "pull_request" /\ CargaDe(p).gatilho \in EstadosDeReviewQueDecidem
  /\ pc[p] \in EmBanco \union {"livre"} => status[p] = 0
  /\ pc[p] = "livre" => entrega[p] = SemEntrega

LEMMA EtapaPreservada ==
  ASSUME TypeOK, TriadaInv, [Next]_vars, NEW q \in Requisicoes
  PROVE  EtapaTriada(q)'
  <1> USE DEF EtapaTriada, TypeOK, CargaDe, EmBanco
  <1>1. EtapaTriada(q)
    BY DEF TriadaInv
  <1>2. ASSUME NEW p \in Requisicoes, RejeitarNaPorta(p) PROVE EtapaTriada(q)'
    BY <1>1, <1>2 DEF RejeitarNaPorta, Responder, Ir
  <1>3. ASSUME NEW p \in Requisicoes, NEW e \in Entregas, Receber(p, e) PROVE EtapaTriada(q)'
    BY <1>1, <1>3, TriagemSegue DEF Receber, Responder, Ir
  <1>4. ASSUME NEW p \in Requisicoes, CriarTaskRun(p) PROVE EtapaTriada(q)'
    BY <1>1, <1>4 DEF CriarTaskRun, Responder, Ir
  <1>5. ASSUME NEW p \in Requisicoes, BuscarExistente(p) PROVE EtapaTriada(q)'
    BY <1>1, <1>5 DEF BuscarExistente, Responder, Ir
  <1>6. ASSUME NEW p \in Requisicoes, BuscarMaisRecente(p) PROVE EtapaTriada(q)'
    BY <1>1, <1>6 DEF BuscarMaisRecente, Responder, Ir
  <1>7. ASSUME NEW p \in Requisicoes, GravarAprovacao(p) PROVE EtapaTriada(q)'
    BY <1>1, <1>7 DEF GravarAprovacao, Responder, Ir
  <1>8. ASSUME NEW p \in Requisicoes, ConferirTaskRun(p) PROVE EtapaTriada(q)'
    BY <1>1, <1>8 DEF ConferirTaskRun, Responder, Ir
  <1>9. ASSUME NEW p \in Requisicoes, FalharNoBanco(p) PROVE EtapaTriada(q)'
    BY <1>1, <1>9 DEF FalharNoBanco, Responder, Ir
  <1>10. ASSUME Reiniciar PROVE EtapaTriada(q)'
    BY <1>1, <1>10 DEF Reiniciar
  <1>11. ASSUME PassarTempo \/ UNCHANGED vars PROVE EtapaTriada(q)'
    BY <1>1, <1>11 DEF PassarTempo, vars
  <1> QED
    BY <1>2, <1>3, <1>4, <1>5, <1>6, <1>7, <1>8, <1>9, <1>10, <1>11, Passos

(* A request leaves the door once, and a request that recorded an approval is
   past the look-up. *)
LEMMA EtapaAvanca ==
  ASSUME TypeOK, [Next]_vars, NEW q \in Requisicoes
  PROVE  /\ pc[q] \notin {"livre", "buscar", "criar", "reentrega"} =>
              pc'[q] \notin {"livre", "buscar", "criar", "reentrega"}
         /\ pc[q] # "livre" => pc'[q] # "livre"
         /\ pc[q] = "gravar" /\ aprovacoes' # aprovacoes =>
              pc'[q] \notin {"livre", "buscar", "criar", "reentrega"}
  <1> USE DEF TypeOK, EmBanco
  <1>1. ASSUME NEW p \in Requisicoes, RejeitarNaPorta(p) \/ BuscarExistente(p) \/ BuscarMaisRecente(p)
        PROVE  pc[p] \in {"livre", "buscar", "reentrega"} /\ (pc[p] # "livre" => pc'[p] # "livre")
               /\ \A x \in Requisicoes : x # p => pc'[x] = pc[x]
    BY <1>1 DEF RejeitarNaPorta, BuscarExistente, BuscarMaisRecente, Responder, Ir
  <1>2. ASSUME NEW p \in Requisicoes, NEW e \in Entregas, Receber(p, e)
        PROVE  pc[p] = "livre" /\ \A x \in Requisicoes : x # p => pc'[x] = pc[x]
    BY <1>2 DEF Receber, Responder, Ir
  <1>3. ASSUME NEW p \in Requisicoes, CriarTaskRun(p)
        PROVE  pc[p] = "criar" /\ pc'[p] # "livre" /\ \A x \in Requisicoes : x # p => pc'[x] = pc[x]
    BY <1>3 DEF CriarTaskRun, Responder, Ir
  <1>4. ASSUME NEW p \in Requisicoes, GravarAprovacao(p) \/ ConferirTaskRun(p) \/ FalharNoBanco(p)
        PROVE  pc'[p] \in {"fim", "conferir"} /\ \A x \in Requisicoes : x # p => pc'[x] = pc[x]
    BY <1>4 DEF GravarAprovacao, ConferirTaskRun, FalharNoBanco, Responder, Ir
  <1>5. ASSUME Reiniciar PROVE \A x \in Requisicoes : pc'[x] = pc[x] \/ pc'[x] = "perdida"
    BY <1>5 DEF Reiniciar
  <1>6. ASSUME PassarTempo \/ UNCHANGED vars PROVE pc' = pc
    BY <1>6 DEF PassarTempo, vars
  <1> QED
    BY <1>1, <1>2, <1>3, <1>4, <1>5, <1>6, Passos

LEMMA TriadaPreservada ==
  ASSUME TypeOK, TriadaInv, AlvoInv, [Next]_vars
  PROVE  TriadaInv'
  <1>1. ASSUME NEW q \in Requisicoes PROVE \A r \in conhecidas'[q] : r \in execucoes'
    <2>1. CASE conhecidas'[q] = conhecidas[q]
      BY <2>1, TabelasCrescem DEF TriadaInv
    <2>2. ASSUME NEW p \in Requisicoes, NEW e \in Entregas, Receber(p, e)
          PROVE  \A r \in conhecidas'[q] : r \in execucoes'
      BY <2>2 DEF Receber, Confirmadas, TypeOK, TriadaInv
    <2>3. ASSUME NEW p \in Requisicoes, RejeitarNaPorta(p) \/ Servir(p) PROVE conhecidas' = conhecidas
      BY <2>3 DEF RejeitarNaPorta, Servir, CriarTaskRun, BuscarExistente, BuscarMaisRecente,
         GravarAprovacao, ConferirTaskRun, FalharNoBanco
    <2>4. ASSUME Reiniciar \/ PassarTempo \/ UNCHANGED vars PROVE conhecidas' = conhecidas
      BY <2>4 DEF Reiniciar, PassarTempo, vars
    <2> QED
      BY <2>1, <2>2, <2>3, <2>4 DEF Next
  <1>2. ASSUME NEW q \in Requisicoes, NEW a \in aprovacoes', a.origem = q
        PROVE  pc'[q] \notin {"livre", "buscar", "criar", "reentrega"}
    <2>1. CASE a \in aprovacoes
      BY <1>2, <2>1, EtapaAvanca DEF TriadaInv
    <2>2. CASE a \notin aprovacoes
      <3>1. PICK p \in Requisicoes : pc[p] = "gravar" /\ InserirAprovacao(p)
        BY <2>2, TabelasCrescem
      <3>2. a = NovaAprovacao(p)
        BY <2>2, <3>1 DEF InserirAprovacao
      <3>3. q = p
        BY <1>2, <3>2 DEF NovaAprovacao
      <3> QED
        BY <2>2, <3>1, <3>3, EtapaAvanca
    <2> QED
      BY <2>1, <2>2
  <1>3. \A q \in Requisicoes : EtapaTriada(q)'
    BY EtapaPreservada
  <1> QED
    BY <1>1, <1>2, <1>3 DEF TriadaInv, EtapaTriada

------------------------------------------------------------------------------
(* What the rows say of the events that made them *)

(* A request reaches the recording of a review through the look-up only, and
   keeps the task_run it found. *)
LEMMA AlvoFixo ==
  ASSUME TypeOK, [Next]_vars, NEW q \in Requisicoes, pc'[q] \in {"gravar", "conferir"}
  PROVE  \/ pc[q] \in {"gravar", "conferir"} /\ alvo'[q] = alvo[q]
         \/ BuscarMaisRecente(q)
  <1> USE DEF TypeOK, EmBanco, Responder, Ir
  <1>1. ASSUME NEW p \in Requisicoes, BuscarMaisRecente(p), p # q
        PROVE  pc'[q] = pc[q] /\ alvo'[q] = alvo[q]
    BY <1>1 DEF BuscarMaisRecente
  <1>2. ASSUME NEW p \in Requisicoes,
               \/ RejeitarNaPorta(p) \/ CriarTaskRun(p) \/ BuscarExistente(p)
               \/ ConferirTaskRun(p) \/ FalharNoBanco(p)
        PROVE  pc'[q] = pc[q] /\ alvo' = alvo
    BY <1>2 DEF RejeitarNaPorta, CriarTaskRun, BuscarExistente, ConferirTaskRun, FalharNoBanco
  <1>3. ASSUME NEW p \in Requisicoes, GravarAprovacao(p)
        PROVE  pc[q] \in {"gravar", "conferir"} /\ alvo' = alvo
    BY <1>3 DEF GravarAprovacao
  <1>4. ASSUME NEW p \in Requisicoes, NEW e \in Entregas, Receber(p, e)
        PROVE  pc'[q] = pc[q] /\ alvo' = alvo
    BY <1>4 DEF Receber
  <1>5. ASSUME Reiniciar \/ PassarTempo \/ UNCHANGED vars PROVE pc'[q] = pc[q] /\ alvo' = alvo
    BY <1>5 DEF Reiniciar, PassarTempo, vars
  <1> QED
    BY <1>1, <1>2, <1>3, <1>4, <1>5, Passos

(* What is found stays of the pull request and as recent as what was known. *)
LEMMA AlvoMantido ==
  ASSUME TypeOK, [Next]_vars, NEW q \in Requisicoes, pc[q] # "livre", NEW r, AlvoDe(q, r)
  PROVE  AlvoDe(q, r)'
  BY CorpoFixo, TabelasCrescem DEF AlvoDe, CargaDe

(* The look-up finds a row that no known row succeeds. *)
LEMMA AlvoEncontrado ==
  ASSUME TypeOK, TriadaInv, [Next]_vars, NEW q \in Requisicoes,
         BuscarMaisRecente(q), pc'[q] \in {"gravar", "conferir"}
  PROVE  AlvoDe(q, alvo[q])'
  <1>1. PICK r \in DoPullRequest(CargaDe(q).tenant, CargaDe(q).pr) :
          /\ MaisRecente(r, DoPullRequest(CargaDe(q).tenant, CargaDe(q).pr))
          /\ alvo'[q] = r
    BY DEF BuscarMaisRecente, TypeOK, Responder, Ir
  <1>2. \A s \in conhecidas[q] : s.tenant = r.tenant /\ s.pr = r.pr => ~Posterior(s, r)
    BY <1>1 DEF TriadaInv, MaisRecente, DoPullRequest
  <1>3. AlvoDe(q, r)
    BY <1>1, <1>2 DEF DoPullRequest, AlvoDe
  <1>4. pc[q] # "livre"
    BY DEF BuscarMaisRecente
  <1> QED
    BY <1>1, <1>3, <1>4, CorpoFixo, TabelasCrescem DEF AlvoDe, CargaDe

(* A request that found its row already there keeps finding it. *)
LEMMA ReentregaEncontrada ==
  ASSUME TypeOK, AlvoInv, [Next]_vars, NEW q \in Requisicoes
  PROVE  /\ pc'[q] = "conferir" => DaEntrega(entrega[q], aprovacoes)' # {}
         /\ pc'[q] = "reentrega" => DaEntrega(entrega[q], execucoes)' # {}
  <1> USE DEF TypeOK, EmBanco, Responder, Ir
  <1> DEFINE Fica == \A s \in {"conferir", "reentrega"} : pc'[q] = s => pc[q] = s
  <1>1. ASSUME NEW p \in Requisicoes,
               \/ RejeitarNaPorta(p) \/ BuscarExistente(p) \/ BuscarMaisRecente(p)
               \/ ConferirTaskRun(p) \/ FalharNoBanco(p)
        PROVE  Fica
    BY <1>1 DEF RejeitarNaPorta, BuscarExistente, BuscarMaisRecente, ConferirTaskRun, FalharNoBanco
  <1>2. ASSUME NEW p \in Requisicoes, NEW e \in Entregas, Receber(p, e) PROVE Fica
    BY <1>2 DEF Receber
  <1>3. ASSUME Reiniciar \/ PassarTempo \/ UNCHANGED vars PROVE Fica
    BY <1>3 DEF Reiniciar, PassarTempo, vars
  <1>4. ASSUME NEW p \in Requisicoes, CriarTaskRun(p)
        PROVE  Fica \/ (pc[q] = "criar" /\ DaEntrega(entrega[q], execucoes) # {} /\ pc'[q] = "reentrega")
    BY <1>4 DEF CriarTaskRun
  <1>5. ASSUME NEW p \in Requisicoes, GravarAprovacao(p)
        PROVE  Fica \/ (pc[q] = "gravar" /\ DaEntrega(entrega[q], aprovacoes) # {} /\ pc'[q] = "conferir")
    BY <1>5 DEF GravarAprovacao, AlvoInv, AlvoDe
  <1>6. pc[q] # "livre" =>
          /\ DaEntrega(entrega[q], aprovacoes) # {} => DaEntrega(entrega[q], aprovacoes)' # {}
          /\ DaEntrega(entrega[q], execucoes) # {} => DaEntrega(entrega[q], execucoes)' # {}
    BY CorpoFixo, TabelasCrescem DEF DaEntrega
  <1>7. \/ Fica
        \/ pc[q] = "criar" /\ DaEntrega(entrega[q], execucoes) # {} /\ pc'[q] = "reentrega"
        \/ pc[q] = "gravar" /\ DaEntrega(entrega[q], aprovacoes) # {} /\ pc'[q] = "conferir"
    BY <1>1, <1>2, <1>3, <1>4, <1>5, Passos
  <1> QED
    BY <1>6, <1>7 DEF AlvoInv

LEMMA AlvoPreservado ==
  ASSUME TypeOK, TriadaInv, AlvoInv, [Next]_vars
  PROVE  AlvoInv'
  <1>1. ASSUME NEW q \in Requisicoes, pc'[q] \in {"gravar", "conferir"} PROVE AlvoDe(q, alvo[q])'
    <2>1. CASE pc[q] \in {"gravar", "conferir"} /\ alvo'[q] = alvo[q]
      <3>1. AlvoDe(q, alvo[q]) /\ pc[q] # "livre"
        BY <2>1 DEF AlvoInv
      <3> QED
        BY <2>1, <3>1, CorpoFixo, TabelasCrescem DEF AlvoDe, CargaDe
    <2> QED
      BY <1>1, <2>1, AlvoFixo, AlvoEncontrado
  <1>2. ASSUME NEW a \in aprovacoes'
        PROVE  /\ entrega'[a.origem] = a.entrega /\ a.decisao = DecisaoPorEstadoDeReview(Carga[a.entrega].gatilho)
               /\ \E r \in execucoes' : r.id = a.execucao /\ a.tenant = r.tenant /\ AlvoDe(a.origem, r)'
    <2>1. CASE a \in aprovacoes
      <3>1. a.origem \in Requisicoes /\ pc[a.origem] # "livre"
        BY <2>1 DEF TypeOK, Aprovacoes, TriadaInv
      <3>2. PICK r \in execucoes : r.id = a.execucao /\ a.tenant = r.tenant /\ AlvoDe(a.origem, r)
        BY <2>1 DEF AlvoInv
      <3>3. AlvoDe(a.origem, r)' /\ r \in execucoes'
        BY <3>1, <3>2, AlvoMantido, TabelasCrescem
      <3>4. entrega'[a.origem] = a.entrega /\ a.decisao = DecisaoPorEstadoDeReview(Carga[a.entrega].gatilho)
        BY <2>1, <3>1, CorpoFixo DEF AlvoInv
      <3> QED
        BY <3>2, <3>3, <3>4
    <2>2. CASE a \notin aprovacoes
      <3>1. PICK p \in Requisicoes : pc[p] = "gravar" /\ InserirAprovacao(p)
        BY <2>2, TabelasCrescem
      <3>2. a = NovaAprovacao(p)
        BY <2>2, <3>1 DEF InserirAprovacao
      <3>3. AlvoDe(p, alvo[p]) /\ pc[p] # "livre" /\ alvo[p] \in execucoes
        BY <3>1 DEF AlvoInv, AlvoDe
      <3>4. \A r : AlvoDe(p, r) => AlvoDe(p, r)'
        BY <3>3, AlvoMantido
      <3>5. /\ a.origem = p /\ a.entrega = entrega[p] /\ a.decisao = DecisaoPorEstadoDeReview(Carga[a.entrega].gatilho)
            /\ a.execucao = alvo[p].id /\ a.tenant = alvo[p].tenant
        BY <3>2 DEF NovaAprovacao, CargaDe
      <3>6. entrega'[p] = entrega[p] /\ alvo[p] \in execucoes'
        BY <3>3, CorpoFixo, TabelasCrescem
      <3> QED
        BY <3>3, <3>4, <3>5, <3>6
    <2> QED
      BY <2>1, <2>2
  <1> QED
    BY <1>1, <1>2, ReentregaEncontrada DEF AlvoInv

------------------------------------------------------------------------------
(* The answers *)

(* A 202 is given only when a row carries the delivery id of the request. *)
Registrada(q) ==
  status[q] = 202 =>
    IF CargaDe(q).evento = "pull_request"
    THEN \E r \in execucoes : r.entrega = entrega[q]
    ELSE \E a \in aprovacoes : a.entrega = entrega[q]

TodasRegistradas == \A q \in Requisicoes : Registrada(q)

(* The row is then the only one, and is that of the event. *)
LEMMA RespostaDeRegistro ==
  TypeOK /\ TabelasInv /\ TriadaInv /\ AlvoInv /\ TodasRegistradas => RespostaCumprida
  <1> SUFFICES ASSUME TypeOK, TabelasInv, TriadaInv, AlvoInv, TodasRegistradas,
                      NEW p \in Requisicoes, status[p] = 202
               PROVE  RespostaCumprida!(p)!2
    BY DEF RespostaCumprida
  <1> USE DEF TodasRegistradas
  <1>1. CASE CargaDe(p).evento = "pull_request"
    <2>1. PICK r \in execucoes : r.entrega = entrega[p]
      BY <1>1 DEF Registrada
    <2>2. DaEntrega(entrega[p], execucoes) = {r}
      BY <2>1 DEF TabelasInv, DaEntrega
    <2> QED
      BY <1>1, <2>1, <2>2 DEF TabelasInv, CargaDe
  <1>2. CASE CargaDe(p).evento # "pull_request"
    <2>1. PICK a \in aprovacoes : a.entrega = entrega[p]
      BY <1>2 DEF Registrada
    <2>2. DaEntrega(entrega[p], aprovacoes) = {a}
      BY <2>1 DEF TabelasInv, DaEntrega
    <2>3. PICK r \in execucoes : r.id = a.execucao /\ a.tenant = r.tenant /\ AlvoDe(a.origem, r)
      BY DEF AlvoInv
    <2>4. entrega[a.origem] = entrega[p] /\ a.decisao = DecisaoPorEstadoDeReview(CargaDe(p).gatilho)
      BY <2>1 DEF AlvoInv, CargaDe
    <2>5. r.tenant = CargaDe(p).tenant /\ r.pr = CargaDe(p).pr
      BY <2>3, <2>4 DEF AlvoDe, CargaDe
    <2> QED
      BY <1>2, <2>2, <2>3, <2>4, <2>5 DEF DecisaoPorEstadoDeReview
  <1> QED
    BY <1>1, <1>2

(* A new 202 comes from an insertion or from finding the row. *)
LEMMA RegistroPreservado ==
  ASSUME TypeOK, TriadaInv, AlvoInv, RespostaCumprida, [Next]_vars, NEW q \in Requisicoes
  PROVE  Registrada(q)'
  <1>1. Registrada(q)
    BY DEF RespostaCumprida, Registrada, DaEntrega
  <1>2. ASSUME status'[q] = status[q] PROVE Registrada(q)'
    <2>1. status[q] = 202 => pc[q] # "livre"
      BY DEF TriadaInv
    <2> QED
      BY <1>1, <1>2, <2>1, CorpoFixo, TabelasCrescem DEF Registrada, CargaDe
  <1>3. ASSUME NEW p \in Requisicoes,
               \/ RejeitarNaPorta(p) \/ BuscarMaisRecente(p) \/ FalharNoBanco(p)
        PROVE  status'[q] # status[q] => status'[q] # 202
    BY <1>3 DEF RejeitarNaPorta, BuscarMaisRecente, FalharNoBanco, Responder, Ir, TypeOK
  <1>4. ASSUME NEW p \in Requisicoes, NEW e \in Entregas, Receber(p, e)
        PROVE  status'[q] # status[q] => status'[q] # 202
    BY <1>4, TriagemSegue DEF Receber, Responder, Ir, TypeOK
  <1>5. ASSUME Reiniciar \/ PassarTempo \/ UNCHANGED vars PROVE status' = status
    BY <1>5 DEF Reiniciar, PassarTempo, vars
  <1>6. ASSUME NEW p \in Requisicoes, CriarTaskRun(p), status'[q] = 202, status'[q] # status[q]
        PROVE  Registrada(q)'
    <2>1. q = p /\ pc[q] = "criar" /\ InserirTaskRun(q) /\ entrega' = entrega
      BY <1>6 DEF CriarTaskRun, Responder, Ir, TypeOK
    <2>2. CargaDe(q).evento = "pull_request"
      BY <2>1 DEF TriadaInv
    <2>3. PICK id \in IdsTaskRun, t \in chegada[q] .. relogio : NovaTaskRun(q, id, t) \in execucoes'
      BY <2>1 DEF InserirTaskRun
    <2>4. CargaDe(q)'.evento = "pull_request"
      BY <2>1, <2>2 DEF CargaDe
    <2>5. NovaTaskRun(q, id, t).entrega = entrega'[q]
      BY <2>1 DEF NovaTaskRun
    <2> QED
      BY <2>3, <2>4, <2>5 DEF Registrada
  <1>7. ASSUME NEW p \in Requisicoes, BuscarExistente(p), status'[q] = 202, status'[q] # status[q]
        PROVE  Registrada(q)'
    <2>1. q = p /\ pc[q] = "reentrega" /\ UNCHANGED <<entrega, execucoes>>
      BY <1>7 DEF BuscarExistente, Responder, Ir, TypeOK
    <2>2. CargaDe(q).evento = "pull_request" /\ \E r \in execucoes : r.entrega = entrega[q]
      BY <2>1 DEF TriadaInv, AlvoInv, DaEntrega
    <2>3. CargaDe(q)'.evento = "pull_request"
      BY <2>1, <2>2 DEF CargaDe
    <2> QED
      BY <2>1, <2>2, <2>3 DEF Registrada
  <1>8. ASSUME NEW p \in Requisicoes, GravarAprovacao(p), status'[q] = 202, status'[q] # status[q]
        PROVE  Registrada(q)'
    <2>1. q = p /\ pc[q] = "gravar" /\ InserirAprovacao(q) /\ entrega' = entrega
      BY <1>8 DEF GravarAprovacao, Responder, Ir, TypeOK
    <2>2. CargaDe(q).evento # "pull_request"
      BY <2>1 DEF TriadaInv
    <2>3. NovaAprovacao(q) \in aprovacoes' /\ NovaAprovacao(q).entrega = entrega'[q]
      BY <2>1 DEF InserirAprovacao, NovaAprovacao
    <2>4. CargaDe(q)'.evento # "pull_request"
      BY <2>1, <2>2 DEF CargaDe
    <2> QED
      BY <2>3, <2>4 DEF Registrada
  <1>9. ASSUME NEW p \in Requisicoes, ConferirTaskRun(p), status'[q] = 202, status'[q] # status[q]
        PROVE  Registrada(q)'
    <2>1. q = p /\ pc[q] = "conferir" /\ UNCHANGED <<entrega, aprovacoes>>
      BY <1>9 DEF ConferirTaskRun, Responder, Ir, TypeOK
    <2>2. CargaDe(q).evento # "pull_request" /\ DaEntrega(entrega[q], aprovacoes) # {}
      BY <2>1 DEF TriadaInv, AlvoInv
    <2> QED
      BY <2>1, <2>2 DEF Registrada, DaEntrega, CargaDe
  <1>10. status'[q] # 202 => Registrada(q)'
    BY DEF Registrada
  <1> QED
    BY <1>2, <1>3, <1>4, <1>5, <1>6, <1>7, <1>8, <1>9, <1>10, Passos

(* A new 204 for a review that decides comes from a look-up that found no row. *)
LEMMA RevisaoPreservada ==
  ASSUME TypeOK, TriadaInv, AlvoInv, RevisaoNaoPerdida, [Next]_vars
  PROVE  RevisaoNaoPerdida'
  <1> DEFINE Desconhecida(q) ==
        \A r \in conhecidas'[q] : ~(r.tenant = CargaDe(q)'.tenant /\ r.pr = CargaDe(q)'.pr)
  <1> SUFFICES ASSUME NEW q \in Requisicoes, status'[q] = 204, Triagem(CargaDe(q))' = 0
               PROVE  Desconhecida(q)
    BY DEF RevisaoNaoPerdida
  <1>1. ASSUME status'[q] = status[q] PROVE Desconhecida(q)
    <2>1. pc[q] # "livre"
      BY <1>1 DEF TriadaInv
    <2> QED
      BY <1>1, <2>1, CorpoFixo DEF RevisaoNaoPerdida, CargaDe, Triagem
  <1>2. ASSUME NEW p \in Requisicoes, BuscarMaisRecente(p), status'[q] # status[q]
        PROVE  Desconhecida(q)
    <2>1. /\ q = p /\ DoPullRequest(CargaDe(q).tenant, CargaDe(q).pr) = {}
          /\ UNCHANGED <<entrega, conhecidas>>
      BY <1>2 DEF BuscarMaisRecente, Responder, Ir, TypeOK
    <2> QED
      BY <2>1 DEF DoPullRequest, TriadaInv, CargaDe
  <1>3. ASSUME NEW p \in Requisicoes, NEW e \in Entregas, Receber(p, e), status'[q] # status[q]
        PROVE  FALSE
    BY <1>3 DEF Receber, Responder, Ir, TypeOK, CargaDe, Triagem
  <1>4. ASSUME NEW p \in Requisicoes, status'[q] # status[q],
               \/ RejeitarNaPorta(p) \/ CriarTaskRun(p) \/ BuscarExistente(p)
               \/ GravarAprovacao(p) \/ FalharNoBanco(p)
        PROVE  FALSE
    BY <1>4 DEF RejeitarNaPorta, CriarTaskRun, BuscarExistente, GravarAprovacao, FalharNoBanco,
       Responder, Ir, TypeOK
  <1>5. ASSUME NEW p \in Requisicoes, ConferirTaskRun(p), status'[q] # status[q]
        PROVE  FALSE
    <2>1. q = p /\ alvo[q] \notin execucoes /\ pc[q] = "conferir"
      BY <1>5 DEF ConferirTaskRun, Responder, Ir, TypeOK
    <2> QED
      BY <2>1 DEF AlvoInv, AlvoDe
  <1>6. ASSUME Reiniciar \/ PassarTempo \/ UNCHANGED vars PROVE status' = status
    BY <1>6 DEF Reiniciar, PassarTempo, vars
  <1> QED
    BY <1>1, <1>2, <1>3, <1>4, <1>5, <1>6, Passos

------------------------------------------------------------------------------
(* The theorems *)

LEMMA InicioInd == Init => IndInv
  BY TipoInicial DEF Init, IndInv, TabelasInv, TriadaInv, AlvoInv, RespostaCumprida,
     RevisaoNaoPerdida, EmBanco

LEMMA RespostaCumpridaDepois ==
  TypeOK' /\ TabelasInv' /\ TriadaInv' /\ AlvoInv' /\ TodasRegistradas' => RespostaCumprida'
  BY RespostaDeRegistro, PTL

LEMMA PassoInd == IndInv /\ [Next]_vars => IndInv'
  <1> SUFFICES ASSUME IndInv, [Next]_vars PROVE IndInv'
    OBVIOUS
  <1> USE DEF IndInv
  <1>1. TypeOK' /\ TabelasInv' /\ TriadaInv' /\ AlvoInv' /\ RevisaoNaoPerdida'
    BY TipoPreservado, TabelasPreservadas, TriadaPreservada, AlvoPreservado, RevisaoPreservada
  <1>2. TodasRegistradas'
    BY RegistroPreservado DEF TodasRegistradas
  <1>3. RespostaCumprida'
    BY <1>1, <1>2, RespostaCumpridaDepois
  <1> QED
    BY <1>1, <1>3

(* The inductive invariant holds in every reachable state: the rows are unique
   and come from their payload, requests being served passed the triage, and
   reviews are recorded on a row of their pull request. *)
THEOREM Invariante == Spec => []IndInv
  BY InicioInd, PassoInd, PTL DEF Spec

(* Every variable keeps its type, for any requests, events and clock bound. *)
THEOREM TiposCorretos == Spec => []TypeOK
  <1>1. IndInv => TypeOK
    BY DEF IndInv
  <1> QED
    BY <1>1, Invariante, PTL

(* A 202 is answered only when exactly one row records the event, on the right
   installation and pull request, whatever was redelivered, raced or lost. *)
THEOREM RespostasCumpridas == Spec => []RespostaCumprida
  <1>1. IndInv => RespostaCumprida
    BY DEF IndInv
  <1> QED
    BY <1>1, Invariante, PTL

(* A deciding review is dropped only when no task_run of its pull request was
   known to be accepted as it arrived. *)
THEOREM RevisoesNaoPerdidas == Spec => []RevisaoNaoPerdida
  <1>1. IndInv => RevisaoNaoPerdida
    BY DEF IndInv
  <1> QED
    BY <1>1, Invariante, PTL

(* An approval is on a task_run that none accepted before the review arrived
   succeeds. *)
THEOREM AprovacoesRecentes == Spec => []AprovacaoRecente
  <1>1. IndInv => AprovacaoRecente
    <2> SUFFICES ASSUME IndInv, NEW a \in aprovacoes, NEW r \in execucoes, a.execucao = r.id
                 PROVE  \A s \in conhecidas[a.origem] : s.tenant = r.tenant /\ s.pr = r.pr => ~Posterior(s, r)
      BY DEF AprovacaoRecente
    <2>1. PICK x \in execucoes : x.id = a.execucao /\ AlvoDe(a.origem, x)
      BY DEF IndInv, AlvoInv
    <2>2. x = r
      BY <2>1 DEF IndInv, TabelasInv
    <2> QED
      BY <2>1, <2>2 DEF AlvoDe
  <1> QED
    BY <1>1, Invariante, PTL

(* What a delivery recorded is never changed nor doubled by a later one. *)
THEOREM ReentregasNaoMudam == Spec => ReentregaNaoMuda
  <1>1. IndInv /\ IndInv' /\ [Next]_vars => [EntregaEstavel]_vars
    <2> SUFFICES ASSUME IndInv, IndInv', [Next]_vars PROVE EntregaEstavel
      OBVIOUS
    <2>1. execucoes \subseteq execucoes' /\ aprovacoes \subseteq aprovacoes'
      BY TabelasCrescem
    <2>2. /\ \A r, s \in execucoes' : r.entrega = s.entrega => r = s
          /\ \A a, b \in aprovacoes' : a.entrega = b.entrega => a = b
      BY DEF IndInv, TabelasInv
    <2> QED
      BY <2>1, <2>2 DEF EntregaEstavel, DaEntrega
  <1> QED
    BY <1>1, Invariante, PTL DEF Spec, ReentregaNaoMuda
==============================================================================
