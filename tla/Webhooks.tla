------------------------------- MODULE Webhooks --------------------------------
(***************************************************************************)
(* POST /webhooks/github (internal/api) and the two tables it writes       *)
(* through RepositorioPostgres: task_runs, one row per pull_request event, *)
(* and approvals, one row per review that decides.  GitHub delivers each   *)
(* event under a delivery id, in any order, and may deliver it again while *)
(* an earlier delivery is still being served.                              *)
(***************************************************************************)
EXTENDS Naturals, FiniteSets

CONSTANTS
  Requisicoes,    \* HTTP requests of GitHub; each arrives at most once
  Entregas,       \* values of X-GitHub-Delivery
  SemEntrega,     \* a request that was not read yet
  Tenants,        \* installation ids
  SemInstalacao,  \* a payload whose installation.id is missing or not positive
  Prs,            \* pull requests: repository and number
  Carga,          \* the event GitHub sends under each delivery id
  IdsTaskRun,     \* the random uuids task_runs may get, which are ordered
  SemAlvo,        \* no task_run found yet
  MaxRelogio,     \* bound on the database clock
  BancoFalha      \* TRUE: a call to PostgreSQL may fail

GatilhosDePullRequest == {"opened", "synchronize", "closed"}
GatilhosDeReview == {"approved", "changes_requested", "commented"}
AcoesDePullRequestAceitas == {"opened", "synchronize"}
EstadosDeReviewQueDecidem == {"approved", "changes_requested"}
DecisaoPorEstadoDeReview(estado) ==
  IF estado = "approved" THEN "aprovada" ELSE "alteracoes_solicitadas"

(* A payload; "numero" and "campo" are the defects that validation finds. *)
Cargas ==
  [evento : {"pull_request", "pull_request_review", "outro"},
   gatilho : GatilhosDePullRequest \union GatilhosDeReview,
   tenant : Tenants \union {SemInstalacao}, pr : Prs,
   defeito : {"nenhum", "numero", "campo"}]

ASSUME WebhooksAssumption ==
  /\ Carga \in [Entregas -> Cargas]
  /\ SemEntrega \notin Entregas
  /\ SemInstalacao \notin Tenants
  /\ IdsTaskRun \subseteq Nat
  /\ MaxRelogio \in Nat
  /\ BancoFalha \in BOOLEAN

VARIABLES
  pc,          \* where each request is
  entrega,     \* the delivery id of each request that arrived
  chegada,     \* the clock when it arrived
  alvo,        \* the task_run a review is about to be recorded on
  status,      \* the HTTP status answered, 0 before
  execucoes,   \* the rows of task_runs
  aprovacoes,  \* the rows of approvals
  relogio,     \* the clock of the database
  conhecidas   \* history: the rows GitHub knew to be accepted when a request arrived

vars == <<pc, entrega, chegada, alvo, status, execucoes, aprovacoes, relogio, conhecidas>>

Relogio == 0 .. MaxRelogio
Etapas == {"livre", "criar", "reentrega", "buscar", "gravar", "conferir", "fim", "perdida"}
EmBanco == {"criar", "reentrega", "buscar", "gravar", "conferir"}
TaskRuns == [id : IdsTaskRun, entrega : Entregas, tenant : Tenants, pr : Prs, criadoEm : Relogio]
Aprovacoes == [entrega : Entregas, execucao : IdsTaskRun, tenant : Tenants,
               decisao : {"aprovada", "alteracoes_solicitadas"}, origem : Requisicoes]

------------------------------------------------------------------------------
CargaDe(p) == Carga[entrega[p]]

Ir(p, de, para) == pc[p] = de /\ pc' = [pc EXCEPT ![p] = para]

Responder(p, de, s) == Ir(p, de, "fim") /\ status' = [status EXCEPT ![p] = s]

(* What processarPullRequest and processarRevisao do before touching the
   database: a status that ends the request, or 0 to go on. *)
Triagem(c) ==
  CASE c.evento = "outro" -> 204
    [] c.evento = "pull_request" /\ c.gatilho \notin AcoesDePullRequestAceitas -> 204
    [] c.evento = "pull_request_review" /\ c.gatilho \notin EstadosDeReviewQueDecidem -> 204
    [] OTHER -> IF c.tenant = SemInstalacao THEN 400 ELSE 0

DaEntrega(e, linhas) == {r \in linhas : r.entrega = e}

(* Variant: the installation is left out of the query. *)
DoPullRequestDeQualquerTenant(tenant, pr) == {r \in execucoes : r.pr = pr}

(* Variant: only task_runs without an approval are looked up. *)
DoPullRequestSemAprovacao(tenant, pr) ==
  {r \in execucoes : r.tenant = tenant /\ r.pr = pr /\ \A a \in aprovacoes : a.execucao # r.id}

DoPullRequest(tenant, pr) == {r \in execucoes : r.tenant = tenant /\ r.pr = pr}

Posterior(s, r) == s.criadoEm > r.criadoEm \/ (s.criadoEm = r.criadoEm /\ s.id > r.id)

(* Variant: ascending order. *)
MaisAntiga(r, linhas) == r \in linhas /\ \A s \in linhas : ~Posterior(r, s)

(* GetLatestTaskRunForPullRequest: ORDER BY created_at DESC, id DESC *)
MaisRecente(r, linhas) == r \in linhas /\ \A s \in linhas : ~Posterior(s, r)

Confirmadas == {r \in execucoes : \E q \in Requisicoes : status[q] = 202 /\ entrega[q] = r.entrega}

(* CreateTaskRun: now() is an instant between the request's arrival and its
   commit; id is a random uuid. *)
NovaTaskRun(p, id, t) ==
  [id |-> id, entrega |-> entrega[p], tenant |-> CargaDe(p).tenant, pr |-> CargaDe(p).pr,
   criadoEm |-> t]

InserirTaskRun(p) ==
  /\ DaEntrega(entrega[p], execucoes) = {}
  /\ \E id \in IdsTaskRun, t \in chegada[p] .. relogio :
       /\ \A r \in execucoes : r.id # id
       /\ execucoes' = execucoes \union {NovaTaskRun(p, id, t)}

(* CreateApproval: INSERT ... SELECT ... ON CONFLICT (delivery_id) DO NOTHING *)
NovaAprovacao(p) ==
  [entrega |-> entrega[p], execucao |-> alvo[p].id, tenant |-> alvo[p].tenant,
   decisao |-> DecisaoPorEstadoDeReview(CargaDe(p).gatilho), origem |-> p]

(* Variant: ON CONFLICT DO UPDATE. *)
InserirAprovacaoSubstituindo(p) ==
  /\ alvo[p] \in execucoes
  /\ aprovacoes' = (aprovacoes \ DaEntrega(entrega[p], aprovacoes)) \union {NovaAprovacao(p)}

InserirAprovacao(p) ==
  /\ DaEntrega(entrega[p], aprovacoes) = {}
  /\ alvo[p] \in execucoes
  /\ aprovacoes' = aprovacoes \union {NovaAprovacao(p)}

------------------------------------------------------------------------------
(* manipularWebhookGitHub: the body cannot be read or the signature is wrong. *)
RejeitarNaPorta(p) ==
  /\ \E s \in {400, 401} : Responder(p, "livre", s)
  /\ UNCHANGED <<entrega, chegada, alvo, execucoes, aprovacoes, relogio, conhecidas>>

Receber(p, e) ==
  LET s == Triagem(Carga[e])
  IN /\ \/ s # 0 /\ Responder(p, "livre", s)
        \/ s = 0 /\ UNCHANGED status /\ Ir(p, "livre",
             IF Carga[e].evento = "pull_request" THEN "criar" ELSE "buscar")
     /\ entrega' = [entrega EXCEPT ![p] = e]
     /\ chegada' = [chegada EXCEPT ![p] = relogio]
     /\ conhecidas' = [conhecidas EXCEPT ![p] = Confirmadas]
     /\ UNCHANGED <<alvo, execucoes, aprovacoes, relogio>>

(* CriarTaskRun: validation, then the insertion; a conflict leaves the row. *)
CriarTaskRun(p) ==
  /\ pc[p] = "criar"
  /\ \/ /\ CargaDe(p).defeito # "nenhum"
        /\ Responder(p, "criar", 500)
        /\ UNCHANGED execucoes
     \/ /\ CargaDe(p).defeito = "nenhum"
        /\ InserirTaskRun(p)
        /\ Responder(p, "criar", 202)
     \/ /\ CargaDe(p).defeito = "nenhum"
        /\ DaEntrega(entrega[p], execucoes) # {}
        /\ Ir(p, "criar", "reentrega")
        /\ UNCHANGED <<status, execucoes>>
  /\ UNCHANGED <<entrega, chegada, alvo, aprovacoes, relogio, conhecidas>>

(* BuscarTaskRunPorDeliveryID after a conflict *)
BuscarExistente(p) ==
  /\ pc[p] = "reentrega"
  /\ Responder(p, "reentrega", IF DaEntrega(entrega[p], execucoes) # {} THEN 202 ELSE 500)
  /\ UNCHANGED <<entrega, chegada, alvo, execucoes, aprovacoes, relogio, conhecidas>>

(* RegistrarRevisao: the conversion of the number, then the latest task_run. *)
BuscarMaisRecente(p) ==
  LET linhas == DoPullRequest(CargaDe(p).tenant, CargaDe(p).pr)
  IN /\ pc[p] = "buscar"
     /\ \/ /\ CargaDe(p).defeito = "numero"
           /\ Responder(p, "buscar", 500)
           /\ UNCHANGED alvo
        \/ /\ CargaDe(p).defeito # "numero"
           /\ linhas = {}
           /\ Responder(p, "buscar", 204)
           /\ UNCHANGED alvo
        \/ /\ CargaDe(p).defeito # "numero"
           /\ Ir(p, "buscar", "gravar")
           /\ \E r \in linhas : MaisRecente(r, linhas) /\ alvo' = [alvo EXCEPT ![p] = r]
           /\ UNCHANGED status
     /\ UNCHANGED <<entrega, chegada, execucoes, aprovacoes, relogio, conhecidas>>

(* RegistrarAprovacao: validation, then the insertion. *)
GravarAprovacao(p) ==
  /\ pc[p] = "gravar"
  /\ \/ /\ CargaDe(p).defeito # "nenhum"
        /\ Responder(p, "gravar", 500)
        /\ UNCHANGED aprovacoes
     \/ /\ CargaDe(p).defeito = "nenhum"
        /\ InserirAprovacao(p)
        /\ Responder(p, "gravar", 202)
     \/ /\ CargaDe(p).defeito = "nenhum"
        /\ alvo[p] \in execucoes => DaEntrega(entrega[p], aprovacoes) # {}
        /\ Ir(p, "gravar", "conferir")
        /\ UNCHANGED <<status, aprovacoes>>
  /\ UNCHANGED <<entrega, chegada, alvo, execucoes, relogio, conhecidas>>

(* No row inserted: a redelivery, or a task_run that does not exist. *)
ConferirTaskRun(p) ==
  /\ pc[p] = "conferir"
  /\ Responder(p, "conferir", IF alvo[p] \in execucoes THEN 202 ELSE 204)
  /\ UNCHANGED <<entrega, chegada, alvo, execucoes, aprovacoes, relogio, conhecidas>>

(* A call to PostgreSQL fails, or its context is done; an insertion may have
   been committed although its reply was lost. *)
FalharNoBanco(p) ==
  /\ BancoFalha
  /\ \E de \in EmBanco : Responder(p, de, 500)
  /\ \/ UNCHANGED <<execucoes, aprovacoes>>
     \/ /\ pc[p] = "criar" /\ CargaDe(p).defeito = "nenhum"
        /\ InserirTaskRun(p)
        /\ UNCHANGED aprovacoes
     \/ /\ pc[p] = "gravar" /\ CargaDe(p).defeito = "nenhum"
        /\ InserirAprovacao(p)
        /\ UNCHANGED execucoes
  /\ UNCHANGED <<entrega, chegada, alvo, relogio, conhecidas>>

(* The API process dies: the requests in course get no answer. *)
Reiniciar ==
  /\ \E p \in Requisicoes : pc[p] \in EmBanco
  /\ pc' = [p \in Requisicoes |-> IF pc[p] \in EmBanco THEN "perdida" ELSE pc[p]]
  /\ UNCHANGED <<entrega, chegada, alvo, status, execucoes, aprovacoes, relogio, conhecidas>>

PassarTempo ==
  /\ relogio < MaxRelogio
  /\ relogio' = relogio + 1
  /\ UNCHANGED <<pc, entrega, chegada, alvo, status, execucoes, aprovacoes, conhecidas>>

------------------------------------------------------------------------------
Init ==
  /\ pc = [p \in Requisicoes |-> "livre"]
  /\ entrega = [p \in Requisicoes |-> SemEntrega]
  /\ chegada = [p \in Requisicoes |-> 0]
  /\ alvo = [p \in Requisicoes |-> SemAlvo]
  /\ status = [p \in Requisicoes |-> 0]
  /\ execucoes = {} /\ aprovacoes = {}
  /\ relogio = 0
  /\ conhecidas = [p \in Requisicoes |-> {}]

Servir(p) ==
  \/ CriarTaskRun(p) \/ BuscarExistente(p) \/ BuscarMaisRecente(p)
  \/ GravarAprovacao(p) \/ ConferirTaskRun(p) \/ FalharNoBanco(p)

Next ==
  \/ \E p \in Requisicoes :
       RejeitarNaPorta(p) \/ (\E e \in Entregas : Receber(p, e)) \/ Servir(p)
  \/ Reiniciar
  \/ PassarTempo

Spec == Init /\ [][Next]_vars

------------------------------------------------------------------------------
(* Properties *)

TypeOK ==
  /\ pc \in [Requisicoes -> Etapas]
  /\ entrega \in [Requisicoes -> Entregas \union {SemEntrega}]
  /\ chegada \in [Requisicoes -> Relogio]
  /\ alvo \in [Requisicoes -> TaskRuns \union {SemAlvo}]
  /\ status \in [Requisicoes -> {0, 202, 204, 400, 401, 500}]
  /\ execucoes \subseteq TaskRuns
  /\ aprovacoes \subseteq Aprovacoes
  /\ relogio \in Relogio
  /\ conhecidas \in [Requisicoes -> SUBSET TaskRuns]

(* 202 is answered only when the event is on record, exactly once whatever was
   redelivered or raced: a pull_request event has one task_run, of its own
   tenant and pull request; a deciding review has one approval, with its
   decision, on a task_run of its own tenant and pull request. *)
RespostaCumprida ==
  \A p \in Requisicoes : status[p] = 202 =>
    LET c == CargaDe(p) IN
    IF c.evento = "pull_request"
    THEN \E r \in execucoes : /\ DaEntrega(entrega[p], execucoes) = {r}
                              /\ r.tenant = c.tenant /\ r.pr = c.pr
    ELSE \E a \in aprovacoes, r \in execucoes :
           /\ DaEntrega(entrega[p], aprovacoes) = {a}
           /\ a.execucao = r.id /\ (a.decisao = "aprovada" <=> c.gatilho = "approved")
           /\ r.tenant = c.tenant /\ a.tenant = c.tenant /\ r.pr = c.pr

(* A redelivery, or an attempt answered 500, never changes nor doubles what an
   earlier delivery of the same id recorded. *)
EntregaEstavel ==
  \A e \in Entregas :
    /\ DaEntrega(e, execucoes) # {} => DaEntrega(e, execucoes)' = DaEntrega(e, execucoes)
    /\ DaEntrega(e, aprovacoes) # {} => DaEntrega(e, aprovacoes)' = DaEntrega(e, aprovacoes)
ReentregaNaoMuda == [][EntregaEstavel]_vars

(* A deciding review is dropped with 204 only if, when it arrived, GitHub had
   not yet been told that a task_run of its pull request was accepted. *)
RevisaoNaoPerdida ==
  \A p \in Requisicoes :
    status[p] = 204 /\ Triagem(CargaDe(p)) = 0 =>
      \A r \in conhecidas[p] : ~(r.tenant = CargaDe(p).tenant /\ r.pr = CargaDe(p).pr)

(* An approval is recorded on a task_run that no task_run accepted before the
   review arrived succeeds. *)
AprovacaoRecente ==
  \A a \in aprovacoes, r \in execucoes :
    a.execucao = r.id =>
      \A s \in conhecidas[a.origem] : s.tenant = r.tenant /\ s.pr = r.pr => ~Posterior(s, r)

------------------------------------------------------------------------------
(* What the documentation says and the code does not do *)

(* postgres.go: "RegistrarRevisao grava a decisão de revisão no task_run mais
   recente do pull request." *)
GravaNoMaisRecente ==
  \A a \in aprovacoes' \ aprovacoes, r \in execucoes :
    a.execucao = r.id => MaisRecente(r, DoPullRequest(r.tenant, r.pr))
AprovacaoNoMaisRecente == [][GravaNoMaisRecente]_vars
==============================================================================
